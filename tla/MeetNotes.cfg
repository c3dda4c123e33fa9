SPECIFICATION FairSpec
CONSTANTS
    m1 = m1
    m2 = m2
    Meetings = {m1, m2}
    Gone = Gone
    SegCount = 2
    Scenes <- MCScenes
    HelperScripts <- MCScripts
INVARIANTS
    StoreSound
    NothingPaidTwice
    SyncKept

    
CHECK_DEADLOCK FALSE
