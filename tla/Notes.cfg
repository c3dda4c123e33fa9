SPECIFICATION Spec
CONSTANTS
    NoteCount = 2
    Pages = {p1}
    Writers = {w1, w2}
    MaxRegens = 1
    MaxShares = 1
    PageSize = 1
    Overlap = 2
    TxTime = 1
    Lead = 1
    MaxTexts = 3
    MaxTime = 3
    Scenes <- MCScenes
    MaxFaults = 1
INVARIANTS NoBlindOverwrite  
CHECK_DEADLOCK FALSE
