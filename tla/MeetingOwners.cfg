SPECIFICATION MCSpec
CONSTANTS
    Jobs = {j1, j2}
    Tasks = {t1, t2}
    MaxPipelines = 2
    MaxPorts = 3
    TopBackoff = 1
    MaxTokens = 2
    MaxEdits = 2
    Pages = {pg1, pg2}
    Probes = {rq1, rq2}
    LinkScenes <- MCLinkScenes
    NewestMeeting = 3
    LastChunk = 2
    Batch = 2
    MeetingLimit = 2
    ByteLimit = 2
    TransferScenes <- MCTransferScenes
SYMMETRY Symmetry
INVARIANTS
    NoJobDropped
    LinkSound
    
    TransferComplete
CHECK_DEADLOCK FALSE
