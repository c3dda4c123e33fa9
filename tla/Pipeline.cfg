SPECIFICATION FairSpec
CONSTANTS
    MaxJobs = 4
    MaxAttempts = 2
    Faults = {"crash", "write", "unlink"}
    MaxFaults = 2
    MaxLen = 3
    BatchUnits = 2
    Speech = {3}
    MaxSummaryAttempts = 1
    MaxNotesRetries = 1
INVARIANT NoAudioForgotten
INVARIANT CrashLosesAtMostOneBatch
INVARIANT NotesFaithful
PROPERTY RetryQueueSpec
PROPERTY QueueDrains
CHECK_DEADLOCK FALSE
