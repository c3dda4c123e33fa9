SPECIFICATION Spec
CONSTANTS
    Clients = {a, b}
    Keys = {k1, k2}
    Uploads = {u1, u2}
    Objects = {o1, o2}
    None = None
    NumChunks = 1
    MaxPending = 1
    MaxFaults = 1
CHECK_DEADLOCK FALSE
INVARIANTS  JobHasAudio
SYMMETRY ClientsAndKeys
CONSTRAINT FailuresOfOneRecording
