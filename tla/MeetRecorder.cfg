SPECIFICATION Spec
CONSTANTS
    Meetings = {m1, m2}
    None = None
    Chunks = {c1, c2}
    Starts = {s1, s2}
    Stops = {k1}
    MaxKills = 1
    MaxCrashes = 1
CHECK_DEADLOCK FALSE
INVARIANTS AckedAudioStored OneCapture LostPageIsSettled
