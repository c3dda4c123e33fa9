SPECIFICATION Spec
CONSTANTS
    Jobs = {j1, j2}
    MaxAttempts = 2
    Faults = {"crash", "write", "unlink", "read", "corrupt"}
    MaxFaults = 3
 
INVARIANT NoAckedJobVanishes
INVARIANT NoDuplicateWork
