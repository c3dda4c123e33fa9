SPECIFICATION Spec
CONSTANTS
    Folders = {fa, ga, ha}
    Notes = {na, ma, ka}
    Users = {owner, member}
    Owners = {owner}
    Sweeper = sweeper
    Names = {plans, team}
    fa = fa
    ga = ga
    ha = ha
    na = na
    ma = ma
    ka = ka
    owner = owner
    member = member
    plans = plans
    team = team
    Start <- StartLibraries
    Spare = {r1, r2, r3}
    Top = top
    None = none
    MaxDepth = 2
    MaxFolders = 3
    PurgeBatch = 1
    MaxBulk = 2
    MaxRequests = 3
INVARIANTS SoundLibrary UndoIsExact
PROPERTIES LiveNotesSurvive
CONSTRAINT Uncrossed
CHECK_DEADLOCK FALSE
