CONSTANTS
  j1 = j1
  j2 = j2
  r1 = r1
  r2 = r2
  q1 = q1
  q2 = q2
  q3 = q3
  h1 = h1
  h2 = h2
  s1 = s1
  c1 = c1
  w = w
  v = v
  None = None
  Jobs <- MCJobs
  Notes <- MCJobs
  Runs <- MCRuns
  Asks <- MCAsks
  Hooks <- MCHooks
  Senders <- MCSenders
  Cleaners = {c1}
  Callers <- MCCallers
  Accounts = {w, v}
  Home <- MCHome
  Days <- MCDays
  Limit <- MCLimit
  Estimate = 2
  Reports <- MCReports
  MaxTries = 2
  Trial <- MCTrial
  MaxHooks = 2
  MaxDeliveries = 2
  BatchSize = 1
  Slots = 2
  JobAttempts = 2
  PlanSeconds = 2
  AudioLimit = 3
  QuestionLimit = 1
  MaxInFlight = 2
  Scenes <- MCScenes
SYMMETRY Symmetry
SPECIFICATION HostedSpec
INVARIANTS
  
  LostWorkStops
  ToldOnce
CHECK_DEADLOCK FALSE
