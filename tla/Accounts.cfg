SPECIFICATION Spec
CONSTANTS
  ann = ann
  bob = bob
  cat = cat
  u = u
  v = v
  net = net
  p1 = p1
  p2 = p2
  None = None
  Emails <- MCEmails
  Workspaces <- MCWorkspaces
  Addresses <- MCAddresses
  Procs <- MCProcs
  Free <- MCFree
  Scenes <- MCScenes
  MaxTokens = 2
SYMMETRY Symmetry
INVARIANTS
  OwnersKept
  OldCredentialsEnd
  
CHECK_DEADLOCK FALSE
