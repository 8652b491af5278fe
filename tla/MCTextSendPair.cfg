SPECIFICATION FairSpec
CONSTANTS
  Jobs = {j1, j2}
  Runs = {r1, r2}
  NoRun = NoRun
  NoJob = NoJob
  Workspaces = {w1}
  TeamCap = 1
  Attempts = 2
  MaxStalled = 1
  MaxPosts = 1
  MaxRestarts = 1
  MaxLockLosses = 0
  MaxBlips = 1
  WorkspaceOf <- OneWorkspace
INVARIANTS
  SlotsExact
PROPERTIES
  JobsSettle
