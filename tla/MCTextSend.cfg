SPECIFICATION FairSpec
CONSTANTS
  Jobs = {j1}
  Runs = {r1, r2}
  NoRun = NoRun
  NoJob = NoJob
  Workspaces = {w1}
  TeamCap = 2
  Attempts = 3
  MaxStalled = 2
  MaxPosts = 2
  MaxRestarts = 1
  MaxLockLosses = 1
  MaxBlips = 2
  WorkspaceOf <- OneWorkspace
INVARIANTS
  CommittedOnce
  TypeOK
  AtMostOneAcceptance
  SentMeansAccepted
  CompletedHasMessage
PROPERTIES
  
  FailureAnnounced
