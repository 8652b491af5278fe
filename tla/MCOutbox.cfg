SPECIFICATION FairSpec
CONSTANTS
  Rows = {1}
  SyncRows = {}
  Corrupt = {}
  Ticks = {t1, t2}
  NoTick = NoTick
  MaxClaims = 2
  MaxDrains = 2
  Lanes = 1
  StampTries = 2
  Lease = 3
  Watchdog = 2
  MaxRestarts = 2
  MaxBlips = 1
  MaxHangs = 1
  PerTeamCap = 2
  BatchSize = 2
  WindowSize = 16
  TeamOf <- OneTeam
INVARIANTS
  RedeliveryBounded
  LatchDiscipline
PROPERTIES
  LatchKept
  KeepsContract
  PendingSettles
