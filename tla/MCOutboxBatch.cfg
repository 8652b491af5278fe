SPECIFICATION Spec
CONSTANTS
  Rows = {1, 2, 3}
  SyncRows = {3}
  Corrupt = {2}
  Ticks = {t1}
  NoTick = NoTick
  MaxClaims = 2
  MaxDrains = 2
  Lanes = 2
  StampTries = 2
  Lease = 3
  Watchdog = 2
  MaxRestarts = 1
  MaxBlips = 1
  MaxHangs = 0
  PerTeamCap = 2
  BatchSize = 3
  WindowSize = 4
  TeamOf <- OneTeam
INVARIANTS
  TypeOK
  StampedRowsRan
  ErrorBeforeGreen
  FairShare
  WorkConserving
