SPECIFICATION FairSpec
CONSTANTS
  Recipients = {r1, r2}
  Runs = {k1}
  NoRun = NoRun
  Lanes = 2
  Threshold = 2
  MaxDefers = 0
  Errors = {"template", "rate"}
  UsesMedia = TRUE
  MaxRestarts = 1
  MaxCancels = 1
  MaxRetries = 1
  MaxTemplate = 1
  MaxBlips = 1
  MaxOverlaps = 0
  MaxEvents = 1
INVARIANTS
  SentCountHonest
PROPERTIES
  QueuedIsFired
  PauseLifts
  CanceledSettles
