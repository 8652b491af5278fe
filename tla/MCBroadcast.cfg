SPECIFICATION Spec
CONSTANTS
  Recipients = {r1}
  Runs = {k1, k2}
  NoRun = NoRun
  Lanes = 1
  Threshold = 1
  MaxDefers = 1
  Errors = {"lost", "pair", "abuse"}
  UsesMedia = FALSE
  MaxRestarts = 1
  MaxCancels = 1
  MaxRetries = 1
  MaxTemplate = 0
  MaxBlips = 1
  MaxOverlaps = 1
  MaxEvents = 2
INVARIANTS
  TypeOK
  NoDuplicate
  SentMeansAccepted
PROPERTIES
  CancelSticks
  AbusePauseHolds
