SPECIFICATION Spec
CONSTANTS
  Recipients = {r1}
  Runs = {k1}
  NoRun = NoRun
  Lanes = 1
  Threshold = 1
  MaxDefers = 0
  Errors = {"lost"}
  UsesMedia = FALSE
  MaxRestarts = 0
  MaxCancels = 0
  MaxRetries = 0
  MaxTemplate = 1
  MaxBlips = 0
  MaxOverlaps = 0
  MaxEvents = 1
INVARIANTS
  NeverEarly
