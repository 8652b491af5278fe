SPECIFICATION FairSpec
CHECK_DEADLOCK FALSE
CONSTANTS
  Deliveries = {d1, t1}
  Tests = {t1}
  Concurrency = 3
  PerTeam = 2
  MaxAttempts = 2
  MaxStalls = 1
  Threshold = 2
  MaxCrashes = 1
  MaxExpiries = 1
  MaxBlips = 2
  MaxToggles = 1
  MaxLags = 1
  MaxEvents = 1
INVARIANTS TypeOK NoRepost CountsDeliveries
PROPERTY DeliverySettles
