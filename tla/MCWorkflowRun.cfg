SPECIFICATION FairSpec
CHECK_DEADLOCK FALSE
CONSTANTS
  Kind <- AskWaitSend
  Concurrency = 2
  MaxAttempts = 2
  MaxReplies = 1
  MaxCrashes = 1
  MaxExpiries = 1
  MaxBlips = 1
  MaxLosses = 1
  MaxLags = 1
  MaxUnpublishes = 1
  MaxEvents = 1
INVARIANTS TypeOK  
PROPERTIES WaitRunsOut RunSettles
