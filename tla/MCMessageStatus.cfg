SPECIFICATION FairSpec
CONSTANTS
  Receipts = {"r", "f"}
  Watermarks = {"w"}
  StatusOf <- Carries
  Creator = "creator"
  None = "none"
  MaxFaults = 1
  MaxRepeats = 1
CHECK_DEADLOCK FALSE

  
PROPERTIES
  StatusForward
  
