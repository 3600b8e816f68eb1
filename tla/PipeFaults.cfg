SPECIFICATION FairSpec
CONSTANTS
  w1 = w1
  None = None
  d1 = d1
  d2 = d2
  other = other
  Worker = {w1}
  MaxObs = 3
  MaxTime = 2
  MaxGen = 1
  At <- Times
  DeviceOf <- TwoDevices
  Unmapped = {1}
  Foreign <- Elsewhere
  Returns = {"readings"}
  BatchMax = 2
  ChunkMax = 2
  MaxFaults = 1
  MaxBlind = 1
  MaxLate = 0
  MaxCrashes = 1
  MaxLosses = 1
  MaxConnects = 2
  MaxUpsets = 2
INVARIANTS StoredOnceUnlessBlind EvidenceBeforeClock DoubtRecorded
PROPERTIES Delivered
CHECK_DEADLOCK FALSE
