SPECIFICATION Spec
CONSTANTS
  w1 = w1
  None = None
  d1 = d1
  d2 = d2
  other = other
  Worker = {w1}
  MaxObs = 1
  MaxTime = 2
  MaxGen = 0
  At <- Times
  DeviceOf <- TwoDevices
  Unmapped = {}
  Foreign <- Elsewhere
  Returns = {"readings"}
  BatchMax = 2
  ChunkMax = 2
  MaxFaults = 1
  MaxBlind = 1
  MaxLate = 0
  MaxCrashes = 0
  MaxLosses = 0
  MaxConnects = 1
  MaxUpsets = 0
INVARIANTS StoredOnce
CHECK_DEADLOCK FALSE
