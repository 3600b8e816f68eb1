SPECIFICATION Spec
CONSTANTS
  w1 = w1
  w2 = w2
  None = None
  d1 = d1
  d2 = d2
  other = other
  Worker = {w1, w2}
  MaxObs = 2
  MaxTime = 1
  MaxGen = 0
  At <- FromTheStart
  DeviceOf <- TwoDevices
  Unmapped = {}
  Foreign <- Elsewhere
  Returns = {"readings", "count", "malformed"}
  BatchMax = 2
  ChunkMax = 2
  MaxFaults = 1
  MaxBlind = 0
  MaxLate = 1
  MaxCrashes = 1
  MaxLosses = 0
  MaxConnects = 2
  MaxUpsets = 2
SYMMETRY Interchangeable
INVARIANTS JournalTruthful
CHECK_DEADLOCK FALSE
