SPECIFICATION FairSpec
CONSTANTS
  smoke = smoke
  radio = radio
  Device = {smoke, radio}
  None = None
  Key = {k1, k2}
  Shared = shared
  Modes = {"local", "shared"}
  Script <- Scenario
  Registry <- Devices
  MaxGen = 1
  MaxLives = 2
  MaxFaults = 1
  MaxLate = 1
INVARIANTS AccountedFor OncePerLife CacheInStep GenerationBarrier
PROPERTIES CatchesUp
CHECK_DEADLOCK FALSE
