SPECIFICATION FairSpec
CONSTANTS
  smoke = smoke
  radio = radio
  Device = {smoke, radio}
  None = None
  Key = {k1, k2}
  Shared = shared
  Modes = {"local"}
  Script <- Scenario
  Registry <- Devices
  MaxGen = 0
  MaxLives = 2
  MaxFaults = 0
  MaxLate = 0
PROPERTIES RunIsPlayed
CHECK_DEADLOCK FALSE
