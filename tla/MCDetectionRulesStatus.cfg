SPECIFICATION Spec
CONSTANTS
  None = None
  BSSIDs = {b1, b2, b3}
  SSIDs = {"home"}
  Profiles <- OnAir
  CleanupInterval = 3
  MaxTime = 3
  FloodKeys = {k1, k2}
  FloodThreshold = 3
  FloodWindow = 1
  FloodMaxAge = 2
  BeaconThreshold = 2
  BeaconWindow = 1
  LearningPeriod = 1
  BeaconMaxAge = 1
  IEWeights <- Weights
  ScoreThreshold = 80
  StaleTimeout = 2
  TwinLearning = 1
  MinBeacons = 2
  Devices = {"intruder", "guest", "owner"}
  Whitelist = {"owner"}
  ProtectedBSSIDs = {"ap"}
  ProtectedSSIDs = {"home"}
  AlertOnProbe = TRUE
  Cooldown = 2
  Configurations <- NoRule
  Transmissions <- Stations
  Receptions <- Heard
INVARIANTS OnlySuccesses
