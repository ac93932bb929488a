SPECIFICATION FairSpec
CONSTANTS
  Dwells <- TwoChannels
  FailureThreshold = 2
  MaxBackoff = 4
  DisableTimeout = 1
  HookBudget = 1
  Deadline = 6
  ConsumerTimeout = 2
INVARIANTS HopperQuiet ExitClean ClosedAfterConsumers
PROPERTIES WaitsGrow DaemonExits
