SPECIFICATION Spec
CONSTANTS
  WhiteItems = {"white1"}
  BlackItems = {}
  Comments = {"a"}
  ListHandlers = {l1}
  Absent = Absent
  Defaults <- Yaml
  Patches <- SomePatches
  ConfigHandlers = {c1}
  Refused = "bad"
  Unset = Unset
  Second = 2
  MaxTime = 5
  IPs = {ip}
  Logins = {p1}
  Requests = {r}
  Tokens = {t1}
  Threshold = 2
  FailureWindow = 2
  Lockout = 2
  SessionTTL = 3
  MaxFailures = 6
  None = None
  Tables <- Stored
  Keep <- KeepTwo
  Every <- EveryOther
  Offsets <- London
  MaxRows = 5
  StatsHandlers = {s1}
  StatsWindows = {"hour"}
  CacheTTL = 2
  MaxCompute = 1
  NoAnswer = NoAnswer
  NoVersion = NoVersion
  Workloads <- OnlySchema
INVARIANT MigrateEnsures
