SPECIFICATION Spec
CONSTANTS
  WhiteItems = {"white1"}
  BlackItems = {"black1"}
  Comments = {"a", "b"}
  ListHandlers = {l1, l2}
  Absent = Absent
  Defaults <- Yaml
  Patches <- SomePatches
  ConfigHandlers = {c1, c2}
  Refused = "bad"
  Unset = Unset
  Second = 2
  MaxTime = 5
  IPs = {ip}
  Logins = {p1, p2}
  Requests = {r}
  Tokens = {t1, t2}
  Threshold = 2
  FailureWindow = 2
  Lockout = 2
  SessionTTL = 3
  MaxFailures = 6
  None = None
  Tables <- Stored
  Keep <- KeepTwo
  Every <- EveryOther
  Offsets <- London
  MaxRows = 5
  StatsHandlers = {s1, s2}
  StatsWindows = {"hour", "day"}
  CacheTTL = 2
  MaxCompute = 1
  NoAnswer = NoAnswer
  NoVersion = NoVersion
  Workloads <- OneAtATime
SYMMETRY Symmetry
INVARIANTS ListsAgree SettingsAgree FailuresBounded LockoutJustified RowsBounded AnswersRecent OpenIsCurrent
PROPERTIES SessionsLast NewestKept
