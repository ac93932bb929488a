SPECIFICATION Spec
CONSTANTS
  APs = {ap}
  Clients = {c1}
  SSIDs = {"net"}
  None = None
  TTL = 2
  ProbeOnlyTTL = 1
  MaxClock = 5
  MaxLag = 1
INVARIANTS FirstSeenKnown
