SPECIFICATION Spec
CONSTANTS
  APs = {ap}
  Clients = {c1}
  SSIDs = {"net"}
  None = None
  TTL = 2
  ProbeOnlyTTL = 1
  MaxClock = 4
  MaxLag = 1
PROPERTIES RetainedWhileFresh EntryKept
