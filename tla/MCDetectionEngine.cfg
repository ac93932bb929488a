SPECIFICATION Spec
CONSTANTS
  RuleNames = {"deauth"}
  MACs = {m1, m2, m3, m4}
  Events <- PlainEvents
  Nil = Nil
  None = None
  Windows = {0, 1, 2}
  AlertCap = 1
  MaxDedupEntries = 2
  SweepInterval = 1
  MaxRuleEvents = 1
  MaxClock = 2
SYMMETRY Symmetry
INVARIANTS DisabledQuiesces DedupBounded
PROPERTIES DedupSpacing SuppressionNeedsRecentRecord SweepRestoresLimit
