SPECIFICATION FairSpec
CONSTANTS
  Hooks = {h1, h2, h3}
  Callers = {c1, c2}
  HookBudget = 2
  Deadline = 3
INVARIANTS EveryHookInTurn ErrorsComplete
PROPERTIES ShutdownReturns
