SPECIFICATION Spec
CONSTANTS
  Accounts = {a1, a2}
  Enabled = {a1}
  Runtimes = {r1, r2}
  Loops = {l1, l2, l3, l4}
  None = None
  MaxCalls = 2
  MaxStops = 2
  MaxFaults = 1
INVARIANTS
  LoopsDontOverlap
  QuietWhenStopped
  LatestRuntimeWins
PROPERTIES
  CallsReturn
CHECK_DEADLOCK FALSE
