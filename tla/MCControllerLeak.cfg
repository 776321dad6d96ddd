SPECIFICATION Spec
CONSTANTS
  Callers = {p1}
  Stoppers = {}
  Services = {s1, s2}
  Loads = {}
  None = None
  MaxTurns = 0
  MaxCalls = 2
INVARIANTS
  NoSecondRuntime
CHECK_DEADLOCK FALSE
