SPECIFICATION Spec
CONSTANTS
  Callers = {p1, p2}
  Stoppers = {q1, q2}
  Services = {s1, s2}
  Loads = {l1, l2}
  None = None
  MaxTurns = 2
  MaxCalls = 2
INVARIANTS
  TypeOK
  WholeOrNothing
  StartsFromNothing
PROPERTIES
  CallsReturn
CHECK_DEADLOCK FALSE
