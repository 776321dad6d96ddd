SPECIFICATION Spec
CONSTANTS
  Emails = {e1, e2}
  Calls = {c1, c2, c3}
  None = None
  MaxFlips = 1
  MaxFaults = 2
SYMMETRY Symmetry
INVARIANTS
  OneAutoReply
  NotSentIsTrue
  EffectsBounded
PROPERTIES
  NoRepeatedNotice
CHECK_DEADLOCK FALSE
