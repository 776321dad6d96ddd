SPECIFICATION Spec
CONSTANTS
  Reach = 2
  None = None
  MaxState = 5
  MaxFaults = 2
  MayRevoke = TRUE
INVARIANTS
  TypeOK
  PollsDontOverlap
  StreamCaughtUp
PROPERTIES
  EveryChangePolled
  RevokedEnds
  AbortEnds
CHECK_DEADLOCK FALSE
