SPECIFICATION Spec
CONSTANTS
  Accounts = {a1, a2}
  Emails = {e1, e2, e3}
  NoEmail = NoEmail
  NoState = NoState
  MaxChanges = 3
  MaxPages = 2
  MaxProcessed = 1
  MaxState = 3
  MaxFaults = 2
SYMMETRY Symmetry
INVARIANTS
  TypeOK
  NothingSkipped
  OneRepeatPerFault
PROPERTIES
  NoHistoricalDispatch
  DeliversInbox
CHECK_DEADLOCK FALSE
