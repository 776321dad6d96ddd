SPECIFICATION Spec
CONSTANTS
  Accounts = {a1, a2}
  Emails = {e1, e2}
  NoEmail = NoEmail
  NoState = NoState
  MaxChanges = 1
  MaxPages = 1
  MaxProcessed = 1
  MaxState = 3
  MaxFaults = 2
PROPERTIES
  NoRepeatAfterRecord
  EveryMailSettled
CHECK_DEADLOCK FALSE
