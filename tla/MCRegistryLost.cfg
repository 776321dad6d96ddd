SPECIFICATION Spec
CONSTANTS
  c1 = c1
  c2 = c2
  c3 = c3
  Accounts = {a1, a2}
  Discovered = {a1, a2}
  Credentials = {c1, c3}
  MailboxOf <- Mailboxes
  Callers = {p1, p2}
  Steady = {}
  None = None
  NotStarted = NotStarted
  MaxCalls = 1
  MaxStops = 0
INVARIANTS
  FingerprintsMatch
CHECK_DEADLOCK FALSE
