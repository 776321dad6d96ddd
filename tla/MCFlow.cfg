SPECIFICATION FlowSpec
CONSTANTS
  c1 = c1
  c2 = c2
  c3 = c3
  a1 = a1
  g1 = g1
  Agents = {g1, g2}
  Bots = {a1, a2}
  Unset = Unset
  Accounts = {a1, a2}
  Config <- FirstConfig
  Discovered <- FirstAccounts
  Credentials = {c1, c3}
  MailboxOf <- Mailboxes
  Callers = {p1, w}
  Steady = {w}
  Watcher = w
  None = None
  NotStarted = NotStarted
  MaxCalls = 1
  MaxStops = 1
  MaxFaults = 1
INVARIANTS
  FlowTypeOK
  AccountsIsolated
  MailboxesUnique
  AgentsSeparate
  ObservedInUse
PROPERTIES
  EveryCallReturns
  StoredComesIntoUse
CHECK_DEADLOCK FALSE
