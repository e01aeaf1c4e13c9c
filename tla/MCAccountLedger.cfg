CONSTANTS
  e1 = e1
  e2 = e2
  e3 = e3
  c1 = c1
  c2 = c2
  c3 = c3
  c4 = c4
  c5 = c5
  c6 = c6
  v1 = v1
  alice = alice
  bob = bob
  Events = {e1, e2, e3}
  Calls = {c1, c2, c3, c4, c5, c6}
  EventOf <- Event
  AccountOf <- Owner
  Transaction <- Body
  Precision = 2
  Unsummable = {c4}
  Reads = {v1}
  ReadOf <- Asked
  RecentLimit = 2
  MaxCrashes = 1
SPECIFICATION Spec
INVARIANTS TypeOK AppliedOnce AuditTrail ViewCoversBalance LabelExplained
PROPERTIES ImplementsLedger ReplyBalanceCurrent
CHECK_DEADLOCK FALSE
