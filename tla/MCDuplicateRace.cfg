CONSTANTS
  e1 = e1
  e2 = e2
  e3 = e3
  r1 = r1
  r2 = r2
  r3 = r3
  r4 = r4
  Events = {e1, e2}
  Requests = {r1, r2}
  EventOf <- Twice
  Rejected = {}
  Poison = {}
  BatchLimit = 2
  MaxCrashes = 0
SPECIFICATION Spec
PROPERTY NoErrorForDuplicate
CHECK_DEADLOCK FALSE
