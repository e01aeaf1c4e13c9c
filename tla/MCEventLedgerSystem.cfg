CONSTANTS
  e1 = e1
  e2 = e2
  e3 = e3
  r1 = r1
  r2 = r2
  r3 = r3
  r4 = r4
  Events = {e1, e2, e3}
  Requests = {r1, r2, r3, r4}
  EventOf <- Resubmission
  Rejected = {e2}
  Poison = {e3}
  BatchLimit = 2
  MaxCrashes = 1
  CountMax = 2
SPECIFICATION SysSpec
INVARIANTS ContentOK QueuedIffPending DrainSnapshotFresh Agreement NoOrphanWithoutCrash OneOriginal ReplyDurable AuditTrail ContentAgrees CountExact
PROPERTIES ImplementsLifecycle
CHECK_DEADLOCK FALSE
