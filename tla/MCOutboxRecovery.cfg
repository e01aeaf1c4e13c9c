CONSTANTS
  Old = 3
  N = 5
  Rejected = {2, 4}
  Poison = {}
  BatchLimit = 2
  FailMax = 2
  MaxRestarts = 1
SPECIFICATION Spec
INVARIANT TypeOK
PROPERTY DrainsOnRecovery
CHECK_DEADLOCK FALSE
