CONSTANTS
  Old = 4
  N = 5
  Rejected = {}
  Poison = {1}
  BatchLimit = 4
  FailMax = 3
  MaxRestarts = 1
SPECIFICATION Spec
PROPERTY DrainsOnRecovery
CHECK_DEADLOCK FALSE
