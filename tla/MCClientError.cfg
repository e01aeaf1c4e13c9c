CONSTANTS
  Callers = {c1, c2}
  FailMax = 2
SPECIFICATION Spec
PROPERTY ClientErrorNotCounted
