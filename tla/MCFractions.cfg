CONSTANTS
  Stamps <- Fractions
  PageSize = 2
  MaxEvents = 4
SPECIFICATION Spec
INVARIANT Chronological
CHECK_DEADLOCK FALSE
