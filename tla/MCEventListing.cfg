CONSTANTS
  Stamps <- OneFormPerSecond
  PageSize = 2
  MaxEvents = 4
SPECIFICATION Spec
INVARIANTS TypeOK Chronological NoEventSkipped TotalCoversPages
CHECK_DEADLOCK FALSE
