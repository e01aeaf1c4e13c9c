CONSTANTS
  p1 = p1
  p2 = p2
  p3 = p3
  p4 = p4
  p5 = p5
  p6 = p6
  g1 = g1
  h1 = h1
  Requests = {p1, p2, p3, p4, p5, p6, g1, h1}
  Kind <- Kinds
  Client <- Origins
  Body <- Bodies
  Limit = 2
  MaxCrashes = 1
SYMMETRY Alike
SPECIFICATION Spec
INVARIANTS TypeOK LimitEarned
CHECK_DEADLOCK FALSE
