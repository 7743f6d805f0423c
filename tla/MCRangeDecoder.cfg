SPECIFICATION Spec
CONSTANTS
  Radix = 4
  Total = 8
  Move = 4
  Contexts = {c1, c2}
  BufSize = 2
  Messages <- MCMessages
  MaxBits = 5
INVARIANTS
  ProbsInside
  InRange
  CodeIsOffset
PROPERTIES
  AcceptanceExact
  ImplementsEncoder
CHECK_DEADLOCK FALSE
