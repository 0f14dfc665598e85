SPECIFICATION Spec
CONSTANTS
  MaxHeaders = 2
INVARIANTS
  HeadersInBounds
  GateOpensInTime
  PiecesAgree
CHECK_DEADLOCK FALSE
