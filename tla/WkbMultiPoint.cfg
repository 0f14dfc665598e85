SPECIFICATION Spec
CONSTANTS
  MaxPts = 2
  MaxRows = 2
  Results <- WithMultiPoints
INVARIANT EveryPartStreamed
