SPECIFICATION Spec
CONSTANTS
  MaxPts = 2
  MaxRows = 2
  Results <- Supported
INVARIANTS
  TypeOK
  BufferFits
  RecordsAbut
  EveryPartStreamed
PROPERTY Terminates
