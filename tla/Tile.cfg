SPECIFICATION Spec
CONSTANTS
  Numbers = {0, 1, 2, 11, 31}
  MaxPath = 6
  Rests <- AfterPath
  SpinLimit = 1
  Depth = 4
  MaxZoom = 2
  Undefined = Undefined
INVARIANTS
  AddressDecides
  BoxIsTileAskedFor
  OffsetsInTile
