SPECIFICATION Spec
CONSTANTS
  Descs <- MCDescs
  InteractiveElemMax = 1024
  MaxOpen = 2
  NoDevice = NoDevice
INVARIANTS
  RowsTrue
