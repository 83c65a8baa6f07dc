SPECIFICATION Spec
CONSTANTS
  Descs <- MCDescs
  InteractiveElemMax = 1024
  MaxOpen = 2
  NoDevice = NoDevice
INVARIANTS
  TypeOK
  LitIffShown
  LabelsTrue
  EveryBitLabelled
  TitlesApart
PROPERTIES
  PressShowsOne
  ImplementsHighlightStore
