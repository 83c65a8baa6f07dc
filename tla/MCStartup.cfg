SPECIFICATION Program
CONSTANTS
  Systems <- MCFiles
  Hosts <- MCHosts
  Dots = 108
INVARIANTS
  TypesOK
  NoBlockTwice
  LayoutComplete
  TreeOrder
  FitsCanvas
  ServesRequest
PROPERTIES
  ComesNearer
  AlwaysSettles
CHECK_DEADLOCK FALSE
