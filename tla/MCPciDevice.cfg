SPECIFICATION Spec
CONSTANTS
  DeviceDescs <- MCDescs
  VmInfos <- MCVmInfos
  Beyond <- MCBeyond
  PgSize = 4
  MaxCaps = 5
INVARIANTS
  CapsOfChains
  ExpressFound
  BarMappingsRight
PROPERTIES
  WalkNearer
  WalkEnds
CHECK_DEADLOCK FALSE
