SPECIFICATION Spec
CONSTANTS
  Databases <- MCDatabases
  DeviceSets <- MCDeviceSets
INVARIANTS
  CacheTransparent
  ClassNamesRight
  SubsysOfDevice
  ListedDeviceNamed
CHECK_DEADLOCK FALSE
