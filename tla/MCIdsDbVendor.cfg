SPECIFICATION Spec
CONSTANTS
  Databases <- MCDatabases
  DeviceSets <- MCDeviceSets
INVARIANTS
  CachedOfVendor
CHECK_DEADLOCK FALSE
