SPECIFICATION Spec
CONSTANTS
  Capturers = {c1}
  Viewers = {v1}
  Dirs = {here, there}
  Cwd <- MCCwd
  Names = {snap}
  Topologies <- MCTopologies
  NoInode = NoInode
  Foreign = Foreign
  Pending = Pending
  Refused = Refused
PROPERTIES
  PublishedWhereRequested
CHECK_DEADLOCK FALSE
