SPECIFICATION Spec
CONSTANTS
  Capturers = {c1, c2}
  Viewers = {v1}
  Dirs = {here}
  Cwd <- MCCwd
  Names = {snap}
  Topologies <- MCTopologies
  NoInode = NoInode
  Foreign = Foreign
  Pending = Pending
  Refused = Refused
INVARIANTS
  PublishedComplete
  ViewFaithful
  RejectionsJustified
  IInv
PROPERTIES
  CallsComeNearer
  Termination
  ImplementsStore
CHECK_DEADLOCK FALSE
