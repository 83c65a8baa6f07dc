SPECIFICATION Spec
CONSTANTS
  Systems <- MCTwoDomains
  Dots = 65536
INVARIANTS
  WholeTopologyShown
CHECK_DEADLOCK FALSE
