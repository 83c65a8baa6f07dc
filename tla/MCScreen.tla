-------------------------------- MODULE MCScreen --------------------------------
(***************************************************************************)
(* Instances of Screen for TLC: two devices, the second behind the first,   *)
(* on a canvas somewhat larger than the pane.                              *)
(***************************************************************************)
EXTENDS Screen

Block(x, row, len, lines) ==
  [x |-> 2 * x + 1, y |-> 4 * row + 3, len |-> 2 * len, height |-> 4 * lines + 2]

\* The second device lies behind the first, below it and to the right.
MCLayouts ==
  [Compact |-> [width |-> 8, height |-> 8, blocks |-> <<Block(1, 2, 3, 1), Block(3, 5, 4, 1)>>],
   Verbose |-> [width |-> 11, height |-> 11, blocks |-> <<Block(1, 2, 5, 3), Block(3, 7, 6, 2)>>]]

MCTerms == {[x |-> 21, y |-> 9], [x |-> 21, y |-> 10]}
=============================================================================
