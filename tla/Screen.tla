-------------------------------- MODULE Screen --------------------------------
(***************************************************************************)
(* The screen around the two panes (src/ui/screen.cpp): the part of the    *)
(* canvas the device tree pane shows, the separator beside it, the focus   *)
(* and the help window (CanvasVisibleArea, PCITopoUIComp, SeparatorShift,  *)
(* ScreenCompCtx).                                                         *)
(*                                                                         *)
(* The tree pane learns its place, box_, when a frame is drawn, and uses   *)
(* it for the events that come before the next one.  Offsets and places    *)
(* are in cells of the terminal, the places of blocks in pixels of the     *)
(* canvas, of which a cell has two by four.                                *)
(***************************************************************************)
EXTENDS Integers, Sequences, FiniteSetsExt

CONSTANTS
  Layouts,       \* per drawing mode: the useful width and the height of the canvas, and
                 \* where the blocks are, as GetShapeDesc has it
  Terms,         \* sizes of the terminal
  VertSplitOff   \* vert_split_off_, how wide the tree pane is, at first

Modes == {"Compact", "Verbose"}

ASSUME ScreenAssumption ==
  /\ \A m \in Modes : Layouts[m].blocks \in Seq([x : Nat, y : Nat, len : Nat, height : Nat])
  /\ \A m \in Modes : Len(Layouts[m].blocks) = Len(Layouts["Compact"].blocks)
  /\ Terms \subseteq [x : Nat, y : Nat]
  /\ VertSplitOff \in Nat /\ VertSplitOff > 5

\* There is a device, and the canvas has room for it.
ASSUME CanvasAssumption ==
  \A m \in Modes :
    /\ Layouts[m].blocks # << >>
    /\ Layouts[m].width \in Nat \ {0} /\ Layouts[m].height \in Nat \ {0}

\* Bound: terminals with fewer rows are not used.  In one of three, the pane between its
\* borders is a row that can be moved past the last of the canvas.
ASSUME RowsAssumption == \A t \in Terms : t.y > 3

\* A device is drawn in rows below the last of the one before it.
ASSUME RowsApart ==
  \A m \in Modes : LET blocks == Layouts[m].blocks IN
    \A j, k \in DOMAIN blocks :
      j < k => (blocks[j].y + blocks[j].height) \div 4 < blocks[k].y \div 4

VARIABLES
  term,      \* Terminal::Size()
  split,     \* vert_split_off_
  active,    \* the side that has the focus, "tree" or "regs"
  hovered,   \* hovered_ of the border around the tree pane
  help,      \* show_help_
  mode,      \* current_drawing_mode_
  selected,  \* selected_dev_iter_
  off,       \* off_x_ and off_y_
  box,       \* box_ of the tree pane: where it begins in both directions, and its ends
  drawn      \* nothing has happened since the last frame

treeVars  == <<mode, selected, off>>
focusVars == <<active, hovered, help>>
vars == <<term, split, box, drawn, treeVars, focusVars>>

Area   == Layouts[mode]      \* x_max_ is its width, y_max_ its height
Blocks == Area.blocks

-----------------------------------------------------------------------------
(***************************************************************************)
(* The geometry of a frame.  Lines of a border are drawn only around a     *)
(* pane that has the focus or the mouse over it.                           *)
(***************************************************************************)

TreeBox(bordered) ==
  LET edge == IF bordered THEN 1 ELSE 0
  IN  [min |-> edge, x |-> split - 1 - edge, y |-> term.y - 1 - edge]

InTree == active = "tree" /\ ~help

\* Bound: the separator leaves both sides two cells.
Fits(t) == t.x > split + 2

Init ==
  /\ term \in Terms
  /\ split = VertSplitOff /\ Fits(term)
  /\ active = "tree"
  /\ hovered \in BOOLEAN
  /\ help = FALSE
  /\ mode \in Modes /\ selected = 1
  /\ off = [x |-> 0, y |-> 0]
  /\ box = TreeBox(TRUE)
  /\ drawn = TRUE

\* Every pane is drawn anew, behind the help window too.
Frame ==
  /\ ~drawn /\ drawn' = TRUE
  /\ box' = TreeBox(hovered \/ InTree)
  /\ UNCHANGED <<term, split, treeVars, focusVars>>

Event == drawn' = FALSE /\ UNCHANGED box

-----------------------------------------------------------------------------
(***************************************************************************)
(* The tree pane.                                                          *)
(***************************************************************************)

\* Seeded fault: the last row or column is left for the shift after next.
Forward_Early(o, end, max) ==
  IF end >= max THEN 0
  ELSE IF o + end > max THEN max - end
  ELSE IF o + end + 2 < max THEN o + 2 ELSE o

\* CanvasVisibleArea::shift, down or right: o is the offset, end the box's, and max the
\* canvas's.
Forward(o, end, max) ==
  IF end >= max THEN 0
  ELSE IF o + end > max THEN max - end
  ELSE IF o + end < max THEN o + 2 ELSE o

\* Up or left.
Back(o) == IF o > 0 THEN o - 2 ELSE o

Directions == {"UP", "DOWN", "LEFT", "RIGHT"}

shift(dir) ==
  off' = CASE dir = "DOWN"  -> [off EXCEPT !.y = Forward(@, box.y, Area.height)]
           [] dir = "UP"    -> [off EXCEPT !.y = Back(@)]
           [] dir = "RIGHT" -> [off EXCEPT !.x = Forward(@, box.x, Area.width)]
           [] dir = "LEFT"  -> [off EXCEPT !.x = Back(@)]

\* j, k, h, l and the arrows.
ScrollKey(dir) ==
  /\ InTree
  /\ shift(dir)
  /\ Event /\ UNCHANGED <<term, split, mode, selected, focusVars>>

\* The mouse is over the tree pane, which takes the focus.
MouseOverTree ==
  /\ ~help
  /\ hovered' = TRUE /\ active' = "tree"
  /\ Event /\ UNCHANGED <<term, split, help>>

Hover == MouseOverTree /\ UNCHANGED treeVars

\* The wheel, with or without shift.
Wheel(dir) == MouseOverTree /\ shift(dir) /\ UNCHANGED <<mode, selected>>

\* The block the iterator that is moved back before begin() comes to: end(), which the
\* code tests for, or in a tree of at most two nodes the first again.
BeforeBegin == IF Len(Blocks) <= 2 THEN {1} ELSE {}

\* Seeded fault: the pointer's row is counted from inside the border.
SelectDeviceByPos_UpperBound(mouse_x, mouse_y) ==
  LET above   == {k \in DOMAIN Blocks : Blocks[k].y <= 4 * (mouse_y - 1)}
      looked  == IF above = {} THEN BeforeBegin ELSE {Max(above)}
      hit     == {k \in looked : 2 * mouse_x \in Blocks[k].x..(Blocks[k].x + Blocks[k].len)}
  IN  IF hit = {} THEN selected ELSE CHOOSE k \in hit : TRUE

\* The block selected then.  lower_bound finds the first block that begins at the pointer
\* or below it, and the one before is looked at.
SelectDeviceByPos(mouse_x, mouse_y) ==
  LET above   == {k \in DOMAIN Blocks : Blocks[k].y < 4 * mouse_y}
      looked  == IF above = {} THEN BeforeBegin ELSE {Max(above)}
      hit     == {k \in looked : 2 * mouse_x \in Blocks[k].x..(Blocks[k].x + Blocks[k].len)}
  IN  IF hit = {} THEN selected ELSE CHOOSE k \in hit : TRUE

\* The cells of the terminal the tree pane has.
Cells == {[x |-> x, y |-> y] : x \in box.min..box.x, y \in box.min..box.y}

Selected(cell) == SelectDeviceByPos(cell.x + off.x, cell.y + off.y)

\* The left button, at a cell for which k is selected.
Click(k) ==
  /\ MouseOverTree
  /\ selected' = k
  /\ UNCHANGED <<mode, off>>

\* J, K and their equals.  Nothing is scrolled.
SelectNextPrev(next) ==
  /\ InTree
  /\ selected' = IF next THEN Min({selected + 1, Len(Blocks)}) ELSE Max({selected - 1, 1})
  /\ Event /\ UNCHANGED <<term, split, mode, off, focusVars>>

\* Seeded fault: the new canvas is shown from where the old one was.
SwitchDrawingMode_KeepsOffsets(m) ==
  /\ InTree
  /\ mode # m /\ mode' = m
  /\ Event /\ UNCHANGED <<term, split, selected, off, focusVars>>

\* c and v: a new canvas, shown from its beginning.
SwitchDrawingMode(m) ==
  /\ InTree
  /\ mode # m /\ mode' = m
  /\ off' = [x |-> 0, y |-> 0]
  /\ Event /\ UNCHANGED <<term, split, selected, focusVars>>

-----------------------------------------------------------------------------
(***************************************************************************)
(* Everything around it.                                                   *)
(***************************************************************************)

\* F1 for the one side and F2 and F3 for the other; or the mouse over a pane that takes
\* the focus, or over one that does not.
MoveFocus ==
  /\ ~help
  /\ \/ active' \in {"tree", "regs"} /\ UNCHANGED hovered
     \/ active' \in {active, "regs"} /\ hovered' = FALSE
  /\ Event /\ UNCHANGED <<term, split, treeVars, help>>

SeparatorShift(dir) ==
  split' = CASE dir = "LEFT"  -> IF split > 10 THEN split - 5 ELSE split
             [] dir = "RIGHT" -> IF split + 10 < term.x THEN split + 5 ELSE split

\* Alt with h and l.
SeparatorKey(dir) ==
  /\ ~help
  /\ SeparatorShift(dir)
  /\ Event /\ UNCHANGED <<term, treeVars, focusVars>>

\* '?', with the window shown also Escape and q: it alone gets the events then.
HelpKey ==
  /\ help' = ~help
  /\ Event /\ UNCHANGED <<term, split, treeVars, active, hovered>>

\* The user's terminal.
Resize(t) ==
  /\ t # term /\ term' = t
  /\ Fits(t)
  /\ Event /\ UNCHANGED <<split, treeVars, focusVars>>

Next ==
  \/ Frame
  \/ \E dir \in Directions : ScrollKey(dir) \/ Wheel(dir)
  \/ Hover
  \/ \E k \in {Selected(cell) : cell \in Cells} : Click(k)
  \/ \E next \in BOOLEAN : SelectNextPrev(next)
  \/ \E m \in Modes : SwitchDrawingMode(m)
  \/ MoveFocus
  \/ \E dir \in {"LEFT", "RIGHT"} : SeparatorKey(dir)
  \/ HelpKey
  \/ \E t \in Terms : Resize(t)

Spec == Init /\ [][Next]_vars

-----------------------------------------------------------------------------
(***************************************************************************)
(* Properties.                                                             *)
(***************************************************************************)

\* The values the variables can have.  The keys leave the tree pane six cells and the
\* other panes two.
TypeOK ==
  /\ term \in Terms
  /\ split \in 6..(term.x - 3)
  /\ active \in {"tree", "regs"}
  /\ hovered \in BOOLEAN /\ help \in BOOLEAN /\ drawn \in BOOLEAN
  /\ mode \in Modes /\ selected \in DOMAIN Blocks
  /\ box.min \in {0, 1} /\ box.x >= box.min /\ box.y >= box.min

\* However shifts, switches of the mode, moved separators and resized terminals follow
\* each other, the tree pane is never left showing none of the canvas.
CanvasInView ==
  /\ off.x \in -1..(Area.width - 1)
  /\ off.y \in -1..(Area.height - 1)

\* Where shifts one way end: each is of two rows, but for the last.
ShiftsForward(o, end, max) ==
  LET at[n \in 0..max] == IF n = 0 THEN o ELSE Forward(at[n - 1], end, max)
  IN  at[max \div 2 + 1]

ShiftsBack(o, max) ==
  LET at[n \in 0..max] == IF n = 0 THEN o ELSE Back(at[n - 1]) IN at[max \div 2 + 1]

Reachable(o, end, max) ==
  LET last  == ShiftsForward(o, end, max)
      first == ShiftsBack(o, max)
  IN  /\ max - 1 \in last..(last + end - box.min)
      /\ 0 \in first..(first + end - box.min)

\* From wherever the view is, and with the pane as it was drawn last, enough shifts one
\* way show the last row and column of the canvas and enough of the other the first, so
\* that no device is out of reach.
CanvasReachable ==
  Reachable(off.x, box.x, Area.width) /\ Reachable(off.y, box.y, Area.height)

\* The cells of the canvas within the box of a block, its right edge excepted.
CellsOf(k) ==
  LET b == Blocks[k]
  IN  {[x |-> x, y |-> y] : x \in (b.x \div 2)..((b.x + b.len) \div 2 - 1),
                            y \in (b.y \div 4)..((b.y + b.height) \div 4)}

\* CanvasScrollNodeBase::Render: the cell of the terminal a cell of the canvas is shown at.
ShownAt(cell) == [x |-> box.min + cell.x - off.x, y |-> box.min + cell.y - off.y]

InBox(cell) == cell.x \in box.min..box.x /\ cell.y \in box.min..box.y

\* A click on a block that is on the screen, with a border around the pane, selects that
\* block, wherever the canvas has been scrolled to: the pointer is taken as if the pane
\* began at 0, and the first row of a block as if it were the one before.
ClickSelectsShown ==
  drawn /\ box.min = 1 =>
    \A k \in DOMAIN Blocks : \A cell \in CellsOf(k) :
      InBox(ShownAt(cell)) => Selected(ShownAt(cell)) = k
=============================================================================
