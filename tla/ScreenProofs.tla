----------------------------- MODULE ScreenProofs -----------------------------
(***************************************************************************)
(* Proofs about Screen: that the view never leaves the canvas, that all of *)
(* the canvas can be scrolled to, and that a click selects the block it is *)
(* on, for every canvas and every terminal of four rows or more.           *)
(***************************************************************************)
EXTENDS Screen, FiniteSetTheorems, TLAPS

-----------------------------------------------------------------------------
(***************************************************************************)
(* The inductive invariant.                                                *)
(***************************************************************************)

\* The pane is of two rows and columns at least, with a border or without.
BoxRight ==
  /\ box \in [min : {0, 1}, x : Nat, y : Nat]
  /\ box.x > 1 /\ box.y > 1

ScreenInv ==
  /\ TypeOK
  /\ BoxRight
  /\ off \in [x : Int, y : Int] /\ CanvasInView

\* What is assumed of the canvas of a mode.
LEMMA Canvases ==
  ASSUME NEW m \in Modes
  PROVE  /\ Layouts[m].blocks \in Seq([x : Nat, y : Nat, len : Nat, height : Nat])
         /\ Layouts[m].blocks # << >>
         /\ Len(Layouts[m].blocks) \in Nat \ {0}
         /\ DOMAIN Layouts[m].blocks = 1..Len(Layouts["Compact"].blocks)
         /\ Layouts[m].width \in Nat \ {0} /\ Layouts[m].height \in Nat \ {0}
<1>1. /\ Layouts[m].blocks \in Seq([x : Nat, y : Nat, len : Nat, height : Nat])
      /\ Len(Layouts[m].blocks) = Len(Layouts["Compact"].blocks)
  BY ScreenAssumption
<1>2. /\ Layouts[m].blocks # << >>
      /\ Layouts[m].width \in Nat \ {0} /\ Layouts[m].height \in Nat \ {0}
  BY CanvasAssumption
<1>3. Len(Layouts[m].blocks) \in Nat \ {0}
  <2> DEFINE b == Layouts[m].blocks
  <2>1. b \in Seq([x : Nat, y : Nat, len : Nat, height : Nat]) /\ b # << >>
    BY <1>1, <1>2
  <2> HIDE DEF b
  <2>2. Len(b) \in Nat \ {0}
    BY <2>1
  <2>3. QED
    BY <2>2 DEF b
<1>4. QED
  BY <1>1, <1>2, <1>3

-----------------------------------------------------------------------------
(***************************************************************************)
(* Shifts.                                                                 *)
(***************************************************************************)

\* A shift down or right leaves a part of the canvas in a view of two cells or more.
LEMMA ForwardInView ==
  ASSUME NEW o \in Int, NEW end \in Nat, end > 1, NEW max \in Nat \ {0}, o \in -1..(max - 1)
  PROVE  Forward(o, end, max) \in Int /\ Forward(o, end, max) \in -1..(max - 1)
BY DEF Forward

\* So does one up or left.
LEMMA BackInView ==
  ASSUME NEW o \in Int, NEW max \in Nat \ {0}, o \in -1..(max - 1)
  PROVE  Back(o) \in Int /\ Back(o) \in -1..(max - 1)
BY DEF Back

\* A shift of the view in a direction keeps the view on the canvas.
LEMMA ShiftInView ==
  ASSUME ScreenInv, NEW dir \in Directions, shift(dir), UNCHANGED mode
  PROVE  (off \in [x : Int, y : Int] /\ CanvasInView)'
<1>1. Area.width \in Nat \ {0} /\ Area.height \in Nat \ {0}
  BY Canvases DEF ScreenInv, TypeOK, Area
<1>2. /\ off.x \in Int /\ off.y \in Int /\ off = [x |-> off.x, y |-> off.y]
      /\ off.x \in -1..(Area.width - 1) /\ off.y \in -1..(Area.height - 1)
  BY DEF ScreenInv, CanvasInView
<1>3. box.x \in Nat /\ box.y \in Nat /\ box.x > 1 /\ box.y > 1
  BY DEF ScreenInv, BoxRight
<1>4. SUFFICES ASSUME TRUE
               PROVE  /\ off' \in [x : Int, y : Int]
                      /\ off'.x \in -1..(Area.width - 1) /\ off'.y \in -1..(Area.height - 1)
  BY DEF CanvasInView, Area
<1>5. CASE dir = "DOWN"
  <2>1. off' = [off EXCEPT !.y = Forward(off.y, box.y, Area.height)]
    BY <1>5 DEF shift
  <2>2. /\ Forward(off.y, box.y, Area.height) \in Int
        /\ Forward(off.y, box.y, Area.height) \in -1..(Area.height - 1)
    BY <1>1, <1>2, <1>3, ForwardInView
  <2>3. QED
    BY <1>2, <2>1, <2>2
<1>6. CASE dir = "UP"
  <2>1. off' = [off EXCEPT !.y = Back(off.y)]
    BY <1>6 DEF shift
  <2>2. Back(off.y) \in Int /\ Back(off.y) \in -1..(Area.height - 1)
    BY <1>1, <1>2, BackInView
  <2>3. QED
    BY <1>2, <2>1, <2>2
<1>7. CASE dir = "RIGHT"
  <2>1. off' = [off EXCEPT !.x = Forward(off.x, box.x, Area.width)]
    BY <1>7 DEF shift
  <2>2. /\ Forward(off.x, box.x, Area.width) \in Int
        /\ Forward(off.x, box.x, Area.width) \in -1..(Area.width - 1)
    BY <1>1, <1>2, <1>3, ForwardInView
  <2>3. QED
    BY <1>2, <2>1, <2>2
<1>8. CASE dir = "LEFT"
  <2>1. off' = [off EXCEPT !.x = Back(off.x)]
    BY <1>8 DEF shift
  <2>2. Back(off.x) \in Int /\ Back(off.x) \in -1..(Area.width - 1)
    BY <1>1, <1>2, BackInView
  <2>3. QED
    BY <1>2, <2>1, <2>2
<1>9. QED
  BY <1>5, <1>6, <1>7, <1>8 DEF Directions

-----------------------------------------------------------------------------
(***************************************************************************)
(* Selection.                                                              *)
(***************************************************************************)

\* A set of natural numbers that is not empty has a least member.
LEMMA LeastMember ==
  ASSUME NEW S \in SUBSET Nat, S # {}
  PROVE  \E m \in S : \A k \in S : m <= k
<1> DEFINE R == {p \in Nat \X Nat : p[1] < p[2]}
<1>1. OpToRel(<, Nat) = R
  BY DEF OpToRel
<1>2. IsWellFoundedOn(R, Nat)
  BY <1>1, NatLessThanWellFounded
<1>3. PICK m \in S : \A k \in S : ~(<<k, m>> \in R)
  <2> HIDE DEF R
  <2>1. QED
    BY <1>2, WFMin
<1>4. SUFFICES ASSUME NEW k \in S, k < m PROVE FALSE
  OBVIOUS
<1>5. <<k, m>> \in R
  BY <1>4
<1>6. QED
  BY <1>3, <1>5

\* Max of a finite set of positive numbers that is not empty is its greatest member: the
\* least of its upper bounds is one.
LEMMA MaxIsGreatest ==
  ASSUME NEW n \in Nat, NEW S \in SUBSET (1..n), S # {}
  PROVE  Max(S) \in S /\ \A k \in S : k <= Max(S)
<1> DEFINE Bounds == {h \in Nat : \A k \in S : k <= h}
<1>1. n \in Bounds
  OBVIOUS
<1>2. PICK m \in Bounds : \A h \in Bounds : m <= h
  <2> HIDE DEF Bounds
  <2>1. Bounds \in SUBSET Nat /\ Bounds # {}
    BY <1>1 DEF Bounds
  <2>2. QED
    BY <2>1, LeastMember
<1>3. m \in Nat /\ \A k \in S : k <= m
  BY <1>2
<1>4. m \in S
  <2>1. SUFFICES ASSUME m \notin S PROVE FALSE
    OBVIOUS
  <2>2. m > 0
    <3>1. PICK k \in S : TRUE
      OBVIOUS
    <3>2. QED
      BY <1>3, <3>1
  <2>3. ASSUME NEW k \in S PROVE k <= m - 1
    <3>1. k \in Int /\ k <= m /\ k # m
      BY <1>3, <2>1
    <3>2. QED
      BY <1>3, <3>1
  <2>4. m - 1 \in Bounds
    BY <1>3, <2>2, <2>3
  <2>5. QED
    BY <1>2, <1>3, <2>4
<1>5. QED
  BY <1>3, <1>4 DEF Max

\* A click selects a block.
LEMMA SelectsBlock ==
  ASSUME ScreenInv, NEW x, NEW y
  PROVE  SelectDeviceByPos(x, y) \in DOMAIN Blocks
<1> DEFINE above  == {k \in DOMAIN Blocks : Blocks[k].y < 4 * y}
           looked == IF above = {} THEN BeforeBegin ELSE {Max(above)}
           hit    == {k \in looked : 2 * x \in Blocks[k].x..(Blocks[k].x + Blocks[k].len)}
<1>1. selected \in DOMAIN Blocks /\ mode \in Modes
  BY DEF ScreenInv, TypeOK
<1>2. Len(Blocks) \in Nat \ {0} /\ DOMAIN Blocks = 1..Len(Blocks)
  BY <1>1, Canvases DEF Blocks, Area
<1>3. looked \subseteq DOMAIN Blocks
  <2>1. CASE above = {}
    BY <1>2, <2>1 DEF BeforeBegin
  <2>2. CASE above # {}
    <3>1. Max(above) \in above
      BY <1>2, <2>2, MaxIsGreatest
    <3>2. QED
      BY <2>2, <3>1
  <2>3. QED
    BY <2>1, <2>2
<1>4. hit \subseteq DOMAIN Blocks
  BY <1>3
<1>5. SelectDeviceByPos(x, y) = IF hit = {} THEN selected ELSE CHOOSE k \in hit : TRUE
  BY DEF SelectDeviceByPos
<1>6. QED
  <2> HIDE DEF hit
  <2>1. CASE hit = {}
    BY <1>1, <1>5, <2>1
  <2>2. CASE hit # {}
    BY <1>4, <1>5, <2>2
  <2>3. QED
    BY <2>1, <2>2

\* The next or the previous block is a block.
LEMMA NextPrevBlock ==
  ASSUME NEW n \in Nat \ {0}, NEW k \in 1..n
  PROVE  Min({k + 1, n}) \in 1..n /\ Max({k - 1, 1}) \in 1..n
<1>1. PICK l \in {k + 1, n} : \A j \in {k + 1, n} : l <= j
  <2>1. CASE k + 1 <= n
    BY <2>1
  <2>2. CASE ~(k + 1 <= n)
    BY <2>2
  <2>3. QED
    BY <2>1, <2>2
<1>2. Min({k + 1, n}) \in {k + 1, n} /\ \A j \in {k + 1, n} : Min({k + 1, n}) <= j
  BY <1>1 DEF Min
<1>3. PICK g \in {k - 1, 1} : \A j \in {k - 1, 1} : g >= j
  <2>1. CASE k - 1 >= 1
    BY <2>1
  <2>2. CASE ~(k - 1 >= 1)
    BY <2>2
  <2>3. QED
    BY <2>1, <2>2
<1>4. Max({k - 1, 1}) \in {k - 1, 1} /\ \A j \in {k - 1, 1} : Max({k - 1, 1}) >= j
  BY <1>3 DEF Max
<1>5. QED
  BY <1>2, <1>4

-----------------------------------------------------------------------------
(***************************************************************************)
(* The invariant holds at first and every step keeps it.                   *)
(***************************************************************************)

\* The size of a terminal, and the places of the separator in it.
LEMMA Terminals ==
  ASSUME NEW t \in Terms
  PROVE  t.x \in Nat /\ t.y \in Nat /\ t.y > 3
BY ScreenAssumption, RowsAssumption

\* A frame gives the pane its place.
LEMMA BoxOfFrame ==
  ASSUME term \in Terms, split \in 6..(term.x - 3), NEW bordered \in BOOLEAN
  PROVE  LET b == TreeBox(bordered) IN
           /\ b \in [min : {0, 1}, x : Nat, y : Nat]
           /\ b.x > 1 /\ b.y > 1 /\ b.x >= b.min /\ b.y >= b.min
<1>1. term.x \in Nat /\ term.y \in Nat /\ term.y > 3
  BY Terminals
<1>2. CASE bordered
  <2>1. TreeBox(bordered) = [min |-> 1, x |-> split - 1 - 1, y |-> term.y - 1 - 1]
    BY <1>2 DEF TreeBox
  <2>2. QED
    BY <1>1, <2>1
<1>3. CASE ~bordered
  <2>1. TreeBox(bordered) = [min |-> 0, x |-> split - 1 - 0, y |-> term.y - 1 - 0]
    BY <1>3 DEF TreeBox
  <2>2. QED
    BY <1>1, <2>1
<1>4. QED
  BY <1>2, <1>3

LEMMA InvInit == Init => ScreenInv
<1>1. SUFFICES ASSUME Init PROVE ScreenInv
  OBVIOUS
<1>2. term \in Terms /\ split = VertSplitOff /\ term.x > split + 2
  BY <1>1 DEF Init, Fits
<1>3. term.x \in Nat /\ split \in Nat /\ split > 5
  BY <1>2, Terminals, ScreenAssumption
<1>4. split \in 6..(term.x - 3)
  BY <1>2, <1>3
<1>5. /\ box = TreeBox(TRUE) /\ mode \in Modes /\ selected = 1
      /\ active = "tree" /\ hovered \in BOOLEAN /\ help = FALSE /\ drawn = TRUE
      /\ off = [x |-> 0, y |-> 0]
  BY <1>1 DEF Init
<1>6. /\ box \in [min : {0, 1}, x : Nat, y : Nat]
      /\ box.x > 1 /\ box.y > 1 /\ box.x >= box.min /\ box.y >= box.min
  BY <1>2, <1>4, <1>5, BoxOfFrame
<1>7. selected \in DOMAIN Blocks
  BY <1>5, Canvases DEF Blocks, Area
<1>8. Area.width \in Nat \ {0} /\ Area.height \in Nat \ {0}
  BY <1>5, Canvases DEF Area
<1>9. TypeOK
  BY <1>2, <1>4, <1>5, <1>6, <1>7 DEF TypeOK
<1>10. off \in [x : Int, y : Int] /\ CanvasInView
  BY <1>5, <1>8 DEF CanvasInView
<1>11. QED
  BY <1>6, <1>9, <1>10 DEF ScreenInv, BoxRight

\* The blocks are as many in either mode.
LEMMA SameBlocks ==
  ASSUME mode \in Modes, mode' \in Modes
  PROVE  DOMAIN Blocks' = DOMAIN Blocks
BY Canvases DEF Blocks, Area

LEMMA InvStep == ScreenInv /\ [Next]_vars => ScreenInv'
<1> SUFFICES ASSUME ScreenInv, [Next]_vars PROVE ScreenInv'
  OBVIOUS
<1> USE DEF ScreenInv
<1>1. /\ term \in Terms /\ split \in 6..(term.x - 3)
      /\ active \in {"tree", "regs"}
      /\ hovered \in BOOLEAN /\ help \in BOOLEAN /\ drawn \in BOOLEAN
      /\ mode \in Modes /\ selected \in DOMAIN Blocks
      /\ box.min \in {0, 1} /\ box.x >= box.min /\ box.y >= box.min
  BY DEF TypeOK
<1>2. term.x \in Nat /\ split \in Nat
  BY <1>1, Terminals
<1>3. DOMAIN Blocks = 1..Len(Blocks) /\ Len(Blocks) \in Nat \ {0}
  BY <1>1, Canvases DEF Blocks, Area
<1> DEFINE ViewRight == off \in [x : Int, y : Int] /\ CanvasInView
<1>4. ViewRight
  OBVIOUS
\* What is left as it is: the place of the pane, the blocks and the view.
<1>5. ASSUME UNCHANGED box
      PROVE  BoxRight' /\ box'.min \in {0, 1} /\ box'.x >= box'.min /\ box'.y >= box'.min
  BY <1>1, <1>5 DEF BoxRight
<1>6. ASSUME UNCHANGED mode PROVE UNCHANGED <<Blocks, Area>>
  BY <1>6 DEF Blocks, Area
<1>7. ASSUME UNCHANGED <<mode, off>> PROVE ViewRight'
  BY <1>4, <1>6, <1>7 DEF CanvasInView
<1>8. CASE Frame
  <2>1. /\ drawn' = TRUE /\ box' = TreeBox(hovered \/ InTree)
        /\ UNCHANGED <<term, split, mode, selected, off, active, hovered, help>>
    BY <1>8 DEF Frame, treeVars, focusVars
  <2>2. (hovered \/ InTree) \in BOOLEAN
    BY <1>1 DEF InTree
  <2>3. /\ box' \in [min : {0, 1}, x : Nat, y : Nat]
        /\ box'.x > 1 /\ box'.y > 1 /\ box'.x >= box'.min /\ box'.y >= box'.min
    BY <1>1, <2>1, <2>2, BoxOfFrame
  <2>4. TypeOK'
    BY <1>1, <1>6, <2>1, <2>3 DEF TypeOK
  <2>5. QED
    BY <1>7, <2>1, <2>3, <2>4 DEF BoxRight
<1>9. ASSUME NEW dir \in Directions, ScrollKey(dir) \/ Wheel(dir) PROVE ScreenInv'
  <2>1. /\ shift(dir) /\ drawn' = FALSE
        /\ UNCHANGED <<box, term, split, mode, selected, help>>
    BY <1>9 DEF ScrollKey, Wheel, MouseOverTree, Event, focusVars
  <2>2. active' \in {"tree", "regs"} /\ hovered' \in BOOLEAN
    BY <1>1, <1>9 DEF ScrollKey, Wheel, MouseOverTree, focusVars
  <2>3. ViewRight'
    BY <2>1, ShiftInView
  <2>4. TypeOK'
    BY <1>1, <1>5, <1>6, <2>1, <2>2 DEF TypeOK
  <2>5. QED
    BY <1>5, <2>1, <2>3, <2>4
<1>10. CASE Hover
  <2>1. /\ drawn' = FALSE /\ active' = "tree" /\ hovered' = TRUE
        /\ UNCHANGED <<box, term, split, mode, selected, off, help>>
    BY <1>10 DEF Hover, MouseOverTree, Event, treeVars
  <2>2. TypeOK'
    BY <1>1, <1>5, <1>6, <2>1 DEF TypeOK
  <2>3. QED
    BY <1>5, <1>7, <2>1, <2>2
<1>11. ASSUME NEW cell \in Cells, Click(Selected(cell)) PROVE ScreenInv'
  <2>1. /\ drawn' = FALSE /\ active' = "tree" /\ hovered' = TRUE
        /\ selected' = Selected(cell)
        /\ UNCHANGED <<box, term, split, mode, off, help>>
    BY <1>11 DEF Click, MouseOverTree, Event
  <2>2. Selected(cell) \in DOMAIN Blocks
    BY SelectsBlock DEF Selected
  <2>3. TypeOK'
    BY <1>1, <1>5, <1>6, <2>1, <2>2 DEF TypeOK
  <2>4. QED
    BY <1>5, <1>7, <2>1, <2>3
<1>12. ASSUME NEW next \in BOOLEAN, SelectNextPrev(next) PROVE ScreenInv'
  <2>1. /\ drawn' = FALSE
        /\ selected' = IF next THEN Min({selected + 1, Len(Blocks)}) ELSE Max({selected - 1, 1})
        /\ UNCHANGED <<box, term, split, mode, off, active, hovered, help>>
    BY <1>12 DEF SelectNextPrev, Event, focusVars
  <2>2. selected' \in DOMAIN Blocks
    BY <1>1, <1>3, <2>1, NextPrevBlock
  <2>3. TypeOK'
    BY <1>1, <1>5, <1>6, <2>1, <2>2 DEF TypeOK
  <2>4. QED
    BY <1>5, <1>7, <2>1, <2>3
<1>13. ASSUME NEW m \in Modes, SwitchDrawingMode(m) PROVE ScreenInv'
  <2>1. /\ drawn' = FALSE /\ mode' = m /\ off' = [x |-> 0, y |-> 0]
        /\ UNCHANGED <<box, term, split, selected, active, hovered, help>>
    BY <1>13 DEF SwitchDrawingMode, Event, focusVars
  <2>2. DOMAIN Blocks' = DOMAIN Blocks
    BY <1>1, <2>1, SameBlocks
  <2>3. TypeOK'
    BY <1>1, <1>5, <2>1, <2>2 DEF TypeOK
  <2>4. Area'.width \in Nat \ {0} /\ Area'.height \in Nat \ {0}
    BY <2>1, Canvases DEF Area
  <2>5. ViewRight'
    BY <2>1, <2>4 DEF CanvasInView
  <2>6. QED
    BY <1>5, <2>1, <2>3, <2>5
<1>14. CASE MoveFocus
  <2>1. drawn' = FALSE /\ UNCHANGED <<box, term, split, mode, selected, off, help>>
    BY <1>14 DEF MoveFocus, Event, treeVars
  <2>2. active' \in {"tree", "regs"} /\ hovered' \in BOOLEAN
    BY <1>1, <1>14 DEF MoveFocus
  <2>3. TypeOK'
    BY <1>1, <1>5, <1>6, <2>1, <2>2 DEF TypeOK
  <2>4. QED
    BY <1>5, <1>7, <2>1, <2>3
<1>15. ASSUME NEW dir \in {"LEFT", "RIGHT"}, SeparatorKey(dir) PROVE ScreenInv'
  <2>1. /\ drawn' = FALSE /\ SeparatorShift(dir)
        /\ UNCHANGED <<box, term, mode, selected, off, active, hovered, help>>
    BY <1>15 DEF SeparatorKey, Event, treeVars, focusVars
  <2>2. split' \in 6..(term.x - 3)
    <3>1. CASE dir = "LEFT"
      BY <1>1, <1>2, <2>1, <3>1 DEF SeparatorShift
    <3>2. CASE dir = "RIGHT"
      BY <1>1, <1>2, <2>1, <3>2 DEF SeparatorShift
    <3>3. QED
      BY <3>1, <3>2
  <2>3. TypeOK'
    BY <1>1, <1>5, <1>6, <2>1, <2>2 DEF TypeOK
  <2>4. QED
    BY <1>5, <1>7, <2>1, <2>3
<1>16. CASE HelpKey
  <2>1. /\ drawn' = FALSE /\ help' = ~help
        /\ UNCHANGED <<box, term, split, mode, selected, off, active, hovered>>
    BY <1>16 DEF HelpKey, Event, treeVars
  <2>2. TypeOK'
    BY <1>1, <1>5, <1>6, <2>1 DEF TypeOK
  <2>3. QED
    BY <1>5, <1>7, <2>1, <2>2
<1>17. ASSUME NEW t \in Terms, Resize(t) PROVE ScreenInv'
  <2>1. /\ drawn' = FALSE /\ term' = t /\ t.x > split + 2
        /\ UNCHANGED <<box, split, mode, selected, off, active, hovered, help>>
    BY <1>17 DEF Resize, Fits, Event, treeVars, focusVars
  <2>2. split' \in 6..(term'.x - 3)
    BY <1>1, <1>2, <2>1, Terminals
  <2>3. TypeOK'
    BY <1>1, <1>5, <1>6, <2>1, <2>2 DEF TypeOK
  <2>4. QED
    BY <1>5, <1>7, <2>1, <2>3
<1>18. CASE UNCHANGED vars
  <2>1. UNCHANGED <<term, split, box, drawn, mode, selected, off, active, hovered, help>>
    BY <1>18 DEF vars, treeVars, focusVars
  <2>2. TypeOK'
    BY <1>1, <1>5, <1>6, <2>1 DEF TypeOK
  <2>3. QED
    BY <1>5, <1>7, <2>1, <2>2
<1>19. QED
  BY <1>8, <1>9, <1>10, <1>11, <1>12, <1>13, <1>14, <1>15, <1>16, <1>17, <1>18 DEF Next

-----------------------------------------------------------------------------
(***************************************************************************)
(* Theorems.                                                               *)
(***************************************************************************)

\* The tree pane has two rows and columns at least, and shows some of the canvas.
THEOREM ScreenInvariance == Spec => []ScreenInv
BY InvInit, InvStep, PTL DEF Spec

\* The variables have their types, the selected device is one of those drawn, and the
\* separator leaves the tree pane six cells and the other panes two: SeparatorShift.
THEOREM TypeCorrectness == Spec => []TypeOK
<1>1. ScreenInv => TypeOK
  BY DEF ScreenInv
<1>2. QED
  BY <1>1, ScreenInvariance, PTL

\* The view is never left beside the canvas: CanvasVisibleArea::shift with the box of the
\* last frame, whatever has been moved or resized since.
THEOREM CanvasStaysInView == Spec => []CanvasInView
<1>1. ScreenInv => CanvasInView
  BY DEF ScreenInv
<1>2. QED
  BY <1>1, ScreenInvariance, PTL

-----------------------------------------------------------------------------
(***************************************************************************)
(* A click.                                                                *)
(***************************************************************************)

\* The rows of the blocks, and the places of a block, as numbers.
LEMMA BlockTypes ==
  ASSUME ScreenInv, NEW k \in DOMAIN Blocks
  PROVE  /\ Blocks[k].x \in Nat /\ Blocks[k].y \in Nat
         /\ Blocks[k].len \in Nat /\ Blocks[k].height \in Nat
<1>1. Blocks \in Seq([x : Nat, y : Nat, len : Nat, height : Nat])
  BY Canvases DEF ScreenInv, TypeOK, Blocks, Area
<1>2. Blocks[k] \in [x : Nat, y : Nat, len : Nat, height : Nat]
  <2> DEFINE b == Blocks
             S == [x : Nat, y : Nat, len : Nat, height : Nat]
  <2>1. b \in Seq(S) /\ k \in DOMAIN b
    BY <1>1
  <2> HIDE DEF b, S
  <2>2. k \in 1..Len(b)
    BY <2>1
  <2>3. b[k] \in S
    BY <2>1, <2>2
  <2>4. QED
    BY <2>3 DEF b, S
<1>3. QED
  BY <1>2

\* The rows of a block, and the cells between its edges, in pixels.
LEMMA RowsOfBlock ==
  ASSUME NEW y \in Nat, NEW height \in Nat, NEW below \in Nat,
         NEW row \in (y \div 4)..((y + height) \div 4)
  PROVE  /\ y < 4 * (row + 1)
         /\ (y + height) \div 4 < below \div 4 => ~(below < 4 * (row + 1))
<1>1. /\ y \div 4 \in Int /\ 4 * (y \div 4) <= y /\ y < 4 * (y \div 4) + 4
      /\ (y + height) \div 4 \in Int
      /\ below \div 4 \in Int /\ 4 * (below \div 4) <= below
  OBVIOUS
<1>2. QED
  BY <1>1

LEMMA ColumnsOfBlock ==
  ASSUME NEW x \in Nat, NEW len \in Nat, NEW column \in (x \div 2)..((x + len) \div 2 - 1)
  PROVE  2 * (column + 1) \in x..(x + len)
<1>1. /\ x \div 2 \in Int /\ x < 2 * (x \div 2) + 2
      /\ (x + len) \div 2 \in Int /\ 2 * ((x + len) \div 2) <= x + len
  OBVIOUS
<1>2. QED
  BY <1>1

\* With a border around the pane, a click on a block selects it: PCITopoUIComp::OnEvent
\* takes the pointer as if the pane began at 0, SelectDeviceByPos the first row of a block
\* for the one before, and the two make up for each other.
THEOREM ClicksSelectWhatIsShown == Spec => []ClickSelectsShown
<1>1. ScreenInv => ClickSelectsShown
  <2>1. SUFFICES ASSUME ScreenInv, box.min = 1, NEW k \in DOMAIN Blocks, NEW cell \in CellsOf(k)
                 PROVE  Selected(ShownAt(cell)) = k
    BY DEF ClickSelectsShown
  <2> DEFINE column == cell.x + 1
             row    == cell.y + 1
             above  == {j \in DOMAIN Blocks : Blocks[j].y < 4 * row}
             hit    == {j \in {k} : 2 * column \in Blocks[j].x..(Blocks[j].x + Blocks[j].len)}
  <2>2. /\ Blocks[k].x \in Nat /\ Blocks[k].y \in Nat
        /\ Blocks[k].len \in Nat /\ Blocks[k].height \in Nat
    BY <2>1, BlockTypes
  <2>3. /\ cell.x \in (Blocks[k].x \div 2)..((Blocks[k].x + Blocks[k].len) \div 2 - 1)
        /\ cell.y \in (Blocks[k].y \div 4)..((Blocks[k].y + Blocks[k].height) \div 4)
    BY <2>1 DEF CellsOf
  <2>4. cell.x \in Int /\ cell.y \in Int
    BY <2>2, <2>3
  <2>5. Selected(ShownAt(cell)) = SelectDeviceByPos(column, row)
    <3>1. off.x \in Int /\ off.y \in Int
      BY <2>1 DEF ScreenInv
    <3>2. ShownAt(cell) = [x |-> 1 + cell.x - off.x, y |-> 1 + cell.y - off.y]
      BY <2>1 DEF ShownAt
    <3>3. ShownAt(cell).x + off.x = column /\ ShownAt(cell).y + off.y = row
      BY <2>4, <3>1, <3>2
    <3>4. QED
      BY <3>3 DEF Selected
  <2>6. Blocks[k].y < 4 * row
    BY <2>2, <2>3, RowsOfBlock
  <2>7. k \in above
    BY <2>6
  <2>8. \A j \in above : j <= k
    <3>1. SUFFICES ASSUME NEW j \in DOMAIN Blocks, k < j PROVE ~(Blocks[j].y < 4 * row)
      <4>1. DOMAIN Blocks = 1..Len(Blocks)
        BY <2>1, Canvases DEF ScreenInv, TypeOK, Blocks, Area
      <4>2. QED
        BY <2>1, <4>1, Canvases DEF ScreenInv, TypeOK, Blocks, Area
    <3>2. (Blocks[k].y + Blocks[k].height) \div 4 < Blocks[j].y \div 4
      BY <2>1, <3>1, RowsApart DEF ScreenInv, TypeOK, Blocks, Area
    <3>3. Blocks[j].y \in Nat
      BY <2>1, BlockTypes
    <3>4. QED
      BY <2>2, <2>3, <3>2, <3>3, RowsOfBlock
  <2>9. Max(above) = k
    <3>1. Len(Blocks) \in Nat /\ DOMAIN Blocks = 1..Len(Blocks)
      BY <2>1, Canvases DEF ScreenInv, TypeOK, Blocks, Area
    <3>2. above \in SUBSET (1..Len(Blocks)) /\ above # {}
      BY <2>7, <3>1
    <3>3. Max(above) \in above /\ \A j \in above : j <= Max(above)
      <4> HIDE DEF above
      <4>1. QED
        BY <3>1, <3>2, MaxIsGreatest
    <3>4. k <= Max(above) /\ Max(above) <= k
      <4> DEFINE max == Max(above)
      <4>1. max \in above /\ \A j \in above : j <= max
        BY <3>3
      <4> HIDE DEF above, max
      <4>2. k <= max /\ max <= k
        BY <2>7, <2>8, <4>1
      <4>3. QED
        BY <4>2 DEF max
    <3>5. Max(above) \in Int /\ k \in Int
      BY <2>1, <3>1, <3>2, <3>3
    <3>6. QED
      BY <3>4, <3>5
  <2>10. hit = {k}
    BY <2>2, <2>3, ColumnsOfBlock
  <2>11. SelectDeviceByPos(column, row) = IF hit = {} THEN selected ELSE CHOOSE j \in hit : TRUE
    <3>1. (IF above = {} THEN BeforeBegin ELSE {Max(above)}) = {k}
      BY <2>7, <2>9
    <3>2. QED
      BY <3>1 DEF SelectDeviceByPos
  <2>12. QED
    <3> HIDE DEF hit
    <3>1. SelectDeviceByPos(column, row) = CHOOSE j \in hit : TRUE
      BY <2>10, <2>11
    <3>2. (CHOOSE j \in hit : TRUE) = k
      BY <2>10
    <3>3. QED
      BY <2>5, <3>1, <3>2
<1>2. QED
  BY <1>1, ScreenInvariance, PTL

-----------------------------------------------------------------------------
(***************************************************************************)
(* Shifts one way.                                                         *)
(***************************************************************************)

\* Two sequences that begin alike, and each member of which follows from the one before,
\* are the same.
LEMMA SameShifts ==
  ASSUME NEW max \in Nat, NEW f, NEW g, f[0] = g[0],
         \A n \in 1..max : f[n - 1] = g[n - 1] => f[n] = g[n]
  PROVE  \A n \in 0..max : f[n] = g[n]
<1> DEFINE Apart == {n \in 0..max : f[n] # g[n]}
<1>1. SUFFICES ASSUME Apart # {} PROVE FALSE
  OBVIOUS
<1>2. PICK m \in Apart : \A k \in Apart : m <= k
  <2>1. Apart \in SUBSET Nat
    OBVIOUS
  <2> HIDE DEF Apart
  <2>2. QED
    BY <1>1, <2>1, LeastMember
<1>3. m \in 1..max
  OBVIOUS
<1>4. m - 1 \in 0..max /\ m - 1 \notin Apart
  BY <1>2, <1>3
<1>5. QED
  BY <1>3, <1>4

\* A shift for every two rows, and one more, are enough shifts.
LEMMA EnoughShifts ==
  ASSUME NEW max \in Nat \ {0}
  PROVE  /\ max \div 2 + 1 \in 0..max
         /\ max - 1 <= 2 * (max \div 2) /\ 2 * (max \div 2) <= max
OBVIOUS

\* Where shifts up or left end: at the first row, or before it by one.
LEMMA BackEnds ==
  ASSUME NEW max \in Nat \ {0}, NEW o \in -1..(max - 1)
  PROVE  ShiftsBack(o, max) \in {-1, 0}
<1> DEFINE F == CHOOSE f : f = [n \in 0..max |-> IF n = 0 THEN o ELSE Back(f[n - 1])]
<1>1. ShiftsBack(o, max) = F[max \div 2 + 1]
  BY DEF ShiftsBack
<1>2. PICK q \in Int, z \in {-1, 0} : o = 2 * q + z
  <2>1. o = 2 * ((o + 1) \div 2) + ((o + 1) % 2) - 1
    OBVIOUS
  <2>2. (o + 1) % 2 \in {0, 1} /\ (o + 1) \div 2 \in Int
    OBVIOUS
  <2>3. QED
    BY <2>1, <2>2
<1> DEFINE at(n) == IF o - 2 * n >= -1 THEN o - 2 * n ELSE z
           G     == [n \in 0..max |-> at(n)]
<1>3. at(0) = o
  OBVIOUS
<1>4. \A n \in 1..max : at(n) = Back(at(n - 1))
  BY <1>2 DEF Back
<1>5. \A n \in 1..max : G[n - 1] = at(n - 1) /\ G[n] = at(n)
  OBVIOUS
<1>6. G = [n \in 0..max |-> IF n = 0 THEN o ELSE Back(G[n - 1])]
  <2>1. \A n \in 0..max : at(n) = IF n = 0 THEN o ELSE Back(G[n - 1])
    <3> HIDE DEF at
    <3>1. QED
      BY <1>3, <1>4, <1>5
  <2>2. QED
    BY <2>1
<1>7. F = [n \in 0..max |-> IF n = 0 THEN o ELSE Back(F[n - 1])]
  <2> HIDE DEF G
  <2>1. QED
    BY <1>6
<1> HIDE DEF F
<1>8. \A n \in 0..max : F[n] = G[n]
  <2>1. F[0] = G[0] /\ \A n \in 1..max : F[n] = Back(F[n - 1])
    BY <1>3, <1>7
  <2>2. \A n \in 1..max : G[n] = Back(G[n - 1])
    BY <1>4, <1>5
  <2> HIDE DEF G
  <2>3. QED
    BY <2>1, <2>2, SameShifts
<1>9. at(max \div 2 + 1) \in {-1, 0}
  <2>1. ~(o - 2 * (max \div 2 + 1) >= -1)
    BY EnoughShifts
  <2>2. QED
    BY <1>2, <2>1
<1>10. QED
  BY <1>1, <1>8, <1>9, EnoughShifts

\* Where shifts down or right end: at the first row if the pane has room for all of them,
\* and otherwise with the last row at the end of the pane.
LEMMA ForwardEnds ==
  ASSUME NEW max \in Nat \ {0}, NEW end \in Nat, end > 1, NEW o \in -1..(max - 1)
  PROVE  ShiftsForward(o, end, max) = IF end >= max THEN 0 ELSE max - end
<1> DEFINE F == CHOOSE f : f = [n \in 0..max |-> IF n = 0 THEN o ELSE Forward(f[n - 1], end, max)]
           last == max - end
           at(n) == IF n = 0 THEN o
                    ELSE IF end >= max THEN 0
                    ELSE IF o + 2 * n <= last + 1 THEN o + 2 * n ELSE last
           G     == [n \in 0..max |-> at(n)]
<1>1. ShiftsForward(o, end, max) = F[max \div 2 + 1]
  BY DEF ShiftsForward
<1>2. \A n \in 1..max : at(n) = Forward(at(n - 1), end, max)
  <2>1. SUFFICES ASSUME NEW n \in 1..max PROVE at(n) = Forward(at(n - 1), end, max)
    OBVIOUS
  <2>2. CASE end >= max
    BY <2>2 DEF Forward
  <2>3. CASE end < max /\ n = 1
    BY <2>3 DEF Forward
  <2>4. CASE end < max /\ n > 1
    BY <2>4 DEF Forward
  <2>5. QED
    BY <2>2, <2>3, <2>4
<1>3. \A n \in 1..max : G[n - 1] = at(n - 1) /\ G[n] = at(n)
  OBVIOUS
<1>4. G = [n \in 0..max |-> IF n = 0 THEN o ELSE Forward(G[n - 1], end, max)]
  <2>1. at(0) = o
    OBVIOUS
  <2>2. \A n \in 0..max : at(n) = IF n = 0 THEN o ELSE Forward(G[n - 1], end, max)
    <3> HIDE DEF at
    <3>1. QED
      BY <1>2, <1>3, <2>1
  <2>3. QED
    BY <2>2
<1>5. F = [n \in 0..max |-> IF n = 0 THEN o ELSE Forward(F[n - 1], end, max)]
  <2> HIDE DEF G
  <2>1. QED
    BY <1>4
<1> HIDE DEF F
<1>6. \A n \in 0..max : F[n] = G[n]
  <2>1. F[0] = G[0] /\ \A n \in 1..max : F[n] = Forward(F[n - 1], end, max)
    BY <1>5
  <2>2. \A n \in 1..max : G[n] = Forward(G[n - 1], end, max)
    BY <1>2, <1>3
  <2> HIDE DEF G
  <2>3. QED
    BY <2>1, <2>2, SameShifts
<1>7. at(max \div 2 + 1) = IF end >= max THEN 0 ELSE last
  <2>1. end < max => ~(o + 2 * (max \div 2 + 1) <= last + 1)
    BY EnoughShifts
  <2>2. QED
    BY <2>1, EnoughShifts
<1>8. QED
  BY <1>1, <1>6, <1>7, EnoughShifts

\* Every row and every column of the canvas can be scrolled to: from wherever the view is,
\* CanvasVisibleArea::shift comes to the last and to the first of them.
THEOREM CanvasIsReachable == Spec => []CanvasReachable
<1>1. ScreenInv => CanvasReachable
  <2>1. SUFFICES ASSUME ScreenInv PROVE CanvasReachable
    OBVIOUS
  <2>2. ASSUME NEW max \in Nat \ {0}, NEW end \in Nat, end > 1, NEW o \in -1..(max - 1)
        PROVE  Reachable(o, end, max)
    <3>1. ShiftsForward(o, end, max) = IF end >= max THEN 0 ELSE max - end
      BY <2>2, ForwardEnds
    <3>2. ShiftsBack(o, max) \in {-1, 0}
      BY BackEnds
    <3>3. box.min \in {0, 1}
      BY <2>1 DEF ScreenInv, TypeOK
    <3>4. QED
      BY <2>2, <3>1, <3>2, <3>3 DEF Reachable
  <2>3. Area.width \in Nat \ {0} /\ Area.height \in Nat \ {0}
    BY <2>1, Canvases DEF ScreenInv, TypeOK, Area
  <2>4. /\ off.x \in -1..(Area.width - 1) /\ off.y \in -1..(Area.height - 1)
        /\ box.x \in Nat /\ box.y \in Nat /\ box.x > 1 /\ box.y > 1
    BY <2>1 DEF ScreenInv, BoxRight, CanvasInView
  <2>5. QED
    BY <2>2, <2>3, <2>4 DEF CanvasReachable
<1>2. QED
  BY <1>1, ScreenInvariance, PTL
=============================================================================
