------------------------------ MODULE DevicePanes ------------------------------
(***************************************************************************)
(* The device tree pane (PCITopoUIComp and CanvasDevBlockMap) driving the  *)
(* registers pane.  The tree selects a device at once, as the event        *)
(* arrives; the registers pane follows when the next frame is drawn.  The  *)
(* event loop handles whatever events are waiting before it draws, so any  *)
(* number of them can fall between the two.                                *)
(*                                                                         *)
(* Devices are numbered in the order of their blocks on the canvas, which  *)
(* is the order of the keys of blocks_y_dim_.                              *)
(***************************************************************************)
EXTENDS RegsPane

CONSTANTS
  N,               \* how many devices have a block
  EventsPerFrame   \* bound: events handled between two frames, in a fast burst

ASSUME DevicePanesAssumption ==
  /\ N \in Nat \ {0} /\ Devices = 1..N
  /\ EventsPerFrame \in Nat \ {0}

VARIABLES
  selected,      \* selected_dev_iter_
  flag,          \* flag[d]: selected_ of the block of d
  mark,          \* mark[d]: has_highlighted_regs_ of the block of d
  look,          \* look[d]: how the box of d was last drawn
  mode,          \* current_drawing_mode_
  events,        \* events handled since the last frame
  burst          \* how many events there may be between two frames; never changes

treeVars == <<selected, flag, mark, look, mode>>
vars == <<keep, newly, cur, vis, heap, split, visMap, compMap,
          selected, flag, mark, look, mode, events, burst>>

Modes == {"Compact", "Verbose"}

\* CanvasElemPCIDev::Draw: the style of the box.
Draw(isSelected, isMarked) ==
  IF isSelected THEN "orange" ELSE IF isMarked THEN "cyan" ELSE "plain"

\* AddTopologyElements has selected the first device.
Init ==
  /\ InitPane /\ newly = 1
  /\ selected = 1
  /\ flag = [d \in Devices |-> d = 1]
  /\ mark = [d \in Devices |-> FALSE]
  /\ look = [d \in Devices |-> Draw(d = 1, FALSE)]
  /\ mode \in Modes
  /\ events = 0
  /\ burst \in {1, EventsPerFrame}

-----------------------------------------------------------------------------

Event ==
  /\ events < burst
  /\ events' = events + 1
  /\ UNCHANGED burst

\* Seeded fault: the device that was selected is not marked.
MarkOnLeave_Never(old) == mark

\* The device that stops being selected is marked with what the registers pane
\* says at that moment.
MarkOnLeave(old) == [mark EXCEPT ![old] = CurDevHaveRegsHighlighted]

\* Seeded fault: the block that was selected is left as it looks.
MoveSelection_NoRedraw(k) ==
  /\ selected' = k
  /\ flag' = [flag EXCEPT ![selected] = FALSE, ![k] = TRUE]
  /\ mark' = MarkOnLeave(selected)
  /\ look' = [look EXCEPT ![k] = Draw(TRUE, MarkOnLeave(selected)[k])]
  /\ UNCHANGED mode

\* Both blocks are redrawn, the one that was selected and the one that is now.
MoveSelection(k) ==
  /\ selected' = k
  /\ flag' = [flag EXCEPT ![selected] = FALSE, ![k] = TRUE]
  /\ mark' = MarkOnLeave(selected)
  /\ look' = [look EXCEPT ![selected] = Draw(FALSE, MarkOnLeave(selected)[selected]),
                          ![k]        = Draw(TRUE, MarkOnLeave(selected)[k])]
  /\ UNCHANGED mode

\* 'J' or Ctrl+Down: std::next(), unless it is end().
SelectNext ==
  /\ Event
  /\ \/ selected < N /\ MoveSelection(selected + 1)
     \/ selected = N /\ UNCHANGED treeVars
  /\ UpdateSelectedDev(selected')

\* 'K' or Ctrl+Up, unless at begin().
SelectPrev ==
  /\ Event
  /\ \/ selected > 1 /\ MoveSelection(selected - 1)
     \/ selected = 1 /\ UNCHANGED treeVars
  /\ UpdateSelectedDev(selected')

\* Seeded fault: the registers pane is not told.
Click_Untold ==
  /\ Event
  /\ \E k \in Devices \ {selected} : MoveSelection(k)
  /\ UNCHANGED paneVars

\* Left click in the tree pane.  The block looked at is the last one that starts
\* above the pointer; one the pointer is not within the width of is left alone.
\* Above the first block the iterator is moved before begin(): it then compares
\* equal to end(), or in a tree of at most two nodes comes back to the first.
Click ==
  /\ Event
  /\ \/ \E k \in Devices \ {selected} : MoveSelection(k)
     \/ UNCHANGED treeVars
  /\ UpdateSelectedDev(selected')

\* ReapplyHighlight: the i-th block gets the i-th mark that Reset saved.
ReapplyHighlight(saved) == [d \in Devices |-> saved[d]]

\* SwitchDrawingMode: the blocks are made anew, in the same order; the selected
\* device is looked for among them and the saved marks are given back.
SwitchDrawingMode(m) ==
  /\ Event
  /\ mode # m
  /\ mode' = m
  /\ flag' = [d \in Devices |-> d = selected]
  /\ mark' = ReapplyHighlight([i \in 1..N |-> mark[i]])
  /\ look' = [d \in Devices |-> Draw(flag'[d], mark'[d])]
  /\ UNCHANGED selected
  /\ UpdateSelectedDev(selected)

\* 'r'.
Reset ==
  /\ Event
  /\ ResetRegsVisibilityState
  /\ UNCHANGED treeVars

\* A click, or Return, on a button of the registers pane.
Press(i) ==
  /\ Event
  /\ PressButton(i)
  /\ UNCHANGED treeVars

\* A frame is drawn.
Frame ==
  /\ \/ OnRender
     \/ newly = cur /\ events > 0 /\ UNCHANGED paneVars
  /\ events' = 0
  /\ UNCHANGED <<treeVars, burst>>

Next ==
  \/ SelectNext
  \/ SelectPrev
  \/ Click
  \/ \E m \in Modes : SwitchDrawingMode(m)
  \/ Reset
  \/ \E i \in 1..InteractiveElemMax : Press(i)
  \/ Frame

\* The event loop draws as soon as no event is waiting, and the events of a burst
\* come to an end.
Fairness == WF_vars(Frame)

Spec == Init /\ [][Next]_vars /\ Fairness

-----------------------------------------------------------------------------
(***************************************************************************)
(* Properties.                                                             *)
(***************************************************************************)

\* The values the variables can have.
TypeOK ==
  /\ PaneTypeOK
  /\ newly \in Devices
  /\ selected \in Devices
  /\ flag \in [Devices -> BOOLEAN]
  /\ mark \in [Devices -> BOOLEAN]
  /\ look \in [Devices -> {"orange", "cyan", "plain"}]
  /\ mode \in Modes
  /\ burst \in {1, EventsPerFrame}
  /\ events \in 0..burst

\* Exactly the block of the selected device is drawn as selected, and no box on
\* the canvas is left as it looked before its flags changed.
BlocksDrawn ==
  \A d \in Devices : look[d] = Draw(d = selected, mark[d])

\* When a frame is drawn after each event, the tree shows at all times, in either
\* drawing mode, which of the other devices have registers open.
TreeShowsOpenRegisters ==
  burst = 1 => \A d \in Devices : look[d] = Draw(d = selected, keep /\ Shown(d) # {})

\* Again and again the registers pane displays the device the tree has selected.
PaneFollows == []<>(cur = selected)

\* However many events came since the last one, and whatever they did to the tree, a
\* frame shows the registers of the device that is selected in it.
FrameShowsSelected == [][Frame => cur' = selected]_vars

\* The help screen: "r - reset highlighted registers for the currently selected
\* device", and for no other.
ResetOnlySelected ==
  [][Reset => \A d \in Devices \ {selected} : Shown(d)' = Shown(d)]_vars
=============================================================================
