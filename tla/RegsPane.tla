------------------------------- MODULE RegsPane -------------------------------
(***************************************************************************)
(* PCIRegsComponent of src/ui/screen.cpp: the right pane, which displays   *)
(* one device at a time and remembers which of its registers are open.     *)
(*                                                                         *)
(* The state of a register is one element of the vector vis_state_; the    *)
(* button that toggles it and the detail text it shows hold a pointer to   *)
(* that element, taken while the component was built.  So what matters is  *)
(* which heap buffer a vector owns: buffers are identities, a vector is    *)
(* the buffer it owns (NoBuffer if it owns none), and a component is the   *)
(* device it was built for and the buffer its pointers go into.            *)
(***************************************************************************)
EXTENDS Integers, Sequences, FiniteSets

CONSTANTS
  Devices,
  Slots,              \* Slots[d]: the elements CreateComponent appends for d
  InteractiveElemMax, \* interactive_elem_max_
  Buffers,            \* what the allocator hands out
  NoDevice, NoBuffer, Absent

\* CreateComponent never makes the vector outgrow what was reserved: the code
\* says so in a FIXME and does not check it.
ASSUME SlotsAssumption ==
  /\ InteractiveElemMax \in Nat
  /\ Slots \in [Devices -> 0 .. InteractiveElemMax]

Component == [dev : Devices, buf : Buffers]

ASSUME PaneConstantsAssumption ==
  /\ NoDevice \notin Devices
  /\ NoBuffer \notin Buffers /\ Absent \notin Buffers /\ Absent # NoBuffer
  /\ Absent \notin Component

VARIABLES
  keep,         \* pciex_cfg.tui.keep_dev_selected_regs
  newly,        \* newly_selected_dev_
  cur,          \* cur_dev_
  vis,          \* vis_state_: the buffer it owns
  heap,         \* heap[b]: the elements in the buffer b
  split,        \* split_comp_, which is the child of the pane once it has one
  visMap,       \* vis_state_map_
  compMap       \* comp_map_

paneVars == <<keep, newly, cur, vis, heap, split, visMap, compMap>>

NoSplit == [dev |-> NoDevice, buf |-> NoBuffer]

InitPane ==
  /\ keep \in BOOLEAN
  /\ newly \in Devices \cup {NoDevice}
  /\ cur     = NoDevice
  /\ vis     = NoBuffer
  /\ heap    = [b \in Buffers |-> <<>>]
  /\ split   = NoSplit
  /\ visMap  = [d \in Devices |-> Absent]
  /\ compMap = [d \in Devices |-> Absent]

-----------------------------------------------------------------------------

UpdateSelectedDev(d) ==
  /\ newly' = d
  /\ UNCHANGED <<keep, cur, vis, heap, split, visMap, compMap>>

AllClosed(n) == [i \in 1..n |-> 0]

Lit(b) == {i \in DOMAIN heap[b] : heap[b][i] = 1}

\* CurDevHaveRegsHighlighted: the device it speaks of is cur_dev_.
CurDevHaveRegsHighlighted ==
  /\ keep
  /\ vis # NoBuffer
  /\ Lit(vis) # {}

\* ResetRegsVisibilityState.
ResetRegsVisibilityState ==
  /\ heap' = IF vis = NoBuffer THEN heap
             ELSE [heap EXCEPT ![vis] = AllClosed(Len(heap[vis]))]
  /\ UNCHANGED <<keep, newly, cur, vis, split, visMap, compMap>>

\* Seeded fault: the element counts the presses.
PressButton_Counts(i) ==
  /\ split # NoSplit
  /\ i \in DOMAIN heap[split.buf]
  /\ heap' = [heap EXCEPT ![split.buf][i] = @ + 1]
  /\ UNCHANGED <<keep, newly, cur, vis, split, visMap, compMap>>

\* The i-th button of the attached component is clicked, or Return is pressed on
\* it: it writes through its pointer.
PressButton(i) ==
  /\ split # NoSplit
  /\ i \in DOMAIN heap[split.buf]
  /\ heap' = [heap EXCEPT ![split.buf][i] = 1 - @]
  /\ UNCHANGED <<keep, newly, cur, vis, split, visMap, compMap>>

\* Seeded fault: the state is put away with emplace(), which leaves an entry that
\* is already there as it is.
SavedVisMap_Emplace ==
  IF keep /\ cur # NoDevice /\ visMap[cur] = Absent
  THEN [visMap EXCEPT ![cur] = vis] ELSE visMap

\* The two maps once the state of cur_dev_ has been put away in them.
SavedVisMap ==
  IF keep /\ cur # NoDevice THEN [visMap EXCEPT ![cur] = vis] ELSE visMap

SavedCompMap ==
  IF keep /\ cur # NoDevice THEN [compMap EXCEPT ![cur] = split] ELSE compMap

\* What the vector owns when it is cleared and reserve() called on it: nothing if
\* it has been moved from or was never used, or else what it owned before.
Reserved ==
  IF vis # NoBuffer /\ ~keep THEN {vis}
  ELSE Buffers \ {SavedVisMap[d] : d \in Devices}

\* Seeded fault: the state found in the map is copied into the reserved buffer.
Restored_Copied(b, heap1) ==
  [vis |-> b, visMap |-> SavedVisMap, heap |-> [heap1 EXCEPT ![b] = heap1[SavedVisMap[newly]]]]

\* The vector found in the map is moved into vis_state_, which drops the buffer b
\* just reserved and leaves an entry that owns nothing.
Restored(b, heap1) ==
  [vis    |-> SavedVisMap[newly],
   visMap |-> [SavedVisMap EXCEPT ![newly] = NoBuffer],
   heap   |-> heap1]

\* PCIRegsComponent::OnRender when another device has been selected since the
\* last frame; else it changes nothing.
OnRender ==
  /\ newly # cur
  /\ cur' = newly
  /\ \E b \in Reserved :
       LET cleared == [heap EXCEPT ![b] = <<>>]
           known   == keep /\ SavedVisMap[newly] # Absent
           v       == IF known THEN Restored(b, cleared)
                      ELSE [vis |-> b, visMap |-> SavedVisMap, heap |-> cleared]
           built   == keep /\ SavedCompMap[newly] # Absent
       IN
       /\ vis'     = v.vis
       /\ visMap'  = v.visMap
       /\ compMap' = SavedCompMap
       /\ split'   = IF built THEN SavedCompMap[newly]
                     ELSE [dev |-> newly, buf |-> v.vis]
       /\ heap'    = IF built THEN v.heap
                     ELSE [v.heap EXCEPT ![v.vis] = @ \o AllClosed(Slots[newly])]
  /\ UNCHANGED <<keep, newly>>

NextPane ==
  \/ \E d \in Devices : UpdateSelectedDev(d)
  \/ ResetRegsVisibilityState
  \/ \E i \in 1..InteractiveElemMax : PressButton(i)
  \/ OnRender

PaneSpec == InitPane /\ [][NextPane]_paneVars

-----------------------------------------------------------------------------
(***************************************************************************)
(* Properties.                                                             *)
(***************************************************************************)

\* The values the variables can have.
PaneTypeOK ==
  /\ keep \in BOOLEAN
  /\ newly \in Devices \cup {NoDevice}
  /\ cur \in Devices \cup {NoDevice}
  /\ newly = NoDevice => cur = NoDevice
  /\ vis \in Buffers \cup {NoBuffer}
  /\ heap \in [Buffers -> Seq({0, 1})]
  /\ split \in Component \cup {NoSplit}
  /\ visMap \in [Devices -> Buffers \cup {NoBuffer, Absent}]
  /\ compMap \in [Devices -> Component \cup {Absent}]

\* The component on the screen was built for cur_dev_ and its pointers go into
\* the buffer vis_state_ owns, which has an element for each of them.
DisplayedIsLive ==
  IF cur = NoDevice THEN split = NoSplit /\ vis = NoBuffer
  ELSE /\ vis # NoBuffer
       /\ split = [dev |-> cur, buf |-> vis]
       /\ Len(heap[vis]) = Slots[cur]

\* A component that was put away was built for its device and its pointers go
\* into the buffer that was put away with it.
KeptIsLive ==
  \A d \in Devices \ {cur} :
    \/ visMap[d] = Absent /\ compMap[d] = Absent
    \/ /\ visMap[d] \in Buffers
       /\ compMap[d] = [dev |-> d, buf |-> visMap[d]]
       /\ Len(heap[visMap[d]]) = Slots[d]

\* No buffer has two owners.
OneOwner ==
  /\ \A d, e \in Devices : visMap[d] \in Buffers /\ visMap[d] = visMap[e] => d = e
  /\ \A d \in Devices : vis # NoBuffer => visMap[d] # vis

\* Nothing is put away when the option is off, nor for the device on the screen.
PutAway ==
  /\ ~keep => \A d \in Devices : visMap[d] = Absent /\ compMap[d] = Absent
  /\ cur # NoDevice => visMap[cur] \notin Buffers

\* No pointer held by a component that can still be displayed dangles, or goes
\* into the state of another device (the comment in PCIRegsComponent::OnRender:
\* the location of a flag "is expected not to be changed").
PointersValid ==
  /\ DisplayedIsLive
  /\ KeptIsLive
  /\ OneOwner
  /\ PutAway

\* What the user sees open in the component of d, through its own pointers.
Shown(d) ==
  IF d = cur THEN Lit(split.buf)
  ELSE IF compMap[d] = Absent THEN {}
  ELSE Lit(compMap[d].buf)

Store ==
  INSTANCE HighlightStore WITH
    Registers <- [d \in Devices |-> 1 .. Slots[d]],
    chosen    <- newly,
    displayed <- cur,
    open      <- [d \in Devices |-> Shown(d)]

\* Which registers are open is what src/config.h says of keep_dev_selected_regs:
\* the user's own, kept across any number of switches or dropped by each.
ImplementsHighlightStore == Store!Spec
=============================================================================
