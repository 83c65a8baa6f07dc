------------------------------- MODULE Topology -------------------------------
(***************************************************************************)
(* From what a provider returns to the blocks of the device tree pane:     *)
(* PCITopologyCtx::Populate (src/pci_topo.cpp) and the layout of           *)
(* PCITopoUIComp (src/ui/screen.cpp), which walks the bus tree from each   *)
(* root bus, one block below the other, and is run again whenever the      *)
(* drawing mode is switched.                                               *)
(*                                                                         *)
(* AddBusDevices calls itself; its activations are the stack here, a frame *)
(* being the bus it was called for and how many devices it has placed.     *)
(***************************************************************************)
EXTENDS Integers, Sequences, FiniteSets

CONSTANTS
  Systems,      \* what the provider can return: a device list and a bus list
  Dots          \* how many dots a position or a height can count: 2^16, they are uint16_t

\* fn stands for the device and the function number together; lines for how many
\* of the vendor and device names the ids database has.
Device == [dom : Nat, bus : Nat, fn : Nat, bridge : BOOLEAN, sec : Nat, names : 0..2]
Bus    == [dom : Nat, bus : Nat, is_root : BOOLEAN]

ASSUME SystemsAssumption ==
  Systems \subseteq [devs : Seq(Device), buses : Seq(Bus)]

\* The mode box fits.
ASSUME DotsAssumption == Dots \in Nat /\ Dots > 12

VARIABLES
  system,       \* what the provider returned
  phase,        \* where the program is
  devs,         \* devs_
  buses,        \* buses_: a map whose key is a bus number
  mode,         \* current_drawing_mode_
  roots,        \* the buses AddTopologyElements has not looked at yet
  stack,        \* the activations of AddBusDevices
  y,            \* where the next element goes
  blocks,       \* the devices of canvas_elems_, as they were drawn, and the key of each in
                \* blocks_y_dim_
  saved         \* the devices regs_highlighted_elems_ has a mark of, one of them selected_dev_

vars == <<system, phase, devs, buses, mode, roots, stack, y, blocks, saved>>

Modes == {"Compact", "Verbose"}

Elems(s) == {s[i] : i \in DOMAIN s}

Init ==
  /\ system \in Systems
  /\ phase  = "populate"
  /\ devs   = << >>
  /\ buses  = << >>
  /\ mode \in Modes
  /\ roots  = {}
  /\ stack  = << >>
  /\ y      = 0
  /\ blocks = << >>
  /\ saved  = {}

-----------------------------------------------------------------------------
(***************************************************************************)
(* Populate.                                                               *)
(***************************************************************************)

\* The key the device list is sorted by.
DBdf(d) == d.fn + 65536 * (d.bus + 256 * d.dom)

Before(key, i, j) == key[i] < key[j] \/ (key[i] = key[j] /\ i < j)

\* The members of s at the indices that have a key, by ascending key, and where keys are
\* alike as they are in s.
Ordered(s, key) ==
  [k \in 1 .. Cardinality(DOMAIN key) |->
     s[CHOOSE i \in DOMAIN key :
         Cardinality({j \in DOMAIN key : Before(key, j, i)}) = k - 1]]

Sorted(s) == Ordered(s, [i \in DOMAIN s |-> DBdf(s[i])])

\* The members of ds at the indices in I.
Picked(ds, I) == Ordered(ds, [i \in I |-> i])

\* Seeded fault: a bus gets the devices with a lower number as well.
DevicesOf_AtMost(ds, nr) == Picked(ds, {i \in DOMAIN ds : ds[i].bus <= nr})

\* The devices of the bus numbered nr, whatever their domain.
DevicesOf(ds, nr) == Picked(ds, {i \in DOMAIN ds : ds[i].bus = nr})

\* The map is keyed by the bus number alone: a second bus of that number, in
\* whatever domain, is an error.
BusNumberClash(bs) == \E i, j \in DOMAIN bs : i # j /\ bs[i].bus = bs[j].bus

Populated(ds, bs) ==
  [nr \in {b.bus : b \in Elems(bs)} |->
     [is_root |-> (CHOOSE b \in Elems(bs) : b.bus = nr).is_root,
      devs    |-> DevicesOf(ds, nr)]]

\* AddTopologyElements, from the top: the canvas has the mode box on it.
StartLayout(bs) ==
  /\ phase'  = "layout"
  /\ roots'  = DOMAIN bs
  /\ stack'  = << >>
  /\ y'      = 12
  /\ blocks' = << >>

Populate ==
  /\ phase = "populate"
  /\ devs' = Sorted(system.devs)
  /\ IF \/ system.devs = << >>
        \/ system.buses = << >>
        \/ BusNumberClash(system.buses)
     THEN /\ phase' = "failed"
          /\ UNCHANGED <<buses, roots, stack, y, blocks>>
     ELSE /\ buses' = Populated(devs', system.buses)
          /\ StartLayout(buses')
  /\ UNCHANGED <<system, mode, saved>>

-----------------------------------------------------------------------------
(***************************************************************************)
(* The layout.                                                             *)
(***************************************************************************)

\* What a uint16_t keeps of a number of dots.
Dot(n) == n % Dots

\* CanvasElemPCIDev: the lines of text in a block, and GetHeight.
TextLines(d) == IF mode = "Verbose" THEN 1 + d.names ELSE 1
Height(d)    == (TextLines(d) + 2) * 4

\* Seeded fault: the loop goes on to the next bus only past a root bus.
Remaining_PastRoots(nr) == IF buses[nr].is_root THEN roots \ {nr} ELSE roots

\* The buses left after the one numbered nr.
Remaining(nr) == roots \ {nr}

\* The loop of AddTopologyElements: buses come in the order of their numbers, and
\* only root buses are drawn.  AddRootBus makes room for the bus's own box.
NextBus ==
  /\ phase = "layout" /\ stack = << >> /\ roots # {}
  /\ LET nr == CHOOSE r \in roots : \A s \in roots : r <= s IN
       /\ roots' = Remaining(nr)
       /\ IF buses[nr].is_root
          THEN /\ stack' = <<[bus |-> nr, placed |-> 0]>>
               /\ y' = Dot(y + 12)
          ELSE UNCHANGED <<stack, y>>
  /\ UNCHANGED <<system, phase, devs, buses, mode, blocks, saved>>

top == stack[Len(stack)]

\* Seeded fault: the secondary bus is taken to be known.
Descend_Unchecked(frame, d) ==
  IF d.bridge
  THEN <<[frame EXCEPT !.placed = @ + 1], [bus |-> d.sec, placed |-> 0]>>
  ELSE <<[frame EXCEPT !.placed = @ + 1]>>

\* Seeded fault: the secondary bus is left for when the bus is finished.
Descend_Later(frame, d) ==
  IF d.bridge /\ d.sec \in DOMAIN buses
  THEN <<[bus |-> d.sec, placed |-> 0], [frame EXCEPT !.placed = @ + 1]>>
  ELSE <<[frame EXCEPT !.placed = @ + 1]>>

\* Seeded fault: the caller's position is not moved past a bridge it descends into.
Descend_Twice(frame, d) ==
  IF d.bridge /\ d.sec \in DOMAIN buses
  THEN <<frame, [bus |-> d.sec, placed |-> 0]>>
  ELSE <<[frame EXCEPT !.placed = @ + 1]>>

\* The frame that placed d, and the call for the bus behind d if d is a bridge whose
\* secondary bus is known.
Descend(frame, d) ==
  IF d.bridge /\ d.sec \in DOMAIN buses
  THEN <<[frame EXCEPT !.placed = @ + 1], [bus |-> d.sec, placed |-> 0]>>
  ELSE <<[frame EXCEPT !.placed = @ + 1]>>

\* Seeded fault: what lies behind a bridge begins where the bridge does.
Below_Bridge(d) == IF d.bridge THEN y ELSE Dot(y + Height(d))

\* Where the next element goes once d has its block.
Below(d) == Dot(y + Height(d))

\* One turn of the loop of AddBusDevices: AddDevice, which draws the block and offers it to
\* the map, see Inserted, and the call for the secondary bus.
PlaceDevice ==
  /\ phase = "layout" /\ stack # << >>
  /\ top.placed < Len(buses[top.bus].devs)
  /\ LET d == buses[top.bus].devs[top.placed + 1] IN
       /\ blocks' = Append(blocks, [dev |-> d, key |-> Dot(y + 3)])
       /\ y' = Below(d)
       /\ stack' = SubSeq(stack, 1, Len(stack) - 1) \o Descend(top, d)
  /\ UNCHANGED <<system, phase, devs, buses, mode, roots, saved>>

\* AddBusDevices returns.
Return ==
  /\ phase = "layout" /\ stack # << >>
  /\ top.placed = Len(buses[top.bus].devs)
  /\ stack' = SubSeq(stack, 1, Len(stack) - 1)
  /\ UNCHANGED <<system, phase, devs, buses, mode, roots, y, blocks, saved>>

\* The map refuses a block whose key an earlier one has.
Inserted == {i \in DOMAIN blocks : \A j \in 1..(i - 1) : blocks[j].key # blocks[i].key}
Tracked  == {blocks[i].dev : i \in Inserted}

\* The rest of AddTopologyElements.  It selects the first block, without a look if there is
\* one.  Later, it selects the block of the device selected before and gives the marks back:
\* with other blocks than before the selection may stay in the map that was cleared, and the
\* assertion fails, in a build that has it, that the marks are as many.
FinishLayout ==
  /\ phase = "layout" /\ stack = << >> /\ roots = {}
  /\ \/ Tracked # {} /\ phase' = "done"
     \/ /\ Tracked = {} \/ saved \notin {{}, Tracked}
        /\ phase' = "crashed"
  /\ UNCHANGED <<system, devs, buses, mode, roots, stack, y, blocks, saved>>

\* SwitchDrawingMode saves the marks, drops every element and lays them out again.
SwitchDrawingMode(m) ==
  /\ phase = "done"
  /\ mode # m
  /\ mode' = m
  /\ saved' = Tracked
  /\ StartLayout(buses)
  /\ UNCHANGED <<system, devs, buses>>

Layout == NextBus \/ PlaceDevice \/ Return \/ FinishLayout

Next ==
  \/ Populate
  \/ Layout
  \/ \E m \in Modes : SwitchDrawingMode(m)

\* The program's one thread runs on.
Spec == Init /\ [][Next]_vars /\ WF_vars(Populate \/ Layout)

-----------------------------------------------------------------------------
(***************************************************************************)
(* The systems the kernel enumerates.                                      *)
(***************************************************************************)

\* Bus numbers were given out depth first: the bus behind a bridge has a higher
\* number than the bridge's own and lies behind that bridge alone, and no root bus
\* lies behind a bridge.  No two devices have one address.
Enumerated(s) ==
  /\ \A i, j \in DOMAIN s.devs : i # j => DBdf(s.devs[i]) # DBdf(s.devs[j])
  /\ \A d \in Elems(s.devs) : d.bridge => d.sec > d.bus
  /\ \A d, e \in Elems(s.devs) : d.bridge /\ e.bridge /\ d.sec = e.sec => d = e
  /\ \A d \in Elems(s.devs), b \in Elems(s.buses) : d.bridge /\ b.is_root => d.sec # b.bus

\* The devices of the system on the buses in S, and the buses there are entries for.
DevicesOn(S) == {d \in Elems(system.devs) : d.bus \in S}
KnownBuses   == {b.bus : b \in Elems(system.buses)}
RootBuses    == {b.bus : b \in {c \in Elems(system.buses) : c.is_root}}

\* All buses in the trees below those in S: those in every set of buses that has S and,
\* with the bus a bridge is on, the one behind it.
TreeOf(S) ==
  LET closed == {T \in SUBSET KnownBuses :
                   /\ S \subseteq T
                   /\ \A d \in DevicesOn(T) : d.bridge /\ d.sec \in KnownBuses => d.sec \in T}
  IN  {nr \in KnownBuses : \A T \in closed : nr \in T}

-----------------------------------------------------------------------------
(***************************************************************************)
(* Properties.                                                             *)
(***************************************************************************)

\* The values the variables can have.
TypeOK ==
  /\ phase \in {"populate", "failed", "layout", "done", "crashed"}
  /\ Elems(devs) \subseteq Elems(system.devs)
  /\ \A nr \in DOMAIN buses : Elems(buses[nr].devs) \subseteq Elems(devs)
  /\ mode \in Modes
  /\ roots \subseteq DOMAIN buses
  /\ \A i \in DOMAIN stack : /\ stack[i].bus \in DOMAIN buses
                             /\ stack[i].placed \in 0 .. Len(buses[stack[i].bus].devs)
  /\ y \in 0..(Dots - 1)
  /\ \A i \in DOMAIN blocks : blocks[i].dev \in Elems(devs) /\ blocks[i].key \in 0..(Dots - 1)
  /\ saved \subseteq Elems(devs)

\* Seeded fault: room for the text of two lines.
DeviceRoom_Low(m) == IF m = "Verbose" THEN 4 * 4 ELSE 3 * 4

\* GetCanvasSizeEstimate's dev_elem_height.
DeviceRoom(m) == IF m = "Verbose" THEN 5 * 4 ELSE 3 * 4

\* What GetCanvasSizeEstimate adds up, and the height it makes of it, before anything is
\* placed.
TreeHeight(m) ==
  12 * Cardinality({nr \in DOMAIN buses : buses[nr].is_root}) + DeviceRoom(m) * Len(devs) + 16
CanvasHeight == Dot(TreeHeight(mode))

\* The estimate does not wrap.
HasRoom(m) == TreeHeight(m) < Dots

\* No device is drawn twice, and unless the estimate wraps no insertion into the block map is
\* refused and the blocks come in the order they were drawn: the warning AddDevice logs for a
\* refusal does not come.
NoBlockTwice ==
  /\ \A i, j \in DOMAIN blocks : i # j => blocks[i].dev # blocks[j].dev
  /\ HasRoom(mode) => \A i, j \in DOMAIN blocks : i < j => blocks[i].key < blocks[j].key

\* A finished layout has drawn each device that can be reached from a root bus, and no
\* other.  Without any, the program crashes; and for no other reason, however often the mode
\* is switched, unless an estimate wraps: the device selected has a block again, and the
\* assertion in ReapplyHighlight that the blocks are as many as the saved marks never fails.
LayoutComplete ==
  LET drawn == {blocks[i].dev : i \in DOMAIN blocks}
  IN  phase \in {"done", "crashed"} =>
        /\ drawn = DevicesOn(TreeOf(RootBuses))
        /\ phase = "done" => drawn # {}
        /\ phase = "crashed" /\ HasRoom("Verbose") => drawn = {}

\* What lies behind a bridge is drawn directly after it, before anything else, so that the
\* connector lines enclose it; the devices of a bus come by address.
TreeOrder ==
  phase = "done" =>
    /\ \A i \in DOMAIN blocks :
         LET d      == blocks[i].dev
             behind == IF d.bridge /\ d.sec \in KnownBuses
                       THEN DevicesOn(TreeOf({d.sec})) ELSE {}
         IN  behind = {blocks[j].dev : j \in {k \in DOMAIN blocks :
                                                i < k /\ k <= i + Cardinality(behind)}}
    /\ \A i, j \in DOMAIN blocks :
         i < j /\ blocks[i].dev.bus = blocks[j].dev.bus
           => DBdf(blocks[i].dev) < DBdf(blocks[j].dev)

\* Nothing is placed below the canvas, unless the estimate of its height wraps.  Its width is
\* the same for every tree.
FitsCanvas == phase \in {"layout", "done", "crashed"} /\ HasRoom(mode) => y <= CanvasHeight

\* No layout takes more steps than this: two for each bus still to be looked at and for each
\* device still to be placed, of which one is the call for a bus or the block and one the
\* return; one for each activation; and one to finish.
LayoutLeft ==
  IF phase = "populate"
  THEN 2 * (Cardinality(KnownBuses) + Len(system.devs)) + 2
  ELSE 2 * (Cardinality(roots) + Len(devs) - Len(blocks)) + Len(stack)
         + (IF phase = "layout" THEN 1 ELSE 0)

\* The README: "whole topology overview in compact or verbose mode".  Whatever system
\* the provider describes, each of its devices is drawn in the end.
WholeTopologyShown ==
  /\ phase = "failed" => system.devs = << >> \/ system.buses = << >>
  /\ phase = "done" => {blocks[i].dev : i \in DOMAIN blocks} = Elems(system.devs)
  /\ phase # "crashed"
=============================================================================
