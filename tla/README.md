# A TLA+ model of pciex

`pciex` is a terminal-based explorer of the PCI topology of a Linux machine. It
runs live on what sysfs says (`-l`), captures a snapshot of it in a file (`-c`),
or views such a file (`-s`). The modules here model the parts of it with state and
with an order of steps that matters; TLC checks them on small instances and TLAPS
proves the central results for all.

To check a configuration: `tlc -config MCSnapshot.cfg MCSnapshot`; to check a
proof: `tlapm SnapshotProofs.tla`. `PROJECT.json` lists runs, theorems, the lines
each definition stands for, the hazards of the code, and for each property a
seeded fault of the code that the property catches (the definitions marked
"Seeded fault" in the modules).

## Inventory

| part | source (`src/src/`) | state it keeps | operations |
| --- | --- | --- | --- |
| Startup | `main.cpp`, `config.cpp` | options, configuration | parse the command line and the configuration, check privileges, choose providers |
| Sysfs provider | `linux-sysfs.cpp` | none | list devices, list buses; refuses to save |
| Snapshot provider | `snapshot.cpp` | `fd_`, `off_`, `bytes_written_`, `cur_dev_num_`, the counts | capture: prepare, write devices, buses, header, link. View: check, open, read header, devices, buses |
| Topology context | `pci_topo.cpp` | `devs_`, `buses_` | `Populate`, `Capture` |
| PCI device | `pci_dev.cpp`, `util.cpp` | capabilities, BARs, mappings, names | `ParseCapabilities`, `ParseBars`, `ParseBarsV2PMappings`, `ParseIDs` |
| Ids database | `ids_parse.cpp` | `ids_cache_`, `class_code_db_off_` | four lookups |
| Device tree pane | `ui/screen.cpp` | `blocks_y_dim_`, `selected_dev_iter_`, marks, mode | layout, select by key or click, switch mode, scroll |
| Registers pane | `ui/screen.cpp`, `ui/common_comp.cpp` | `cur_dev_`, `vis_state_`, the two maps | select, display, press a button, reset |
| Register components | `ui/*_comp.cpp` | elements of `vis_state_` | one button and its descriptions for each register of the header and of each capability |
| Register tables and texts | `pci_regs.*`, `pci_dev.*`, `ui/*_comp.cpp` | none | cut a register out of configuration space, label and show its fields |
| Screen | `ui/screen.cpp` | `area_`, `box_`, separator, focus, help | shift, wheel, click, resize, keys |
| Logger | `log.*` | none that another part reads | init, log |

How they interact: `main` builds the providers and either hands two of them to
`Capture` (sysfs to snapshot), or one to `Populate`, which turns each descriptor
into a device, calls the ids database for it, and files it under its bus. The
screen then lives on the finished topology: the tree pane calls into the registers
pane on each event that may change the selection; the registers pane follows when
the next frame is drawn, building the components of a device it has not shown
before and reusing those of one it has. Everything runs in one thread; what
interleaves are processes on one file system, events with frames, and the order in
which devices reach the caches.

What is hard in each part, and what makes it correct:

- *Snapshot provider.* Three counters advance apart from each other while records
  of variable length are written; the header that describes them comes last and
  the name after it. Any call can fail or be the last one, several processes share
  a directory, and files are cut, removed and replaced under a reader. Correct: only
  complete snapshots have names, nothing is overwritten, and a view shows one
  capture or refuses for a reason that is there.
- *Topology and layout.* Buses are found by number; the layout recurses from bridge
  to bus, keys blocks by position, and estimates the canvas beforehand. Correct: each
  device that can be reached has one block, in tree order, on the canvas.
- *PCI device.* Two linked lists in memory that hardware wrote, with entries to skip;
  binary searches over mappings. Correct: the list is the chains, the walk ends, each
  BAR has its own mappings.
- *Ids database.* Searches in a text with limits that other searches found, caches
  that earlier devices fill. Correct: names do not depend on the order of devices and
  come from the right block.
- *The two panes.* The tree acts at once and the registers pane later. Vectors are
  moved, reserved anew and moved back while buttons hold pointers into them. Correct:
  no pointer dangles, registers stay open per device, and the tree shows what is so.
- *Register components.* Elements are appended by one count, taken by another and
  pointed back to by a third. Correct: a press shows its own register only.
- *Register tables and texts.* Bit positions are written down three times: in the
  structures, in the labels and in the offsets of titles and reads. Correct: a row shows
  the bits that it says it shows.
- *Startup and sysfs.* Any of a dozen checks can end it; the directories change while they
  are read. Correct: what is shown or stored was asked for, and found by a whole scan.
- *Screen.* The view is shifted by where the pane was in the last frame, and by offsets
  older than the separator, the terminal or the mode. Correct: the canvas stays in view
  and within reach, and a click selects what it hits.

## Modules

| module | models | its theorems |
| --- | --- | --- |
| `SnapshotFormat` | the record lengths of `snapshot.h`, and the conversions of a descriptor to a record and back | |
| `SnapshotStore` | what capturing and viewing promises: names bound in one step | |
| `Snapshot` | `SnapshotProvider`, one action per call, in any number of processes | `SnapshotProofs` |
| `Topology` | `Populate` and the layout of the tree pane, with the recursion as a stack | `StartupProofs` |
| `Startup` | `main`, its options, configuration and providers, the scan of sysfs; extends `Topology` | `StartupProofs` |
| `PciDevice` | the capability walk, the BARs and their mappings | `PciDeviceProofs` |
| `IdsDb` | `PciIdParser` and `ParseIDs` | `IdsDbProofs` |
| `HighlightStore` | what the registers pane promises about open registers | |
| `RegsPane` | `PCIRegsComponent`: vectors, buffers and the pointers into them | `DevicePanesProofs` |
| `DevicePanes` | the tree pane driving the registers pane, events against frames; extends `RegsPane` | `DevicePanesProofs` |
| `RegComponents` | the components built for a device, and the elements of the state vector they share | `RegComponentsProofs` |
| `RegLayout` | `pci_regs.h`: registers as the widths of their fields, capabilities as their registers; `get_reg_compat` | `RegTextsProofs` |
| `RegTexts` | what each description says: title, bits read, rows; used by `RegComponents` | `RegTextsProofs`, `RegComponentsProofs` |
| `Screen` | the visible part of the tree's canvas, the separator, focus and help | `ScreenProofs` |
| `MC...` | the instances TLC checks | |

### How state and actions correspond to the code

*Snapshot.* `entry` and `file` are the file system: a name leads to an inode, which
is called after the capture that made it. `wnum`, `woff`, `wbytes` are
`cur_dev_num_`, `off_`, `bytes_written_`; `cpc` and `vpc` say which call a process
makes next. `StartCapture` is the check of the path on the command line, `Scan` the
sysfs scan of `Capture`, then `Prepare` (`O_TMPFILE`), `WriteDevice` once for each
device, `WriteBuses`, `StoreHeader`, `Finalize` (`linkat`); `AbortCapture` is a
failed call, a short write or a kill. A view is `StartView` (`file_size` by name),
`OpenSnapshot`, `ReadHeader`, `ReadDevice` once for each device, `ReadBuses`, and
`AbortView`. `Remove` and `Truncate` are the user. Records keep the lengths the
code computes, with one-byte fields modulo 256 (`U8`); the bytes of a configuration
space or of a resource are left out.

*Topology.* `Populate` is one step: nothing observes it. The layout is one action per
decision of the recursion, with `stack` for its frames and `y` for the position they share:
`NextBus`, `PlaceDevice` (which descends into the bus of a bridge), `Return`,
`FinishLayout`, and `SwitchDrawingMode`, which lays out again. Positions, keys and the
height of the canvas are kept as a `uint16_t` keeps them (`Dot`; `Dots` is 65536 in the code). `blocks`
is what is drawn, `Inserted` what the map of the blocks took of it; it refuses a key it has.
`saved` is of which devices `Reset` saved a mark. `FinishLayout` ends in "done", or in
"crashed": when there is no block at all it dereferences `begin()` of the empty map, and an
assertion compares the saved marks with the blocks.

*Startup.* `stage` says which call of `main` is next: `ParseCmdLineOptions`,
`ParseConfig`, `LoggerInit`, `CheckPrivileges`, `CreateTopology`. Then `ReadDevice` and
`ReadBus` read one directory entry each, with `Unplug` in between; `Provided` hands
`system` to `Populate` or to the snapshot. `host` is what this start finds, and does not
change.

*PciDevice.* One action for each call `Populate` makes of a device and for each
round of the two loops of `ParseCapabilities`. Configuration space is a function
from offsets to headers. `vm` is the list of mappings that `main` read before.

*IdsDb.* The text is a sequence of lines with a kind and an id; a search returns a
line number. One action per lookup, in the order of `ParseIDs`. `vendors` and
`devs` are the caches, `classOff` is `class_code_db_off_`.

*RegsPane, DevicePanes.* A vector is the heap buffer it owns and `heap` what is in
it, so that moving a vector moves an identity and a pointer can be seen to dangle.
`split`, `visMap`, `compMap` are the displayed components and the two maps. One
action per event, which ends with the `UpdateSelectedDev` the code calls, and
`Frame`, the `OnRender` of the pane.

*RegComponents.* Each creator is the number of elements it appends and its rows of
buttons, with how far the descriptions count back; buttons take the elements in turn, so
that one gets the first that the rows before it (`ButtonsBefore`) have left. `AddCompatHeaderRegs`,
`AddCapability` for one round of the loop of `AddCapabilities`,
`FinalizeComponent`, then `Press` and `Reset`. `RegsPane` abstracts all of it to
`Slots[d]`, the length of `vis` at the end.

*RegLayout, RegTexts.* A structure is the sequence of the widths of its bit fields, and a
row of a description is a triple of the first and last bit of its label and the field it
shows. `TextOf` gives the text of a description that `RegComponents` has made, so that
the properties about texts are properties of what is on the screen. `Low16` is the
parameter of `RegFieldVerbElem`, which keeps 16 bits of the number it shows.

*Screen.* `off` is `off_x_` and `off_y_`, `box` what `reflect(box_)` wrote in the last
frame and `split` is `vert_split_off_`. Each key or mouse event is an action, `Frame`
draws, `Resize` is the terminal. Offsets are in cells and blocks in pixels, as in the code.

## Runs

| run | bounds | shows |
| --- | --- | --- |
| `snapshot` | two captures, one view, one name, three topologies: no bus; one device; a bridge and an endpoint with the longest driver name | `PublishedComplete`, `ViewFaithful`, `RejectionsJustified`, the invariant `IInv` the proofs rest on, `CallsComeNearer`, `Termination`, and that it implements `SnapshotStore` |
| `snapshot_path` | one capture, two directories | a finding, below |
| `panes` | three devices with 1, 2 and 0 registers; one or three events between frames; one buffer more than devices | `PointersValid`, `BlocksDrawn`, `TreeShowsOpenRegisters`, `PaneFollows`, and that it implements `HighlightStore` |
| `panes_reset` | the same | a finding |
| `startup` | every command line on a machine of one device, with every configuration, privilege and file; scans of a tree, of entries that cannot be read and of one to three domains; views of every system of up to three devices out of a pool on four buses, also those with nothing below a root bus, and of a deep one with two nested bridges and a bus nothing leads to, devices in descending order; the mode switched at any time; `Dots = 108` | `ServesRequest`, `NoBlockTwice`, `LayoutComplete`, `TreeOrder`, `FitsCanvas`, `ComesNearer`, `AlwaysSettles` |
| `topology_domains` | two domains; `Dots = 65536` | a finding |
| `ids` | two vendors with up to four and two lines below, in any order; two class blocks; two or three devices in any order | `CacheTransparent`, `ClassNamesRight`, `SubsysOfDevice`, `ListedDeviceNamed` |
| `ids_vendor` | the same | a finding |
| `device` | four compatible and five extended chains, three resource lists, three vmallocinfo texts | `CapsOfChains`, `ExpressFound`, `BarMappingsRight`, `WalkNearer`, `WalkEnds` |
| `components` | nine endpoints with all capabilities that have components, in two orders; integrated and legacy devices; two ports; two registers open at a time | `LitIffShown`, `PressShowsOne`, `LabelsTrue`, `EveryBitLabelled`, `TitlesApart`, and that they implement `HighlightStore` |
| `components_rows` | the same | findings |
| `screen` | two blocks, on a canvas larger than the pane in one mode and in the other; two heights of the terminal; a pane of 6 or 11 columns | `CanvasInView`, `CanvasReachable`, `ClickSelectsShown` |

`panes`, `components` and `startup` also check the `TypeOK` of their module (`TypesOK` in
`Startup`, which includes that of `Topology`), and `IInv` in `snapshot` includes it. Those of
`IdsDb`, `PciDevice` and `Screen`, and `FrameShowsSelected` of `DevicePanes`, are in no run:
they are proved, for these instances as for all.

Why the bounds are enough. *snapshot*: with two captures one can lose the race for the name,
with one view each of its calls falls between any two of the others', and two devices are
what it takes for a record that is not the last. More processes add no new pair, and the
proofs cover any number. *panes*: of three devices one is selected, one displayed and one
neither; the fourth buffer is the one in hand while three are put away; three events are
enough to leave and return before a frame. The proofs cover any number of each. *startup*:
one bridge with something before, behind and after it, and one behind another, are the cases
the recursion tells apart; the checks at the start depend on no more than whether each of
their facts holds; three devices and two buses give an unplug every place in a scan, before,
at and after the entry it removes. With 108 dots the estimates of all systems of three
devices fit and those of the deep one, of 124 and 188, wrap; of its blocks the last then
gets the key of the first in verbose mode and each its own in compact mode, so that
switching loses a mark. *ids*: the entry, a missing entry and the next vendor's, with and
without the line in front that the search can trip over. *device*: a null capability first,
in the middle and last, a chain that goes down, mappings that start at a BAR's first and
last page. *components*: each fact that a creator asks for is true in one device and false
in another; two open registers are what it takes to see one close the other, and all texts
are shown one after the other. *screen*: a canvas that is larger than the pane by an odd and
by an even number, or smaller, in each direction, is what the clamping of a shift tells
apart; of two blocks one is above the other and overlaps it in columns.

Runs that can stop say `CHECK_DEADLOCK FALSE`: every process has ended, everything is
drawn, all devices are looked up. The runs of the panes and of the components cannot.

### Fairness

A capture and a view never wait: weak fairness on the steps of each process that
has begun, none on starting, failing, being killed or on the user. The topology and
a device are computed by one thread that does nothing else: weak fairness of its
steps, and in `Startup` of `Main`, which has all of them; not of a mode switch or of
`Unplug`. The event loop draws when no event is waiting, and a burst of events ends: weak
fairness of `Frame`, none on events. `IdsDb`, `RegComponents` and `Screen` state no
liveness and assume no fairness.

### What the code does not do

Each finding is a run in which TLC finds a property violated that a comment, an
assertion or the documentation states.

- `snapshot_path`: the name is resolved from the working directory, the file is made
  in the directory of the path given with `-c`; the snapshot appears elsewhere.
- `panes_reset`: `r` right after a move of the selection, before a frame, closes the
  registers of the device that was selected before.
- `topology_domains`: buses are kept by number without the domain; a machine whose
  domains both have a bus 0 is not shown at all.
- `ids_vendor`: the search for a device does not end with its vendor's block, so an
  unlisted device gets, and caches, the name of another vendor's.
- `components_rows`: some rows of descriptions do not show the bits they are labelled
  with. `RegDevCap` has two bits too few and its assertion cannot tell, so three fields of
  the device capabilities show bits two too low; the controls of lanes are read from the
  start of their capability, which is its header; two rows show a neighbouring field; the
  enables of the root error command are in the reverse order; and rows whose number is passed
  as a `uint16_t` show 16 bits of it, of 23 in the capabilities and the status of the data
  link feature and of 32 in the lane error status. `MislabelledRows` and
  `MislabelledRegs` in `RegComponents` list all there are: `LabelsTrue` checks that these
  and no others are wrong.

Four more faults have no run of their own. With nothing below the root buses the first block
is selected all the same, which is undefined and crashes (`ui/screen.cpp:578`; "crashed" in
`FinishLayout`, and `LayoutComplete` in `startup` has such systems): a live scan returns one
when it reads an endpoint, the endpoint and the bridge in front of it are unplugged, and it
then looks for the bridge. A BAR that does not begin on a page boundary has a
mapping that begins below it, and `GetMappingInRange` does not find it (`util.cpp:35`).
A capability id the enumeration lacks, as those of newer versions of the specification,
reaches `assert(false)` (`ui/ext_cap_comp.cpp:662`; `Abort` in `RegComponents`). The dump
of a vendor's capability reads three bytes behind it (`ui/compat_cap_comp.cpp:38`).

## What is proved

For every value of the constants that satisfies the named assumptions, each safety
property of a passing run, the refinements, and of each liveness property the part that
is a matter of steps: a measure that no step increases and each step of the program
decreases. Hardly one of them is inductive; for each module this
says what had to be added.

- *Snapshot* (`SnapshotProofs`): `TypeOK`, `PublishedComplete`, `ViewFaithful`,
  `RejectionsJustified`, and the refinement of `SnapshotStore`. The properties speak of
  names and of views that ended. `IInv` adds
  what holds in between: before each call of a capture, which records its inode has
  and that `woff = wbytes + HeaderLen` (`WriterInv`); that a named inode is one of a
  capture that finished (`EntryInv`); and for a view, that what it has collected is
  a prefix of the capture whose file it holds and its offset the end of that prefix
  (`ViewerInv`). `RecordRoundTrip` is the lemma that decoding a record gives back
  the descriptor, and `RecordAppended` that a record written at the end disturbs no
  earlier one. The refinement splits into steps of a capture, of a view and of the
  user, each of which is a step of the store or hidden. `CallsComeNearer` counts the calls
  and the devices that a process has left. It takes the invariant that bounds the device
  counter by the number of devices, for a view by the number that the header said, and
  that a step of one process leaves the others where they stand (`CaptureLocal`, `ViewLocal`).
- *Topology, Startup* (`StartupProofs`): `TypesOK` of both (`Typed`, `StartTyped`);
  `ServesRequest`; and `NoBlockTwice`, `LayoutComplete`, `TreeOrder`, `FitsCanvas` and
  `ComesNearer` for every system that is `Enumerated`, viewed or scanned. What they say of
  keys, of the height and of the assertion they say of a canvas whose estimate does not wrap
  (`HasRoom`); what they say of what is drawn, of any. The invariant of the layout
  (`LaidOut`) says what the stack means in the middle of the recursion: the buses opened so
  far are root buses that the loop has passed and buses behind a bridge that has been placed
  (`Opened`); of the bus of a frame just those devices are placed that its position has
  passed (`PlacedByFrame`), of an opened bus that has no frame all (`LeftWhole`), and of a
  bus not opened none; no two frames are of one bus (`FramesApart`); no block has a key that
  is still to be given (`KeysBelow`), and `y` is no more than the estimate has for the
  blocks placed and the root buses passed (`RoomTaken`), so that it does not wrap either
  where the estimate does not (`RoomFor`, `RoomStays`). That a layout ends in "done"
  (`Ends`) needs that a layout of the whole tree has placed its devices (`WholeTreePlaced`),
  that the map then has all of them (`BlocksTracked`), and that this is what was saved when
  the mode was switched (`SavedWhole`). `ComesNearer` counts two steps for each root bus and
  each device that is left (`LayoutLeft`), and for a scan the entries: what keeps the
  numbers from falling below zero is that nothing is placed twice, so that no more is placed
  than there is (`NoMoreBlocks`), and that a scan stays in its directory (`AtRight`).
  `InOrder` adds that frames are nested, and that what is placed below a bridge comes
  without a gap behind it. `TreeOf` is the least set of buses that no bridge leads out of,
  and `UnopenedTree` shows that what lies below an unopened bus is unopened. `OrderedList`
  says what sorting by a key gives: each index once, by ascending key, without the sort
  being unfolded. `ServeInv` says what each stage of `main` may rely on, and of a scan, that
  what it has passed it has either read or lost.
- *PciDevice* (`PciDeviceProofs`): `TypeOK`, `ExpressFound`, `CapsOfChains`,
  `BarMappingsRight` and `WalkNearer`. `ListInv` bounds the walk to headers of the device.
  `ChainInv` says that the list splits at one place, before which it is the path walked in
  the one chain, and behind which it is the path in the other without the null capabilities
  (`IsWalk` for a path that has not ended; that it visits no header twice is what `Linked`
  buys). `WalkNearer` counts the headers `Ahead` of the walk, those that every set that
  holds the next one and is closed under the links has; the one just read is behind
  (`LeftBehind`), as else it would be on a circle and `Linked` forbids those. For the BARs
  there are lemmas about the two bounds: what lies between them, in a list that is sorted,
  is the list of the entries in the range.
- *IdsDb* (`IdsDbProofs`): `TypeOK`, `CacheTransparent`, `ClassNamesRight`,
  `SubsysOfDevice`, `ListedDeviceNamed`. For the cache the invariant is that a
  cached entry is what a search that ignores the cache finds; lookups then return
  the same with and without it. `TextInv` says for each device which of its names are
  settled after which lookup, and that the device of a subsystem is cached by the time
  `subsys` needs it; the rest are lemmas about searches in a text that is `WellFormed`:
  where a block ends, and that a search with a limit finds the entry of the block or none.
- *RegsPane* (`DevicePanesProofs`): `PointersValid` and the refinement of
  `HighlightStore`. The inductive invariant `PaneInv` says who owns which buffer:
  the displayed vector and those in the map own different ones, and the components
  of a device point into the one that belongs to it. `OnRender` is proved in two
  cases, a device shown before and a new one.
- *DevicePanes* (`DevicePanesProofs`): `TypeOK`, `BlocksDrawn`, `TreeShowsOpenRegisters`,
  and, since every
  step of both panes is a step of `RegsPane` or leaves it alone (`PanesArePane`),
  `PointersValid` and the refinement, for any number of devices and of events
  between frames. `TreeShowsOpenRegisters` is about frames that follow each event; `MarkInv`
  adds that then the displayed device is the selected one whenever an event arrives, and
  which marks are stale until the frame comes. `FrameShowsSelected` has no such condition:
  the pane has always been told of the device that is selected (`Told`), however many others
  it was told of before in the same burst.
- *RegComponents* (`RegComponentsProofs`): `TypeOK`, `LitIffShown`, `PressShowsOne`, for any
  capabilities in any order and number that there is room for. `Paired` is what is
  inductive: components share an element just when they are of one register. It
  rests on `RowsRight`, that in each row no two buttons are of one register, that each
  description counts back to the button of its own, and that all rows take no more
  elements than are appended; it is proved for each creator, row by row (`BothRight`,
  `WhenRight`). `PlacesDiffer` then shows that no element is counted out
  twice, and `RoomForNext` that the buffer is large enough and never moved.
  `LabelsTrue`, `EveryBitLabelled`, `TitlesApart`: `InfosInv` says that whatever has a
  description is a register of its header or capability, and that only the lanes of a link
  have several of one register. What the text of a register then says is a matter of the
  tables alone (next bullet); that titles differ needs of the components that no two of a
  device are of one register of one capability (`InfosDiffer`, `InfosAdded`).
  The refinement of `HighlightStore`, the store that `RegsPane` implements too: what
  is open is the set of registers whose descriptions are shown, so that a press is a step of
  the store just because of `Paired`; `ClosedAtFirst` adds that the elements are off
  while they are handed out, and `RegisterIn` that what is opened is a register the device has.
- *RegLayout, RegTexts* (`RegTextsProofs`): each row of a text shows the bits it is
  labelled with and each bit of a register has a row, but for those `Mislabelled`
  (`TextsRight`); no two texts of a header or capability are titled with the same bytes, but
  for BIST's (`TextsApart`); the titles of an MSI capability are the offsets in the structure
  of its variant (`MSITitles`). For each register a lemma sums the widths of its fields
  (`...Ends`), one says that its rows are those fields (`...Tells`), and one for
  each capability that its registers are at the offsets of the titles (`...Sound`).
  `Ends` is recursive: that it has a value at all is shown with the least number of fields
  that would have no sums (`SumsExist`, `EndsDefined`).
- *Screen* (`ScreenProofs`): `TypeOK`, `CanvasInView`, `ClickSelectsShown`,
  `CanvasReachable`, for any canvas and any terminal of four rows. `ScreenInv`
  adds that the box of the last frame has two rows and columns. The shifts are
  shown to be equal to closed forms, from which it follows that they do not leave the
  canvas and that enough of them come to its end.

The assumptions are stated in the modules, and TLC evaluates them in each run:

- `Snapshot`: descriptors have the lengths a kernel gives (`TopologiesAssumption`; driver
  names shorter than 255), processes, names and directories are different things.
- `Startup`, `Topology`: no two entries of a scan have one address
  (`AddressesAssumption`), a name leads to one file (`HostsAssumption`), and there are more
  than twelve dots, for the mode box (`DotsAssumption`). The layout's
  properties carry `Enumerated(system)` as a hypothesis: a file to view need not have
  been a machine, and a scan loses buses while it runs, so that what is behind one of two
  domains can take the number of the other.
- `PciDevice`: lists that end, as PCI demands of hardware (`Linked`), and six resources
  that do not end before they start (`DescsAssumption`). What is behind the buffer
  of an Express device with 256 bytes is left open (`Beyond`); `CapsOfChains` is about the
  others, and states the count of extended capabilities if it fits in eight bits.
- `IdsDb`: a text of the form of `pci.ids` (`WellFormed`): it begins with a comment, the
  classes follow the vendors and begin with class 0.
- `RegsPane`: no device appends more elements than are reserved (`SlotsAssumption`).
- `RegComponents`: a link has at most 63 lanes, and some if it supports 8 GT/s
  (`DescsAssumption`, the maximum width is a field of six bits); the capabilities that have
  components are no more than 1024 elements have room for (`RoomAssumption`: 32 for the
  header, 65 for a Secondary PCI Express capability, 22 for any other). The code checks
  nothing like it; they leave room
  for 42 capabilities with components beside a Secondary PCI Express one.
- `Screen`: blocks are a row apart (`RowsApart`), canvas and blocks are not empty
  (`CanvasAssumption`), and a terminal has four rows (`RowsAssumption`). It is needed: in
  three rows the pane has one between its borders, and a shift from the last row of the
  canvas leaves it.

Only model-checked:

- Liveness: `Termination`, `PaneFollows`, `AlwaysSettles`, `WalkEnds`. This prover has no
  rules for fairness. What is proved are their halves without it, for any values of the
  constants: `CallsComeNearer`, `FrameShowsSelected`, `ComesNearer` and `WalkNearer` say that
  no step leads back and that each brings the end nearer; that the next step is taken, and
  can be, is left to TLC.

## What is assumed or left out

- The run of `Startup` takes systems to view as a kernel enumerates them (`Enumerated`):
  a bus behind a bridge has a higher number and lies behind one bridge. On others the
  recursion of `Topology` can be endless.
- Where the estimate of the canvas wraps, with some 3000 devices in verbose mode, `Topology` has
  the block that the map refuses, the selection that finds no block and the assertion that
  fails; what is drawn outside of the canvas is left out, and so is its width.
- `TreeShowsOpenRegisters` is about frames that follow each event. With several events before
  a frame the mark of the device that is left is taken from the registers of another, and no
  property is stated.
- `PciDevice` takes capability lists that end, at least six resources, and a header
  at 0x100 in an Express device whose space has 4096 bytes. With 256 bytes shown, the
  walk reads behind the buffer; it can find anything there (`Beyond`), for at most
  `MaxCaps` capabilities, and no property is stated.
- A click above the first block moves an iterator before the beginning, which is
  undefined. `Screen` has the outcomes of libstdc++'s map (`BeforeBegin`): nothing is
  selected, or in a tree of at most two nodes the first block; `Click` of `DevicePanes`
  leaves the selection alone.
- Domains: `ServesRequest` promises an unchanged address for domains below 10, and
  different addresses for two below 256. The code reads the hexadecimal digits as decimal
  ones, so that 0x10 becomes 10; a letter or a fifth digit ends the program
  (`DomainParses`); and numbers from 256 on wrap (`Described`).
- A device that is plugged in while the directories are read, or a directory of sysfs that
  is not there, is not modelled; no bus entry leads back to fewer than three directories.
- `Screen` takes terminals of four rows or more that leave each side two cells (`Fits`), and
  one separator. A click is
  taken as it is with a border around the pane (`ClickSelectsShown`); without one, which
  is how it is drawn while the other side has the focus and the mouse comes from outside,
  it is a row and a column off.
- No page cache: what a power loss does to a file that has a name already is not
  modelled.
- Wording, names of values, colours, connector lines, logging: no state depends on them.

Not modelled:

- The text of virtio's vendor capability: names for a handful of values.
- The separator between the two right panes, which moves as the one in `Screen` does, and
  the position of `ScrollableComp` below it and in the help window, which each event
  clamps to the height of the last frame: no other part reads either. Dragging a separator
  is FTXUI's.
- Driver, NUMA node and IOMMU group of a device, and the check of the byte order: read
  once and displayed, or constant.
- `log.cpp` beyond `init`.

## Plan

In this order:

1. `RegComponents` composed with `RegsPane`. Both implement `HighlightStore`; what a device
   appends as the `Slots` of the pane would make `SlotsAssumption` follow from
   `RoomAssumption`.
2. `ClickSelectsShown` without a border around the pane, where it is a row and a column off.
3. `ScrollableComp` against the registers that are opened and closed below it.
