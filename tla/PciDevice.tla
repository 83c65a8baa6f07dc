------------------------------ MODULE PciDevice ------------------------------
(***************************************************************************)
(* What Populate (src/pci_topo.cpp) computes of one device: its capability *)
(* list, read from two chains in configuration space, its BARs, read from  *)
(* the resources sysfs lists, and for each memory BAR the virtual          *)
(* addresses it is mapped at, looked up in the entries that main read from *)
(* /proc/vmallocinfo beforehand (src/pci_dev.cpp, src/util.cpp).           *)
(*                                                                         *)
(* Configuration space holds headers: what stands at an offset is an id    *)
(* and the offset of the next header.  The other registers of a capability *)
(* are left out.                                                           *)
(***************************************************************************)
EXTENDS Integers, Sequences, FiniteSets, FiniteSetsExt, Functions

CONSTANTS
  DeviceDescs,  \* the descriptors a provider can return
  VmInfos,      \* what /proc/vmallocinfo can hold: sequences of lines
  Beyond,       \* what bytes that are no extended header can look like, read as one
  PgSize,       \* vm::pg_size
  MaxCaps       \* bound: capabilities read from behind a buffer

Legacy  == 256     \* cfg_space_type
ECS     == 4096
ExtBase == 256     \* ext_cap_cfg_off
Express == 16      \* CompatCapID::pci_express
NullCap == 0       \* ExtCapID::null_cap

\* A header: an id and the offset of the next header, as wide as an extended one's.
CapId  == 0..65535
Offset == 0..4095
Header == [id : CapId, next : Offset]

\* Where the headers of the two lists can stand.
CompatSpace == 64..255
ExtSpace    == ExtBase..(ECS - 1)

\* A resource line: start, end, and what its flags say it is.
Resource == [start : Nat, end : Nat, kind : {"none", "io", "mem"}]

\* Headers in a space, linked to a list that starts at first: each leads to another one
\* or ends the list, and none is led to twice.
Linked(hdrs, first, space) ==
  /\ DOMAIN hdrs \subseteq space /\ hdrs \in [DOMAIN hdrs -> Header]
  /\ \A o \in DOMAIN hdrs : o % 4 = 0 /\ hdrs[o].next \in (DOMAIN hdrs \cup {0}) \ {first}
  /\ \A o, p \in DOMAIN hdrs : hdrs[o].next = hdrs[p].next /\ o # p => hdrs[o].next = 0

\* The two low bits of the capability pointer are reserved.
FirstPtr(d) == d.ptr - (d.ptr % 4)

HasExpress(d) == \E o \in DOMAIN d.compat : d.compat[o].id = Express

\* caps and ptr are the status bit and the capability pointer, compat and ext the
\* headers of the first 256 bytes and of those that follow.  A device that has the
\* status bit has a capability; one with the Express capability and all of its space
\* has a header, maybe a null one, where the extended ones start.
ASSUME DescsAssumption ==
  \A d \in DeviceDescs :
    /\ d.len \in {Legacy, ECS} /\ d.type0 \in BOOLEAN /\ d.caps \in BOOLEAN
    /\ d.ptr \in 0..255
    /\ Linked(d.compat, FirstPtr(d), CompatSpace) /\ Linked(d.ext, ExtBase, ExtSpace)
    /\ d.caps => FirstPtr(d) \in DOMAIN d.compat
    /\ d.len = ECS /\ HasExpress(d) => ExtBase \in DOMAIN d.ext
    /\ d.res \in Seq(Resource) /\ Len(d.res) >= 6
    /\ \A i \in DOMAIN d.res :
         d.res[i].start <= d.res[i].end /\ (d.res[i].kind = "none" => d.res[i].end = 0)

\* A line of /proc/vmallocinfo.  The kernel writes no phys= for an address of 0.
VmLine == [ioremap : BOOLEAN, start : Nat, end : Nat, phys : Nat]

ASSUME VmAssumption == VmInfos \subseteq Seq(VmLine)

ASSUME BoundsAssumption == Beyond \subseteq Header /\ PgSize \in Nat /\ MaxCaps \in Nat

VARIABLES
  dev,          \* the descriptor
  live,         \* the provider is the one that reads sysfs
  vm,           \* vm_entries_
  available,    \* vm_info_available_
  pc,           \* which call of Populate is next, or which loop it is in
  off,          \* next_cap_off
  caps,         \* caps_
  is_pcie,      \* is_pcie_
  compat_num,   \* compat_caps_num_
  ext_num,      \* extended_caps_num_
  bars,         \* bar_res_
  v2p           \* v2p_bar_map_info_

capVars == <<off, caps, is_pcie, compat_num, ext_num>>
vars == <<dev, live, vm, available, pc, capVars, bars, v2p>>

EmptyBar == [type |-> "EMPTY", phys |-> 0, len |-> 0, has_v2p |-> FALSE]
BarIds   == 0..5

Init ==
  /\ dev \in DeviceDescs
  /\ live \in BOOLEAN
  /\ vm = << >> /\ available = FALSE
  /\ pc = "vmallocinfo"
  /\ off = 0 /\ caps = << >> /\ is_pcie = FALSE
  /\ compat_num = 0 /\ ext_num = 0
  /\ bars = [i \in BarIds |-> EmptyBar]
  /\ v2p  = [i \in BarIds |-> << >>]

-----------------------------------------------------------------------------
(***************************************************************************)
(* main: /proc/vmallocinfo.                                                *)
(***************************************************************************)

\* The entry of a line: the guard page is not part of it, and where the line has
\* no '=' the number that is read is the one the line starts with.
EntryOf(line) ==
  [start |-> line.start, end |-> line.end - PgSize,
   len   |-> line.end - PgSize - line.start,
   pa    |-> IF line.phys = 0 THEN line.start ELSE line.phys]

Sorted(s) == \A i, j \in DOMAIN s : i < j => s[i].pa <= s[j].pa

\* The orders std::ranges::sort can leave the entries of the ioremap lines in: it is
\* not stable.
SortedByPa(file) ==
  LET kept == {i \in DOMAIN file : file[i].ioremap}
      n    == Cardinality(kept)
  IN  {t \in {[k \in 1..n |-> EntryOf(file[f[k]])] : f \in Bijection(1..n, kept)} : Sorted(t)}

\* kptr_restrict hides the addresses, or the file cannot be opened.
NoVmInfo ==
  /\ pc = "vmallocinfo"
  /\ pc' = "caps"
  /\ UNCHANGED <<dev, live, vm, available, capVars, bars, v2p>>

ParseVmallocinfo ==
  /\ pc = "vmallocinfo"
  /\ \E file \in VmInfos : vm' \in SortedByPa(file)
  /\ available' = TRUE
  /\ pc' = "caps"
  /\ UNCHANGED <<dev, live, capVars, bars, v2p>>

-----------------------------------------------------------------------------
(***************************************************************************)
(* ParseCapabilities.                                                      *)
(***************************************************************************)

StartWalk ==
  /\ pc = "caps"
  /\ IF dev.caps
     THEN /\ off' = FirstPtr(dev)
          /\ pc' = "compat"
     ELSE /\ off' = off
          /\ pc' = "bars"
  /\ UNCHANGED <<dev, live, vm, available, caps, is_pcie, compat_num, ext_num, bars, v2p>>

\* What a header reads as: zeros where none stands.
HdrAt(hdrs, o) == IF o \in DOMAIN hdrs THEN hdrs[o] ELSE [id |-> 0, next |-> 0]

CompatCap ==
  /\ pc = "compat" /\ off # 0
  /\ LET hdr == HdrAt(dev.compat, off) IN
       /\ is_pcie' = (is_pcie \/ hdr.id = Express)
       /\ caps' = Append(caps, [type |-> "compat", id |-> hdr.id, off |-> off])
       /\ off' = hdr.next
  /\ compat_num' = (compat_num + 1) % 256
  /\ UNCHANGED <<dev, live, vm, available, pc, ext_num, bars, v2p>>

\* Seeded fault: the length of the space decides instead of the capability.
CompatEnds_ByLength ==
  /\ pc = "compat" /\ off = 0
  /\ IF dev.len = ECS
     THEN off' = ExtBase /\ pc' = "ext"
     ELSE off' = off /\ pc' = "bars"
  /\ UNCHANGED <<dev, live, vm, available, caps, is_pcie, compat_num, ext_num, bars, v2p>>

CompatEnds ==
  /\ pc = "compat" /\ off = 0
  /\ IF is_pcie
     THEN off' = ExtBase /\ pc' = "ext"
     ELSE off' = off /\ pc' = "bars"
  /\ UNCHANGED <<dev, live, vm, available, caps, is_pcie, compat_num, ext_num, bars, v2p>>

\* What a read of an extended header at o finds: a header of the configuration space,
\* or whatever the memory there looks like, past the end of the buffer that holds the
\* space and, where such memory leads back to them, in its first 256 bytes.
InExt(d, o) == o \in ExtBase..(d.len - 1)
ExtAt(d, o) == IF InExt(d, o) THEN {HdrAt(d.ext, o)} ELSE Beyond

\* Seeded fault: null capabilities are counted.
ExtCap_CountsNull ==
  /\ pc = "ext" /\ off # 0
  /\ ~InExt(dev, off) => Len(caps) < MaxCaps
  /\ \E hdr \in ExtAt(dev, off) :
       /\ IF hdr.id # NullCap
          THEN caps' = Append(caps, [type |-> "extended", id |-> hdr.id, off |-> off])
          ELSE UNCHANGED caps
       /\ off' = hdr.next
  /\ ext_num' = (ext_num + 1) % 256
  /\ UNCHANGED <<dev, live, vm, available, pc, is_pcie, compat_num, bars, v2p>>

\* Seeded fault: the walk does not go on from a null capability.
ExtCap_NullStays ==
  /\ pc = "ext" /\ off # 0
  /\ ~InExt(dev, off) => Len(caps) < MaxCaps
  /\ \E hdr \in ExtAt(dev, off) :
       IF hdr.id # NullCap
       THEN /\ caps' = Append(caps, [type |-> "extended", id |-> hdr.id, off |-> off])
            /\ ext_num' = (ext_num + 1) % 256
            /\ off' = hdr.next
       ELSE UNCHANGED <<caps, ext_num, off>>
  /\ UNCHANGED <<dev, live, vm, available, pc, is_pcie, compat_num, bars, v2p>>

\* Seeded fault: the walk starts anew behind a null capability.
ExtCap_NullRestarts ==
  /\ pc = "ext" /\ off # 0
  /\ ~InExt(dev, off) => Len(caps) < MaxCaps
  /\ \E hdr \in ExtAt(dev, off) :
       IF hdr.id # NullCap
       THEN /\ caps' = Append(caps, [type |-> "extended", id |-> hdr.id, off |-> off])
            /\ ext_num' = (ext_num + 1) % 256
            /\ off' = hdr.next
       ELSE off' = ExtBase /\ UNCHANGED <<caps, ext_num>>
  /\ UNCHANGED <<dev, live, vm, available, pc, is_pcie, compat_num, bars, v2p>>

\* A null capability is skipped, and the chain followed from it.
ExtCap ==
  /\ pc = "ext" /\ off # 0
  /\ ~InExt(dev, off) => Len(caps) < MaxCaps
  /\ \E hdr \in ExtAt(dev, off) :
       /\ IF hdr.id # NullCap
          THEN /\ caps' = Append(caps, [type |-> "extended", id |-> hdr.id, off |-> off])
               /\ ext_num' = (ext_num + 1) % 256
          ELSE UNCHANGED <<caps, ext_num>>
       /\ off' = hdr.next
  /\ UNCHANGED <<dev, live, vm, available, pc, is_pcie, compat_num, bars, v2p>>

ExtEnds ==
  /\ pc = "ext" /\ off = 0
  /\ pc' = "bars"
  /\ UNCHANGED <<dev, live, vm, available, capVars, bars, v2p>>

\* The offset of the first capability of this type with this id, 0 if there is none.
GetCapOffByID(type, id) ==
  LET found == {i \in DOMAIN caps : caps[i].type = type /\ caps[i].id = id}
  IN  IF found = {} THEN 0 ELSE caps[Min(found)].off

-----------------------------------------------------------------------------
(***************************************************************************)
(* AssignResources and ParseBars, ParseBarsV2PMappings.                    *)
(***************************************************************************)

NumBars(d) == IF d.type0 THEN 6 ELSE 2

BarOf(r) ==
  IF r.kind = "none" THEN EmptyBar
  ELSE [type |-> IF r.kind = "io" THEN "IO" ELSE "MEMORY",
        phys |-> r.start, len |-> r.end - r.start + 1, has_v2p |-> FALSE]

\* resources_ is indexed by the number of the BAR.
ParseBars ==
  /\ pc = "bars"
  /\ bars' = [i \in BarIds |-> IF i < NumBars(dev) THEN BarOf(dev.res[i + 1]) ELSE bars[i]]
  /\ pc' = IF live THEN "v2p" ELSE "done"
  /\ UNCHANGED <<dev, live, vm, available, capVars, v2p>>

\* Where the binary searches end: at the first entry that is not below x, and at
\* the first that is above it.
LowerBound(x) == Min({i \in DOMAIN vm : vm[i].pa >= x} \cup {Len(vm) + 1})
UpperBound(x) == Min({i \in DOMAIN vm : vm[i].pa > x} \cup {Len(vm) + 1})

\* Seeded fault: the address behind the range belongs to it.
GetMappingInRange_Inclusive(pa_start, pa_end) ==
  SubSeq(vm, LowerBound(pa_start), UpperBound(pa_end) - 1)

GetMappingInRange(pa_start, pa_end) ==
  SubSeq(vm, LowerBound(pa_start), UpperBound(pa_end - 1) - 1)

BarMappings(i) ==
  IF available /\ i < NumBars(dev) /\ bars[i].type = "MEMORY"
  THEN GetMappingInRange(bars[i].phys, bars[i].phys + bars[i].len)
  ELSE << >>

ParseBarsV2PMappings ==
  /\ pc = "v2p"
  /\ v2p'  = [i \in BarIds |-> BarMappings(i)]
  /\ bars' = [i \in BarIds |-> [bars[i] EXCEPT !.has_v2p = BarMappings(i) # << >>]]
  /\ pc' = "done"
  /\ UNCHANGED <<dev, live, vm, available, capVars>>

-----------------------------------------------------------------------------
Next ==
  \/ NoVmInfo
  \/ ParseVmallocinfo
  \/ StartWalk
  \/ CompatCap
  \/ CompatEnds
  \/ ExtCap
  \/ ExtEnds
  \/ ParseBars
  \/ ParseBarsV2PMappings

\* One thread runs the calls one after the other.
Spec == Init /\ [][Next]_vars /\ WF_vars(Next)

-----------------------------------------------------------------------------
(***************************************************************************)
(* Properties.                                                             *)
(***************************************************************************)

\* The walk stays in the buffer: the device has the whole space if it has the
\* Express capability.
Walkable(d) == d.len = ECS \/ ~HasExpress(d)

Capability == [type : {"compat", "extended"}, id : CapId, off : Offset]

\* Offsets are those of 32-bit registers, the pointer's reserved bits having been
\* masked by ParseCapabilities; compatible capabilities stand in the first 256
\* bytes and extended ones behind them, as long as the walk stays in the buffer.
TypeOK ==
  /\ dev \in DeviceDescs
  /\ live \in BOOLEAN /\ available \in BOOLEAN /\ is_pcie \in BOOLEAN
  /\ pc \in {"vmallocinfo", "caps", "compat", "ext", "bars", "v2p", "done"}
  /\ off \in Offset
  /\ pc # "ext" \/ Walkable(dev) => off % 4 = 0
  /\ caps \in Seq(Capability)
  /\ \A i \in DOMAIN caps :
       /\ caps[i].type = "compat" => caps[i].off % 4 = 0 /\ caps[i].off \in CompatSpace
       /\ caps[i].type = "extended" /\ Walkable(dev) =>
            caps[i].off % 4 = 0 /\ caps[i].off \in ExtSpace
  /\ \A i \in BarIds : bars[i].type \in {"EMPTY", "IO", "MEMORY"}

\* A list of headers follows the chain that starts at an offset, read with At, if it
\* is a path of it from there to a header without a next one.
FollowsChain(list, first, At(_)) ==
  IF list = << >> THEN first = 0
  ELSE /\ list[1] = first
       /\ \A i \in 1..(Len(list) - 1) : At(list[i]).next = list[i + 1]
       /\ At(list[Len(list)]).next = 0

\* A list is what is left of another one, in its order, without the members that fail
\* a test.
IsFiltered(sub, list, Keep(_)) ==
  \E f \in [1..Len(sub) -> 1..Len(list)] :
    /\ \A i, j \in 1..Len(sub) : i < j => f[i] < f[j]
    /\ \A i \in 1..Len(sub) : sub[i] = list[f[i]]
    /\ \A k \in 1..Len(list) : Keep(list[k]) <=> \E i \in 1..Len(sub) : f[i] = k

\* Once ParseCapabilities has returned, the list is the compatible chain in its
\* order, then the extended chain in its order without its null capabilities, which
\* is there just when the compatible chain has the Express capability; and the two
\* counts, which the registers pane shows above the compatible and above the extended
\* capabilities, are those of the list, unless the extended ones are more than eight bits
\* can count.
CapsOfChains ==
  pc \in {"bars", "v2p", "done"} /\ Walkable(dev) =>
    \E n \in 0..Len(caps) :
      LET compat  == [i \in 1..n |-> caps[i].off]
          ext     == [i \in 1..(Len(caps) - n) |-> caps[n + i].off]
          express == \E i \in 1..n : HdrAt(dev.compat, compat[i]).id = Express
      IN  /\ \A i \in DOMAIN caps : caps[i].type = IF i <= n THEN "compat" ELSE "extended"
          /\ FollowsChain(compat, IF dev.caps THEN FirstPtr(dev) ELSE 0,
                          LAMBDA o : HdrAt(dev.compat, o))
          /\ compat_num = n /\ (Len(ext) < 256 => ext_num = Len(ext))
          /\ ~express => ext = << >>
          /\ express =>
               \E path \in UNION {[1..m -> DOMAIN dev.ext] : m \in 1..Cardinality(DOMAIN dev.ext)} :
                 /\ FollowsChain(path, ExtBase, LAMBDA o : dev.ext[o])
                 /\ IsFiltered(ext, path, LAMBDA o : dev.ext[o].id # NullCap)
          /\ \A i \in DOMAIN caps :
               caps[i].id = HdrAt(IF i <= n THEN dev.compat ELSE dev.ext, caps[i].off).id

\* Components of extended capabilities read the device's type and its link from the
\* Express capability, at the offset GetCapOffByID gives, and show nothing if that is
\* 0 (src/ui/ext_cap_comp.cpp): it is there whenever there is an extended one.
ExpressFound ==
  (\E i \in DOMAIN caps : caps[i].type = "extended") =>
     HdrAt(dev.compat, GetCapOffByID("compat", Express)).id = Express

\* Each mapping listed for a BAR starts in that BAR, so none is listed for two that
\* do not overlap, and the list of a BAR has every mapping of vmallocinfo that starts
\* in it, once each and by ascending address; only memory BARs have any.
BarMappingsRight ==
  pc = "done" /\ live /\ available =>
    \A i \in BarIds :
      LET In(e) == e.pa >= bars[i].phys /\ e.pa < bars[i].phys + bars[i].len
      IN  /\ bars[i].type = "MEMORY" => IsFiltered(v2p[i], vm, In)
          /\ bars[i].type # "MEMORY" => v2p[i] = << >>
          /\ Sorted(v2p[i])
          /\ bars[i].has_v2p = (v2p[i] # << >>)
          /\ \A j \in BarIds :
               bars[i].phys + bars[i].len <= bars[j].phys =>
                 \A a \in DOMAIN v2p[i], b \in DOMAIN v2p[j] : v2p[i][a] # v2p[j][b]

\* The headers that a walk at o has ahead of it: those in all sets that hold o and
\* whatever their headers lead to.
Ahead(hdrs, o) ==
  {p \in DOMAIN hdrs :
     \A S \in SUBSET DOMAIN hdrs :
       ({o} \cup {hdrs[q].next : q \in S}) \cap DOMAIN hdrs \subseteq S => p \in S}

\* How many steps Populate can still take for the device.
StepsLeft ==
  LET Chain(hdrs) == Cardinality(DOMAIN hdrs)
      Rest(hdrs)  == Cardinality(Ahead(hdrs, off))
  IN  CASE pc = "vmallocinfo" -> 6 + Chain(dev.compat) + Chain(dev.ext)
        [] pc = "caps"        -> 5 + Chain(dev.compat) + Chain(dev.ext)
        [] pc = "compat"      -> 4 + Rest(dev.compat) + Chain(dev.ext)
        [] pc = "ext"         -> 3 + Rest(dev.ext)
        [] pc = "bars"        -> 2
        [] pc = "v2p"         -> 1
        [] pc = "done"        -> 0

\* Each capability that the loops of ParseCapabilities read is one less that is ahead, so
\* that they read no header twice and none more than the device has: nothing else
\* bounds them.
WalkNearer ==
  [][Walkable(dev) => StepsLeft \in Nat /\ StepsLeft' < StepsLeft]_vars

\* The walk comes to an end on every device whose chains do.
WalkEnds == Walkable(dev) ~> pc = "done"
=============================================================================
