--------------------------- MODULE PciDeviceProofs ---------------------------
(***************************************************************************)
(* Proofs about PciDevice: that its offsets are those of headers, that the *)
(* capability list is the two chains, that the Express capability is found *)
(* where the components of extended ones look for it, and that every BAR   *)
(* gets just the mappings that start in it.                                *)
(***************************************************************************)
EXTENDS PciDevice, FiniteSetTheorems, FunctionTheorems, SequenceTheorems, TLAPS

-----------------------------------------------------------------------------
(***************************************************************************)
(* Lemmas about the operators.                                             *)
(***************************************************************************)

\* The order of the natural numbers, as a relation.
Below == {p \in Nat \X Nat : p[1] < p[2]}

\* A set of natural numbers that is not empty has a least one, and Min is it.
LEMMA MinIsLeast ==
  ASSUME NEW S \in SUBSET Nat, S # {}
  PROVE  /\ Min(S) \in S
         /\ \A x \in S : Min(S) <= x
<1>1. OpToRel(<, Nat) = Below
  BY DEF OpToRel, Below
<1>2. IsWellFoundedOn(Below, Nat)
  BY <1>1, NatLessThanWellFounded
<1>3. PICK m \in S : \A x \in S : ~(<<x, m>> \in Below)
  BY <1>2, WFMin
<1>4. \A x \in S : m <= x
  <2>1. SUFFICES ASSUME NEW x \in S, x < m PROVE FALSE
    OBVIOUS
  <2>2. <<x, m>> \in Below
    BY <2>1 DEF Below
  <2>3. QED
    BY <1>3, <2>2
<1>5. QED
  BY <1>4 DEF Min

\* A list of different members of a finite set is no longer than the set is large.
LEMMA DistinctBound ==
  ASSUME NEW T, IsFiniteSet(T), NEW n \in Nat, NEW g \in [1..n -> T],
         \A i, j \in 1..n : i # j => g[i] # g[j]
  PROVE  n <= Cardinality(T)
<1>1. g \in Injection(1..n, T)
  BY Fun_IsInj
<1>2. Cardinality(1..n) <= Cardinality(T)
  BY <1>1, FS_Injection
<1>3. Cardinality(1..n) = n
  BY FS_Interval
<1>4. QED
  BY <1>2, <1>3

\* An entry of vm_entries_.
Entry == [start : Int, end : Int, len : Int, pa : Nat]

\* What a parse of /proc/vmallocinfo leaves is a list of entries in ascending order.
LEMMA EntriesOfFile ==
  ASSUME NEW file \in VmInfos, NEW t \in SortedByPa(file)
  PROVE  t \in Seq(Entry) /\ Sorted(t)
<1> DEFINE kept == {i \in DOMAIN file : file[i].ioremap}
           n == Cardinality(kept)
<1>1. file \in Seq(VmLine)
  BY VmAssumption
<1>2. n \in Nat
  <2>1. DOMAIN file = 1..Len(file) /\ Len(file) \in Nat
    BY <1>1
  <2>2. IsFiniteSet(1..Len(file))
    BY <2>1, FS_Interval
  <2>3. IsFiniteSet(kept)
    BY <2>1, <2>2, FS_Subset
  <2>4. QED
    BY <2>3, FS_CardinalityType
<1>3. PICK f \in Bijection(1..n, kept) : t = [k \in 1..n |-> EntryOf(file[f[k]])]
  BY DEF SortedByPa
<1>4. f \in [1..n -> kept]
  BY <1>3 DEF Bijection, Injection
<1>5. \A k \in 1..n : EntryOf(file[f[k]]) \in Entry
  <2>1. TAKE k \in 1..n
  <2>2. file[f[k]] \in VmLine
    BY <1>1, <1>4
  <2>3. QED
    BY <2>2, BoundsAssumption DEF EntryOf, Entry, VmLine
<1>6. t \in [1..n -> Entry]
  BY <1>3, <1>5
<1>7. Sorted(t)
  BY DEF SortedByPa
<1>8. QED
  BY <1>2, <1>6, <1>7, SeqDef

-----------------------------------------------------------------------------
(***************************************************************************)
(* Types, and what the walk has found so far.                              *)
(***************************************************************************)

Bar == [type : {"EMPTY", "IO", "MEMORY"}, phys : Nat, len : Nat, has_v2p : BOOLEAN]

Typed ==
  /\ TypeOK
  /\ vm \in Seq(Entry) /\ Sorted(vm)
  /\ compat_num \in 0..255 /\ ext_num \in 0..255
  /\ bars \in [BarIds -> Bar]

\* The walk stands at a header or at the end of a chain; a listed capability is a
\* header of its chain; and the device counts as an Express device just when its list
\* has the capability, which it must have before the extended chain is walked.
WalkInv ==
  /\ pc \in {"vmallocinfo", "caps"} =>
       caps = << >> /\ ~is_pcie /\ compat_num = 0 /\ ext_num = 0
  /\ pc = "compat" => dev.caps /\ off \in DOMAIN dev.compat \cup {0}
  /\ pc = "ext" => is_pcie /\ (Walkable(dev) => off \in DOMAIN dev.ext \cup {0})
  /\ pc \notin {"compat", "ext"} => off = 0
  /\ is_pcie <=> \E i \in DOMAIN caps : caps[i].type = "compat" /\ caps[i].id = Express
  /\ \A i \in DOMAIN caps :
       /\ caps[i].type = "compat" =>
            caps[i].off \in DOMAIN dev.compat /\ caps[i].id = dev.compat[caps[i].off].id
       /\ caps[i].type = "extended" => is_pcie
       /\ caps[i].type = "extended" /\ Walkable(dev) =>
            caps[i].off \in DOMAIN dev.ext /\ caps[i].id = dev.ext[caps[i].off].id

ListInv == Typed /\ WalkInv

\* What the descriptor of a device is.
LEMMA Chains ==
  ASSUME NEW d \in DeviceDescs
  PROVE  /\ FirstPtr(d) \in 0..255 /\ FirstPtr(d) % 4 = 0
         /\ Linked(d.compat, FirstPtr(d), CompatSpace)
         /\ Linked(d.ext, ExtBase, ExtSpace)
         /\ d.caps => FirstPtr(d) \in DOMAIN d.compat
         /\ d.len = ECS /\ HasExpress(d) => ExtBase \in DOMAIN d.ext
<1>1. d.ptr \in 0..255
  BY DescsAssumption
<1>2. FirstPtr(d) \in 0..255 /\ FirstPtr(d) % 4 = 0
  BY <1>1 DEF FirstPtr
<1>3. QED
  BY <1>2, DescsAssumption

\* The length of the space and the resources of a device.
LEMMA SpaceAndResources ==
  ASSUME NEW d \in DeviceDescs
  PROVE  /\ d.len \in {Legacy, ECS}
         /\ d.res \in Seq(Resource) /\ Len(d.res) >= 6
         /\ \A i \in DOMAIN d.res : d.res[i].start <= d.res[i].end
BY DescsAssumption

\* A header that is listed and has the Express capability's id is one of the device.
LEMMA ExpressIsOwned ==
  ASSUME ListInv, is_pcie
  PROVE  HasExpress(dev)
BY DEF ListInv, WalkInv, HasExpress

LEMMA ListInit == Init => ListInv
<1> SUFFICES ASSUME Init PROVE ListInv
  OBVIOUS
<1>1. bars \in [BarIds -> Bar] /\ \A i \in BarIds : bars[i].type \in {"EMPTY", "IO", "MEMORY"}
  BY DEF Init, EmptyBar, Bar
<1>2. vm \in Seq(Entry) /\ Sorted(vm)
  BY DEF Init, Sorted
<1>3. caps \in Seq(Capability) /\ DOMAIN caps = {}
  BY DEF Init
<1>4. TypeOK
  <2>1. off \in Offset /\ off % 4 = 0
    BY DEF Init, Offset
  <2>2. QED
    BY <1>1, <1>3, <2>1 DEF Init, TypeOK
<1>5. WalkInv
  BY <1>3 DEF Init, WalkInv
<1>6. QED
  BY <1>1, <1>2, <1>4, <1>5 DEF Init, ListInv, Typed

\* What a header of a chain is, and where it leads.
LEMMA HeaderOfChain ==
  ASSUME NEW hdrs, NEW first, NEW space, Linked(hdrs, first, space), NEW o \in DOMAIN hdrs
  PROVE  /\ HdrAt(hdrs, o) = hdrs[o]
         /\ hdrs[o] \in Header /\ o \in space /\ o % 4 = 0
         /\ hdrs[o].next \in DOMAIN hdrs \cup {0} /\ hdrs[o].next # first
         /\ hdrs[o].next % 4 = 0
<1>1. /\ hdrs[o] \in Header /\ o \in space /\ o % 4 = 0
      /\ hdrs[o].next \in DOMAIN hdrs \cup {0} /\ hdrs[o].next # first
  BY DEF Linked
<1>2. hdrs[o].next % 4 = 0
  BY <1>1 DEF Linked
<1>3. QED
  BY <1>1, <1>2 DEF HdrAt

\* A step to a capability of the compatible chain.
LEMMA CompatCapStep ==
  ASSUME ListInv, CompatCap
  PROVE  ListInv'
<1> DEFINE hdr == dev.compat[off]
           cap == [type |-> "compat", id |-> hdr.id, off |-> off]
<1>1. dev \in DeviceDescs /\ caps \in Seq(Capability)
  BY DEF ListInv, Typed, TypeOK
<1>2. pc = "compat" /\ off # 0
  BY DEF CompatCap
<1>3. off \in DOMAIN dev.compat
  BY <1>2 DEF ListInv, WalkInv
<1>4. Linked(dev.compat, FirstPtr(dev), CompatSpace)
  BY <1>1, Chains
<1>5. /\ HdrAt(dev.compat, off) = hdr /\ hdr \in Header /\ off % 4 = 0 /\ off \in CompatSpace
      /\ hdr.next \in DOMAIN dev.compat \cup {0} /\ hdr.next % 4 = 0
  BY <1>3, <1>4, HeaderOfChain
<1>6. hdr.next \in Offset /\ hdr.id \in CapId
  BY <1>5 DEF Header
<1>7. /\ caps' = Append(caps, cap) /\ off' = hdr.next
      /\ is_pcie' = (is_pcie \/ hdr.id = Express)
  BY <1>5 DEF CompatCap
<1>8. UNCHANGED <<dev, live, vm, available, pc, ext_num, bars, v2p>>
  BY DEF CompatCap
<1>9. cap \in Capability /\ cap.type = "compat" /\ cap.off = off /\ cap.id = hdr.id
  <2>1. off \in Offset
    BY DEF ListInv, Typed, TypeOK
  <2>2. QED
    BY <1>6, <2>1 DEF Capability
<1> HIDE DEF cap, hdr
<1>10. /\ caps' \in Seq(Capability) /\ Len(caps') = Len(caps) + 1
       /\ \A i \in 1..Len(caps) : caps'[i] = caps[i]
       /\ caps'[Len(caps) + 1] = cap
  BY <1>1, <1>7, <1>9, AppendProperties
<1>11. DOMAIN caps = 1..Len(caps) /\ DOMAIN caps' = 1..(Len(caps) + 1) /\ Len(caps) \in Nat
  BY <1>1, <1>10
<1>12. TypeOK'
  <2>1. \A i \in DOMAIN caps' :
          /\ caps'[i].type = "compat" => caps'[i].off % 4 = 0 /\ caps'[i].off \in CompatSpace
          /\ caps'[i].type = "extended" /\ Walkable(dev) =>
               caps'[i].off % 4 = 0 /\ caps'[i].off \in ExtSpace
    <3>1. TAKE i \in DOMAIN caps'
    <3>2. CASE i = Len(caps) + 1
      BY <3>2, <1>5, <1>9, <1>10
    <3>3. CASE i \in DOMAIN caps
      BY <3>3, <1>10, <1>11 DEF ListInv, Typed, TypeOK
    <3>4. QED
      BY <1>11, <3>2, <3>3
  <2>2. is_pcie' \in BOOLEAN
    BY <1>7 DEF ListInv, Typed, TypeOK
  <2>3. off' \in Offset /\ off' % 4 = 0
    BY <1>5, <1>6, <1>7
  <2>4. Walkable(dev)' = Walkable(dev)
    BY <1>8 DEF Walkable
  <2>5. QED
    BY <1>8, <1>10, <2>1, <2>2, <2>3, <2>4 DEF ListInv, Typed, TypeOK
<1>13. compat_num' \in 0..255
  BY DEF CompatCap, ListInv, Typed
<1>14. WalkInv'
  <2>1. \A i \in DOMAIN caps' :
         /\ caps'[i].type = "compat" =>
              caps'[i].off \in DOMAIN dev.compat /\ caps'[i].id = dev.compat[caps'[i].off].id
         /\ caps'[i].type = "extended" => is_pcie'
         /\ caps'[i].type = "extended" /\ Walkable(dev) =>
              caps'[i].off \in DOMAIN dev.ext /\ caps'[i].id = dev.ext[caps'[i].off].id
    <3>1. TAKE i \in DOMAIN caps'
    <3>2. CASE i = Len(caps) + 1
      BY <3>2, <1>3, <1>9, <1>10 DEF hdr
    <3>3. CASE i \in DOMAIN caps
      <4>1. caps'[i] = caps[i]
        BY <3>3, <1>10, <1>11
      <4>2. /\ caps[i].type = "compat" =>
                 caps[i].off \in DOMAIN dev.compat /\ caps[i].id = dev.compat[caps[i].off].id
            /\ caps[i].type = "extended" => is_pcie
            /\ caps[i].type = "extended" /\ Walkable(dev) =>
                 caps[i].off \in DOMAIN dev.ext /\ caps[i].id = dev.ext[caps[i].off].id
        BY <3>3 DEF ListInv, WalkInv
      <4>3. is_pcie => is_pcie'
        BY <1>7
      <4> QED  BY <4>1, <4>2, <4>3
    <3>4. QED
      BY <1>11, <3>2, <3>3
  <2>2. is_pcie' <=> \E i \in DOMAIN caps' : caps'[i].type = "compat" /\ caps'[i].id = Express
    <3>1. is_pcie <=> \E i \in DOMAIN caps : caps[i].type = "compat" /\ caps[i].id = Express
      BY DEF ListInv, WalkInv
    <3>2. CASE hdr.id = Express
      <4>1. is_pcie'
        BY <3>2, <1>7
      <4>2. /\ Len(caps) + 1 \in DOMAIN caps'
            /\ caps'[Len(caps) + 1].type = "compat" /\ caps'[Len(caps) + 1].id = Express
        BY <3>2, <1>9, <1>10, <1>11
      <4>3. QED
        BY <4>1, <4>2
    <3>3. CASE hdr.id # Express
      <4>1. is_pcie' <=> is_pcie
        BY <3>3, <1>7 DEF ListInv, Typed, TypeOK
      <4>2. (\E i \in DOMAIN caps' : caps'[i].type = "compat" /\ caps'[i].id = Express)
              <=> \E i \in DOMAIN caps : caps[i].type = "compat" /\ caps[i].id = Express
        BY <3>3, <1>9, <1>10, <1>11
      <4>3. QED
        BY <3>1, <4>1, <4>2
    <3>4. QED
      BY <3>2, <3>3
  <2>3. QED
    BY <1>2, <1>5, <1>7, <1>8, <2>1, <2>2 DEF ListInv, WalkInv, Walkable
<1>15. QED
  BY <1>8, <1>12, <1>13, <1>14 DEF ListInv, Typed, Sorted

\* A header that the walk of the extended chain reads of a device whose space it stays in.
LEMMA ExtHeader ==
  ASSUME ListInv, ExtCap, Walkable(dev), NEW hdr \in ExtAt(dev, off)
  PROVE  /\ off \in DOMAIN dev.ext /\ hdr = dev.ext[off] /\ hdr \in Header
         /\ off \in ExtSpace /\ off % 4 = 0
         /\ hdr.next \in DOMAIN dev.ext \cup {0} /\ hdr.next # ExtBase /\ hdr.next % 4 = 0
<1>1. dev \in DeviceDescs /\ Linked(dev.ext, ExtBase, ExtSpace)
  BY Chains DEF ListInv, Typed, TypeOK
<1>2. off \in DOMAIN dev.ext /\ is_pcie
  BY DEF ExtCap, ListInv, WalkInv
<1>3. /\ HdrAt(dev.ext, off) = dev.ext[off] /\ dev.ext[off] \in Header
      /\ off \in ExtSpace /\ off % 4 = 0
      /\ dev.ext[off].next \in DOMAIN dev.ext \cup {0} /\ dev.ext[off].next # ExtBase
      /\ dev.ext[off].next % 4 = 0
  BY <1>1, <1>2, HeaderOfChain
<1>4. dev.len = ECS
  BY <1>2, ExpressIsOwned DEF Walkable
<1>5. InExt(dev, off)
  BY <1>3, <1>4 DEF InExt, ExtSpace
<1>6. hdr = dev.ext[off]
  BY <1>3, <1>5 DEF ExtAt
<1>7. QED
  BY <1>2, <1>3, <1>6

\* A step of the walk of the extended chain reads a header, and lists it or not.
LEMMA ExtCapReads ==
  ASSUME ListInv, ExtCap
  PROVE  \E hdr \in ExtAt(dev, off) :
           /\ hdr \in Header /\ off' = hdr.next
           /\ \/ /\ hdr.id # NullCap
                 /\ caps' = Append(caps, [type |-> "extended", id |-> hdr.id, off |-> off])
                 /\ ext_num' = (ext_num + 1) % 256
              \/ /\ hdr.id = NullCap
                 /\ UNCHANGED <<caps, ext_num>>
<1>1. dev \in DeviceDescs /\ Linked(dev.ext, ExtBase, ExtSpace)
  BY Chains DEF ListInv, Typed, TypeOK
<1>2. ExtAt(dev, off) \subseteq Header
  <2>1. HdrAt(dev.ext, off) \in Header
    <3>1. CASE off \in DOMAIN dev.ext
      BY <1>1, <3>1, HeaderOfChain
    <3>2. CASE off \notin DOMAIN dev.ext
      BY <3>2 DEF HdrAt, Header, CapId, Offset
    <3>3. QED
      BY <3>1, <3>2
  <2>2. QED
    BY <2>1, BoundsAssumption DEF ExtAt
<1>3. PICK hdr \in ExtAt(dev, off) :
        /\ IF hdr.id # NullCap
           THEN /\ caps' = Append(caps, [type |-> "extended", id |-> hdr.id, off |-> off])
                /\ ext_num' = (ext_num + 1) % 256
           ELSE UNCHANGED <<caps, ext_num>>
        /\ off' = hdr.next
  BY DEF ExtCap
<1>4. QED
  BY <1>2, <1>3

LEMMA ExtCapStep ==
  ASSUME ListInv, ExtCap
  PROVE  ListInv'
<1>1. PICK hdr \in ExtAt(dev, off) :
        /\ hdr \in Header /\ off' = hdr.next
        /\ \/ /\ hdr.id # NullCap
              /\ caps' = Append(caps, [type |-> "extended", id |-> hdr.id, off |-> off])
              /\ ext_num' = (ext_num + 1) % 256
           \/ /\ hdr.id = NullCap
              /\ UNCHANGED <<caps, ext_num>>
  BY ExtCapReads
<1>2. UNCHANGED <<dev, live, vm, available, pc, is_pcie, compat_num, bars, v2p>>
  BY DEF ExtCap
<1>3. pc = "ext" /\ is_pcie /\ off # 0 /\ off \in Offset
  BY DEF ExtCap, ListInv, WalkInv, Typed, TypeOK
<1>4. Walkable(dev)' = Walkable(dev)
  BY <1>2 DEF Walkable
<1>5. Walkable(dev) =>
        /\ off \in DOMAIN dev.ext /\ hdr = dev.ext[off] /\ off \in ExtSpace /\ off % 4 = 0
        /\ off' \in DOMAIN dev.ext \cup {0} /\ off' % 4 = 0
  BY <1>1, ExtHeader
<1>6. off' \in Offset /\ hdr.id \in CapId
  BY <1>1 DEF Header
<1>7. ext_num' \in 0..255
  <2>1. ext_num \in 0..255
    BY DEF ListInv, Typed
  <2>2. ext_num' \in {ext_num, (ext_num + 1) % 256}
    BY <1>1
  <2>3. QED
    BY <2>1, <2>2
<1> DEFINE cap == [type |-> "extended", id |-> hdr.id, off |-> off]
<1>8. cap \in Capability /\ cap.type = "extended" /\ cap.off = off /\ cap.id = hdr.id
  BY <1>3, <1>6 DEF Capability
<1>9. caps \in Seq(Capability) /\ DOMAIN caps = 1..Len(caps) /\ Len(caps) \in Nat
  BY DEF ListInv, Typed, TypeOK
<1>10. CASE UNCHANGED caps
  BY <1>2, <1>3, <1>4, <1>5, <1>6, <1>7, <1>10 DEF ListInv, Typed, TypeOK, WalkInv, Sorted
<1>11. CASE caps' = Append(caps, cap)
  <2> HIDE DEF cap
  <2>1. /\ caps' \in Seq(Capability) /\ Len(caps') = Len(caps) + 1
        /\ \A i \in 1..Len(caps) : caps'[i] = caps[i]
        /\ caps'[Len(caps) + 1] = cap
    BY <1>8, <1>9, <1>11, AppendProperties
  <2>2. DOMAIN caps' = 1..(Len(caps) + 1)
    BY <2>1
  <2>3. TypeOK'
    <3>1. \A i \in DOMAIN caps' :
            /\ caps'[i].type = "compat" => caps'[i].off % 4 = 0 /\ caps'[i].off \in CompatSpace
            /\ caps'[i].type = "extended" /\ Walkable(dev) =>
                 caps'[i].off % 4 = 0 /\ caps'[i].off \in ExtSpace
      <4>1. TAKE i \in DOMAIN caps'
      <4>2. CASE i = Len(caps) + 1
        BY <4>2, <1>5, <1>8, <2>1
      <4>3. CASE i \in DOMAIN caps
        BY <4>3, <2>1, <1>9 DEF ListInv, Typed, TypeOK
      <4>4. QED
        BY <1>9, <2>2, <4>2, <4>3
    <3>2. (pc # "ext" \/ Walkable(dev) => off % 4 = 0)'
      BY <1>2, <1>3, <1>4, <1>5
    <3>3. QED
      BY <1>2, <1>4, <1>6, <2>1, <3>1, <3>2 DEF ListInv, Typed, TypeOK
  <2>4. WalkInv'
    <3>1. \A i \in DOMAIN caps' :
           /\ caps'[i].type = "compat" =>
                caps'[i].off \in DOMAIN dev.compat /\ caps'[i].id = dev.compat[caps'[i].off].id
           /\ caps'[i].type = "extended" => is_pcie'
           /\ caps'[i].type = "extended" /\ Walkable(dev) =>
                caps'[i].off \in DOMAIN dev.ext /\ caps'[i].id = dev.ext[caps'[i].off].id
      <4>1. TAKE i \in DOMAIN caps'
      <4>2. CASE i = Len(caps) + 1
        BY <4>2, <1>2, <1>3, <1>5, <1>8, <2>1
      <4>3. CASE i \in DOMAIN caps
        BY <4>3, <1>2, <1>9, <2>1 DEF ListInv, WalkInv
      <4>4. QED
        BY <1>9, <2>2, <4>2, <4>3
    <3>2. (\E i \in DOMAIN caps' : caps'[i].type = "compat" /\ caps'[i].id = Express)
            <=> \E i \in DOMAIN caps : caps[i].type = "compat" /\ caps[i].id = Express
      BY <1>8, <1>9, <2>1, <2>2
    <3>3. QED
      BY <1>2, <1>3, <1>4, <1>5, <3>1, <3>2 DEF ListInv, WalkInv
  <2>5. QED
    BY <1>2, <1>7, <2>3, <2>4 DEF ListInv, Typed, Sorted
<1>12. QED
  BY <1>1, <1>10, <1>11

\* What a BAR is read as.
LEMMA BarsTyped ==
  ASSUME ListInv
  PROVE  \A i \in BarIds : i < NumBars(dev) => BarOf(dev.res[i + 1]) \in Bar
<1>1. dev \in DeviceDescs
  BY DEF ListInv, Typed, TypeOK
<1>2. TAKE i \in BarIds
<1>3. dev.res[i + 1] \in Resource /\ dev.res[i + 1].start <= dev.res[i + 1].end
  BY <1>1, SpaceAndResources DEF BarIds
<1>4. QED
  BY <1>3 DEF BarOf, Resource, Bar, EmptyBar

LEMMA ListStep == ListInv /\ [Next]_vars => ListInv'
<1> SUFFICES ASSUME ListInv, [Next]_vars PROVE ListInv'
  OBVIOUS
<1>1. CASE NoVmInfo
  BY <1>1 DEF NoVmInfo, capVars, ListInv, Typed, TypeOK, WalkInv, Sorted, Walkable
<1>2. CASE ParseVmallocinfo
  <2>1. vm' \in Seq(Entry) /\ Sorted(vm')
    BY <1>2, EntriesOfFile DEF ParseVmallocinfo
  <2>2. QED
    BY <1>2, <2>1 DEF ParseVmallocinfo, capVars, ListInv, Typed, TypeOK, WalkInv, Walkable
<1>3. CASE StartWalk
  <2>1. dev \in DeviceDescs
    BY DEF ListInv, Typed, TypeOK
  <2>2. /\ FirstPtr(dev) \in 0..255 /\ FirstPtr(dev) % 4 = 0
        /\ dev.caps => FirstPtr(dev) \in DOMAIN dev.compat
    BY <2>1, Chains
  <2>3. FirstPtr(dev) \in Offset
    BY <2>2 DEF Offset
  <2>4. QED
    BY <1>3, <2>2, <2>3 DEF StartWalk, ListInv, Typed, TypeOK, WalkInv, Sorted, Walkable
<1>4. CASE CompatCap
  BY <1>4, CompatCapStep
<1>5. CASE CompatEnds
  <2>1. Walkable(dev) /\ is_pcie => ExtBase \in DOMAIN dev.ext
    BY ExpressIsOwned, Chains DEF Walkable, ListInv, Typed, TypeOK
  <2>2. ExtBase \in Offset /\ ExtBase % 4 = 0
    BY DEF ExtBase, Offset
  <2>3. QED
    BY <1>5, <2>1, <2>2 DEF CompatEnds, ListInv, Typed, TypeOK, WalkInv, Sorted, Walkable
<1>6. CASE ExtCap
  BY <1>6, ExtCapStep
<1>7. CASE ExtEnds
  BY <1>7 DEF ExtEnds, capVars, ListInv, Typed, TypeOK, WalkInv, Sorted, Walkable
<1>8. CASE ParseBars
  <2>1. bars' \in [BarIds -> Bar]
    BY <1>8, BarsTyped DEF ParseBars, ListInv, Typed
  <2>2. \A i \in BarIds : bars'[i].type \in {"EMPTY", "IO", "MEMORY"}
    BY <2>1 DEF Bar
  <2>3. QED
    BY <1>8, <2>1, <2>2 DEF ParseBars, capVars, ListInv, Typed, TypeOK, WalkInv, Sorted, Walkable
<1>9. CASE ParseBarsV2PMappings
  <2>1. bars' \in [BarIds -> Bar]
    <3>1. bars \in [BarIds -> Bar]
      BY DEF ListInv, Typed
    <3>2. bars' = [i \in BarIds |-> [bars[i] EXCEPT !.has_v2p = BarMappings(i) # << >>]]
      BY <1>9 DEF ParseBarsV2PMappings
    <3>3. \A b \in Bar : \A h \in BOOLEAN : [b EXCEPT !.has_v2p = h] \in Bar
      BY DEF Bar
    <3> QED  BY <3>1, <3>2, <3>3
  <2>2. \A i \in BarIds : bars'[i].type \in {"EMPTY", "IO", "MEMORY"}
    BY <2>1 DEF Bar
  <2>3. QED
    BY <1>9, <2>1, <2>2 DEF ParseBarsV2PMappings, capVars, ListInv, Typed, TypeOK, WalkInv,
                           Sorted, Walkable
<1>10. CASE UNCHANGED vars
  BY <1>10 DEF vars, capVars, ListInv, Typed, TypeOK, WalkInv, Sorted, Walkable
<1>11. QED
  BY <1>1, <1>2, <1>3, <1>4, <1>5, <1>6, <1>7, <1>8, <1>9, <1>10 DEF Next

\* The walk stays at headers of the device and lists just those it has seen.
THEOREM ListInvariance == Spec => []ListInv
<1>1. Init => ListInv
  BY ListInit
<1>2. ListInv /\ [Next]_vars => ListInv'
  BY ListStep
<1>3. QED
  BY <1>1, <1>2, PTL DEF Spec

\* TypeOK: every offset the walk stands at, and every one it lists, is that of a
\* register of the space its list is in.
THEOREM TypeCorrectness == Spec => []TypeOK
<1>1. ListInv => TypeOK
  BY DEF ListInv, Typed
<1>2. QED
  BY <1>1, ListInvariance, PTL

\* ExpressFound: a device with an extended capability in its list has the Express
\* capability at the offset GetCapOffByID gives.
THEOREM ExpressIsFound == Spec => []ExpressFound
<1>1. ListInv => ExpressFound
  <2> SUFFICES ASSUME ListInv, NEW i \in DOMAIN caps, caps[i].type = "extended"
               PROVE  HdrAt(dev.compat, GetCapOffByID("compat", Express)).id = Express
    BY DEF ExpressFound
  <2> DEFINE found == {k \in DOMAIN caps : caps[k].type = "compat" /\ caps[k].id = Express}
  <2>1. found # {}
    BY DEF ListInv, WalkInv
  <2>2. found \in SUBSET Nat
    BY DEF ListInv, Typed, TypeOK
  <2>3. Min(found) \in found
    BY <2>1, <2>2, MinIsLeast
  <2>4. GetCapOffByID("compat", Express) = caps[Min(found)].off
    BY <2>1 DEF GetCapOffByID
  <2>5. QED
    BY <2>3, <2>4 DEF ListInv, WalkInv, HdrAt
<1>2. QED
  BY <1>1, ListInvariance, PTL

-----------------------------------------------------------------------------
(***************************************************************************)
(* The walk of a chain, as the path of what it has seen.                   *)
(***************************************************************************)

\* What a walk that stands at o has seen of a list that starts at first: no header
\* twice, and each where the one before it leads.
IsWalk(path, hdrs, first, o) ==
  /\ path \in Seq(DOMAIN hdrs)
  /\ path # << >> => path[1] = first
  /\ \A i \in 1..(Len(path) - 1) : hdrs[path[i]].next = path[i + 1]
  /\ \A i, j \in 1..Len(path) : i # j => path[i] # path[j]
  /\ o = IF path = << >> THEN first ELSE hdrs[path[Len(path)]].next

\* A walk does not come back to a header it has seen: none is led to twice, and the
\* first one by none.
LEMMA NotSeenAgain ==
  ASSUME NEW hdrs, NEW first, NEW space, Linked(hdrs, first, space),
         NEW o, o # 0, NEW path, IsWalk(path, hdrs, first, o)
  PROVE  \A i \in 1..Len(path) : path[i] # o
<1> SUFFICES ASSUME NEW i \in 1..Len(path), path[i] = o PROVE FALSE
  OBVIOUS
<1>1. path \in Seq(DOMAIN hdrs) /\ Len(path) \in Nat
  BY DEF IsWalk
<1>2. path # << >> /\ Len(path) \in 1..Len(path) /\ path[Len(path)] \in DOMAIN hdrs
  BY <1>1
<1>3. o = hdrs[path[Len(path)]].next
  BY <1>2 DEF IsWalk
<1>4. CASE i = 1
  BY <1>2, <1>3, <1>4 DEF IsWalk, Linked
<1>5. CASE i # 1
  <2>1. i - 1 \in 1..(Len(path) - 1) /\ i - 1 \in 1..Len(path)
    BY <1>1, <1>5
  <2>2. hdrs[path[i - 1]].next = path[(i - 1) + 1]
    BY <2>1 DEF IsWalk
  <2>3. hdrs[path[i - 1]].next = o
    BY <1>1, <2>1, <2>2
  <2>4. path[i - 1] \in DOMAIN hdrs
    BY <1>1, <2>1
  <2>5. path[i - 1] = path[Len(path)]
    BY <1>2, <1>3, <2>3, <2>4 DEF Linked
  <2>6. i - 1 # Len(path)
    BY <1>1
  <2>7. QED
    BY <1>2, <2>1, <2>5, <2>6 DEF IsWalk
<1>6. QED
  BY <1>4, <1>5

LEMMA WalkGoesOn ==
  ASSUME NEW hdrs, NEW first, NEW space, Linked(hdrs, first, space),
         NEW o \in DOMAIN hdrs, o # 0, NEW path, IsWalk(path, hdrs, first, o)
  PROVE  IsWalk(Append(path, o), hdrs, first, hdrs[o].next)
<1> DEFINE long == Append(path, o)
<1>1. path \in Seq(DOMAIN hdrs) /\ Len(path) \in Nat
  BY DEF IsWalk
<1>2. /\ long \in Seq(DOMAIN hdrs) /\ long # << >> /\ Len(long) = Len(path) + 1
      /\ \A i \in 1..Len(path) : long[i] = path[i]
      /\ long[Len(path) + 1] = o
  BY <1>1, AppendProperties
<1> HIDE DEF long
<1>3. long[1] = first
  <2>1. CASE path = << >>
    BY <2>1, <1>2 DEF IsWalk
  <2>2. CASE path # << >>
    BY <2>2, <1>1, <1>2 DEF IsWalk
  <2>3. QED
    BY <2>1, <2>2
<1>4. \A i \in 1..(Len(long) - 1) : hdrs[long[i]].next = long[i + 1]
  <2>1. TAKE i \in 1..(Len(long) - 1)
  <2>2. i \in 1..Len(path) /\ long[i] = path[i]
    BY <1>1, <1>2
  <2>3. CASE i = Len(path)
    BY <2>2, <2>3, <1>1, <1>2 DEF IsWalk
  <2>4. CASE i # Len(path)
    <3>1. i \in 1..(Len(path) - 1) /\ i + 1 \in 1..Len(path)
      BY <2>2, <2>4, <1>1
    <3>2. QED
      BY <2>2, <3>1, <1>2 DEF IsWalk
  <2>5. QED
    BY <2>3, <2>4
<1>5. \A i, j \in 1..Len(long) : i # j => long[i] # long[j]
  <2>1. \A i \in 1..Len(path) : path[i] # o
    BY NotSeenAgain
  <2>2. \A i, j \in 1..Len(path) : i # j => path[i] # path[j]
    BY DEF IsWalk
  <2>3. QED
    BY <1>1, <1>2, <2>1, <2>2
<1>6. hdrs[o].next = IF long = << >> THEN first ELSE hdrs[long[Len(long)]].next
  BY <1>2
<1>7. IsWalk(long, hdrs, first, hdrs[o].next)
  BY <1>2, <1>3, <1>4, <1>5, <1>6 DEF IsWalk
<1>8. QED
  BY <1>7 DEF long

\* No walk is longer than the list.
LEMMA WalkIsBounded ==
  ASSUME NEW hdrs, NEW first, NEW o, NEW path, IsWalk(path, hdrs, first, o),
         IsFiniteSet(DOMAIN hdrs)
  PROVE  Len(path) <= Cardinality(DOMAIN hdrs)
<1>1. Len(path) \in Nat /\ path \in [1..Len(path) -> DOMAIN hdrs]
  BY DEF IsWalk
<1>2. \A i, j \in 1..Len(path) : i # j => path[i] # path[j]
  BY DEF IsWalk
<1>3. QED
  BY <1>1, <1>2, DistinctBound

\* The offsets of the members of a list of capabilities from the one behind a to the
\* one at b.
Offs(s, a, b) == [i \in 1..(b - a) |-> s[a + i].off]

LEMMA OffsOfRun ==
  ASSUME NEW s \in Seq(Capability), NEW a \in Nat, NEW b \in Nat, a <= b, b <= Len(s)
  PROVE  Offs(s, a, b) \in Seq(Offset) /\ Len(Offs(s, a, b)) = b - a
<1>1. b - a \in Nat
  OBVIOUS
<1>2. \A i \in 1..(b - a) : s[a + i].off \in Offset
  <2>1. TAKE i \in 1..(b - a)
  <2>2. s[a + i] \in Capability
    OBVIOUS
  <2>3. QED
    BY <2>2 DEF Capability
<1>3. Offs(s, a, b) \in [1..(b - a) -> Offset]
  BY <1>2 DEF Offs
<1>4. QED
  BY <1>1, <1>3

\* A capability put behind a list puts its offset behind those of every run to the
\* list's end, and changes no other run.
LEMMA OffsOfAppend ==
  ASSUME NEW s \in Seq(Capability), NEW c \in Capability, NEW a \in Nat, a <= Len(s)
  PROVE  /\ Offs(Append(s, c), a, Len(s) + 1) = Append(Offs(s, a, Len(s)), c.off)
         /\ \A b \in Nat : b <= Len(s) => Offs(Append(s, c), a, b) = Offs(s, a, b)
<1> DEFINE t == Append(s, c)
<1>1. Len(s) \in Nat /\ t \in Seq(Capability) /\ Len(t) = Len(s) + 1
  BY AppendProperties
<1>2. (\A i \in 1..Len(s) : t[i] = s[i]) /\ t[Len(s) + 1] = c
  BY AppendProperties
<1> HIDE DEF t
<1>3. Offs(t, a, Len(s) + 1) = Append(Offs(s, a, Len(s)), c.off)
  <2> DEFINE old == Offs(s, a, Len(s))
             new == Offs(t, a, Len(t))
  <2>1. old \in Seq(Offset) /\ Len(old) = Len(s) - a
    <3>1. Len(s) \in Nat /\ a <= Len(s) /\ Len(s) <= Len(s)
      BY <1>1
    <3>2. QED
      BY <3>1, OffsOfRun, Zenon
  <2>2. new \in Seq(Offset) /\ Len(new) = Len(t) - a
    <3>1. Len(t) \in Nat /\ a <= Len(t) /\ Len(t) <= Len(t)
      BY <1>1
    <3>2. QED
      BY <1>1, <3>1, OffsOfRun, Zenon
  <2>3. c.off \in Offset
    BY DEF Capability
  <2>4. \A i \in 1..Len(old) : new[i] = old[i]
    BY <1>1, <1>2, <2>1 DEF Offs
  <2>5. new[Len(old) + 1] = c.off
    BY <1>1, <1>2, <2>1 DEF Offs
  <2> HIDE DEF old, new
  <2>6. /\ Append(old, c.off) \in Seq(Offset) /\ Len(Append(old, c.off)) = Len(old) + 1
        /\ \A i \in 1..Len(old) : Append(old, c.off)[i] = old[i]
        /\ Append(old, c.off)[Len(old) + 1] = c.off
    BY <2>1, <2>3, AppendProperties
  <2>7. Len(new) = Len(old) + 1 /\ Len(old) \in Nat
    BY <1>1, <2>1, <2>2
  <2>8. \A i \in 1..Len(new) : new[i] = Append(old, c.off)[i]
    BY <2>4, <2>5, <2>6, <2>7
  <2>9. new = Append(old, c.off)
    BY <2>2, <2>6, <2>7, <2>8, SeqEqual
  <2>10. QED
    BY <1>1, <2>9 DEF old, new
<1>4. \A b \in Nat : b <= Len(s) => Offs(t, a, b) = Offs(s, a, b)
  BY <1>1, <1>2 DEF Offs
<1>5. QED
  BY <1>3, <1>4 DEF t

\* What is left of a path without its null capabilities.
Real(sub, path, hdrs) == IsFiltered(sub, path, LAMBDA o : hdrs[o].id # NullCap)

LEMMA RealNull ==
  ASSUME NEW hdrs, NEW sub \in Seq(Offset), NEW path \in Seq(DOMAIN hdrs),
         Real(sub, path, hdrs), NEW o \in DOMAIN hdrs, hdrs[o].id = NullCap
  PROVE  Real(sub, Append(path, o), hdrs)
<1> DEFINE long == Append(path, o)
<1>1. PICK f \in [1..Len(sub) -> 1..Len(path)] :
        /\ \A i, j \in 1..Len(sub) : i < j => f[i] < f[j]
        /\ \A i \in 1..Len(sub) : sub[i] = path[f[i]]
        /\ \A k \in 1..Len(path) : hdrs[path[k]].id # NullCap <=> \E i \in 1..Len(sub) : f[i] = k
  BY DEF Real, IsFiltered
<1>2. /\ Len(path) \in Nat /\ Len(long) = Len(path) + 1
      /\ \A i \in 1..Len(path) : long[i] = path[i]
      /\ long[Len(path) + 1] = o
  BY AppendProperties
<1> HIDE DEF long
<1>3. f \in [1..Len(sub) -> 1..Len(long)]
  BY <1>1, <1>2
<1>4. \A i \in 1..Len(sub) : sub[i] = long[f[i]]
  BY <1>1, <1>2
<1>5. \A k \in 1..Len(long) : hdrs[long[k]].id # NullCap <=> \E i \in 1..Len(sub) : f[i] = k
  <2>1. TAKE k \in 1..Len(long)
  <2>2. CASE k \in 1..Len(path)
    BY <2>2, <1>1, <1>2
  <2>3. CASE k = Len(path) + 1
    <3>1. \A i \in 1..Len(sub) : f[i] \in 1..Len(path)
      BY <1>1
    <3>2. \A i \in 1..Len(sub) : f[i] # k
      BY <1>2, <2>3, <3>1
    <3>3. QED
      BY <1>2, <2>3, <3>2
  <2>4. QED
    BY <1>2, <2>2, <2>3
<1>6. Real(sub, long, hdrs)
  BY <1>1, <1>3, <1>4, <1>5 DEF Real, IsFiltered
<1>7. QED
  BY <1>6 DEF long

LEMMA RealAppend ==
  ASSUME NEW hdrs, NEW sub \in Seq(Offset), NEW path \in Seq(DOMAIN hdrs),
         Real(sub, path, hdrs), NEW o \in DOMAIN hdrs, o \in Offset, hdrs[o].id # NullCap
  PROVE  Real(Append(sub, o), Append(path, o), hdrs)
<1> DEFINE long == Append(path, o)
           more == Append(sub, o)
<1>1. PICK f \in [1..Len(sub) -> 1..Len(path)] :
        /\ \A i, j \in 1..Len(sub) : i < j => f[i] < f[j]
        /\ \A i \in 1..Len(sub) : sub[i] = path[f[i]]
        /\ \A k \in 1..Len(path) : hdrs[path[k]].id # NullCap <=> \E i \in 1..Len(sub) : f[i] = k
  BY DEF Real, IsFiltered
<1>2. /\ Len(path) \in Nat /\ Len(long) = Len(path) + 1
      /\ \A i \in 1..Len(path) : long[i] = path[i]
      /\ long[Len(path) + 1] = o
  BY AppendProperties
<1>3. /\ Len(sub) \in Nat /\ Len(more) = Len(sub) + 1
      /\ \A i \in 1..Len(sub) : more[i] = sub[i]
      /\ more[Len(sub) + 1] = o
  BY AppendProperties
<1> HIDE DEF long, more
<1> DEFINE g == [i \in 1..Len(more) |-> IF i \in 1..Len(sub) THEN f[i] ELSE Len(path) + 1]
<1>4. g \in [1..Len(more) -> 1..Len(long)]
  <2>1. \A i \in 1..Len(more) : g[i] \in 1..Len(long)
    BY <1>1, <1>2, <1>3, SMTT(30)
  <2>2. QED
    BY <2>1
<1>5. (\A i \in 1..Len(sub) : g[i] = f[i]) /\ g[Len(sub) + 1] = Len(path) + 1
  BY <1>3
<1> HIDE DEF g
<1>6. \A i, j \in 1..Len(more) : i < j => g[i] < g[j]
  <2>1. TAKE i, j \in 1..Len(more)
  <2>2. HAVE i < j
  <2>3. i \in 1..Len(sub) /\ g[i] = f[i] /\ f[i] \in 1..Len(path)
    BY <1>1, <1>3, <1>5, <2>2
  <2>4. CASE j \in 1..Len(sub)
    BY <1>1, <1>5, <2>2, <2>3, <2>4
  <2>5. CASE j = Len(sub) + 1
    <3>1. PICK k \in 1..Len(path) : g[i] = k
      BY <2>3
    <3>2. g[j] = Len(path) + 1
      BY <1>5, <2>5
    <3>3. QED
      BY <1>2, <3>1, <3>2
  <2>6. QED
    BY <1>3, <2>4, <2>5
<1>7. \A i \in 1..Len(more) : more[i] = long[g[i]]
  <2>1. TAKE i \in 1..Len(more)
  <2>2. CASE i \in 1..Len(sub)
    BY <1>1, <1>2, <1>3, <1>5, <2>2
  <2>3. CASE i = Len(sub) + 1
    BY <1>2, <1>3, <1>5, <2>3
  <2>4. QED
    BY <1>3, <2>2, <2>3
<1>8. \A k \in 1..Len(long) : hdrs[long[k]].id # NullCap <=> \E i \in 1..Len(more) : g[i] = k
  <2>1. TAKE k \in 1..Len(long)
  <2>2. CASE k \in 1..Len(path)
    <3>1. hdrs[long[k]].id # NullCap <=> \E i \in 1..Len(sub) : f[i] = k
      BY <1>1, <1>2, <2>2
    <3>2. \A i \in 1..Len(more) : g[i] = k => i \in 1..Len(sub)
      BY <1>2, <1>3, <1>5, <2>2
    <3>3. QED
      BY <1>3, <1>5, <3>1, <3>2
  <2>3. CASE k = Len(path) + 1
    <3>1. Len(sub) + 1 \in 1..Len(more) /\ g[Len(sub) + 1] = k
      BY <1>3, <1>5, <2>3
    <3>2. QED
      BY <1>2, <2>3, <3>1
  <2>4. QED
    BY <1>2, <2>2, <2>3
<1>9. Real(more, long, hdrs)
  BY <1>4, <1>6, <1>7, <1>8 DEF Real, IsFiltered
<1>10. QED
  BY <1>9 DEF long, more

-----------------------------------------------------------------------------
(***************************************************************************)
(* The capability list, as what is left of the two walks.                  *)
(***************************************************************************)

\* The first n capabilities are what the walk of the compatible chain has seen.
CompatWalked(n) ==
  IF dev.caps /\ pc \notin {"vmallocinfo", "caps"}
  THEN IsWalk(Offs(caps, 0, n), dev.compat, FirstPtr(dev), IF pc = "compat" THEN off ELSE 0)
  ELSE n = 0

\* The others are what the walk of the extended chain has seen, but for the null ones.
ExtWalked(n) ==
  IF is_pcie /\ pc # "compat"
  THEN \E path : /\ IsWalk(path, dev.ext, ExtBase, off)
                 /\ Real(Offs(caps, n, Len(caps)), path, dev.ext)
                 /\ ext_num = (Len(caps) - n) % 256
  ELSE n = Len(caps) /\ ext_num = 0

SplitAt(n) ==
  /\ \A i \in DOMAIN caps : caps[i].type = IF i <= n THEN "compat" ELSE "extended"
  /\ compat_num = n
  /\ CompatWalked(n)
  /\ pc = "compat" => n = Len(caps)
  /\ Walkable(dev) => ExtWalked(n)

ChainInv == \E n \in 0..Len(caps) : SplitAt(n)

LEMMA EmptyWalk ==
  ASSUME NEW hdrs, NEW first
  PROVE  IsWalk(<< >>, hdrs, first, first) /\ Real(<< >>, << >>, hdrs)
<1>1. << >> \in Seq(DOMAIN hdrs) /\ 1..Len(<< >>) = {} /\ 1..(Len(<< >>) - 1) = {}
  OBVIOUS
<1>2. IsWalk(<< >>, hdrs, first, first)
  BY <1>1 DEF IsWalk
<1>3. Real(<< >>, << >>, hdrs)
  <2>1. PICK f : f \in [1..Len(<< >>) -> 1..Len(<< >>)]
    <3>1. [i \in {} |-> i] \in [{} -> {}]
      OBVIOUS
    <3>2. QED
      BY <1>1, <3>1, Zenon
  <2>2. /\ \A i, j \in 1..Len(<< >>) : i < j => f[i] < f[j]
        /\ \A i \in 1..Len(<< >>) : << >>[i] = << >>[f[i]]
        /\ \A k \in 1..Len(<< >>) :
             hdrs[<< >>[k]].id # NullCap <=> \E i \in 1..Len(<< >>) : f[i] = k
    BY <1>1
  <2>3. QED
    BY <2>1, <2>2, Zenon DEF Real, IsFiltered
<1>4. QED
  BY <1>2, <1>3

LEMMA NoOffs ==
  ASSUME NEW s, NEW a \in Nat
  PROVE  Offs(s, a, a) = << >>
<1>1. 1..(a - a) = {}
  OBVIOUS
<1>2. QED
  BY <1>1 DEF Offs

\* The chain of a device's compatible capabilities is so short that the eight bits of
\* its count are enough.
LEMMA CompatFits ==
  ASSUME NEW d \in DeviceDescs, NEW o, NEW path, IsWalk(path, d.compat, FirstPtr(d), o)
  PROVE  Len(path) <= 192
<1>1. DOMAIN d.compat \subseteq CompatSpace
  BY Chains DEF Linked
<1>2. IsFiniteSet(CompatSpace) /\ Cardinality(CompatSpace) = 192
  <2>1. IsFiniteSet(64..255) /\ Cardinality(64..255) = IF 64 > 255 THEN 0 ELSE 255 - 64 + 1
    <3>1. 64 \in Int /\ 255 \in Int
      OBVIOUS
    <3>2. QED
      BY <3>1, FS_Interval, Zenon
  <2>2. QED
    BY <2>1 DEF CompatSpace
<1>3. IsFiniteSet(DOMAIN d.compat) /\ Cardinality(DOMAIN d.compat) <= 192
  BY <1>1, <1>2, FS_Subset
<1>4. Len(path) <= Cardinality(DOMAIN d.compat)
  BY <1>3, WalkIsBounded
<1>5. Cardinality(DOMAIN d.compat) \in Nat /\ Len(path) \in Nat
  BY <1>3, FS_CardinalityType DEF IsWalk
<1>6. QED
  BY <1>3, <1>4, <1>5

LEMMA ChainCompatCap ==
  ASSUME ListInv, CompatCap, NEW n \in 0..Len(caps), SplitAt(n)
  PROVE  ChainInv'
<1> DEFINE hdr == dev.compat[off]
           cap == [type |-> "compat", id |-> hdr.id, off |-> off]
<1>1. dev \in DeviceDescs /\ caps \in Seq(Capability) /\ off \in Offset
  BY DEF ListInv, Typed, TypeOK
<1>2. pc = "compat" /\ off # 0 /\ off \in DOMAIN dev.compat /\ dev.caps /\ n = Len(caps)
  BY DEF CompatCap, ListInv, WalkInv, SplitAt
<1>3. Linked(dev.compat, FirstPtr(dev), CompatSpace)
  BY <1>1, Chains
<1>4. HdrAt(dev.compat, off) = hdr /\ hdr \in Header
  BY <1>2, <1>3, HeaderOfChain
<1>5. /\ caps' = Append(caps, cap) /\ off' = hdr.next /\ compat_num' = (compat_num + 1) % 256
      /\ UNCHANGED <<dev, pc, ext_num>>
  BY <1>4 DEF CompatCap
<1>6. cap \in Capability /\ cap.type = "compat" /\ cap.off = off
  BY <1>1, <1>4 DEF Capability, Header
<1> HIDE DEF cap, hdr
<1>7. /\ caps' \in Seq(Capability) /\ Len(caps') = n + 1 /\ n \in Nat
      /\ \A i \in 1..n : caps'[i] = caps[i]
      /\ caps'[n + 1] = cap
  BY <1>1, <1>2, <1>5, <1>6, AppendProperties
<1>8. Offs(caps', 0, n + 1) = Append(Offs(caps, 0, n), off)
  <2>1. 0 <= Len(caps)
    BY <1>1
  <2>2. QED
    BY <1>1, <1>2, <1>5, <1>6, <2>1, OffsOfAppend
<1>9. IsWalk(Offs(caps, 0, n), dev.compat, FirstPtr(dev), off)
  BY <1>2 DEF SplitAt, CompatWalked
<1>10. IsWalk(Offs(caps', 0, n + 1), dev.compat, FirstPtr(dev), hdr.next)
  BY <1>2, <1>3, <1>8, <1>9, WalkGoesOn DEF hdr
<1>11. CompatWalked(n + 1)'
  BY <1>2, <1>5, <1>10 DEF CompatWalked
<1>12. compat_num' = n + 1
  <2>1. Len(Offs(caps', 0, n + 1)) = n + 1
    <3>1. n + 1 \in Nat /\ 0 <= n + 1 /\ n + 1 <= Len(caps') /\ (n + 1) - 0 = n + 1
      BY <1>7
    <3>2. Len(Offs(caps', 0, n + 1)) = (n + 1) - 0
      BY <1>7, <3>1, OffsOfRun
    <3>3. QED
      BY <3>1, <3>2
  <2>2. n + 1 <= 192
    BY <1>1, <1>10, <2>1, CompatFits
  <2>3. compat_num = n
    BY DEF SplitAt
  <2>4. QED
    BY <1>5, <1>7, <2>2, <2>3
<1>13. \A i \in DOMAIN caps' : caps'[i].type = IF i <= n + 1 THEN "compat" ELSE "extended"
  <2>1. TAKE i \in DOMAIN caps'
  <2>2. i \in 1..(n + 1)
    BY <1>7
  <2>3. CASE i = n + 1
    BY <1>6, <1>7, <2>3
  <2>4. CASE i \in 1..n
    BY <1>1, <1>2, <1>7, <2>4 DEF SplitAt
  <2>5. QED
    BY <1>7, <2>2, <2>3, <2>4
<1>14. Walkable(dev) => ext_num = 0
  BY <1>2 DEF SplitAt, ExtWalked
<1>15. (Walkable(dev) => ExtWalked(n + 1))'
  BY <1>2, <1>5, <1>7, <1>14 DEF ExtWalked, Walkable
<1>16. SplitAt(n + 1)'
  BY <1>7, <1>11, <1>12, <1>13, <1>15 DEF SplitAt
<1>17. QED
  BY <1>7, <1>16 DEF ChainInv

LEMMA ChainExtCap ==
  ASSUME ListInv, ExtCap, NEW n \in 0..Len(caps), SplitAt(n)
  PROVE  ChainInv'
<1>1. PICK hdr \in ExtAt(dev, off) :
        /\ hdr \in Header /\ off' = hdr.next
        /\ \/ /\ hdr.id # NullCap
              /\ caps' = Append(caps, [type |-> "extended", id |-> hdr.id, off |-> off])
              /\ ext_num' = (ext_num + 1) % 256
           \/ /\ hdr.id = NullCap
              /\ UNCHANGED <<caps, ext_num>>
  BY ExtCapReads
<1>2. UNCHANGED <<dev, pc, is_pcie, compat_num>>
  BY DEF ExtCap
<1>3. /\ pc = "ext" /\ is_pcie /\ off # 0 /\ off \in Offset /\ dev \in DeviceDescs
      /\ caps \in Seq(Capability) /\ n \in Nat /\ n <= Len(caps) /\ Len(caps) \in Nat
  BY DEF ExtCap, ListInv, WalkInv, Typed, TypeOK
<1> DEFINE cap == [type |-> "extended", id |-> hdr.id, off |-> off]
<1>4. cap \in Capability /\ cap.type = "extended" /\ cap.off = off
  BY <1>1, <1>3 DEF Capability, Header
<1> HIDE DEF cap
<1>5. \/ caps' = caps
      \/ caps' = Append(caps, cap)
  BY <1>1 DEF cap
<1>6. /\ caps' \in Seq(Capability) /\ Len(caps') \in {Len(caps), Len(caps) + 1}
      /\ \A i \in 1..Len(caps) : caps'[i] = caps[i]
      /\ \A i \in 1..Len(caps') : i \notin 1..Len(caps) => caps'[i] = cap
  <2>1. CASE caps' = caps
    BY <1>3, <2>1
  <2>2. CASE caps' = Append(caps, cap)
    BY <1>3, <1>4, <2>2, AppendProperties
  <2>3. QED
    BY <1>5, <2>1, <2>2
<1>7. \A i \in DOMAIN caps' : caps'[i].type = IF i <= n THEN "compat" ELSE "extended"
  <2>1. TAKE i \in DOMAIN caps'
  <2>2. CASE i \in 1..Len(caps)
    BY <1>3, <1>6, <2>2 DEF SplitAt
  <2>3. CASE i \notin 1..Len(caps)
    <3>1. i > n /\ caps'[i] = cap
      BY <1>3, <1>6, <2>3
    <3>2. QED
      BY <1>3, <1>4, <3>1
  <2>4. QED
    BY <2>2, <2>3
<1>8. Offs(caps', 0, n) = Offs(caps, 0, n)
  <2>1. 0 \in Nat /\ 0 <= Len(caps)
    BY <1>3
  <2>2. CASE caps' = Append(caps, cap)
    BY <1>3, <1>4, <2>1, <2>2, OffsOfAppend
  <2>3. QED
    BY <1>5, <2>2
<1>9. CompatWalked(n)'
  BY <1>2, <1>3, <1>8 DEF SplitAt, CompatWalked
<1>10. ASSUME Walkable(dev) PROVE ExtWalked(n)'
  <2>1. /\ off \in DOMAIN dev.ext /\ hdr = dev.ext[off]
    BY <1>1, <1>10, ExtHeader
  <2>2. Linked(dev.ext, ExtBase, ExtSpace)
    BY <1>3, Chains
  <2>3. PICK path : /\ IsWalk(path, dev.ext, ExtBase, off)
                    /\ Real(Offs(caps, n, Len(caps)), path, dev.ext)
                    /\ ext_num = (Len(caps) - n) % 256
    BY <1>3, <1>10 DEF SplitAt, ExtWalked
  <2> DEFINE long == Append(path, off)
  <2>4. IsWalk(long, dev.ext, ExtBase, off')
    BY <1>1, <1>3, <2>1, <2>2, <2>3, WalkGoesOn
  <2>5. path \in Seq(DOMAIN dev.ext)
    BY <2>3 DEF IsWalk
  <2>6. Offs(caps, n, Len(caps)) \in Seq(Offset)
    <3>1. Len(caps) <= Len(caps)
      BY <1>3
    <3>2. QED
      BY <1>3, <3>1, OffsOfRun
  <2>7. CASE hdr.id # NullCap
    <3>1. caps' = Append(caps, cap) /\ ext_num' = (ext_num + 1) % 256
      BY <1>1, <2>7 DEF cap
    <3>2. Len(caps') = Len(caps) + 1
      BY <1>3, <1>4, <3>1, AppendProperties
    <3>3. Offs(caps', n, Len(caps')) = Append(Offs(caps, n, Len(caps)), off)
      BY <1>3, <1>4, <3>1, <3>2, OffsOfAppend
    <3>4. Real(Offs(caps', n, Len(caps')), long, dev.ext)
      BY <1>3, <2>1, <2>3, <2>5, <2>6, <2>7, <3>3, RealAppend
    <3>5. ext_num' = (Len(caps') - n) % 256
      <4>1. (((Len(caps) - n) % 256) + 1) % 256 = ((Len(caps) + 1) - n) % 256
        BY <1>3
      <4>2. QED
        BY <2>3, <3>1, <3>2, <4>1
    <3>6. QED
      BY <1>2, <1>3, <2>4, <3>4, <3>5 DEF ExtWalked
  <2>8. CASE hdr.id = NullCap
    <3>1. caps' = caps /\ ext_num' = ext_num
      BY <1>1, <2>8
    <3>2. Real(Offs(caps, n, Len(caps)), long, dev.ext)
      BY <2>1, <2>3, <2>5, <2>6, <2>8, RealNull
    <3>3. QED
      BY <1>2, <1>3, <2>3, <2>4, <3>1, <3>2 DEF ExtWalked
  <2>9. QED
    BY <2>7, <2>8
<1>11. SplitAt(n)'
  BY <1>2, <1>3, <1>7, <1>9, <1>10 DEF SplitAt, Walkable
<1>12. n \in 0..Len(caps')
  BY <1>3, <1>6
<1>13. QED
  BY <1>11, <1>12 DEF ChainInv

LEMMA ChainInit == Init => ChainInv
<1> SUFFICES ASSUME Init PROVE ChainInv
  OBVIOUS
<1>1. 0 \in 0..Len(caps) /\ DOMAIN caps = {} /\ Len(caps) = 0
  BY DEF Init
<1>2. SplitAt(0)
  BY <1>1 DEF Init, SplitAt, CompatWalked, ExtWalked
<1>3. QED
  BY <1>1, <1>2 DEF ChainInv

LEMMA ChainStep == ListInv /\ ChainInv /\ [Next]_vars => ChainInv'
<1> SUFFICES ASSUME ListInv, ChainInv, [Next]_vars PROVE ChainInv'
  OBVIOUS
<1>1. PICK n \in 0..Len(caps) : SplitAt(n)
  BY DEF ChainInv
<1>2. ASSUME UNCHANGED <<dev, pc, capVars>> PROVE ChainInv'
  BY <1>1, <1>2 DEF capVars, ChainInv, SplitAt, CompatWalked, ExtWalked, Walkable
<1>3. CASE NoVmInfo \/ ParseVmallocinfo
  BY <1>1, <1>3 DEF NoVmInfo, ParseVmallocinfo, capVars, ChainInv, SplitAt, CompatWalked,
                    ExtWalked, Walkable
<1>4. CASE StartWalk
  <2>1. caps = << >> /\ ~is_pcie /\ ext_num = 0 /\ compat_num = 0
    BY <1>4 DEF StartWalk, ListInv, WalkInv
  <2>2. n = 0 /\ Len(caps) = 0 /\ caps' = caps /\ DOMAIN caps = {}
    BY <1>1, <1>4, <2>1 DEF StartWalk
  <2>3. CompatWalked(0)'
    <3>1. CASE dev.caps
      <4>1. pc' = "compat" /\ off' = FirstPtr(dev) /\ dev' = dev
        BY <1>4, <3>1 DEF StartWalk
      <4>2. Offs(caps', 0, 0) = << >>
        BY NoOffs
      <4>3. QED
        BY <4>1, <4>2, EmptyWalk DEF CompatWalked
    <3>2. CASE ~dev.caps
      BY <1>4, <3>2 DEF StartWalk, CompatWalked
    <3>3. QED
      BY <3>1, <3>2
  <2>4. QED
    BY <1>4, <2>1, <2>2, <2>3 DEF StartWalk, ChainInv, SplitAt, ExtWalked, Walkable
<1>5. CASE CompatCap
  BY <1>1, <1>5, ChainCompatCap
<1>6. CASE CompatEnds
  <2>1. /\ pc = "compat" /\ off = 0 /\ n = Len(caps)
        /\ UNCHANGED <<dev, caps, is_pcie, compat_num, ext_num>>
    BY <1>1, <1>6 DEF CompatEnds, SplitAt
  <2>2. pc' = (IF is_pcie THEN "ext" ELSE "bars") /\ (is_pcie => off' = ExtBase)
    BY <1>6 DEF CompatEnds
  <2>3. CompatWalked(n)'
    BY <1>1, <2>1, <2>2 DEF SplitAt, CompatWalked
  <2>4. ASSUME Walkable(dev) PROVE ExtWalked(n)'
    <3>1. ext_num = 0
      BY <1>1, <2>1, <2>4 DEF SplitAt, ExtWalked
    <3>2. CASE is_pcie
      <4>1. Offs(caps', n, Len(caps')) = << >>
        BY <2>1, NoOffs
      <4>2. /\ IsWalk(<< >>, dev.ext, ExtBase, ExtBase)
            /\ Real(<< >>, << >>, dev.ext)
        BY EmptyWalk
      <4>3. ext_num' = (Len(caps') - n) % 256
        <5>1. Len(caps) \in Nat
          BY DEF ListInv, Typed, TypeOK
        <5>2. QED
          BY <2>1, <3>1, <5>1
      <4>4. QED
        BY <2>1, <2>2, <3>2, <4>1, <4>2, <4>3 DEF ExtWalked
    <3>3. CASE ~is_pcie
      BY <2>1, <3>1, <3>3 DEF ExtWalked
    <3>4. QED
      BY <3>2, <3>3
  <2>5. QED
    BY <1>1, <2>1, <2>2, <2>3, <2>4 DEF ChainInv, SplitAt, Walkable
<1>7. CASE ExtCap
  BY <1>1, <1>7, ChainExtCap
<1>8. CASE ExtEnds \/ ParseBars \/ ParseBarsV2PMappings
  <2>1. /\ pc \notin {"vmallocinfo", "caps", "compat"} /\ UNCHANGED <<dev, capVars>>
        /\ pc' \notin {"vmallocinfo", "caps", "compat"}
    BY <1>8 DEF ExtEnds, ParseBars, ParseBarsV2PMappings
  <2>2. QED
    BY <1>1, <2>1 DEF capVars, ChainInv, SplitAt, CompatWalked, ExtWalked, Walkable
<1>9. CASE UNCHANGED vars
  BY <1>2, <1>9 DEF vars
<1>10. QED
  BY <1>3, <1>4, <1>5, <1>6, <1>7, <1>8, <1>9 DEF Next

\* What a walk that has come to the end of a list has seen is the chain.
LEMMA WalkIsChain ==
  ASSUME NEW hdrs, NEW first, NEW path, IsWalk(path, hdrs, first, 0)
  PROVE  /\ FollowsChain(path, first, LAMBDA o : hdrs[o])
         /\ FollowsChain(path, first, LAMBDA o : HdrAt(hdrs, o))
<1>1. path \in Seq(DOMAIN hdrs) /\ Len(path) \in Nat
  BY DEF IsWalk
<1>2. CASE path = << >>
  BY <1>2 DEF IsWalk, FollowsChain
<1>3. CASE path # << >>
  <2>1. path[1] = first
    BY <1>3 DEF IsWalk
  <2>2. Len(path) \in 1..Len(path) /\ path[Len(path)] \in DOMAIN hdrs
    BY <1>1, <1>3
  <2>3. hdrs[path[Len(path)]].next = 0 /\ HdrAt(hdrs, path[Len(path)]).next = 0
    BY <1>3, <2>2 DEF IsWalk, HdrAt
  <2>4. \A i \in 1..(Len(path) - 1) :
          hdrs[path[i]].next = path[i + 1] /\ HdrAt(hdrs, path[i]).next = path[i + 1]
    <3>1. TAKE i \in 1..(Len(path) - 1)
    <3>2. i \in 1..Len(path) /\ path[i] \in DOMAIN hdrs
      BY <1>1
    <3>3. QED
      BY <3>2 DEF IsWalk, HdrAt
  <2>5. QED
    BY <1>3, <2>1, <2>3, <2>4 DEF FollowsChain
<1>4. QED
  BY <1>2, <1>3

\* Headers of the extended space are finitely many.
LEMMA ExtFinite ==
  ASSUME NEW S, S \subseteq ExtSpace
  PROVE  IsFiniteSet(S)
<1>1. IsFiniteSet(ExtSpace)
  <2>1. ExtBase \in Int /\ ECS - 1 \in Int
    BY DEF ExtBase, ECS
  <2>2. QED
    BY <2>1, FS_Interval DEF ExtSpace
<1>2. QED
  BY <1>1, FS_Subset

LEMMA ListIsChains ==
  ASSUME ListInv, ChainInv, pc \in {"bars", "v2p", "done"}, Walkable(dev)
  PROVE  CapsOfChains
<1>1. PICK n \in 0..Len(caps) : SplitAt(n)
  BY DEF ChainInv
<1> DEFINE compat  == [i \in 1..n |-> caps[i].off]
           ext     == [i \in 1..(Len(caps) - n) |-> caps[n + i].off]
           express == \E i \in 1..n : HdrAt(dev.compat, compat[i]).id = Express
<1>2. /\ dev \in DeviceDescs /\ caps \in Seq(Capability) /\ off = 0 /\ n \in Nat
      /\ DOMAIN caps = 1..Len(caps) /\ Len(caps) \in Nat /\ n <= Len(caps)
  BY DEF ListInv, Typed, TypeOK, WalkInv
<1>3. compat = Offs(caps, 0, n) /\ ext = Offs(caps, n, Len(caps))
  BY <1>2 DEF Offs
<1> HIDE DEF compat, ext, express
<1>4. \A i \in DOMAIN caps : caps[i].type = IF i <= n THEN "compat" ELSE "extended"
  BY <1>1 DEF SplitAt
<1>5. FollowsChain(compat, IF dev.caps THEN FirstPtr(dev) ELSE 0, LAMBDA o : HdrAt(dev.compat, o))
  <2>1. CASE dev.caps
    <3>1. IsWalk(Offs(caps, 0, n), dev.compat, FirstPtr(dev), 0)
      BY <1>1, <2>1 DEF SplitAt, CompatWalked
    <3>2. IsWalk(compat, dev.compat, FirstPtr(dev), 0)
      BY <1>3, <3>1
    <3>3. FollowsChain(compat, FirstPtr(dev), LAMBDA o : HdrAt(dev.compat, o))
      BY <3>2, WalkIsChain DEF FollowsChain
    <3>4. QED
      BY <2>1, <3>3
  <2>2. CASE ~dev.caps
    <3>1. n = 0
      BY <1>1, <2>2 DEF SplitAt, CompatWalked
    <3>2. compat = << >>
      BY <1>3, <3>1, NoOffs
    <3>3. QED
      BY <2>2, <3>2 DEF FollowsChain
  <2>3. QED
    BY <2>1, <2>2
<1>6. compat_num = n
  BY <1>1 DEF SplitAt
<1>7. Len(ext) = Len(caps) - n /\ Len(ext) \in Nat
  <2>1. Len(caps) <= Len(caps) /\ Len(caps) - n \in Nat
    BY <1>2
  <2>2. Len(Offs(caps, n, Len(caps))) = Len(caps) - n
    BY <1>2, <2>1, OffsOfRun
  <2>3. QED
    BY <1>3, <2>1, <2>2
<1>8. is_pcie <=> express
  <2>1. \A i \in 1..n : /\ i \in DOMAIN caps /\ caps[i].type = "compat"
                        /\ caps[i].id = HdrAt(dev.compat, compat[i]).id
    BY <1>2, <1>4 DEF ListInv, WalkInv, HdrAt, compat
  <2>2. \A i \in DOMAIN caps : caps[i].type = "compat" => i \in 1..n
    BY <1>2, <1>4
  <2>3. is_pcie <=> \E i \in DOMAIN caps : caps[i].type = "compat" /\ caps[i].id = Express
    BY DEF ListInv, WalkInv
  <2>4. QED
    BY <2>1, <2>2, <2>3 DEF express
<1>9. ExtWalked(n)
  BY <1>1 DEF SplitAt
<1>10. ~express => ext = << >>
  BY <1>2, <1>3, <1>8, <1>9, NoOffs DEF ExtWalked
<1>11. Len(ext) < 256 => ext_num = Len(ext)
  <2>1. CASE is_pcie
    <3>1. ext_num = (Len(caps) - n) % 256
      BY <1>9, <2>1 DEF ExtWalked
    <3>2. ext_num = Len(ext) % 256
      BY <1>7, <3>1
    <3>3. QED
      BY <1>7, <3>2
  <2>2. CASE ~is_pcie
    <3>1. n = Len(caps) /\ ext_num = 0
      BY <1>9, <2>2 DEF ExtWalked
    <3>2. QED
      BY <1>2, <1>7, <3>1
  <2>3. QED
    BY <2>1, <2>2
<1>12. ASSUME express
       PROVE  \E path \in UNION {[1..m -> DOMAIN dev.ext] : m \in 1..Cardinality(DOMAIN dev.ext)} :
                /\ FollowsChain(path, ExtBase, LAMBDA o : dev.ext[o])
                /\ IsFiltered(ext, path, LAMBDA o : dev.ext[o].id # NullCap)
  <2>1. PICK path : /\ IsWalk(path, dev.ext, ExtBase, 0)
                    /\ Real(ext, path, dev.ext)
    BY <1>2, <1>3, <1>8, <1>9, <1>12 DEF ExtWalked
  <2>2. path # << >> /\ path \in Seq(DOMAIN dev.ext)
    BY <2>1 DEF IsWalk, ExtBase
  <2>3. IsFiniteSet(DOMAIN dev.ext)
    <3>1. DOMAIN dev.ext \subseteq ExtSpace
      BY <1>2, Chains DEF Linked
    <3>2. QED
      BY <3>1, ExtFinite
  <2>4. Len(path) <= Cardinality(DOMAIN dev.ext) /\ Cardinality(DOMAIN dev.ext) \in Nat
    BY <2>1, <2>3, WalkIsBounded, FS_CardinalityType
  <2>5. Len(path) \in 1..Cardinality(DOMAIN dev.ext) /\ path \in [1..Len(path) -> DOMAIN dev.ext]
    BY <2>2, <2>4
  <2>6. FollowsChain(path, ExtBase, LAMBDA o : dev.ext[o])
    BY <2>1, WalkIsChain DEF FollowsChain
  <2>7. IsFiltered(ext, path, LAMBDA o : dev.ext[o].id # NullCap)
    BY <2>1 DEF Real
  <2>8. QED
    BY <2>5, <2>6, <2>7
<1>13. \A i \in DOMAIN caps :
         caps[i].id = HdrAt(IF i <= n THEN dev.compat ELSE dev.ext, caps[i].off).id
  <2>1. TAKE i \in DOMAIN caps
  <2>2. CASE i <= n
    BY <1>4, <2>2 DEF ListInv, WalkInv, HdrAt
  <2>3. CASE ~(i <= n)
    BY <1>4, <2>3 DEF ListInv, WalkInv, HdrAt
  <2>4. QED
    BY <2>2, <2>3
<1>14. QED
  BY <1>4, <1>5, <1>6, <1>10, <1>11, <1>12, <1>13 DEF CapsOfChains, compat, ext, express

\* While ParseCapabilities walks, the list is what it has passed of the one chain and then
\* of the other.
THEOREM ChainInvariance == Spec => []ChainInv
<1>1. Init => ChainInv
  BY ChainInit
<1>2. ListInv /\ ChainInv /\ [Next]_vars => ChainInv'
  BY ChainStep
<1>3. QED
  BY <1>1, <1>2, ListInvariance, PTL DEF Spec

\* CapsOfChains: once ParseCapabilities has returned, the list is the compatible chain
\* and, of an Express device, the extended chain without its null capabilities.
THEOREM ListsTheChains == Spec => []CapsOfChains
<1>1. ListInv /\ ChainInv => CapsOfChains
  <2>1. CASE pc \in {"bars", "v2p", "done"} /\ Walkable(dev)
    BY <2>1, ListIsChains
  <2>2. CASE ~(pc \in {"bars", "v2p", "done"} /\ Walkable(dev))
    BY <2>2 DEF CapsOfChains
  <2>3. QED
    BY <2>1, <2>2
<1>2. QED
  BY <1>1, ListInvariance, ChainInvariance, PTL

-----------------------------------------------------------------------------
(***************************************************************************)
(* What the walks have ahead of them.                                      *)
(***************************************************************************)

Holds(S, hdrs, o) == ({o} \cup {hdrs[q].next : q \in S}) \cap DOMAIN hdrs \subseteq S

LEMMA AheadIs ==
  ASSUME NEW hdrs, NEW o
  PROVE  Ahead(hdrs, o) = {p \in DOMAIN hdrs : \A S \in SUBSET DOMAIN hdrs :
                             Holds(S, hdrs, o) => p \in S}
BY DEF Ahead, Holds

\* A walk that goes on from a header has that one no longer ahead: the headers it has not
\* passed hold what they lead to.
LEMMA LeftBehind ==
  ASSUME NEW hdrs, NEW first, NEW space, Linked(hdrs, first, space), 0 \notin space,
         NEW o \in DOMAIN hdrs, NEW path, IsWalk(path, hdrs, first, o)
  PROVE  /\ o \in Ahead(hdrs, o)
         /\ Ahead(hdrs, hdrs[o].next) \subseteq Ahead(hdrs, o) \ {o}
<1> DEFINE long == Append(path, o)
           next == hdrs[o].next
           Passed == {long[i] : i \in 1..Len(long)}
           Rest == DOMAIN hdrs \ Passed
<1>1. o # 0 /\ 0 \notin DOMAIN hdrs
  BY DEF Linked
<1>2. IsWalk(long, hdrs, first, next)
  BY <1>1, WalkGoesOn
<1>3. o \in Passed
  <2>1. path \in Seq(DOMAIN hdrs)
    BY DEF IsWalk
  <2>2. Len(long) \in 1..Len(long) /\ long[Len(long)] = o
    BY <2>1
  <2>3. QED
    BY <2>2
<1> HIDE DEF long, next
<1>4. long \in Seq(DOMAIN hdrs) /\ Len(long) \in Nat
  BY <1>2 DEF IsWalk
<1>5. Holds(Rest, hdrs, next)
  <2>1. next \in DOMAIN hdrs => next \notin Passed
    BY <1>1, <1>2, NotSeenAgain
  <2>2. ASSUME NEW q \in Rest, hdrs[q].next \in DOMAIN hdrs
        PROVE  hdrs[q].next \notin Passed
    <3>1. SUFFICES ASSUME NEW i \in 1..Len(long), long[i] = hdrs[q].next PROVE FALSE
      OBVIOUS
    <3>2. hdrs[q].next # 0 /\ hdrs[q].next # first
      BY <1>1, <2>2 DEF Linked
    <3>3. i # 1
      <4>1. SUFFICES ASSUME i = 1 PROVE FALSE
        OBVIOUS
      <4>2. long # << >>
        BY <1>4, <3>1
      <4>3. QED
        BY <1>2, <3>1, <3>2, <4>1, <4>2 DEF IsWalk
    <3>4. i - 1 \in 1..(Len(long) - 1) /\ i - 1 \in 1..Len(long) /\ (i - 1) + 1 = i
      BY <1>4, <3>3
    <3>5. hdrs[long[i - 1]].next = long[(i - 1) + 1]
      BY <1>2, <3>4 DEF IsWalk
    <3>6. hdrs[long[i - 1]].next = hdrs[q].next /\ long[i - 1] \in DOMAIN hdrs
      BY <1>4, <3>1, <3>4, <3>5
    <3>7. long[i - 1] = q
      BY <3>2, <3>6 DEF Linked
    <3>8. QED
      BY <3>4, <3>7
  <2>3. QED
    BY <2>1, <2>2 DEF Holds
<1> HIDE DEF Passed
<1>6. \A p \in Ahead(hdrs, next) : p \in Rest
  BY <1>5, AheadIs
<1>7. \A S \in SUBSET DOMAIN hdrs : Holds(S, hdrs, o) => o \in S /\ Holds(S, hdrs, next)
  BY DEF Holds, next
<1>8. o \in Ahead(hdrs, o) /\ Ahead(hdrs, next) \subseteq Ahead(hdrs, o)
  BY <1>7, AheadIs
<1>9. QED
  BY <1>3, <1>6, <1>8 DEF next

LEMMA OneLessAhead ==
  ASSUME NEW hdrs, NEW first, NEW space, Linked(hdrs, first, space), 0 \notin space,
         IsFiniteSet(space),
         NEW o \in DOMAIN hdrs, NEW path, IsWalk(path, hdrs, first, o)
  PROVE  Cardinality(Ahead(hdrs, hdrs[o].next)) < Cardinality(Ahead(hdrs, o))
<1> DEFINE A == Ahead(hdrs, o)
           B == Ahead(hdrs, hdrs[o].next)
<1>1. o \in A /\ B \subseteq A \ {o}
  BY LeftBehind
<1>2. IsFiniteSet(A)
  <2>1. A \subseteq space
    BY AheadIs DEF Linked
  <2>2. QED
    BY <2>1, FS_Subset
<1> HIDE DEF A, B
<1>3. IsFiniteSet(A \ {o}) /\ Cardinality(A \ {o}) = Cardinality(A) - 1
  BY <1>1, <1>2, FS_RemoveElement
<1>4. Cardinality(B) <= Cardinality(A \ {o}) /\ IsFiniteSet(B)
  BY <1>1, <1>3, FS_Subset
<1>5. Cardinality(A) \in Nat /\ Cardinality(B) \in Nat
  BY <1>2, <1>4, FS_CardinalityType
<1>6. QED
  BY <1>3, <1>4, <1>5 DEF A, B

\* No walk has more headers ahead of it than there are.
LEMMA AheadCounted ==
  ASSUME NEW hdrs, NEW first, NEW space, Linked(hdrs, first, space), IsFiniteSet(space), NEW o
  PROVE  /\ Cardinality(DOMAIN hdrs) \in Nat /\ Cardinality(Ahead(hdrs, o)) \in Nat
         /\ Cardinality(Ahead(hdrs, o)) <= Cardinality(DOMAIN hdrs)
<1>1. Ahead(hdrs, o) \subseteq DOMAIN hdrs
  BY AheadIs
<1>2. IsFiniteSet(DOMAIN hdrs)
  BY FS_Subset DEF Linked
<1>3. QED
  BY <1>1, <1>2, FS_Subset, FS_CardinalityType

LEMMA SpacesFinite ==
  IsFiniteSet(CompatSpace) /\ IsFiniteSet(ExtSpace) /\ 0 \notin CompatSpace /\ 0 \notin ExtSpace
<1>1. IsFiniteSet(64..255)
  <2>1. 64 \in Int /\ 255 \in Int
    OBVIOUS
  <2>2. QED
    BY <2>1, FS_Interval, Zenon
<1>2. ExtSpace \subseteq ExtSpace
  OBVIOUS
<1>3. IsFiniteSet(ExtSpace)
  BY <1>2, ExtFinite
<1>4. 0 \notin CompatSpace /\ 0 \notin ExtSpace
  BY DEF CompatSpace, ExtSpace, ExtBase, ECS
<1>5. QED
  BY <1>1, <1>3, <1>4 DEF CompatSpace

\* The counts StepsLeft is made of.
LEMMA StepsCounted ==
  ASSUME NEW d \in DeviceDescs, NEW o
  PROVE  /\ Cardinality(DOMAIN d.compat) \in Nat /\ Cardinality(DOMAIN d.ext) \in Nat
         /\ Cardinality(Ahead(d.compat, o)) \in Nat /\ Cardinality(Ahead(d.ext, o)) \in Nat
         /\ Cardinality(Ahead(d.compat, o)) <= Cardinality(DOMAIN d.compat)
         /\ Cardinality(Ahead(d.ext, o)) <= Cardinality(DOMAIN d.ext)
<1>1. Linked(d.compat, FirstPtr(d), CompatSpace) /\ Linked(d.ext, ExtBase, ExtSpace)
  BY Chains
<1>2. /\ Cardinality(DOMAIN d.compat) \in Nat /\ Cardinality(Ahead(d.compat, o)) \in Nat
      /\ Cardinality(Ahead(d.compat, o)) <= Cardinality(DOMAIN d.compat)
  BY <1>1, SpacesFinite, AheadCounted
<1>3. /\ Cardinality(DOMAIN d.ext) \in Nat /\ Cardinality(Ahead(d.ext, o)) \in Nat
      /\ Cardinality(Ahead(d.ext, o)) <= Cardinality(DOMAIN d.ext)
  BY <1>1, SpacesFinite, AheadCounted
<1>4. QED
  BY <1>2, <1>3

LEMMA StepsNat ==
  ASSUME ListInv
  PROVE  StepsLeft \in Nat
<1>1. dev \in DeviceDescs /\ pc \in {"vmallocinfo", "caps", "compat", "ext", "bars", "v2p", "done"}
  BY DEF ListInv, Typed, TypeOK
<1>2. QED
  BY <1>1, StepsCounted DEF StepsLeft

\* The steps of the two walks.
LEMMA CompatNearer ==
  ASSUME ListInv, ChainInv, CompatCap
  PROVE  StepsLeft' < StepsLeft
<1>1. PICK n \in 0..Len(caps) : SplitAt(n)
  BY DEF ChainInv
<1>2. dev \in DeviceDescs /\ pc = "compat" /\ off \in DOMAIN dev.compat /\ dev.caps
  BY DEF ListInv, Typed, TypeOK, WalkInv, CompatCap
<1>3. Linked(dev.compat, FirstPtr(dev), CompatSpace)
  BY <1>2, Chains
<1>4. IsWalk(Offs(caps, 0, n), dev.compat, FirstPtr(dev), off)
  BY <1>1, <1>2 DEF SplitAt, CompatWalked
<1>5. Cardinality(Ahead(dev.compat, dev.compat[off].next)) < Cardinality(Ahead(dev.compat, off))
  BY <1>2, <1>3, <1>4, SpacesFinite, OneLessAhead
<1>6. dev' = dev /\ pc' = pc /\ off' = dev.compat[off].next
  BY <1>2 DEF CompatCap, HdrAt
<1> DEFINE a == Cardinality(Ahead(dev.compat, off))
           b == Cardinality(Ahead(dev.compat, dev.compat[off].next))
           e == Cardinality(DOMAIN dev.ext)
<1>7. a \in Nat /\ b \in Nat /\ e \in Nat /\ b < a
  BY <1>2, <1>5, StepsCounted
<1>8. StepsLeft = 4 + a + e /\ StepsLeft' = 4 + b + e
  BY <1>2, <1>6 DEF StepsLeft
<1> HIDE DEF a, b, e
<1>9. QED
  BY <1>7, <1>8

LEMMA ExtNearer ==
  ASSUME ListInv, ChainInv, ExtCap, Walkable(dev)
  PROVE  StepsLeft' < StepsLeft
<1>1. PICK n \in 0..Len(caps) : SplitAt(n)
  BY DEF ChainInv
<1>2. dev \in DeviceDescs /\ pc = "ext" /\ is_pcie
  BY DEF ListInv, Typed, TypeOK, WalkInv, ExtCap
<1>3. Linked(dev.ext, ExtBase, ExtSpace)
  BY <1>2, Chains
<1>4. PICK path : IsWalk(path, dev.ext, ExtBase, off)
  BY <1>1, <1>2 DEF SplitAt, ExtWalked
<1>5. PICK hdr \in ExtAt(dev, off) : off' = hdr.next
  BY ExtCapReads
<1>6. off \in DOMAIN dev.ext /\ off' = dev.ext[off].next
  BY <1>5, ExtHeader
<1>7. Cardinality(Ahead(dev.ext, dev.ext[off].next)) < Cardinality(Ahead(dev.ext, off))
  BY <1>3, <1>4, <1>6, SpacesFinite, OneLessAhead
<1>8. dev' = dev /\ pc' = pc
  BY DEF ExtCap
<1> DEFINE a == Cardinality(Ahead(dev.ext, off))
           b == Cardinality(Ahead(dev.ext, dev.ext[off].next))
<1>9. a \in Nat /\ b \in Nat /\ b < a
  BY <1>2, <1>7, StepsCounted
<1>10. StepsLeft = 3 + a /\ StepsLeft' = 3 + b
  BY <1>2, <1>6, <1>8 DEF StepsLeft
<1> HIDE DEF a, b
<1>11. QED
  BY <1>9, <1>10

LEMMA StepNearer ==
  ASSUME ListInv, ChainInv, Next, Walkable(dev)
  PROVE  StepsLeft' < StepsLeft
<1>1. dev \in DeviceDescs
  BY DEF ListInv, Typed, TypeOK
<1>2. CASE NoVmInfo \/ ParseVmallocinfo
  <2>1. pc = "vmallocinfo" /\ pc' = "caps" /\ dev' = dev
    BY <1>2 DEF NoVmInfo, ParseVmallocinfo
  <2>2. QED
    BY <1>1, <2>1, StepsCounted DEF StepsLeft
<1>3. CASE StartWalk
  <2>1. pc = "caps" /\ pc' \in {"compat", "bars"} /\ dev' = dev
    BY <1>3 DEF StartWalk
  <2>2. QED
    BY <1>1, <2>1, StepsCounted DEF StepsLeft
<1>4. CASE CompatCap
  BY <1>4, CompatNearer
<1>5. CASE CompatEnds
  <2>1. pc = "compat" /\ pc' \in {"ext", "bars"} /\ dev' = dev
    BY <1>5 DEF CompatEnds
  <2>2. QED
    BY <1>1, <2>1, StepsCounted DEF StepsLeft
<1>6. CASE ExtCap
  BY <1>6, ExtNearer
<1>7. CASE ExtEnds
  <2>1. pc = "ext" /\ pc' = "bars" /\ dev' = dev
    BY <1>7 DEF ExtEnds
  <2>2. QED
    BY <1>1, <2>1, StepsCounted DEF StepsLeft
<1>8. CASE ParseBars
  BY <1>8 DEF ParseBars, StepsLeft
<1>9. CASE ParseBarsV2PMappings
  BY <1>9 DEF ParseBarsV2PMappings, StepsLeft
<1>10. QED
  BY <1>2, <1>3, <1>4, <1>5, <1>6, <1>7, <1>8, <1>9 DEF Next

\* The loops of ParseCapabilities read no header twice, in whatever order and number the
\* device links them.
THEOREM WalkComesNearer == Spec => WalkNearer
<1>1. ListInv /\ ChainInv /\ [Next]_vars =>
        [Walkable(dev) => StepsLeft \in Nat /\ StepsLeft' < StepsLeft]_vars
  <2>1. SUFFICES ASSUME ListInv, ChainInv, Next, Walkable(dev)
                 PROVE  StepsLeft \in Nat /\ StepsLeft' < StepsLeft
    OBVIOUS
  <2>2. QED
    BY <2>1, StepsNat, StepNearer
<1>2. QED
  BY <1>1, ListInvariance, ChainInvariance, PTL DEF Spec, WalkNearer

-----------------------------------------------------------------------------
(***************************************************************************)
(* The mappings of the BARs.                                               *)
(***************************************************************************)

\* Only the BARs the device's header has are read, and a memory BAR is not empty.
BarInv ==
  /\ \A i \in BarIds : bars[i].type = "MEMORY" => i < NumBars(dev) /\ bars[i].len > 0
  /\ pc \notin {"v2p", "done"} => bars = [i \in BarIds |-> EmptyBar]

\* The members of a list of entries that start in a range.
StartsIn(sub, list, lo, hi) == IsFiltered(sub, list, LAMBDA e : e.pa >= lo /\ e.pa < hi)

\* What BarMappingsRight asks of one BAR.
BarRight(list, bar, sub) ==
  /\ sub \in Seq(Entry)
  /\ bar.type = "MEMORY" => StartsIn(sub, list, bar.phys, bar.phys + bar.len)
  /\ bar.type # "MEMORY" => sub = << >>
  /\ Sorted(sub)
  /\ \A a \in DOMAIN sub : sub[a].pa >= bar.phys /\ sub[a].pa < bar.phys + bar.len

\* Where the binary searches end.
LEMMA SearchEnds ==
  ASSUME vm \in Seq(Entry), NEW x \in Int
  PROVE  /\ LowerBound(x) \in 1..(Len(vm) + 1) /\ UpperBound(x) \in 1..(Len(vm) + 1)
         /\ LowerBound(x) \in DOMAIN vm => vm[LowerBound(x)].pa >= x
         /\ UpperBound(x) \in DOMAIN vm => vm[UpperBound(x)].pa > x
         /\ \A i \in DOMAIN vm : vm[i].pa >= x => LowerBound(x) <= i
         /\ \A i \in DOMAIN vm : vm[i].pa > x => UpperBound(x) <= i
<1> DEFINE low == {i \in DOMAIN vm : vm[i].pa >= x} \cup {Len(vm) + 1}
           upp == {i \in DOMAIN vm : vm[i].pa > x} \cup {Len(vm) + 1}
<1>1. Len(vm) \in Nat /\ DOMAIN vm = 1..Len(vm)
  OBVIOUS
<1>2. low \in SUBSET Nat /\ low # {} /\ upp \in SUBSET Nat /\ upp # {}
  BY <1>1
<1>3. Min(low) \in low /\ \A i \in low : Min(low) <= i
  BY <1>2, MinIsLeast
<1>4. Min(upp) \in upp /\ \A i \in upp : Min(upp) <= i
  BY <1>2, MinIsLeast
<1>5. LowerBound(x) = Min(low) /\ UpperBound(x) = Min(upp)
  BY DEF LowerBound, UpperBound
<1>6. QED
  BY <1>1, <1>3, <1>4, <1>5

\* What GetMappingInRange returns is the part of the entries that starts in the range.
LEMMA MappingsInRange ==
  ASSUME vm \in Seq(Entry), Sorted(vm), NEW lo \in Nat, NEW hi \in Nat, lo < hi
  PROVE  /\ GetMappingInRange(lo, hi) \in Seq(Entry)
         /\ StartsIn(GetMappingInRange(lo, hi), vm, lo, hi)
         /\ Sorted(GetMappingInRange(lo, hi))
         /\ \A a \in DOMAIN GetMappingInRange(lo, hi) :
              /\ GetMappingInRange(lo, hi)[a].pa >= lo
              /\ GetMappingInRange(lo, hi)[a].pa < hi
<1> DEFINE a == LowerBound(lo)
           b == UpperBound(hi - 1) - 1
           sub == SubSeq(vm, a, b)
           f == [k \in 1..Len(sub) |-> a + k - 1]
<1>1. /\ Len(vm) \in Nat /\ DOMAIN vm = 1..Len(vm)
      /\ \A i \in 1..Len(vm) : vm[i] \in Entry /\ vm[i].pa \in Nat
  <2>1. Len(vm) \in Nat /\ DOMAIN vm = 1..Len(vm) /\ \A i \in 1..Len(vm) : vm[i] \in Entry
    OBVIOUS
  <2>2. QED
    BY <2>1 DEF Entry
<1>2. /\ a \in 1..(Len(vm) + 1)
      /\ a \in DOMAIN vm => vm[a].pa >= lo
      /\ \A i \in DOMAIN vm : vm[i].pa >= lo => a <= i
  <2>1. lo \in Int
    OBVIOUS
  <2>2. QED
    BY <2>1, SearchEnds
<1>3. /\ b \in 0..Len(vm)
      /\ b + 1 \in DOMAIN vm => vm[b + 1].pa > hi - 1
      /\ \A i \in DOMAIN vm : vm[i].pa > hi - 1 => b + 1 <= i
  <2>1. hi - 1 \in Int
    OBVIOUS
  <2>2. /\ UpperBound(hi - 1) \in 1..(Len(vm) + 1)
        /\ UpperBound(hi - 1) \in DOMAIN vm => vm[UpperBound(hi - 1)].pa > hi - 1
        /\ \A i \in DOMAIN vm : vm[i].pa > hi - 1 => UpperBound(hi - 1) <= i
    BY <2>1, SearchEnds
  <2>3. QED
    BY <1>1, <2>2
<1>4. GetMappingInRange(lo, hi) = sub
  BY DEF GetMappingInRange
<1> HIDE DEF a, b
<1>5. \A i \in a..b : i \in DOMAIN vm /\ vm[i] \in Entry
  BY <1>1, <1>2, <1>3
<1>6. /\ sub \in Seq(Entry) /\ Len(sub) = IF a <= b THEN b - a + 1 ELSE 0
      /\ \A k \in 1..(b - a + 1) : sub[k] = vm[a + k - 1]
  <2>1. a \in Int /\ b \in Int /\ \A i \in a..b : vm[i] \in Entry
    BY <1>2, <1>3, <1>5
  <2>2. QED
    BY <2>1, SubSeqProperties
<1> HIDE DEF sub
<1>7. Len(sub) \in Nat /\ DOMAIN sub = 1..Len(sub)
  BY <1>6
<1>8. \A k \in 1..Len(sub) : /\ k \in 1..(b - a + 1) /\ a + k - 1 \in a..b
                             /\ a + k - 1 \in 1..Len(vm) /\ sub[k] = vm[a + k - 1]
  BY <1>1, <1>2, <1>3, <1>6, <1>7
<1>9. \A i \in DOMAIN vm : (vm[i].pa >= lo /\ vm[i].pa < hi) <=> i \in a..b
  <2>1. TAKE i \in DOMAIN vm
  <2>2. ASSUME vm[i].pa >= lo, vm[i].pa < hi PROVE i \in a..b
    <3>1. a <= i
      BY <1>2, <2>2
    <3>2. CASE i <= b
      BY <1>1, <1>2, <1>3, <3>1, <3>2
    <3>3. CASE b < i
      <4>1. b + 1 \in DOMAIN vm /\ vm[b + 1].pa > hi - 1
        BY <1>1, <1>3, <3>3
      <4>2. vm[b + 1].pa <= vm[i].pa
        BY <1>1, <1>3, <3>3, <4>1 DEF Sorted
      <4>3. QED
        BY <1>1, <2>2, <4>1, <4>2
    <3>4. QED
      BY <1>1, <1>3, <3>2, <3>3
  <2>3. ASSUME i \in a..b PROVE vm[i].pa >= lo /\ vm[i].pa < hi
    <3>1. vm[i].pa < hi
      BY <1>1, <1>2, <1>3, <2>3
    <3>2. a \in DOMAIN vm /\ vm[a].pa >= lo
      BY <1>1, <1>2, <1>3, <2>3
    <3>3. vm[a].pa <= vm[i].pa
      BY <1>1, <1>2, <2>3, <3>2 DEF Sorted
    <3>4. QED
      BY <1>1, <3>1, <3>2, <3>3
  <2>4. QED
    BY <2>2, <2>3
<1>10. /\ f \in [1..Len(sub) -> 1..Len(vm)]
       /\ \A i \in 1..Len(sub) : f[i] = a + i - 1
  BY <1>8
<1> HIDE DEF f
<1>11. \A i, j \in 1..Len(sub) : i < j => f[i] < f[j]
  BY <1>2, <1>10
<1>12. \A i \in 1..Len(sub) : sub[i] = vm[f[i]]
  BY <1>8, <1>10
<1>13. \A k \in 1..Len(vm) :
         (vm[k].pa >= lo /\ vm[k].pa < hi) <=> \E i \in 1..Len(sub) : f[i] = k
  <2>1. TAKE k \in 1..Len(vm)
  <2>2. ASSUME k \in a..b PROVE \E i \in 1..Len(sub) : f[i] = k
    <3>1. k - a + 1 \in 1..Len(sub) /\ a + (k - a + 1) - 1 = k
      BY <1>2, <1>3, <1>6, <2>2
    <3>2. f[k - a + 1] = k
      BY <1>10, <3>1
    <3>3. QED
      BY <3>1, <3>2
  <2>3. ASSUME NEW i \in 1..Len(sub), f[i] = k PROVE k \in a..b
    BY <1>8, <1>10, <2>3
  <2>4. QED
    BY <1>1, <1>9, <2>2, <2>3
<1>14. StartsIn(sub, vm, lo, hi)
  <2>1. \E g \in [1..Len(sub) -> 1..Len(vm)] :
          /\ \A i, j \in 1..Len(sub) : i < j => g[i] < g[j]
          /\ \A i \in 1..Len(sub) : sub[i] = vm[g[i]]
          /\ \A k \in 1..Len(vm) :
               (vm[k].pa >= lo /\ vm[k].pa < hi) <=> \E i \in 1..Len(sub) : g[i] = k
    BY <1>10, <1>11, <1>12, <1>13
  <2>2. QED
    BY <2>1 DEF StartsIn, IsFiltered
<1>15. Sorted(sub)
  <2>1. ASSUME NEW i \in 1..Len(sub), NEW j \in 1..Len(sub), i < j
        PROVE  sub[i].pa <= sub[j].pa
    <3>1. a + i - 1 \in DOMAIN vm /\ a + j - 1 \in DOMAIN vm /\ a + i - 1 < a + j - 1
      BY <1>1, <1>2, <1>8, <2>1
    <3>2. vm[a + i - 1].pa <= vm[a + j - 1].pa
      BY <3>1 DEF Sorted
    <3>3. QED
      BY <1>8, <3>2
  <2>2. QED
    BY <1>7, <2>1 DEF Sorted
<1>16. \A k \in DOMAIN sub : sub[k].pa >= lo /\ sub[k].pa < hi
  BY <1>1, <1>7, <1>8, <1>9
<1>17. QED
  BY <1>4, <1>6, <1>14, <1>15, <1>16

\* What is looked up for a BAR.
LEMMA MappingsOfBar ==
  ASSUME ListInv, BarInv, available, NEW i \in BarIds
  PROVE  BarRight(vm, bars[i], BarMappings(i))
<1>1. /\ vm \in Seq(Entry) /\ Sorted(vm)
      /\ bars[i].phys \in Nat /\ bars[i].len \in Nat
  BY DEF ListInv, Typed, Bar
<1>2. CASE bars[i].type = "MEMORY"
  <2>1. i < NumBars(dev) /\ bars[i].len > 0
    BY <1>2 DEF BarInv
  <2>2. BarMappings(i) = GetMappingInRange(bars[i].phys, bars[i].phys + bars[i].len)
    BY <1>2, <2>1 DEF BarMappings
  <2>3. bars[i].phys + bars[i].len \in Nat /\ bars[i].phys < bars[i].phys + bars[i].len
    BY <1>1, <2>1
  <2>4. QED
    BY <1>1, <1>2, <2>2, <2>3, MappingsInRange DEF BarRight
<1>3. CASE bars[i].type # "MEMORY"
  BY <1>3 DEF BarMappings, BarRight, Sorted
<1>4. QED
  BY <1>2, <1>3

BarsInv == BarInv /\ BarMappingsRight

LEMMA BarsInit == Init => BarsInv
  BY DEF Init, BarsInv, BarInv, BarMappingsRight, EmptyBar

LEMMA BarsStep == ListInv /\ BarsInv /\ [Next]_vars => BarsInv'
<1> SUFFICES ASSUME ListInv, BarsInv, [Next]_vars PROVE BarsInv'
  OBVIOUS
<1>1. CASE \/ NoVmInfo \/ ParseVmallocinfo \/ StartWalk \/ CompatCap \/ CompatEnds
           \/ ExtCap \/ ExtEnds
  <2>1. UNCHANGED <<dev, bars>> /\ pc \notin {"v2p", "done"} /\ pc' \notin {"v2p", "done"}
    BY <1>1 DEF NoVmInfo, ParseVmallocinfo, StartWalk, CompatCap, CompatEnds, ExtCap, ExtEnds
  <2>2. QED
    BY <2>1 DEF BarsInv, BarInv, BarMappingsRight, NumBars
<1>2. CASE ParseBars
  <2>1. pc = "bars" /\ bars = [i \in BarIds |-> EmptyBar] /\ UNCHANGED <<dev, live>>
    BY <1>2 DEF ParseBars, BarsInv, BarInv
  <2>2. bars' = [i \in BarIds |-> IF i < NumBars(dev) THEN BarOf(dev.res[i + 1]) ELSE bars[i]]
    BY <1>2 DEF ParseBars
  <2>3. \A i \in BarIds : bars'[i].type = "MEMORY" => i < NumBars(dev) /\ bars'[i].len > 0
    <3>1. TAKE i \in BarIds
    <3>2. CASE i < NumBars(dev)
      <4>1. dev.res[i + 1] \in Resource /\ dev.res[i + 1].start <= dev.res[i + 1].end
        BY SpaceAndResources DEF BarIds, ListInv, Typed, TypeOK
      <4>2. bars'[i] = BarOf(dev.res[i + 1])
        BY <2>2, <3>2
      <4>3. QED
        BY <3>2, <4>1, <4>2 DEF BarOf, Resource, EmptyBar
    <3>3. CASE ~(i < NumBars(dev))
      BY <2>1, <2>2, <3>3 DEF EmptyBar
    <3>4. QED
      BY <3>2, <3>3
  <2>4. pc' \in {"v2p", "done"} /\ ~(pc' = "done" /\ live')
    BY <1>2 DEF ParseBars
  <2>5. QED
    BY <2>1, <2>3, <2>4 DEF BarsInv, BarInv, BarMappingsRight, NumBars
<1>3. CASE ParseBarsV2PMappings
  <2>1. /\ pc' = "done" /\ UNCHANGED <<dev, live, vm, available>>
        /\ \A i \in BarIds : v2p'[i] = BarMappings(i)
    BY <1>3 DEF ParseBarsV2PMappings
  <2>2. \A i \in BarIds : /\ bars'[i].type = bars[i].type
                          /\ bars'[i].phys = bars[i].phys /\ bars'[i].len = bars[i].len
                          /\ bars'[i].has_v2p = (v2p'[i] # << >>)
    <3>1. TAKE i \in BarIds
    <3>2. bars[i] \in Bar /\ bars'[i] = [bars[i] EXCEPT !.has_v2p = BarMappings(i) # << >>]
      BY <1>3 DEF ParseBarsV2PMappings, ListInv, Typed
    <3>3. v2p'[i] = BarMappings(i)
      BY <2>1
    <3>4. QED
      BY <3>2, <3>3 DEF Bar
  <2>3. BarInv'
    BY <2>1, <2>2 DEF BarsInv, BarInv, NumBars
  <2>4. BarMappingsRight'
    <3>1. ASSUME available, NEW i \in BarIds
          PROVE  /\ bars'[i].type = "MEMORY" =>
                      StartsIn(v2p'[i], vm', bars'[i].phys, bars'[i].phys + bars'[i].len)
                 /\ bars'[i].type # "MEMORY" => v2p'[i] = << >>
                 /\ Sorted(v2p'[i])
                 /\ \A a \in DOMAIN v2p'[i] :
                      /\ v2p'[i][a].pa >= bars'[i].phys
                      /\ v2p'[i][a].pa < bars'[i].phys + bars'[i].len
                 /\ bars'[i].phys \in Nat /\ bars'[i].len \in Nat
                 /\ \A a \in DOMAIN v2p'[i] : v2p'[i][a].pa \in Nat
      <4>1. BarRight(vm, bars[i], BarMappings(i))
        BY <3>1, MappingsOfBar DEF BarsInv
      <4>2. BarRight(vm', bars'[i], v2p'[i])
        BY <2>1, <2>2, <4>1 DEF BarRight
      <4>3. bars[i] \in Bar /\ bars[i].phys \in Nat /\ bars[i].len \in Nat
        BY DEF ListInv, Typed, Bar
      <4>4. \A a \in DOMAIN v2p'[i] : v2p'[i][a].pa \in Nat
        <5>1. \A a \in DOMAIN v2p'[i] : v2p'[i][a] \in Entry
          BY <4>2 DEF BarRight
        <5>2. QED
          BY <5>1 DEF Entry
      <4>5. QED
        BY <2>2, <4>2, <4>3, <4>4 DEF BarRight
    <3>2. ASSUME available, NEW i \in BarIds, NEW j \in BarIds,
                 bars'[i].phys + bars'[i].len <= bars'[j].phys,
                 NEW a \in DOMAIN v2p'[i], NEW b \in DOMAIN v2p'[j]
          PROVE  v2p'[i][a] # v2p'[j][b]
      BY <3>1, <3>2
    <3>3. QED
      BY <2>1, <2>2, <3>1, <3>2 DEF BarMappingsRight, StartsIn, IsFiltered
  <2>5. QED
    BY <2>3, <2>4 DEF BarsInv
<1>4. CASE UNCHANGED vars
  BY <1>4 DEF vars, BarsInv, BarInv, BarMappingsRight, NumBars, IsFiltered, Sorted
<1>5. QED
  BY <1>1, <1>2, <1>3, <1>4 DEF Next

\* BarMappingsRight: every memory BAR has the mappings of vmallocinfo that start in it,
\* all of them, once each and in ascending order, and no other BAR has any.
THEOREM MappingsAreOfTheirBar == Spec => []BarMappingsRight
<1>1. Init => BarsInv
  BY BarsInit
<1>2. ListInv /\ BarsInv /\ [Next]_vars => BarsInv'
  BY BarsStep
<1>3. BarsInv => BarMappingsRight
  BY DEF BarsInv
<1>4. QED
  BY <1>1, <1>2, <1>3, ListInvariance, PTL DEF Spec
=============================================================================
