----------------------------- MODULE IdsDbProofs -----------------------------
(***************************************************************************)
(* Proofs about IdsDb: the caches of PciIdParser never change an answer.   *)
(*                                                                         *)
(* The inductive invariant says what an entry of the cache is: what an     *)
(* uncached search would find.  A search depends on the text alone, or on  *)
(* the text and the line cached for the vendor, so an entry that was right *)
(* when it was made stays right.                                           *)
(***************************************************************************)
EXTENDS IdsDb, WellFoundedInduction, TLAPS

\* Every entry of the two caches is what a search would find, and a device's vendor is
\* cached.
CacheInv ==
  /\ \A v \in DOMAIN vendors : vendors[v] = FindVendor(v) /\ vendors[v] # 0
  /\ \A k \in DOMAIN devs :
       /\ k = <<k[1], k[2]>>
       /\ k[1] \in DOMAIN vendors
       /\ devs[k] = FindDevice(k[1], k[2])
       /\ devs[k] # 0

\* The line of the device d, found from that of its vendor.
FreshDevice(d) ==
  IF FindVendor(d.vid) = 0 THEN 0 ELSE Find("device", d.id, FindVendor(d.vid) + 2)

\* Which lookups have been made for d, and that their results are the fresh ones.
NamesInv(d) ==
  /\ d \notin pending /\ (d = dev => call # "vendor") =>
       names[d].VENDOR = FindVendor(d.vid)
  /\ d \notin pending /\ (d = dev => call \notin {"vendor", "device"}) =>
       names[d].DEVICE = FreshDevice(d)

Inv ==
  /\ WellFormed(db)
  /\ classOff \in {0, ClassBlock}
  /\ pending \subseteq DOMAIN names
  /\ names \in [DOMAIN names -> [NameTypes -> {0} \cup DOMAIN db]]
  /\ call \in {"none", "vendor", "device", "class", "subsys", "subsys_vendor"}
  /\ call # "none" => dev \in DOMAIN names /\ dev \notin pending
  /\ call = "device" /\ FindVendor(dev.vid) # 0 => dev.vid \in DOMAIN vendors
  /\ CacheInv
  /\ \A d \in DOMAIN names : NamesInv(d)

\* The order of line numbers, as a relation.
Below == {p \in Nat \X Nat : p[1] < p[2]}

\* First returns the least of the lines: a set of numbers that is not empty has one.
LEMMA FirstIsLeast ==
  ASSUME NEW S \in SUBSET Nat
  PROVE  /\ S = {} => First(S) = 0
         /\ S # {} => First(S) \in S /\ \A j \in S : First(S) <= j
<1>1. CASE S = {}
  BY <1>1 DEF First
<1>2. CASE S # {}
  <2>1. IsWellFoundedOn(Below, Nat)
    <3>1. OpToRel(<, Nat) = Below
      BY DEF OpToRel, Below
    <3>2. QED
      BY <3>1, NatLessThanWellFounded
  <2>2. PICK i \in S : \A j \in S : ~(<<j, i>> \in Below)
    BY <1>2, <2>1, WFMin
  <2>3. \A j \in S : i <= j
    <3> SUFFICES ASSUME NEW j \in S, j < i PROVE FALSE
      OBVIOUS
    <3>1. <<j, i>> \in Below
      BY DEF Below
    <3>2. QED
      BY <2>2, <3>1
  <2>4. QED
    BY <1>2, <2>3 DEF First
<1>3. QED
  BY <1>1, <1>2

\* So it returns one of the lines, or 0.
LEMMA FirstIsOne ==
  ASSUME NEW S \in SUBSET Nat
  PROVE  First(S) \in S \cup {0}
BY FirstIsLeast

\* A search finds a line of the kind and id it is for, or none.
LEMMA FindFinds ==
  ASSUME WellFormed(db), NEW kind, NEW id, NEW from, Find(kind, id, from) # 0
  PROVE  /\ Find(kind, id, from) \in DOMAIN db
         /\ db[Find(kind, id, from)].kind = kind
         /\ db[Find(kind, id, from)].id = id
<1> DEFINE S == {i \in DOMAIN db : i >= from /\ db[i].kind = kind /\ db[i].id = id}
<1>1. S \in SUBSET Nat
  BY DEF WellFormed
<1>2. First(S) \in S \cup {0}
  BY <1>1, FirstIsOne
<1> QED  BY <1>2 DEF Find

\* A search gives a line or 0.
LEMMA FindInText ==
  ASSUME WellFormed(db), NEW kind, NEW id, NEW from
  PROVE  Find(kind, id, from) \in {0} \cup DOMAIN db
BY FindFinds

\* Every lookup leaves CacheInv true of the vendors, and gives the fresh answer.
LEMMA VendorLookup ==
  ASSUME CacheInv, NEW v
  PROVE  /\ VendorName(v) = FindVendor(v)
         /\ \A w \in DOMAIN VendorsAfter(v) :
              VendorsAfter(v)[w] = FindVendor(w) /\ VendorsAfter(v)[w] # 0
         /\ \A w \in DOMAIN vendors :
              w \in DOMAIN VendorsAfter(v) /\ VendorsAfter(v)[w] = vendors[w]
         /\ FindVendor(v) # 0 => v \in DOMAIN VendorsAfter(v)
<1>1. VendorName(v) = FindVendor(v)
  BY DEF CacheInv, VendorName
<1>2. CASE v \in DOMAIN vendors \/ FindVendor(v) = 0
  BY <1>1, <1>2 DEF CacheInv, VendorsAfter
<1>3. CASE v \notin DOMAIN vendors /\ FindVendor(v) # 0
  BY <1>1, <1>3 DEF CacheInv, VendorsAfter, Put
<1> QED  BY <1>2, <1>3

\* So does a device's lookup, when its vendor has been looked up.
LEMMA DeviceLookup ==
  ASSUME CacheInv, NEW v, NEW id, FindVendor(v) # 0 => v \in DOMAIN vendors
  PROVE  /\ DeviceName(v, id) =
              IF FindVendor(v) = 0 THEN 0 ELSE Find("device", id, FindVendor(v) + 2)
         /\ \A k \in DOMAIN DevsAfter(v, id) :
              /\ k = <<k[1], k[2]>>
              /\ k[1] \in DOMAIN vendors
              /\ DevsAfter(v, id)[k] = FindDevice(k[1], k[2])
              /\ DevsAfter(v, id)[k] # 0
<1>1. v \in DOMAIN vendors <=> FindVendor(v) # 0
  BY DEF CacheInv
<1>2. v \in DOMAIN vendors => vendors[v] = FindVendor(v)
  BY DEF CacheInv
<1>3. <<v, id>> \in DOMAIN devs => devs[<<v, id>>] = FindDevice(v, id)
  BY DEF CacheInv
<1>4. DeviceName(v, id) = IF v \in DOMAIN vendors THEN FindDevice(v, id) ELSE 0
  BY <1>3 DEF DeviceName
<1>5. DeviceName(v, id) = IF FindVendor(v) = 0 THEN 0 ELSE Find("device", id, FindVendor(v) + 2)
  BY <1>1, <1>2, <1>4 DEF FindDevice
<1>6. CASE DeviceName(v, id) = 0
  BY <1>6, <1>5 DEF DevsAfter, CacheInv
<1>7. CASE DeviceName(v, id) # 0
  <2>1. DeviceName(v, id) = FindDevice(v, id) /\ v \in DOMAIN vendors
    BY <1>4, <1>7
  <2> SUFFICES ASSUME NEW k \in DOMAIN DevsAfter(v, id)
               PROVE  /\ k = <<k[1], k[2]>>
                      /\ k[1] \in DOMAIN vendors
                      /\ DevsAfter(v, id)[k] = FindDevice(k[1], k[2])
                      /\ DevsAfter(v, id)[k] # 0
    BY <1>5
  <2>2. CASE k = <<v, id>>
    BY <2>1, <2>2, <1>7 DEF DevsAfter, Put
  <2>3. CASE k # <<v, id>>
    <3>1. k \in DOMAIN devs /\ DevsAfter(v, id)[k] = devs[k]
      BY <2>3, <1>7 DEF DevsAfter, Put
    <3> QED  BY <3>1 DEF CacheInv
  <2> QED  BY <2>2, <2>3
<1> QED  BY <1>6, <1>7

\* The class information is made of lines.
LEMMA ClassInText ==
  ASSUME WellFormed(db), NEW from, NEW cc
  PROVE  \A f \in {"CLASS", "SUBCLASS", "PROG_IFACE"} :
           ClassInfo(from, cc)[f] \in {0} \cup DOMAIN db
<1> DEFINE c == Find("class", cc[1], from)
           s == IF c = 0 THEN 0 ELSE SubclassName(c, cc[2])
           p == IF s = 0 THEN 0 ELSE ProgIfaceName(c, s, cc[3])
<1>1. c \in {0} \cup DOMAIN db
  BY FindInText
<1>2. s \in {0} \cup DOMAIN db
  BY FindInText DEF SubclassName
<1>3. p \in {0} \cup DOMAIN db
  BY FindInText DEF ProgIfaceName
<1>4. ClassInfo(from, cc) = [CLASS |-> c, SUBCLASS |-> s, PROG_IFACE |-> p]
  BY DEF ClassInfo
<1> HIDE DEF c, s, p
<1> QED  BY <1>1, <1>2, <1>3, <1>4

\* A subsystem's name is a line or 0.
LEMMA SubsysInText ==
  ASSUME WellFormed(db), NEW vid, NEW id, NEW subsys
  PROVE  SubsysName(vid, id, subsys) \in {0} \cup DOMAIN db
<1> DEFINE S == {i \in SubsysBlock(devs[<<vid, id>>]) :
                   db[i].kind = "subsys" /\ db[i].id = subsys}
<1>1. S \in SUBSET DOMAIN db
  BY DEF SubsysBlock
<1>2. S \in SUBSET Nat
  BY <1>1, SMTT(30) DEF WellFormed
<1>3. First(S) \in S \cup {0}
  BY <1>2, FirstIsOne
<1> QED  BY <1>1, <1>3 DEF SubsysName

\* Storing a line in one of the names of a device changes that name alone.
LEMMA NameStored ==
  ASSUME Inv, call # "none", NEW t \in NameTypes, NEW l \in {0} \cup DOMAIN db,
         names' = [names EXCEPT ![dev][t] = l]
  PROVE  /\ DOMAIN names' = DOMAIN names
         /\ names' \in [DOMAIN names -> [NameTypes -> {0} \cup DOMAIN db]]
         /\ names'[dev][t] = l
         /\ \A u \in NameTypes \ {t} : names'[dev][u] = names[dev][u]
         /\ \A d \in DOMAIN names \ {dev} : names'[d] = names[d]
BY DEF Inv

\* The invariant holds at first.
LEMMA InitInv == Init => Inv
<1> SUFFICES ASSUME Init PROVE Inv
  OBVIOUS
<1>1. WellFormed(db)
  BY DatabasesAssumption DEF Init
<1>2. CacheInv
  BY DEF Init, NoCache, CacheInv
<1>3. names \in [DOMAIN names -> [NameTypes -> {0} \cup DOMAIN db]]
  BY DEF Init, None
<1>4. \A d \in DOMAIN names : NamesInv(d)
  BY DEF Init, NamesInv
<1> QED  BY <1>1, <1>2, <1>3, <1>4 DEF Init, Inv

\* No step changes the text, so none changes what a search finds.
LEMMA SearchesKept ==
  ASSUME db' = db
  PROVE  /\ \A v : FindVendor(v)' = FindVendor(v)
         /\ ClassBlock' = ClassBlock
         /\ WellFormed(db)' = WellFormed(db)
         /\ \A d : FreshDevice(d)' = FreshDevice(d)
BY DEF FindVendor, Find, ClassBlock, WellFormed, FreshDevice

\* What the caches hold stays right while neither they nor the text change.
LEMMA CacheKept ==
  ASSUME CacheInv, db' = db, vendors' = vendors, devs' = devs
  PROVE  CacheInv'
<1>1. \A v : FindVendor(v)' = FindVendor(v)
  BY SearchesKept
<1>2. \A v, id : FindDevice(v, id)' = FindDevice(v, id)
  BY DEF FindDevice, Find
<1> QED  BY <1>1, <1>2 DEF CacheInv

\* Every step keeps the invariant.
LEMMA NextInv == Inv /\ [Next]_vars => Inv'
<1> SUFFICES ASSUME Inv, [Next]_vars PROVE Inv'
  OBVIOUS
<1> USE DEF NameTypes
<1>1. ASSUME NEW d \in pending, ParseIDs(d) PROVE Inv'
  <2>1. CacheInv'
    BY <1>1, CacheKept DEF ParseIDs, Inv
  <2>2. \A e \in DOMAIN names : NamesInv(e)'
    BY <1>1, SearchesKept DEF ParseIDs, Inv, NamesInv
  <2> QED  BY <1>1, <2>1, <2>2, SearchesKept DEF ParseIDs, Inv
<1>2. CASE LookupVendor
  <2>1. /\ VendorName(dev.vid) = FindVendor(dev.vid)
        /\ VendorName(dev.vid) \in {0} \cup DOMAIN db
    BY VendorLookup, FindInText DEF Inv, FindVendor
  <2>2. /\ DOMAIN names' = DOMAIN names
        /\ names' \in [DOMAIN names -> [NameTypes -> {0} \cup DOMAIN db]]
        /\ names'[dev].VENDOR = FindVendor(dev.vid)
        /\ \A d \in DOMAIN names \ {dev} : names'[d] = names[d]
    BY <1>2, <2>1, NameStored DEF LookupVendor
  <2>3. CacheInv'
    <3>1. \A w \in DOMAIN vendors' : vendors'[w] = FindVendor(w)' /\ vendors'[w] # 0
      BY <1>2, VendorLookup, SearchesKept DEF LookupVendor, Inv
    <3>2. \A w \in DOMAIN vendors : w \in DOMAIN vendors' /\ vendors'[w] = vendors[w]
      BY <1>2, VendorLookup DEF LookupVendor, Inv
    <3>3. \A k \in DOMAIN devs : FindDevice(k[1], k[2])' = FindDevice(k[1], k[2])
      BY <1>2, <3>2 DEF LookupVendor, Inv, CacheInv, FindDevice, Find
    <3> QED  BY <1>2, <3>1, <3>2, <3>3 DEF LookupVendor, Inv, CacheInv
  <2>4. \A d \in DOMAIN names : NamesInv(d)'
    BY <1>2, <2>2, SearchesKept DEF LookupVendor, Inv, NamesInv
  <2>5. FindVendor(dev.vid) # 0 => dev.vid \in DOMAIN vendors'
    BY <1>2, VendorLookup DEF LookupVendor, Inv
  <2> QED  BY <1>2, <2>2, <2>3, <2>4, <2>5, SearchesKept DEF LookupVendor, Inv
<1>3. CASE LookupDevice
  <2>1. /\ DeviceName(dev.vid, dev.id) = FreshDevice(dev)
        /\ FreshDevice(dev) \in {0} \cup DOMAIN db
    BY <1>3, DeviceLookup, FindInText DEF LookupDevice, Inv, FreshDevice
  <2>2. /\ DOMAIN names' = DOMAIN names
        /\ names' \in [DOMAIN names -> [NameTypes -> {0} \cup DOMAIN db]]
        /\ names'[dev].DEVICE = FreshDevice(dev)
        /\ names'[dev].VENDOR = names[dev].VENDOR
        /\ \A d \in DOMAIN names \ {dev} : names'[d] = names[d]
    BY <1>3, <2>1, NameStored DEF LookupDevice
  <2>3. CacheInv'
    <3>1. /\ \A k \in DOMAIN devs' :
               /\ k = <<k[1], k[2]>> /\ k[1] \in DOMAIN vendors
               /\ devs'[k] = FindDevice(k[1], k[2]) /\ devs'[k] # 0
      BY <1>3, DeviceLookup DEF LookupDevice, Inv
    <3>2. \A k : FindDevice(k[1], k[2])' = FindDevice(k[1], k[2])
      BY <1>3 DEF LookupDevice, FindDevice, Find
    <3> QED  BY <1>3, <3>1, <3>2, SearchesKept DEF LookupDevice, Inv, CacheInv
  <2>4. \A d \in DOMAIN names : NamesInv(d)'
    BY <1>3, <2>2, SearchesKept DEF LookupDevice, Inv, NamesInv
  <2> QED  BY <1>3, <2>2, <2>3, <2>4, SearchesKept DEF LookupDevice, Inv
<1>4. CASE LookupClass
  <2> DEFINE off == IF classOff = 0 THEN ClassBlock ELSE classOff
             info == ClassInfo(off, dev.cc)
  <2>1. \A f \in {"CLASS", "SUBCLASS", "PROG_IFACE"} : info[f] \in {0} \cup DOMAIN db
    BY ClassInText DEF Inv
  <2>2. names' = [names EXCEPT ![dev].CLASS      = info.CLASS,
                               ![dev].SUBCLASS   = info.SUBCLASS,
                               ![dev].PROG_IFACE = info.PROG_IFACE]
    BY <1>4 DEF LookupClass
  <2> HIDE DEF info
  <2>3. /\ DOMAIN names' = DOMAIN names
        /\ names' \in [DOMAIN names -> [NameTypes -> {0} \cup DOMAIN db]]
        /\ \A d \in DOMAIN names : /\ names'[d].VENDOR = names[d].VENDOR
                                   /\ names'[d].DEVICE = names[d].DEVICE
    BY <2>1, <2>2 DEF Inv
  <2>4. CacheInv'
    BY <1>4, CacheKept DEF LookupClass, Inv
  <2>5. \A d \in DOMAIN names : NamesInv(d)'
    <3>1. call = "class" /\ call' \in {"subsys", "none"} /\ UNCHANGED <<db, pending, dev>>
      BY <1>4 DEF LookupClass
    <3>2. SUFFICES ASSUME NEW d \in DOMAIN names PROVE NamesInv(d)'
      OBVIOUS
    <3>3. NamesInv(d) /\ names'[d].VENDOR = names[d].VENDOR /\ names'[d].DEVICE = names[d].DEVICE
      BY <2>3 DEF Inv
    <3>4. FindVendor(d.vid)' = FindVendor(d.vid) /\ FreshDevice(d)' = FreshDevice(d)
      BY <3>1, SearchesKept
    <3> QED  BY <3>1, <3>3, <3>4 DEF NamesInv
  <2>6. classOff' \in {0, ClassBlock'}
    BY <1>4, SearchesKept DEF LookupClass, Inv
  <2> QED  BY <1>4, <2>3, <2>4, <2>5, <2>6, SearchesKept DEF LookupClass, Inv
<1>5. CASE LookupSubsys
  <2> DEFINE name == SubsysName(dev.vid, dev.id, dev.subsys)
  <2>1. name \in {0} \cup DOMAIN db
    BY SubsysInText DEF Inv
  <2>2. names' = [names EXCEPT ![dev].SUBSYS_NAME = name]
    BY <1>5 DEF LookupSubsys
  <2>3. call = "subsys" /\ call' \in {"subsys_vendor", "none"}
    BY <1>5 DEF LookupSubsys
  <2> HIDE DEF name
  <2>4. /\ DOMAIN names' = DOMAIN names
        /\ names' \in [DOMAIN names -> [NameTypes -> {0} \cup DOMAIN db]]
        /\ \A d \in DOMAIN names : /\ names'[d].VENDOR = names[d].VENDOR
                                   /\ names'[d].DEVICE = names[d].DEVICE
    BY <2>1, <2>2, <2>3, NameStored, SMTT(30) DEF Inv
  <2>5. CacheInv'
    BY <1>5, CacheKept DEF LookupSubsys, Inv
  <2>6. \A d \in DOMAIN names : NamesInv(d)'
    BY <1>5, <2>3, <2>4, SearchesKept DEF LookupSubsys, Inv, NamesInv
  <2> QED  BY <1>5, <2>3, <2>4, <2>5, <2>6, SearchesKept DEF LookupSubsys, Inv
<1>6. CASE LookupSubsysVendor
  <2>1. VendorName(dev.subsys[1]) \in {0} \cup DOMAIN db
    BY VendorLookup, FindInText DEF Inv, FindVendor
  <2>2. /\ DOMAIN names' = DOMAIN names
        /\ names' \in [DOMAIN names -> [NameTypes -> {0} \cup DOMAIN db]]
        /\ \A d \in DOMAIN names : /\ names'[d].VENDOR = names[d].VENDOR
                                   /\ names'[d].DEVICE = names[d].DEVICE
    BY <1>6, <2>1, NameStored, SMTT(30) DEF LookupSubsysVendor, Inv
  <2>3. CacheInv'
    <3>1. \A w \in DOMAIN vendors' : vendors'[w] = FindVendor(w)' /\ vendors'[w] # 0
      BY <1>6, VendorLookup, SearchesKept DEF LookupSubsysVendor, Inv
    <3>2. \A w \in DOMAIN vendors : w \in DOMAIN vendors' /\ vendors'[w] = vendors[w]
      BY <1>6, VendorLookup DEF LookupSubsysVendor, Inv
    <3>3. \A k \in DOMAIN devs : FindDevice(k[1], k[2])' = FindDevice(k[1], k[2])
      BY <1>6, <3>2 DEF LookupSubsysVendor, Inv, CacheInv, FindDevice, Find
    <3> QED  BY <1>6, <3>1, <3>2, <3>3 DEF LookupSubsysVendor, Inv, CacheInv
  <2>4. \A d \in DOMAIN names : NamesInv(d)'
    BY <1>6, <2>2, SearchesKept DEF LookupSubsysVendor, Inv, NamesInv
  <2> QED  BY <1>6, <2>2, <2>3, <2>4, SearchesKept DEF LookupSubsysVendor, Inv
<1>7. CASE UNCHANGED vars
  <2>1. CacheInv'
    BY <1>7, CacheKept DEF vars, Inv
  <2>2. \A d \in DOMAIN names : NamesInv(d)'
    BY <1>7, SearchesKept DEF vars, Inv, NamesInv
  <2> QED  BY <1>7, <2>1, <2>2, SearchesKept DEF vars, Inv
<1> QED  BY <1>1, <1>2, <1>3, <1>4, <1>5, <1>6, <1>7 DEF Next

\* The invariant holds in every reachable state.
THEOREM Invariance == Spec => []Inv
BY InitInv, NextInv, PTL DEF Spec

\* The caches and the names only ever hold lines of the text, of the right kind.
THEOREM TypeCorrectness == Spec => []TypeOK
<1>1. Inv => TypeOK
  <2> SUFFICES ASSUME Inv PROVE TypeOK
    OBVIOUS
  <2>1. \A v \in DOMAIN vendors : /\ vendors[v] \in DOMAIN db
                                  /\ db[vendors[v]].kind = "vendor"
                                  /\ db[vendors[v]].id = v
    BY FindFinds DEF Inv, CacheInv, FindVendor
  <2>2. \A k \in DOMAIN devs : /\ devs[k] \in DOMAIN db
                               /\ db[devs[k]].kind = "device"
                               /\ db[devs[k]].id = k[2]
                               /\ k[1] \in DOMAIN vendors
    BY FindFinds DEF Inv, CacheInv, FindDevice
  <2>3. \A d \in DOMAIN names, t \in NameTypes : names[d][t] \in {0} \cup DOMAIN db
    BY DEF Inv
  <2> QED  BY <2>1, <2>2, <2>3 DEF Inv, TypeOK
<1> QED  BY <1>1, Invariance, PTL

\* For every text and every set of devices: the vendor and device names of a device
\* are those a parser with empty caches would find.
THEOREM CacheTransparency == Spec => []CacheTransparent
<1>1. Inv => CacheTransparent
  BY DEF Inv, NamesInv, FreshDevice, CacheTransparent, Parsed
<1> QED  BY <1>1, Invariance, PTL

-----------------------------------------------------------------------------
(***************************************************************************)
(* What the searches find, said of the text: the nearest entry above with  *)
(* fewer tabs is the one an entry belongs to.                              *)
(***************************************************************************)

\* A search that is given up at a limit finds the first line before the limit.
LEMMA FirstBelow ==
  ASSUME NEW S \in SUBSET (Nat \ {0}), NEW l \in Nat
  PROVE  (IF First(S) < l THEN First(S) ELSE 0) = First({i \in S : i < l})
<1> DEFINE T == {i \in S : i < l}
<1>1. S \in SUBSET Nat /\ T \in SUBSET Nat
  OBVIOUS
<1>2. /\ S = {} => First(S) = 0
      /\ S # {} => First(S) \in S /\ \A j \in S : First(S) <= j
  BY <1>1, FirstIsLeast
<1>3. /\ T = {} => First(T) = 0
      /\ T # {} => First(T) \in T /\ \A j \in T : First(T) <= j
  BY <1>1, FirstIsLeast
<1>4. CASE T = {}
  <2>1. S # {} => ~(First(S) < l)
    BY <1>2, <1>4
  <2>2. QED
    BY <1>2, <1>3, <1>4, <2>1
<1>5. CASE T # {}
  <2>1. First(T) \in T
    BY <1>3, <1>5
  <2>2. First(T) \in S /\ First(T) < l
    BY <2>1
  <2>3. First(S) \in S /\ First(S) <= First(T)
    BY <1>2, <2>2
  <2>4. First(S) \in Nat /\ First(T) \in Nat
    BY <1>1, <2>2, <2>3
  <2>5. First(S) < l
    BY <2>2, <2>3, <2>4
  <2>6. First(S) \in T
    BY <2>3, <2>5
  <2>7. First(S) = First(T)
    BY <1>3, <2>3, <2>4, <2>6
  <2>8. QED
    BY <2>5, <2>7
<1>6. QED
  BY <1>4, <1>5

\* The classes come last, and each line's kind says how it is indented.
LEMMA ClassLines ==
  ASSUME WellFormed(db)
  PROVE  /\ Len(db) \in Nat /\ DOMAIN db = 1..Len(db) /\ ClassBlock \in DOMAIN db
         /\ \A i \in DOMAIN db : db[i].kind = "class" => ClassBlock <= i
         /\ \A i \in DOMAIN db : ClassBlock <= i =>
              db[i].kind \in {"class", "subclass", "progif"}
<1>1. Len(db) \in Nat /\ DOMAIN db = 1..Len(db)
  BY DEF WellFormed
<1>2. PICK c \in DOMAIN db :
        /\ db[c].kind = "class" /\ db[c].id = 0
        /\ \A i \in 1 .. c-1 : db[i].kind \in {"comment", "vendor", "device", "subsys"}
        /\ \A i \in c .. Len(db) : db[i].kind \in {"class", "subclass", "progif"}
        /\ \A i \in c+1 .. Len(db) : ~(db[i].kind = "class" /\ db[i].id = 0)
  BY DEF WellFormed
<1>3. \A j \in DOMAIN db : db[j].kind = "class" /\ db[j].id = 0 => j <= c
  BY <1>1, <1>2
<1>4. ClassBlock = c
  <2>1. /\ ClassBlock \in DOMAIN db /\ db[ClassBlock].kind = "class" /\ db[ClassBlock].id = 0
        /\ \A j \in DOMAIN db : db[j].kind = "class" /\ db[j].id = 0 => j <= ClassBlock
    BY <1>2, <1>3 DEF ClassBlock
  <2>2. QED
    BY <1>1, <1>2, <1>3, <2>1
<1>5. QED
  BY <1>1, <1>2, <1>4

\* How the lines of the class block are indented.
LEMMA ClassTabs ==
  ASSUME NEW line, line.kind \in {"class", "subclass", "progif"}
  PROVE  /\ Tabs(line) \in Nat /\ Tabs(line) <= 2 /\ line.kind # "comment"
         /\ Tabs(line) = 0 <=> line.kind = "class"
         /\ Tabs(line) = 1 <=> line.kind = "subclass"
         /\ Tabs(line) = 2 <=> line.kind = "progif"
BY DEF Tabs

\* The class is the one of the text.
LEMMA ClassIsTop ==
  ASSUME WellFormed(db), NEW id
  PROVE  Find("class", id, ClassBlock) = Top("class", id)
<1>1. {i \in DOMAIN db : i >= ClassBlock /\ db[i].kind = "class" /\ db[i].id = id}
        = {i \in DOMAIN db : db[i].kind = "class" /\ db[i].id = id}
  BY ClassLines
<1>2. QED
  BY <1>1 DEF Find, Top

\* The limit of a class is the next one.
LEMMA ClassLimitIsNext ==
  ASSUME WellFormed(db), NEW c \in DOMAIN db
  PROVE  /\ ClassLimit(c) \in Nat /\ c < ClassLimit(c) /\ ClassLimit(c) <= Len(db) + 1
         /\ \A i \in DOMAIN db : c < i /\ i < ClassLimit(c) => db[i].kind # "class"
         /\ ClassLimit(c) \in DOMAIN db => db[ClassLimit(c)].kind = "class"
<1> DEFINE S == {i \in DOMAIN db : i > c /\ db[i].kind = "class"}
<1>1. Len(db) \in Nat /\ DOMAIN db = 1..Len(db) /\ S \in SUBSET Nat
  BY ClassLines
<1>2. /\ S = {} => First(S) = 0
      /\ S # {} => First(S) \in S /\ \A j \in S : First(S) <= j
  BY <1>1, FirstIsLeast
<1>3. ClassLimit(c) = IF First(S) = 0 THEN Len(db) + 1 ELSE First(S)
  BY DEF ClassLimit, OrEnd
<1>4. CASE S = {}
  <2>1. ClassLimit(c) = Len(db) + 1
    BY <1>2, <1>3, <1>4
  <2>2. QED
    BY <1>1, <1>4, <2>1
<1>5. CASE S # {}
  <2>1. First(S) \in S /\ \A j \in S : First(S) <= j
    BY <1>2, <1>5
  <2>2. ClassLimit(c) = First(S) /\ First(S) \in 1..Len(db)
    BY <1>1, <1>3, <2>1
  <2>3. c < First(S) /\ db[First(S)].kind = "class"
    BY <2>1
  <2>4. ASSUME NEW i \in DOMAIN db, c < i, i < First(S) PROVE db[i].kind # "class"
    <3>1. i \notin S
      <4>1. SUFFICES ASSUME i \in S PROVE FALSE
        OBVIOUS
      <4>2. First(S) <= i
        BY <2>1, <4>1
      <4>3. First(S) \in Nat /\ i \in Nat
        BY <1>1, <2>2
      <4>4. QED
        BY <2>4, <4>2, <4>3
    <3>2. QED
      BY <2>4, <3>1
  <2>5. QED
    BY <1>1, <2>2, <2>3, <2>4
<1>6. QED
  BY <1>4, <1>5

\* A subclass before the limit of a class is listed below it, and no other is.
LEMMA SubclassParent ==
  ASSUME WellFormed(db), NEW c \in DOMAIN db, db[c].kind = "class",
         NEW i \in DOMAIN db, db[i].kind = "subclass"
  PROVE  IsParent(c, i) <=> c < i /\ i < ClassLimit(c)
<1>1. /\ Len(db) \in Nat /\ DOMAIN db = 1..Len(db)
      /\ \A j \in c..Len(db) : db[j].kind \in {"class", "subclass", "progif"}
  BY ClassLines
<1>2. Tabs(db[c]) = 0 /\ db[c].kind # "comment" /\ Tabs(db[i]) = 1
  BY ClassTabs
<1>3. \A j \in c+1..i-1 : /\ j \in DOMAIN db /\ Tabs(db[j]) \in Nat /\ db[j].kind # "comment"
                          /\ Tabs(db[j]) = 0 <=> db[j].kind = "class"
  BY <1>1, ClassTabs
<1>4. /\ ClassLimit(c) \in Nat /\ c < ClassLimit(c) /\ ClassLimit(c) <= Len(db) + 1
      /\ \A j \in DOMAIN db : c < j /\ j < ClassLimit(c) => db[j].kind # "class"
      /\ ClassLimit(c) \in DOMAIN db => db[ClassLimit(c)].kind = "class"
  BY ClassLimitIsNext
<1>5. IsParent(c, i) <=> c < i /\ \A j \in c+1..i-1 : db[j].kind # "class"
  BY <1>2, <1>3 DEF IsParent
<1>6. ASSUME c < i, i < ClassLimit(c) PROVE \A j \in c+1..i-1 : db[j].kind # "class"
  BY <1>1, <1>4, <1>6
<1>7. ASSUME c < i, ~(i < ClassLimit(c)) PROVE \E j \in c+1..i-1 : db[j].kind = "class"
  <2>1. ClassLimit(c) \in DOMAIN db /\ ClassLimit(c) # i
    BY <1>1, <1>4, <1>7
  <2>2. ClassLimit(c) \in c+1..i-1
    BY <1>1, <1>4, <1>7, <2>1
  <2>3. QED
    BY <1>4, <2>1, <2>2
<1>8. QED
  BY <1>5, <1>6, <1>7

\* The subclass found below a class is the one the text lists there.
LEMMA SubclassIsEntry ==
  ASSUME WellFormed(db), NEW c \in DOMAIN db, db[c].kind = "class", NEW id
  PROVE  SubclassName(c, id) = Entry(c, "subclass", id)
<1> DEFINE S == {i \in DOMAIN db : i >= c + 1 /\ db[i].kind = "subclass" /\ db[i].id = id}
<1>1. Len(db) \in Nat /\ DOMAIN db = 1..Len(db) /\ S \in SUBSET (Nat \ {0})
  BY ClassLines
<1>2. ClassLimit(c) \in Nat
  BY ClassLimitIsNext
<1>3. SubclassName(c, id) = First({i \in S : i < ClassLimit(c)})
  BY <1>1, <1>2, FirstBelow DEF SubclassName, Find
<1>4. {i \in S : i < ClassLimit(c)}
        = {i \in DOMAIN db : /\ db[i].kind = "subclass" /\ db[i].id = id
                             /\ c # 0 /\ IsParent(c, i)}
  BY <1>1, SubclassParent
<1>5. QED
  BY <1>3, <1>4 DEF Entry

\* The limit of a subclass: no line with one tab lies before it, and none with two lies
\* behind the class and before it; the limit itself is such a line, or the end.
LEMMA SubclassLimitIsNext ==
  ASSUME WellFormed(db), NEW c \in DOMAIN db, NEW s \in DOMAIN db
  PROVE  /\ SubclassLimit(c, s) \in Nat /\ s < SubclassLimit(c, s)
         /\ SubclassLimit(c, s) <= Len(db) + 1
         /\ \A i \in DOMAIN db :
              s < i /\ Tabs(db[i]) > 0 /\ (Tabs(db[i]) = 1 \/ i > ClassLimit(c)) =>
                SubclassLimit(c, s) <= i
         /\ SubclassLimit(c, s) \in DOMAIN db =>
              /\ Tabs(db[SubclassLimit(c, s)]) > 0
              /\ Tabs(db[SubclassLimit(c, s)]) = 1 \/ SubclassLimit(c, s) > ClassLimit(c)
<1> DEFINE S == {i \in DOMAIN db : i > s /\ Tabs(db[i]) > 0
                                     /\ (Tabs(db[i]) = 1 \/ i > ClassLimit(c))}
<1>1. Len(db) \in Nat /\ DOMAIN db = 1..Len(db) /\ S \in SUBSET Nat
  BY ClassLines
<1>2. /\ S = {} => First(S) = 0
      /\ S # {} => First(S) \in S /\ \A j \in S : First(S) <= j
  BY <1>1, FirstIsLeast
<1>3. SubclassLimit(c, s) = IF First(S) = 0 THEN Len(db) + 1 ELSE First(S)
  BY DEF SubclassLimit, OrEnd
<1>4. CASE S = {}
  <2>1. SubclassLimit(c, s) = Len(db) + 1
    BY <1>2, <1>3, <1>4
  <2>2. QED
    BY <1>1, <1>4, <2>1
<1>5. CASE S # {}
  <2>1. First(S) \in S /\ \A j \in S : First(S) <= j
    BY <1>2, <1>5
  <2>2. SubclassLimit(c, s) = First(S) /\ First(S) \in 1..Len(db)
    BY <1>1, <1>3, <2>1
  <2>3. QED
    BY <1>1, <2>1, <2>2
<1>6. QED
  BY <1>4, <1>5

\* A programming interface before the limit of a subclass is listed below it.
LEMMA ProgIfaceParent ==
  ASSUME WellFormed(db), NEW c \in DOMAIN db, db[c].kind = "class",
         NEW s \in DOMAIN db, db[s].kind = "subclass", c < s, s < ClassLimit(c),
         NEW i \in DOMAIN db, db[i].kind = "progif"
  PROVE  IsParent(s, i) <=> s < i /\ i < SubclassLimit(c, s)
<1> DEFINE l == SubclassLimit(c, s)
           n == ClassLimit(c)
<1>1. /\ Len(db) \in Nat /\ DOMAIN db = 1..Len(db)
      /\ \A j \in c..Len(db) : db[j].kind \in {"class", "subclass", "progif"}
  BY ClassLines
<1>2. Tabs(db[s]) = 1 /\ db[s].kind # "comment" /\ Tabs(db[i]) = 2
  BY ClassTabs
<1>3. \A j \in DOMAIN db : s < j =>
        /\ Tabs(db[j]) \in Nat /\ Tabs(db[j]) <= 2 /\ db[j].kind # "comment"
        /\ Tabs(db[j]) = 0 <=> db[j].kind = "class"
  BY <1>1, ClassTabs
<1>4. /\ n \in Nat /\ n <= Len(db) + 1
      /\ \A j \in DOMAIN db : c < j /\ j < n => db[j].kind # "class"
      /\ n \in DOMAIN db => db[n].kind = "class"
  BY ClassLimitIsNext
<1>5. /\ l \in Nat /\ s < l /\ l <= Len(db) + 1
      /\ \A j \in DOMAIN db : s < j /\ Tabs(db[j]) > 0 /\ (Tabs(db[j]) = 1 \/ j > n) => l <= j
      /\ l \in DOMAIN db => Tabs(db[l]) > 0 /\ (Tabs(db[l]) = 1 \/ l > n)
  BY SubclassLimitIsNext
<1> HIDE DEF l, n
<1>6. n \in DOMAIN db => s < n /\ Tabs(db[n]) = 0
  BY <1>3, <1>4 DEF n
<1>7. IsParent(s, i) <=> s < i /\ \A j \in s+1..i-1 : Tabs(db[j]) >= 2
  BY <1>1, <1>2, <1>3 DEF IsParent
<1>8. ASSUME s < i, i < l, NEW j \in s+1..i-1 PROVE Tabs(db[j]) >= 2
  <2>1. j \in DOMAIN db /\ s < j /\ j < l /\ Tabs(db[j]) \in Nat
    BY <1>1, <1>3, <1>5, <1>8
  <2>2. Tabs(db[j]) # 1
    BY <1>5, <2>1
  <2>3. Tabs(db[j]) # 0
    <3>1. SUFFICES ASSUME Tabs(db[j]) = 0 PROVE FALSE
      OBVIOUS
    <3>2. db[j].kind = "class" /\ n <= j
      BY <1>1, <1>3, <1>4, <2>1, <3>1
    <3>3. i > n
      BY <1>1, <1>4, <3>2
    <3>4. l <= i
      BY <1>2, <1>5, <1>8, <3>3
    <3>5. QED
      BY <1>1, <1>5, <1>8, <3>4
  <2>4. QED
    BY <2>1, <2>2, <2>3
<1>9. ASSUME s < i, ~(i < l) PROVE \E j \in s+1..i-1 : ~(Tabs(db[j]) >= 2)
  <2>1. l \in DOMAIN db /\ l <= i /\ s < l
    BY <1>1, <1>5, <1>9
  <2>2. CASE Tabs(db[l]) = 1
    <3>1. l \in s+1..i-1
      BY <1>1, <1>2, <2>1, <2>2
    <3>2. QED
      BY <2>2, <3>1
  <2>3. CASE l > n
    <3>1. n \in DOMAIN db
      BY <1>1, <1>4, <2>1, <2>3 DEF n
    <3>2. n \in s+1..i-1 /\ Tabs(db[n]) = 0
      BY <1>1, <1>4, <1>6, <2>1, <2>3, <3>1
    <3>3. QED
      BY <3>2
  <2>4. QED
    BY <1>5, <2>1, <2>2, <2>3
<1>10. QED
  BY <1>7, <1>8, <1>9 DEF l

\* The programming interface found below a subclass is the one the text lists there.
LEMMA ProgIfaceIsEntry ==
  ASSUME WellFormed(db), NEW c \in DOMAIN db, db[c].kind = "class",
         NEW s \in DOMAIN db, db[s].kind = "subclass", c < s, s < ClassLimit(c), NEW id
  PROVE  ProgIfaceName(c, s, id) = Entry(s, "progif", id)
<1> DEFINE S == {i \in DOMAIN db : i >= s + 1 /\ db[i].kind = "progif" /\ db[i].id = id}
<1>1. Len(db) \in Nat /\ DOMAIN db = 1..Len(db) /\ S \in SUBSET (Nat \ {0})
  BY ClassLines
<1>2. SubclassLimit(c, s) \in Nat
  BY SubclassLimitIsNext
<1>3. ProgIfaceName(c, s, id) = First({i \in S : i < SubclassLimit(c, s)})
  BY <1>1, <1>2, FirstBelow DEF ProgIfaceName, Find
<1>4. {i \in S : i < SubclassLimit(c, s)}
        = {i \in DOMAIN db : /\ db[i].kind = "progif" /\ db[i].id = id
                             /\ s # 0 /\ IsParent(s, i)}
  BY <1>1, ProgIfaceParent
<1>5. QED
  BY <1>3, <1>4 DEF Entry

\* Nothing is listed below no line.
LEMMA NoEntry ==
  ASSUME NEW kind, NEW id
  PROVE  Entry(0, kind, id) = 0
<1>1. {i \in DOMAIN db : db[i].kind = kind /\ db[i].id = id /\ 0 # 0 /\ IsParent(0, i)} = {}
  OBVIOUS
<1>2. QED
  BY <1>1 DEF Entry, First

\* A line that is found is not before the one the search starts from.
LEMMA FoundFrom ==
  ASSUME WellFormed(db), NEW kind, NEW id, NEW from, Find(kind, id, from) # 0
  PROVE  Find(kind, id, from) >= from
<1> DEFINE S == {i \in DOMAIN db : i >= from /\ db[i].kind = kind /\ db[i].id = id}
<1>1. First(S) \in S \cup {0}
  BY FirstIsOne, ClassLines
<1>2. QED
  BY <1>1 DEF Find

\* The names of a class code are those the text lists one below the other.
LEMMA ClassInfoListed ==
  ASSUME WellFormed(db), NEW cc
  PROVE  LET c == Top("class", cc[1])
             s == Entry(c, "subclass", cc[2])
         IN  /\ ClassInfo(ClassBlock, cc).CLASS = c
             /\ ClassInfo(ClassBlock, cc).SUBCLASS = s
             /\ ClassInfo(ClassBlock, cc).PROG_IFACE = Entry(s, "progif", cc[3])
<1> DEFINE c == Find("class", cc[1], ClassBlock)
           s == IF c = 0 THEN 0 ELSE SubclassName(c, cc[2])
           p == IF s = 0 THEN 0 ELSE ProgIfaceName(c, s, cc[3])
<1>1. ClassInfo(ClassBlock, cc) = [CLASS |-> c, SUBCLASS |-> s, PROG_IFACE |-> p]
  BY DEF ClassInfo
<1>2. c = Top("class", cc[1])
  BY ClassIsTop
<1>3. c # 0 => c \in DOMAIN db /\ db[c].kind = "class"
  BY FindFinds
<1>4. s = Entry(c, "subclass", cc[2])
  <2>1. CASE c = 0
    BY <2>1, NoEntry
  <2>2. CASE c # 0
    <3>1. SubclassName(c, cc[2]) = Entry(c, "subclass", cc[2])
      BY <1>3, <2>2, SubclassIsEntry
    <3>2. QED
      BY <2>2, <3>1
  <2>3. QED
    BY <2>1, <2>2
<1>5. s # 0 => /\ c # 0 /\ s \in DOMAIN db /\ db[s].kind = "subclass"
               /\ s >= c + 1 /\ s < ClassLimit(c)
  <2>1. SUFFICES ASSUME s # 0
                 PROVE  /\ c # 0 /\ s \in DOMAIN db /\ db[s].kind = "subclass"
                        /\ s >= c + 1 /\ s < ClassLimit(c)
    OBVIOUS
  <2>2. c # 0 /\ s = Find("subclass", cc[2], c + 1) /\ s < ClassLimit(c)
    BY <2>1 DEF SubclassName
  <2>3. QED
    BY <2>1, <2>2, FindFinds, FoundFrom
<1>6. p = Entry(s, "progif", cc[3])
  <2>1. CASE s = 0
    BY <2>1, NoEntry
  <2>2. CASE s # 0
    <3>1. c < s
      BY <1>3, <1>5, <2>2, ClassLines
    <3>2. ProgIfaceName(c, s, cc[3]) = Entry(s, "progif", cc[3])
      BY <1>3, <1>5, <2>2, <3>1, ProgIfaceIsEntry
    <3>3. QED
      BY <2>2, <3>2
  <2>3. QED
    BY <2>1, <2>2
<1> HIDE DEF c, s, p
<1>7. QED
  BY <1>1, <1>2, <1>4, <1>6

\* How lines are indented.
LEMMA AnyTabs ==
  ASSUME NEW line
  PROVE  /\ Tabs(line) \in {0, 1, 2}
         /\ line.kind \in {"comment", "vendor"} => Tabs(line) = 0
         /\ line.kind = "device" => Tabs(line) = 1
         /\ line.kind = "subsys" => Tabs(line) = 2
BY DEF Tabs

\* The search for a subsystem finds the one the text lists below the device, unless a
\* comment comes first.
LEMMA SubsysListed ==
  ASSUME WellFormed(db), NEW x \in DOMAIN db, db[x].kind = "device", NEW id
  PROVE  LET e == Entry(x, "subsys", id)
         IN  First({i \in SubsysBlock(x) : db[i].kind = "subsys" /\ db[i].id = id})
               = IF \E i \in x+1..e : db[i].kind = "comment" THEN 0 ELSE e
<1> DEFINE block == {i \in SubsysBlock(x) : db[i].kind = "subsys" /\ db[i].id = id}
           below == {i \in DOMAIN db : /\ db[i].kind = "subsys" /\ db[i].id = id
                                       /\ x # 0 /\ IsParent(x, i)}
           e == First(below)
<1>1. Len(db) \in Nat /\ DOMAIN db = 1..Len(db)
  BY ClassLines
<1>2. block \in SUBSET DOMAIN db /\ block \in SUBSET Nat /\ below \in SUBSET Nat
  BY <1>1 DEF SubsysBlock
<1>3. /\ block = {} => First(block) = 0
      /\ block # {} => First(block) \in block /\ \A j \in block : First(block) <= j
  BY <1>2, FirstIsLeast
<1>4. /\ below = {} => e = 0
      /\ below # {} => e \in below /\ \A j \in below : e <= j
  BY <1>2, FirstIsLeast
<1>5. Tabs(db[x]) = 1 /\ db[x].kind # "comment"
  BY AnyTabs
<1>6. ASSUME NEW i \in block
      PROVE  i \in below /\ \A j \in x+1..i : db[j].kind # "comment"
  <2>1. /\ i \in DOMAIN db /\ x < i /\ db[i].kind = "subsys" /\ db[i].id = id
        /\ \A j \in x+1..i : Tabs(db[j]) = 2
    BY <1>1, <1>6 DEF SubsysBlock
  <2>2. Tabs(db[i]) = 2 /\ \A j \in x+1..i-1 : j \in x+1..i
    BY <1>1, <2>1, AnyTabs
  <2>3. IsParent(x, i)
    BY <1>5, <2>1, <2>2 DEF IsParent
  <2>4. \A j \in x+1..i : db[j].kind # "comment"
    BY <2>1, AnyTabs
  <2>5. QED
    BY <1>1, <2>1, <2>3, <2>4
<1>7. ASSUME NEW i \in below, ~\E j \in x+1..i : db[j].kind = "comment"
      PROVE  i \in block
  <2>1. i \in DOMAIN db /\ db[i].kind = "subsys" /\ db[i].id = id /\ IsParent(x, i)
    BY <1>7
  <2>2. Tabs(db[i]) = 2 /\ x < i
    BY <2>1, AnyTabs DEF IsParent
  <2>3. ASSUME NEW j \in x+1..i PROVE Tabs(db[j]) = 2
    <3>1. CASE j = i
      BY <2>2, <3>1
    <3>2. CASE j # i
      <4>1. j \in x+1..i-1
        BY <1>1, <2>1, <3>2
      <4>2. Tabs(db[j]) >= 2
        BY <1>7, <2>1, <2>2, <4>1 DEF IsParent
      <4>3. QED
        BY <4>2, AnyTabs
    <3>3. QED
      BY <3>1, <3>2
  <2>4. QED
    BY <2>1, <2>2, <2>3 DEF SubsysBlock
<1> HIDE DEF block, below
<1>8. First(block) = IF \E i \in x+1..e : db[i].kind = "comment" THEN 0 ELSE e
  <2>1. CASE below = {}
    <3>1. block = {} /\ e = 0 /\ x+1..e = {}
      BY <1>1, <1>4, <1>6, <2>1
    <3>2. QED
      BY <1>3, <3>1
  <2>2. CASE below # {} /\ \E i \in x+1..e : db[i].kind = "comment"
    <3>1. block = {}
      <4>1. SUFFICES ASSUME NEW i \in block PROVE FALSE
        OBVIOUS
      <4>2. e \in Nat /\ i \in Nat /\ e <= i
        BY <1>2, <1>4, <1>6, <2>2
      <4>3. x+1..e \subseteq x+1..i
        BY <1>1, <4>2
      <4>4. QED
        BY <1>6, <2>2, <4>3
    <3>2. QED
      BY <1>3, <2>2, <3>1
  <2>3. CASE below # {} /\ ~\E i \in x+1..e : db[i].kind = "comment"
    <3>1. e \in below /\ e \in block
      BY <1>4, <1>7, <2>3
    <3>2. First(block) \in block /\ First(block) <= e
      BY <1>3, <3>1
    <3>3. e <= First(block)
      BY <1>4, <1>6, <3>1, <3>2
    <3>4. e \in Nat /\ First(block) \in Nat
      BY <1>2, <3>1, <3>2
    <3>5. QED
      BY <2>3, <3>2, <3>3, <3>4
  <2>4. QED
    BY <2>1, <2>2, <2>3
<1>9. e = Entry(x, "subsys", id)
  BY DEF Entry, below
<1>10. QED
  BY <1>8, <1>9 DEF block

\* The first line is a comment.
LEMMA VendorIsTop ==
  ASSUME WellFormed(db), NEW v
  PROVE  FindVendor(v) = Top("vendor", v)
<1>1. Len(db) \in Nat /\ DOMAIN db = 1..Len(db) /\ db[1].kind = "comment"
  BY ClassLines DEF WellFormed
<1>2. {i \in DOMAIN db : i >= 2 /\ db[i].kind = "vendor" /\ db[i].id = v}
        = {i \in DOMAIN db : db[i].kind = "vendor" /\ db[i].id = v}
  BY <1>1
<1>3. QED
  BY <1>2 DEF FindVendor, Find, Top

\* A device listed below its vendor is found, if it is not on the line after it.
LEMMA DeviceListed ==
  ASSUME WellFormed(db), NEW v \in DOMAIN db, db[v].kind = "vendor", NEW id,
         Entry(v, "device", id) > v + 1
  PROVE  Find("device", id, v + 2) = Entry(v, "device", id)
<1> DEFINE below == {i \in DOMAIN db : /\ db[i].kind = "device" /\ db[i].id = id
                                       /\ v # 0 /\ IsParent(v, i)}
           found == {i \in DOMAIN db : i >= v + 2 /\ db[i].kind = "device" /\ db[i].id = id}
           x == First(below)
           f == First(found)
<1>1. /\ Len(db) \in Nat /\ DOMAIN db = 1..Len(db)
      /\ below \in SUBSET Nat /\ found \in SUBSET Nat
  BY ClassLines
<1>2. x = Entry(v, "device", id) /\ f = Find("device", id, v + 2)
  BY DEF Entry, Find
<1>3. below # {} /\ x \in below /\ \A j \in below : x <= j
  BY <1>1, <1>2, FirstIsLeast
<1>4. x \in DOMAIN db /\ db[x].kind = "device" /\ db[x].id = id /\ IsParent(v, x) /\ x > v + 1
  BY <1>2, <1>3
<1>5. x \in found
  BY <1>1, <1>4
<1>6. f \in found /\ f <= x
  BY <1>1, <1>5, FirstIsLeast
<1>7. f \in DOMAIN db /\ f >= v + 2 /\ db[f].kind = "device" /\ db[f].id = id
  BY <1>6
<1> HIDE DEF x, f, below, found
<1>8. IsParent(v, f)
  <2>1. Tabs(db[v]) = 0 /\ Tabs(db[f]) = 1 /\ Tabs(db[x]) = 1 /\ db[v].kind # "comment"
    BY <1>4, <1>7, AnyTabs
  <2>2. v < f /\ v+1..f-1 \subseteq v+1..x-1
    BY <1>1, <1>4, <1>6, <1>7
  <2>3. \A j \in v+1..x-1 : Tabs(db[j]) >= 1 \/ db[j].kind = "comment"
    BY <1>4, <2>1 DEF IsParent
  <2>4. QED
    BY <2>1, <2>2, <2>3 DEF IsParent
<1>9. f \in below
  BY <1>1, <1>7, <1>8 DEF below
<1>10. f = x
  BY <1>1, <1>3, <1>4, <1>6, <1>7, <1>9
<1>11. QED
  BY <1>2, <1>10

-----------------------------------------------------------------------------
(***************************************************************************)
(* The remaining names of a device, and the properties.                    *)
(***************************************************************************)

\* The subsystem of the device d, found from the line of the device.
FreshSubsys(d) ==
  IF FreshDevice(d) = 0 THEN 0
  ELSE First({i \in SubsysBlock(FreshDevice(d)) : db[i].kind = "subsys" /\ db[i].id = d.subsys})

\* The lookups of d are still to come from one of these calls on.
Before(d, calls) == d \in pending \/ (d = dev /\ call \in calls)

\* Which of the other lookups have been made for d, and their results.
ListingInv(d) ==
  /\ ~Before(d, {"vendor", "device", "class"}) =>
       /\ names[d].CLASS = ClassInfo(ClassBlock, d.cc).CLASS
       /\ names[d].SUBCLASS = ClassInfo(ClassBlock, d.cc).SUBCLASS
       /\ names[d].PROG_IFACE = ClassInfo(ClassBlock, d.cc).PROG_IFACE
  /\ ~Before(d, {"vendor", "device", "class", "subsys"}) /\ d.type0 =>
       names[d].SUBSYS_NAME = FreshSubsys(d)
  /\ names[d].SUBSYS_VENDOR =
       IF ~Before(d, {"vendor", "device", "class", "subsys", "subsys_vendor"})
            /\ d.type0 /\ FreshSubsys(d) = 0
       THEN FindVendor(d.subsys[1]) ELSE 0

\* The device whose subsystem is to be looked up is cached if the text lists it.
TextInv ==
  /\ call \in {"class", "subsys", "subsys_vendor"} /\ FreshDevice(dev) # 0 =>
       dev.vid \in DOMAIN vendors /\ <<dev.vid, dev.id>> \in DOMAIN devs
  /\ call \in {"subsys", "subsys_vendor"} => dev.type0
  /\ call = "subsys_vendor" => FreshSubsys(dev) = 0
  /\ \A d \in DOMAIN names : ListingInv(d)

LEMMA TextInit == Init => TextInv
<1> SUFFICES ASSUME Init PROVE TextInv
  OBVIOUS
<1>1. call = "none" /\ DOMAIN names = pending /\ \A d \in DOMAIN names : names[d] = None
  BY DEF Init
<1>2. \A d \in DOMAIN names : ListingInv(d)
  BY <1>1 DEF ListingInv, Before, None, NameTypes
<1>3. QED
  BY <1>1, <1>2 DEF TextInv

\* Nothing the text says changes.
LEMMA TextKept ==
  ASSUME db' = db
  PROVE  /\ \A v : FindVendor(v)' = FindVendor(v)
         /\ \A d : FreshDevice(d)' = FreshDevice(d)
         /\ \A d : FreshSubsys(d)' = FreshSubsys(d)
         /\ \A cc : ClassInfo(ClassBlock, cc)' = ClassInfo(ClassBlock, cc)
<1>1. \A kind, id, from : Find(kind, id, from)' = Find(kind, id, from)
  BY DEF Find
<1>2. \A d : FreshDevice(d)' = FreshDevice(d)
  BY SearchesKept
<1>3. \A x : SubsysBlock(x)' = SubsysBlock(x)
  BY DEF SubsysBlock
<1>4. \A d : FreshSubsys(d)' = FreshSubsys(d)
  BY <1>2, <1>3 DEF FreshSubsys
<1>5. ClassBlock' = ClassBlock
  BY SearchesKept
<1>6. \A c : ClassLimit(c)' = ClassLimit(c)
  BY DEF ClassLimit, OrEnd
<1>7. \A c, s : SubclassLimit(c, s)' = SubclassLimit(c, s)
  BY <1>6 DEF SubclassLimit, OrEnd
<1>8. \A c, id : SubclassName(c, id)' = SubclassName(c, id)
  BY <1>1, <1>6 DEF SubclassName
<1>9. \A c, s, id : ProgIfaceName(c, s, id)' = ProgIfaceName(c, s, id)
  BY <1>1, <1>7 DEF ProgIfaceName
<1>10. \A cc : ClassInfo(ClassBlock, cc)' = ClassInfo(ClassBlock, cc)
  BY <1>1, <1>5, <1>8, <1>9 DEF ClassInfo
<1>11. QED
  BY <1>2, <1>4, <1>10, SearchesKept

\* What the subsystem lookup of the device gives.
LEMMA SubsysLookup ==
  ASSUME Inv, TextInv, call = "subsys"
  PROVE  SubsysName(dev.vid, dev.id, dev.subsys) = FreshSubsys(dev)
<1>1. CASE FreshDevice(dev) = 0
  <2>1. ~(dev.vid \in DOMAIN vendors /\ <<dev.vid, dev.id>> \in DOMAIN devs)
    <3>1. SUFFICES ASSUME dev.vid \in DOMAIN vendors, <<dev.vid, dev.id>> \in DOMAIN devs
                   PROVE  FALSE
      OBVIOUS
    <3>2. /\ vendors[dev.vid] = FindVendor(dev.vid) /\ vendors[dev.vid] # 0
          /\ FindDevice(dev.vid, dev.id) # 0
      BY <3>1 DEF Inv, CacheInv
    <3>3. QED
      BY <1>1, <3>2 DEF FreshDevice, FindDevice
  <2>2. QED
    BY <1>1, <2>1 DEF SubsysName, FreshSubsys
<1>2. CASE FreshDevice(dev) # 0
  <2>1. dev.vid \in DOMAIN vendors /\ <<dev.vid, dev.id>> \in DOMAIN devs
    BY <1>2 DEF TextInv
  <2>2. /\ vendors[dev.vid] = FindVendor(dev.vid)
        /\ devs[<<dev.vid, dev.id>>] = FindDevice(dev.vid, dev.id)
    BY <2>1 DEF Inv, CacheInv
  <2>3. devs[<<dev.vid, dev.id>>] = FreshDevice(dev)
    BY <1>2, <2>2 DEF FreshDevice, FindDevice
  <2>4. QED
    BY <1>2, <2>1, <2>3 DEF SubsysName, FreshSubsys
<1>3. QED
  BY <1>1, <1>2

\* A lookup changes the names of the device it is made for, and of no other.
LEMMA OthersKept ==
  ASSUME Inv, TextInv, db' = db, dev' = dev, pending' = pending,
         DOMAIN names' = DOMAIN names,
         \A d \in DOMAIN names \ {dev} : names'[d] = names[d], ListingInv(dev)'
  PROVE  \A d \in DOMAIN names' : ListingInv(d)'
<1>1. SUFFICES ASSUME NEW d \in DOMAIN names, d # dev PROVE ListingInv(d)'
  OBVIOUS
<1>2. ListingInv(d) /\ names'[d] = names[d]
  BY <1>1 DEF TextInv
<1>3. QED
  BY <1>1, <1>2, TextKept DEF ListingInv, Before

LEMMA TextStep == Inv /\ Inv' /\ TextInv /\ [Next]_vars => TextInv'
<1> SUFFICES ASSUME Inv, Inv', TextInv, [Next]_vars PROVE TextInv'
  OBVIOUS
<1>0. call # "none" => dev \in DOMAIN names /\ dev \notin pending /\ ListingInv(dev)
  BY DEF Inv, TextInv
<1>1. ASSUME NEW d \in pending, ParseIDs(d) PROVE TextInv'
  <2>1. /\ call = "none" /\ call' = "vendor" /\ db' = db /\ names' = names
        /\ dev' = d /\ pending' = pending \ {d}
    BY <1>1 DEF ParseIDs
  <2>2. \A e \in DOMAIN names : ListingInv(e)'
    <3>1. TAKE e \in DOMAIN names
    <3>2. ListingInv(e)
      BY DEF TextInv
    <3>3. QED
      BY <2>1, <3>2, TextKept DEF ListingInv, Before
  <2>3. QED
    BY <2>1, <2>2 DEF TextInv
<1>2. CASE LookupVendor
  <2>1. /\ call = "vendor" /\ call' = "device" /\ UNCHANGED <<db, dev, pending>>
        /\ names' = [names EXCEPT ![dev].VENDOR = VendorName(dev.vid)]
    BY <1>2 DEF LookupVendor
  <2>2. /\ DOMAIN names' = DOMAIN names
        /\ \A d \in DOMAIN names \ {dev} : names'[d] = names[d]
        /\ names'[dev].SUBSYS_VENDOR = names[dev].SUBSYS_VENDOR
    BY <1>0, <2>1 DEF Inv, NameTypes
  <2>3. ListingInv(dev)'
    BY <1>0, <2>1, <2>2, TextKept DEF ListingInv, Before
  <2>4. QED
    BY <2>1, <2>2, <2>3, OthersKept DEF TextInv
<1>3. CASE LookupDevice
  <2>1. /\ call = "device" /\ call' = "class" /\ UNCHANGED <<db, dev, pending, vendors>>
        /\ names' = [names EXCEPT ![dev].DEVICE = DeviceName(dev.vid, dev.id)]
        /\ devs' = DevsAfter(dev.vid, dev.id)
    BY <1>3 DEF LookupDevice
  <2>2. /\ DOMAIN names' = DOMAIN names
        /\ \A d \in DOMAIN names \ {dev} : names'[d] = names[d]
        /\ names'[dev].SUBSYS_VENDOR = names[dev].SUBSYS_VENDOR
    BY <1>0, <2>1 DEF Inv, NameTypes
  <2>3. ListingInv(dev)'
    BY <1>0, <2>1, <2>2, TextKept DEF ListingInv, Before
  <2>4. FreshDevice(dev) # 0 =>
          dev.vid \in DOMAIN vendors /\ <<dev.vid, dev.id>> \in DOMAIN devs'
    <3>1. SUFFICES ASSUME FreshDevice(dev) # 0
                   PROVE  dev.vid \in DOMAIN vendors /\ <<dev.vid, dev.id>> \in DOMAIN devs'
      OBVIOUS
    <3>2. FindVendor(dev.vid) # 0 /\ dev.vid \in DOMAIN vendors
      BY <2>1, <3>1 DEF FreshDevice, Inv
    <3>3. DeviceName(dev.vid, dev.id) = FreshDevice(dev)
      BY <3>2, DeviceLookup DEF Inv, FreshDevice
    <3>4. QED
      BY <2>1, <3>1, <3>2, <3>3 DEF DevsAfter, Put
  <2>5. QED
    BY <2>1, <2>2, <2>3, <2>4, OthersKept, TextKept DEF TextInv
<1>4. CASE LookupClass
  <2> DEFINE info == ClassInfo(ClassBlock, dev.cc)
  <2>1. /\ call = "class" /\ call' = (IF dev.type0 THEN "subsys" ELSE "none")
        /\ UNCHANGED <<db, dev, pending, vendors, devs>>
    BY <1>4 DEF LookupClass
  <2>2. (IF classOff = 0 THEN ClassBlock ELSE classOff) = ClassBlock
    BY DEF Inv
  <2>3. names' = [names EXCEPT ![dev].CLASS      = info.CLASS,
                               ![dev].SUBCLASS   = info.SUBCLASS,
                               ![dev].PROG_IFACE = info.PROG_IFACE]
    BY <1>4, <2>2 DEF LookupClass
  <2> HIDE DEF info
  <2>4. /\ DOMAIN names' = DOMAIN names
        /\ \A d \in DOMAIN names \ {dev} : names'[d] = names[d]
        /\ names'[dev].SUBSYS_VENDOR = names[dev].SUBSYS_VENDOR
        /\ names'[dev].CLASS = info.CLASS
        /\ names'[dev].SUBCLASS = info.SUBCLASS
        /\ names'[dev].PROG_IFACE = info.PROG_IFACE
    <3>1. dev \in DOMAIN names /\ names[dev] \in [NameTypes -> {0} \cup DOMAIN db]
      BY <1>0, <2>1 DEF Inv
    <3>2. /\ names' = [names EXCEPT ![dev] = names'[dev]]
          /\ names'[dev] = [names[dev] EXCEPT !.CLASS      = info.CLASS,
                                             !.SUBCLASS   = info.SUBCLASS,
                                             !.PROG_IFACE = info.PROG_IFACE]
      BY <2>3, <3>1
    <3>3. DOMAIN names[dev] = NameTypes
      BY <3>1
    <3>4. QED
      BY <3>1, <3>2, <3>3 DEF NameTypes
  <2>5. ClassInfo(ClassBlock, dev.cc)' = info
    BY <2>1, TextKept DEF info
  <2>6. names[dev].SUBSYS_VENDOR = 0
    BY <1>0, <2>1 DEF ListingInv, Before
  <2>7. ListingInv(dev)'
    BY <1>0, <2>1, <2>4, <2>5, <2>6, TextKept DEF ListingInv, Before
  <2>8. QED
    BY <2>1, <2>4, <2>7, OthersKept, TextKept DEF TextInv
<1>5. CASE LookupSubsys
  <2>1. /\ call = "subsys" /\ UNCHANGED <<db, dev, pending, vendors, devs>>
        /\ names' = [names EXCEPT ![dev].SUBSYS_NAME = FreshSubsys(dev)]
        /\ call' = IF FreshSubsys(dev) = 0 THEN "subsys_vendor" ELSE "none"
    BY <1>5, SubsysLookup DEF LookupSubsys
  <2>2. /\ DOMAIN names' = DOMAIN names
        /\ \A d \in DOMAIN names \ {dev} : names'[d] = names[d]
        /\ names'[dev].SUBSYS_VENDOR = names[dev].SUBSYS_VENDOR
        /\ names'[dev].SUBSYS_NAME = FreshSubsys(dev)
        /\ names'[dev].CLASS = names[dev].CLASS
        /\ names'[dev].SUBCLASS = names[dev].SUBCLASS
        /\ names'[dev].PROG_IFACE = names[dev].PROG_IFACE
    BY <1>0, <2>1 DEF Inv, NameTypes
  <2>3. names[dev].SUBSYS_VENDOR = 0
    BY <1>0, <2>1 DEF ListingInv, Before
  <2>4. ListingInv(dev)'
    BY <1>0, <2>1, <2>2, <2>3, TextKept DEF ListingInv, Before
  <2>5. QED
    BY <2>1, <2>2, <2>4, OthersKept, TextKept DEF TextInv
<1>6. CASE LookupSubsysVendor
  <2>1. /\ call = "subsys_vendor" /\ call' = "none" /\ UNCHANGED <<db, dev, pending, devs>>
        /\ names' = [names EXCEPT ![dev].SUBSYS_VENDOR = FindVendor(dev.subsys[1])]
    BY <1>6, VendorLookup DEF LookupSubsysVendor, Inv
  <2>2. /\ DOMAIN names' = DOMAIN names
        /\ \A d \in DOMAIN names \ {dev} : names'[d] = names[d]
        /\ names'[dev].SUBSYS_VENDOR = FindVendor(dev.subsys[1])
        /\ names'[dev].SUBSYS_NAME = names[dev].SUBSYS_NAME
        /\ names'[dev].CLASS = names[dev].CLASS
        /\ names'[dev].SUBCLASS = names[dev].SUBCLASS
        /\ names'[dev].PROG_IFACE = names[dev].PROG_IFACE
    BY <1>0, <2>1 DEF Inv, NameTypes
  <2>3. dev.type0 /\ FreshSubsys(dev) = 0
    BY <2>1 DEF TextInv
  <2>4. ListingInv(dev)'
    BY <1>0, <2>1, <2>2, <2>3, TextKept DEF ListingInv, Before
  <2>5. QED
    BY <2>1, <2>2, <2>4, OthersKept DEF TextInv
<1>7. CASE UNCHANGED vars
  <2>1. UNCHANGED <<db, vendors, devs, pending, dev, call, names>>
    BY <1>7 DEF vars
  <2>2. \A d \in DOMAIN names : ListingInv(d)'
    BY <2>1, TextKept DEF TextInv, ListingInv, Before
  <2>3. QED
    BY <2>1, <2>2, TextKept DEF TextInv
<1>8. QED
  BY <1>1, <1>2, <1>3, <1>4, <1>5, <1>6, <1>7 DEF Next

\* Between the lookups of ParseIDs, each name is of the line that the text has for it.
THEOREM TextInvariance == Spec => []TextInv
<1>1. Inv /\ Inv' /\ TextInv /\ [Next]_vars => TextInv'
  BY TextStep
<1>2. QED
  BY <1>1, TextInit, Invariance, PTL DEF Spec

\* ClassNamesRight: for every text and every class code, the names found are those
\* that the text lists one below the other.
THEOREM ClassesAsListed == Spec => []ClassNamesRight
<1>1. Inv /\ TextInv => ClassNamesRight
  <2> SUFFICES ASSUME Inv, TextInv, NEW d \in Parsed
               PROVE  LET c == Top("class", d.cc[1])
                          s == Entry(c, "subclass", d.cc[2])
                      IN  /\ names[d].CLASS = c
                          /\ names[d].SUBCLASS = s
                          /\ names[d].PROG_IFACE = Entry(s, "progif", d.cc[3])
    BY DEF ClassNamesRight
  <2>1. ListingInv(d) /\ ~Before(d, {"vendor", "device", "class"})
    BY DEF TextInv, Parsed, Before
  <2>2. WellFormed(db)
    BY DEF Inv
  <2>3. QED
    BY <2>1, <2>2, ClassInfoListed DEF ListingInv
<1>2. QED
  BY <1>1, Invariance, TextInvariance, PTL

\* SubsysOfDevice: a subsystem's name is the one listed below the device that was found,
\* and its vendor is named just if it has none.
THEOREM SubsystemsAsListed == Spec => []SubsysOfDevice
<1>1. Inv /\ TextInv => SubsysOfDevice
  <2> SUFFICES ASSUME Inv, TextInv, NEW d \in Parsed
               PROVE  /\ d.type0 =>
                           LET x == names[d].DEVICE
                               e == Entry(x, "subsys", d.subsys)
                           IN  names[d].SUBSYS_NAME =
                                 IF \E i \in x+1..e : db[i].kind = "comment" THEN 0 ELSE e
                      /\ names[d].SUBSYS_VENDOR =
                           IF d.type0 /\ names[d].SUBSYS_NAME = 0
                           THEN Top("vendor", d.subsys[1]) ELSE 0
    BY DEF SubsysOfDevice
  <2>1. /\ WellFormed(db) /\ ListingInv(d) /\ NamesInv(d) /\ d \notin pending
        /\ d = dev => call = "none"
    BY DEF Inv, TextInv, Parsed
  <2>2. /\ names[d].DEVICE = FreshDevice(d)
        /\ d.type0 => names[d].SUBSYS_NAME = FreshSubsys(d)
        /\ names[d].SUBSYS_VENDOR =
             IF d.type0 /\ FreshSubsys(d) = 0 THEN FindVendor(d.subsys[1]) ELSE 0
    BY <2>1 DEF ListingInv, NamesInv, Before
  <2>3. FreshSubsys(d) =
          LET x == FreshDevice(d)
              e == Entry(x, "subsys", d.subsys)
          IN  IF \E i \in x+1..e : db[i].kind = "comment" THEN 0 ELSE e
    <3>1. CASE FreshDevice(d) = 0
      <4>1. Entry(FreshDevice(d), "subsys", d.subsys) = 0 /\ FreshSubsys(d) = 0
        BY <3>1, NoEntry DEF FreshSubsys
      <4>2. QED
        BY <4>1
    <3>2. CASE FreshDevice(d) # 0
      <4>1. FreshDevice(d) \in DOMAIN db /\ db[FreshDevice(d)].kind = "device"
        BY <2>1, <3>2, FindFinds DEF FreshDevice
      <4>2. QED
        BY <2>1, <3>2, <4>1, SubsysListed DEF FreshSubsys
    <3>3. QED
      BY <3>1, <3>2
  <2>4. FindVendor(d.subsys[1]) = Top("vendor", d.subsys[1])
    BY <2>1, VendorIsTop
  <2>5. QED
    BY <2>2, <2>3, <2>4
<1>2. QED
  BY <1>1, Invariance, TextInvariance, PTL

\* ListedDeviceNamed: a device that is listed below its vendor, and not on the line
\* after it, gets its own line.
THEOREM ListedDevicesNamed == Spec => []ListedDeviceNamed
<1>1. Inv => ListedDeviceNamed
  <2> SUFFICES ASSUME Inv, NEW d \in Parsed,
                      Entry(Top("vendor", d.vid), "device", d.id) > Top("vendor", d.vid) + 1
               PROVE  names[d].DEVICE = Entry(Top("vendor", d.vid), "device", d.id)
    BY DEF ListedDeviceNamed
  <2> DEFINE v == FindVendor(d.vid)
  <2>1. /\ WellFormed(db) /\ NamesInv(d) /\ d \notin pending
        /\ d = dev => call = "none"
    BY DEF Inv, Parsed
  <2>2. v = Top("vendor", d.vid) /\ names[d].DEVICE = FreshDevice(d)
    BY <2>1, VendorIsTop DEF NamesInv
  <2>3. v # 0
    BY <2>2, NoEntry
  <2>4. v \in DOMAIN db /\ db[v].kind = "vendor"
    BY <2>1, <2>3, FindFinds DEF FindVendor
  <2>5. Find("device", d.id, v + 2) = Entry(v, "device", d.id)
    BY <2>1, <2>2, <2>4, DeviceListed
  <2>6. QED
    BY <2>2, <2>3, <2>5 DEF FreshDevice
<1>2. QED
  BY <1>1, Invariance, PTL
=============================================================================
