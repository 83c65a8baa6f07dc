-------------------------------- MODULE IdsDb --------------------------------
(***************************************************************************)
(* PciIdParser (src/ids_parse.cpp): the names of a device, looked up in    *)
(* the text of pci.ids, with a cache of the vendors and devices found so   *)
(* far; and PciDevBase::ParseIDs and PciType0Dev::ParseIDs                 *)
(* (src/pci_dev.cpp), which call it for each device of the topology.       *)
(*                                                                         *)
(* The text is a sequence of lines, a line its kind, its id and whatever   *)
(* name follows.  A name is a view into the text: it is the number of the  *)
(* line it is on here, and 0 is the empty view.  A search for a string is  *)
(* a search for the lines that can begin with it: a name contains nothing  *)
(* that looks like the beginning of a line.                                *)
(***************************************************************************)
EXTENDS Naturals, Sequences

CONSTANTS
  Databases,    \* the texts pci.ids can have
  DeviceSets    \* sets of devices there can be in the system

Kinds == {"comment", "vendor", "device", "subsys", "class", "subclass", "progif"}

\* How many tabs a line begins with.
Tabs(line) == CASE line.kind \in {"device", "subclass"} -> 1
                [] line.kind \in {"subsys", "progif"}   -> 2
                [] OTHER                                -> 0

\* What the format of pci.ids demands: it begins with comments, the classes come
\* last and start at 00, an entry is indented under the one it belongs to, and
\* every line has its '\n'.
WellFormed(text) ==
  /\ text \in Seq({text[i] : i \in DOMAIN text})
  /\ Len(text) > 0 /\ text[1].kind = "comment"
  /\ \E c \in DOMAIN text :
       /\ text[c].kind = "class" /\ text[c].id = 0
       /\ \A i \in 1 .. c-1 : text[i].kind \in {"comment", "vendor", "device", "subsys"}
       /\ \A i \in c .. Len(text) : text[i].kind \in {"class", "subclass", "progif"}
       /\ \A i \in c+1 .. Len(text) : ~(text[i].kind = "class" /\ text[i].id = 0)

ASSUME DatabasesAssumption == \A text \in Databases : WellFormed(text)

VARIABLES
  db,           \* db_str_
  vendors,      \* ids_cache_: the entries for vendors
  devs,         \* their devs_
  classOff,     \* class_code_db_off_
  pending,      \* the devices whose names have not been looked up
  dev,          \* the device ParseIDs is running for
  call,         \* the lookup it is about to make
  names         \* ids_names_ of the devices

vars == <<db, vendors, devs, classOff, pending, dev, call, names>>

NameTypes == {"VENDOR", "DEVICE", "CLASS", "SUBCLASS", "PROG_IFACE",
              "SUBSYS_NAME", "SUBSYS_VENDOR"}

None    == [type \in NameTypes |-> 0]
NoCache == [id \in {} |-> 0]
NoDev   == [vid |-> 0, id |-> 0, type0 |-> FALSE, subsys |-> <<0, 0>>, cc |-> <<0, 0, 0>>]

Init ==
  /\ db \in Databases
  /\ pending \in DeviceSets
  /\ vendors  = NoCache
  /\ devs     = NoCache
  /\ classOff = 0
  /\ dev      = NoDev
  /\ call     = "none"
  /\ names    = [d \in pending |-> None]

-----------------------------------------------------------------------------
(***************************************************************************)
(* The lookups.                                                            *)
(***************************************************************************)

\* The first of some lines, or 0.
First(S) == IF S = {} THEN 0 ELSE CHOOSE i \in S : \A j \in S : i <= j

\* find(): the first line of that kind and id from the given one on.
Find(kind, id, from) ==
  First({i \in DOMAIN db : i >= from /\ db[i].kind = kind /\ db[i].id = id})

Put(cache, key, value) ==
  [k \in DOMAIN cache \cup {key} |-> IF k = key THEN value ELSE cache[k]]

\* vendor_name_lookup, uncached: the string it looks for begins with the end of the
\* line before.
FindVendor(vid) == Find("vendor", vid, 2)

\* vendor_name_lookup.
VendorName(vid) == IF vid \in DOMAIN vendors THEN vendors[vid] ELSE FindVendor(vid)

\* What it leaves in the cache.
VendorsAfter(vid) ==
  IF vid \in DOMAIN vendors \/ FindVendor(vid) = 0 THEN vendors
  ELSE Put(vendors, vid, FindVendor(vid))

\* Seeded fault: the search starts at the top of the database.
FindDevice_FromTop(vid, id) == Find("device", id, 2)

\* device_name_lookup, uncached.  The position kept for the vendor is the start of
\* the line after it; the string looked for begins with the end of a line, so that
\* line cannot be the one that is found.
FindDevice(vid, id) == Find("device", id, vendors[vid] + 2)

\* Seeded fault: a device of any vendor is taken from the cache.
DeviceName_AnyVendor(vid, id) ==
  IF vid \notin DOMAIN vendors THEN 0
  ELSE IF \E k \in DOMAIN devs : k[2] = id
       THEN devs[CHOOSE k \in DOMAIN devs : k[2] = id]
  ELSE FindDevice(vid, id)

\* device_name_lookup.
DeviceName(vid, id) ==
  IF vid \notin DOMAIN vendors THEN 0
  ELSE IF <<vid, id>> \in DOMAIN devs THEN devs[<<vid, id>>]
  ELSE FindDevice(vid, id)

DevsAfter(vid, id) ==
  IF DeviceName(vid, id) = 0 THEN devs ELSE Put(devs, <<vid, id>>, DeviceName(vid, id))

\* Seeded fault: the loop stops only at a line that is not indented.
SubsysBlock_Indented(line) ==
  {i \in DOMAIN db : i > line /\ \A j \in line+1 .. i : Tabs(db[j]) > 0}

\* The lines the loop of subsys_name_lookup visits: those below the line of the
\* device, up to one that does not begin with two tabs.
SubsysBlock(line) ==
  {i \in DOMAIN db : i > line /\ \A j \in line+1 .. i : Tabs(db[j]) = 2}

\* subsys_name_lookup.
SubsysName(vid, id, subsys) ==
  IF vid \notin DOMAIN vendors \/ <<vid, id>> \notin DOMAIN devs THEN 0
  ELSE First({i \in SubsysBlock(devs[<<vid, id>>]) :
                db[i].kind = "subsys" /\ db[i].id = subsys})

\* Where the classes begin: rfind().
ClassBlock ==
  CHOOSE i \in DOMAIN db :
    /\ db[i].kind = "class" /\ db[i].id = 0
    /\ \A j \in DOMAIN db : db[j].kind = "class" /\ db[j].id = 0 => j <= i

OrEnd(i) == IF i = 0 THEN Len(db) + 1 ELSE i

\* The next class: the limit of the subclasses of the one at line c.
ClassLimit(c) == OrEnd(First({i \in DOMAIN db : i > c /\ db[i].kind = "class"}))

SubclassName(c, sub) ==
  LET s == Find("subclass", sub, c + 1) IN IF s < ClassLimit(c) THEN s ELSE 0

\* Seeded fault: the limit of the class is also that of the subclass.
SubclassLimit_Class(c, s) == ClassLimit(c)

\* The limit of the programming interfaces of the subclass at line s of the class at
\* line c: the loop goes from one indented line to the next, until it meets one with
\* a single tab or one past the class.
SubclassLimit(c, s) ==
  OrEnd(First({i \in DOMAIN db :
                 i > s /\ Tabs(db[i]) > 0 /\ (Tabs(db[i]) = 1 \/ i > ClassLimit(c))}))

ProgIfaceName(c, s, prog) ==
  LET p == Find("progif", prog, s + 1) IN IF p < SubclassLimit(c, s) THEN p ELSE 0

\* class_info_lookup, from the class block on: the class, the subclass and the
\* programming interface, each only if the one before was found.
ClassInfo(from, cc) ==
  LET c == Find("class", cc[1], from)
      s == IF c = 0 THEN 0 ELSE SubclassName(c, cc[2])
      p == IF s = 0 THEN 0 ELSE ProgIfaceName(c, s, cc[3])
  IN  [CLASS |-> c, SUBCLASS |-> s, PROG_IFACE |-> p]

-----------------------------------------------------------------------------
(***************************************************************************)
(* ParseIDs.                                                               *)
(***************************************************************************)

\* Populate has built the next device.
ParseIDs(d) ==
  /\ call = "none" /\ d \in pending
  /\ pending' = pending \ {d}
  /\ dev' = d
  /\ call' = "vendor"
  /\ UNCHANGED <<db, vendors, devs, classOff, names>>

LookupVendor ==
  /\ call = "vendor"
  /\ names' = [names EXCEPT ![dev].VENDOR = VendorName(dev.vid)]
  /\ vendors' = VendorsAfter(dev.vid)
  /\ call' = "device"
  /\ UNCHANGED <<db, devs, classOff, pending, dev>>

LookupDevice ==
  /\ call = "device"
  /\ names' = [names EXCEPT ![dev].DEVICE = DeviceName(dev.vid, dev.id)]
  /\ devs' = DevsAfter(dev.vid, dev.id)
  /\ call' = "class"
  /\ UNCHANGED <<db, vendors, classOff, pending, dev>>

LookupClass ==
  LET off  == IF classOff = 0 THEN ClassBlock ELSE classOff
      info == ClassInfo(off, dev.cc)
  IN
  /\ call = "class"
  /\ classOff' = off
  /\ names' = [names EXCEPT ![dev].CLASS      = info.CLASS,
                            ![dev].SUBCLASS   = info.SUBCLASS,
                            ![dev].PROG_IFACE = info.PROG_IFACE]
  /\ call' = IF dev.type0 THEN "subsys" ELSE "none"
  /\ UNCHANGED <<db, vendors, devs, pending, dev>>

\* PciType0Dev::ParseIDs: if the subsystem has no name, its vendor's is looked up.
LookupSubsys ==
  LET name == SubsysName(dev.vid, dev.id, dev.subsys) IN
  /\ call = "subsys"
  /\ names' = [names EXCEPT ![dev].SUBSYS_NAME = name]
  /\ call' = IF name = 0 THEN "subsys_vendor" ELSE "none"
  /\ UNCHANGED <<db, vendors, devs, classOff, pending, dev>>

LookupSubsysVendor ==
  /\ call = "subsys_vendor"
  /\ names' = [names EXCEPT ![dev].SUBSYS_VENDOR = VendorName(dev.subsys[1])]
  /\ vendors' = VendorsAfter(dev.subsys[1])
  /\ call' = "none"
  /\ UNCHANGED <<db, devs, classOff, pending, dev>>

Next ==
  \/ \E d \in pending : ParseIDs(d)
  \/ LookupVendor
  \/ LookupDevice
  \/ LookupClass
  \/ LookupSubsys
  \/ LookupSubsysVendor

Spec == Init /\ [][Next]_vars

-----------------------------------------------------------------------------
(***************************************************************************)
(* What the text says: an entry belongs to the nearest entry above it with *)
(* fewer tabs.                                                             *)
(***************************************************************************)

IsParent(p, i) ==
  /\ p < i /\ Tabs(db[p]) < Tabs(db[i]) /\ db[p].kind # "comment"
  /\ \A j \in p+1 .. i-1 : Tabs(db[j]) >= Tabs(db[i]) \/ db[j].kind = "comment"

\* The line of that kind and id below the line p, if p is one.
Entry(p, kind, id) ==
  First({i \in DOMAIN db : db[i].kind = kind /\ db[i].id = id /\ p # 0 /\ IsParent(p, i)})

Top(kind, id) == First({i \in DOMAIN db : db[i].kind = kind /\ db[i].id = id})

-----------------------------------------------------------------------------
(***************************************************************************)
(* Properties.                                                             *)
(***************************************************************************)

\* The devices whose lookups have all been made.
Parsed == {d \in DOMAIN names : d \notin pending /\ (d = dev => call = "none")}

\* The values the variables can have: the caches hold lines of the right kind, and
\* a device is only cached below a vendor that is.
TypeOK ==
  /\ WellFormed(db)
  /\ \A v \in DOMAIN vendors : /\ vendors[v] \in DOMAIN db
                               /\ db[vendors[v]].kind = "vendor"
                               /\ db[vendors[v]].id = v
  /\ \A k \in DOMAIN devs : /\ devs[k] \in DOMAIN db
                            /\ db[devs[k]].kind = "device"
                            /\ db[devs[k]].id = k[2]
                            /\ k[1] \in DOMAIN vendors
  /\ classOff \in {0, ClassBlock}
  /\ pending \subseteq DOMAIN names
  /\ call \in {"none", "vendor", "device", "class", "subsys", "subsys_vendor"}
  /\ \A d \in DOMAIN names, t \in NameTypes : names[d][t] \in {0} \cup DOMAIN db

\* The names of a device do not depend on which devices were looked up before it,
\* nor on what those left in the cache: two devices with the same ids, and one that
\* is looked up again, are always given the same names.
CacheTransparent ==
  \A d \in Parsed :
    LET v == FindVendor(d.vid)
        x == IF v = 0 THEN 0 ELSE Find("device", d.id, v + 2)
    IN
    /\ names[d].VENDOR = v
    /\ names[d].DEVICE = x

\* The class, the subclass and the programming interface are those the text lists one
\* below the other, for every class code: the search for one never leaves the block
\* of the one before.
ClassNamesRight ==
  \A d \in Parsed :
    LET c == Top("class", d.cc[1])
        s == Entry(c, "subclass", d.cc[2])
    IN
    /\ names[d].CLASS = c
    /\ names[d].SUBCLASS = s
    /\ names[d].PROG_IFACE = Entry(s, "progif", d.cc[3])

\* A subsystem's name is the one the text lists below the device that was found, and
\* is only missed if there is none or a comment comes between; and the vendor of a
\* subsystem is named exactly if the subsystem itself is not.
SubsysOfDevice ==
  \A d \in Parsed :
    /\ d.type0 =>
         LET x == names[d].DEVICE
             e == Entry(x, "subsys", d.subsys)
         IN  names[d].SUBSYS_NAME =
               IF \E i \in x+1..e : db[i].kind = "comment" THEN 0 ELSE e
    /\ names[d].SUBSYS_VENDOR =
         IF d.type0 /\ names[d].SUBSYS_NAME = 0 THEN Top("vendor", d.subsys[1]) ELSE 0

\* A device the text lists gets its own line, unless that is the one right below its
\* vendor's.
ListedDeviceNamed ==
  \A d \in Parsed :
    LET v == Top("vendor", d.vid)
        x == Entry(v, "device", d.id)
    IN  x > v + 1 => names[d].DEVICE = x

\* ids_parse.h: "Cached PCI device db entry of particular vendor".  The device entries
\* cached for a vendor are entries of that vendor.
CachedOfVendor == \A k \in DOMAIN devs : IsParent(vendors[k[1]], devs[k])
=============================================================================
