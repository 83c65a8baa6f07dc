------------------------------ MODULE MCStartup ------------------------------
(***************************************************************************)
(* Instances of Startup for TLC.                                           *)
(***************************************************************************)
EXTENDS Startup, MCTopology

\* An entry for a device, whose files can be read.
Entry(dom, d) ==
  [dom |-> dom, bus |-> d.bus, fn |-> d.fn, bridge |-> d.bridge, sec |-> d.sec,
   names |-> d.names, config |-> TRUE, resource |-> TRUE]

Above(dom, bus, above) == [dom |-> dom, bus |-> bus, above |-> above]

Machine(ds, bs) == [devs |-> ds, buses |-> bs]

\* An endpoint of the root bus, and one behind a bridge.
Tree == Machine(<<Entry(0, Dev(1, 0, 2)), Entry(0, Dev(0, 2, 1)), Entry(0, Bridge(0, 1, 1))>>,
                <<Above(0, 1, "device"), Above(0, 0, "host")>>)

\* A bridge and the endpoint behind it, which the directory returns first.
Chain == Machine(<<Entry(0, Dev(1, 0, 2)), Entry(0, Bridge(0, 1, 1))>>,
                 <<Above(0, 1, "device"), Above(0, 0, "host")>>)

\* One device and one bus in each of the domains, all with the numbers 0 or with
\* their own.
InDomains(doms) ==
  {Machine([i \in DOMAIN doms |-> Entry(doms[i], Dev(i * k, 0, 1))],
           [i \in DOMAIN doms |-> Above(doms[i], i * k, "host")]) : k \in {0, 1}}

\* Domains whose names read as they are; as other numbers, 10 and 99; one that a scan
\* cannot read, for its letter and for its length; and 0x256, which wraps to 0.
Domains == {<<1, 0>>, <<0, 16, 153>>, <<0, 10>>, <<0, 65536>>, <<598, 1>>}

\* A device whose configuration or resources cannot be read, and a bus whose entry
\* cannot, after one that can.
Faulty ==
  {[Tree EXCEPT !.devs[2].config = FALSE], [Tree EXCEPT !.devs[3].resource = FALSE],
   [Tree EXCEPT !.buses = Append(@, Above(10, 0, "host"))]}

Started(m) ==
  [opts |-> {"live"}, root |-> TRUE, config |-> "none", log |-> TRUE, db |-> TRUE,
   dir |-> TRUE, file |-> {}, devs |-> m.devs, buses |-> m.buses]

\* Scans of every machine, to be shown and to be stored.
Scans ==
  {[Started(m) EXCEPT !.opts = {o}] :
     m \in {Tree, Chain} \cup Faulty \cup UNION {InDomains(d) : d \in Domains},
     o \in {"live", "capture"}}

One == [devs |-> <<Dev(0, 0, 1)>>, buses |-> <<BusNr(0, TRUE)>>]

\* Everything a start can find, on a machine of one device.
Starts ==
  {[opts |-> o, root |-> r, config |-> c, log |-> l, db |-> d, dir |-> p, file |-> f,
    devs |-> <<Entry(0, Dev(0, 0, 1))>>, buses |-> <<Above(0, 0, "host")>>] :
     o \in SUBSET Options, r \in BOOLEAN,
     c \in {"none", "malformed", "loglevel", "quiet", "logging"},
     l \in BOOLEAN, d \in BOOLEAN, p \in BOOLEAN, f \in {{}, {One}}}

\* Views of every system.
Views == {[Started(Tree) EXCEPT !.opts = {"view"}, !.root = FALSE, !.file = {s}] : s \in MCSystems}

MCHosts == Scans \cup Starts \cup Views

MCFiles == MCSystems \cup {One}
=============================================================================
