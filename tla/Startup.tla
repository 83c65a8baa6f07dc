-------------------------------- MODULE Startup --------------------------------
(***************************************************************************)
(* From the command line to the tree: main (src/main.cpp), the options and *)
(* the configuration (src/config.cpp), the providers it chooses, the scan  *)
(* of sysfs by SysfsProvider (src/linux-sysfs.cpp), and then Topology.     *)
(*                                                                         *)
(* A scan takes time: each directory entry is read in a step of its own,   *)
(* and a device can be unplugged between two of them.                      *)
(***************************************************************************)
EXTENDS Topology

CONSTANTS
  Hosts     \* what a start of the program can find, see Host

OpModes == {"live", "capture", "view"}
Options == OpModes \cup {"version"}

\* An entry of /sys/bus/pci/devices, and what its files hold; the domain as the
\* kernel knows it.
DeviceEntry ==
  [dom : Nat, bus : 0..255, fn : Nat, bridge : BOOLEAN, sec : Nat, names : 0..2,
   config : BOOLEAN, resource : BOOLEAN]

\* An entry of /sys/class/pci_bus, and what is above the bus where it leads: the
\* host bridge or a device.
BusEntry == [dom : Nat, bus : 0..255, above : {"host", "device"}]

\* The options given, whether main runs as root, the file /etc/pciex/config.json, if
\* a log can be opened, if the ids database can be read, if the directory of the path
\* given exists and what file is there, and the two directories of sysfs.
Host ==
  [opts : SUBSET Options, root : BOOLEAN,
   config : {"none", "malformed", "loglevel", "quiet", "logging"},
   log : BOOLEAN, db : BOOLEAN, dir : BOOLEAN, file : SUBSET Systems,
   devs : Seq(DeviceEntry), buses : Seq(BusEntry)]

ASSUME HostsAssumption ==
  /\ Hosts \subseteq Host
  /\ \A h \in Hosts : Cardinality(h.file) <= 1

\* The kernel names the directories of its devices by their addresses, no two alike.
ASSUME AddressesAssumption ==
  \A h \in Hosts : \A i, j \in DOMAIN h.devs :
    /\ h.devs[i].dom = h.devs[j].dom /\ h.devs[i].bus = h.devs[j].bus
    /\ h.devs[i].fn = h.devs[j].fn
    => i = j

VARIABLES
  host,         \* what this start finds
  stage,        \* where main is
  gone,         \* the entries of host.devs whose device was unplugged
  goneBuses,    \* the entries of host.buses that went with them
  at,           \* the directory entry that is read next
  read,         \* the entries GetPCIDevDescriptors has described
  readBuses     \* the entries GetBusDescriptors has described

start   == <<host, stage, gone, goneBuses, at, read, readBuses>>
program == <<host, stage, gone, goneBuses, at, read, readBuses, vars>>

Startup ==
  /\ host \in Hosts
  /\ stage = "options"
  /\ gone = {} /\ goneBuses = {}
  /\ at = 1
  /\ read = << >> /\ readBuses = << >>
  /\ phase = "populate"
  /\ system = [devs |-> << >>, buses |-> << >>]
  /\ devs = << >> /\ buses = << >>
  /\ mode \in Modes
  /\ roots = {} /\ stack = << >> /\ y = 0 /\ blocks = << >> /\ saved = {}

\* mode_, once the options are accepted.
Chosen == CHOOSE m \in OpModes : m \in host.opts

-----------------------------------------------------------------------------
(***************************************************************************)
(* main, up to the providers.                                              *)
(***************************************************************************)

\* A call of main's, which returns or throws: whatever is thrown ends the program.
Call(from, succeeds, to) ==
  /\ stage = from
  /\ stage' = IF succeeds THEN to ELSE "failed"
  /\ UNCHANGED <<host, gone, goneBuses, at, read, readBuses, vars>>

\* Just one option of the group, -v ends the program as an error would, and each
\* path passes its validators.
Accepted ==
  /\ Cardinality(host.opts \cap OpModes) = 1
  /\ "version" \notin host.opts
  /\ "capture" \in host.opts => host.file = {} /\ host.dir
  /\ "view" \in host.opts => host.file # {}

ParseCmdLineOptions == Call("options", Accepted, "config")

\* Without a file the default is taken as it is; a file's level and the database it
\* names are validated.
ConfigIsValid ==
  \/ host.config = "none"
  \/ host.config \in {"quiet", "logging"} /\ host.db

ParseConfig == Call("config", ConfigIsValid, "log")

LoggerInit == Call("log", host.config = "logging" => host.log, "privileges")

NeedsElPriv == Chosen # "view"

CheckPrivileges == Call("privileges", NeedsElPriv => host.root, "ids")

\* The constructor of PCITopologyCtx, which reads the ids database, then the choice
\* of the provider that Populate or Capture asks first.
CreateTopology == Call("ids", host.db, IF Chosen = "view" THEN "view" ELSE "devices")

-----------------------------------------------------------------------------
(***************************************************************************)
(* The scan.                                                               *)
(***************************************************************************)

\* The digit of n that counts for weight.
HexDigit(n, weight) == (n \div weight) % 16

\* "%4u" reads the four digits the kernel wrote in hexadecimal as decimal ones: it
\* stops at a letter, and in front of a fifth digit, and the ':' is missed.
DomainParses(dom) == dom < 65536 /\ \A weight \in {1, 16, 256, 4096} : HexDigit(dom, weight) <= 9
ReadDomain(dom) ==
  HexDigit(dom, 1) + 10 * HexDigit(dom, 16) + 100 * HexDigit(dom, 256) + 1000 * HexDigit(dom, 4096)

\* Seeded fault: the address is put together without the domain.
Described_NoDomain(e) ==
  [dom |-> 0, bus |-> e.bus, fn |-> e.fn, bridge |-> e.bridge, sec |-> e.sec, names |-> e.names]

\* The descriptor of a device, as its constructor takes it apart: dom << 24 is
\* computed in 32 bits.
Described(e) ==
  [dom |-> ReadDomain(e.dom) % 256, bus |-> e.bus, fn |-> e.fn,
   bridge |-> e.bridge, sec |-> e.sec, names |-> e.names]

\* A bus is a root bus when the directory two above its own has a name with a 'p',
\* "pci0000:00", and not the address of a device.
BusDescribed(e) == [dom |-> ReadDomain(e.dom), bus |-> e.bus, is_root |-> e.above = "host"]

\* Configuration space and the resources are read; without either the scan throws.
Readable(e) == DomainParses(e.dom) /\ e.config /\ e.resource

\* The directory does not return the entry: it was removed before it came to it.
PassOver(missing) ==
  /\ at \in missing
  /\ at' = at + 1
  /\ UNCHANGED <<stage, read, readBuses, system>>

\* One entry of the loop of GetPCIDevDescriptors.  The directory may still return an
\* entry that is gone, whose files cannot be opened.
ReadDevice ==
  /\ stage = "devices" /\ at \in DOMAIN host.devs
  /\ \/ PassOver(gone)
     \/ /\ at \notin gone /\ Readable(host.devs[at])
        /\ read' = Append(read, at)
        /\ at' = at + 1
        /\ UNCHANGED <<stage, readBuses, system>>
     \/ /\ at \in gone \/ ~Readable(host.devs[at])
        /\ stage' = "failed"
        /\ UNCHANGED <<at, read, readBuses, system>>
  /\ UNCHANGED <<host, gone, goneBuses>>
  /\ UNCHANGED <<phase, devs, buses, mode, roots, stack, y, blocks, saved>>

DevicesRead ==
  /\ stage = "devices" /\ at \notin DOMAIN host.devs
  /\ stage' = "buses"
  /\ at' = 1
  /\ UNCHANGED <<host, gone, goneBuses, read, readBuses, vars>>

\* What GetBusDescriptors returns goes to SaveState with the devices, or to Populate.
Provided(bs) ==
  /\ system' = [devs  |-> [i \in DOMAIN read |-> Described(host.devs[read[i]])],
                buses |-> [i \in DOMAIN bs |-> BusDescribed(host.buses[bs[i]])]]
  /\ stage' = IF Chosen = "capture" THEN "saved" ELSE "run"
  /\ UNCHANGED at

\* One entry of its loop.  It returns nothing if it cannot parse the entry or finds no
\* link there any more, and throws if the link goes before it is read.
ReadBus ==
  /\ stage = "buses" /\ at \in DOMAIN host.buses
  /\ \/ PassOver(goneBuses)
     \/ /\ at \in goneBuses
        /\ stage' = "failed"
        /\ UNCHANGED <<at, readBuses, system>>
     \/ /\ at \notin goneBuses /\ DomainParses(host.buses[at].dom)
        /\ readBuses' = Append(readBuses, at)
        /\ at' = at + 1
        /\ UNCHANGED <<stage, system>>
     \/ /\ at \in goneBuses \/ ~DomainParses(host.buses[at].dom)
        /\ readBuses' = << >>
        /\ Provided(readBuses')
  /\ UNCHANGED <<host, gone, goneBuses, read>>
  /\ UNCHANGED <<phase, devs, buses, mode, roots, stack, y, blocks, saved>>

BusesRead ==
  /\ stage = "buses" /\ at \notin DOMAIN host.buses
  /\ Provided(readBuses)
  /\ UNCHANGED <<host, gone, goneBuses, read, readBuses,
                 phase, devs, buses, mode, roots, stack, y, blocks, saved>>

\* SnapshotProvider parses the file, or refuses it: see Snapshot.
ViewSnapshot ==
  /\ stage = "view"
  /\ \/ /\ system' \in host.file
        /\ stage' = "run"
     \/ /\ stage' = "failed"
        /\ UNCHANGED system
  /\ UNCHANGED <<host, gone, goneBuses, at, read, readBuses,
                 phase, devs, buses, mode, roots, stack, y, blocks, saved>>

\* The kernel removes devices from the leaves up: a device, or a bridge behind which
\* nothing is left, and with it the bus behind it.
Unplug(i) ==
  /\ stage \in {"devices", "buses"}
  /\ i \notin gone
  /\ LET d    == host.devs[i]
         left == DOMAIN host.devs \ gone
     IN  /\ d.bridge => \A j \in left : host.devs[j].bus # d.sec \/ host.devs[j].dom # d.dom
         /\ goneBuses' = goneBuses \cup
              {b \in DOMAIN host.buses : /\ d.bridge
                                         /\ host.buses[b].bus = d.sec
                                         /\ host.buses[b].dom = d.dom}
  /\ gone' = gone \cup {i}
  /\ UNCHANGED <<host, stage, at, read, readBuses, vars>>

-----------------------------------------------------------------------------
\* Populate, then the screen.
Run(step) == stage = "run" /\ step /\ UNCHANGED start

Main ==
  \/ ParseCmdLineOptions \/ ParseConfig \/ LoggerInit \/ CheckPrivileges \/ CreateTopology
  \/ ReadDevice \/ DevicesRead \/ ReadBus \/ BusesRead \/ ViewSnapshot
  \/ Run(Populate) \/ Run(Layout)

ProgramNext ==
  \/ Main
  \/ \E m \in Modes : Run(SwitchDrawingMode(m))
  \/ \E i \in DOMAIN host.devs : Unplug(i)

\* The program's one thread runs on; the user and the machine need not do anything.
Program == Startup /\ [][ProgramNext]_program /\ WF_program(Main)

-----------------------------------------------------------------------------
(***************************************************************************)
(* Properties.                                                             *)
(***************************************************************************)

Stages == {"options", "config", "log", "privileges", "ids", "devices", "buses", "view",
           "saved", "run", "failed"}

\* The values the variables of the start and those of the layout can have.
TypesOK ==
  /\ stage \in Stages
  /\ gone \subseteq DOMAIN host.devs /\ goneBuses \subseteq DOMAIN host.buses
  /\ at \in 1 .. Len(host.devs) + Len(host.buses) + 1
  /\ Elems(read) \subseteq DOMAIN host.devs /\ Elems(readBuses) \subseteq DOMAIN host.buses
  /\ TypeOK

\* What a scan that is over holds.  No device that stayed is missing, nor is a bus
\* unless the list is empty; each device keeps its address below domain 10, where the
\* reading of the name changes nothing; and below domain 256, where it may change the
\* domain, two devices never get one address.
ScanRight ==
  LET address(i) == <<Described(host.devs[i]).dom, Described(host.devs[i]).bus, host.devs[i].fn>>
  IN  /\ DOMAIN host.devs \ gone \subseteq Elems(read)
      /\ readBuses = << >> \/ DOMAIN host.buses \ goneBuses \subseteq Elems(readBuses)
      /\ \A i \in Elems(read) : host.devs[i].dom < 10 =>
           address(i) = <<host.devs[i].dom, host.devs[i].bus, host.devs[i].fn>>
      /\ \A i, j \in Elems(read) :
           i # j /\ host.devs[i].dom < 256 /\ host.devs[j].dom < 256 => address(i) # address(j)

\* What is shown or stored is what was asked for: the file's content, or what a whole
\* scan found that ran as root, whatever was unplugged meanwhile.
ServesRequest ==
  stage \in {"saved", "run"} =>
    IF "view" \in host.opts THEN system \in host.file ELSE host.root /\ ScanRight

\* No start takes more steps until Populate or an end than this: the calls, and for each of
\* the two directories its entries and the end.
StepsToRun ==
  LET entries == Len(host.devs) + Len(host.buses)
  IN  CASE stage = "options"    -> entries + 7
        [] stage = "config"     -> entries + 6
        [] stage = "log"        -> entries + 5
        [] stage = "privileges" -> entries + 4
        [] stage = "ids"        -> entries + 3
        [] stage = "devices"    -> entries + 3 - at
        [] stage = "buses"      -> Len(host.buses) + 2 - at
        [] stage = "view"       -> 1
        [] OTHER                -> 0

\* Whatever the program is started with, each step of its own brings it nearer to an end or
\* to a finished layout: a scan has no more steps left than there are entries, whatever is
\* unplugged, and the recursion of AddBusDevices no more than there are buses and devices,
\* for it opens no bus twice and places no device twice.
ComesNearer ==
  [][Main /\ (stage = "run" => Enumerated(system)) =>
       \/ StepsToRun' \in 0..(StepsToRun - 1)
       \/ StepsToRun' = StepsToRun /\ LayoutLeft' \in 0..(LayoutLeft - 1)]_program

\* Whatever it is started with and however often the mode is switched, the program
\* comes to an end or to a finished layout: no scan and no layout goes on for ever.
AlwaysSettles ==
  []<>(stage \in {"failed", "saved"} \/ phase \in {"failed", "done", "crashed"})
=============================================================================
