----------------------------- MODULE MCSnapshot -----------------------------
(***************************************************************************)
(* Instances of Snapshot for TLC.                                          *)
(***************************************************************************)
EXTENDS Snapshot

Dev(dbdf, cfg, res, drv) ==
  [dbdf |-> dbdf, cfg_space_len |-> cfg, resources |-> res, driver_name |-> drv]

\* A bridge with no driver, and an endpoint whose driver name has the longest
\* length that fits.
Bridge   == Dev(8, 256, 17, 0)
Endpoint == Dev(256, 4096, 7, 254)

RootBus == [dom |-> 0, bus |-> 0, is_root |-> 1]
SubBus  == [dom |-> 0, bus |-> 1, is_root |-> 0]

\* Both captures are started from the same directory.
MCCwd == [c \in Capturers |-> CHOOSE d \in Dirs : TRUE]

\* A system with one device, one whose bus scan came back empty, and one with a
\* bridge.
MCTopologies ==
  {[devs |-> <<Endpoint>>, buses |-> <<>>],
   [devs |-> <<Endpoint>>, buses |-> <<RootBus>>],
   [devs |-> <<Bridge, Endpoint>>, buses |-> <<RootBus, SubBus>>]}
=============================================================================
