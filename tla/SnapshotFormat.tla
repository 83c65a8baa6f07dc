--------------------------- MODULE SnapshotFormat ---------------------------
(***************************************************************************)
(* The on-disk format of a pciex snapshot (src/snapshot.h) and the two     *)
(* conversions between it and a device descriptor: what                    *)
(* SnapshotProvider::WriteDeviceMetadata stores and what                   *)
(* SnapshotProvider::GetPCIDevDescriptors makes of it.                     *)
(*                                                                         *)
(* Lengths are the code's, in bytes: they decide where the reader looks    *)
(* for the next record.  The contents of a config space, of a resource or  *)
(* of a driver name are not: a descriptor keeps its address, the length of *)
(* its config space, how many resources it has and how long its driver     *)
(* name is (0 when no driver is bound).                                    *)
(***************************************************************************)
EXTENDS Naturals, Sequences

HeaderLen   == 29   \* sizeof(SHeaderMd)
DeviceMdLen == 16   \* sizeof(SDeviceMd)
ResDescLen  == 24   \* dev_res_desc_size
BusDescLen  == 6    \* bus_desc_size

\* Most fields of SDeviceMd are one byte wide.
U8(n) == n % 256

DeviceDesc ==
  [dbdf : Nat, cfg_space_len : Nat, resources : Nat, driver_name : Nat]

\* The descriptors SysfsProvider can produce: a sysfs "config" file has 256 or
\* 4096 bytes, a "resource" file 7 to 17 lines, and a driver has a directory
\* of its name, shorter than NAME_MAX.
WellFormed(d) ==
  /\ d.cfg_space_len \in {256, 4096}
  /\ d.resources \in 1 .. 255
  /\ d.driver_name \in 0 .. 254

DriverNameLen(d) ==
  IF d.driver_name = 0 THEN 0 ELSE U8(d.driver_name + 1)

DeviceMd ==
  [d_bdf : Nat, cfg_space_len : {0, 1}, dev_res_len : 0 .. 255,
   driver_name_len : 0 .. 255, is_final_dev_entry : {0, 1}]

\* Seeded fault: the device counter is compared before it is advanced.
EncodeMd_StaleCounter(d, cur, total) ==
  [d_bdf              |-> d.dbdf,
   cfg_space_len      |-> IF d.cfg_space_len = 256 THEN 0 ELSE 1,
   dev_res_len        |-> U8(d.resources),
   driver_name_len    |-> DriverNameLen(d),
   is_final_dev_entry |-> IF cur = total - 1 THEN 1 ELSE 0]

\* Seeded fault: the length is stored where its one-bit code belongs.
EncodeMd_RawCfgLen(d, cur, total) ==
  [d_bdf              |-> d.dbdf,
   cfg_space_len      |-> U8(d.cfg_space_len \div 16),
   dev_res_len        |-> U8(d.resources),
   driver_name_len    |-> DriverNameLen(d),
   is_final_dev_entry |-> IF cur = total THEN 1 ELSE 0]

\* The static part of the record of device number cur out of total.
EncodeMd(d, cur, total) ==
  [d_bdf              |-> d.dbdf,
   cfg_space_len      |-> IF d.cfg_space_len = 256 THEN 0 ELSE 1,
   dev_res_len        |-> U8(d.resources),
   driver_name_len    |-> DriverNameLen(d),
   is_final_dev_entry |-> IF cur = total THEN 1 ELSE 0]

\* The bytes pwritev() is handed for one device: its three iovecs.
WrittenLen(d) ==
  DeviceMdLen + d.resources * ResDescLen + DriverNameLen(d) + d.cfg_space_len

CfgLen(md) == IF md.cfg_space_len = 0 THEN 256 ELSE 4096

\* The bytes the reader takes one record to span, from its static part alone.
ReadLen(md) ==
  DeviceMdLen + md.dev_res_len * ResDescLen + md.driver_name_len + CfgLen(md)

\* Seeded fault: the name is taken with its terminator.
DecodeMd_KeepsNul(md) ==
  [dbdf          |-> md.d_bdf,
   cfg_space_len |-> CfgLen(md),
   resources     |-> md.dev_res_len,
   driver_name   |-> md.driver_name_len]

\* The descriptor the reader rebuilds.
DecodeMd(md) ==
  [dbdf          |-> md.d_bdf,
   cfg_space_len |-> CfgLen(md),
   resources     |-> md.dev_res_len,
   driver_name   |-> IF md.driver_name_len = 0 THEN 0
                                               ELSE md.driver_name_len - 1]

\* Domain, bus number, and 1 for a root bus.
BusDesc == [dom : Nat, bus : Nat, is_root : {0, 1}]

BusesLen(n) == n * BusDescLen
=============================================================================
