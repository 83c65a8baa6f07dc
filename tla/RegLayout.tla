------------------------------ MODULE RegLayout ------------------------------
(***************************************************************************)
(* How src/pci_regs.h lays out configuration space: the registers of the   *)
(* header by offset and length, the registers of capabilities as the       *)
(* widths of their bit fields from bit 0 up, and the capabilities as their *)
(* registers in order.  A register's field 1 is its lowest one.            *)
(***************************************************************************)
EXTENDS Integers, Sequences, FiniteSetsExt

-----------------------------------------------------------------------------
(***************************************************************************)
(* The header: offsets, and the lengths in the maps of src/pci_dev.cpp.    *)
(***************************************************************************)

Type0Cfg ==
  [vid |-> 0, dev_id |-> 2, command |-> 4, status |-> 6, revision |-> 8, class_code |-> 9,
   cache_line_size |-> 12, latency_timer |-> 13, header_type |-> 14, bist |-> 15,
   bar0 |-> 16, bar1 |-> 20, bar2 |-> 24, bar3 |-> 28, bar4 |-> 32, bar5 |-> 36,
   cardbus_cis_ptr |-> 40, subsys_vid |-> 44, subsys_dev_id |-> 46, exp_rom_bar |-> 48,
   cap_ptr |-> 52, itr_line |-> 60, itr_pin |-> 61, min_gnt |-> 62, max_lat |-> 63]

Type1Cfg ==
  [vid |-> 0, dev_id |-> 2, command |-> 4, status |-> 6, revision |-> 8, class_code |-> 9,
   cache_line_size |-> 12, prim_lat_timer |-> 13, header_type |-> 14, bist |-> 15,
   bar0 |-> 16, bar1 |-> 20, prim_bus_num |-> 24, sec_bus_num |-> 25, sub_bus_num |-> 26,
   sec_lat_timer |-> 27, io_base |-> 28, io_limit |-> 29, sec_status |-> 30,
   mem_base |-> 32, mem_limit |-> 34, pref_mem_base |-> 36, pref_mem_limit |-> 38,
   pref_base_upper |-> 40, pref_limit_upper |-> 44, io_base_upper |-> 48,
   io_limit_upper |-> 50, cap_ptr |-> 52, exp_rom_bar |-> 56, itr_line |-> 60,
   itr_pin |-> 61, bridge_ctl |-> 62]

Bars == {"bar0", "bar1", "bar2", "bar3", "bar4", "bar5"}
Words == {"vid", "dev_id", "command", "status", "subsys_vid", "subsys_dev_id", "sec_status",
          "mem_base", "mem_limit", "pref_mem_base", "pref_mem_limit", "io_base_upper",
          "io_limit_upper", "bridge_ctl"}

t0_reg_map ==
  [r \in DOMAIN Type0Cfg |->
     IF r \in Bars \cup {"cardbus_cis_ptr", "exp_rom_bar"} THEN 4
     ELSE IF r = "class_code" THEN 3 ELSE IF r \in Words THEN 2 ELSE 1]

t1_reg_map ==
  [r \in DOMAIN Type1Cfg |->
     IF r \in Bars \cup {"pref_base_upper", "pref_limit_upper", "exp_rom_bar"} THEN 4
     ELSE IF r = "class_code" THEN 3 ELSE IF r \in Words THEN 2 ELSE 1]

\* Seeded fault: registers that are not a dword begin with the dword they are in.
get_reg_compat_Unshifted(off, len) ==
  [at |-> 32 * (off \div 4), len |-> Min({8 * len, 32})]

\* The bits get_reg_compat returns: of the dword the register begins in, from its first
\* byte on, and no more than the dword has.
get_reg_compat(off, len) ==
  LET dword == 32 * (off \div 4)
      first == IF len = 4 THEN 0 ELSE 8 * (off % 4)
  IN  [at |-> dword + first, len |-> Min({8 * len, 32 - first})]

-----------------------------------------------------------------------------
(***************************************************************************)
(* Registers.                                                              *)
(***************************************************************************)

RegVendorID == <<16>>
RegDeviceID == <<16>>
RegCommand == <<1, 1, 1, 3, 1, 1, 1, 1, 1, 5>>
RegStatus == <<1, 2, 1, 1, 3, 1, 2, 1, 1, 1, 1, 1>>
RegRevID == <<8>>
RegClassCode == <<8, 8, 8>>
RegCacheLineSize == <<8>>
RegLatTimer == <<8>>
RegHdrType == <<7, 1>>
RegBIST == <<4, 2, 1, 1>>
RegCapPtr == <<8>>
RegItrLine == <<8>>
RegItrPin == <<8>>
RegBARMem == <<1, 2, 1, 28>>
RegBARIo == <<1, 1, 30>>
RegCardbusCIS == <<32>>
RegSubsysVID == <<16>>
RegSubsysID == <<16>>
RegExpROMBar == <<1, 10, 21>>
RegMinGnt == <<8>>
RegMaxLat == <<8>>
RegPrimBusNum == <<8>>
RegSecBusNum == <<8>>
RegSubBusNum == <<8>>
RegIOBase == <<4, 4>>
RegIOLimit == <<4, 4>>
RegSecStatus == <<5, 1, 1, 1, 1, 2, 1, 1, 1, 1, 1>>
RegMemBL == <<4, 12>>
RegPrefMemBL == <<4, 12>>
RegIOUpperBL == <<16>>
RegBridgeCtl == <<1, 1, 1, 1, 1, 1, 1, 1, 1, 1, 1, 1, 4>>

\* The headers of capabilities.
CompatCapHdr == <<8, 8>>
ExtCapHdr == <<16, 4, 12>>

\* The Express capability.
RegPciECap == <<4, 4, 1, 5, 2>>
RegDevCap == <<3, 2, 1, 3, 3, 3, 1, 8, 2, 1, 3>>
RegDevCtl == <<1, 1, 1, 1, 1, 3, 1, 1, 1, 1, 3, 1>>
RegDevStatus == <<1, 1, 1, 1, 1, 1, 1, 9>>

RegLinkCap == <<4, 6, 2, 3, 3, 1, 1, 1, 1, 1, 1, 8>>

RegLinkCtl == <<2, 1, 1, 1, 1, 1, 1, 1, 1, 1, 1, 3, 1>>
RegLinkStatus == <<4, 6, 1, 1, 1, 1, 1, 1>>
RegSlotCap == <<1, 1, 1, 1, 1, 1, 1, 8, 2, 1, 1, 13>>
RegSlotCtl == <<1, 1, 1, 1, 1, 1, 2, 2, 1, 1, 1, 1, 2>>
RegSlotStatus == <<1, 1, 1, 1, 1, 1, 1, 1, 1, 7>>
RegRootCtl == <<1, 1, 1, 1, 1, 11>>
RegRootCap == <<1, 15>>
RegRootStatus == <<16, 1, 1, 14>>
RegDevCap2 == <<4, 1, 1, 1, 1, 1, 1, 1, 1, 2, 2, 1, 1, 2, 1, 1, 2, 2, 1, 4, 1>>
RegDevCtl2 == <<4, 1, 1, 1, 1, 1, 1, 1, 1, 1, 2, 1>>
RegDevStatus2 == <<16>>
RegLinkCap2 == <<1, 7, 1, 7, 7, 1, 1, 6, 1>>
RegLinkCtl2 == <<4, 1, 1, 1, 3, 1, 1, 4>>
RegLinkStatus2 == <<1, 1, 1, 1, 1, 1, 1, 1, 2, 2, 3, 1>>
RegSlotCap2 == <<32>>
RegSlotCtl2 == <<16>>
RegSlotStatus2 == <<16>>

\* MSI-X, power management, MSI.
RegMSIxMsgCtrl == <<11, 3, 1, 1>>
RegMSIxTblOffId == <<3, 29>>
RegMSIxPBAOffId == <<3, 29>>
RegPMCap == <<3, 1, 1, 1, 3, 1, 1, 5>>
RegPMCtlStatus == <<2, 1, 1, 4, 1, 4, 2, 1, 6, 1, 1, 8>>
RegMSIMsgCtrl == <<1, 3, 3, 1, 1, 1, 1, 5>>

\* Extended capabilities.
RegLinkCtl3 == <<1, 1, 7, 7, 16>>
RegLaneErrStatus == <<32>>
RegLaneEqCtl == <<4, 3, 1, 4, 3, 1>>
RegDataLinkFeatCap == <<23, 8, 1>>
RegDataLinkFeatStatus == <<23, 8, 1>>
RegARICapability == <<1, 1, 6, 8>>
RegARIControl == <<1, 1, 2, 3, 9>>
RegPASIDCapability == <<1, 1, 1, 5, 5, 3>>
RegPASIDControl == <<1, 1, 1, 13>>
RegAERUncorrStatus == <<4, 1, 1, 6, 1, 1, 1, 1, 1, 1, 1, 1, 1, 1, 1, 1, 1, 1, 1, 5>>
RegAERUncorrMask == <<4, 1, 1, 6, 1, 1, 1, 1, 1, 1, 1, 1, 1, 1, 1, 1, 1, 1, 1, 5>>
RegAERUncorrSeverity == <<4, 1, 1, 6, 1, 1, 1, 1, 1, 1, 1, 1, 1, 1, 1, 1, 1, 1, 1, 5>>
RegAERCorrStatus == <<1, 5, 1, 1, 1, 3, 1, 1, 1, 1, 16>>
RegAERCorrMask == <<1, 5, 1, 1, 1, 3, 1, 1, 1, 1, 16>>
RegAERAecCtl == <<5, 1, 1, 1, 1, 1, 1, 1, 1, 19>>
RegAERHdrLog == <<128>>
RegAERRootErrCmd == <<1, 1, 1, 29>>
RegAERRootErrStatus == <<1, 1, 1, 1, 1, 1, 1, 20, 5>>
RegAERCorrErrSrcID == <<16>>
RegAERErrSrcID == <<16>>
RegAERTlpPrefixLog == <<128>>

-----------------------------------------------------------------------------
(***************************************************************************)
(* Capabilities: the names of their registers and how they are laid out,   *)
(* one behind the other.                                                   *)
(***************************************************************************)

PciECap ==
  <<<<"hdr", CompatCapHdr>>, <<"pcie_cap_reg", RegPciECap>>, <<"dev_cap", RegDevCap>>,
    <<"dev_ctl", RegDevCtl>>, <<"dev_status", RegDevStatus>>, <<"link_cap", RegLinkCap>>,
    <<"link_ctl", RegLinkCtl>>, <<"link_status", RegLinkStatus>>, <<"slot_cap", RegSlotCap>>,
    <<"slot_ctl", RegSlotCtl>>, <<"slot_status", RegSlotStatus>>, <<"root_ctl", RegRootCtl>>,
    <<"root_cap", RegRootCap>>, <<"root_status", RegRootStatus>>, <<"dev_cap2", RegDevCap2>>,
    <<"dev_ctl2", RegDevCtl2>>, <<"dev_status2", RegDevStatus2>>, <<"link_cap2", RegLinkCap2>>,
    <<"link_ctl2", RegLinkCtl2>>, <<"link_status2", RegLinkStatus2>>,
    <<"slot_cap2", RegSlotCap2>>, <<"slot_ctl2", RegSlotCtl2>>,
    <<"slot_status2", RegSlotStatus2>>>>

PciMSIxCap ==
  <<<<"hdr", CompatCapHdr>>, <<"msg_ctrl", RegMSIxMsgCtrl>>,
    <<"tbl_off_id", RegMSIxTblOffId>>, <<"pba_off_id", RegMSIxPBAOffId>>>>

PciPMCap == <<<<"hdr", CompatCapHdr>>, <<"pmcap", RegPMCap>>, <<"pmcs", RegPMCtlStatus>>>>

CompatCapVendorSpec == <<<<"hdr", CompatCapHdr>>, <<"len", <<8>>>>>>

\* MSI32CompatCap, MSI64CompatCap, MSI32PVMCompatCap and MSI64PVMCompatCap: with one or
\* two dwords of address, without and with masking.
MSICap(addr_64_bit, per_vector_mask) ==
  <<<<"hdr", CompatCapHdr>>, <<"mc", RegMSIMsgCtrl>>, <<"msg_addr", <<32>>>>>>
  \o (IF addr_64_bit THEN <<<<"msg_addr_upper", <<32>>>>>> ELSE << >>)
  \o <<<<"msg_data", <<16>>>>, <<"ext_msg_data", <<16>>>>>>
  \o (IF per_vector_mask THEN <<<<"mask_bits", <<32>>>>, <<"pending_bits", <<32>>>>>>
                         ELSE << >>)

SecPciECap ==
  <<<<"hdr", ExtCapHdr>>, <<"link_ctl3", RegLinkCtl3>>, <<"lane_err_stat", RegLaneErrStatus>>>>

DataLinkFeatureCap ==
  <<<<"hdr", ExtCapHdr>>, <<"dlink_feat_cap", RegDataLinkFeatCap>>,
    <<"dlink_feat_stat", RegDataLinkFeatStatus>>>>

ARICap == <<<<"hdr", ExtCapHdr>>, <<"ari_cap", RegARICapability>>, <<"ari_ctl", RegARIControl>>>>

PASIDCap ==
  <<<<"hdr", ExtCapHdr>>, <<"pasid_cap", RegPASIDCapability>>, <<"pasid_ctl", RegPASIDControl>>>>

AERCap ==
  <<<<"hdr", ExtCapHdr>>, <<"uncorr_err_status", RegAERUncorrStatus>>,
    <<"uncorr_err_mask", RegAERUncorrMask>>, <<"uncorr_err_sev", RegAERUncorrSeverity>>,
    <<"corr_err_status", RegAERCorrStatus>>, <<"corr_err_mask", RegAERCorrMask>>,
    <<"adv_err_cap_ctl", RegAERAecCtl>>, <<"hdr_log", RegAERHdrLog>>,
    <<"root_err_cmd", RegAERRootErrCmd>>, <<"root_err_status", RegAERRootErrStatus>>,
    <<"corr_err_src_id", RegAERCorrErrSrcID>>, <<"err_src_id", RegAERErrSrcID>>,
    <<"tlp_pref_log", RegAERTlpPrefixLog>>>>

-----------------------------------------------------------------------------

\* Where things of these widths end that begin at 0: none of them, the first, the second.
Ends(widths) ==
  LET end[n \in 0..Len(widths)] == IF n = 0 THEN 0 ELSE end[n - 1] + widths[n]
  IN  end

Bits(layout) == Ends(layout)[Len(layout)]

\* A packed structure of bit fields takes whole bytes.
SizeOf(layout) == (Bits(layout) + 7) \div 8

\* The first bit of field k.
Position(layout, k) == Ends(layout)[k - 1]

\* The byte of a capability a register begins at, and the length of the capability.
Sizes(cap) == [k \in DOMAIN cap |-> SizeOf(cap[k][2])]
CapSize(cap) == Bits(Sizes(cap))
RegOf(cap, name) == CHOOSE k \in DOMAIN cap : cap[k][1] = name
OffsetOf(cap, name) == Position(Sizes(cap), RegOf(cap, name))
LayoutOf(cap, name) == cap[RegOf(cap, name)][2]
=============================================================================
