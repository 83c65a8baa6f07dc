------------------------------- MODULE RegTexts -------------------------------
(***************************************************************************)
(* What the lower half of the registers pane says of each register         *)
(* (src/ui/common_comp.cpp, compat_cap_comp.cpp, ext_cap_comp.cpp): the    *)
(* offsets on the button and in the title, the bits of configuration space *)
(* that are read, and the rows of the description.  A row is labelled with *)
(* the bits lo to hi of the register and shows a field of its structure.   *)
(* Wording, the names of a field's values and the order of the rows are    *)
(* left out.                                                               *)
(***************************************************************************)
EXTENDS RegLayout, FiniteSets

\* A row is <<lo, hi, field>>; reserved bits are listed and not read, and some values are
\* shown whole.
None == 0
All  == -1

Rsvd(lo, hi)     == {<<lo, hi, None>>}
Field(lo, hi, k) == {<<lo, hi, k>>}

\* RegFieldVerbElem prints a number of 16 bits: of a wider field it shows the lowest.  Of
\* the fields that are passed to it, three are wider; this is their number in a row.
Low16(k) == All - k

\* Consecutive fields of one bit each, from field k on.
Flags(lo, hi, k) == {<<b, b, k + b - lo>> : b \in lo..hi}
Flag(lo, k)      == Field(lo, lo, k)

Content(layout, parts) == [layout |-> layout, rows |-> UNION parts]

\* Tables of different registers as one.
Merged(tables) ==
  [r \in UNION {DOMAIN t : t \in tables} |-> (CHOOSE t \in tables : r \in DOMAIN t)[r]]

Number(layout) == {Content(layout, {Field(0, Bits(layout) - 1, All)})}

\* A value split into parts, <<printed width, field>> from the highest bit down.
Box(layout, parts) ==
  LET widths   == [k \in DOMAIN parts |-> parts[k][1]]
      Above(k) == Bits(widths) - Position(widths, k)
  IN  Content(layout,
        {Field(Above(k + 1), Above(k) - 1, parts[k][2]) : k \in DOMAIN parts})

-----------------------------------------------------------------------------
(***************************************************************************)
(* The header.                                                             *)
(***************************************************************************)

IDNumbers == [vid |-> Number(RegVendorID), dev_id |-> Number(RegDeviceID)]

RegInfoCommandComp ==
  Content(RegCommand, {Flags(0, 2, 1), Rsvd(3, 5), Flag(6, 5), Rsvd(7, 7), Flag(8, 7),
                       Rsvd(9, 9), Flag(10, 9), Rsvd(11, 15)})

RegInfoStatusComp ==
  Content(RegStatus, {Flag(0, 1), Rsvd(1, 2), Flags(3, 4, 3), Rsvd(5, 7), Flag(8, 6),
                      Rsvd(9, 10), Flags(11, 15, 8)})

RegInfoCCComp == Box(RegClassCode, <<<<8, 3>>, <<8, 2>>, <<8, 1>>>>)

TimerNumbers ==
  [cache_line_size |-> Number(RegCacheLineSize), latency_timer |-> Number(RegLatTimer)]

RegInfoHdrTypeComp == Content(RegHdrType, {Field(0, 6, 1), Flag(7, 2)})

RegInfoBISTComp == Content(RegBIST, {Field(0, 3, 1), Rsvd(4, 5), Flags(6, 7, 3)})

\* By UIBarElemType.
GetBarElem ==
  [Empty   |-> Box(<<32>>, <<<<32, 1>>>>),
   IoSpace |-> Box(RegBARIo, <<<<30, 3>>, <<1, None>>, <<1, 1>>>>),
   Memory  |-> Box(RegBARMem, <<<<28, 4>>, <<1, 3>>, <<2, 2>>, <<1, 1>>>>),
   Exp     |-> Box(RegExpROMBar, <<<<21, 3>>, <<10, 2>>, <<1, 1>>>>)]

\* Which one depends on the resource the system has for the BAR.
RegInfoBARComp == {GetBarElem.IoSpace, GetBarElem.Empty, GetBarElem.Memory}

SubsysNumbers ==
  [cardbus_cis_ptr |-> Number(RegCardbusCIS), subsys_vid |-> Number(RegSubsysVID),
   subsys_dev_id |-> Number(RegSubsysID)]

RegInfoExpROMComp == {GetBarElem.Exp, GetBarElem.Empty}

InterruptNumbers ==
  [cap_ptr |-> Number(RegCapPtr), itr_line |-> Number(RegItrLine),
   itr_pin |-> Number(RegItrPin)]

Type0Numbers == [min_gnt |-> Number(RegMinGnt), max_lat |-> Number(RegMaxLat)]

BusNumbers ==
  [prim_bus_num |-> Number(RegPrimBusNum), sec_bus_num |-> Number(RegSecBusNum),
   sub_bus_num |-> Number(RegSubBusNum), sec_lat_timer |-> Number(RegLatTimer)]

\* The windows of a bridge: a number if there is none, else the address and what its width
\* is.
IOWindow ==
  [io_base  |-> Number(<<8>>) \cup {Box(RegIOBase, <<<<4, 2>>, <<4, 1>>>>)},
   io_limit |-> Number(<<8>>) \cup {Box(RegIOLimit, <<<<4, 2>>, <<4, 1>>>>)}]

UpperIOWindow ==
  [io_base_upper |-> Number(RegIOUpperBL), io_limit_upper |-> Number(RegIOUpperBL)]

RegInfoSecStatusComp ==
  Content(RegSecStatus, {Rsvd(0, 4), Flag(5, 2), Rsvd(6, 6), Flags(7, 8, 4), Field(9, 10, 6),
                         Flags(11, 15, 7)})

MemoryWindow ==
  [r \in {"mem_base", "mem_limit"} |->
     Number(<<16>>) \cup {Box(RegMemBL, <<<<12, 2>>, <<4, 1>>>>)}]

PrefetchableWindow ==
  [r \in {"pref_mem_base", "pref_mem_limit"} |->
     Number(<<16>>) \cup {Box(RegPrefMemBL, <<<<12, 2>>, <<4, 1>>>>)}]

UpperPrefetchableWindow ==
  [r \in {"pref_base_upper", "pref_limit_upper"} |-> Number(<<32>>)]

RegInfoBridgeCtrlComp == Content(RegBridgeCtl, {Flags(0, 11, 1)})

\* CompatRegInfoComponent.
HeaderContents ==
  Merged({IDNumbers, TimerNumbers, SubsysNumbers, InterruptNumbers, Type0Numbers,
          BusNumbers, IOWindow, UpperIOWindow, MemoryWindow, PrefetchableWindow,
          UpperPrefetchableWindow,
          [command |-> {RegInfoCommandComp}, status |-> {RegInfoStatusComp},
           revision |-> Number(RegRevID), class_code |-> {RegInfoCCComp},
           header_type |-> {RegInfoHdrTypeComp}, bist |-> {RegInfoBISTComp},
           exp_rom_bar |-> RegInfoExpROMComp, sec_status |-> {RegInfoSecStatusComp},
           bridge_ctl |-> {RegInfoBridgeCtrlComp}],
          [r \in Bars |-> RegInfoBARComp]})

\* The registers that are the same for both types are made and read by Type0Cfg.
Common == {"vid", "dev_id", "command", "status", "revision", "class_code",
           "cache_line_size", "latency_timer", "header_type", "bist"}

RegTypeLabel(type, reg) ==
  IF type = "TYPE0" \/ reg \in Common THEN Type0Cfg[reg] ELSE Type1Cfg[reg]

Type0Getter(reg) == get_reg_compat(Type0Cfg[reg], t0_reg_map[reg])
Type1Getter(reg) == get_reg_compat(Type1Cfg[reg], t1_reg_map[reg])

Getter(type, reg) ==
  IF type = "TYPE0" \/ reg \in Common \cup {"cap_ptr", "itr_line", "itr_pin"}
    THEN Type0Getter(reg) ELSE Type1Getter(reg)

\* The description of BIST is made for the type of the header.
TitledAs(reg) == IF reg = "bist" THEN "header_type" ELSE reg

\* Offsets are in bytes, at and len in bits.
HeaderText(type, reg) ==
  [button |-> RegTypeLabel(type, reg), title |-> RegTypeLabel(type, TitledAs(reg)),
   at |-> Getter(type, reg).at, len |-> Getter(type, reg).len,
   contents |-> HeaderContents[reg]]

-----------------------------------------------------------------------------
(***************************************************************************)
(* Capabilities.                                                           *)
(***************************************************************************)

Text(off, at, len, content) ==
  [button |-> off, title |-> off, at |-> at, len |-> len, contents |-> {content}]

\* The register a structure has under this name.
Member(cap, off, name, rows) ==
  Text(off, 8 * OffsetOf(cap, name), 8 * SizeOf(LayoutOf(cap, name)),
       Content(LayoutOf(cap, name), rows))

\* Something read at an offset the code computes.
Raw(off, len, content) == Text(off, 8 * off, len, content)

\* Seeded fault: a line is completed only when it is full.
GetHexDumpElem_FullLines(len, bytes_per_line) ==
  {(n * bytes_per_line)..((n + 1) * bytes_per_line - 1) : n \in 0..(len \div bytes_per_line - 1)}

\* The bytes in lines.  A line is completed when the next one begins; the last one is
\* filled up first, to the position after its last column, which does not begin a line
\* unless lines have a single byte.
GetHexDumpElem(len, bytes_per_line) ==
  LET full == (len - 1) \div bytes_per_line
      Line(n) == (n * bytes_per_line)..(Min({(n + 1) * bytes_per_line, len}) - 1)
      last == IF 1 % bytes_per_line # 0 THEN full ELSE full - 1
  IN  IF len = 0 THEN {} ELSE {Line(n) : n \in 0..last}

Dump(len, bytes_per_line) ==
  LET shown == Cardinality(UNION GetHexDumpElem(len, bytes_per_line))
  IN  Content(<<8 * len>>, {Field(0, 8 * shown - 1, All)})

\* len is that of the capability, and taken as that of the data behind its header.
VendorSpecTexts(len) ==
  [vendor_spec |-> Text(CapSize(CompatCapVendorSpec), 8 * CapSize(CompatCapVendorSpec),
                        8 * len, Dump(len, 16))]

PMTexts ==
  [pmcap |-> Member(PciPMCap, 2, "pmcap",
               {Field(0, 2, 1), Flags(3, 5, 2), Field(6, 8, 5), Flags(9, 10, 6),
                Field(11, 15, 8)}),
   pmcs  |-> Member(PciPMCap, 4, "pmcs",
               {Field(0, 1, 1), Rsvd(2, 2), Flag(3, 3), Rsvd(4, 7), Flag(8, 5),
                Field(9, 12, 6), Field(13, 14, 7), Flag(15, 8), Rsvd(16, 23),
                Field(24, 31, 12)})]

MSIMessageControl ==
  Raw(2, 16, Content(RegMSIMsgCtrl, {Flag(0, 1), Field(1, 3, 2), Field(4, 6, 3),
                                     Flags(7, 10, 4), Rsvd(11, 15)}))

\* All of the address is printed where its upper 30 bits are meant.
MSILowerAddress == Raw(4, 32, Box(<<2, 30>>, <<<<30, All>>, <<2, 1>>>>))

\* Seeded fault: the data follows two dwords of address whatever the capability has.
MSIDataOff_Fixed(addr_64_bit) == 12

MSIDataOff(addr_64_bit) == IF addr_64_bit THEN 12 ELSE 8
MSIMaskOff(addr_64_bit) == IF addr_64_bit THEN 16 ELSE 12

Value(off, len) == Raw(off, len, Content(<<len>>, {Field(0, len - 1, 1)}))

MSITexts(addr_64_bit) ==
  [msg_ctrl |-> MSIMessageControl, msg_addr |-> MSILowerAddress,
   msg_addr_lower |-> MSILowerAddress, msg_addr_upper |-> Value(8, 32),
   msg_data     |-> Value(MSIDataOff(addr_64_bit), 16),
   ext_msg_data |-> Value(MSIDataOff(addr_64_bit) + 2, 16),
   mask_bits    |-> Value(MSIMaskOff(addr_64_bit), 32),
   pending_bits |-> Value(MSIMaskOff(addr_64_bit) + 4, 32)]

MSIxTexts ==
  [msg_ctrl |-> Member(PciMSIxCap, 2, "msg_ctrl",
                  {Field(0, 10, 1), Rsvd(11, 13), Flags(14, 15, 3)}),
   tbl_off  |-> Member(PciMSIxCap, 4, "tbl_off_id", {Field(0, 2, 1), Field(3, 31, 2)}),
   pba_off  |-> Member(PciMSIxCap, 8, "pba_off_id", {Field(0, 2, 1), Field(3, 31, 2)})]

-----------------------------------------------------------------------------
(***************************************************************************)
(* The Express capability.                                                 *)
(***************************************************************************)

PCIe(off, name, rows) == Member(PciECap, off, name, rows)

PCIeCapText ==
  PCIe(2, "pcie_cap_reg",
       {Field(0, 3, 1), Field(4, 7, 2), Flag(8, 3), Field(9, 13, 4), Rsvd(14, 15)})

DevCapText ==
  PCIe(4, "dev_cap",
       {Field(0, 2, 1), Field(3, 4, 2), Flag(5, 3), Field(6, 8, 4), Field(9, 11, 5),
        Rsvd(12, 14), Flag(15, 7), Rsvd(16, 17), Field(18, 25, 8), Field(26, 27, 9),
        Flag(28, 10), Rsvd(29, 31)})

DevCtlText ==
  PCIe(8, "dev_ctl",
       {Flags(0, 4, 1), Field(5, 7, 6), Flags(8, 11, 7), Field(12, 14, 11), Flag(15, 12)})

DevStatusText == PCIe(10, "dev_status", {Flags(0, 6, 1), Rsvd(7, 15)})

LinkCapText ==
  PCIe(12, "link_cap",
       {Field(0, 3, 1), Field(4, 9, 2), Field(10, 11, 3), Field(12, 14, 4),
        Field(15, 17, 5), Flags(18, 22, 6), Field(23, 31, 12)})

LinkCtlText ==
  PCIe(16, "link_ctl",
       {Field(0, 1, 1), Rsvd(2, 2), Flags(3, 11, 3), Rsvd(12, 13), Field(14, 15, 13)})

LinkStatusText ==
  PCIe(18, "link_status",
       {Field(0, 3, 1), Field(4, 9, 2), Rsvd(10, 10), Flags(11, 12, 4), Flag(13, 5),
        Flags(14, 15, 7)})

SlotCapText ==
  PCIe(20, "slot_cap",
       {Flags(0, 6, 1), Field(7, 14, 8), Field(15, 16, 8), Flags(17, 18, 10),
        Field(19, 31, 12)})

SlotStatusText == PCIe(26, "slot_status", {Flags(0, 8, 1), Rsvd(9, 15)})

SlotCtlText ==
  PCIe(24, "slot_ctl",
       {Flags(0, 5, 1), Field(6, 7, 7), Field(8, 9, 8), Flag(10, 9), Rsvd(11, 11),
        Flags(12, 13, 11), Rsvd(14, 15)})

RootCapText == PCIe(30, "root_cap", {Flag(0, 1), Rsvd(1, 15)})

RootCtlText == PCIe(28, "root_ctl", {Flags(0, 4, 1), Rsvd(5, 15)})

RootStatusText ==
  PCIe(32, "root_status", {Field(0, 15, 1), Flags(16, 17, 2), Rsvd(18, 31)})

DevCap2Text ==
  PCIe(36, "dev_cap2",
       {Field(0, 3, 1), Flags(4, 11, 2), Field(12, 13, 10), Field(14, 15, 11),
        Flags(16, 17, 12), Field(18, 19, 14), Flags(20, 21, 15), Field(22, 23, 17),
        Field(24, 25, 18), Flag(26, 19), Rsvd(27, 30), Flag(31, 21)})

DevCtl2Text ==
  PCIe(40, "dev_ctl2", {Field(0, 3, 1), Flags(4, 12, 2), Field(13, 14, 11), Flag(15, 12)})

LinkCap2Text ==
  PCIe(44, "link_cap2",
       {Rsvd(0, 0), Field(1, 7, 2), Flag(8, 3), Field(9, 15, 4), Field(16, 22, 5),
        Flags(23, 24, 6), Rsvd(25, 30), Flag(31, 9)})

LinkStatus2Text ==
  PCIe(50, "link_status2",
       {Flags(0, 7, 1), Field(8, 9, 9), Rsvd(10, 11), Field(12, 14, 11), Flag(15, 12)})

LinkCtl2Text ==
  PCIe(48, "link_ctl2",
       {Field(0, 3, 1), Flags(4, 6, 2), Field(7, 9, 5), Flags(10, 11, 6), Field(12, 15, 8)})

PCIeTexts ==
  [pcie_cap |-> PCIeCapText, dev_cap |-> DevCapText, dev_ctl |-> DevCtlText,
   dev_status |-> DevStatusText, link_cap |-> LinkCapText, link_ctl |-> LinkCtlText,
   link_status |-> LinkStatusText, slot_cap |-> SlotCapText, slot_ctl |-> SlotCtlText,
   slot_status |-> SlotStatusText, root_cap |-> RootCapText, root_ctl |-> RootCtlText,
   root_status |-> RootStatusText, dev_cap_2 |-> DevCap2Text, dev_ctl2 |-> DevCtl2Text,
   link_cap2 |-> LinkCap2Text, link_ctl2 |-> LinkCtl2Text,
   link_status2 |-> LinkStatus2Text]

-----------------------------------------------------------------------------
(***************************************************************************)
(* Extended capabilities.                                                  *)
(***************************************************************************)

\* The control of a lane is read from the start of the capability on, and titled as if it
\* were read from behind the other registers.
LaneText(lane) ==
  [button |-> 12, title |-> 12 + 2 * lane, at |-> 16 * lane, len |-> 16,
   contents |-> {Content(RegLaneEqCtl, {Field(0, 3, 1), Field(4, 6, 2), Rsvd(7, 7),
                          Field(8, 11, 4), Field(4, 6, 5), Rsvd(15, 15)})}]

\* The number of the lane errors; the text below it has the other bits as well.
SecondaryPCIETexts ==
  [link_ctl3     |-> Member(SecPciECap, 4, "link_ctl3",
                       {Flags(0, 1, 1), Rsvd(2, 8), Field(9, 15, 4), Rsvd(16, 31)}),
   lane_err_stat |-> Member(SecPciECap, 8, "lane_err_stat", {Field(0, 31, Low16(1))})]

DataLinkFeatureTexts ==
  [dlink_feat_cap  |-> Member(DataLinkFeatureCap, 4, "dlink_feat_cap",
                         {Field(0, 22, Low16(1)), Rsvd(23, 30), Flag(31, 3)}),
   dlink_feat_stat |-> Member(DataLinkFeatureCap, 8, "dlink_feat_stat",
                         {Field(0, 22, Low16(1)), Rsvd(23, 30), Flag(31, 3)})]

ARITexts ==
  [ari_cap |-> Member(ARICap, 4, "ari_cap", {Flags(0, 1, 1), Rsvd(2, 7), Field(8, 15, 4)}),
   ari_ctl |-> Member(ARICap, 6, "ari_ctl",
                 {Flags(0, 1, 1), Rsvd(2, 3), Field(4, 6, 4), Rsvd(7, 15)})]

PASIDTexts ==
  [pasid_cap |-> Member(PASIDCap, 4, "pasid_cap",
                   {Rsvd(0, 0), Flags(1, 2, 2), Rsvd(3, 7), Field(8, 12, 5), Rsvd(13, 15)}),
   pasid_ctl |-> Member(PASIDCap, 6, "pasid_ctl", {Flags(0, 2, 1), Rsvd(3, 15)})]

AERUncorrRows == {Rsvd(0, 3), Flags(4, 5, 2), Rsvd(6, 11), Flags(12, 26, 5), Rsvd(27, 31)}

AERUncorrTexts ==
  [uncorr_err_stat |-> Member(AERCap, 4, "uncorr_err_status", AERUncorrRows),
   uncorr_err_mask |-> Member(AERCap, 8, "uncorr_err_mask", AERUncorrRows),
   uncorr_err_sev  |-> Member(AERCap, 12, "uncorr_err_sev", AERUncorrRows)]

AERCorrRows ==
  {Flag(0, 1), Rsvd(1, 5), Flags(6, 8, 3), Rsvd(9, 11), Flags(12, 15, 7), Rsvd(16, 31)}

AERCorrTexts ==
  [corr_err_stat |-> Member(AERCap, 16, "corr_err_status", AERCorrRows),
   corr_err_mask |-> Member(AERCap, 20, "corr_err_mask", AERCorrRows)]

AERCtlText ==
  Member(AERCap, 24, "adv_err_cap_ctl", {Field(0, 4, 1), Flags(5, 12, 2), Rsvd(13, 31)})

HdrLogText == Text(28, 8 * OffsetOf(AERCap, "hdr_log"), 128, Dump(16, 4))

RootErrCmdText ==
  Member(AERCap, 44, "root_err_cmd", {Flag(0, 3), Flag(1, 2), Flag(2, 1), Rsvd(3, 31)})

RootErrStatusText ==
  Member(AERCap, 48, "root_err_status", {Flags(0, 6, 1), Rsvd(7, 26), Field(27, 31, 9)})

\* Two registers.
ErrSrcIDText ==
  Text(52, 8 * OffsetOf(AERCap, "corr_err_src_id"), 32,
       Content(LayoutOf(AERCap, "corr_err_src_id") \o LayoutOf(AERCap, "err_src_id"),
               {Field(0, 15, 1), Field(16, 31, 2)}))

TLPPrefLogText == Text(56, 8 * OffsetOf(AERCap, "tlp_pref_log"), 128, Dump(16, 4))

AERTexts ==
  Merged({AERUncorrTexts, AERCorrTexts,
          [adv_err_cap_ctl |-> AERCtlText, hdr_log |-> HdrLogText,
           root_err_cmd |-> RootErrCmdText, root_err_status |-> RootErrStatusText,
           err_src_id |-> ErrSrcIDText, tlp_pref_log |-> TLPPrefLogText]})

-----------------------------------------------------------------------------

\* The bits of configuration space a row says it shows, from the start of the header or
\* capability, and those it does show.
LabelBits(text, row) == (8 * text.title + row[1])..(8 * text.title + row[2])

ReadBits(text, layout, row) ==
  LET cut   == row[3] < All
      k     == IF cut THEN All - row[3] ELSE row[3]
      first == IF k = All THEN 0 ELSE Position(layout, k)
      width == IF k = All THEN Bits(layout) ELSE layout[k]
      shown == IF cut THEN Min({width, 16}) ELSE width
  IN  {text.at + b : b \in first..(Min({first + shown, text.len}) - 1)}
=============================================================================
