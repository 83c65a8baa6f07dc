---------------------------- MODULE RegComponents ----------------------------
(***************************************************************************)
(* What PCIRegsComponent::CreateComponent builds for a device it displays  *)
(* for the first time: for the header and for each capability, buttons in  *)
(* the upper half of the pane and register descriptions in the lower one   *)
(* (src/ui/common_comp.cpp, compat_cap_comp.cpp, ext_cap_comp.cpp).  A     *)
(* button and the descriptions of its register find each other by pointing *)
(* to one element of vis_state_.  Each capability first appends the        *)
(* elements it believes to need and then counts them out, button by        *)
(* button; descriptions take theirs by counting back.                      *)
(*                                                                         *)
(* What the descriptions say is in RegTexts.  Buttons that point nowhere   *)
(* are left out.                                                           *)
(***************************************************************************)
EXTENDS RegTexts, SequencesExt

CONSTANTS
  Descs,               \* the devices that can be displayed
  InteractiveElemMax,  \* interactive_elem_max_
  MaxOpen,             \* bound: registers open at a time
  NoDevice             \* none is displayed

\* The parts of the Express capability that are shown if their dword is not zero, and
\* other facts that decide what a capability shows.
Dwords == {"link_cap", "link_ctl", "slot_cap", "slot_ctl", "root_ctl", "root_status",
           "dev_cap_2", "dev_ctl2", "link_cap2", "link_ctl2"}
Facts == Dwords \cup {"addr_64_bit", "per_vector_mask", "root_port", "speed_8gt",
                      "tlp_pref_log"}

CompatIDs == 0..21   \* CompatCapID
ExtIDs    == 0..44   \* ExtCapID

Compat(id) == <<"compat", id>>
Ext(id)    == <<"extended", id>>

\* caps is caps_, lanes the maximum link width, and vendor_len the length of a vendor's
\* capability.  A link has lanes, and only a link supports a speed.
ASSUME DescsAssumption ==
  /\ \A d \in Descs :
       /\ d.type \in {"TYPE0", "TYPE1"} /\ d.facts \subseteq Facts /\ d.lanes \in 0..63
       /\ d.vendor_len \in 1..255
       /\ d.caps \in Seq({"compat", "extended"} \X Nat)
       /\ d.lanes > 0 <=> "link_cap" \in d.facts
       /\ "speed_8gt" \in d.facts => {"link_cap", "link_cap2"} \subseteq d.facts
  /\ InteractiveElemMax \in Nat /\ MaxOpen \in Nat
  /\ NoDevice \notin Descs

\* The places in caps_ of capabilities among caps.
Places(d, caps) == {i \in DOMAIN d.caps : d.caps[i] \in caps}

\* Those of which components are made, without the one whose registers are as many as
\* the link has lanes.
WithRegisters == {Compat(1), Compat(5), Compat(9), Compat(16), Compat(17),
                  Ext(1), Ext(14), Ext(27), Ext(37)}

\* Nothing compares a device with the elements that are reserved.  The 1024 of the code
\* hold the header, the capability with 63 lanes, and 42 others with registers.
ASSUME RoomAssumption ==
  \A d \in Descs :
    32 + 65 * Cardinality(Places(d, {Ext(25)})) + 22 * Cardinality(Places(d, WithRegisters))
      <= InteractiveElemMax

VARIABLES
  dev,      \* cur_dev_
  pc,       \* "header", "caps", "ready", or "aborted"
  next,     \* the position in caps_
  vis,      \* vis_state_
  buttons,  \* the buttons
  infos     \* the register descriptions

vars == <<dev, pc, next, vis, buttons, infos>>

-----------------------------------------------------------------------------
(***************************************************************************)
(* What the creators of components add, in rows.  Once a row's buttons     *)
(* have taken their elements, the description of a register points back    *)
(* from the next free one.                                                 *)
(***************************************************************************)

RowOf(regs, back) ==
  [buttons |-> regs,
   infos   |-> [k \in DOMAIN regs |-> [reg |-> regs[k], back |-> back[k]]]]

Row(regs, back) == <<RowOf(regs, back)>>

\* A row for each.
Ones(regs) == [k \in DOMAIN regs |-> RowOf(<<regs[k]>>, <<1>>)]

When(cond, rows) == IF cond THEN rows ELSE << >>

\* NotImplCap and everything else that has no registers.
NotImplCap == [count |-> 0, rows |-> << >>]

HeaderCommon ==
  Row(<<"dev_id", "vid">>, <<2, 1>>) \o Row(<<"status", "command">>, <<2, 1>>)
  \o Row(<<"class_code", "revision">>, <<2, 1>>)
  \o Row(<<"bist", "header_type", "latency_timer", "cache_line_size">>, <<4, 3, 2, 1>>)

HeaderType0 ==
  Ones(<<"bar0", "bar1", "bar2", "bar3", "bar4", "bar5", "cardbus_cis_ptr">>)
  \o Row(<<"subsys_dev_id", "subsys_vid">>, <<2, 1>>)
  \o Ones(<<"exp_rom_bar", "cap_ptr">>)
  \o Row(<<"max_lat", "min_gnt", "itr_pin", "itr_line">>, <<4, 3, 2, 1>>)

HeaderType1 ==
  Ones(<<"bar0", "bar1">>)
  \o Row(<<"sec_lat_timer", "sub_bus_num", "sec_bus_num", "prim_bus_num">>, <<4, 3, 2, 1>>)
  \o Row(<<"sec_status", "io_limit", "io_base">>, <<3, 2, 1>>)
  \o Row(<<"mem_limit", "mem_base">>, <<2, 1>>)
  \o Row(<<"pref_mem_limit", "pref_mem_base">>, <<2, 1>>)
  \o Ones(<<"pref_base_upper", "pref_limit_upper">>)
  \o Row(<<"io_limit_upper", "io_base_upper">>, <<2, 1>>)
  \o Ones(<<"cap_ptr", "exp_rom_bar">>)
  \o Row(<<"bridge_ctl", "itr_pin", "itr_line">>, <<3, 2, 1>>)

CompatHeader(d) ==
  [count |-> IF d.type = "TYPE0" THEN 25 ELSE 32,
   rows  |-> HeaderCommon \o IF d.type = "TYPE0" THEN HeaderType0 ELSE HeaderType1]

CompatVendorSpecCap == [count |-> 1, rows |-> Ones(<<"vendor_spec">>)]

\* The buttons are two rows, the descriptions follow both.
CompatPMCap == [count |-> 2, rows |-> Row(<<"pmcap", "pmcs">>, <<2, 1>>)]

MSIAddress(d) ==
  IF "addr_64_bit" \in d.facts THEN Row(<<"msg_addr_lower", "msg_addr_upper">>, <<2, 1>>)
                               ELSE Ones(<<"msg_addr">>)

\* Seeded fault: one element too few is appended for the data registers.
CompatMSICap_OneShort(d) ==
  [count |-> 1 + Len(MSIAddress(d)[1].buttons) + 1
               + IF "per_vector_mask" \in d.facts THEN 2 ELSE 0,
   rows  |-> Ones(<<"msg_ctrl">>) \o MSIAddress(d)
             \o Row(<<"ext_msg_data", "msg_data">>, <<2, 1>>)
             \o When("per_vector_mask" \in d.facts,
                     Row(<<"mask_bits", "pending_bits">>, <<2, 1>>))]

\* The elements are appended as they are needed.
CompatMSICap(d) ==
  [count |-> 1 + Len(MSIAddress(d)[1].buttons) + 2
               + IF "per_vector_mask" \in d.facts THEN 2 ELSE 0,
   rows  |-> Ones(<<"msg_ctrl">>) \o MSIAddress(d)
             \o Row(<<"ext_msg_data", "msg_data">>, <<2, 1>>)
             \o When("per_vector_mask" \in d.facts,
                     Row(<<"mask_bits", "pending_bits">>, <<2, 1>>))]

ExpressDevice ==
  Ones(<<"pcie_cap", "dev_cap">>) \o Row(<<"dev_status", "dev_ctl">>, <<2, 1>>)

\* Seeded fault: the descriptions take the elements in the order they are added in.
ExpressLink_Swapped(d) ==
  When("link_cap" \in d.facts, Ones(<<"link_cap">>))
  \o When("link_ctl" \in d.facts, Row(<<"link_status", "link_ctl">>, <<1, 2>>))

ExpressLink(d) ==
  When("link_cap" \in d.facts, Ones(<<"link_cap">>))
  \o When("link_ctl" \in d.facts, Row(<<"link_status", "link_ctl">>, <<2, 1>>))

ExpressSlot(d) ==
  When("slot_cap" \in d.facts, Ones(<<"slot_cap">>))
  \o When("slot_ctl" \in d.facts, Row(<<"slot_status", "slot_ctl">>, <<2, 1>>))

ExpressRoot(d) ==
  When("root_ctl" \in d.facts, Row(<<"root_cap", "root_ctl">>, <<2, 1>>))
  \o When("root_status" \in d.facts, Ones(<<"root_status">>))

ExpressDevice2(d) ==
  When("dev_cap_2" \in d.facts, Ones(<<"dev_cap_2">>))
  \o When("dev_ctl2" \in d.facts, Ones(<<"dev_ctl2">>))

ExpressLink2(d) ==
  When("link_cap2" \in d.facts, Ones(<<"link_cap2">>))
  \o When("link_ctl2" \in d.facts, Row(<<"link_status2", "link_ctl2">>, <<2, 1>>))

CompatPCIECap(d) ==
  [count |-> 22,
   rows  |-> ExpressDevice \o ExpressLink(d) \o ExpressSlot(d) \o ExpressRoot(d)
             \o ExpressDevice2(d) \o ExpressLink2(d)]

\* Seeded fault: the last description points one element too far back.
CompatMSIxCap_Behind ==
  [count |-> 3, rows |-> Ones(<<"msg_ctrl", "tbl_off">>) \o Row(<<"pba_off">>, <<2>>)]

CompatMSIxCap ==
  [count |-> 3, rows |-> Ones(<<"msg_ctrl", "tbl_off", "pba_off">>)]

\* The offset of the Express capability is 0: the device has none.
NoExpress(d) == Compat(16) \notin ToSet(d.caps)

\* Seeded fault: the two registers that are not one per lane are not counted.
ExtSecondaryPCIECap_LanesOnly(d) ==
  IF NoExpress(d) THEN NotImplCap ELSE
  [count |-> d.lanes,
   rows  |-> Ones(<<"link_ctl3", "lane_err_stat">>)
             \o When("speed_8gt" \in d.facts,
                     <<[buttons |-> <<"lane_eq_ctl">>,
                        infos   |-> [k \in 1..d.lanes |->
                                       [reg |-> "lane_eq_ctl", back |-> 1]]]>>)]

\* One element is appended for each lane; one button shows them all.
ExtSecondaryPCIECap(d) ==
  IF NoExpress(d) THEN NotImplCap ELSE
  [count |-> 2 + d.lanes,
   rows  |-> Ones(<<"link_ctl3", "lane_err_stat">>)
             \o When("speed_8gt" \in d.facts,
                     <<[buttons |-> <<"lane_eq_ctl">>,
                        infos   |-> [k \in 1..d.lanes |->
                                       [reg |-> "lane_eq_ctl", back |-> 1]]]>>)]

ExtDataLinkFeatureCap ==
  [count |-> 2, rows |-> Ones(<<"dlink_feat_cap", "dlink_feat_stat">>)]

ExtARICap == [count |-> 2, rows |-> Ones(<<"ari_cap", "ari_ctl">>)]

ExtPASIDCap == [count |-> 2, rows |-> Ones(<<"pasid_cap", "pasid_ctl">>)]

AERErrors ==
  Ones(<<"uncorr_err_stat", "uncorr_err_mask", "uncorr_err_sev", "corr_err_stat",
         "corr_err_mask", "adv_err_cap_ctl", "hdr_log">>)

AERRoot(d) ==
  When("root_port" \in d.facts, Ones(<<"root_err_cmd", "root_err_status", "err_src_id">>))

AERPrefixLog(d) == When("tlp_pref_log" \in d.facts, Ones(<<"tlp_pref_log">>))

ExtAERCap(d) ==
  IF NoExpress(d) THEN NotImplCap ELSE
  [count |-> 12, rows |-> AERErrors \o AERRoot(d) \o AERPrefixLog(d)]

GetCompatCapComponents(d, id) ==
  CASE id = 1  -> CompatPMCap
    [] id = 5  -> CompatMSICap(d)
    [] id = 9  -> CompatVendorSpecCap
    [] id = 16 -> CompatPCIECap(d)
    [] id = 17 -> CompatMSIxCap
    [] OTHER   -> NotImplCap

GetExtendedCapComponents(d, id) ==
  CASE id = 1  -> ExtAERCap(d)
    [] id = 14 -> ExtARICap
    [] id = 25 -> ExtSecondaryPCIECap(d)
    [] id = 27 -> ExtPASIDCap
    [] id = 37 -> ExtDataLinkFeatureCap
    [] OTHER   -> NotImplCap

-----------------------------------------------------------------------------

Init ==
  /\ dev \in Descs
  /\ pc = "header" /\ next = 1
  /\ vis = << >> /\ buttons = {} /\ infos = {}

\* The buttons of the rows before the r-th, and how many elements they have taken.
ButtonsBefore(rows, r) == UNION {{q} \X DOMAIN rows[q].buttons : q \in 1..(r - 1)}

Taken(rows, r) == Cardinality(ButtonsBefore(rows, r))

\* The elements behind the first start ones go to the buttons in turn; a row's
\* descriptions count back from those that it and the rows before it have taken.
ButtonsOf(of, rows, start) ==
  UNION {{[of |-> <<of, rows[r].buttons[k]>>, at |-> start + Taken(rows, r) + k] :
            k \in DOMAIN rows[r].buttons} : r \in DOMAIN rows}

InfosOf(of, rows, start) ==
  UNION {{[of |-> <<of, rows[r].infos[k].reg>>, nr |-> k,
           at |-> start + Taken(rows, r + 1) + 1 - rows[r].infos[k].back] :
            k \in DOMAIN rows[r].infos} : r \in DOMAIN rows}

\* Appends the elements, then makes the components of the of-th capability.
Add(of, comps) ==
  /\ vis'     = vis \o [k \in 1..comps.count |-> 0]
  /\ buttons' = buttons \cup ButtonsOf(of, comps.rows, Len(vis))
  /\ infos'   = infos \cup InfosOf(of, comps.rows, Len(vis))
  /\ UNCHANGED dev

AddCompatHeaderRegs ==
  /\ pc = "header" /\ pc' = "caps"
  /\ Add(0, CompatHeader(dev))
  /\ UNCHANGED next

AddCapability ==
  /\ pc = "caps" /\ next <= Len(dev.caps)
  /\ LET type == dev.caps[next][1]
         id   == dev.caps[next][2]
     IN  \/ type = "compat" /\ id \in CompatIDs
            /\ Add(next, GetCompatCapComponents(dev, id))
         \/ type = "extended" /\ id \in ExtIDs
            /\ Add(next, GetExtendedCapComponents(dev, id))
  /\ next' = next + 1
  /\ UNCHANGED pc

\* assert(false) for an id the enumeration does not have.
Abort ==
  /\ pc = "caps" /\ next <= Len(dev.caps)
  /\ dev.caps[next] \notin {"compat"} \X CompatIDs \cup {"extended"} \X ExtIDs
  /\ pc' = "aborted"
  /\ UNCHANGED <<dev, next, vis, buttons, infos>>

FinalizeComponent ==
  /\ pc = "caps" /\ next > Len(dev.caps)
  /\ pc' = "ready"
  /\ UNCHANGED <<dev, next, vis, buttons, infos>>

Lit(c) == vis[c.at] = 1

\* PushPullButton::OnEvent and the on_click of PPButton.
Press(b) ==
  /\ pc = "ready"
  /\ ~Lit(b) => Cardinality({k \in DOMAIN vis : vis[k] = 1}) < MaxOpen
  /\ vis' = [vis EXCEPT ![b.at] = IF @ = 1 THEN 0 ELSE 1]
  /\ UNCHANGED <<dev, pc, next, buttons, infos>>

\* ResetRegsVisibilityState.
Reset ==
  /\ pc = "ready"
  /\ vis' = [k \in DOMAIN vis |-> 0]
  /\ UNCHANGED <<dev, pc, next, buttons, infos>>

\* The process is gone.
Gone == pc = "aborted" /\ UNCHANGED vars

Next ==
  \/ AddCompatHeaderRegs
  \/ AddCapability
  \/ Abort
  \/ FinalizeComponent
  \/ \E b \in buttons : Press(b)
  \/ Reset
  \/ Gone

Spec == Init /\ [][Next]_vars

-----------------------------------------------------------------------------
(***************************************************************************)
(* What the descriptions say.                                              *)
(***************************************************************************)

CompatTexts(d, id) ==
  CASE id = 1  -> PMTexts
    [] id = 5  -> MSITexts("addr_64_bit" \in d.facts)
    [] id = 9  -> VendorSpecTexts(d.vendor_len)
    [] id = 16 -> PCIeTexts
    [] id = 17 -> MSIxTexts

ExtendedTexts(id, nr) ==
  CASE id = 1  -> AERTexts
    [] id = 14 -> ARITexts
    [] id = 25 -> Merged({[lane_eq_ctl |-> LaneText(nr - 1)], SecondaryPCIETexts})
    [] id = 27 -> PASIDTexts
    [] id = 37 -> DataLinkFeatureTexts

\* The text of the nr-th description of a register of dev, in its header or its of-th
\* capability.
TextOf(info) ==
  LET of  == info.of[1]
      reg == info.of[2]
  IN  IF of = 0 THEN HeaderText(dev.type, reg)
      ELSE IF dev.caps[of][1] = "compat" THEN CompatTexts(dev, dev.caps[of][2])[reg]
      ELSE ExtendedTexts(dev.caps[of][2], info.nr)[reg]

Shown == {i \in infos : Lit(i)}

-----------------------------------------------------------------------------
(***************************************************************************)
(* The registers that devices have.                                        *)
(***************************************************************************)

\* Those of a header are all in the map of its type; a bridge's latency timer is shown as
\* an endpoint's.
HeaderRegsOf(type) == IF type = "TYPE0" THEN DOMAIN Type0Cfg
                      ELSE (DOMAIN Type1Cfg \ {"prim_lat_timer"}) \cup {"latency_timer"}

ExpressRegs ==
  {"pcie_cap", "dev_cap", "dev_ctl", "dev_status", "link_cap", "link_ctl", "link_status",
   "slot_cap", "slot_ctl", "slot_status", "root_cap", "root_ctl", "root_status", "dev_cap_2",
   "dev_ctl2", "link_cap2", "link_ctl2", "link_status2"}
AERRegs ==
  {"uncorr_err_stat", "uncorr_err_mask", "uncorr_err_sev", "corr_err_stat", "corr_err_mask",
   "adv_err_cap_ctl", "hdr_log", "root_err_cmd", "root_err_status", "err_src_id",
   "tlp_pref_log"}

HasAddr64(d) == "addr_64_bit" \in d.facts
HasMasks(d)  == "per_vector_mask" \in d.facts

MSIRegs(addr_64_bit, per_vector_mask) ==
  {"msg_ctrl", "msg_data", "ext_msg_data"}
  \cup (IF addr_64_bit THEN {"msg_addr_lower", "msg_addr_upper"} ELSE {"msg_addr"})
  \cup (IF per_vector_mask THEN {"mask_bits", "pending_bits"} ELSE {})

\* The registers that can be shown of a capability, and those of the of-th one.
CompatRegs(d, id) ==
  CASE id = 1  -> {"pmcap", "pmcs"}
    [] id = 5  -> MSIRegs(HasAddr64(d), HasMasks(d))
    [] id = 9  -> {"vendor_spec"}
    [] id = 16 -> ExpressRegs
    [] id = 17 -> {"msg_ctrl", "tbl_off", "pba_off"}
    [] OTHER   -> {}

ExtendedRegs(id) ==
  CASE id = 1  -> AERRegs
    [] id = 14 -> {"ari_cap", "ari_ctl"}
    [] id = 25 -> {"link_ctl3", "lane_err_stat", "lane_eq_ctl"}
    [] id = 27 -> {"pasid_cap", "pasid_ctl"}
    [] id = 37 -> {"dlink_feat_cap", "dlink_feat_stat"}
    [] OTHER   -> {}

RegsOf(d, of) ==
  IF of = 0 THEN HeaderRegsOf(d.type)
  ELSE IF d.caps[of][1] = "compat" THEN CompatRegs(d, d.caps[of][2])
  ELSE ExtendedRegs(d.caps[of][2])

-----------------------------------------------------------------------------
(***************************************************************************)
(* Properties.                                                             *)
(***************************************************************************)

\* The values the variables can have.  Every pointer made so far is to an element that
\* is there, and the elements fit into the buffer that is reserved for them, so that
\* none of the pointers is invalidated by a later one.
TypeOK ==
  /\ dev \in Descs /\ next \in 1..(Len(dev.caps) + 1)
  /\ pc \in {"header", "caps", "ready", "aborted"}
  /\ vis \in Seq({0, 1}) /\ Len(vis) <= InteractiveElemMax
  /\ \A c \in buttons \cup infos :
       c.of[1] \in 0..Len(dev.caps) /\ c.at \in DOMAIN vis

\* A button looks pressed just when the descriptions of its own register are shown,
\* and each description has a button that shows it.
LitIffShown ==
  pc = "ready" =>
    /\ \A b \in buttons, i \in infos : b.of = i.of => Lit(b) = Lit(i)
    /\ {b.of : b \in buttons} = {i.of : i \in infos}

\* No two registers, of one capability or of two, open or close together: a press shows
\* or hides the descriptions of one register.
PressShowsOne ==
  [][\A b \in buttons :
       Press(b) => \A i \in infos : (Lit(i)' # Lit(i)) <=> i.of = b.of]_vars

\* As the abstract store sees the component: the registers a device has, the device that
\* is on the screen, and whose descriptions are shown.
RegistersOf(d) == UNION {{of} \X RegsOf(d, of) : of \in 0..Len(d.caps)}

Displayed == IF pc = "ready" THEN dev ELSE NoDevice

OpenRegs == [d \in Descs |-> IF d = Displayed THEN {i.of : i \in Shown} ELSE {}]

Store ==
  INSTANCE HighlightStore WITH
    Devices   <- Descs,
    Registers <- [d \in Descs |-> RegistersOf(d)],
    keep      <- TRUE,
    chosen    <- dev,
    displayed <- Displayed,
    open      <- OpenRegs

\* Through elements that are shared and pointers into them, the descriptions on the screen
\* are what the user has opened: all are closed when the device comes up, a press opens or
\* closes one register that the header or a capability has, and a reset closes all.
ImplementsHighlightStore == Store!Spec

\* The rows that do not show the bits they are labelled with, named by the first of
\* them: those behind two reserved bits RegDevCap lacks; the port number; a field that
\* is read in place of its neighbour; the error enables, whose order in their register is
\* the reverse; the low bits of an MSI address, for which all of it is printed; and three
\* numbers that are cut to 16 bits.
MislabelledRows ==
  [dev_cap |-> {18, 26, 28}, link_cap |-> {23}, link_ctl |-> {14}, link_status |-> {13},
   slot_cap |-> {15}, root_err_cmd |-> {0, 2}, msg_addr |-> {2}, msg_addr_lower |-> {2},
   lane_err_stat |-> {0}, dlink_feat_cap |-> {0}, dlink_feat_stat |-> {0}]

\* BIST is titled as the header type, and the control of a lane is read from elsewhere.
MislabelledRegs == {"bist", "lane_eq_ctl"}

Mislabelled(reg, row) ==
  \/ reg \in MislabelledRegs
  \/ reg \in DOMAIN MislabelledRows /\ row[1] \in MislabelledRows[reg]

RowTrue(text, layout, row) == LabelBits(text, row) = ReadBits(text, layout, row)

\* Each row of a description on the screen shows just the bits of configuration space
\* that its label and the title over it name, whatever pointer arithmetic and bit fields
\* it is read through and whatever width its number is passed in; the mislabelled rows,
\* and no others, show different ones.
LabelsTrue ==
  pc = "ready" =>
    \A i \in Shown : \A content \in TextOf(i).contents : \A row \in content.rows :
      row[3] # None =>
        (RowTrue(TextOf(i), content.layout, row) <=> ~Mislabelled(i.of[2], row))

\* No description leaves out a bit of its register or lists one twice, except that a
\* bridge's control register ends in reserved bits without a row and that the last preset
\* of a lane has the label of the first.
EveryBitLabelled ==
  pc = "ready" =>
    \A i \in Shown : \A content \in TextOf(i).contents :
      LET rows == content.rows
          Missing == {b \in 0..(TextOf(i).len - 1) : ~\E r \in rows : b \in r[1]..r[2]}
          Twice   == {b \in 0..(TextOf(i).len - 1) :
                        \E r, q \in rows : r # q /\ b \in r[1]..r[2] /\ b \in q[1]..q[2]}
      IN  /\ Missing = CASE i.of[2] = "bridge_ctl"  -> 12..15
                         [] i.of[2] = "lane_eq_ctl" -> 12..14
                         [] OTHER                   -> {}
          /\ Twice = IF i.of[2] = "lane_eq_ctl" THEN 4..6 ELSE {}
          /\ \A r \in rows : r[2] < TextOf(i).len

\* The bytes of the header or capability the description is titled with.
TitledBytes(info) ==
  TextOf(info).title..(TextOf(info).title + (TextOf(info).len - 1) \div 8)

\* The structure an MSI capability has, which the code does not use.
MSIStruct(d) == MSICap("addr_64_bit" \in d.facts, "per_vector_mask" \in d.facts)
MSIMember(reg) ==
  CASE reg = "msg_ctrl" -> "mc" [] reg = "msg_addr_lower" -> "msg_addr" [] OTHER -> reg

\* No byte has two registers: descriptions of one capability that are on the screen
\* together are of different bytes, unless they have one title by mistake; a button
\* names the byte that the first of its descriptions does; and the offsets the code
\* computes for an MSI capability are those of the structure with the same parts.
TitlesApart ==
  pc = "ready" =>
    \A i \in Shown :
      /\ i.nr = 1 \/ i.of[2] # "lane_eq_ctl"
           => (TextOf(i).button = TextOf(i).title <=> i.of[2] # "bist")
      /\ i.of[1] # 0 /\ dev.caps[i.of[1]] = Compat(5)
           => TextOf(i).title = OffsetOf(MSIStruct(dev), MSIMember(i.of[2]))
      /\ \A j \in Shown :
           i.of[1] = j.of[1] /\ i # j
             => (TitledBytes(i) \cap TitledBytes(j) = {}
                   <=> {i.of[2], j.of[2]} # {"bist", "header_type"})

\* RegFieldCompElem's rows are labelled "[lo : hi]": what they show is there.
RowsTrue ==
  pc = "ready" =>
    \A i \in Shown : \A content \in TextOf(i).contents : \A row \in content.rows :
      row[3] # None => RowTrue(TextOf(i), content.layout, row)
=============================================================================
