--------------------------- MODULE MCRegComponents ---------------------------
(***************************************************************************)
(* Instances of RegComponents for TLC: devices of the kinds that exist,    *)
(* with the facts that decide what is shown both true and false.           *)
(***************************************************************************)
EXTENDS RegComponents

Link == {"link_cap", "link_ctl", "link_cap2", "link_ctl2"}

Device(type, lanes, facts, caps) ==
  [type |-> type, lanes |-> lanes, facts |-> facts, caps |-> caps, vendor_len |-> 20]

\* Endpoints: each capability that has components, in two orders, and some that have
\* none between them.
Endpoints ==
  {Device("TYPE0", 2, f \cup m,
          <<Compat(1), Compat(3), Compat(5), Compat(16), Compat(17),
            Ext(1), Ext(11), Ext(25), Ext(37), Ext(14), Ext(27)>>) :
     f \in {Link, Link \cup {"speed_8gt", "dev_cap_2", "dev_ctl2"}},
     m \in {{"addr_64_bit"}, {"per_vector_mask", "tlp_pref_log"}}}
  \cup
  {Device("TYPE0", 2, Link \cup {"speed_8gt"},
          <<Compat(17), Compat(16), Compat(9), Compat(5), Compat(1), Ext(25), Ext(25), Ext(1)>>)}

\* Endpoints that are integrated into a root complex have no link.
Integrated ==
  {Device("TYPE0", 0, {"root_port", "root_ctl", "root_status"}, <<Compat(16), Compat(5), Ext(1)>>),
   Device("TYPE0", 0, {}, <<Compat(9), Compat(5), Compat(9)>>),
   Device("TYPE0", 0, {}, << >>)}

\* Root ports, in which all of the Express capability is shown, and a switch port.
Ports ==
  {Device("TYPE1", 4, Dwords \cup {"root_port", "speed_8gt", "tlp_pref_log", "addr_64_bit",
                                   "per_vector_mask"},
          <<Compat(5), Compat(16), Compat(13), Ext(1), Ext(25), Ext(37)>>),
   Device("TYPE1", 1, Link \cup {"slot_cap", "slot_ctl"}, <<Compat(16), Compat(17), Ext(1)>>)}

\* With an id that later versions of the specification assign: 46 is Data Object
\* Exchange.
Newer == {Device("TYPE0", 2, Link, <<Compat(16), Ext(1), Ext(46), Ext(14)>>)}

MCDescs == Endpoints \cup Integrated \cup Ports \cup Newer
=============================================================================
