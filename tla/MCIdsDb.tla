------------------------------- MODULE MCIdsDb -------------------------------
(***************************************************************************)
(* Instances of IdsDb for TLC: two vendors, the first with up to four      *)
(* lines below it and the second with up to two, in every order, and a     *)
(* class block.                                                            *)
(***************************************************************************)
EXTENDS IdsDb

Line(kind, id) == [kind |-> kind, id |-> id]

\* What can follow a vendor's line: two devices, a subsystem and a comment.
Body == {Line("device", 1), Line("device", 2), Line("subsys", <<2, 7>>),
         Line("comment", 0)}

\* No entry is listed twice, and a subsystem has a device above it.
Bodies(m) ==
  {b \in UNION {[1..n -> Body] : n \in 0..m} :
     /\ \A i, j \in DOMAIN b : b[i] = b[j] /\ b[i].kind = "device" => i = j
     /\ \A i, j \in DOMAIN b : b[i] = b[j] /\ b[i].kind = "subsys" => i = j
     /\ \A i \in DOMAIN b : b[i].kind = "subsys" =>
          \E j \in 1..i-1 : b[j].kind = "device"}

Classes ==
  {<<Line("class", 0), Line("subclass", 1),
     Line("class", 1), Line("subclass", 0), Line("progif", 0),
                       Line("subclass", 1), Line("progif", 1),
     Line("class", 2), Line("subclass", 0), Line("progif", 1)>>,
   <<Line("class", 0), Line("class", 1), Line("subclass", 0)>>}

MCDatabases ==
  {<<Line("comment", 0), Line("vendor", 1)>> \o b1
      \o <<Line("vendor", 2)>> \o b2 \o c : b1 \in Bodies(4), b2 \in Bodies(2), c \in Classes}

Device(vid, id, type0, cc) ==
  [vid |-> vid, id |-> id, type0 |-> type0, subsys |-> <<2, 7>>, cc |-> cc]

\* Two devices of one vendor, one of another with the same device id, and one of a
\* vendor that is not listed; the class codes ask for an interface of the subclass,
\* of the next one, of the next class, and of a class that is not listed.
MCDeviceSets ==
  {{Device(1, 1, TRUE, <<1, 0, 0>>), Device(2, 1, TRUE, <<1, 0, 1>>),
    Device(1, 2, FALSE, <<1, 1, 0>>)},
   {Device(1, 2, TRUE, <<0, 1, 0>>), Device(3, 1, TRUE, <<3, 0, 0>>)},
   {Device(2, 2, TRUE, <<0, 0, 0>>), Device(1, 1, FALSE, <<2, 0, 1>>)}}
=============================================================================
