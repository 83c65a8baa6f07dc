------------------------------ MODULE MCTopology ------------------------------
(***************************************************************************)
(* Instances of Topology for TLC.                                          *)
(***************************************************************************)
EXTENDS Topology

Dev(bus, fn, names)   == [dom |-> 0, bus |-> bus, fn |-> fn, bridge |-> FALSE,
                          sec |-> 0, names |-> names]
Bridge(bus, fn, sec)  == [dom |-> 0, bus |-> bus, fn |-> fn, bridge |-> TRUE,
                          sec |-> sec, names |-> 2]
BusNr(nr, root)       == [dom |-> 0, bus |-> nr, is_root |-> root]

\* Endpoints and bridges on buses 0 to 3; a bridge may lead to a bus there is no
\* entry for.
Pool == {Dev(b, f, 2 - f) : b \in 0..3, f \in {0, 2}}
          \cup {Bridge(b, f, s) : b \in 0..2, f \in {1}, s \in 1..4}

\* The provider returns the devices in no particular order: here, the last first.
Listed(S) ==
  [i \in 1..Cardinality(S) |->
     CHOOSE d \in S : Cardinality({e \in S : DBdf(e) > DBdf(d)}) = i - 1]

\* Sets of at most three devices with different addresses.
SmallSets ==
  {S \in {{a, b, c} : a, b, c \in Pool} :
     \A d, e \in S : DBdf(d) = DBdf(e) => d = e}

BusLists ==
  {<<BusNr(3, FALSE), BusNr(1, FALSE), BusNr(0, TRUE), BusNr(2, r)>> : r \in BOOLEAN}

\* A bridge behind a bridge, with endpoints before, between and after them, and one
\* on a bus nothing leads to.
Deep == {Dev(0, 0, 0), Bridge(0, 1, 1), Dev(0, 2, 1), Dev(1, 0, 2), Bridge(1, 1, 2),
         Dev(1, 2, 2), Dev(2, 0, 1), Dev(3, 0, 2)}

\* Every enumerated system of at most three devices from the pool, bus 2 being a
\* root bus or not, the deep one, and what an empty scan returns.
MCSystems ==
  {s \in {[devs |-> Listed(S), buses |-> bl] :
            S \in SmallSets \cup {Deep}, bl \in BusLists} :
     Enumerated(s)}
  \cup {[devs |-> << >>, buses |-> <<BusNr(0, TRUE)>>],
        [devs |-> <<Dev(0, 0, 1)>>, buses |-> << >>]}

\* A system with two domains, each of which has a bus 0.
MCTwoDomains ==
  {[devs  |-> <<Dev(0, 0, 2), [Dev(0, 0, 2) EXCEPT !.dom = 1]>>,
    buses |-> <<BusNr(0, TRUE), [BusNr(0, TRUE) EXCEPT !.dom = 1]>>]}
=============================================================================
