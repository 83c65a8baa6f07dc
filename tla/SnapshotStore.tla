---------------------------- MODULE SnapshotStore ----------------------------
(***************************************************************************)
(* What capturing and viewing snapshots promises, with no file format and  *)
(* no intermediate write: a name is bound to a whole topology in one step, *)
(* a capture that ends in failure has bound nothing, and a viewer is given *)
(* either exactly what was bound to the name when it opened it, or nothing.*)
(***************************************************************************)
CONSTANTS
  Capturers,    \* runs of "pciex -c"
  Viewers,      \* runs of "pciex -s"
  Paths,        \* names a snapshot can have
  Topologies,   \* what a capture can find
  NoInode,      \* nothing has this name
  Foreign,      \* a file that is not a snapshot has it
  Pending,      \* the viewer has shown nothing yet
  Refused       \* the viewer ended without showing anything

VARIABLES
  store,        \* store[p]: what the name p is bound to
  outcome,      \* outcome[c]: how the capture c ended
  held,         \* held[v]: what the viewer v opened
  result        \* result[v]: what the viewer v displays

vars == <<store, outcome, held, result>>

Init ==
  /\ store \in [Paths -> {NoInode, Foreign}]
  /\ outcome = [c \in Capturers |-> "running"]
  /\ held    = [v \in Viewers |-> NoInode]
  /\ result  = [v \in Viewers |-> Pending]

Publish(c, p, t) ==
  /\ outcome[c] = "running"
  /\ store[p] = NoInode
  /\ store' = [store EXCEPT ![p] = t]
  /\ outcome' = [outcome EXCEPT ![c] = "published"]
  /\ UNCHANGED <<held, result>>

GiveUp(c) ==
  /\ outcome[c] = "running"
  /\ outcome' = [outcome EXCEPT ![c] = "failed"]
  /\ UNCHANGED <<store, held, result>>

Remove(p) ==
  /\ store' = [store EXCEPT ![p] = NoInode]
  /\ UNCHANGED <<outcome, held, result>>

Open(v, p) ==
  /\ result[v] = Pending
  /\ held[v] = NoInode
  /\ held' = [held EXCEPT ![v] = store[p]]
  /\ UNCHANGED <<store, outcome, result>>

Show(v) ==
  /\ result[v] = Pending
  /\ held[v] \in Topologies
  /\ result' = [result EXCEPT ![v] = held[v]]
  /\ UNCHANGED <<store, outcome, held>>

Reject(v) ==
  /\ result[v] = Pending
  /\ result' = [result EXCEPT ![v] = Refused]
  /\ UNCHANGED <<store, outcome, held>>

Next ==
  \/ \E c \in Capturers, p \in Paths, t \in Topologies : Publish(c, p, t)
  \/ \E c \in Capturers : GiveUp(c)
  \/ \E p \in Paths : Remove(p)
  \/ \E v \in Viewers, p \in Paths : Open(v, p)
  \/ \E v \in Viewers : Show(v) \/ Reject(v)

Spec == Init /\ [][Next]_vars
=============================================================================
