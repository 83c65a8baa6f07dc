--------------------------- MODULE DevicePanesProofs ---------------------------
(***************************************************************************)
(* Theorems about RegsPane, for any set of devices, any number of          *)
(* registers of each and any allocator; and about DevicePanes, for any     *)
(* number of devices and any number of events between two frames.          *)
(***************************************************************************)
EXTENDS DevicePanes, TLAPS

PaneInv == PaneTypeOK /\ PointersValid

-----------------------------------------------------------------------------
(***************************************************************************)
(* Vectors.                                                                *)
(***************************************************************************)

\* n closed registers are a vector of n flags.
LEMMA AllClosedType ==
  ASSUME NEW n \in Nat
  PROVE  AllClosed(n) \in Seq({0, 1}) /\ Len(AllClosed(n)) = n
BY DEF AllClosed

\* What CreateComponent leaves in a cleared vector.
LEMMA BuiltVector ==
  ASSUME NEW n \in Nat
  PROVE  << >> \o AllClosed(n) = AllClosed(n)
BY AllClosedType

\* Writing one flag of a vector.
LEMMA ToggledVector ==
  ASSUME NEW s \in Seq({0, 1}), NEW i \in DOMAIN s
  PROVE  /\ [s EXCEPT ![i] = 1 - @] \in Seq({0, 1})
         /\ Len([s EXCEPT ![i] = 1 - @]) = Len(s)
<1>1. s[i] \in {0, 1} /\ 1 - s[i] \in {0, 1}
  BY SMT
<1>2. QED
  BY <1>1, SMT

-----------------------------------------------------------------------------
(***************************************************************************)
(* The inductive invariant.                                                *)
(***************************************************************************)

\* The pane starts with nothing to point to.
LEMMA PaneInit == InitPane => PaneInv
BY PaneConstantsAssumption
   DEF InitPane, PaneInv, PaneTypeOK, PointersValid, DisplayedIsLive, KeptIsLive,
       OneOwner, PutAway, NoSplit

\* Steps that change nothing but the flags of the buffer the pane owns.
LEMMA FlagsOnly ==
  ASSUME PaneInv, cur # NoDevice, NEW f \in Seq({0, 1}), Len(f) = Len(heap[vis]),
         heap' = [heap EXCEPT ![vis] = f],
         UNCHANGED <<keep, newly, cur, vis, split, visMap, compMap>>
  PROVE  PaneInv'
<1>1. vis \in Buffers /\ heap'[vis] = f /\ Len(heap'[vis]) = Slots[cur]
  BY DEF PaneInv, PaneTypeOK, PointersValid, DisplayedIsLive
<1>2. \A b \in Buffers \ {vis} : heap'[b] = heap[b]
  BY DEF PaneInv, PaneTypeOK
<1>3. heap' \in [Buffers -> Seq({0, 1})]
  BY DEF PaneInv, PaneTypeOK
<1>4. PaneTypeOK'
  BY <1>3 DEF PaneInv, PaneTypeOK
<1>5. DisplayedIsLive'
  BY <1>1 DEF PaneInv, PointersValid, DisplayedIsLive
<1>6. \A d \in Devices \ {cur} : visMap[d] \in Buffers => heap'[visMap[d]] = heap[visMap[d]]
  BY <1>1, <1>2 DEF PaneInv, PointersValid, OneOwner, DisplayedIsLive
<1>7. KeptIsLive'
  BY <1>6 DEF PaneInv, PointersValid, KeptIsLive
<1>8. QED
  BY <1>4, <1>5, <1>7 DEF PaneInv, PointersValid, OneOwner, PutAway

\* 'r' closes registers in place.
LEMMA ResetInv == PaneInv /\ ResetRegsVisibilityState => PaneInv'
<1> SUFFICES ASSUME PaneInv, ResetRegsVisibilityState
             PROVE  PaneInv'
  OBVIOUS
<1>1. CASE vis = NoBuffer
  BY <1>1 DEF ResetRegsVisibilityState, PaneInv, PaneTypeOK, PointersValid,
              DisplayedIsLive, KeptIsLive, OneOwner, PutAway
<1>2. CASE vis # NoBuffer
  <2>1. cur # NoDevice /\ vis \in Buffers
    BY <1>2 DEF PaneInv, PaneTypeOK, PointersValid, DisplayedIsLive
  <2>2. heap[vis] \in Seq({0, 1}) /\ Len(heap[vis]) \in Nat
    BY <2>1 DEF PaneInv, PaneTypeOK
  <2>3. QED
    BY <1>2, <2>1, <2>2, AllClosedType, FlagsOnly DEF ResetRegsVisibilityState
<1>3. QED
  BY <1>1, <1>2

\* A button writes in place.
LEMMA PressInv == ASSUME NEW i, PaneInv, PressButton(i) PROVE PaneInv'
<1>1. cur # NoDevice /\ vis \in Buffers /\ split.buf = vis
  BY DEF PaneInv, PaneTypeOK, PointersValid, DisplayedIsLive, PressButton
<1>2. heap[vis] \in Seq({0, 1}) /\ i \in DOMAIN heap[vis]
  BY <1>1 DEF PaneInv, PaneTypeOK, PressButton
<1> DEFINE f == [heap[vis] EXCEPT ![i] = 1 - @]
<1>3. heap' = [heap EXCEPT ![vis] = f]
  BY <1>1 DEF PressButton
<1>4. f \in Seq({0, 1}) /\ Len(f) = Len(heap[vis])
  BY <1>2, ToggledVector
<1> HIDE DEF f
<1>5. QED
  BY <1>1, <1>3, <1>4, FlagsOnly DEF PressButton

\* A device's entries in the two maps, once the displayed device has been put away.
SavedEntry(d) ==
  \/ SavedVisMap[d] = Absent /\ SavedCompMap[d] = Absent
  \/ /\ SavedVisMap[d] \in Buffers
     /\ SavedCompMap[d] = [dev |-> d, buf |-> SavedVisMap[d]]
     /\ Len(heap[SavedVisMap[d]]) = Slots[d]

\* Between putting the displayed device away and reserving, every entry of the maps
\* owns the buffer its component points into, and what is reserved is not one of them.
LEMMA SavedMaps ==
  ASSUME PaneInv, newly # cur
  PROVE  /\ newly \in Devices
         /\ SavedVisMap \in [Devices -> Buffers \cup {Absent}]
         /\ SavedCompMap \in [Devices -> Component \cup {Absent}]
         /\ \A d \in Devices : SavedEntry(d)
         /\ \A d, e \in Devices :
              SavedVisMap[d] \in Buffers /\ SavedVisMap[d] = SavedVisMap[e] => d = e
         /\ ~keep => \A d \in Devices : SavedVisMap[d] = Absent /\ SavedCompMap[d] = Absent
         /\ \A b \in Reserved : b \in Buffers /\ \A d \in Devices : SavedVisMap[d] # b
<1>1. newly \in Devices
  BY DEF PaneInv, PaneTypeOK
<1>2. CASE keep /\ cur # NoDevice
  <2>1. cur \in Devices /\ vis \in Buffers /\ split = [dev |-> cur, buf |-> vis]
        /\ Len(heap[vis]) = Slots[cur]
    BY <1>2 DEF PaneInv, PaneTypeOK, PointersValid, DisplayedIsLive
  <2>2. /\ SavedVisMap = [visMap EXCEPT ![cur] = vis]
        /\ SavedCompMap = [compMap EXCEPT ![cur] = split]
    BY <1>2 DEF SavedVisMap, SavedCompMap
  <2>3. split \in Component
    BY <2>1 DEF Component
  <2>4. /\ SavedVisMap[cur] = vis /\ SavedCompMap[cur] = split
        /\ \A d \in Devices \ {cur} :
             SavedVisMap[d] = visMap[d] /\ SavedCompMap[d] = compMap[d]
    BY <2>1, <2>2 DEF PaneInv, PaneTypeOK
  <2>5. SavedEntry(cur)
    BY <2>1, <2>4 DEF SavedEntry
  <2>6. \A d \in Devices \ {cur} : SavedEntry(d)
    BY <2>4 DEF SavedEntry, PaneInv, PointersValid, KeptIsLive
  <2>7. \A d \in Devices : SavedEntry(d)
    BY <2>5, <2>6
  <2>8. SavedCompMap \in [Devices -> Component \cup {Absent}]
    BY <2>2, <2>3 DEF PaneInv, PaneTypeOK
  <2>9. SavedVisMap \in [Devices -> Buffers \cup {Absent}]
    <3>1. \A d \in Devices : SavedVisMap[d] \in Buffers \cup {Absent}
      BY <2>7 DEF SavedEntry
    <3>2. DOMAIN SavedVisMap = Devices /\ SavedVisMap = [d \in Devices |-> SavedVisMap[d]]
      BY <2>2 DEF PaneInv, PaneTypeOK
    <3>3. QED
      BY <3>1, <3>2
  <2>10. \A d, e \in Devices :
           SavedVisMap[d] \in Buffers /\ SavedVisMap[d] = SavedVisMap[e] => d = e
    BY <2>1, <2>4, PaneConstantsAssumption DEF PaneInv, PointersValid, OneOwner
  <2>11. \A b \in Reserved : b \in Buffers /\ \A d \in Devices : SavedVisMap[d] # b
    BY <1>2 DEF Reserved
  <2>12. QED
    BY <1>1, <1>2, <2>7, <2>8, <2>9, <2>10, <2>11
<1>3. CASE ~(keep /\ cur # NoDevice)
  <2>1. SavedVisMap = visMap /\ SavedCompMap = compMap
    BY <1>3 DEF SavedVisMap, SavedCompMap
  <2>2. \A d \in Devices : SavedEntry(d)
    <3>1. CASE ~keep
      BY <2>1, <3>1 DEF SavedEntry, PaneInv, PointersValid, PutAway
    <3>2. CASE cur = NoDevice
      BY <2>1, <3>2, PaneConstantsAssumption
         DEF SavedEntry, PaneInv, PointersValid, KeptIsLive
    <3>3. QED
      BY <1>3, <3>1, <3>2
  <2>3. \A d \in Devices : SavedVisMap[d] \in Buffers \cup {Absent}
    BY <2>2 DEF SavedEntry
  <2>4. SavedVisMap \in [Devices -> Buffers \cup {Absent}]
    BY <2>1, <2>3 DEF PaneInv, PaneTypeOK
  <2>5. SavedCompMap \in [Devices -> Component \cup {Absent}]
    BY <2>1 DEF PaneInv, PaneTypeOK
  <2>6. ~keep => \A d \in Devices : SavedVisMap[d] = Absent /\ SavedCompMap[d] = Absent
    BY <2>1 DEF PaneInv, PointersValid, PutAway
  <2>7. \A b \in Reserved : b \in Buffers /\ \A d \in Devices : SavedVisMap[d] # b
    BY <2>1, <2>6, PaneConstantsAssumption
       DEF Reserved, PaneInv, PaneTypeOK, PointersValid, OneOwner
  <2>8. QED
    BY <1>1, <2>1, <2>2, <2>4, <2>5, <2>6, <2>7 DEF PaneInv, PointersValid, OneOwner
<1>4. QED
  BY <1>2, <1>3

\* What OnRender does when the device has been put away before: the vector and the
\* component come back together.
DisplayAgain(b) ==
  /\ keep /\ SavedVisMap[newly] # Absent
  /\ vis'     = SavedVisMap[newly]
  /\ visMap'  = [SavedVisMap EXCEPT ![newly] = NoBuffer]
  /\ split'   = SavedCompMap[newly]
  /\ heap'    = [heap EXCEPT ![b] = << >>]

\* What it does otherwise: the component is built into the reserved buffer.
DisplayNew(b) ==
  /\ ~(keep /\ SavedVisMap[newly] # Absent)
  /\ vis'     = b
  /\ visMap'  = SavedVisMap
  /\ split'   = [dev |-> newly, buf |-> b]
  /\ heap'    = [heap EXCEPT ![b] = AllClosed(Slots[newly])]

\* A frame that changes the device is one or the other.
LEMMA RenderCases ==
  ASSUME PaneInv, OnRender
  PROVE  /\ newly \in Devices /\ newly # cur /\ cur' = newly
         /\ compMap' = SavedCompMap
         /\ UNCHANGED <<keep, newly>>
         /\ \E b \in Reserved : DisplayAgain(b) \/ DisplayNew(b)
<1>1. newly \in Devices /\ newly # cur /\ cur' = newly
      /\ compMap' = SavedCompMap /\ UNCHANGED <<keep, newly>>
  BY SavedMaps DEF OnRender
<1>2. PICK b \in Reserved :
        LET cleared == [heap EXCEPT ![b] = <<>>]
            known   == keep /\ SavedVisMap[newly] # Absent
            v       == IF known THEN Restored(b, cleared)
                       ELSE [vis |-> b, visMap |-> SavedVisMap, heap |-> cleared]
            built   == keep /\ SavedCompMap[newly] # Absent
        IN
        /\ vis'     = v.vis
        /\ visMap'  = v.visMap
        /\ split'   = IF built THEN SavedCompMap[newly]
                      ELSE [dev |-> newly, buf |-> v.vis]
        /\ heap'    = IF built THEN v.heap
                      ELSE [v.heap EXCEPT ![v.vis] = @ \o AllClosed(Slots[newly])]
  BY DEF OnRender
<1>3. b \in Buffers
  BY <1>1, SavedMaps
<1>4. SavedEntry(newly)
  BY <1>1, SavedMaps
<1>5. SavedCompMap[newly] = Absent <=> SavedVisMap[newly] = Absent
  <2>1. SavedVisMap[newly] \in Buffers =>
          [dev |-> newly, buf |-> SavedVisMap[newly]] \in Component
    BY <1>1 DEF Component
  <2>2. QED
    BY <1>4, <2>1, PaneConstantsAssumption DEF SavedEntry
<1>6. CASE keep /\ SavedVisMap[newly] # Absent
  <2>1. DisplayAgain(b)
    BY <1>2, <1>5, <1>6 DEF DisplayAgain, Restored
  <2>2. QED
    BY <1>1, <2>1
<1>7. CASE ~(keep /\ SavedVisMap[newly] # Absent)
  <2>1. /\ vis' = b /\ visMap' = SavedVisMap
        /\ split' = [dev |-> newly, buf |-> b]
        /\ heap' = [[heap EXCEPT ![b] = << >>] EXCEPT ![b] = @ \o AllClosed(Slots[newly])]
    BY <1>2, <1>5, <1>7
  <2>2. Slots[newly] \in Nat
    BY <1>1, SlotsAssumption
  <2>3. heap' = [heap EXCEPT ![b] = << >> \o AllClosed(Slots[newly])]
    BY <1>3, <2>1 DEF PaneInv, PaneTypeOK
  <2>4. << >> \o AllClosed(Slots[newly]) = AllClosed(Slots[newly])
    BY <2>2, BuiltVector
  <2>5. heap' = [heap EXCEPT ![b] = AllClosed(Slots[newly])]
    BY <2>3, <2>4, Zenon
  <2>6. DisplayNew(b)
    BY <1>7, <2>1, <2>5 DEF DisplayNew
  <2>7. QED
    BY <1>1, <2>6
<1>8. QED
  BY <1>1, <1>6, <1>7

\* A device is displayed again.
LEMMA AgainInv ==
  ASSUME PaneInv, newly \in Devices, newly # cur, cur' = newly,
         compMap' = SavedCompMap, UNCHANGED <<keep, newly>>,
         NEW b \in Reserved, DisplayAgain(b)
  PROVE  PaneInv'
<1>1. /\ SavedVisMap \in [Devices -> Buffers \cup {Absent}]
      /\ SavedCompMap \in [Devices -> Component \cup {Absent}]
      /\ b \in Buffers /\ \A d \in Devices : SavedVisMap[d] # b
  BY SavedMaps
<1>2. /\ SavedVisMap[newly] \in Buffers
      /\ SavedCompMap[newly] = [dev |-> newly, buf |-> SavedVisMap[newly]]
      /\ Len(heap[SavedVisMap[newly]]) = Slots[newly]
  BY SavedMaps DEF SavedEntry, DisplayAgain
<1>3. /\ visMap'[newly] = NoBuffer
      /\ \A d \in Devices \ {newly} : visMap'[d] = SavedVisMap[d]
  BY <1>1 DEF DisplayAgain
<1>4. \A c \in Buffers \ {b} : heap'[c] = heap[c]
  BY DEF DisplayAgain, PaneInv, PaneTypeOK
<1>5. PaneTypeOK'
  <2>1. << >> \in Seq({0, 1})
    OBVIOUS
  <2>2. heap' \in [Buffers -> Seq({0, 1})]
    BY <2>1 DEF DisplayAgain, PaneInv, PaneTypeOK
  <2>3. split' \in Component
    BY <1>2 DEF DisplayAgain, Component
  <2>4. visMap' \in [Devices -> Buffers \cup {NoBuffer, Absent}]
    BY <1>1 DEF DisplayAgain
  <2>5. QED
    BY <1>1, <1>2, <2>2, <2>3, <2>4, PaneConstantsAssumption
       DEF DisplayAgain, PaneInv, PaneTypeOK
<1>6. DisplayedIsLive'
  BY <1>1, <1>2, <1>4, PaneConstantsAssumption DEF DisplayAgain, DisplayedIsLive
<1>7. KeptIsLive'
  <2> SUFFICES ASSUME NEW d \in Devices \ {newly}
               PROVE  \/ visMap'[d] = Absent /\ compMap'[d] = Absent
                      \/ /\ visMap'[d] \in Buffers
                         /\ compMap'[d] = [dev |-> d, buf |-> visMap'[d]]
                         /\ Len(heap'[visMap'[d]]) = Slots[d]
    BY DEF KeptIsLive
  <2>1. SavedEntry(d)
    BY SavedMaps
  <2>2. QED
    BY <1>1, <1>3, <1>4, <2>1 DEF SavedEntry
<1>8. OneOwner'
  <2>1. \A d, e \in Devices :
          SavedVisMap[d] \in Buffers /\ SavedVisMap[d] = SavedVisMap[e] => d = e
    BY SavedMaps
  <2>2. \A d, e \in Devices :
          visMap'[d] \in Buffers /\ visMap'[d] = visMap'[e] => d = e
    BY <1>3, <2>1, PaneConstantsAssumption
  <2>3. \A d \in Devices : visMap'[d] # vis'
    BY <1>2, <1>3, <2>1, PaneConstantsAssumption DEF DisplayAgain
  <2>4. QED
    BY <2>2, <2>3 DEF OneOwner
<1>9. PutAway'
  BY <1>3, PaneConstantsAssumption DEF PutAway, DisplayAgain
<1>10. QED
  BY <1>5, <1>6, <1>7, <1>8, <1>9 DEF PaneInv, PointersValid

\* A device is displayed for the first time, or for the first time again with the
\* option off.
LEMMA NewInv ==
  ASSUME PaneInv, newly \in Devices, newly # cur, cur' = newly,
         compMap' = SavedCompMap, UNCHANGED <<keep, newly>>,
         NEW b \in Reserved, DisplayNew(b)
  PROVE  PaneInv'
<1>1. /\ SavedVisMap \in [Devices -> Buffers \cup {Absent}]
      /\ SavedCompMap \in [Devices -> Component \cup {Absent}]
      /\ b \in Buffers /\ \A d \in Devices : SavedVisMap[d] # b
  BY SavedMaps
<1>2. \A d \in Devices : ~keep => SavedVisMap[d] = Absent /\ SavedCompMap[d] = Absent
  BY SavedMaps
<1>3. SavedVisMap[newly] = Absent
  BY <1>2 DEF DisplayNew
<1>4. visMap' = SavedVisMap /\ vis' = b /\ split' = [dev |-> newly, buf |-> b]
  BY DEF DisplayNew
<1>5. Slots[newly] \in Nat
  BY SlotsAssumption
<1>6. /\ AllClosed(Slots[newly]) \in Seq({0, 1})
      /\ Len(AllClosed(Slots[newly])) = Slots[newly]
  BY <1>5, AllClosedType
<1>7. /\ heap' \in [Buffers -> Seq({0, 1})]
      /\ heap'[b] = AllClosed(Slots[newly])
      /\ \A c \in Buffers \ {b} : heap'[c] = heap[c]
  BY <1>1, <1>6 DEF DisplayNew, PaneInv, PaneTypeOK
<1>8. PaneTypeOK'
  <2>1. split' \in Component
    BY <1>1, <1>4 DEF Component
  <2>2. QED
    BY <1>1, <1>4, <1>7, <2>1, PaneConstantsAssumption DEF PaneInv, PaneTypeOK
<1>9. DisplayedIsLive'
  BY <1>1, <1>4, <1>6, <1>7, PaneConstantsAssumption DEF DisplayedIsLive
<1>10. KeptIsLive'
  <2> SUFFICES ASSUME NEW d \in Devices \ {newly}
               PROVE  \/ visMap'[d] = Absent /\ compMap'[d] = Absent
                      \/ /\ visMap'[d] \in Buffers
                         /\ compMap'[d] = [dev |-> d, buf |-> visMap'[d]]
                         /\ Len(heap'[visMap'[d]]) = Slots[d]
    BY DEF KeptIsLive
  <2>1. SavedEntry(d)
    BY SavedMaps
  <2>2. QED
    BY <1>1, <1>4, <1>7, <2>1 DEF SavedEntry
<1>11. OneOwner'
  <2>1. \A d, e \in Devices :
          SavedVisMap[d] \in Buffers /\ SavedVisMap[d] = SavedVisMap[e] => d = e
    BY SavedMaps
  <2>2. QED
    BY <1>1, <1>4, <2>1 DEF OneOwner
<1>12. PutAway'
  BY <1>2, <1>3, <1>4, PaneConstantsAssumption DEF PutAway
<1>13. QED
  BY <1>8, <1>9, <1>10, <1>11, <1>12 DEF PaneInv, PointersValid

\* Every step of the pane keeps the invariant.
LEMMA PaneStep == PaneInv /\ [NextPane]_paneVars => PaneInv'
<1> SUFFICES ASSUME PaneInv, [NextPane]_paneVars
             PROVE  PaneInv'
  OBVIOUS
<1>1. ASSUME NEW d \in Devices, UpdateSelectedDev(d)
      PROVE  PaneInv'
  BY <1>1, PaneConstantsAssumption
     DEF UpdateSelectedDev, PaneInv, PaneTypeOK, PointersValid, DisplayedIsLive,
         KeptIsLive, OneOwner, PutAway
<1>2. CASE ResetRegsVisibilityState
  BY <1>2, ResetInv
<1>3. ASSUME NEW i \in 1..InteractiveElemMax, PressButton(i)
      PROVE  PaneInv'
  BY <1>3, PressInv
<1>4. CASE OnRender
  BY <1>4, RenderCases, AgainInv, NewInv
<1>5. CASE UNCHANGED paneVars
  BY <1>5 DEF paneVars, PaneInv, PaneTypeOK, PointersValid, DisplayedIsLive,
              KeptIsLive, OneOwner, PutAway
<1>6. QED
  BY <1>1, <1>2, <1>3, <1>4, <1>5 DEF NextPane

\* The pane is at all times well typed, and no pointer of a component it displays or
\* has put away dangles.
THEOREM PaneInvariance == PaneSpec => []PaneInv
BY PaneInit, PaneStep, PTL DEF PaneSpec

\* Whatever the devices, their registers and the allocator: no component that can
\* still be displayed has a pointer that dangles or goes into another's state.
THEOREM NoDanglingPointer == PaneSpec => []PointersValid
<1>1. PaneInv => PointersValid
  BY DEF PaneInv
<1>2. QED
  BY <1>1, PaneInvariance, PTL

-----------------------------------------------------------------------------
(***************************************************************************)
(* The pane implements HighlightStore.                                     *)
(***************************************************************************)

openBar == [d \in Devices |-> Shown(d)]

\* The registers of the displayed device are those of the buffer vis_state_ owns,
\* and no other device shows a register of that buffer.
LEMMA ShownByOwner ==
  ASSUME PaneInv
  PROVE  /\ cur # NoDevice => Shown(cur) = Lit(vis)
         /\ \A d \in Devices \ {cur} :
              \/ compMap[d] = Absent /\ Shown(d) = {}
              \/ /\ compMap[d] # Absent /\ visMap[d] \in Buffers /\ visMap[d] # vis
                 /\ compMap[d].buf = visMap[d] /\ Shown(d) = Lit(visMap[d])
<1>1. cur # NoDevice => Shown(cur) = Lit(vis)
  BY DEF PaneInv, PointersValid, DisplayedIsLive, Shown
<1>2. ASSUME NEW d \in Devices \ {cur}, compMap[d] # Absent
      PROVE  /\ visMap[d] \in Buffers /\ visMap[d] # vis
             /\ compMap[d].buf = visMap[d] /\ Shown(d) = Lit(visMap[d])
  <2>1. visMap[d] \in Buffers /\ compMap[d] = [dev |-> d, buf |-> visMap[d]]
    BY <1>2 DEF PaneInv, PointersValid, KeptIsLive
  <2>2. visMap[d] # vis
    BY <2>1, PaneConstantsAssumption DEF PaneInv, PointersValid, OneOwner
  <2>3. QED
    BY <1>2, <2>1, <2>2 DEF Shown
<1>3. ASSUME NEW d \in Devices \ {cur}, compMap[d] = Absent
      PROVE  Shown(d) = {}
  BY <1>3 DEF Shown
<1>4. QED
  BY <1>1, <1>2, <1>3

\* The same while the displayed device has been put away and the next one not yet
\* fetched.
LEMMA ShownWhilePutAway ==
  ASSUME PaneInv, keep, newly # cur, NEW d \in Devices
  PROVE  Shown(d) = IF SavedCompMap[d] = Absent THEN {} ELSE Lit(SavedCompMap[d].buf)
<1>1. CASE d = cur
  <2>1. SavedCompMap[d] = split
    BY <1>1, PaneConstantsAssumption DEF SavedCompMap, PaneInv, PaneTypeOK
  <2>2. split \in Component
    BY <1>1, PaneConstantsAssumption
       DEF PaneInv, PaneTypeOK, PointersValid, DisplayedIsLive, Component
  <2>3. QED
    BY <1>1, <2>1, <2>2, PaneConstantsAssumption DEF Shown
<1>2. CASE d # cur
  <2>1. SavedCompMap[d] = compMap[d]
    BY <1>2 DEF SavedCompMap, PaneInv, PaneTypeOK
  <2>2. QED
    BY <1>2, <2>1 DEF Shown
<1>3. QED
  BY <1>1, <1>2

\* A step that writes in the buffer vis_state_ owns changes what is open on the
\* displayed device only.
LEMMA OnlyDisplayed ==
  ASSUME PaneInv, cur # NoDevice, NEW f,
         heap' = [heap EXCEPT ![vis] = f],
         UNCHANGED <<keep, newly, cur, vis, split, visMap, compMap>>
  PROVE  openBar' = [openBar EXCEPT ![cur] = {i \in DOMAIN f : f[i] = 1}]
<1>1. cur \in Devices /\ vis \in Buffers /\ split.buf = vis
  BY DEF PaneInv, PaneTypeOK, PointersValid, DisplayedIsLive
<1>2. heap'[vis] = f /\ \A b \in Buffers \ {vis} : heap'[b] = heap[b]
  BY <1>1 DEF PaneInv, PaneTypeOK
<1>3. Shown(cur)' = {i \in DOMAIN f : f[i] = 1}
  BY <1>1, <1>2 DEF Shown, Lit
<1>4. ASSUME NEW d \in Devices \ {cur}
      PROVE  Shown(d)' = Shown(d)
  <2>1. CASE compMap[d] = Absent
    BY <2>1 DEF Shown
  <2>2. CASE compMap[d] # Absent
    <3>1. compMap[d].buf \in Buffers \ {vis}
      BY <2>2, ShownByOwner
    <3>2. heap'[compMap[d].buf] = heap[compMap[d].buf]
      BY <1>2, <3>1
    <3>3. QED
      BY <2>2, <3>2 DEF Shown, Lit
  <2>3. QED
    BY <2>1, <2>2
<1>5. QED
  BY <1>1, <1>3, <1>4 DEF openBar

\* A frame that changes the device opens and closes nothing, or with the option off
\* closes everything.
LEMMA RenderKeeps ==
  ASSUME PaneInv, PaneInv', OnRender
  PROVE  openBar' = IF keep THEN openBar ELSE [d \in Devices |-> {}]
<1>1. /\ newly \in Devices /\ newly # cur /\ cur' = newly
      /\ compMap' = SavedCompMap /\ UNCHANGED <<keep, newly>>
  BY RenderCases
<1>2. PICK b \in Reserved : DisplayAgain(b) \/ DisplayNew(b)
  BY RenderCases
<1>3. /\ b \in Buffers /\ \A d \in Devices : SavedVisMap[d] # b
      /\ \A d \in Devices : SavedEntry(d)
      /\ ~keep => \A d \in Devices : SavedVisMap[d] = Absent /\ SavedCompMap[d] = Absent
  BY <1>1, SavedMaps
<1>4. \A c \in Buffers \ {b} : heap'[c] = heap[c]
  BY <1>2 DEF DisplayAgain, DisplayNew, PaneInv, PaneTypeOK
<1>5. ASSUME NEW c \in Buffers \ {b}
      PROVE  {i \in DOMAIN heap'[c] : heap'[c][i] = 1} = Lit(c)
  BY <1>4 DEF Lit
<1>6. CASE keep
  <2>1. ASSUME NEW d \in Devices
        PROVE  Shown(d)' = IF SavedCompMap[d] = Absent THEN {}
                           ELSE Lit(SavedCompMap[d].buf)
    <3>1. CASE d # newly
      <4>1. Shown(d)' = IF SavedCompMap[d] = Absent THEN {}
                        ELSE {i \in DOMAIN heap'[SavedCompMap[d].buf] :
                                heap'[SavedCompMap[d].buf][i] = 1}
        <5>1. compMap'[d] = SavedCompMap[d]
          BY <1>1
        <5>2. Shown(d)' = IF compMap'[d] = Absent THEN {}
                          ELSE {i \in DOMAIN heap'[compMap'[d].buf] :
                                  heap'[compMap'[d].buf][i] = 1}
          BY <1>1, <3>1 DEF Shown, Lit
        <5>3. QED
            BY <5>1, <5>2
      <4>2. SavedCompMap[d] # Absent => SavedCompMap[d].buf \in Buffers \ {b}
        <5>1. SavedEntry(d) /\ SavedVisMap[d] # b
          BY <1>3
        <5>2. QED
          BY <5>1 DEF SavedEntry
      <4>3. QED
        BY <1>5, <4>1, <4>2
    <3>2. CASE d = newly /\ DisplayAgain(b)
      <4>1. split' = SavedCompMap[newly] /\ SavedCompMap[newly] # Absent
            /\ SavedCompMap[newly].buf \in Buffers \ {b}
        <5>1. SavedVisMap[newly] \in Buffers \ {b}
              /\ SavedCompMap[newly] = [dev |-> newly, buf |-> SavedVisMap[newly]]
          BY <1>1, <1>3, <3>2 DEF SavedEntry, DisplayAgain
        <5>2. SavedCompMap[newly] \in Component
          BY <1>1, <5>1 DEF Component
        <5>3. QED
          BY <3>2, <5>1, <5>2, PaneConstantsAssumption DEF DisplayAgain
      <4>2. Shown(d)' = {i \in DOMAIN heap'[split'.buf] : heap'[split'.buf][i] = 1}
        BY <1>1, <3>2 DEF Shown, Lit
      <4>3. QED
        BY <1>5, <3>2, <4>1, <4>2
    <3>3. CASE d = newly /\ DisplayNew(b)
      <4>1. SavedCompMap[d] = Absent
        BY <1>3, <1>6, <3>3, PaneConstantsAssumption DEF DisplayNew, SavedEntry
      <4>2. Shown(d)' = {i \in DOMAIN heap'[b] : heap'[b][i] = 1}
        BY <1>1, <3>3 DEF Shown, Lit, DisplayNew
      <4>3. heap'[b] = AllClosed(Slots[newly])
        BY <1>3, <3>3 DEF DisplayNew, PaneInv, PaneTypeOK
      <4>4. {i \in DOMAIN AllClosed(Slots[newly]) : AllClosed(Slots[newly])[i] = 1} = {}
        BY DEF AllClosed
      <4>5. QED
        BY <4>1, <4>2, <4>3, <4>4
    <3>4. QED
      BY <1>2, <3>1, <3>2, <3>3
  <2>2. \A d \in Devices : Shown(d)' = Shown(d)
    BY <1>1, <1>6, <2>1, ShownWhilePutAway
  <2>3. QED
    BY <1>6, <2>2 DEF openBar
<1>7. CASE ~keep
  <2>1. DisplayNew(b)
    BY <1>2, <1>7 DEF DisplayAgain
  <2>2. heap'[b] = AllClosed(Slots[newly])
    BY <1>3, <2>1 DEF DisplayNew, PaneInv, PaneTypeOK
  <2>3. {i \in DOMAIN AllClosed(Slots[newly]) : AllClosed(Slots[newly])[i] = 1} = {}
    BY DEF AllClosed
  <2>4. ASSUME NEW d \in Devices, d = newly
        PROVE  Shown(d)' = {}
    <3>1. Shown(d)' = {i \in DOMAIN heap'[b] : heap'[b][i] = 1}
      BY <1>1, <2>1, <2>4 DEF Shown, Lit, DisplayNew
    <3>2. QED
      BY <2>2, <2>3, <3>1
  <2>5. ASSUME NEW d \in Devices \ {newly}
        PROVE  Shown(d)' = {}
    <3>1. compMap'[d] = Absent
      BY <1>1, <1>3, <1>7
    <3>2. QED
      BY <1>1, <3>1 DEF Shown
  <2>6. \A d \in Devices : Shown(d)' = {}
    BY <2>4, <2>5
  <2>7. QED
    BY <1>7, <2>6 DEF openBar
<1>8. QED
  BY <1>6, <1>7

\* Every step of the pane is a step of the store, or hidden from it.
LEMMA PaneRefines ==
  ASSUME PaneInv, PaneInv', [NextPane]_paneVars
  PROVE  [Store!Next]_Store!vars
<1>1. ASSUME NEW d \in Devices, UpdateSelectedDev(d)
      PROVE  [Store!Next]_Store!vars
  <2>1. openBar' = openBar
    BY <1>1 DEF UpdateSelectedDev, openBar, Shown, Lit
  <2>2. Store!Choose(d)
    BY <1>1, <2>1 DEF UpdateSelectedDev, Store!Choose, openBar
  <2>3. QED
    BY <2>2 DEF Store!Next
<1>2. CASE ResetRegsVisibilityState
  <2>1. CASE vis = NoBuffer
    <3>1. openBar' = openBar
      BY <1>2, <2>1 DEF ResetRegsVisibilityState, openBar, Shown, Lit
    <3>2. QED
      BY <1>2, <3>1 DEF ResetRegsVisibilityState, Store!vars, openBar
  <2>2. CASE vis # NoBuffer
    <3>1. cur \in Devices /\ cur # NoDevice
      BY <2>2 DEF PaneInv, PaneTypeOK, PointersValid, DisplayedIsLive
    <3> DEFINE f == AllClosed(Len(heap[vis]))
    <3>2. openBar' = [openBar EXCEPT ![cur] = {i \in DOMAIN f : f[i] = 1}]
      <4> HIDE DEF f
      <4>1. heap' = [heap EXCEPT ![vis] = f]
        BY <1>2, <2>2 DEF ResetRegsVisibilityState, f
      <4>2. QED
        BY <1>2, <3>1, <4>1, OnlyDisplayed DEF ResetRegsVisibilityState
    <3>3. {i \in DOMAIN f : f[i] = 1} = {}
      BY DEF AllClosed
    <3>4. Store!CloseAll
      BY <1>2, <3>1, <3>2, <3>3 DEF ResetRegsVisibilityState, Store!CloseAll, openBar
    <3>5. QED
      BY <3>4 DEF Store!Next
  <2>3. QED
    BY <2>1, <2>2
<1>3. ASSUME NEW r \in 1..InteractiveElemMax, PressButton(r)
      PROVE  [Store!Next]_Store!vars
  <2>1. /\ cur \in Devices /\ cur # NoDevice /\ vis \in Buffers /\ split.buf = vis
        /\ Len(heap[vis]) = Slots[cur] /\ heap[vis] \in Seq({0, 1})
        /\ r \in DOMAIN heap[vis]
    BY <1>3 DEF PaneInv, PaneTypeOK, PointersValid, DisplayedIsLive, PressButton
  <2>2. r \in 1..Slots[cur]
    BY <2>1
  <2> DEFINE f == [heap[vis] EXCEPT ![r] = 1 - @]
  <2>3. openBar' = [openBar EXCEPT ![cur] = {i \in DOMAIN f : f[i] = 1}]
    <3> HIDE DEF f
    <3>1. heap' = [heap EXCEPT ![vis] = f]
      BY <1>3, <2>1 DEF PressButton, f
    <3>2. QED
      BY <1>3, <2>1, <3>1, OnlyDisplayed DEF PressButton
  <2>4. openBar[cur] = Lit(vis)
    BY <2>1, ShownByOwner DEF openBar
  <2>5. {i \in DOMAIN f : f[i] = 1} = (Lit(vis) \ {r}) \cup ({r} \ Lit(vis))
    <3>1. DOMAIN f = DOMAIN heap[vis]
      OBVIOUS
    <3>2. heap[vis][r] \in {0, 1} /\ f[r] = 1 - heap[vis][r]
      BY <2>1
    <3>3. f[r] = 1 <=> heap[vis][r] # 1
      BY <3>2
    <3>4. \A i \in DOMAIN heap[vis] \ {r} : f[i] = heap[vis][i]
      OBVIOUS
    <3> HIDE DEF f
    <3>5. QED
      BY <2>1, <3>1, <3>3, <3>4 DEF Lit
  <2> HIDE DEF f
  <2>6. openBar' = [openBar EXCEPT ![cur] = (@ \ {r}) \cup ({r} \ @)]
    BY <2>3, <2>4, <2>5
  <2>7. Store!Toggle(r)
    BY <1>3, <2>1, <2>6 DEF PressButton, Store!Toggle, openBar
  <2>8. QED
    BY <2>1, <2>2, <2>7 DEF Store!Next
<1>4. CASE OnRender
  <2>1. openBar' = IF keep THEN openBar ELSE [d \in Devices |-> {}]
    BY <1>4, RenderKeeps
  <2>2. Store!Display
    BY <1>4, <2>1, RenderCases DEF Store!Display, openBar
  <2>3. QED
    BY <2>2 DEF Store!Next
<1>5. CASE UNCHANGED paneVars
  BY <1>5 DEF paneVars, Store!vars, Shown, Lit
<1>6. QED
  BY <1>1, <1>2, <1>3, <1>4, <1>5 DEF NextPane

\* Whatever the devices and the registers: which registers are open is what
\* config.h promises of keep_dev_selected_regs.
THEOREM PaneRefinement == PaneSpec => ImplementsHighlightStore
<1>1. InitPane => Store!Init
  <2> SUFFICES ASSUME InitPane
               PROVE  Store!Init
    OBVIOUS
  <2>1. \A d \in Devices : Shown(d) = {}
    BY PaneConstantsAssumption DEF InitPane, Shown
  <2>2. QED
    BY <2>1 DEF InitPane, Store!Init
<1>2. PaneInv /\ PaneInv' /\ [NextPane]_paneVars => [Store!Next]_Store!vars
  BY PaneRefines
<1>3. QED
  BY <1>1, <1>2, PaneInvariance, PTL DEF PaneSpec, ImplementsHighlightStore, Store!Spec

-----------------------------------------------------------------------------
(***************************************************************************)
(* The pane and the tree together.                                         *)
(***************************************************************************)

\* The variables of the tree have values of their types, and every box is drawn as
\* its flags say.
TreeInv ==
  /\ newly \in Devices
  /\ selected \in Devices
  /\ flag = [d \in Devices |-> d = selected]
  /\ mark \in [Devices -> BOOLEAN]
  /\ look = [d \in Devices |-> Draw(d = selected, mark[d])]
  /\ mode \in Modes
  /\ burst \in {1, EventsPerFrame}
  /\ events \in 0..burst

\* The state the constructor of the tree leaves.
LEMMA TreeInit == Init => TreeInv
BY DevicePanesAssumption DEF Init, TreeInv

\* Moving the selection from one device to another.
LEMMA MoveInv ==
  ASSUME TreeInv, NEW k \in Devices, k # selected, MoveSelection(k), Event,
         newly' = selected'
  PROVE  TreeInv'
<1>1. selected' = k /\ selected' \in Devices
  BY DEF MoveSelection
<1> DEFINE m == CurDevHaveRegsHighlighted
<1>2. m \in BOOLEAN
  BY DEF CurDevHaveRegsHighlighted
<1> HIDE DEF m
<1>3. mark' = [mark EXCEPT ![selected] = m]
  BY DEF MoveSelection, MarkOnLeave, m
<1>4. mark' \in [Devices -> BOOLEAN] /\ mark'[selected] = m
      /\ \A d \in Devices \ {selected} : mark'[d] = mark[d]
  BY <1>2, <1>3 DEF TreeInv
<1>5. flag' = [d \in Devices |-> d = selected']
  BY <1>1 DEF MoveSelection, TreeInv
<1>6. look' = [d \in Devices |-> Draw(d = selected', mark'[d])]
  <2>1. look' = [look EXCEPT ![selected] = Draw(FALSE, mark'[selected]),
                             ![k]        = Draw(TRUE, mark'[k])]
    BY DEF MoveSelection
  <2>2. look'[selected] = Draw(FALSE, mark'[selected]) /\ look'[k] = Draw(TRUE, mark'[k])
    BY <2>1 DEF TreeInv
  <2>3. \A d \in Devices \ {selected, k} : look'[d] = Draw(FALSE, mark'[d])
    BY <1>4, <2>1 DEF TreeInv, Draw
  <2>4. DOMAIN look' = Devices /\ look' = [d \in DOMAIN look' |-> look'[d]]
    BY <2>1 DEF TreeInv
  <2>5. \A d \in Devices : look'[d] = Draw(d = selected', mark'[d])
    BY <1>1, <2>2, <2>3 DEF Draw
  <2>6. QED
    BY <2>4, <2>5
<1>7. burst' = burst /\ events' \in 0..burst
  BY DevicePanesAssumption DEF Event, TreeInv
<1>8. QED
  BY <1>1, <1>4, <1>5, <1>6, <1>7 DEF TreeInv, MoveSelection

\* Steps of the tree that move nothing.
LEMMA StayInv ==
  ASSUME TreeInv, UNCHANGED <<treeVars, burst>>, newly' \in Devices,
         events' \in 0..burst
  PROVE  TreeInv'
BY DEF TreeInv, treeVars

\* Every step keeps the tree's invariant, and is a step of the pane or hidden from it.
LEMMA TreeStep ==
  ASSUME TreeInv, [Next]_vars
  PROVE  TreeInv' /\ [NextPane]_paneVars
<1>1. Event => burst' = burst /\ events' \in 0..burst
  BY DevicePanesAssumption DEF Event, TreeInv
<1>2. CASE SelectNext
  <2>1. newly' = selected' /\ Event /\ UpdateSelectedDev(selected')
    BY <1>2 DEF SelectNext, UpdateSelectedDev
  <2>2. CASE selected < N /\ MoveSelection(selected + 1)
    <3>1. selected + 1 \in Devices /\ selected + 1 # selected
      BY <2>2, DevicePanesAssumption DEF TreeInv
    <3>2. QED
      BY <2>1, <2>2, <3>1, MoveInv DEF TreeInv, NextPane
  <2>3. CASE UNCHANGED treeVars
    <3>1. selected' \in Devices
      BY <2>3 DEF treeVars, TreeInv
    <3>2. QED
      BY <1>1, <2>1, <2>3, <3>1, StayInv DEF NextPane
  <2>4. QED
    BY <1>2, <2>2, <2>3 DEF SelectNext
<1>3. CASE SelectPrev
  <2>1. newly' = selected' /\ Event /\ UpdateSelectedDev(selected')
    BY <1>3 DEF SelectPrev, UpdateSelectedDev
  <2>2. CASE selected > 1 /\ MoveSelection(selected - 1)
    <3>1. selected - 1 \in Devices /\ selected - 1 # selected
      BY <2>2, DevicePanesAssumption DEF TreeInv
    <3>2. QED
      BY <2>1, <2>2, <3>1, MoveInv DEF TreeInv, NextPane
  <2>3. CASE UNCHANGED treeVars
    <3>1. selected' \in Devices
      BY <2>3 DEF treeVars, TreeInv
    <3>2. QED
      BY <1>1, <2>1, <2>3, <3>1, StayInv DEF NextPane
  <2>4. QED
    BY <1>3, <2>2, <2>3 DEF SelectPrev
<1>4. CASE Click
  <2>1. newly' = selected' /\ Event /\ UpdateSelectedDev(selected')
    BY <1>4 DEF Click, UpdateSelectedDev
  <2>2. ASSUME NEW k \in Devices \ {selected}, MoveSelection(k)
        PROVE  TreeInv' /\ [NextPane]_paneVars
    <3>1. TreeInv'
      BY <2>1, <2>2, MoveInv
    <3>2. selected' \in Devices
      BY <2>2 DEF MoveSelection
    <3>3. QED
      BY <2>1, <3>1, <3>2 DEF NextPane
  <2>3. CASE UNCHANGED treeVars
    <3>1. selected' \in Devices
      BY <2>3 DEF treeVars, TreeInv
    <3>2. QED
      BY <1>1, <2>1, <2>3, <3>1, StayInv DEF NextPane
  <2>4. QED
    BY <1>4, <2>2, <2>3 DEF Click
<1>5. ASSUME NEW m \in Modes, SwitchDrawingMode(m)
      PROVE  TreeInv' /\ [NextPane]_paneVars
  <2>1. newly' = selected /\ selected' = selected /\ Event
        /\ UpdateSelectedDev(selected) /\ mode' = m
    BY <1>5 DEF SwitchDrawingMode, UpdateSelectedDev
  <2>2. flag' = [d \in Devices |-> d = selected'] /\ mark' = mark
    <3>1. mark' = [d \in Devices |-> mark[d]]
      BY <1>5, DevicePanesAssumption DEF SwitchDrawingMode, ReapplyHighlight
    <3>2. QED
      BY <1>5, <2>1, <3>1 DEF SwitchDrawingMode, TreeInv
  <2>3. look' = [d \in Devices |-> Draw(d = selected', mark'[d])]
    BY <1>5, <2>1, <2>2 DEF SwitchDrawingMode, Draw
  <2>4. QED
    BY <1>1, <2>1, <2>2, <2>3 DEF TreeInv, NextPane
<1>6. CASE Reset
  BY <1>1, <1>6, StayInv DEF Reset, ResetRegsVisibilityState, NextPane, TreeInv
<1>7. ASSUME NEW i \in 1..InteractiveElemMax, Press(i)
      PROVE  TreeInv' /\ [NextPane]_paneVars
  BY <1>1, <1>7, StayInv DEF Press, PressButton, NextPane, TreeInv
<1>8. CASE Frame
  <2>1. newly' = newly /\ (OnRender \/ UNCHANGED paneVars)
    BY <1>8 DEF Frame, OnRender, paneVars
  <2>2. burst' = burst /\ events' \in 0..burst
    BY <1>8, DevicePanesAssumption DEF Frame, TreeInv
  <2>3. QED
    BY <1>8, <2>1, <2>2, StayInv DEF Frame, TreeInv, NextPane
<1>9. CASE UNCHANGED vars
  BY <1>9, StayInv DEF vars, treeVars, paneVars, TreeInv
<1>10. QED
  BY <1>2, <1>3, <1>4, <1>5, <1>6, <1>7, <1>8, <1>9 DEF Next

\* The tree always has exactly one selected block and a canvas that is up to date.
THEOREM TreeInvariance == Spec => []TreeInv
<1>1. TreeInv /\ [Next]_vars => TreeInv'
  BY TreeStep
<1>2. QED
  BY <1>1, TreeInit, PTL DEF Spec

\* The two panes together are a registers pane: the tree acts on it through its
\* operations alone.
THEOREM PanesArePane == Spec => PaneSpec
<1>1. Init => InitPane
  BY DEF Init
<1>2. TreeInv /\ [Next]_vars => [NextPane]_paneVars
  BY TreeStep
<1>3. QED
  BY <1>1, <1>2, TreeInvariance, PTL DEF Spec, PaneSpec

\* Whatever the number of devices and of events between frames: the variables of both
\* panes have values of their types.
THEOREM PanesTypeOK == Spec => []TypeOK
<1>1. PaneInv /\ TreeInv => TypeOK
  BY DEF PaneInv, TreeInv, TypeOK, Draw
<1>2. QED
  BY <1>1, PanesArePane, PaneInvariance, TreeInvariance, PTL

\* The same: exactly one block is drawn as selected, and none as it looked before.
THEOREM PanesBlocksDrawn == Spec => []BlocksDrawn
<1>1. TreeInv => BlocksDrawn
  BY DEF TreeInv, BlocksDrawn
<1>2. QED
  BY <1>1, TreeInvariance, PTL

\* The same: no pointer of a component that can be displayed dangles.
THEOREM PanesPointersValid == Spec => []PointersValid
BY PanesArePane, NoDanglingPointer, PTL

\* The same: selecting, clicking and switching the drawing mode in any order and at
\* any speed opens and closes no register.
THEOREM PanesRefinement == Spec => ImplementsHighlightStore
BY PanesArePane, PaneRefinement, PTL

-----------------------------------------------------------------------------
(***************************************************************************)
(* The marks of the tree and the registers that are open, when a frame is  *)
(* drawn after each event.                                                 *)
(***************************************************************************)

\* The registers pane has been asked for the device that the tree selects.  When a
\* frame is drawn after each event it displays that device before the next one, so
\* what it says of the displayed device as the selection leaves is true of the device
\* the selection leaves.
MarkInv ==
  /\ newly = selected
  /\ cur = NoDevice => \A d \in Devices : Shown(d) = {}
  /\ burst = 1 =>
       /\ events = 0 => cur \in {selected, NoDevice}
       /\ \A d \in Devices \ {selected} : mark[d] <=> keep /\ Shown(d) # {}

LEMMA MarkInit == Init => MarkInv
<1> SUFFICES ASSUME Init PROVE MarkInv
  OBVIOUS
<1>1. \A d \in Devices : Shown(d) = {}
  BY PaneConstantsAssumption DEF Init, InitPane, Shown
<1>2. QED
  BY <1>1 DEF Init, InitPane, MarkInv

\* UpdateSelectedDev leaves what is open as it is.
LEMMA AskKeeps ==
  ASSUME NEW k, UpdateSelectedDev(k)
  PROVE  /\ newly' = k /\ UNCHANGED <<keep, cur>>
         /\ \A d \in Devices : Shown(d)' = Shown(d)
BY DEF UpdateSelectedDev, Shown, Lit

\* What the registers pane says as the selection leaves a device it displays.
LEMMA SaysOfSelected ==
  ASSUME PaneInv, MarkInv, cur \in {selected, NoDevice}, selected \in Devices
  PROVE  CurDevHaveRegsHighlighted <=> keep /\ Shown(selected) # {}
<1>1. CASE cur = NoDevice
  <2>1. vis = NoBuffer /\ Shown(selected) = {}
    BY <1>1 DEF MarkInv, PaneInv, PointersValid, DisplayedIsLive
  <2>2. QED
    BY <2>1 DEF CurDevHaveRegsHighlighted
<1>2. CASE cur # NoDevice
  <2>1. cur = selected /\ vis # NoBuffer /\ Shown(selected) = Lit(vis)
    BY <1>2, ShownByOwner DEF PaneInv, PointersValid, DisplayedIsLive
  <2>2. QED
    BY <2>1 DEF CurDevHaveRegsHighlighted
<1>3. QED
  BY <1>1, <1>2

\* Moving the selection.
LEMMA MoveMarks ==
  ASSUME PaneInv, TreeInv, MarkInv, NEW k \in Devices, k # selected,
         MoveSelection(k), Event, UpdateSelectedDev(selected')
  PROVE  MarkInv'
<1>1. /\ selected' = k /\ mark' = [mark EXCEPT ![selected] = CurDevHaveRegsHighlighted]
  BY DEF MoveSelection, MarkOnLeave
<1>2. /\ newly' = selected' /\ UNCHANGED <<keep, cur>>
      /\ \A d \in Devices : Shown(d)' = Shown(d)
  BY AskKeeps
<1>3. burst' = burst /\ (burst = 1 => events = 0 /\ events' = 1)
  BY DEF Event, TreeInv
<1>4. ASSUME burst = 1, NEW d \in Devices \ {k}
      PROVE  mark'[d] <=> keep /\ Shown(d) # {}
  <2>1. CASE d = selected
    <3>1. CurDevHaveRegsHighlighted <=> keep /\ Shown(selected) # {}
      BY <1>3, <1>4, SaysOfSelected DEF MarkInv, TreeInv
    <3>2. mark'[d] = CurDevHaveRegsHighlighted
      BY <1>1, <2>1 DEF TreeInv
    <3>3. QED
      BY <2>1, <3>1, <3>2
  <2>2. CASE d # selected
    <3>1. mark'[d] = mark[d]
      BY <1>1, <2>2 DEF TreeInv
    <3>2. QED
      BY <1>4, <2>2, <3>1 DEF MarkInv
  <2>3. QED
    BY <2>1, <2>2
<1>5. QED
  BY <1>1, <1>2, <1>3, <1>4 DEF MarkInv

\* Other events the tree passes on.
LEMMA AskMarks ==
  ASSUME TreeInv, MarkInv, UNCHANGED <<selected, mark>>, Event, UpdateSelectedDev(selected)
  PROVE  MarkInv'
<1>1. /\ newly' = selected' /\ UNCHANGED <<keep, cur>>
      /\ \A d \in Devices : Shown(d)' = Shown(d)
  BY AskKeeps
<1>2. burst' = burst /\ events' # 0
  BY DEF Event, TreeInv
<1>3. QED
  BY <1>1, <1>2 DEF MarkInv

\* Flags of the displayed device.
LEMMA FlagMarks ==
  ASSUME PaneInv, TreeInv, MarkInv, cur # NoDevice, NEW f,
         heap' = [heap EXCEPT ![vis] = f],
         UNCHANGED <<keep, newly, cur, vis, split, visMap, compMap>>,
         Event, UNCHANGED <<selected, mark>>
  PROVE  MarkInv'
<1>1. openBar' = [openBar EXCEPT ![cur] = {i \in DOMAIN f : f[i] = 1}]
  BY OnlyDisplayed
<1>2. \A d \in Devices \ {cur} : Shown(d)' = Shown(d)
  BY <1>1 DEF openBar
<1>3. burst' = burst /\ events' # 0 /\ (burst = 1 => events = 0)
  BY DEF Event, TreeInv
<1>4. burst = 1 => cur = selected
  BY <1>3 DEF MarkInv
<1>5. QED
  BY <1>2, <1>3, <1>4 DEF MarkInv

LEMMA MarkStep == PaneInv /\ PaneInv' /\ TreeInv /\ MarkInv /\ [Next]_vars => MarkInv'
<1> SUFFICES ASSUME PaneInv, PaneInv', TreeInv, MarkInv, [Next]_vars PROVE MarkInv'
  OBVIOUS
<1>1. selected \in Devices
  BY DEF TreeInv
<1>2. ASSUME UNCHANGED treeVars, Event, UpdateSelectedDev(selected')
      PROVE  MarkInv'
  BY <1>2, AskMarks DEF treeVars
<1>3. CASE SelectNext
  <2>1. Event /\ UpdateSelectedDev(selected')
    BY <1>3 DEF SelectNext
  <2>2. CASE selected < N /\ MoveSelection(selected + 1)
    <3>1. selected + 1 \in Devices /\ selected + 1 # selected
      BY <1>1, <2>2, DevicePanesAssumption
    <3>2. QED
      BY <2>1, <2>2, <3>1, MoveMarks
  <2>3. CASE UNCHANGED treeVars
    BY <1>2, <2>1, <2>3
  <2>4. QED
    BY <1>3, <2>2, <2>3 DEF SelectNext
<1>4. CASE SelectPrev
  <2>1. Event /\ UpdateSelectedDev(selected')
    BY <1>4 DEF SelectPrev
  <2>2. CASE selected > 1 /\ MoveSelection(selected - 1)
    <3>1. selected - 1 \in Devices /\ selected - 1 # selected
      BY <1>1, <2>2, DevicePanesAssumption
    <3>2. QED
      BY <2>1, <2>2, <3>1, MoveMarks
  <2>3. CASE UNCHANGED treeVars
    BY <1>2, <2>1, <2>3
  <2>4. QED
    BY <1>4, <2>2, <2>3 DEF SelectPrev
<1>5. CASE Click
  <2>1. Event /\ UpdateSelectedDev(selected')
    BY <1>5 DEF Click
  <2>2. ASSUME NEW k \in Devices \ {selected}, MoveSelection(k)
        PROVE  MarkInv'
    BY <2>1, <2>2, MoveMarks
  <2>3. CASE UNCHANGED treeVars
    BY <1>2, <2>1, <2>3
  <2>4. QED
    BY <1>5, <2>2, <2>3 DEF Click
<1>6. ASSUME NEW m \in Modes, SwitchDrawingMode(m)
      PROVE  MarkInv'
  <2>1. selected' = selected /\ Event /\ UpdateSelectedDev(selected)
    BY <1>6 DEF SwitchDrawingMode
  <2>2. mark' = [d \in Devices |-> mark[d]]
    BY <1>6, DevicePanesAssumption DEF SwitchDrawingMode, ReapplyHighlight
  <2>3. mark' = mark
    BY <2>2 DEF TreeInv
  <2>4. QED
    BY <2>1, <2>3, AskMarks
<1>7. CASE Reset
  <2>1. Event /\ UNCHANGED <<selected, mark>>
        /\ UNCHANGED <<keep, newly, cur, vis, split, visMap, compMap>>
    BY <1>7 DEF Reset, ResetRegsVisibilityState, treeVars
  <2>2. CASE cur = NoDevice
    <3>1. vis = NoBuffer
      BY <2>2 DEF PaneInv, PointersValid, DisplayedIsLive
    <3>2. heap' = heap
      BY <1>7, <3>1 DEF Reset, ResetRegsVisibilityState
    <3>3. \A d \in Devices : Shown(d)' = Shown(d)
      BY <2>1, <3>2 DEF Shown, Lit
    <3>4. burst' = burst /\ events' # 0
      BY <2>1 DEF Event, TreeInv
    <3>5. QED
      BY <2>1, <3>3, <3>4 DEF MarkInv
  <2>3. CASE cur # NoDevice
    <3>1. heap' = [heap EXCEPT ![vis] = AllClosed(Len(heap[vis]))]
      BY <1>7, <2>3 DEF Reset, ResetRegsVisibilityState, PaneInv, PointersValid, DisplayedIsLive
    <3>2. QED
      BY <2>1, <2>3, <3>1, FlagMarks
  <2>4. QED
    BY <2>2, <2>3
<1>8. ASSUME NEW i \in 1..InteractiveElemMax, Press(i)
      PROVE  MarkInv'
  <2>1. Event /\ UNCHANGED <<selected, mark>>
        /\ UNCHANGED <<keep, newly, cur, vis, split, visMap, compMap>>
    BY <1>8 DEF Press, PressButton, treeVars
  <2>2. cur # NoDevice /\ split.buf = vis
    BY <1>8 DEF Press, PressButton, PaneInv, PointersValid, DisplayedIsLive
  <2>3. heap' = [heap EXCEPT ![vis] = [heap[vis] EXCEPT ![i] = 1 - @]]
    BY <1>8, <2>2 DEF Press, PressButton
  <2>4. QED
    BY <2>1, <2>2, <2>3, FlagMarks
<1>9. CASE Frame
  <2>1. UNCHANGED <<selected, mark, burst>>
    BY <1>9 DEF Frame, treeVars
  <2>2. CASE OnRender
    <3>1. cur' = newly /\ UNCHANGED <<keep, newly>> /\ cur' \in Devices
      BY <2>2, RenderCases
    <3>2. openBar' = IF keep THEN openBar ELSE [d \in Devices |-> {}]
      BY <2>2, RenderKeeps
    <3>3. keep => \A d \in Devices : Shown(d)' = Shown(d)
      BY <3>2 DEF openBar
    <3>4. NoDevice \notin Devices
      BY PaneConstantsAssumption
    <3>5. QED
      BY <2>1, <3>1, <3>3, <3>4 DEF MarkInv
  <2>3. CASE newly = cur /\ UNCHANGED paneVars
    <3>1. \A d \in Devices : Shown(d)' = Shown(d)
      BY <2>3 DEF paneVars, Shown, Lit
    <3>2. QED
      BY <2>1, <2>3, <3>1 DEF MarkInv, paneVars
  <2>4. QED
    BY <1>9, <2>2, <2>3 DEF Frame
<1>10. CASE UNCHANGED vars
  <2>1. \A d \in Devices : Shown(d)' = Shown(d)
    BY <1>10 DEF vars, Shown, Lit
  <2>2. QED
    BY <1>10, <2>1 DEF vars, MarkInv
<1>11. QED
  BY <1>3, <1>4, <1>5, <1>6, <1>7, <1>8, <1>9, <1>10 DEF Next

\* The same: when a frame is drawn after each event, the tree shows at all times which
\* of the other devices have registers open.
THEOREM PanesShowOpenRegisters == Spec => []TreeShowsOpenRegisters
<1>1. PaneInv /\ PaneInv' /\ TreeInv /\ MarkInv /\ [Next]_vars => MarkInv'
  BY MarkStep
<1>2. TreeInv /\ MarkInv => TreeShowsOpenRegisters
  BY DEF TreeInv, MarkInv, TreeShowsOpenRegisters, Draw
<1>3. QED
  BY <1>1, <1>2, MarkInit, PanesArePane, PaneInvariance, TreeInvariance, PTL DEF Spec

-----------------------------------------------------------------------------
(***************************************************************************)
(* Every frame shows the selected device.                                  *)
(***************************************************************************)

\* What the tree has selected and what it has told the registers pane.
Told == newly = selected

\* Every event that selects a device tells the pane of it, the last as well as any that
\* came before it in the same burst; no other step touches either.
LEMMA ToldStep ==
  ASSUME Told, [Next]_vars
  PROVE  Told'
<1>1. CASE SelectNext \/ SelectPrev \/ Click
  BY <1>1 DEF SelectNext, SelectPrev, Click, UpdateSelectedDev, Told
<1>2. ASSUME NEW m \in Modes, SwitchDrawingMode(m)
      PROVE  Told'
  BY <1>2 DEF SwitchDrawingMode, UpdateSelectedDev, Told
<1>3. CASE Reset
  BY <1>3 DEF Reset, ResetRegsVisibilityState, treeVars, Told
<1>4. ASSUME NEW i \in 1..InteractiveElemMax, Press(i)
      PROVE  Told'
  BY <1>4 DEF Press, PressButton, treeVars, Told
<1>5. CASE Frame
  <2>1. newly' = newly
    BY <1>5 DEF Frame, OnRender, paneVars
  <2>2. selected' = selected
    BY <1>5 DEF Frame, treeVars
  <2>3. QED
    BY <2>1, <2>2 DEF Told
<1>6. CASE UNCHANGED vars
  BY <1>6 DEF vars, Told
<1>7. QED
  BY <1>1, <1>2, <1>3, <1>4, <1>5, <1>6 DEF Next

\* For every number of devices and of events between two frames: a frame shows the
\* registers of the device that is selected when it is drawn, and not of one that was
\* selected before it in the same burst.  This is the safety half of PaneFollows.
THEOREM FramesShowSelected == Spec => FrameShowsSelected
<1>1. Init => Told
  BY DEF Init, Told
<1>2. Told /\ [Next]_vars => Told'
  BY ToldStep
<1>3. ASSUME Told, Frame
      PROVE  cur' = selected
  <2>1. OnRender => cur' = newly
    BY DEF OnRender
  <2>2. UNCHANGED paneVars => cur' = cur
    BY DEF paneVars
  <2>3. OnRender \/ (newly = cur /\ UNCHANGED paneVars)
    BY <1>3 DEF Frame
  <2>4. QED
    BY <1>3, <2>1, <2>2, <2>3 DEF Told
<1>4. Told /\ [Next]_vars => [Frame => cur' = selected]_vars
  BY <1>3
<1>5. QED
  BY <1>1, <1>2, <1>4, PTL DEF Spec, FrameShowsSelected
=============================================================================
