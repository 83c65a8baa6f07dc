----------------------------- MODULE StartupProofs -----------------------------
(***************************************************************************)
(* Proofs about Topology, and about Startup, which leads to it: that the   *)
(* layout of what the kernel enumerates has each device once and where it  *)
(* belongs, and that a scan serves what was asked for.                     *)
(***************************************************************************)
EXTENDS Startup, FiniteSetTheorems, FunctionTheorems, SequenceTheorems, TLAPS

-----------------------------------------------------------------------------
(***************************************************************************)
(* Lists by ascending key.                                                 *)
(***************************************************************************)

\* A set of natural numbers that is not empty has a least member.
LEMMA LeastMember ==
  ASSUME NEW S \in SUBSET Nat, S # {}
  PROVE  \E m \in S : \A k \in S : m <= k
<1> DEFINE R == {p \in Nat \X Nat : p[1] < p[2]}
<1>1. OpToRel(<, Nat) = R
  BY DEF OpToRel
<1>2. IsWellFoundedOn(R, Nat)
  BY <1>1, NatLessThanWellFounded
<1>3. PICK m \in S : \A k \in S : ~(<<k, m>> \in R)
  <2> HIDE DEF R
  <2>1. QED
    BY <1>2, WFMin
<1>4. SUFFICES ASSUME NEW k \in S, k < m PROVE FALSE
  OBVIOUS
<1>5. <<k, m>> \in R
  BY <1>4
<1>6. QED
  BY <1>3, <1>5

\* Of different indices with keys, one comes before the other.
LEMMA BeforeOrders ==
  ASSUME NEW I \in SUBSET Nat, NEW key \in [I -> Nat]
  PROVE  /\ \A i \in I : ~Before(key, i, i)
         /\ \A i, j \in I : i # j => Before(key, i, j) \/ Before(key, j, i)
         /\ \A i, j, k \in I : Before(key, i, j) /\ Before(key, j, k) => Before(key, i, k)
<1>1. \A i \in I : i \in Nat /\ key[i] \in Nat
  OBVIOUS
<1>2. QED
  BY <1>1 DEF Before

\* Of a set of indices that is not empty, one comes before all others.
LEMMA FirstByKey ==
  ASSUME NEW I \in SUBSET Nat, NEW key \in [I -> Nat], NEW S \in SUBSET I, S # {}
  PROVE  \E m \in S : \A i \in S : i # m => Before(key, m, i)
<1> DEFINE K == {key[i] : i \in S}
<1>1. PICK least \in K : \A k \in K : least <= k
  <2>1. K \in SUBSET Nat /\ K # {}
    OBVIOUS
  <2> HIDE DEF K
  <2>2. QED
    BY <2>1, LeastMember
<1> DEFINE M == {i \in S : key[i] = least}
<1>2. PICK m \in M : \A i \in M : m <= i
  <2>1. M \in SUBSET Nat /\ M # {}
    BY <1>1
  <2> HIDE DEF M
  <2>2. QED
    BY <2>1, LeastMember
<1>3. ASSUME NEW i \in S, i # m PROVE Before(key, m, i)
  <2>1. i \in Nat /\ m \in Nat /\ key[i] \in Nat /\ key[m] = least /\ least \in Nat
    BY <1>1, <1>2
  <2>2. least <= key[i]
    BY <1>1
  <2>3. CASE key[i] = least
    <3>1. m <= i
      BY <1>2, <2>3
    <3>2. QED
      BY <1>3, <2>1, <2>3, <3>1 DEF Before
  <2>4. CASE key[i] # least
    BY <2>1, <2>2, <2>4 DEF Before
  <2>5. QED
    BY <2>3, <2>4
<1>4. QED
  BY <1>2, <1>3

\* The indices that come before one, and how many they are.
Earlier(key, i) == {j \in DOMAIN key : Before(key, j, i)}

LEMMA EarlierGrows ==
  ASSUME NEW I \in SUBSET Nat, IsFiniteSet(I), NEW key \in [I -> Nat], NEW i \in I
  PROVE  /\ Cardinality(Earlier(key, i)) \in Nat
         /\ Cardinality(Earlier(key, i)) < Cardinality(I)
         /\ \A j \in I : Before(key, i, j) =>
              Cardinality(Earlier(key, i)) < Cardinality(Earlier(key, j))
<1>1. ASSUME NEW T \in SUBSET I, Earlier(key, i) \subseteq T, i \in T
      PROVE  /\ IsFiniteSet(T) /\ Cardinality(T) \in Nat
             /\ Cardinality(Earlier(key, i)) \in Nat
             /\ Cardinality(Earlier(key, i)) < Cardinality(T)
  <2>1. IsFiniteSet(T) /\ Cardinality(T) \in Nat
    BY FS_Subset, FS_CardinalityType
  <2>2. i \notin Earlier(key, i)
    BY BeforeOrders DEF Earlier
  <2>3. /\ Cardinality(Earlier(key, i)) <= Cardinality(T)
        /\ Cardinality(T) = Cardinality(Earlier(key, i)) => T = Earlier(key, i)
        /\ IsFiniteSet(Earlier(key, i))
    BY <1>1, <2>1, FS_Subset
  <2>4. Cardinality(Earlier(key, i)) \in Nat
    BY <2>3, FS_CardinalityType
  <2>5. Cardinality(T) # Cardinality(Earlier(key, i))
    BY <1>1, <2>2, <2>3
  <2>6. QED
    BY <2>1, <2>3, <2>4, <2>5
<1>2. Earlier(key, i) \subseteq I
  BY DEF Earlier
<1>3. ASSUME NEW j \in I, Before(key, i, j)
      PROVE  Cardinality(Earlier(key, i)) < Cardinality(Earlier(key, j))
  <2>1. Earlier(key, i) \subseteq Earlier(key, j) /\ i \in Earlier(key, j)
    BY <1>3, BeforeOrders DEF Earlier
  <2>2. Earlier(key, j) \in SUBSET I
    BY DEF Earlier
  <2>3. QED
    BY <1>1, <2>1, <2>2
<1>4. QED
  BY <1>1, <1>2, <1>3

\* There is an index for every number of earlier ones.
LEMMA EveryPlaceTaken ==
  ASSUME NEW I \in SUBSET Nat, IsFiniteSet(I), NEW key \in [I -> Nat]
  PROVE  \A k \in 1 .. Cardinality(I) : \E i \in I : Cardinality(Earlier(key, i)) = k - 1
<1>1. Cardinality(I) \in Nat
  BY FS_CardinalityType
<1> DEFINE n == Cardinality(I)
           Free == {k \in 1..n : ~ \E i \in I : Cardinality(Earlier(key, i)) = k - 1}
<1>2. SUFFICES ASSUME Free # {} PROVE FALSE
  OBVIOUS
<1>3. PICK f \in Free : \A k \in Free : f <= k
  <2>1. Free \in SUBSET Nat
    BY <1>1
  <2> HIDE DEF Free
  <2>2. QED
    BY <1>2, <2>1, LeastMember
<1>4. f \in 1..n /\ ~ \E i \in I : Cardinality(Earlier(key, i)) = f - 1
  OBVIOUS
\* The indices of which fewer come before are f - 1 in number.
<1>5. CASE f = 1
  <2>1. I # {}
    BY <1>1, <1>4, FS_EmptySet
  <2>2. PICK m \in I : \A i \in I : i # m => Before(key, m, i)
    BY <2>1, FirstByKey
  <2>3. Earlier(key, m) = {}
    BY <2>2, BeforeOrders DEF Earlier
  <2>4. Cardinality(Earlier(key, m)) = 0
    BY <2>3, FS_EmptySet
  <2>5. QED
    BY <1>4, <1>5, <2>4
<1>6. CASE f > 1
  <2>1. f - 1 \in 1..n /\ f - 1 \notin Free
    BY <1>1, <1>3, <1>4, <1>6
  <2>2. PICK i \in I : Cardinality(Earlier(key, i)) = f - 2
    BY <1>1, <1>4, <2>1
  <2> DEFINE Past == Earlier(key, i) \cup {i}
             Rest == I \ Past
  <2>3. IsFiniteSet(Earlier(key, i)) /\ Earlier(key, i) \subseteq I
    BY FS_Subset DEF Earlier
  <2>4. i \notin Earlier(key, i)
    BY BeforeOrders DEF Earlier
  <2>5. Cardinality(Past) = f - 1
    <3>1. Cardinality(Past) = Cardinality(Earlier(key, i)) + 1
      BY <2>3, <2>4, FS_AddElement
    <3>2. QED
      BY <1>1, <1>4, <2>2, <3>1
  <2>6. Rest # {}
    <3>1. Past # I
      BY <1>1, <1>4, <2>5
    <3>2. QED
      BY <2>3, <3>1
  <2>7. PICK m \in Rest : \A j \in Rest : j # m => Before(key, m, j)
    <3>1. Rest \in SUBSET I
      OBVIOUS
    <3> HIDE DEF Rest
    <3>2. QED
      BY <2>6, <3>1, FirstByKey
  <2>8. Before(key, i, m)
    BY <2>7, BeforeOrders DEF Earlier
  <2>9. Earlier(key, m) = Past
    <3>1. ASSUME NEW j \in Past PROVE j \in Earlier(key, m)
      <4>1. i \in I /\ m \in I /\ j \in I
        BY <2>3, <2>7, <3>1
      <4>2. j = i \/ Before(key, j, i)
        BY <3>1 DEF Earlier
      <4>3. Before(key, j, m)
        BY <2>8, <4>1, <4>2, BeforeOrders
      <4>4. QED
        BY <4>1, <4>3 DEF Earlier
    <3>2. ASSUME NEW j \in Earlier(key, m) PROVE j \in Past
      <4>1. j \in I /\ Before(key, j, m)
        BY <3>2 DEF Earlier
      <4>2. SUFFICES ASSUME j \in Rest PROVE FALSE
        BY <4>1
      <4>3. j = m \/ Before(key, m, j)
        BY <2>7, <4>2
      <4>4. QED
        BY <2>7, <4>1, <4>3, BeforeOrders
    <3>3. QED
      BY <3>1, <3>2
  <2>10. QED
    BY <1>4, <2>5, <2>7, <2>9
<1>7. QED
  BY <1>1, <1>4, <1>5, <1>6

\* p has each of the n members of I, by ascending key.
IsOrder(p, n, I, key) ==
  /\ p \in [1..n -> I]
  /\ \A i \in I : \E k \in 1..n : p[k] = i
  /\ \A k, l \in 1..n : k < l => Before(key, p[k], p[l])

\* What Ordered lists: s at each index with a key, once, and by ascending key.
LEMMA OrderedList ==
  ASSUME NEW s, NEW I \in SUBSET Nat, IsFiniteSet(I), NEW key \in [I -> Nat],
         NEW n, n = Cardinality(I)
  PROVE  \E p : IsOrder(p, n, I, key) /\ Ordered(s, key) = [k \in 1..n |-> s[p[k]]]
<1> DEFINE nth(k) == CHOOSE i \in I : Cardinality(Earlier(key, i)) = k - 1
           p     == [k \in 1..n |-> nth(k)]
<1>1. n \in Nat
  BY FS_CardinalityType
<1>2. \A k \in 1..n : nth(k) \in I /\ Cardinality(Earlier(key, nth(k))) = k - 1
  BY EveryPlaceTaken
<1>3. Ordered(s, key) = [k \in 1..n |-> s[p[k]]]
  <2>1. DOMAIN key = I
    OBVIOUS
  <2>2. Ordered(s, key) = [k \in 1..n |-> s[nth(k)]]
    BY <2>1 DEF Ordered, Earlier
  <2> HIDE DEF nth
  <2>3. QED
    BY <2>2
<1> HIDE DEF nth
<1>4. p \in [1..n -> I]
  BY <1>2
<1>5. ASSUME NEW i \in I PROVE \E k \in 1..n : p[k] = i
  <2> DEFINE k == Cardinality(Earlier(key, i)) + 1
  <2>1. k \in 1..n
    BY <1>1, EarlierGrows
  <2>2. Cardinality(Earlier(key, nth(k))) = Cardinality(Earlier(key, i)) /\ nth(k) \in I
    BY <1>2, <2>1, EarlierGrows
  <2>3. nth(k) = i
    <3> HIDE DEF k
    <3>1. SUFFICES ASSUME nth(k) # i PROVE FALSE
      OBVIOUS
    <3>2. Before(key, nth(k), i) \/ Before(key, i, nth(k))
      BY <2>2, <3>1, BeforeOrders
    <3>3. \/ Cardinality(Earlier(key, nth(k))) < Cardinality(Earlier(key, i))
          \/ Cardinality(Earlier(key, i)) < Cardinality(Earlier(key, nth(k)))
      BY <2>2, <3>2, EarlierGrows
    <3>4. Cardinality(Earlier(key, i)) \in Nat
      BY EarlierGrows
    <3>5. QED
      BY <2>2, <3>3, <3>4
  <2>4. QED
    BY <2>1, <2>3
<1>6. ASSUME NEW k \in 1..n, NEW l \in 1..n, k < l PROVE Before(key, p[k], p[l])
  <2>1. /\ nth(k) \in I /\ Cardinality(Earlier(key, nth(k))) = k - 1
        /\ nth(l) \in I /\ Cardinality(Earlier(key, nth(l))) = l - 1
    BY <1>2
  <2>2. nth(k) # nth(l)
    BY <1>6, <2>1
  <2>3. ~Before(key, nth(l), nth(k))
    <3>1. SUFFICES ASSUME Before(key, nth(l), nth(k)) PROVE FALSE
      OBVIOUS
    <3>2. Cardinality(Earlier(key, nth(l))) < Cardinality(Earlier(key, nth(k)))
      BY <2>1, <3>1, EarlierGrows
    <3>3. QED
      BY <1>1, <1>6, <2>1, <3>2
  <2>4. Before(key, nth(k), nth(l))
    BY <2>1, <2>2, <2>3, BeforeOrders
  <2>5. QED
    BY <2>4
<1>7. QED
  <2> HIDE DEF p
  <2>1. IsOrder(p, n, I, key)
    BY <1>4, <1>5, <1>6 DEF IsOrder
  <2>2. QED
    BY <1>3, <2>1

\* A list of devices that comes by ascending address.
Ascending(ds) == \A k, l \in 1 .. Len(ds) : k < l => DBdf(ds[k]) < DBdf(ds[l])

LEMMA Addresses ==
  ASSUME NEW d \in Device
  PROVE  DBdf(d) \in Nat
BY DEF DBdf, Device

\* The sorted list has the same devices, by ascending address if no two have one.
LEMMA SortedList ==
  ASSUME NEW s \in Seq(Device)
  PROVE  /\ Sorted(s) \in Seq(Device) /\ Len(Sorted(s)) = Len(s)
         /\ Elems(Sorted(s)) = Elems(s)
         /\ (\A i, j \in DOMAIN s : i # j => DBdf(s[i]) # DBdf(s[j])) => Ascending(Sorted(s))
<1> DEFINE n   == Len(s)
           key == [i \in 1..n |-> DBdf(s[i])]
<1>1. n \in Nat /\ DOMAIN s = 1..n /\ \A i \in 1..n : s[i] \in Device
  OBVIOUS
<1>2. key \in [1..n -> Nat]
  BY <1>1, Addresses
<1>3. IsFiniteSet(1..n) /\ Cardinality(1..n) = n /\ 1..n \in SUBSET Nat
  <2> HIDE DEF n
  <2>1. 1 \in Int /\ n \in Int /\ n >= 0
    BY <1>1
  <2>2. IsFiniteSet(1..n) /\ Cardinality(1..n) = IF 1 > n THEN 0 ELSE n - 1 + 1
    BY <2>1, FS_Interval
  <2>3. QED
    BY <2>1, <2>2
<1>4. Sorted(s) = Ordered(s, key)
  BY <1>1 DEF Sorted
<1>5. PICK p : IsOrder(p, n, 1..n, key) /\ Ordered(s, key) = [k \in 1..n |-> s[p[k]]]
  <2> DEFINE I == 1..n
  <2> HIDE DEF key, n
  <2>1. I \in SUBSET Nat /\ IsFiniteSet(I) /\ n = Cardinality(I) /\ key \in [I -> Nat]
    BY <1>2, <1>3
  <2> HIDE DEF I
  <2>2. \E p : IsOrder(p, n, I, key) /\ Ordered(s, key) = [k \in 1..n |-> s[p[k]]]
    BY <2>1, OrderedList
  <2>3. QED
    BY <2>2 DEF I
<1>6. Sorted(s) = [k \in 1..n |-> s[p[k]]]
  BY <1>4, <1>5
<1>7. \A k \in 1..n : p[k] \in 1..n /\ s[p[k]] \in Device
  BY <1>1, <1>5 DEF IsOrder
<1>8. Sorted(s) \in Seq(Device) /\ Len(Sorted(s)) = n
  BY <1>1, <1>6, <1>7
<1>9. Elems(Sorted(s)) = Elems(s)
  <2>1. Elems(Sorted(s)) = {s[p[k]] : k \in 1..n} /\ Elems(s) = {s[i] : i \in 1..n}
    BY <1>1, <1>6 DEF Elems
  <2>2. \A i \in 1..n : \E k \in 1..n : p[k] = i
    BY <1>5 DEF IsOrder
  <2>3. {s[p[k]] : k \in 1..n} = {s[i] : i \in 1..n}
    <3> HIDE DEF n
    <3>1. QED
      BY <1>7, <2>2
  <2>4. QED
    BY <2>1, <2>3
<1>10. ASSUME \A i, j \in DOMAIN s : i # j => DBdf(s[i]) # DBdf(s[j])
       PROVE  Ascending(Sorted(s))
  <2>1. SUFFICES ASSUME NEW k \in 1..n, NEW l \in 1..n, k < l
                 PROVE  DBdf(s[p[k]]) < DBdf(s[p[l]])
    BY <1>6, <1>8 DEF Ascending
  <2>2. Before(key, p[k], p[l])
    BY <1>5, <2>1 DEF IsOrder
  <2>3. key[p[k]] = DBdf(s[p[k]]) /\ key[p[l]] = DBdf(s[p[l]])
    BY <1>7
  <2>4. p[k] # p[l]
    <3>1. SUFFICES ASSUME p[k] = p[l] PROVE FALSE
      OBVIOUS
    <3>2. Before(key, p[k], p[k])
      BY <2>2, <3>1
    <3> HIDE DEF key
    <3>3. QED
      BY <1>2, <1>3, <1>7, <3>2, BeforeOrders
  <2>5. DBdf(s[p[k]]) # DBdf(s[p[l]])
    BY <1>1, <1>7, <1>10, <2>4
  <2> HIDE DEF key
  <2>6. QED
    BY <2>2, <2>3, <2>5 DEF Before
<1>11. QED
  BY <1>8, <1>9, <1>10

\* What is picked from a list by ascending address comes by ascending address.
LEMMA PickedList ==
  ASSUME NEW ds \in Seq(Device), NEW I \in SUBSET (1 .. Len(ds))
  PROVE  /\ Picked(ds, I) \in Seq(Device)
         /\ Elems(Picked(ds, I)) = {ds[i] : i \in I}
         /\ Ascending(ds) => Ascending(Picked(ds, I))
<1> DEFINE n   == Cardinality(I)
           key == [i \in I |-> i]
<1>1. Len(ds) \in Nat /\ DOMAIN ds = 1 .. Len(ds) /\ \A i \in 1 .. Len(ds) : ds[i] \in Device
  OBVIOUS
<1>2. IsFiniteSet(I) /\ n \in Nat /\ I \in SUBSET Nat
  <2>1. IsFiniteSet(1 .. Len(ds))
    BY <1>1, FS_Interval
  <2>2. IsFiniteSet(I)
    BY <2>1, FS_Subset
  <2>3. QED
    BY <1>1, <2>2, FS_CardinalityType
<1>3. key \in [I -> Nat]
  BY <1>2
<1>4. PICK p : IsOrder(p, n, I, key) /\ Ordered(ds, key) = [k \in 1..n |-> ds[p[k]]]
  <2> HIDE DEF key, n
  <2>1. n = Cardinality(I)
    BY DEF n
  <2>2. QED
    BY <1>2, <1>3, <2>1, OrderedList, SMTT(30)
<1>5. Picked(ds, I) = [k \in 1..n |-> ds[p[k]]]
  BY <1>4 DEF Picked
<1>6. \A k \in 1..n : p[k] \in I /\ p[k] \in 1 .. Len(ds) /\ ds[p[k]] \in Device
  BY <1>1, <1>4 DEF IsOrder
<1>7. Picked(ds, I) \in Seq(Device) /\ Len(Picked(ds, I)) = n
  BY <1>2, <1>5, <1>6
<1>8. Elems(Picked(ds, I)) = {ds[i] : i \in I}
  <2>1. Elems(Picked(ds, I)) = {ds[p[k]] : k \in 1..n}
    BY <1>5 DEF Elems
  <2>2. \A i \in I : \E k \in 1..n : p[k] = i
    BY <1>4 DEF IsOrder
  <2>3. QED
    BY <1>6, <2>1, <2>2
<1>9. ASSUME Ascending(ds) PROVE Ascending(Picked(ds, I))
  <2>1. SUFFICES ASSUME NEW k \in 1..n, NEW l \in 1..n, k < l
                 PROVE  DBdf(ds[p[k]]) < DBdf(ds[p[l]])
    <3> HIDE DEF n
    <3>1. QED
      BY <1>5, <1>7 DEF Ascending
  <2>2. Before(key, p[k], p[l])
    BY <1>4, <2>1 DEF IsOrder
  <2>3. p[k] < p[l]
    BY <1>6, <2>2 DEF Before
  <2>4. QED
    BY <1>6, <1>9, <2>3 DEF Ascending
<1>10. QED
  BY <1>7, <1>8, <1>9

-----------------------------------------------------------------------------
(***************************************************************************)
(* The types of the layout.                                                *)
(***************************************************************************)

\* What a uint16_t can count.
Spots  == 0..(Dots - 1)
Frames == [bus : DOMAIN buses, placed : Nat]
Blocks == [dev : Elems(devs), key : Spots]

\* Nothing has been populated.
Empty ==
  /\ phase = "populate"
  /\ devs = << >> /\ buses = << >>
  /\ mode \in Modes
  /\ roots = {} /\ stack = << >> /\ y = 0 /\ blocks = << >> /\ saved = {}

Typed ==
  /\ system \in [devs : Seq(Device), buses : Seq(Bus)]
  /\ phase \in {"populate", "failed", "layout", "done", "crashed"}
  /\ devs \in Seq(Device) /\ Elems(devs) \subseteq Elems(system.devs)
  /\ DOMAIN buses \subseteq Nat
  /\ \A nr \in DOMAIN buses : /\ buses[nr].devs \in Seq(Device)
                              /\ Elems(buses[nr].devs) \subseteq Elems(devs)
  /\ mode \in Modes
  /\ roots \subseteq DOMAIN buses
  /\ stack \in Seq(Frames)
  /\ \A k \in DOMAIN stack : stack[k].placed <= Len(buses[stack[k].bus].devs)
  /\ y \in Nat /\ y \in Spots
  /\ blocks \in Seq(Blocks)
  /\ saved \subseteq Elems(devs)
  /\ phase = "populate" => Empty
  /\ phase = "failed" => blocks = << >>

LEMMA EmptyIsTyped ==
  ASSUME Empty, system \in [devs : Seq(Device), buses : Seq(Bus)]
  PROVE  Typed
BY DotsAssumption DEF Empty, Typed, Elems, Spots

\* What becomes of a number of dots, and that it stays what it is where there is room.
LEMMA DotStays ==
  ASSUME NEW n \in Nat
  PROVE  Dot(n) \in Spots /\ Dot(n) \in Nat /\ (n < Dots => Dot(n) = n)
BY DotsAssumption DEF Dot, Spots

LEMMA TypedIsTypeOK == Typed => TypeOK
<1>1. SUFFICES ASSUME Typed PROVE TypeOK
  OBVIOUS
<1>2. ASSUME NEW k \in DOMAIN stack
      PROVE  /\ stack[k].bus \in DOMAIN buses
             /\ stack[k].placed \in 0 .. Len(buses[stack[k].bus].devs)
  <2>1. stack \in Seq(Frames) /\ k \in 1 .. Len(stack)
    BY <1>1, <1>2 DEF Typed
  <2>2. stack[k] \in Frames
    BY <2>1
  <2>3. stack[k].bus \in DOMAIN buses /\ stack[k].placed \in Nat
    BY <2>2 DEF Frames
  <2>4. Len(buses[stack[k].bus].devs) \in Nat
    BY <1>1, <2>3 DEF Typed
  <2>5. stack[k].placed <= Len(buses[stack[k].bus].devs)
    BY <1>1, <1>2 DEF Typed
  <2>6. QED
    BY <2>3, <2>4, <2>5
<1>3. ASSUME NEW i \in DOMAIN blocks
      PROVE  blocks[i].dev \in Elems(devs) /\ blocks[i].key \in 0..(Dots - 1)
  <2>1. blocks \in Seq(Blocks) /\ i \in 1 .. Len(blocks)
    BY <1>1, <1>3 DEF Typed
  <2>2. blocks[i] \in Blocks
    BY <2>1
  <2>3. QED
    BY <2>2 DEF Blocks, Spots
<1>4. QED
  BY <1>1, <1>2, <1>3 DEF Typed, TypeOK, Spots

\* A stack without its last member.
LEMMA WithoutTop ==
  ASSUME NEW T, NEW s \in Seq(T), s # << >>, NEW n, n = Len(s)
  PROVE  /\ n \in Nat /\ n > 0
         /\ SubSeq(s, 1, n - 1) \in Seq(T) /\ Len(SubSeq(s, 1, n - 1)) = n - 1
         /\ \A k \in 1..(n - 1) : SubSeq(s, 1, n - 1)[k] = s[k]
<1>1. n \in Nat /\ n > 0 /\ \A k \in 1..(n - 1) : s[k] \in T
  OBVIOUS
<1>2. 1 \in Int /\ n - 1 \in Int
  BY <1>1
<1>3. /\ SubSeq(s, 1, n - 1) \in Seq(T)
      /\ Len(SubSeq(s, 1, n - 1)) = (IF 1 <= n - 1 THEN n - 1 - 1 + 1 ELSE 0)
      /\ \A k \in 1..(n - 1 - 1 + 1) : SubSeq(s, 1, n - 1)[k] = s[1 + k - 1]
  BY <1>1, <1>2, SubSeqProperties
<1>4. QED
  <2> DEFINE rest == SubSeq(s, 1, n - 1)
  <2> HIDE DEF rest
  <2>1. rest \in Seq(T) /\ Len(rest) = n - 1 /\ \A k \in 1..(n - 1) : rest[k] = s[k]
    BY <1>1, <1>3 DEF rest
  <2>2. QED
    BY <1>1, <2>1 DEF rest

\* The last member of a stack is replaced by one.
LEMMA ReplacedByOne ==
  ASSUME NEW T, NEW s \in Seq(T), s # << >>, NEW n, n = Len(s), NEW a \in T,
         NEW t, t = SubSeq(s, 1, n - 1) \o <<a>>
  PROVE  /\ t \in Seq(T) /\ Len(t) = n /\ t[n] = a
         /\ \A k \in 1..(n - 1) : t[k] = s[k]
<1> DEFINE rest == SubSeq(s, 1, n - 1)
<1>1. /\ n \in Nat /\ n > 0 /\ rest \in Seq(T) /\ Len(rest) = n - 1
      /\ \A k \in 1..(n - 1) : rest[k] = s[k]
  BY WithoutTop
<1>2. t = rest \o <<a>>
  OBVIOUS
<1> HIDE DEF rest
<1>3. QED
  BY <1>1, <1>2

\* Or by two, one after the other.
LEMMA ReplacedByTwo ==
  ASSUME NEW T, NEW s \in Seq(T), s # << >>, NEW n, n = Len(s), NEW a \in T, NEW b \in T
  PROVE  SubSeq(s, 1, n - 1) \o <<a, b>> = Append(SubSeq(s, 1, n - 1) \o <<a>>, b)
<1> DEFINE rest == SubSeq(s, 1, n - 1)
<1>1. rest \in Seq(T)
  BY WithoutTop
<1> HIDE DEF rest
<1>2. rest \o <<a, b>> = Append(rest \o <<a>>, b)
  BY <1>1
<1>3. QED
  BY <1>2 DEF rest

\* The frame on top, and what it has placed.
LEMMA TopFrame ==
  ASSUME Typed, stack # << >>
  PROVE  /\ Len(stack) \in Nat /\ Len(stack) > 0 /\ DOMAIN stack = 1 .. Len(stack)
         /\ top \in Frames /\ top = [bus |-> top.bus, placed |-> top.placed]
         /\ top.bus \in DOMAIN buses /\ top.placed \in Nat
         /\ buses[top.bus].devs \in Seq(Device) /\ Len(buses[top.bus].devs) \in Nat
         /\ top.placed <= Len(buses[top.bus].devs)
<1>1. stack \in Seq(Frames)
  BY DEF Typed
<1>2. Len(stack) \in Nat /\ Len(stack) > 0 /\ DOMAIN stack = 1 .. Len(stack)
  BY <1>1
<1>3. top \in Frames
  BY <1>1, <1>2 DEF top
<1>4. top.bus \in DOMAIN buses /\ top.placed \in Nat /\ top = [bus |-> top.bus, placed |-> top.placed]
  BY <1>3 DEF Frames
<1>5. buses[top.bus].devs \in Seq(Device)
  BY <1>4 DEF Typed
<1>6. Len(buses[top.bus].devs) \in Nat
  BY <1>5
<1>7. top.placed <= Len(buses[top.bus].devs)
  <2>1. Len(stack) \in DOMAIN stack
    BY <1>2
  <2>2. \A k \in DOMAIN stack : stack[k].placed <= Len(buses[stack[k].bus].devs)
    BY DEF Typed
  <2>3. QED
    BY <2>1, <2>2 DEF top
<1>8. QED
  BY <1>2, <1>3, <1>4, <1>5, <1>6, <1>7

\* The devices of one bus, of a list.
LEMMA DevicesOfBus ==
  ASSUME NEW ds \in Seq(Device), NEW nr
  PROVE  /\ DevicesOf(ds, nr) \in Seq(Device)
         /\ Elems(DevicesOf(ds, nr)) = {d \in Elems(ds) : d.bus = nr}
         /\ Ascending(ds) => Ascending(DevicesOf(ds, nr))
<1> DEFINE I == {i \in DOMAIN ds : ds[i].bus = nr}
<1>1. I \in SUBSET (1 .. Len(ds))
  OBVIOUS
<1>2. DevicesOf(ds, nr) = Picked(ds, I)
  BY DEF DevicesOf
<1>3. {ds[i] : i \in I} = {d \in Elems(ds) : d.bus = nr}
  BY DEF Elems
<1> HIDE DEF I
<1>4. QED
  BY <1>1, <1>2, <1>3, PickedList

LEMMA PopulateTyped ==
  ASSUME Typed, Populate
  PROVE  Typed'
<1>1. /\ phase = "populate" /\ Empty
      /\ devs' = Sorted(system.devs) /\ UNCHANGED <<system, mode, saved>>
  BY DEF Populate, Typed
<1>2. system.devs \in Seq(Device) /\ system.buses \in Seq(Bus)
  BY DEF Typed
<1>3. devs' \in Seq(Device) /\ Elems(devs') = Elems(system.devs)
  BY <1>1, <1>2, SortedList
<1>4. /\ stack' = << >> /\ roots' \subseteq DOMAIN buses' /\ y' \in {0, 12} /\ blocks' = << >>
      /\ phase' \in {"failed", "layout"} /\ saved' = {}
  BY <1>1 DEF Populate, StartLayout, Empty
<1>5. ASSUME NEW nr \in DOMAIN buses'
      PROVE  buses'[nr].devs \in Seq(Device) /\ Elems(buses'[nr].devs) \subseteq Elems(devs')
  <2>1. buses' = buses \/ buses' = Populated(devs', system.buses)
    BY DEF Populate
  <2>2. buses' # buses
    BY <1>1, <1>5 DEF Empty
  <2>3. buses'[nr].devs = DevicesOf(devs', nr)
    BY <1>5, <2>1, <2>2 DEF Populated
  <2>4. QED
    BY <1>3, <2>3, DevicesOfBus
<1>6. DOMAIN buses' \subseteq Nat
  <2>1. \A b \in Elems(system.buses) : b.bus \in Nat
    <3>1. \A b \in Elems(system.buses) : b \in Bus
      BY <1>2 DEF Elems
    <3>2. QED
      BY <3>1 DEF Bus
  <2>2. DOMAIN buses' = {} \/ DOMAIN buses' = {b.bus : b \in Elems(system.buses)}
    BY <1>1 DEF Populate, Populated, Empty
  <2>3. QED
    BY <2>1, <2>2
<1>7. QED
  <2>1. mode' \in Modes /\ system' \in [devs : Seq(Device), buses : Seq(Bus)]
    BY <1>1 DEF Typed
  <2>2. stack' \in Seq(Frames') /\ blocks' \in Seq(Blocks') /\ DOMAIN stack' = {}
    BY <1>4
  <2>3. y' \in Nat /\ y' \in Spots
    BY <1>4, DotsAssumption DEF Spots
  <2>4. QED
    BY <1>1, <1>3, <1>4, <1>5, <1>6, <2>1, <2>2, <2>3 DEF Typed

\* What the layout leaves alone.
LEMMA LayoutKeeps ==
  ASSUME Typed, Layout \/ \E m \in Modes : SwitchDrawingMode(m)
  PROVE  /\ UNCHANGED <<system, devs, buses>> /\ UNCHANGED <<Frames, Blocks>>
         /\ UNCHANGED <<KnownBuses, RootBuses>>
         /\ \A m : UNCHANGED TreeHeight(m)
         /\ phase \in {"layout", "done"} /\ phase' \in {"layout", "done", "crashed"}
         /\ mode' \in Modes
<1>1. /\ UNCHANGED <<system, devs, buses>> /\ mode' \in Modes
      /\ phase \in {"layout", "done"} /\ phase' \in {"layout", "done", "crashed"}
  <2>1. CASE Layout
    BY <2>1 DEF Layout, NextBus, PlaceDevice, Return, FinishLayout, Typed
  <2>2. CASE \E m \in Modes : SwitchDrawingMode(m)
    BY <2>2 DEF SwitchDrawingMode, StartLayout, Typed
  <2>3. QED
    BY <2>1, <2>2
<1>2. QED
  BY <1>1 DEF Frames, Blocks, KnownBuses, RootBuses, TreeHeight, DeviceRoom

\* A device's block has a height.
LEMMA Heights ==
  ASSUME NEW d \in Device
  PROVE  Height(d) \in Nat /\ Height(d) >= 12 /\ Height(d) <= DeviceRoom(mode)
<1>1. d.names \in 0..2
  BY DEF Device
<1>2. QED
  BY <1>1 DEF Height, TextLines, DeviceRoom

\* The frames that Descend leaves, and what a turn of AddBusDevices does with them.
LEMMA Descended ==
  ASSUME Typed, PlaceDevice
  PROVE  LET n == Len(stack)
             d == buses[top.bus].devs[top.placed + 1]
             a == [bus |-> top.bus, placed |-> top.placed + 1]
             b == [bus |-> d.sec, placed |-> 0]
             goesDown == d.bridge /\ d.sec \in DOMAIN buses
         IN  /\ d \in Device /\ d \in Elems(devs) /\ d \in Elems(buses[top.bus].devs)
             /\ stack' \in Seq(Frames)
             /\ Len(stack') = IF goesDown THEN n + 1 ELSE n
             /\ \A k \in 1..(n - 1) : stack'[k] = stack[k]
             /\ stack'[n] = a
             /\ goesDown => stack'[n + 1] = b
<1>1. stack # << >> /\ top.placed < Len(buses[top.bus].devs)
  BY DEF PlaceDevice
<1> DEFINE n == Len(stack)
           ds == buses[top.bus].devs
           d == ds[top.placed + 1]
           a == [bus |-> top.bus, placed |-> top.placed + 1]
           b == [bus |-> d.sec, placed |-> 0]
           goesDown == d.bridge /\ d.sec \in DOMAIN buses
<1>2. /\ top = [bus |-> top.bus, placed |-> top.placed] /\ top.placed \in Nat
      /\ top.bus \in DOMAIN buses /\ ds \in Seq(Device) /\ Len(ds) \in Nat
  BY <1>1, TopFrame
<1>3. top.placed + 1 \in 1 .. Len(ds)
  BY <1>1, <1>2
<1>4. d \in Device /\ d \in Elems(ds)
  <2> HIDE DEF ds
  <2>1. QED
    BY <1>2, <1>3 DEF Elems
<1>5. d \in Elems(devs)
  BY <1>2, <1>4 DEF Typed
<1>6. a \in Frames /\ (goesDown => b \in Frames)
  BY <1>2 DEF Frames
<1>7. stack' = SubSeq(stack, 1, n - 1) \o Descend(top, d)
  BY DEF PlaceDevice
<1>8. Descend(top, d) = IF goesDown THEN <<a, b>> ELSE <<a>>
  <2>1. [top EXCEPT !.placed = @ + 1] = a
    BY <1>2
  <2> HIDE DEF a, d
  <2>2. QED
    BY <2>1 DEF Descend
<1>9. stack \in Seq(Frames)
  BY DEF Typed
<1>10. CASE goesDown
  <2> DEFINE one == SubSeq(stack, 1, n - 1) \o <<a>>
  <2>1. stack' = SubSeq(stack, 1, n - 1) \o <<a, b>> /\ b \in Frames
    BY <1>6, <1>7, <1>8, <1>10
  <2>2. n \in Nat /\ n > 0
    BY <1>1, TopFrame
  <2> HIDE DEF a, b, d
  <2>3. /\ stack' \in Seq(Frames) /\ Len(stack') = n + 1
        /\ stack'[n] = a /\ stack'[n + 1] = b
        /\ \A k \in 1..(n - 1) : stack'[k] = stack[k]
    <3> HIDE DEF n
    <3>1. n = Len(stack)
      BY DEF n
    <3>2. /\ one \in Seq(Frames) /\ Len(one) = n /\ one[n] = a
          /\ \A k \in 1..(n - 1) : one[k] = stack[k]
      BY <1>1, <1>6, <1>9, <3>1, ReplacedByOne
    <3>3. stack' = Append(one, b)
      BY <1>1, <1>6, <1>9, <2>1, <3>1, ReplacedByTwo
    <3> HIDE DEF one
    <3>4. QED
      BY <2>1, <2>2, <3>2, <3>3
  <2>4. QED
    BY <1>4, <1>5, <1>10, <2>3 DEF a, b, d
<1>11. CASE ~goesDown
  <2>1. stack' = SubSeq(stack, 1, n - 1) \o <<a>>
    BY <1>7, <1>8, <1>11
  <2> HIDE DEF a, d
  <2>2. /\ stack' \in Seq(Frames) /\ Len(stack') = n /\ stack'[n] = a
        /\ \A k \in 1..(n - 1) : stack'[k] = stack[k]
    <3> HIDE DEF n
    <3>1. n = Len(stack)
      BY DEF n
    <3>2. QED
      BY <1>1, <1>6, <1>9, <2>1, <3>1, ReplacedByOne
  <2>3. QED
    BY <1>4, <1>5, <1>11, <2>2 DEF a, d
<1>12. QED
  BY <1>10, <1>11

\* The bus that comes next has the lowest number of those left.
LEMMA NextBusIsLeast ==
  ASSUME Typed, NextBus
  PROVE  \E nr \in roots :
           /\ roots' = roots \ {nr} /\ blocks' = blocks /\ stack = << >>
           /\ IF buses[nr].is_root
              THEN stack' = <<[bus |-> nr, placed |-> 0]>> /\ y' = Dot(y + 12)
              ELSE UNCHANGED <<stack, y>>
<1> DEFINE nr == CHOOSE r \in roots : \A s \in roots : r <= s
<1>1. roots \in SUBSET Nat /\ roots # {}
  BY DEF NextBus, Typed
<1>2. nr \in roots
  BY <1>1, LeastMember
<1>3. /\ roots' = Remaining(nr) /\ blocks' = blocks /\ stack = << >>
      /\ IF buses[nr].is_root
         THEN stack' = <<[bus |-> nr, placed |-> 0]>> /\ y' = Dot(y + 12)
         ELSE UNCHANGED <<stack, y>>
  BY DEF NextBus
<1> HIDE DEF nr
<1>4. QED
  BY <1>2, <1>3 DEF Remaining

LEMMA LayoutTyped ==
  ASSUME Typed, Layout \/ \E m \in Modes : SwitchDrawingMode(m)
  PROVE  Typed'
<1>1. /\ UNCHANGED <<system, devs, buses>> /\ UNCHANGED <<Frames, Blocks>>
      /\ phase' \in {"layout", "done", "crashed"} /\ mode' \in Modes
  BY LayoutKeeps
<1> DEFINE Kept == /\ roots' \subseteq DOMAIN buses
                   /\ stack' \in Seq(Frames)
                   /\ \A k \in DOMAIN stack' : stack'[k].placed <= Len(buses[stack'[k].bus].devs)
                   /\ y' \in Nat /\ y' \in Spots
                   /\ blocks' \in Seq(Blocks)
                   /\ saved' \subseteq Elems(devs)
<1>2. ASSUME Kept PROVE Typed'
  <2>1. /\ system' \in [devs : Seq(Device), buses : Seq(Bus)]
        /\ devs' \in Seq(Device) /\ Elems(devs') \subseteq Elems(system'.devs)
        /\ DOMAIN buses' \subseteq Nat
        /\ \A nr \in DOMAIN buses' : /\ buses'[nr].devs \in Seq(Device)
                                     /\ Elems(buses'[nr].devs) \subseteq Elems(devs')
    BY <1>1 DEF Typed
  <2>2. /\ roots' \subseteq DOMAIN buses' /\ stack' \in Seq(Frames') /\ y' \in Nat /\ y' \in Spots
        /\ \A k \in DOMAIN stack' : stack'[k].placed <= Len(buses'[stack'[k].bus].devs)
        /\ blocks' \in Seq(Blocks') /\ saved' \subseteq Elems(devs')
    BY <1>1, <1>2
  <2>3. QED
    BY <1>1, <2>1, <2>2 DEF Typed
<1>3. /\ roots \subseteq DOMAIN buses /\ stack \in Seq(Frames)
      /\ y \in Nat /\ y \in Spots /\ blocks \in Seq(Blocks) /\ saved \subseteq Elems(devs)
      /\ \A k \in DOMAIN stack : stack[k].placed <= Len(buses[stack[k].bus].devs)
      /\ \A nr \in DOMAIN buses : buses[nr].devs \in Seq(Device)
  BY DEF Typed
<1>4. CASE NextBus
  <2>1. PICK nr \in roots :
          /\ roots' = roots \ {nr} /\ blocks' = blocks
          /\ \/ stack' = <<[bus |-> nr, placed |-> 0]>> /\ y' = Dot(y + 12)
             \/ UNCHANGED <<stack, y>>
    BY <1>4, NextBusIsLeast
  <2>2. nr \in DOMAIN buses /\ Len(buses[nr].devs) \in Nat /\ saved' = saved
    BY <1>3, <1>4 DEF NextBus
  <2>5. Dot(y + 12) \in Nat /\ Dot(y + 12) \in Spots
    BY <1>3, DotStays
  <2>3. CASE stack' = <<[bus |-> nr, placed |-> 0]>> /\ y' = Dot(y + 12)
    <3> DEFINE f == [bus |-> nr, placed |-> 0]
    <3>1. f \in Frames /\ f.bus = nr /\ f.placed = 0
      BY <2>2 DEF Frames
    <3> HIDE DEF f
    <3>2. stack' = <<f>>
      BY <2>3 DEF f
    <3>3. stack' \in Seq(Frames) /\ DOMAIN stack' = {1} /\ stack'[1] = f
      BY <3>1, <3>2
    <3>4. QED
      BY <1>2, <1>3, <2>1, <2>2, <2>3, <2>5, <3>1, <3>3
  <2>4. CASE UNCHANGED <<stack, y>>
    BY <1>2, <1>3, <2>1, <2>2, <2>4
  <2>6. QED
    BY <2>1, <2>3, <2>4
<1>5. CASE PlaceDevice
  <2> DEFINE n == Len(stack)
             d == buses[top.bus].devs[top.placed + 1]
  <2>1. stack # << >> /\ top.placed < Len(buses[top.bus].devs)
    BY <1>5 DEF PlaceDevice
  <2>2. /\ n \in Nat /\ n > 0 /\ top.bus \in DOMAIN buses /\ top.placed \in Nat
        /\ Len(buses[top.bus].devs) \in Nat
    BY <2>1, TopFrame
  <2>3. /\ d \in Device /\ d \in Elems(devs) /\ stack' \in Seq(Frames)
        /\ Len(stack') \in {n, n + 1}
        /\ \A k \in 1..(n - 1) : stack'[k] = stack[k]
        /\ stack'[n] = [bus |-> top.bus, placed |-> top.placed + 1]
        /\ Len(stack') = n + 1 => d.sec \in DOMAIN buses /\ stack'[n + 1] = [bus |-> d.sec, placed |-> 0]
    BY <1>5, <2>2, Descended
  <2> HIDE DEF d
  <2>4. ASSUME NEW k \in DOMAIN stack' PROVE stack'[k].placed <= Len(buses[stack'[k].bus].devs)
    <3>1. k \in 1..(n - 1) \/ k = n \/ (k = n + 1 /\ Len(stack') = n + 1)
      <4>1. k \in 1 .. Len(stack')
        BY <2>3
      <4>2. QED
        BY <2>2, <2>3, <4>1
    <3>2. CASE k \in 1..(n - 1)
      <4>1. k \in DOMAIN stack
        BY <1>3, <2>2, <3>2
      <4>2. QED
        BY <1>3, <2>3, <3>2, <4>1
    <3>3. CASE k = n
      BY <2>1, <2>2, <2>3, <3>3
    <3>4. CASE k = n + 1 /\ Len(stack') = n + 1
      <4>1. Len(buses[d.sec].devs) \in Nat
        BY <1>3, <2>3, <3>4
      <4>2. QED
        BY <2>3, <3>4, <4>1
    <3>5. QED
      BY <3>1, <3>2, <3>3, <3>4
  <2>5. y' \in Nat /\ y' \in Spots
    <3>1. y' = Dot(y + Height(d))
      BY <1>5 DEF PlaceDevice, Below, d
    <3>2. y + Height(d) \in Nat
      BY <1>3, <2>3, Heights
    <3>3. QED
      BY <3>1, <3>2, DotStays
  <2>6. blocks' \in Seq(Blocks) /\ roots' = roots /\ saved' = saved
    <3>1. blocks' = Append(blocks, [dev |-> d, key |-> Dot(y + 3)])
      BY <1>5 DEF PlaceDevice, d
    <3>2. [dev |-> d, key |-> Dot(y + 3)] \in Blocks
      <4>1. Dot(y + 3) \in Spots
        BY <1>3, DotStays
      <4>2. QED
        BY <2>3, <4>1 DEF Blocks
    <3>3. roots' = roots /\ saved' = saved
      BY <1>5 DEF PlaceDevice
    <3>4. QED
      BY <1>3, <3>1, <3>2, <3>3, SMTT(30)
  <2>7. QED
    BY <1>2, <1>3, <2>3, <2>4, <2>5, <2>6
<1>6. CASE Return
  <2>1. /\ stack # << >> /\ stack' = SubSeq(stack, 1, Len(stack) - 1)
        /\ UNCHANGED <<roots, y, blocks, saved>>
    BY <1>6 DEF Return
  <2>2. /\ Len(stack) \in Nat /\ stack' \in Seq(Frames) /\ Len(stack') = Len(stack) - 1
        /\ \A k \in 1..(Len(stack) - 1) : stack'[k] = stack[k]
    <3>1. stack \in Seq(Frames) /\ Len(stack) = Len(stack)
      BY <1>3
    <3>2. /\ Len(stack) \in Nat
          /\ SubSeq(stack, 1, Len(stack) - 1) \in Seq(Frames)
          /\ Len(SubSeq(stack, 1, Len(stack) - 1)) = Len(stack) - 1
          /\ \A k \in 1..(Len(stack) - 1) : SubSeq(stack, 1, Len(stack) - 1)[k] = stack[k]
      BY <2>1, <3>1, WithoutTop, Zenon
    <3>3. QED
      BY <2>1, <3>2
  <2>3. QED
    BY <1>2, <1>3, <2>1, <2>2
<1>7. CASE FinishLayout
  BY <1>2, <1>3, <1>7 DEF FinishLayout
<1>8. CASE \E m \in Modes : SwitchDrawingMode(m)
  <2>1. /\ stack' = << >> /\ blocks' = << >> /\ roots' = DOMAIN buses /\ y' = 12
        /\ saved' = Tracked
    BY <1>8 DEF SwitchDrawingMode, StartLayout
  <2>2. Tracked \subseteq Elems(devs)
    <3>1. TypeOK
      BY TypedIsTypeOK
    <3>2. QED
      BY <3>1 DEF TypeOK, Tracked, Inserted
  <2>3. y' \in Nat /\ y' \in Spots
    BY <2>1, DotsAssumption DEF Spots
  <2>4. QED
    BY <1>2, <2>1, <2>2, <2>3
<1>9. QED
  BY <1>4, <1>5, <1>6, <1>7, <1>8 DEF Layout

LEMMA StepTyped ==
  ASSUME Typed, [Next]_vars
  PROVE  Typed'
<1>1. CASE Populate
  BY <1>1, PopulateTyped
<1>2. CASE Layout \/ \E m \in Modes : SwitchDrawingMode(m)
  BY <1>2, LayoutTyped
<1>3. CASE UNCHANGED vars
  <2>1. UNCHANGED <<system, phase, devs, buses, mode, roots, stack, y, blocks, saved>>
    BY <1>3 DEF vars
  <2>2. Frames' = Frames /\ Blocks' = Blocks /\ Empty' = Empty
    BY <2>1 DEF Frames, Blocks, Empty
  <2>3. QED
    BY <2>1, <2>2 DEF Typed
<1>4. QED
  BY <1>1, <1>2, <1>3 DEF Next

-----------------------------------------------------------------------------
(***************************************************************************)
(* The invariant of the layout, for a system the kernel enumerates.  A bus *)
(* is opened when AddBusDevices is called for it, which happens once: for  *)
(* a root bus by the loop over the buses, and for any other when the       *)
(* bridge in front of it is placed.                                        *)
(***************************************************************************)

Placed == {blocks[i].dev : i \in DOMAIN blocks}

Opened ==
  {nr \in KnownBuses : nr \in RootBuses \ roots \/ \E d \in Placed : d.bridge /\ d.sec = nr}

\* The buses whose activations of AddBusDevices are on the stack.
Walked == {stack[k].bus : k \in DOMAIN stack}

\* What lies behind a device.
Behind(d) ==
  IF d.bridge /\ d.sec \in KnownBuses THEN DevicesOn(TreeOf({d.sec})) ELSE {}

\* What Populate leaves: each bus with its devices, by ascending address.
BusesRight ==
  /\ DOMAIN buses = KnownBuses
  /\ Len(devs) = Len(system.devs)
  /\ \A nr \in KnownBuses : /\ buses[nr].is_root <=> nr \in RootBuses
                            /\ Elems(buses[nr].devs) = DevicesOn({nr})
                            /\ Ascending(buses[nr].devs)

\* Nothing is placed, nor walked, on a bus that has not been opened.
OpenedFirst ==
  /\ \A d \in Placed : d \in Elems(system.devs) /\ d.bus \in Opened
  /\ Walked \subseteq Opened

FramesApart == \A k, l \in DOMAIN stack : k # l => stack[k].bus # stack[l].bus

\* Of the devices of a bus on the stack, those up to the position are placed.
PlacedByFrame ==
  \A k \in DOMAIN stack : LET ds == buses[stack[k].bus].devs IN
    \A p \in 1 .. Len(ds) : ds[p] \in Placed <=> p <= stack[k].placed

KeysBelow == HasRoom(mode) => \A i \in DOMAIN blocks : blocks[i].key < y + 3

\* A bus that has been opened and left has all of its devices placed.
LeftWhole == \A nr \in Opened \ Walked : DevicesOn({nr}) \subseteq Placed

FromRoots == Opened \subseteq TreeOf(RootBuses)

\* Every root bus opened and every block have had the room the estimate has for one.
RoomTaken ==
  HasRoom(mode) =>
    y <= 12 + 12 * Cardinality(RootBuses \ roots) + DeviceRoom(mode) * Len(blocks)

AllLeft == phase \in {"done", "crashed"} => stack = << >> /\ roots = {}

\* What a switch of the mode saves is what every layout tracks, if none wraps.
SavedWhole == HasRoom("Verbose") => saved \in {{}, DevicesOn(TreeOf(RootBuses))}

Ends ==
  /\ phase = "done" => Placed # {}
  /\ phase = "crashed" /\ HasRoom("Verbose") => Placed = {}

LaidOut ==
  /\ BusesRight
  /\ OpenedFirst /\ FramesApart /\ PlacedByFrame /\ NoBlockTwice /\ KeysBelow
  /\ LeftWhole /\ FromRoots /\ RoomTaken /\ AllLeft /\ SavedWhole /\ Ends

LayoutInv == Enumerated(system) /\ phase \in {"layout", "done", "crashed"} => LaidOut

-----------------------------------------------------------------------------
(***************************************************************************)
(* Trees of buses.                                                         *)
(***************************************************************************)

\* A set of buses that no bridge leads out of.
IsClosed(T) == \A d \in DevicesOn(T) : d.bridge /\ d.sec \in KnownBuses => d.sec \in T

LEMMA TreeHas ==
  ASSUME NEW S \in SUBSET KnownBuses
  PROVE  S \subseteq TreeOf(S) /\ TreeOf(S) \subseteq KnownBuses
BY DEF TreeOf

LEMMA TreeIsLeast ==
  ASSUME NEW S, NEW T \in SUBSET KnownBuses, S \subseteq T, IsClosed(T)
  PROVE  TreeOf(S) \subseteq T
BY DEF TreeOf, IsClosed

LEMMA TreeIsClosed ==
  ASSUME NEW S
  PROVE  IsClosed(TreeOf(S))
<1>1. SUFFICES ASSUME NEW d \in DevicesOn(TreeOf(S)), d.bridge, d.sec \in KnownBuses,
                      NEW T \in SUBSET KnownBuses, S \subseteq T, IsClosed(T)
               PROVE  d.sec \in T
  BY DEF TreeOf, IsClosed
<1>2. d \in DevicesOn(T)
  BY <1>1, TreeIsLeast DEF DevicesOn
<1>3. QED
  BY <1>1, <1>2 DEF IsClosed

\* Trees are those of the system, whatever else a step changes.
LEMMA TreesStay ==
  ASSUME UNCHANGED system
  PROVE  /\ UNCHANGED <<KnownBuses, RootBuses>>
         /\ \A S : TreeOf(S)' = TreeOf(S) /\ DevicesOn(S)' = DevicesOn(S)
         /\ \A d : Behind(d)' = Behind(d)
<1>1. UNCHANGED <<KnownBuses, RootBuses>>
  BY DEF KnownBuses, RootBuses
<1>2. ASSUME NEW S PROVE DevicesOn(S)' = DevicesOn(S)
  BY DEF DevicesOn
<1>3. ASSUME NEW S PROVE TreeOf(S)' = TreeOf(S)
  BY <1>1, <1>2 DEF TreeOf
<1>4. ASSUME NEW d PROVE Behind(d)' = Behind(d)
  BY <1>1, <1>2, <1>3 DEF Behind
<1>5. QED
  BY <1>1, <1>2, <1>3, <1>4

-----------------------------------------------------------------------------
(***************************************************************************)
(* What Populate makes of a system the kernel enumerates.                  *)
(***************************************************************************)

\* A device is told by its address, the bridge in front of a bus by that bus, and no
\* bridge is in front of a root bus.
LEMMA EnumeratedFacts ==
  ASSUME Typed, Enumerated(system)
  PROVE  /\ \A d, e \in Elems(system.devs) : DBdf(d) = DBdf(e) => d = e
         /\ \A d, e \in Elems(system.devs) : d.bridge /\ e.bridge /\ d.sec = e.sec => d = e
         /\ \A d \in Elems(system.devs) : d.bridge => d.sec \notin RootBuses
         /\ \A d \in Elems(system.devs) : d.bridge => d.sec > d.bus
         /\ \A d \in Elems(system.devs) : d \in Device
<1>1. \A d, e \in Elems(system.devs) : DBdf(d) = DBdf(e) => d = e
  <2>1. \A i, j \in DOMAIN system.devs : i # j => DBdf(system.devs[i]) # DBdf(system.devs[j])
    BY DEF Enumerated
  <2>2. QED
    BY <2>1 DEF Elems
<1>2. \A d \in Elems(system.devs) : d.bridge => d.sec \notin RootBuses
  <2>1. SUFFICES ASSUME NEW d \in Elems(system.devs), d.bridge, d.sec \in RootBuses
                 PROVE  FALSE
    OBVIOUS
  <2>2. PICK b \in Elems(system.buses) : b.is_root /\ d.sec = b.bus
    BY <2>1 DEF RootBuses
  <2>3. QED
    BY <2>1, <2>2 DEF Enumerated
<1>3. \A d \in Elems(system.devs) : d \in Device
  <2>1. system.devs \in Seq(Device)
    BY DEF Typed
  <2>2. QED
    BY <2>1 DEF Elems
<1>4. QED
  <2>1. /\ \A d, e \in Elems(system.devs) : d.bridge /\ e.bridge /\ d.sec = e.sec => d = e
        /\ \A d \in Elems(system.devs) : d.bridge => d.sec > d.bus
    BY DEF Enumerated
  <2>2. QED
    BY <1>1, <1>2, <1>3, <2>1

LEMMA PopulatedRight ==
  ASSUME Typed, Populate, Enumerated(system), phase' # "failed"
  PROVE  BusesRight'
<1>1. /\ devs' = Sorted(system.devs) /\ UNCHANGED system
      /\ buses' = Populated(devs', system.buses)
      /\ ~BusNumberClash(system.buses)
  BY DEF Populate
<1>2. system.devs \in Seq(Device) /\ system.buses \in Seq(Bus)
  BY DEF Typed
<1>3. /\ devs' \in Seq(Device) /\ Len(devs') = Len(system.devs)
      /\ Elems(devs') = Elems(system.devs) /\ Ascending(devs')
  BY <1>1, <1>2, SortedList DEF Enumerated
<1>4. KnownBuses' = KnownBuses /\ RootBuses' = RootBuses /\ \A S : DevicesOn(S)' = DevicesOn(S)
  BY <1>1, TreesStay
<1>5. DOMAIN buses' = KnownBuses
  BY <1>1 DEF Populated, KnownBuses
<1>6. ASSUME NEW nr \in KnownBuses
      PROVE  /\ buses'[nr].is_root <=> nr \in RootBuses
             /\ Elems(buses'[nr].devs) = DevicesOn({nr})
             /\ Ascending(buses'[nr].devs)
  <2> DEFINE b == CHOOSE c \in Elems(system.buses) : c.bus = nr
  <2>1. nr \in {c.bus : c \in Elems(system.buses)}
    BY DEF KnownBuses
  <2>2. buses'[nr] = [is_root |-> b.is_root, devs |-> DevicesOf(devs', nr)]
    BY <1>1, <2>1 DEF Populated
  <2>3. b \in Elems(system.buses) /\ b.bus = nr
    <3>1. \E c \in Elems(system.buses) : c.bus = nr
      BY <2>1
    <3>2. QED
      BY <3>1
  <2> HIDE DEF b
  <2>4. \A c \in Elems(system.buses) : c.bus = nr => c = b
    <3>1. SUFFICES ASSUME NEW c \in Elems(system.buses), c.bus = nr PROVE c = b
      OBVIOUS
    <3>2. PICK i \in DOMAIN system.buses : c = system.buses[i]
      BY DEF Elems
    <3>3. PICK j \in DOMAIN system.buses : b = system.buses[j]
      BY <2>3 DEF Elems
    <3>4. i = j
      BY <1>1, <2>3, <3>1, <3>2, <3>3 DEF BusNumberClash
    <3>5. QED
      BY <3>2, <3>3, <3>4
  <2>5. b.is_root <=> nr \in RootBuses
    BY <2>3, <2>4 DEF RootBuses
  <2>6. Elems(DevicesOf(devs', nr)) = DevicesOn({nr})
    <3>1. Elems(DevicesOf(devs', nr)) = {d \in Elems(devs') : d.bus = nr}
      BY <1>3, DevicesOfBus
    <3>2. QED
      BY <1>3, <3>1 DEF DevicesOn
  <2>7. Ascending(DevicesOf(devs', nr))
    BY <1>3, DevicesOfBus
  <2>8. QED
    BY <2>2, <2>5, <2>6, <2>7
<1>7. QED
  BY <1>1, <1>3, <1>4, <1>5, <1>6 DEF BusesRight

-----------------------------------------------------------------------------
(***************************************************************************)
(* The steps of the layout keep its invariant.                             *)
(***************************************************************************)

\* A layout that has just been started.
LEMMA FreshLayout ==
  ASSUME Typed', BusesRight',
         phase' = "layout", roots' = DOMAIN buses', stack' = << >>, y' = 12, blocks' = << >>,
         SavedWhole'
  PROVE  LaidOut'
<1>1. Placed' = {} /\ Walked' = {} /\ DOMAIN blocks' = {} /\ DOMAIN stack' = {} /\ Len(blocks') = 0
  BY DEF Placed, Walked
<1>2. RootBuses' \subseteq KnownBuses' /\ DOMAIN buses' = KnownBuses'
  BY DEF RootBuses, KnownBuses, BusesRight
<1>3. Opened' = {} /\ RootBuses' \ roots' = {}
  BY <1>1, <1>2 DEF Opened
<1>4. OpenedFirst' /\ FramesApart' /\ PlacedByFrame' /\ NoBlockTwice' /\ KeysBelow'
  BY <1>1 DEF OpenedFirst, FramesApart, PlacedByFrame, NoBlockTwice, KeysBelow
<1>5. LeftWhole' /\ FromRoots' /\ AllLeft' /\ Ends'
  BY <1>3 DEF LeftWhole, FromRoots, AllLeft, Ends
<1>6. RoomTaken'
  <2>1. Cardinality(RootBuses' \ roots') = 0
    BY <1>3, FS_EmptySet
  <2>2. DeviceRoom(mode)' \in Nat
    BY DEF DeviceRoom
  <2>3. DeviceRoom(mode)' * Len(blocks') = 0
    <3>1. \A r \in Nat : r * 0 = 0
      OBVIOUS
    <3>2. QED
      BY <1>1, <2>2, <3>1
  <2>4. QED
    BY <2>1, <2>3 DEF RoomTaken
<1>7. QED
  BY <1>4, <1>5, <1>6 DEF LaidOut

\* The members of a list are finitely many, and no more than it is long.
LEMMA ListFinite ==
  ASSUME NEW T, NEW s \in Seq(T)
  PROVE  IsFiniteSet(Elems(s)) /\ Cardinality(Elems(s)) <= Len(s)
<1> DEFINE n == Len(s)
<1>1. n \in Nat /\ DOMAIN s = 1..n
  OBVIOUS
<1>2. IsFiniteSet(1..n) /\ Cardinality(1..n) = n
  <2> HIDE DEF n
  <2>1. 1 \in Int /\ n \in Int
    BY <1>1
  <2>2. IsFiniteSet(1..n) /\ Cardinality(1..n) = IF 1 > n THEN 0 ELSE n - 1 + 1
    BY <2>1, FS_Interval
  <2>3. QED
    BY <1>1, <2>2
<1>3. s \in Surjection(1..n, Elems(s))
  BY <1>1, Fun_IsSurj DEF Elems
<1>4. QED
  BY <1>2, <1>3, FS_Surjection

LEMMA RootsFinite ==
  ASSUME Typed
  PROVE  IsFiniteSet(RootBuses)
<1>1. IsFiniteSet(Elems(system.buses))
  BY ListFinite DEF Typed
<1> DEFINE C == {c \in Elems(system.buses) : c.is_root}
<1>2. IsFiniteSet(C)
  BY <1>1, FS_Subset
<1>3. IsFiniteSet({b.bus : b \in C})
  <2> DEFINE f == [b \in C |-> b.bus]
  <2> HIDE DEF C
  <2>1. f \in Surjection(C, {b.bus : b \in C})
    BY Fun_IsSurj
  <2>2. QED
    BY <1>2, <2>1, FS_Surjection
<1>4. QED
  BY <1>3 DEF RootBuses

\* No more is placed than there is, if nothing is placed twice.
LEMMA NoMoreBlocks ==
  ASSUME NEW ds \in Seq(Device), NEW B, NEW bs \in Seq(B), \A b \in B : b.dev \in Elems(ds),
         \A i, j \in DOMAIN bs : i # j => bs[i].dev # bs[j].dev
  PROVE  Len(bs) <= Len(ds)
<1> DEFINE m == Len(bs)
           n == Len(ds)
           T == Elems(ds)
           g == [i \in 1..m |-> bs[i].dev]
<1>1. m \in Nat /\ n \in Nat /\ DOMAIN bs = 1..m
  OBVIOUS
<1>2. IsFiniteSet(T) /\ Cardinality(T) <= n /\ Cardinality(T) \in Nat
  BY ListFinite, FS_CardinalityType
<1>3. \A i \in 1..m : g[i] \in T
  <2>1. \A i \in 1..m : bs[i] \in B
    BY <1>1
  <2> HIDE DEF T, m
  <2>2. QED
    BY <2>1 DEF T
<1>4. g \in [1..m -> T]
  BY <1>3
<1>5. \A i, j \in 1..m : i # j => g[i] # g[j]
  BY <1>1
<1>6. Cardinality(1..m) = m /\ IsFiniteSet(1..m)
  <2> HIDE DEF m
  <2>1. 1 \in Int /\ m \in Int
    BY <1>1
  <2>2. IsFiniteSet(1..m) /\ Cardinality(1..m) = IF 1 > m THEN 0 ELSE m - 1 + 1
    BY <2>1, FS_Interval
  <2>3. QED
    BY <1>1, <2>2
<1> HIDE DEF g, m, n, T
<1>7. g \in Injection(1..m, T)
  BY <1>4, <1>5, Fun_IsInj
<1>8. Cardinality(1..m) <= Cardinality(T)
  BY <1>2, <1>6, <1>7, FS_Injection
<1>9. m <= n
  BY <1>1, <1>2, <1>6, <1>8
<1>10. QED
  BY <1>9 DEF m, n

LEMMA RootsCounted ==
  ASSUME Typed
  PROVE  /\ Cardinality(RootBuses) \in Nat /\ Cardinality(RootBuses \ roots) \in Nat
         /\ Cardinality(RootBuses \ roots) <= Cardinality(RootBuses)
<1>1. IsFiniteSet(RootBuses) /\ RootBuses \ roots \subseteq RootBuses
  BY RootsFinite
<1>2. IsFiniteSet(RootBuses \ roots)
  BY <1>1, FS_Subset
<1>3. QED
  BY <1>1, <1>2, FS_Subset, FS_CardinalityType

LEMMA BlocksCounted ==
  ASSUME Typed, \A i, j \in DOMAIN blocks : i # j => blocks[i].dev # blocks[j].dev
  PROVE  Len(blocks) \in Nat /\ Len(blocks) <= Len(devs)
<1>1. devs \in Seq(Device) /\ blocks \in Seq(Blocks) /\ \A b \in Blocks : b.dev \in Elems(devs)
  BY DEF Typed, Blocks
<1>2. QED
  BY <1>1, NoMoreBlocks

\* Unless the estimate wraps, a position with that much opened and placed above it does not,
\* and is on the canvas.
LEMMA RoomFor ==
  ASSUME Typed, BusesRight, HasRoom(mode),
         NEW opened \in Nat, NEW placed \in Nat, NEW u \in Nat,
         opened <= Cardinality(RootBuses), placed <= Len(devs),
         u <= 12 + 12 * opened + DeviceRoom(mode) * placed
  PROVE  Dot(u) = u /\ Dot(u + 3) = u + 3 /\ u <= CanvasHeight
<1> DEFINE n == Len(devs)
           all == Cardinality(RootBuses)
           r == DeviceRoom(mode)
<1>1. n \in Nat /\ all \in Nat
  BY RootsCounted DEF Typed
<1>2. r \in {12, 20}
  BY DEF DeviceRoom
<1>3. {nr \in DOMAIN buses : buses[nr].is_root} = RootBuses
  BY DEF BusesRight, RootBuses, KnownBuses
<1>4. TreeHeight(mode) = 12 * all + r * n + 16
  BY <1>3 DEF TreeHeight
<1>5. opened <= all /\ placed <= n /\ u <= 12 + 12 * opened + r * placed
  OBVIOUS
<1>6. /\ 12 * all + r * n + 16 \in Nat
      /\ u <= 12 * all + r * n + 16 /\ u + 3 < 12 * all + r * n + 16
  <2> HIDE DEF n, all, r
  <2>1. CASE r = 12
    BY <1>1, <1>5, <2>1
  <2>2. CASE r = 20
    BY <1>1, <1>5, <2>2
  <2>3. QED
    BY <1>2, <2>1, <2>2
<1>7. TreeHeight(mode) < Dots
  BY DEF HasRoom
<1>8. TreeHeight(mode) \in Nat /\ u <= TreeHeight(mode) /\ u + 3 < TreeHeight(mode)
  BY <1>4, <1>6
<1>9. Dots \in Nat
  BY DotsAssumption
<1>10. u < Dots /\ u + 3 < Dots /\ u + 3 \in Nat
  BY <1>7, <1>8, <1>9
<1>11. CanvasHeight = TreeHeight(mode)
  BY <1>7, <1>8, DotStays DEF CanvasHeight
<1>12. QED
  BY <1>8, <1>10, <1>11, DotStays

\* What the estimates are of does not change.
LEMMA RoomStays ==
  ASSUME UNCHANGED <<devs, buses>>
  PROVE  /\ HasRoom("Verbose")' <=> HasRoom("Verbose")
         /\ UNCHANGED mode => /\ UNCHANGED <<DeviceRoom(mode), CanvasHeight>>
                              /\ HasRoom(mode)' <=> HasRoom(mode)
<1>1. ASSUME NEW m PROVE TreeHeight(m)' = TreeHeight(m)
  BY DEF TreeHeight, DeviceRoom
<1>2. HasRoom("Verbose")' <=> HasRoom("Verbose")
  BY <1>1 DEF HasRoom
<1>3. ASSUME UNCHANGED mode
      PROVE  /\ UNCHANGED <<DeviceRoom(mode), CanvasHeight>>
             /\ HasRoom(mode)' <=> HasRoom(mode)
  BY <1>1, <1>3 DEF HasRoom, DeviceRoom, CanvasHeight, Dot
<1>4. QED
  BY <1>2, <1>3

\* A compact layout takes less.
LEMMA VerboseTakesMore ==
  ASSUME Typed, BusesRight, HasRoom("Verbose")
  PROVE  HasRoom(mode)
<1> DEFINE n == Len(devs)
           c == Cardinality({nr \in DOMAIN buses : buses[nr].is_root})
<1>1. n \in Nat /\ c \in Nat /\ mode \in {"Verbose", "Compact"}
  <2>1. {nr \in DOMAIN buses : buses[nr].is_root} = RootBuses
    BY DEF BusesRight, RootBuses, KnownBuses
  <2>2. c \in Nat
    BY <2>1, RootsCounted
  <2>3. QED
    BY <2>2 DEF Typed, Modes
<1>2. CASE mode = "Verbose"
  BY <1>2
<1>3. CASE mode = "Compact"
  <2>1. TreeHeight("Verbose") = 12 * c + 20 * n + 16 /\ TreeHeight(mode) = 12 * c + 12 * n + 16
    BY <1>3 DEF TreeHeight, DeviceRoom
  <2>2. QED
    BY <1>1, <2>1, DotsAssumption DEF HasRoom
<1>4. QED
  BY <1>1, <1>2, <1>3

\* The loop over the buses opens a root bus, which was not open, or none.
LEMMA NextBusOpens ==
  ASSUME Typed, Enumerated(system), LaidOut, NextBus
  PROVE  \E nr \in roots \cap KnownBuses :
           /\ roots' = roots \ {nr} /\ blocks' = blocks /\ stack = << >>
           /\ \/ /\ nr \in RootBuses /\ nr \notin Opened
                 /\ Opened' = Opened \cup {nr}
                 /\ stack' = <<[bus |-> nr, placed |-> 0]>> /\ y' = Dot(y + 12)
              \/ /\ nr \notin RootBuses
                 /\ Opened' = Opened
                 /\ UNCHANGED <<stack, y>>
<1>1. PICK nr \in roots :
        /\ roots' = roots \ {nr} /\ blocks' = blocks /\ stack = << >>
        /\ IF buses[nr].is_root
           THEN stack' = <<[bus |-> nr, placed |-> 0]>> /\ y' = Dot(y + 12)
           ELSE UNCHANGED <<stack, y>>
  BY NextBusIsLeast
<1>2. DOMAIN buses = KnownBuses /\ \A r \in KnownBuses : buses[r].is_root <=> r \in RootBuses
  BY DEF LaidOut, BusesRight
<1>3. nr \in KnownBuses /\ (buses[nr].is_root <=> nr \in RootBuses)
  <2>1. nr \in DOMAIN buses
    BY <1>1 DEF Typed
  <2>2. QED
    BY <1>2, <2>1
<1>4. UNCHANGED <<KnownBuses, RootBuses>>
  BY LayoutKeeps DEF Layout
<1>5. Placed' = Placed
  BY <1>1 DEF Placed
<1>6. CASE nr \in RootBuses
  <2>1. Opened' = Opened \cup {nr}
    BY <1>1, <1>3, <1>4, <1>5, <1>6 DEF Opened
  <2>2. SUFFICES ASSUME nr \in Opened PROVE FALSE
    BY <1>1, <1>3, <1>6, <2>1
  <2>3. PICK d \in Placed : d.bridge /\ d.sec = nr
    BY <1>1, <2>2 DEF Opened
  <2>4. d \in Elems(system.devs)
    BY <2>3 DEF LaidOut, OpenedFirst
  <2>5. QED
    BY <1>6, <2>3, <2>4, EnumeratedFacts
<1>7. CASE nr \notin RootBuses
  <2>1. RootBuses \ roots' = RootBuses \ roots
    BY <1>1, <1>7
  <2>2. Opened' = Opened
    BY <1>4, <1>5, <2>1 DEF Opened
  <2>3. QED
    BY <1>1, <1>3, <1>7, <2>2
<1>8. QED
  BY <1>6, <1>7

LEMMA NextBusLaysOut ==
  ASSUME Typed, Enumerated(system), LaidOut, NextBus
  PROVE  LaidOut'
<1>1. PICK nr \in roots \cap KnownBuses :
           /\ roots' = roots \ {nr} /\ blocks' = blocks /\ stack = << >>
           /\ \/ /\ nr \in RootBuses /\ nr \notin Opened
                 /\ Opened' = Opened \cup {nr}
                 /\ stack' = <<[bus |-> nr, placed |-> 0]>> /\ y' = Dot(y + 12)
              \/ /\ nr \notin RootBuses
                 /\ Opened' = Opened
                 /\ UNCHANGED <<stack, y>>
  BY NextBusOpens
<1>2. /\ UNCHANGED <<system, devs, buses, mode, saved>> /\ phase' = "layout"
      /\ \A S : TreeOf(S)' = TreeOf(S) /\ DevicesOn(S)' = DevicesOn(S)
      /\ UNCHANGED <<KnownBuses, RootBuses>>
  BY TreesStay DEF NextBus
<1>3. Placed' = Placed /\ Walked = {}
  BY <1>1 DEF Placed, Walked
<1>4. y \in Nat /\ \A i \in DOMAIN blocks : blocks[i].key \in Nat
  <2>1. TypeOK
    BY TypedIsTypeOK
  <2>2. QED
    BY <2>1 DEF TypeOK
<1>5. /\ BusesRight /\ OpenedFirst /\ NoBlockTwice /\ KeysBelow /\ LeftWhole /\ FromRoots /\ RoomTaken
      /\ FramesApart /\ PlacedByFrame /\ SavedWhole
  BY DEF LaidOut
<1>6. /\ DeviceRoom(mode)' = DeviceRoom(mode)
      /\ HasRoom(mode)' <=> HasRoom(mode)
      /\ HasRoom("Verbose")' <=> HasRoom("Verbose")
  BY <1>2, RoomStays
<1>7. BusesRight' /\ NoBlockTwice' /\ AllLeft' /\ SavedWhole' /\ Ends'
  <2>1. BusesRight' /\ AllLeft' /\ Ends'
    BY <1>1, <1>2, <1>5 DEF BusesRight, AllLeft, Ends
  <2>2. NoBlockTwice'
    BY <1>1, <1>5, <1>6 DEF NoBlockTwice
  <2>3. SavedWhole'
    BY <1>2, <1>5, <1>6 DEF SavedWhole
  <2>4. QED
    BY <2>1, <2>2, <2>3
<1>8. CASE nr \in RootBuses
  <2> DEFINE f == [bus |-> nr, placed |-> 0]
  <2>1. /\ nr \notin Opened /\ Opened' = Opened \cup {nr} /\ stack' = <<f>> /\ y' = Dot(y + 12)
    BY <1>1, <1>8
  <2>2. f.bus = nr /\ f.placed = 0
    OBVIOUS
  <2> HIDE DEF f
  <2>3. DOMAIN stack' = {1} /\ stack'[1] = f
    BY <2>1
  <2>4. Walked' = {nr}
    BY <2>2, <2>3 DEF Walked
  <2>5. OpenedFirst'
    BY <1>2, <1>3, <1>5, <2>1, <2>4 DEF OpenedFirst
  <2>6. FramesApart'
    BY <2>3 DEF FramesApart
  <2>7. PlacedByFrame'
    <3> DEFINE ds == buses[nr].devs
    <3>1. SUFFICES ASSUME NEW p \in 1 .. Len(ds) PROVE ds[p] \in Placed <=> p <= 0
      BY <1>2, <1>3, <2>2, <2>3 DEF PlacedByFrame
    <3>2. ds[p] \in DevicesOn({nr})
      <4>1. ds[p] \in Elems(ds)
        <5>1. ds \in Seq(Device)
          BY <1>5 DEF Typed, BusesRight
        <5>2. QED
          BY <5>1 DEF Elems
      <4>2. QED
        BY <1>5, <4>1 DEF BusesRight
    <3>3. ds[p].bus = nr
      BY <3>2 DEF DevicesOn
    <3>4. ds[p] \notin Placed
      BY <1>5, <2>1, <3>3 DEF OpenedFirst
    <3>5. p \in Nat /\ p > 0
      <4>1. Len(ds) \in Nat
        BY <1>5 DEF Typed, BusesRight
      <4> HIDE DEF ds
      <4>2. QED
        BY <4>1
    <3>6. QED
      BY <3>4, <3>5
  <2>8. KeysBelow' /\ RoomTaken'
    <3>1. SUFFICES ASSUME HasRoom(mode) PROVE KeysBelow' /\ RoomTaken'
      BY <1>6 DEF KeysBelow, RoomTaken
    <3> DEFINE R == RootBuses \ roots
               m == Len(blocks)
    <3>2. IsFiniteSet(R) /\ nr \notin R /\ RootBuses' \ roots' = R \cup {nr}
      <4>1. IsFiniteSet(RootBuses)
        BY RootsFinite
      <4>2. IsFiniteSet(R)
        BY <4>1, FS_Subset
      <4>3. QED
        BY <1>1, <1>2, <1>8, <4>2
    <3>3. Cardinality(RootBuses' \ roots') = Cardinality(R) + 1 /\ Cardinality(R) \in Nat
      BY <3>2, FS_AddElement, FS_CardinalityType
    <3>4. Cardinality(R) + 1 <= Cardinality(RootBuses)
      <4>1. R \cup {nr} \subseteq RootBuses
        BY <1>8
      <4>2. QED
        BY <3>2, <3>3, <4>1, <1>2, RootsFinite, FS_Subset
    <3>5. m \in Nat /\ m <= Len(devs)
      BY <1>5, BlocksCounted DEF NoBlockTwice
    <3>6. y <= 12 + 12 * Cardinality(R) + DeviceRoom(mode) * m
      BY <1>5, <3>1 DEF RoomTaken
    <3> DEFINE o == Cardinality(R)
               r == DeviceRoom(mode)
    <3>7. y + 12 <= 12 + 12 * (o + 1) + r * m /\ o + 1 \in Nat /\ y + 12 \in Nat
      <4>1. r \in {12, 20}
        BY DEF DeviceRoom
      <4> HIDE DEF o, m, r, R
      <4>2. o \in Nat /\ m \in Nat /\ y <= 12 + 12 * o + r * m
        BY <3>3, <3>5, <3>6 DEF o, r
      <4>3. CASE r = 12
        BY <1>4, <4>2, <4>3
      <4>4. CASE r = 20
        BY <1>4, <4>2, <4>4
      <4>5. QED
        BY <4>1, <4>3, <4>4
    <3>8. y' = y + 12
      BY <1>5, <2>1, <3>1, <3>4, <3>5, <3>7, RoomFor
    <3>9. RoomTaken'
      <4> HIDE DEF R
      <4>1. y' <= 12 + 12 * Cardinality(RootBuses' \ roots') + DeviceRoom(mode)' * Len(blocks')
        BY <1>1, <1>6, <3>3, <3>7, <3>8
      <4>2. QED
        BY <4>1 DEF RoomTaken
    <3>10. KeysBelow'
      BY <1>1, <1>4, <1>5, <3>1, <3>8 DEF KeysBelow
    <3>11. QED
      BY <3>9, <3>10
  <2>9. LeftWhole' /\ FromRoots'
    <3>1. nr \in TreeOf(RootBuses)
      <4>1. RootBuses \subseteq KnownBuses
        BY DEF RootBuses, KnownBuses
      <4>2. QED
        BY <1>8, <4>1, TreeHas
    <3>2. QED
      BY <1>2, <1>3, <1>5, <2>1, <2>4, <3>1 DEF LeftWhole, FromRoots
  <2>10. QED
    BY <1>7, <2>5, <2>6, <2>7, <2>8, <2>9 DEF LaidOut
<1>9. CASE nr \notin RootBuses
  <2>1. Opened' = Opened /\ UNCHANGED <<stack, y, blocks, saved>> /\ RootBuses' \ roots' = RootBuses \ roots
    BY <1>1, <1>2, <1>9
  <2>2. Walked' = Walked
    BY <2>1 DEF Walked
  <2>3. OpenedFirst' /\ FramesApart' /\ PlacedByFrame' /\ KeysBelow'
    BY <1>2, <1>3, <1>5, <1>6, <2>1, <2>2 DEF OpenedFirst, FramesApart, PlacedByFrame, KeysBelow
  <2>4. LeftWhole' /\ FromRoots' /\ RoomTaken'
    BY <1>2, <1>3, <1>5, <1>6, <2>1, <2>2 DEF LeftWhole, FromRoots, RoomTaken
  <2>5. QED
    BY <1>7, <2>3, <2>4 DEF LaidOut
<1>10. QED
  BY <1>8, <1>9

\* The next device of the bus on top of the stack has no block yet, and gets the last
\* one; the bus behind it, if it is called for, was not open.
LEMMA PlaceDeviceOpens ==
  ASSUME Typed, Enumerated(system), LaidOut, PlaceDevice
  PROVE  LET d == buses[top.bus].devs[top.placed + 1]
             goesDown == d.bridge /\ d.sec \in KnownBuses
         IN  /\ d \in Device /\ d \in DevicesOn({top.bus})
             /\ d \notin Placed /\ top.bus \in Opened
             /\ blocks' = Append(blocks, [dev |-> d, key |-> Dot(y + 3)])
             /\ y' = Dot(y + Height(d))
             /\ Placed' = Placed \cup {d}
             /\ goesDown => d.sec \notin Opened
             /\ Opened' = IF goesDown THEN Opened \cup {d.sec} ELSE Opened
             /\ Walked' = IF goesDown THEN Walked \cup {d.sec} ELSE Walked
<1> DEFINE n == Len(stack)
           d == buses[top.bus].devs[top.placed + 1]
           goesDown == d.bridge /\ d.sec \in KnownBuses
<1>1. /\ BusesRight /\ OpenedFirst /\ PlacedByFrame /\ KeysBelow
  BY DEF LaidOut
<1>2. stack # << >> /\ top.placed < Len(buses[top.bus].devs)
  BY DEF PlaceDevice
<1>3. /\ n \in Nat /\ n > 0 /\ DOMAIN stack = 1..n
      /\ top.bus \in DOMAIN buses /\ top.placed \in Nat
      /\ buses[top.bus].devs \in Seq(Device) /\ Len(buses[top.bus].devs) \in Nat
  BY <1>2, TopFrame
<1>4. DOMAIN buses = KnownBuses /\ top.bus \in KnownBuses
  BY <1>1, <1>3 DEF BusesRight
<1>5. d \in Device /\ d \in Elems(buses[top.bus].devs)
  BY Descended
<1>6. d \in DevicesOn({top.bus}) /\ d \in Elems(system.devs) /\ d.bus = top.bus
  BY <1>1, <1>4, <1>5 DEF BusesRight, DevicesOn
<1>7. n \in DOMAIN stack /\ top = stack[n]
  BY <1>3 DEF top
<1>8. top.bus \in Walked /\ top.bus \in Opened
  BY <1>1, <1>7 DEF Walked, OpenedFirst
<1>9. d \notin Placed
  <2>1. top.placed + 1 \in 1 .. Len(buses[top.bus].devs) /\ ~(top.placed + 1 <= top.placed)
    BY <1>2, <1>3
  <2>2. \A p \in 1 .. Len(buses[top.bus].devs) :
          buses[top.bus].devs[p] \in Placed <=> p <= top.placed
    BY <1>1, <1>7 DEF PlacedByFrame
  <2>3. QED
    BY <2>1, <2>2
<1>10. goesDown => d.sec \notin Opened
  <2>1. SUFFICES ASSUME goesDown, d.sec \in Opened PROVE FALSE
    OBVIOUS
  <2>2. d.sec \notin RootBuses
    BY <1>6, <2>1, EnumeratedFacts
  <2>3. PICK e \in Placed : e.bridge /\ e.sec = d.sec
    BY <2>1, <2>2 DEF Opened
  <2>4. e \in Elems(system.devs)
    BY <1>1, <2>3 DEF OpenedFirst
  <2>5. d = e
    BY <1>6, <2>1, <2>3, <2>4, EnumeratedFacts
  <2>6. QED
    BY <1>9, <2>3, <2>5
<1>11. blocks' = Append(blocks, [dev |-> d, key |-> Dot(y + 3)]) /\ y' = Dot(y + Height(d))
  BY DEF PlaceDevice, Below
<1>12. Placed' = Placed \cup {d}
  <2> DEFINE b == [dev |-> d, key |-> Dot(y + 3)]
  <2>1. b.dev = d
    OBVIOUS
  <2>2. blocks \in Seq(Blocks)
    BY DEF Typed
  <2> HIDE DEF d, b
  <2>3. blocks' = Append(blocks, b)
    BY <1>11 DEF b
  <2>4. /\ DOMAIN blocks = 1 .. Len(blocks) /\ DOMAIN blocks' = 1 .. Len(blocks) + 1 /\ Len(blocks) \in Nat
        /\ \A i \in DOMAIN blocks : blocks'[i] = blocks[i]
        /\ blocks'[Len(blocks) + 1] = b
    BY <2>2, <2>3
  <2>5. QED
    BY <2>1, <2>4 DEF Placed
<1>13. UNCHANGED <<system, buses, roots, KnownBuses, RootBuses>>
  BY TreesStay DEF PlaceDevice
<1>14. Opened' = IF goesDown THEN Opened \cup {d.sec} ELSE Opened
  <2> HIDE DEF d
  <2>1. QED
    BY <1>12, <1>13 DEF Opened
<1>15. Walked' = IF goesDown THEN Walked \cup {d.sec} ELSE Walked
  <2> DEFINE a == [bus |-> top.bus, placed |-> top.placed + 1]
             b == [bus |-> d.sec, placed |-> 0]
  <2>1. /\ stack' \in Seq(Frames)
        /\ Len(stack') = IF goesDown THEN n + 1 ELSE n
        /\ \A k \in 1..(n - 1) : stack'[k] = stack[k]
        /\ stack'[n] = a
        /\ goesDown => stack'[n + 1] = b
    BY <1>4, Descended
  <2>2. a.bus = stack[n].bus /\ b.bus = d.sec
    BY <1>7
  <2> HIDE DEF d, a, b
  <2>3. \A k \in 1..n : stack'[k].bus = stack[k].bus
    <3>1. \A k \in 1..n : k \in 1..(n - 1) \/ k = n
      <4>1. n \in Nat /\ n > 0
        BY <1>3
      <4> HIDE DEF n
      <4>2. QED
        BY <4>1
    <3>2. QED
      BY <2>1, <2>2, <3>1
  <2>4. CASE goesDown
    <3>1. DOMAIN stack' = 1..(n + 1) /\ \A k \in 1..(n + 1) : k \in 1..n \/ k = n + 1
      BY <1>3, <2>1, <2>4
    <3>2. stack'[n + 1].bus = d.sec
      BY <2>1, <2>2, <2>4
    <3>3. 1..n \subseteq 1..(n + 1) /\ n + 1 \in 1..(n + 1)
      BY <1>3
    <3> HIDE DEF n
    <3>4. Walked' = Walked \cup {d.sec}
      BY <1>3, <2>3, <3>1, <3>2, <3>3 DEF Walked
    <3>5. QED
      BY <2>4, <3>4
  <2>5. CASE ~goesDown
    <3>1. DOMAIN stack' = 1..n
      BY <1>3, <2>1, <2>5
    <3> HIDE DEF n
    <3>2. Walked' = Walked
      BY <1>3, <2>3, <3>1 DEF Walked
    <3>3. QED
      BY <2>5, <3>2
  <2>6. QED
    BY <2>4, <2>5
<1>16. QED
  BY <1>5, <1>6, <1>8, <1>9, <1>10, <1>11, <1>12, <1>14, <1>15

LEMMA PlaceDeviceLaysOut ==
  ASSUME Typed, Enumerated(system), LaidOut, PlaceDevice
  PROVE  LaidOut'
<1> DEFINE n == Len(stack)
           m == Len(blocks)
           ds == buses[top.bus].devs
           d == ds[top.placed + 1]
           goesDown == d.bridge /\ d.sec \in KnownBuses
           a == [bus |-> top.bus, placed |-> top.placed + 1]
           f == [bus |-> d.sec, placed |-> 0]
           b == [dev |-> d, key |-> Dot(y + 3)]
<1>1. /\ d \in Device /\ d \in DevicesOn({top.bus})
      /\ d \notin Placed /\ top.bus \in Opened
      /\ blocks' = Append(blocks, b)
      /\ y' = Dot(y + Height(d))
      /\ Placed' = Placed \cup {d}
      /\ goesDown => d.sec \notin Opened
      /\ Opened' = IF goesDown THEN Opened \cup {d.sec} ELSE Opened
      /\ Walked' = IF goesDown THEN Walked \cup {d.sec} ELSE Walked
  BY PlaceDeviceOpens
<1>2. /\ BusesRight /\ OpenedFirst /\ NoBlockTwice /\ KeysBelow /\ LeftWhole /\ FromRoots /\ RoomTaken
      /\ FramesApart /\ PlacedByFrame /\ SavedWhole
  BY DEF LaidOut
<1>3. /\ UNCHANGED <<system, devs, buses, mode, roots, saved>> /\ phase' = "layout"
      /\ \A S : TreeOf(S)' = TreeOf(S) /\ DevicesOn(S)' = DevicesOn(S)
      /\ UNCHANGED <<KnownBuses, RootBuses>>
  BY TreesStay DEF PlaceDevice
<1>4. /\ stack # << >> /\ top.placed < Len(ds)
      /\ n \in Nat /\ n > 0 /\ DOMAIN stack = 1..n
      /\ top.bus \in DOMAIN buses /\ top.placed \in Nat
      /\ ds \in Seq(Device) /\ Len(ds) \in Nat /\ stack[n] = top
  <2>1. stack # << >> /\ top.placed < Len(ds)
    BY DEF PlaceDevice
  <2>2. stack[n] = top
    BY DEF top
  <2> HIDE DEF ds
  <2>3. QED
    BY <2>1, <2>2, TopFrame DEF ds
<1>5. DOMAIN buses = KnownBuses
  BY <1>2 DEF BusesRight
<1>6. /\ DOMAIN stack' = (IF goesDown THEN 1..(n + 1) ELSE 1..n)
      /\ \A k \in 1..(n - 1) : stack'[k] = stack[k]
      /\ stack'[n] = a
      /\ goesDown => stack'[n + 1] = f
  <2>1. /\ stack' \in Seq(Frames)
        /\ Len(stack') = IF goesDown THEN n + 1 ELSE n
        /\ \A k \in 1..(n - 1) : stack'[k] = stack[k]
        /\ stack'[n] = a
        /\ goesDown => stack'[n + 1] = f
    BY <1>5, Descended
  <2> HIDE DEF d, a, f, n
  <2>2. QED
    BY <2>1
<1>7. a.bus = top.bus /\ a.placed = top.placed + 1 /\ f.bus = d.sec /\ f.placed = 0
      /\ b.dev = d /\ b.key = Dot(y + 3)
  OBVIOUS
<1>8. d.bus = top.bus /\ d \in Elems(system.devs)
  BY <1>1 DEF DevicesOn
<1>9. /\ m \in Nat /\ DOMAIN blocks = 1..m /\ DOMAIN blocks' = 1..(m + 1) /\ Len(blocks') = m + 1
      /\ \A i \in 1..m : blocks'[i] = blocks[i]
      /\ blocks'[m + 1] = b
      /\ \A i \in 1..(m + 1) : i \in 1..m \/ i = m + 1
  <2>1. blocks \in Seq(Blocks)
    BY DEF Typed
  <2> HIDE DEF b
  <2>2. m \in Nat /\ DOMAIN blocks = 1..m
    BY <2>1
  <2>3. QED
    <3>1. b \in Blocks
      <4>1. d \in Elems(devs)
        BY Descended
      <4>2. Dot(y + 3) \in Spots
        <5>1. y + 3 \in Nat
          BY DEF Typed
        <5>2. QED
          BY <5>1, DotStays
      <4> HIDE DEF d
      <4>3. QED
        BY <4>1, <4>2 DEF Blocks, b
    <3>2. Append(blocks, b) \in Seq(Blocks) /\ Len(Append(blocks, b)) = m + 1
          /\ (\A i \in 1..m : Append(blocks, b)[i] = blocks[i]) /\ Append(blocks, b)[m + 1] = b
      BY <2>1, <3>1, AppendProperties
    <3> HIDE DEF m
    <3>3. blocks' \in Seq(Blocks) /\ Len(blocks') = m + 1
          /\ (\A i \in 1..m : blocks'[i] = blocks[i]) /\ blocks'[m + 1] = b
      BY <1>1, <3>2
    <3>4. DOMAIN blocks' = 1..(m + 1)
      BY <3>3
    <3>5. \A i \in 1..(m + 1) : i \in 1..m \/ i = m + 1
      BY <2>2
    <3>6. QED
      BY <2>2, <3>3, <3>4, <3>5
<1>10. \A k \in 1..n : stack'[k].bus = stack[k].bus
  <2>1. \A k \in 1..n : k \in 1..(n - 1) \/ k = n
    <3>1. n \in Nat /\ n > 0
      BY <1>4
    <3> HIDE DEF n
    <3>2. QED
      BY <3>1
  <2> HIDE DEF a, d, n
  <2>2. QED
    BY <1>4, <1>6, <1>7, <2>1
<1>11. y \in Nat /\ Height(d) \in Nat /\ Height(d) >= 12 /\ Height(d) <= DeviceRoom(mode)
  BY <1>1, Heights DEF Typed
<1>12. \A nr \in KnownBuses : \A p \in 1 .. Len(buses[nr].devs) :
         buses[nr].devs[p] \in DevicesOn({nr}) /\ buses[nr].devs[p].bus = nr
  <2>1. SUFFICES ASSUME NEW nr \in KnownBuses, NEW p \in 1 .. Len(buses[nr].devs)
                 PROVE  buses[nr].devs[p] \in DevicesOn({nr}) /\ buses[nr].devs[p].bus = nr
    OBVIOUS
  <2>2. buses[nr].devs \in Seq(Device) /\ Elems(buses[nr].devs) = DevicesOn({nr})
    BY <1>2, <1>5 DEF BusesRight, Typed
  <2> DEFINE ls == buses[nr].devs
  <2>3. ls[p] \in DevicesOn({nr})
    <3> HIDE DEF ls
    <3>1. ls \in Seq(Device) /\ Elems(ls) = DevicesOn({nr}) /\ p \in 1 .. Len(ls)
      BY <2>1, <2>2 DEF ls
    <3>2. DOMAIN ls = 1 .. Len(ls)
      BY <3>1
    <3>3. ls[p] \in Elems(ls)
      BY <3>1, <3>2 DEF Elems
    <3>4. QED
      BY <3>1, <3>3
  <2>4. QED
    BY <2>3 DEF DevicesOn
<1>13. \A k \in 1..n : stack[k].bus \in KnownBuses /\ stack[k].bus \in Opened /\ stack[k].placed \in Nat
  <2>1. TypeOK
    BY TypedIsTypeOK
  <2>2. QED
    BY <1>2, <1>4, <1>5, <2>1 DEF TypeOK, OpenedFirst, Walked
<1>14. \A k \in DOMAIN stack' : k \in 1..n \/ (k = n + 1 /\ goesDown)
  <2>1. n \in Nat
    BY <1>4
  <2> HIDE DEF n, a, f, goesDown
  <2>2. DOMAIN stack' = (IF goesDown THEN 1..(n + 1) ELSE 1..n)
    BY <1>6
  <2>3. CASE goesDown
    BY <2>1, <2>2, <2>3
  <2>4. CASE ~goesDown
    BY <2>2, <2>4
  <2>5. QED
    BY <2>3, <2>4
<1>15. /\ DeviceRoom(mode)' = DeviceRoom(mode)
       /\ HasRoom(mode)' <=> HasRoom(mode)
       /\ HasRoom("Verbose")' <=> HasRoom("Verbose")
  BY <1>3, RoomStays
<1> HIDE DEF d, a, b, f, n, m, ds
<1>16. BusesRight' /\ AllLeft' /\ SavedWhole' /\ Ends'
  <2>1. BusesRight' /\ AllLeft' /\ Ends'
    BY <1>2, <1>3 DEF BusesRight, AllLeft, Ends
  <2>2. SavedWhole'
    BY <1>2, <1>3, <1>15 DEF SavedWhole
  <2>3. QED
    BY <2>1, <2>2
<1>17. OpenedFirst'
  BY <1>1, <1>2, <1>3, <1>8 DEF OpenedFirst
<1>18. FramesApart'
  <2>1. SUFFICES ASSUME NEW k \in DOMAIN stack', NEW l \in DOMAIN stack', k # l
                 PROVE  stack'[k].bus # stack'[l].bus
    BY DEF FramesApart
  <2>2. CASE k \in 1..n /\ l \in 1..n
    BY <1>2, <1>4, <1>10, <2>1, <2>2 DEF FramesApart
  <2>3. CASE k \in 1..n /\ l = n + 1 /\ goesDown
    BY <1>1, <1>6, <1>7, <1>10, <1>13, <2>3
  <2>4. CASE l \in 1..n /\ k = n + 1 /\ goesDown
    BY <1>1, <1>6, <1>7, <1>10, <1>13, <2>4
  <2>5. QED
    BY <1>14, <2>1, <2>2, <2>3, <2>4
<1>19. PlacedByFrame'
  <2>1. SUFFICES ASSUME NEW k \in DOMAIN stack', NEW p \in 1 .. Len(buses[stack'[k].bus].devs)
                 PROVE  buses[stack'[k].bus].devs[p] \in Placed' <=> p <= stack'[k].placed
    BY <1>3 DEF PlacedByFrame
  <2>2. CASE k \in 1..n /\ k # n
    <3> DEFINE ls == buses[stack[k].bus].devs
    <3>1. stack'[k] = stack[k] /\ p \in 1 .. Len(ls)
      BY <1>4, <1>6, <1>10, <2>1, <2>2
    <3>2. ls[p] \in Placed <=> p <= stack[k].placed
      BY <1>2, <1>4, <2>2, <3>1 DEF PlacedByFrame
    <3>3. ls[p].bus = stack[k].bus
      BY <1>12, <1>13, <2>2, <3>1
    <3>4. stack[k].bus # top.bus
      <4>1. n \in 1..n
        BY <1>4
      <4>2. QED
        BY <1>2, <1>4, <2>2, <4>1 DEF FramesApart
    <3>5. ls[p] # d
      BY <1>8, <3>3, <3>4
    <3>6. QED
      BY <1>1, <3>1, <3>2, <3>5
  <2>3. CASE k = n
    <3>1. stack'[k] = a /\ stack'[k].bus = top.bus /\ p \in 1 .. Len(ds) /\ buses[stack'[k].bus].devs = ds
      BY <1>6, <1>7, <2>1, <2>3 DEF ds
    <3>2. ds[p] \in Placed <=> p <= top.placed
      <4>1. n \in DOMAIN stack
        BY <1>4
      <4>2. QED
        BY <1>2, <1>4, <3>1, <4>1 DEF PlacedByFrame, ds
    <3>3. ds[p] = d <=> p = top.placed + 1
      <4>1. top.placed + 1 \in 1 .. Len(ds) /\ p \in Nat
        BY <1>4, <3>1
      <4>2. Ascending(ds)
        BY <1>2, <1>4, <1>5 DEF BusesRight, ds
      <4>3. DBdf(ds[p]) \in Nat /\ DBdf(d) \in Nat
        BY <1>1, <1>4, <3>1, Addresses
      <4>4. d = ds[top.placed + 1]
        BY DEF d
      <4>5. p < top.placed + 1 => DBdf(ds[p]) < DBdf(d)
        BY <3>1, <4>1, <4>2, <4>4 DEF Ascending
      <4>6. top.placed + 1 < p => DBdf(d) < DBdf(ds[p])
        BY <3>1, <4>1, <4>2, <4>4 DEF Ascending
      <4>7. CASE p = top.placed + 1
        BY <4>4, <4>7
      <4>8. CASE p # top.placed + 1
        <5>1. p < top.placed + 1 \/ top.placed + 1 < p
          BY <1>4, <4>1, <4>8
        <5>2. DBdf(ds[p]) # DBdf(d)
          BY <4>3, <4>5, <4>6, <5>1
        <5>3. QED
          BY <4>8, <5>2
      <4>9. QED
        BY <4>7, <4>8
    <3>4. p \in Nat
      BY <1>4, <3>1
    <3>5. ds[p] \in Placed' <=> p <= top.placed \/ p = top.placed + 1
      BY <1>1, <3>2, <3>3
    <3>6. QED
      BY <1>4, <1>7, <3>1, <3>4, <3>5
  <2>4. CASE k = n + 1 /\ goesDown
    <3> DEFINE ls == buses[d.sec].devs
    <3>1. stack'[k] = f /\ stack'[k].bus = d.sec /\ p \in 1 .. Len(ls) /\ stack'[k].placed = 0
      BY <1>6, <1>7, <2>1, <2>4
    <3>2. ls[p].bus = d.sec
      BY <1>12, <2>4, <3>1
    <3>3. ls[p] \notin Placed
      BY <1>1, <1>2, <2>4, <3>2 DEF OpenedFirst
    <3>4. ls[p] # d
      BY <1>1, <1>8, <2>4, <3>2
    <3>5. p \in Nat /\ p > 0
      <4>1. Len(ls) \in Nat
        <5>1. ls \in Seq(Device)
          BY <1>5, <2>4 DEF Typed
        <5>2. QED
          BY <5>1
      <4> HIDE DEF ls
      <4>2. QED
        BY <3>1, <4>1
    <3>6. QED
      BY <1>1, <3>1, <3>3, <3>4, <3>5
  <2>5. QED
    BY <1>14, <2>1, <2>2, <2>3, <2>4
<1>20. \A i, j \in 1..(m + 1) : i # j => blocks'[i].dev # blocks'[j].dev
  <2>1. \A i, j \in 1..m : i # j => blocks[i].dev # blocks[j].dev
    BY <1>2, <1>9 DEF NoBlockTwice
  <2>2. \A i \in 1..m : blocks[i].dev # d
    BY <1>1, <1>9 DEF Placed
  <2>3. SUFFICES ASSUME NEW i \in 1..(m + 1), NEW j \in 1..(m + 1), i # j
                 PROVE  blocks'[i].dev # blocks'[j].dev
    OBVIOUS
  <2>4. CASE i \in 1..m /\ j \in 1..m
    BY <1>9, <2>1, <2>3, <2>4
  <2>5. CASE i \in 1..m /\ j = m + 1
    BY <1>7, <1>9, <2>2, <2>5
  <2>6. CASE i = m + 1 /\ j \in 1..m
    BY <1>7, <1>9, <2>2, <2>6
  <2>7. QED
    BY <1>9, <2>3, <2>4, <2>5, <2>6
<1>21. m + 1 <= Len(devs)
  <2>1. devs \in Seq(Device) /\ blocks' \in Seq(Blocks') /\ \A c \in Blocks' : c.dev \in Elems(devs)
    <3>1. Typed'
      BY StepTyped DEF Next, Layout
    <3>2. QED
      BY <1>3, <3>1 DEF Typed, Blocks
  <2>2. Len(blocks') <= Len(devs)
    BY <1>9, <1>20, <2>1, NoMoreBlocks
  <2>3. QED
    BY <1>9, <2>2
<1>22. HasRoom(mode) =>
         /\ y' = y + Height(d) /\ b.key = y + 3
         /\ y' <= 12 + 12 * Cardinality(RootBuses \ roots) + DeviceRoom(mode) * (m + 1)
  <2> DEFINE opened == Cardinality(RootBuses \ roots)
             r == DeviceRoom(mode)
             h == Height(d)
  <2>1. SUFFICES ASSUME HasRoom(mode)
                 PROVE  y' = y + h /\ b.key = y + 3 /\ y' <= 12 + 12 * opened + r * (m + 1)
    OBVIOUS
  <2>2. opened \in Nat /\ opened <= Cardinality(RootBuses)
    BY RootsCounted
  <2>3. y <= 12 + 12 * opened + r * m
    BY <1>2, <2>1 DEF RoomTaken, m
  <2>4. r \in {12, 20}
    BY DEF DeviceRoom
  <2>5. m \in Nat /\ y \in Nat /\ h \in Nat /\ h <= r
    BY <1>9, <1>11
  <2>6. /\ m <= Len(devs) /\ m + 1 \in Nat /\ y + h \in Nat
        /\ y + h <= 12 + 12 * opened + r * (m + 1)
    <3>1. Len(devs) \in Nat
      BY DEF Typed
    <3> HIDE DEF opened, r, h
    <3>2. m <= Len(devs) /\ m + 1 \in Nat /\ y + h \in Nat
      BY <1>21, <2>5, <3>1
    <3>3. CASE r = 12
      BY <2>2, <2>3, <2>5, <3>2, <3>3
    <3>4. CASE r = 20
      BY <2>2, <2>3, <2>5, <3>2, <3>4
    <3>5. QED
      BY <2>4, <3>3, <3>4
  <2>7. Dot(y + 3) = y + 3
    BY <1>2, <2>1, <2>2, <2>3, <2>5, <2>6, RoomFor
  <2>8. Dot(y + h) = y + h
    BY <1>2, <1>21, <2>1, <2>2, <2>6, RoomFor
  <2>9. QED
    BY <1>1, <1>7, <2>6, <2>7, <2>8
<1>23. NoBlockTwice' /\ KeysBelow' /\ RoomTaken'
  <2>1. CASE HasRoom(mode)
    <3>1. /\ y' = y + Height(d) /\ b.key = y + 3
          /\ y' <= 12 + 12 * Cardinality(RootBuses \ roots) + DeviceRoom(mode) * (m + 1)
      BY <1>22, <2>1
    <3>2. \A i \in 1..m : blocks[i].key \in Nat /\ blocks[i].key < y + 3
      <4>1. TypeOK
        BY TypedIsTypeOK
      <4>2. QED
        BY <1>2, <1>9, <2>1, <4>1, DotsAssumption DEF TypeOK, KeysBelow
    <3>3. \A i, j \in 1..m : i < j => blocks[i].key < blocks[j].key
      BY <1>2, <1>9, <2>1 DEF NoBlockTwice
    <3>4. \A i, j \in 1..(m + 1) : i < j => blocks'[i].key < blocks'[j].key
      <4>1. SUFFICES ASSUME NEW i \in 1..(m + 1), NEW j \in 1..(m + 1), i < j
                     PROVE  blocks'[i].key < blocks'[j].key
        OBVIOUS
      <4>2. i \in 1..m
        BY <1>9, <4>1
      <4>3. CASE j \in 1..m
        BY <1>9, <3>3, <4>1, <4>2, <4>3
      <4>4. CASE j = m + 1
        BY <1>7, <1>9, <3>1, <3>2, <4>2, <4>4
      <4>5. QED
        BY <1>9, <4>3, <4>4
    <3>5. \A i \in 1..(m + 1) : blocks'[i].key < y' + 3
      <4>1. y' \in Nat /\ y + 3 < y' + 3
        BY <1>11, <3>1
      <4>2. SUFFICES ASSUME NEW i \in 1..(m + 1) PROVE blocks'[i].key < y' + 3
        OBVIOUS
      <4>3. CASE i \in 1..m
        <5>1. blocks'[i].key \in Nat /\ blocks'[i].key < y + 3
          BY <1>9, <3>2, <4>3
        <5>2. y \in Nat
          BY <1>11
        <5>3. \A u, v, w \in Nat : u < v + 3 /\ v + 3 < w + 3 => u < w + 3
          OBVIOUS
        <5>4. QED
          BY <4>1, <5>1, <5>2, <5>3
      <4>4. CASE i = m + 1
        BY <1>7, <1>9, <3>1, <4>1, <4>4
      <4>5. QED
        BY <1>9, <4>3, <4>4
    <3>6. RoomTaken'
      BY <1>3, <1>9, <1>15, <3>1 DEF RoomTaken
    <3>7. QED
      BY <1>9, <1>20, <3>4, <3>5, <3>6 DEF NoBlockTwice, KeysBelow
  <2>2. CASE ~HasRoom(mode)
    BY <1>9, <1>15, <1>20, <2>2 DEF NoBlockTwice, KeysBelow, RoomTaken
  <2>3. QED
    BY <2>1, <2>2
<1>24. LeftWhole'
  <2>1. Opened' \ Walked' \subseteq Opened \ Walked /\ Placed \subseteq Placed'
    BY <1>1
  <2>2. QED
    BY <1>2, <1>3, <2>1 DEF LeftWhole
<1>25. FromRoots'
  <2>1. CASE goesDown
    <3>1. d \in DevicesOn(TreeOf(RootBuses))
      BY <1>1, <1>2, <1>8 DEF FromRoots, DevicesOn
    <3>2. d.sec \in TreeOf(RootBuses)
      BY <2>1, <3>1, TreeIsClosed DEF IsClosed
    <3>3. QED
      BY <1>1, <1>2, <1>3, <2>1, <3>2 DEF FromRoots
  <2>2. CASE ~goesDown
    BY <1>1, <1>2, <1>3, <2>2 DEF FromRoots
  <2>3. QED
    BY <2>1, <2>2
<1>26. QED
  BY <1>2, <1>16, <1>17, <1>18, <1>19, <1>23, <1>24, <1>25 DEF LaidOut

\* A return leaves the bus on top, all of whose devices are placed.
LEMMA ReturnLeaves ==
  ASSUME Typed, LaidOut, Return
  PROVE  /\ stack' \in Seq(Frames) /\ Len(stack') = Len(stack) - 1
         /\ \A k \in DOMAIN stack' : k \in DOMAIN stack /\ k # Len(stack) /\ stack'[k] = stack[k]
         /\ Walked' = Walked \ {top.bus} /\ top.bus \in Walked
         /\ Placed' = Placed /\ Opened' = Opened
         /\ DevicesOn({top.bus}) \subseteq Placed
<1> DEFINE n == Len(stack)
<1>1. stack # << >> /\ stack' = SubSeq(stack, 1, n - 1) /\ top.placed = Len(buses[top.bus].devs)
  BY DEF Return
<1>2. /\ n \in Nat /\ n > 0 /\ stack' \in Seq(Frames) /\ Len(stack') = n - 1
      /\ \A k \in 1..(n - 1) : stack'[k] = stack[k]
  <2>1. stack \in Seq(Frames) /\ n = Len(stack)
    BY DEF Typed
  <2> HIDE DEF n
  <2>2. QED
    BY <1>1, <2>1, WithoutTop
<1>3. DOMAIN stack = 1..n /\ stack[n] = top /\ top.bus \in DOMAIN buses
      /\ buses[top.bus].devs \in Seq(Device)
  BY <1>1, TopFrame DEF top
<1>4. \A k \in DOMAIN stack' : k \in DOMAIN stack /\ k # n /\ stack'[k] = stack[k]
  <2>1. DOMAIN stack' = 1..(n - 1)
    BY <1>2
  <2> HIDE DEF n
  <2>2. QED
    BY <1>2, <1>3, <2>1
<1>5. Walked' = Walked \ {top.bus} /\ top.bus \in Walked
  <2>1. \A k \in DOMAIN stack : k # n => k \in DOMAIN stack' /\ stack[k].bus # top.bus
    <3>1. DOMAIN stack' = 1..(n - 1)
      BY <1>2
    <3>2. FramesApart /\ n \in DOMAIN stack
      BY <1>2, <1>3 DEF LaidOut
    <3> HIDE DEF n
    <3>3. QED
      BY <1>2, <1>3, <3>1, <3>2 DEF FramesApart
  <2>2. n \in DOMAIN stack
    BY <1>2, <1>3
  <2> HIDE DEF n
  <2>3. QED
    BY <1>3, <1>4, <2>1, <2>2 DEF Walked
<1>6. UNCHANGED <<system, buses, roots, blocks, KnownBuses, RootBuses>>
  BY TreesStay DEF Return
<1>7. Placed' = Placed /\ Opened' = Opened
  BY <1>6 DEF Placed, Opened
<1>8. DevicesOn({top.bus}) \subseteq Placed
  <2> DEFINE ds == buses[top.bus].devs
  <2>1. DevicesOn({top.bus}) = Elems(ds)
    BY <1>3 DEF LaidOut, BusesRight
  <2>2. n \in DOMAIN stack
    BY <1>2, <1>3
  <2>3. \A p \in 1 .. Len(ds) : ds[p] \in Placed <=> p <= top.placed
    BY <1>3, <2>2 DEF LaidOut, PlacedByFrame
  <2>4. ds \in Seq(Device) /\ top.placed = Len(ds)
    BY <1>1, <1>3
  <2> HIDE DEF ds
  <2>5. DOMAIN ds = 1 .. Len(ds) /\ \A p \in 1 .. Len(ds) : p <= Len(ds)
    BY <2>4
  <2>6. QED
    BY <2>1, <2>3, <2>4, <2>5 DEF Elems
<1>9. QED
  BY <1>2, <1>4, <1>5, <1>7, <1>8

LEMMA ReturnLaysOut ==
  ASSUME Typed, Enumerated(system), LaidOut, Return
  PROVE  LaidOut'
<1>1. /\ stack' \in Seq(Frames) /\ Len(stack') = Len(stack) - 1
      /\ \A k \in DOMAIN stack' : k \in DOMAIN stack /\ k # Len(stack) /\ stack'[k] = stack[k]
      /\ Walked' = Walked \ {top.bus} /\ top.bus \in Walked
      /\ Placed' = Placed /\ Opened' = Opened
      /\ DevicesOn({top.bus}) \subseteq Placed
  BY ReturnLeaves
<1>2. /\ UNCHANGED <<system, devs, buses, mode, roots, y, blocks, saved>> /\ phase' = "layout"
      /\ \A S : TreeOf(S)' = TreeOf(S) /\ DevicesOn(S)' = DevicesOn(S)
      /\ UNCHANGED <<KnownBuses, RootBuses>>
  BY TreesStay DEF Return
<1>3. /\ BusesRight /\ OpenedFirst /\ NoBlockTwice /\ KeysBelow /\ LeftWhole /\ FromRoots /\ RoomTaken
      /\ FramesApart /\ PlacedByFrame /\ SavedWhole
  BY DEF LaidOut
<1>4. /\ DeviceRoom(mode)' = DeviceRoom(mode)
      /\ HasRoom(mode)' <=> HasRoom(mode)
      /\ HasRoom("Verbose")' <=> HasRoom("Verbose")
  BY <1>2, RoomStays
<1>5. BusesRight' /\ AllLeft' /\ Ends'
  BY <1>2, <1>3 DEF BusesRight, AllLeft, Ends
<1>6. NoBlockTwice' /\ KeysBelow' /\ SavedWhole'
  BY <1>2, <1>3, <1>4 DEF NoBlockTwice, KeysBelow, SavedWhole
<1>7. OpenedFirst' /\ FramesApart' /\ PlacedByFrame'
  BY <1>1, <1>2, <1>3 DEF OpenedFirst, FramesApart, PlacedByFrame
<1>8. LeftWhole'
  BY <1>1, <1>2, <1>3 DEF LeftWhole
<1>9. FromRoots' /\ RoomTaken'
  BY <1>1, <1>2, <1>3, <1>4 DEF FromRoots, RoomTaken
<1>10. QED
  BY <1>5, <1>6, <1>7, <1>8, <1>9 DEF LaidOut

\* When no bus is left every bus below the root buses has been opened.
LEMMA WholeTreePlaced ==
  ASSUME Typed, OpenedFirst, LeftWhole, FromRoots, stack = << >>, roots = {}
  PROVE  Placed = DevicesOn(TreeOf(RootBuses))
<1>1. Walked = {}
  BY DEF Walked
<1>2. Placed \subseteq DevicesOn(TreeOf(RootBuses))
  BY DEF OpenedFirst, FromRoots, DevicesOn
<1>3. TreeOf(RootBuses) \subseteq Opened
  <2>1. RootBuses \subseteq Opened
    BY DEF Opened, RootBuses, KnownBuses
  <2>2. Opened \in SUBSET KnownBuses
    BY DEF Opened
  <2>3. IsClosed(Opened)
    <3>1. SUFFICES ASSUME NEW d \in DevicesOn(Opened), d.bridge, d.sec \in KnownBuses
                   PROVE  d.sec \in Opened
      BY DEF IsClosed
    <3>2. d \in Placed
      BY <1>1 DEF LeftWhole, DevicesOn
    <3>3. QED
      BY <3>1, <3>2 DEF Opened
  <2>4. QED
    BY <2>1, <2>2, <2>3, TreeIsLeast
<1>4. DevicesOn(TreeOf(RootBuses)) \subseteq Placed
  BY <1>1, <1>3 DEF LeftWhole, DevicesOn
<1>5. QED
  BY <1>2, <1>4

\* The map has a block if there is one, and all of them unless the estimate wraps.
LEMMA BlocksTracked ==
  ASSUME Typed, NoBlockTwice
  PROVE  /\ Tracked \subseteq Placed
         /\ Tracked = {} => Placed = {}
         /\ HasRoom(mode) => Tracked = Placed
<1> DEFINE m == Len(blocks)
<1>1. m \in Nat /\ DOMAIN blocks = 1..m
  BY DEF Typed
<1>2. \A i \in DOMAIN blocks : blocks[i].key \in Int
  <2>1. TypeOK
    BY TypedIsTypeOK
  <2>2. QED
    BY <2>1, DotsAssumption DEF TypeOK
<1>3. Tracked \subseteq Placed
  BY DEF Tracked, Inserted, Placed
<1>4. ASSUME Placed # {} PROVE Tracked # {}
  <2>1. m > 0 /\ 1 \in DOMAIN blocks
    <3>1. DOMAIN blocks # {}
      BY <1>4 DEF Placed
    <3> HIDE DEF m
    <3>2. QED
      BY <1>1, <3>1
  <2>2. 1 \in Inserted
    <3>1. 1..(1 - 1) = {}
      OBVIOUS
    <3>2. QED
      BY <2>1, <3>1 DEF Inserted
  <2>3. QED
    BY <2>2 DEF Tracked
<1>5. ASSUME HasRoom(mode) PROVE Tracked = Placed
  <2>1. ASSUME NEW i \in DOMAIN blocks, NEW j \in 1..(i - 1)
        PROVE  blocks[j].key # blocks[i].key
    <3>1. i \in Nat /\ j \in DOMAIN blocks /\ j < i
      <4> HIDE DEF m
      <4>1. i \in 1..m
        BY <1>1, <2>1
      <4>2. QED
        BY <1>1, <2>1, <4>1
    <3>2. blocks[j].key < blocks[i].key
      BY <1>5, <2>1, <3>1 DEF NoBlockTwice
    <3>3. QED
      BY <1>2, <2>1, <3>1, <3>2
  <2>2. Inserted = DOMAIN blocks
    BY <2>1 DEF Inserted
  <2>3. QED
    BY <2>2 DEF Tracked, Placed
<1>6. QED
  BY <1>3, <1>4, <1>5

LEMMA FinishLaysOut ==
  ASSUME Typed, LaidOut, FinishLayout
  PROVE  LaidOut'
<1>1. /\ UNCHANGED <<system, devs, buses, mode, roots, stack, y, blocks, saved>>
      /\ stack = << >> /\ roots = {}
      /\ \A S : TreeOf(S)' = TreeOf(S) /\ DevicesOn(S)' = DevicesOn(S)
      /\ UNCHANGED <<KnownBuses, RootBuses>>
  BY TreesStay DEF FinishLayout
<1>2. Placed' = Placed /\ Walked' = Walked /\ Opened' = Opened
  BY <1>1 DEF Placed, Walked, Opened
<1>3. /\ DeviceRoom(mode)' = DeviceRoom(mode)
      /\ HasRoom(mode)' <=> HasRoom(mode)
      /\ HasRoom("Verbose")' <=> HasRoom("Verbose")
  BY <1>1, RoomStays
<1>4. BusesRight' /\ AllLeft'
  BY <1>1 DEF LaidOut, BusesRight, AllLeft
<1>5. NoBlockTwice' /\ KeysBelow' /\ SavedWhole'
  BY <1>1, <1>3 DEF LaidOut, NoBlockTwice, KeysBelow, SavedWhole
<1>6. OpenedFirst' /\ FramesApart' /\ PlacedByFrame'
  BY <1>1, <1>2 DEF LaidOut, OpenedFirst, FramesApart, PlacedByFrame
<1>7. LeftWhole' /\ FromRoots' /\ RoomTaken'
  BY <1>1, <1>2, <1>3 DEF LaidOut, LeftWhole, FromRoots, RoomTaken
<1>8. Ends'
  <2>1. /\ Tracked \subseteq Placed
        /\ Tracked = {} => Placed = {}
        /\ HasRoom(mode) => Tracked = Placed
    BY BlocksTracked DEF LaidOut
  <2>2. CASE phase' = "done"
    <3>1. Tracked # {}
      BY <2>2 DEF FinishLayout
    <3>2. QED
      BY <1>2, <2>1, <2>2, <3>1 DEF Ends
  <2>3. CASE phase' = "crashed"
    <3>1. SUFFICES ASSUME HasRoom("Verbose") PROVE Placed = {}
      BY <1>2, <1>3, <2>3 DEF Ends
    <3>2. Tracked = {} \/ saved \notin {{}, Tracked}
      BY <2>3 DEF FinishLayout
    <3>3. Tracked = Placed
      BY <2>1, <3>1, VerboseTakesMore DEF LaidOut
    <3>4. Placed = DevicesOn(TreeOf(RootBuses))
      BY <1>1, WholeTreePlaced DEF LaidOut
    <3>5. saved \in {{}, DevicesOn(TreeOf(RootBuses))}
      BY <3>1 DEF LaidOut, SavedWhole
    <3>6. QED
      BY <3>2, <3>3, <3>4, <3>5
  <2>4. QED
    BY <2>2, <2>3 DEF FinishLayout
<1>9. QED
  BY <1>4, <1>5, <1>6, <1>7, <1>8 DEF LaidOut

LEMMA StepLaysOut ==
  ASSUME Typed, LayoutInv, [Next]_vars
  PROVE  LayoutInv'
<1>1. Typed'
  BY StepTyped
<1>2. SUFFICES ASSUME Enumerated(system'), phase' \in {"layout", "done", "crashed"} PROVE LaidOut'
  BY DEF LayoutInv
<1>3. system' = system /\ Enumerated(system)
  <2>1. system' = system
    BY DEF Next, Populate, Layout, NextBus, PlaceDevice, Return, FinishLayout, SwitchDrawingMode, vars
  <2>2. QED
    BY <1>2, <2>1
<1>4. CASE Populate
  <2>1. phase' # "failed"
    BY <1>2
  <2>2. BusesRight'
    BY <1>3, <1>4, <2>1, PopulatedRight
  <2>3. phase' = "layout" /\ roots' = DOMAIN buses' /\ stack' = << >> /\ y' = 12 /\ blocks' = << >>
    BY <1>4, <2>1 DEF Populate, StartLayout
  <2>4. SavedWhole'
    <3>1. saved' = {}
      BY <1>4 DEF Populate, Typed, Empty
    <3>2. QED
      BY <3>1 DEF SavedWhole
  <2>5. QED
    BY <1>1, <2>2, <2>3, <2>4, FreshLayout
<1>5. CASE Layout
  <2>1. phase = "layout"
    BY <1>5 DEF Layout, NextBus, PlaceDevice, Return, FinishLayout
  <2>2. LaidOut
    BY <1>3, <2>1 DEF LayoutInv
  <2>3. QED
    BY <1>3, <1>5, <2>2, NextBusLaysOut, PlaceDeviceLaysOut, ReturnLaysOut, FinishLaysOut DEF Layout
<1>6. CASE \E m \in Modes : SwitchDrawingMode(m)
  <2>1. /\ phase = "done" /\ UNCHANGED <<system, devs, buses>>
        /\ phase' = "layout" /\ roots' = DOMAIN buses /\ stack' = << >> /\ y' = 12 /\ blocks' = << >>
        /\ saved' = Tracked
    BY <1>6 DEF SwitchDrawingMode, StartLayout
  <2>2. LaidOut /\ BusesRight
    BY <1>3, <2>1 DEF LayoutInv, LaidOut
  <2>3. /\ \A S : DevicesOn(S)' = DevicesOn(S) /\ TreeOf(S)' = TreeOf(S)
        /\ UNCHANGED <<KnownBuses, RootBuses>>
    BY <2>1, TreesStay
  <2>4. BusesRight'
    BY <2>1, <2>2, <2>3 DEF BusesRight
  <2>5. SavedWhole'
    <3>1. SUFFICES ASSUME HasRoom("Verbose") PROVE Tracked = DevicesOn(TreeOf(RootBuses))
      BY <2>1, <2>3, RoomStays DEF SavedWhole
    <3>2. Tracked = Placed
      BY <2>2, <3>1, BlocksTracked, VerboseTakesMore DEF LaidOut
    <3>3. Placed = DevicesOn(TreeOf(RootBuses))
      BY <2>1, <2>2, WholeTreePlaced DEF LaidOut, AllLeft
    <3>4. QED
      BY <3>2, <3>3
  <2>6. QED
    BY <1>1, <2>1, <2>4, <2>5, FreshLayout
<1>7. CASE UNCHANGED vars
  <2>1. UNCHANGED <<system, phase, devs, buses, mode, roots, stack, y, blocks, saved>>
    BY <1>7 DEF vars
  <2>2. LaidOut
    BY <1>2, <1>3, <2>1 DEF LayoutInv
  <2>3. /\ \A S : TreeOf(S)' = TreeOf(S) /\ DevicesOn(S)' = DevicesOn(S)
        /\ UNCHANGED <<KnownBuses, RootBuses>>
    BY <2>1, TreesStay
  <2>4. Placed' = Placed /\ Walked' = Walked /\ Opened' = Opened
    BY <2>1, <2>3 DEF Placed, Walked, Opened
  <2>5. /\ DeviceRoom(mode)' = DeviceRoom(mode)
        /\ HasRoom(mode)' <=> HasRoom(mode)
        /\ HasRoom("Verbose")' <=> HasRoom("Verbose")
    BY <2>1, RoomStays
  <2>6. BusesRight' /\ AllLeft' /\ Ends'
    BY <2>1, <2>2, <2>3, <2>4, <2>5 DEF LaidOut, BusesRight, AllLeft, Ends
  <2>7. NoBlockTwice' /\ KeysBelow' /\ SavedWhole'
    BY <2>1, <2>2, <2>3, <2>5 DEF LaidOut, NoBlockTwice, KeysBelow, SavedWhole
  <2>8. OpenedFirst' /\ FramesApart' /\ PlacedByFrame'
    BY <2>1, <2>2, <2>4 DEF LaidOut, OpenedFirst, FramesApart, PlacedByFrame
  <2>9. LeftWhole' /\ FromRoots' /\ RoomTaken'
    BY <2>1, <2>2, <2>3, <2>4, <2>5 DEF LaidOut, LeftWhole, FromRoots, RoomTaken
  <2>10. QED
    BY <2>6, <2>7, <2>8, <2>9 DEF LaidOut
<1>8. QED
  BY <1>4, <1>5, <1>6, <1>7 DEF Next

\* Every layout that is over can be read off its blocks.
LEMMA FinishedIsComplete ==
  ASSUME Typed, LaidOut
  PROVE  LayoutComplete
<1>1. SUFFICES ASSUME phase \in {"done", "crashed"} PROVE Placed = DevicesOn(TreeOf(RootBuses))
  BY DEF LayoutComplete, Placed, LaidOut, Ends
<1>2. QED
  BY <1>1, WholeTreePlaced DEF LaidOut, AllLeft

\* What has been placed fits the estimate made before.
LEMMA LaidOutFits ==
  ASSUME Typed, LaidOut
  PROVE  FitsCanvas
<1>1. SUFFICES ASSUME HasRoom(mode) PROVE y <= CanvasHeight
  BY DEF FitsCanvas
<1>2. BusesRight /\ NoBlockTwice /\ RoomTaken
  BY DEF LaidOut
<1>3. Len(blocks) \in Nat /\ Len(blocks) <= Len(devs)
  BY <1>2, BlocksCounted DEF NoBlockTwice
<1>4. /\ Cardinality(RootBuses \ roots) \in Nat
      /\ Cardinality(RootBuses \ roots) <= Cardinality(RootBuses)
  BY RootsCounted
<1>5. y \in Nat /\ y <= 12 + 12 * Cardinality(RootBuses \ roots) + DeviceRoom(mode) * Len(blocks)
  BY <1>1, <1>2 DEF RoomTaken, Typed
<1>6. QED
  BY <1>1, <1>2, <1>3, <1>4, <1>5, RoomFor

-----------------------------------------------------------------------------
(***************************************************************************)
(* The order of the blocks.                                                *)
(***************************************************************************)

\* A bus on the stack is in the tree below each bus that called for it, directly or
\* not, and none of those is in its own.
Nested ==
  /\ \A k, l \in DOMAIN stack : k <= l => stack[l].bus \in TreeOf({stack[k].bus})
  /\ \A k, l \in DOMAIN stack : k < l => stack[k].bus \notin TreeOf({stack[l].bus})

BlocksBetween(i, e) == {blocks[j].dev : j \in {k \in DOMAIN blocks : i < k /\ k <= e}}

\* What lies behind a bridge comes after it: while the bus behind it is walked, all
\* that came since, and from then on what came till that bus was left.
BelowBridges ==
  \A i \in DOMAIN blocks : LET d == blocks[i].dev IN
    /\ \A j \in DOMAIN blocks : j <= i => blocks[j].dev \notin Behind(d)
    /\ IF d.bridge /\ d.sec \in Walked
       THEN \A j \in DOMAIN blocks : i < j => blocks[j].dev \in Behind(d)
       ELSE \E e \in i .. Len(blocks) : Behind(d) = BlocksBetween(i, e)

ByAddress ==
  \A i, j \in DOMAIN blocks :
    i < j /\ blocks[i].dev.bus = blocks[j].dev.bus => DBdf(blocks[i].dev) < DBdf(blocks[j].dev)

InOrder == Nested /\ BelowBridges /\ ByAddress

OrderInv == Enumerated(system) /\ phase \in {"layout", "done", "crashed"} => InOrder

\* No bridge leads from a bus that is not open to one that is.
LEMMA UnopenedTree ==
  ASSUME Typed, Enumerated(system), LaidOut, NEW nr \in KnownBuses, nr \notin Opened
  PROVE  TreeOf({nr}) \cap Opened = {}
<1> DEFINE T == KnownBuses \ Opened
<1>1. IsClosed(T)
  <2>1. SUFFICES ASSUME NEW d \in DevicesOn(T), d.bridge, d.sec \in KnownBuses, d.sec \in Opened
                 PROVE  FALSE
    BY DEF IsClosed
  <2>2. d \in Elems(system.devs) /\ d.bus \notin Opened
    BY DEF DevicesOn
  <2>3. d.sec \notin RootBuses
    BY <2>1, <2>2, EnumeratedFacts
  <2>4. PICK e \in Placed : e.bridge /\ e.sec = d.sec
    BY <2>1, <2>3 DEF Opened
  <2>5. e \in Elems(system.devs) /\ e.bus \in Opened
    BY <2>4 DEF LaidOut, OpenedFirst
  <2>6. d = e
    BY <2>1, <2>2, <2>4, <2>5, EnumeratedFacts
  <2>7. QED
    BY <2>2, <2>5, <2>6
<1>2. TreeOf({nr}) \subseteq T
  <2>1. T \in SUBSET KnownBuses /\ {nr} \subseteq T
    OBVIOUS
  <2> HIDE DEF T
  <2>2. QED
    BY <1>1, <2>1, TreeIsLeast
<1>3. QED
  BY <1>2

\* When a bus is left, all that lies below it is placed.
LEMMA WalkedTree ==
  ASSUME Typed, LaidOut, Nested, Return
  PROVE  DevicesOn(TreeOf({top.bus})) \subseteq Placed
<1> DEFINE V == TreeOf({top.bus}) \cap Opened
<1>1. top.bus \in Walked /\ DevicesOn({top.bus}) \subseteq Placed
  BY ReturnLeaves
<1>2. top.bus \in Opened /\ Opened \subseteq KnownBuses
  BY <1>1 DEF LaidOut, OpenedFirst, Opened
<1>3. ASSUME NEW nr \in V PROVE DevicesOn({nr}) \subseteq Placed
  <2>1. CASE nr \notin Walked
    BY <2>1 DEF LaidOut, LeftWhole
  <2>2. CASE nr = top.bus
    BY <1>1, <2>2
  <2>3. CASE nr \in Walked /\ nr # top.bus
    <3>1. PICK k \in DOMAIN stack : nr = stack[k].bus
      BY <2>3 DEF Walked
    <3> DEFINE n == Len(stack)
    <3>2. n \in Nat /\ n > 0 /\ DOMAIN stack = 1..n /\ top = stack[n]
      <4>1. stack # << >>
        BY DEF Return
      <4>2. QED
        BY <4>1, TopFrame DEF top
    <3> HIDE DEF n
    <3>3. n \in DOMAIN stack /\ k < n
      <4>1. k # n
        BY <2>3, <3>1, <3>2
      <4>2. QED
        BY <3>1, <3>2, <4>1
    <3>4. nr \notin TreeOf({top.bus})
      BY <3>1, <3>2, <3>3 DEF Nested
    <3>5. QED
      BY <3>4
  <2>4. QED
    BY <2>1, <2>2, <2>3
<1>4. IsClosed(V)
  <2>1. SUFFICES ASSUME NEW d \in DevicesOn(V), d.bridge, d.sec \in KnownBuses
                 PROVE  d.sec \in V
    BY DEF IsClosed
  <2>2. d \in DevicesOn({d.bus}) /\ d.bus \in V /\ d \in DevicesOn(TreeOf({top.bus}))
    BY DEF DevicesOn
  <2>3. d.sec \in TreeOf({top.bus})
    BY <2>1, <2>2, TreeIsClosed DEF IsClosed
  <2>4. d \in Placed
    BY <1>3, <2>2
  <2>5. d.sec \in Opened
    BY <2>1, <2>4 DEF Opened
  <2>6. QED
    BY <2>3, <2>5
<1>5. TreeOf({top.bus}) \subseteq V
  <2>1. V \in SUBSET KnownBuses /\ {top.bus} \subseteq V
    BY <1>2, TreeHas
  <2> HIDE DEF V
  <2>2. QED
    BY <1>4, <2>1, TreeIsLeast
<1>6. QED
  <2> HIDE DEF V
  <2>1. QED
    BY <1>3, <1>5 DEF DevicesOn

LEMMA ReturnInOrder ==
  ASSUME Typed, Enumerated(system), LaidOut, InOrder, Return
  PROVE  InOrder'
<1> DEFINE m == Len(blocks)
<1>1. /\ Len(stack') = Len(stack) - 1
      /\ \A k \in DOMAIN stack' : k \in DOMAIN stack /\ k # Len(stack) /\ stack'[k] = stack[k]
      /\ Walked' = Walked \ {top.bus} /\ top.bus \in Walked
      /\ Placed' = Placed /\ Opened' = Opened
  BY ReturnLeaves
<1>2. /\ UNCHANGED <<system, blocks>>
      /\ \A S : TreeOf(S)' = TreeOf(S)
      /\ \A d : Behind(d)' = Behind(d)
  BY TreesStay DEF Return
<1>3. Nested'
  BY <1>1, <1>2 DEF InOrder, Nested
<1>4. ByAddress'
  BY <1>2 DEF InOrder, ByAddress
<1>5. m \in Nat /\ DOMAIN blocks = 1..m
  BY DEF Typed
<1>6. ASSUME NEW i \in DOMAIN blocks, blocks[i].dev.bridge, blocks[i].dev.sec = top.bus
      PROVE  Behind(blocks[i].dev) = BlocksBetween(i, m)
  <2> DEFINE d == blocks[i].dev
  <2>1. top.bus \in KnownBuses
    BY <1>1 DEF LaidOut, OpenedFirst, Opened
  <2>2. Behind(d) = DevicesOn(TreeOf({top.bus}))
    BY <1>6, <2>1 DEF Behind
  <2>3. Behind(d) \subseteq Placed
    BY <2>2, WalkedTree DEF InOrder
  <2>4. /\ \A j \in DOMAIN blocks : j <= i => blocks[j].dev \notin Behind(d)
        /\ \A j \in DOMAIN blocks : i < j => blocks[j].dev \in Behind(d)
    BY <1>1, <1>6 DEF InOrder, BelowBridges
  <2>5. \A j \in DOMAIN blocks : (j <= i \/ i < j) /\ j <= m
    <3> HIDE DEF m
    <3>1. QED
      BY <1>5
  <2> HIDE DEF d, m
  <2>6. QED
    BY <2>3, <2>4, <2>5 DEF BlocksBetween, Placed, d
<1>7. BelowBridges'
  <2>1. SUFFICES ASSUME NEW i \in DOMAIN blocks
                 PROVE  LET d == blocks[i].dev IN
                          /\ \A j \in DOMAIN blocks : j <= i => blocks[j].dev \notin Behind(d)
                          /\ IF d.bridge /\ d.sec \in Walked'
                             THEN \A j \in DOMAIN blocks : i < j => blocks[j].dev \in Behind(d)
                             ELSE \E e \in i .. Len(blocks) : Behind(d) = BlocksBetween(i, e)
    <3>1. \A i, e : BlocksBetween(i, e)' = BlocksBetween(i, e)
      BY <1>2 DEF BlocksBetween
    <3>2. QED
      BY <1>2, <3>1 DEF BelowBridges
  <2> DEFINE d == blocks[i].dev
  <2>2. /\ \A j \in DOMAIN blocks : j <= i => blocks[j].dev \notin Behind(d)
        /\ IF d.bridge /\ d.sec \in Walked
           THEN \A j \in DOMAIN blocks : i < j => blocks[j].dev \in Behind(d)
           ELSE \E e \in i .. Len(blocks) : Behind(d) = BlocksBetween(i, e)
    BY DEF InOrder, BelowBridges
  <2>3. CASE d.bridge /\ d.sec = top.bus
    <3>1. Behind(d) = BlocksBetween(i, m)
      BY <1>6, <2>3
    <3>2. m \in i .. Len(blocks)
      <4>1. m = Len(blocks)
        OBVIOUS
      <4> HIDE DEF m
      <4>2. QED
        BY <1>5, <4>1
    <3>3. ~(d.sec \in Walked')
      BY <1>1, <2>3
    <3> HIDE DEF d
    <3>4. QED
      BY <2>2, <3>1, <3>2, <3>3 DEF d
  <2>4. CASE ~(d.bridge /\ d.sec = top.bus)
    <3>1. d.bridge => (d.sec \in Walked' <=> d.sec \in Walked)
      BY <1>1, <2>4
    <3> HIDE DEF d
    <3>2. QED
      BY <2>2, <3>1 DEF d
  <2>5. QED
    BY <2>3, <2>4
<1>8. QED
  BY <1>3, <1>4, <1>7 DEF InOrder

\* The devices placed on the bus on top of the stack are below the one that is next.
LEMMA PlacedBefore ==
  ASSUME Typed, Enumerated(system), LaidOut, PlaceDevice, NEW e \in Placed, e.bus = top.bus
  PROVE  DBdf(e) < DBdf(buses[top.bus].devs[top.placed + 1])
<1> DEFINE n == Len(stack)
           ds == buses[top.bus].devs
<1>1. /\ top.placed < Len(ds) /\ top.placed \in Nat /\ Len(ds) \in Nat
      /\ ds \in Seq(Device) /\ top.bus \in DOMAIN buses
      /\ n \in DOMAIN stack /\ stack[n] = top
  <2>1. stack # << >> /\ top.placed < Len(ds)
    BY DEF PlaceDevice
  <2>2. n \in DOMAIN stack /\ stack[n] = top
    <3>1. DOMAIN stack = 1..n /\ n \in Nat /\ n > 0
      BY <2>1, TopFrame
    <3>2. stack[n] = top
      BY DEF top
    <3> HIDE DEF n
    <3>3. QED
      BY <3>1, <3>2
  <2> HIDE DEF ds, n
  <2>3. QED
    BY <2>1, <2>2, TopFrame DEF ds
<1>2. Elems(ds) = DevicesOn({top.bus}) /\ Ascending(ds)
  BY <1>1 DEF LaidOut, BusesRight
<1>3. e \in Elems(ds)
  BY <1>2 DEF LaidOut, OpenedFirst, DevicesOn
<1>4. \A p \in 1 .. Len(ds) : ds[p] \in Placed <=> p <= top.placed
  BY <1>1 DEF LaidOut, PlacedByFrame
<1> HIDE DEF ds
<1>5. PICK p \in 1 .. Len(ds) : e = ds[p]
  <2>1. DOMAIN ds = 1 .. Len(ds)
    BY <1>1
  <2>2. QED
    BY <1>3, <2>1 DEF Elems
<1>6. p <= top.placed
  BY <1>4, <1>5
<1>7. p < top.placed + 1 /\ top.placed + 1 \in 1 .. Len(ds)
  BY <1>1, <1>5, <1>6
<1>8. DBdf(ds[p]) < DBdf(ds[top.placed + 1])
  BY <1>2, <1>5, <1>7 DEF Ascending
<1>9. QED
  BY <1>5, <1>8 DEF ds

LEMMA PlaceDeviceInOrder ==
  ASSUME Typed, Enumerated(system), LaidOut, InOrder, PlaceDevice
  PROVE  InOrder'
<1> DEFINE n == Len(stack)
           m == Len(blocks)
           d == buses[top.bus].devs[top.placed + 1]
           goesDown == d.bridge /\ d.sec \in KnownBuses
           a == [bus |-> top.bus, placed |-> top.placed + 1]
           f == [bus |-> d.sec, placed |-> 0]
           b == [dev |-> d, key |-> Dot(y + 3)]
<1>1. /\ d \in Device /\ d \in DevicesOn({top.bus})
      /\ d \notin Placed /\ top.bus \in Opened
      /\ blocks' = Append(blocks, b)
      /\ Placed' = Placed \cup {d}
      /\ goesDown => d.sec \notin Opened
      /\ Walked' = IF goesDown THEN Walked \cup {d.sec} ELSE Walked
  BY PlaceDeviceOpens
<1>2. /\ UNCHANGED system
      /\ \A S : TreeOf(S)' = TreeOf(S)
      /\ \A e : Behind(e)' = Behind(e)
      /\ UNCHANGED <<KnownBuses, RootBuses>>
  BY TreesStay DEF PlaceDevice
<1>3. /\ n \in Nat /\ n > 0 /\ DOMAIN stack = 1..n /\ stack[n] = top
      /\ DOMAIN buses = KnownBuses
  <2>1. stack # << >>
    BY DEF PlaceDevice
  <2>2. QED
    BY <2>1, TopFrame DEF top, LaidOut, BusesRight
<1>4. /\ DOMAIN stack' = (IF goesDown THEN 1..(n + 1) ELSE 1..n)
      /\ \A k \in 1..(n - 1) : stack'[k] = stack[k]
      /\ stack'[n] = a
      /\ goesDown => stack'[n + 1] = f
  <2>1. /\ stack' \in Seq(Frames)
        /\ Len(stack') = IF goesDown THEN n + 1 ELSE n
        /\ \A k \in 1..(n - 1) : stack'[k] = stack[k]
        /\ stack'[n] = a
        /\ goesDown => stack'[n + 1] = f
    BY <1>3, Descended
  <2> HIDE DEF d, a, f, n
  <2>2. QED
    BY <2>1
<1>5. a.bus = top.bus /\ f.bus = d.sec /\ b.dev = d
  OBVIOUS
<1>6. d.bus = top.bus /\ d \in Elems(system.devs)
  BY <1>1 DEF DevicesOn
<1>7. /\ m \in Nat /\ DOMAIN blocks = 1..m /\ DOMAIN blocks' = 1..(m + 1) /\ Len(blocks') = m + 1
      /\ \A i \in 1..m : blocks'[i] = blocks[i]
      /\ blocks'[m + 1] = b
      /\ \A i \in 1..(m + 1) : i \in 1..m \/ i = m + 1
  <2>1. blocks \in Seq(Blocks)
    BY DEF Typed
  <2> HIDE DEF b
  <2>2. m \in Nat /\ DOMAIN blocks = 1..m
    BY <2>1
  <2>3. QED
    BY <1>1, <2>1, <2>2
<1>8. \A k \in 1..n : stack'[k].bus = stack[k].bus
  <2>1. \A k \in 1..n : k \in 1..(n - 1) \/ k = n
    <3>1. n \in Nat /\ n > 0
      BY <1>3
    <3> HIDE DEF n
    <3>2. QED
      BY <3>1
  <2> HIDE DEF a, d, n
  <2>2. QED
    BY <1>3, <1>4, <1>5, <2>1
<1>9. \A k \in DOMAIN stack' : k \in 1..n \/ (k = n + 1 /\ goesDown)
  <2> HIDE DEF d, a, f, n
  <2>1. QED
    BY <1>3, <1>4
<1>10. \A k \in 1..n : stack[k].bus \in Opened
  BY <1>3 DEF LaidOut, OpenedFirst, Walked
<1>11. goesDown => TreeOf({d.sec}) \cap Opened = {}
  BY <1>1, UnopenedTree
<1>12. \A i \in 1..m : blocks[i].dev \in Placed /\ blocks[i].dev.bus \in Opened /\ blocks[i].dev \in Elems(system.devs)
  BY <1>7 DEF LaidOut, OpenedFirst, Placed
<1>13. Nested /\ BelowBridges /\ ByAddress
  BY DEF InOrder
<1> HIDE DEF d, a, b, f, n, m
<1>14. Nested'
  <2>1. ASSUME NEW k \in DOMAIN stack', NEW l \in DOMAIN stack', k <= l
        PROVE  stack'[l].bus \in TreeOf({stack'[k].bus})
    <3>1. CASE k \in 1..n /\ l \in 1..n
      BY <1>3, <1>8, <1>13, <2>1, <3>1 DEF Nested
    <3>2. CASE k \in 1..n /\ l = n + 1 /\ goesDown
      <4>1. stack'[l].bus = d.sec /\ stack'[k].bus = stack[k].bus
        BY <1>4, <1>5, <1>8, <3>2
      <4>2. n \in DOMAIN stack /\ k <= n /\ k \in DOMAIN stack
        BY <1>3, <3>2
      <4>3. top.bus \in TreeOf({stack[k].bus})
        BY <1>3, <1>13, <4>2 DEF Nested
      <4>4. d \in DevicesOn(TreeOf({stack[k].bus}))
        BY <1>6, <4>3 DEF DevicesOn
      <4>5. QED
        BY <3>2, <4>1, <4>4, TreeIsClosed DEF IsClosed
    <3>3. CASE k = n + 1 /\ goesDown
      <4>1. l = n + 1
        BY <1>3, <1>9, <2>1, <3>3
      <4>2. stack'[l].bus = d.sec /\ stack'[k].bus = d.sec
        BY <1>4, <1>5, <3>3, <4>1
      <4>3. QED
        BY <3>3, <4>2, TreeHas
    <3>4. l \notin 1..n => ~(k = n + 1 /\ l \in 1..n)
      OBVIOUS
    <3>5. QED
      BY <1>9, <2>1, <3>1, <3>2, <3>3
  <2>2. ASSUME NEW k \in DOMAIN stack', NEW l \in DOMAIN stack', k < l
        PROVE  stack'[k].bus \notin TreeOf({stack'[l].bus})
    <3>1. CASE k \in 1..n /\ l \in 1..n
      BY <1>3, <1>8, <1>13, <2>2, <3>1 DEF Nested
    <3>2. CASE k \in 1..n /\ l = n + 1 /\ goesDown
      <4>1. stack'[l].bus = d.sec /\ stack'[k].bus = stack[k].bus
        BY <1>4, <1>5, <1>8, <3>2
      <4>2. QED
        BY <1>10, <1>11, <3>2, <4>1
    <3>3. ~(k = n + 1)
      BY <1>3, <1>9, <2>2
    <3>4. QED
      BY <1>9, <2>2, <3>1, <3>2, <3>3
  <2>3. QED
    BY <1>2, <2>1, <2>2 DEF Nested
<1>15. ByAddress'
  <2>1. SUFFICES ASSUME NEW i \in 1..(m + 1), NEW j \in 1..(m + 1), i < j,
                        blocks'[i].dev.bus = blocks'[j].dev.bus
                 PROVE  DBdf(blocks'[i].dev) < DBdf(blocks'[j].dev)
    BY <1>7 DEF ByAddress, DBdf
  <2>2. i \in 1..m
    BY <1>7, <2>1
  <2>3. CASE j \in 1..m
    BY <1>7, <1>13, <2>1, <2>2, <2>3 DEF ByAddress
  <2>4. CASE j = m + 1
    <3>1. blocks'[j].dev = d /\ blocks'[i].dev = blocks[i].dev
      BY <1>5, <1>7, <2>2, <2>4
    <3>2. blocks[i].dev.bus = top.bus /\ blocks[i].dev \in Placed
      BY <1>6, <1>12, <2>1, <2>2, <3>1
    <3>3. DBdf(blocks[i].dev) < DBdf(d)
      BY <3>2, PlacedBefore DEF d
    <3>4. QED
      BY <3>1, <3>3
  <2>5. QED
    BY <1>7, <2>3, <2>4
<1>16. ASSUME NEW i \in Nat, NEW e \in Nat, e <= m
       PROVE  BlocksBetween(i, e)' = BlocksBetween(i, e)
  <2>1. \A k \in DOMAIN blocks' : k <= e => k \in DOMAIN blocks /\ blocks'[k] = blocks[k]
    BY <1>7, <1>16
  <2>2. DOMAIN blocks \subseteq DOMAIN blocks'
    BY <1>7
  <2>3. QED
    BY <2>1, <2>2 DEF BlocksBetween
<1>17. BelowBridges'
  <2>1. SUFFICES ASSUME NEW i \in 1..(m + 1)
                 PROVE  LET g == blocks'[i].dev IN
                          /\ \A j \in 1..(m + 1) : j <= i => blocks'[j].dev \notin Behind(g)
                          /\ IF g.bridge /\ g.sec \in Walked'
                             THEN \A j \in 1..(m + 1) : i < j => blocks'[j].dev \in Behind(g)
                             ELSE \E e \in i..(m + 1) : Behind(g) = BlocksBetween(i, e)'
    BY <1>2, <1>7 DEF BelowBridges
  <2> DEFINE g == blocks'[i].dev
  <2>2. CASE i \in 1..m
    <3>1. g = blocks[i].dev /\ g \in Placed
      BY <1>7, <1>12, <2>2
    <3>2. /\ \A j \in 1..m : j <= i => blocks[j].dev \notin Behind(g)
          /\ IF g.bridge /\ g.sec \in Walked
             THEN \A j \in 1..m : i < j => blocks[j].dev \in Behind(g)
             ELSE \E e \in i..m : Behind(g) = BlocksBetween(i, e)
      BY <1>7, <1>13, <2>2, <3>1 DEF BelowBridges, m
    <3>3. g # d /\ g \in Elems(system.devs)
      BY <1>1, <1>12, <2>2, <3>1
    <3> HIDE DEF g
    <3>4. \A j \in 1..(m + 1) : j <= i => blocks'[j].dev \notin Behind(g)
      BY <1>7, <2>2, <3>2
    <3>5. CASE g.bridge /\ g.sec \in Walked
      <4>1. PICK k \in 1..n : g.sec = stack[k].bus
        BY <1>3, <3>5 DEF Walked
      <4>2. n \in DOMAIN stack /\ k \in DOMAIN stack /\ k <= n
        BY <1>3, <4>1
      <4>3. top.bus \in TreeOf({g.sec})
        BY <1>3, <1>13, <4>1, <4>2 DEF Nested
      <4>4. g.sec \in KnownBuses
        BY <1>10, <4>1 DEF Opened
      <4>5. d \in Behind(g)
        BY <1>6, <3>5, <4>3, <4>4 DEF Behind, DevicesOn
      <4>6. \A j \in 1..(m + 1) : i < j => blocks'[j].dev \in Behind(g)
        BY <1>5, <1>7, <3>2, <3>5, <4>5
      <4>7. g.sec \in Walked'
        BY <1>1, <3>5
      <4>8. QED
        BY <3>4, <3>5, <4>6, <4>7 DEF g
    <3>6. CASE ~(g.bridge /\ g.sec \in Walked)
      <4>1. PICK e \in i..m : Behind(g) = BlocksBetween(i, e)
        BY <3>2, <3>6
      <4>2. e \in i..(m + 1) /\ e \in Nat /\ i \in Nat /\ e <= m
        BY <1>7, <2>2
      <4>3. Behind(g) = BlocksBetween(i, e)'
        BY <1>16, <4>1, <4>2
      <4>4. ~(g.bridge /\ g.sec \in Walked')
        <5>1. SUFFICES ASSUME g.bridge, goesDown, g.sec = d.sec PROVE FALSE
          BY <1>1, <3>6
        <5>2. QED
          BY <1>6, <3>3, <5>1, EnumeratedFacts
      <4>5. QED
        BY <3>4, <4>2, <4>3, <4>4 DEF g
    <3>7. QED
      BY <3>5, <3>6
  <2>3. CASE i = m + 1
    <3>1. g = d
      BY <1>5, <1>7, <2>3
    <3>2. \A j \in 1..(m + 1) : blocks'[j].dev \notin Behind(d)
      <4>1. SUFFICES ASSUME NEW j \in 1..(m + 1), goesDown, blocks'[j].dev \in DevicesOn(TreeOf({d.sec}))
                     PROVE  FALSE
        BY DEF Behind
      <4>2. blocks'[j].dev.bus \in Opened
        BY <1>1, <1>5, <1>6, <1>7, <1>12
      <4>3. QED
        BY <1>11, <4>1, <4>2 DEF DevicesOn
    <3>3. \A j \in 1..(m + 1) : ~(i < j)
      BY <1>7, <2>3
    <3>4. CASE goesDown
      <4>1. d.sec \in Walked'
        BY <1>1, <3>4
      <4>2. QED
        BY <3>1, <3>2, <3>3, <3>4, <4>1
    <3>5. CASE ~goesDown
      <4>1. Behind(d) = {}
        BY <3>5 DEF Behind
      <4>2. PICK e \in i..(m + 1) : e = m + 1
        BY <1>7, <2>3
      <4>3. BlocksBetween(i, e)' = {}
        <5>1. \A k \in DOMAIN blocks' : ~(i < k)
          BY <1>7, <3>3
        <5>2. QED
          BY <5>1 DEF BlocksBetween
      <4>4. ~(d.bridge /\ d.sec \in Walked')
        <5>1. Walked \subseteq KnownBuses
          BY DEF LaidOut, OpenedFirst, Opened
        <5>2. QED
          BY <1>1, <3>5, <5>1
      <4>5. \E c \in i..(m + 1) : Behind(d) = BlocksBetween(i, c)'
        BY <4>1, <4>2, <4>3
      <4>6. QED
        BY <3>1, <3>2, <4>4, <4>5
    <3>6. QED
      BY <3>4, <3>5
  <2>4. QED
    BY <1>7, <2>1, <2>2, <2>3
<1>18. QED
  BY <1>14, <1>15, <1>17 DEF InOrder

\* A step that leaves the blocks and the stack alone.
LEMMA OrderStays ==
  ASSUME InOrder, UNCHANGED <<system, stack, blocks>>
  PROVE  InOrder'
<1>1. /\ \A S : TreeOf(S)' = TreeOf(S)
      /\ \A d : Behind(d)' = Behind(d)
  BY TreesStay
<1>2. Walked' = Walked
  BY DEF Walked
<1>3. \A i, e : BlocksBetween(i, e)' = BlocksBetween(i, e)
  BY DEF BlocksBetween
<1>4. Nested'
  BY <1>1 DEF InOrder, Nested
<1>5. ByAddress'
  BY DEF InOrder, ByAddress
<1>6. BelowBridges'
  BY <1>1, <1>2, <1>3 DEF InOrder, BelowBridges
<1>7. QED
  BY <1>4, <1>5, <1>6 DEF InOrder

LEMMA NextBusInOrder ==
  ASSUME Typed, Enumerated(system), LaidOut, InOrder, NextBus
  PROVE  InOrder'
<1>1. PICK nr \in roots \cap KnownBuses :
           /\ blocks' = blocks /\ stack = << >>
           /\ \/ nr \in RootBuses /\ stack' = <<[bus |-> nr, placed |-> 0]>>
              \/ stack' = stack
  BY NextBusOpens
<1>2. UNCHANGED system
  BY DEF NextBus
<1>3. CASE stack' = stack
  BY <1>1, <1>2, <1>3, OrderStays
<1>4. CASE nr \in RootBuses /\ stack' = <<[bus |-> nr, placed |-> 0]>>
  <2> DEFINE f == [bus |-> nr, placed |-> 0]
  <2>1. stack' = <<f>> /\ f.bus = nr
    BY <1>4
  <2> HIDE DEF f
  <2>2. DOMAIN stack' = {1} /\ stack'[1].bus = nr
    BY <2>1
  <2>3. Walked = {} /\ Walked' = {nr}
    BY <1>1, <2>2 DEF Walked
  <2>4. /\ \A S : TreeOf(S)' = TreeOf(S)
        /\ \A d : Behind(d)' = Behind(d)
    BY <1>2, TreesStay
  <2>5. nr \in TreeOf({nr})
    BY <1>1, TreeHas
  <2>6. Nested'
    BY <2>2, <2>4, <2>5 DEF Nested
  <2>7. ByAddress'
    BY <1>1 DEF InOrder, ByAddress
  <2>8. \A i, e : BlocksBetween(i, e)' = BlocksBetween(i, e)
    BY <1>1 DEF BlocksBetween
  <2>9. \A i \in DOMAIN blocks : blocks[i].dev.bridge => blocks[i].dev.sec # nr
    BY <1>4, EnumeratedFacts DEF LaidOut, OpenedFirst, Placed
  <2>10. BelowBridges'
    BY <1>1, <2>3, <2>4, <2>8, <2>9 DEF InOrder, BelowBridges
  <2>11. QED
    BY <2>6, <2>7, <2>10 DEF InOrder
<1>5. QED
  BY <1>1, <1>3, <1>4

LEMMA StepInOrder ==
  ASSUME Typed, LayoutInv, OrderInv, [Next]_vars
  PROVE  OrderInv'
<1>1. SUFFICES ASSUME Enumerated(system'), phase' \in {"layout", "done", "crashed"} PROVE InOrder'
  BY DEF OrderInv
<1>2. system' = system /\ Enumerated(system)
  <2>1. system' = system
    BY DEF Next, Populate, Layout, NextBus, PlaceDevice, Return, FinishLayout, SwitchDrawingMode, vars
  <2>2. QED
    BY <1>1, <2>1
<1>3. CASE stack' = << >> /\ blocks' = << >>
  <2>1. DOMAIN stack' = {} /\ DOMAIN blocks' = {}
    BY <1>3
  <2>2. QED
    BY <2>1 DEF InOrder, Nested, BelowBridges, ByAddress
<1>4. CASE Populate \/ \E m \in Modes : SwitchDrawingMode(m)
  <2>1. stack' = << >> /\ blocks' = << >>
    BY <1>1, <1>4 DEF Populate, SwitchDrawingMode, StartLayout
  <2>2. QED
    BY <1>3, <2>1
<1>5. CASE Layout
  <2>1. phase = "layout"
    BY <1>5 DEF Layout, NextBus, PlaceDevice, Return, FinishLayout
  <2>2. LaidOut /\ InOrder
    BY <1>2, <2>1 DEF LayoutInv, OrderInv
  <2>3. CASE FinishLayout
    <3>1. UNCHANGED <<system, stack, blocks>>
      BY <2>3 DEF FinishLayout
    <3>2. QED
      BY <2>2, <3>1, OrderStays
  <2>4. QED
    BY <1>2, <1>5, <2>2, <2>3, NextBusInOrder, PlaceDeviceInOrder, ReturnInOrder DEF Layout
<1>6. CASE UNCHANGED vars
  <2>1. UNCHANGED <<system, phase, stack, blocks>>
    BY <1>6 DEF vars
  <2>2. InOrder
    BY <1>1, <1>2, <2>1 DEF OrderInv
  <2>3. QED
    BY <2>1, <2>2, OrderStays
<1>7. QED
  BY <1>4, <1>5, <1>6 DEF Next

\* Blocks that are all of different devices number as their devices do.
LEMMA BetweenCount ==
  ASSUME Typed, NoBlockTwice, NEW i \in Nat, NEW e \in Nat, i <= e, i > 0,
         \A k \in i..e : k \in DOMAIN blocks
  PROVE  Cardinality(BlocksBetween(i, e)) = e - i
<1> DEFINE J == (i + 1)..e
           g == [j \in J |-> blocks[j].dev]
<1>1. IsFiniteSet(J) /\ Cardinality(J) = e - i
  <2>1. i + 1 \in Int /\ e \in Int
    OBVIOUS
  <2>2. IsFiniteSet(J) /\ Cardinality(J) = IF i + 1 > e THEN 0 ELSE e - (i + 1) + 1
    BY <2>1, FS_Interval
  <2> HIDE DEF J
  <2>3. QED
    BY <2>2
<1>2. \A j \in J : j \in DOMAIN blocks /\ i < j /\ j <= e
  <2>1. \A j \in J : j \in i..e /\ i < j /\ j <= e
    OBVIOUS
  <2>2. QED
    BY <2>1
<1>3. BlocksBetween(i, e) = {g[j] : j \in J}
  <2>1. \A k \in DOMAIN blocks : i < k /\ k <= e => k \in J
    <3>1. SUFFICES ASSUME NEW k \in DOMAIN blocks, i < k, k <= e PROVE k \in J
      OBVIOUS
    <3>2. k \in Nat
      BY DEF Typed
    <3>3. QED
      BY <3>1, <3>2
  <2>2. \A j \in J : g[j] = blocks[j].dev
    OBVIOUS
  <2> HIDE DEF J, g
  <2>3. QED
    BY <1>2, <2>1, <2>2 DEF BlocksBetween
<1> HIDE DEF J
<1>4. \A j, k \in J : j # k => g[j] # g[k]
  BY <1>2 DEF NoBlockTwice
<1>5. g \in Bijection(J, BlocksBetween(i, e))
  <2>1. \A c \in BlocksBetween(i, e) : \E j \in J : g[j] = c
    BY <1>3
  <2>2. g \in [J -> BlocksBetween(i, e)]
    BY <1>3
  <2> HIDE DEF g
  <2>3. QED
    BY <1>4, <2>1, <2>2, Fun_IsBij
<1>6. ExistsBijection(J, BlocksBetween(i, e))
  BY <1>5 DEF ExistsBijection
<1>7. QED
  BY <1>1, <1>6, FS_Bijection

LEMMA FinishedInOrder ==
  ASSUME Typed, LaidOut, InOrder
  PROVE  TreeOrder
<1>1. SUFFICES ASSUME phase = "done" PROVE TreeOrder
  BY DEF TreeOrder
<1>2. Walked = {} /\ NoBlockTwice /\ BelowBridges /\ ByAddress
  BY <1>1 DEF LaidOut, AllLeft, Walked, InOrder
<1>3. DOMAIN blocks = 1 .. Len(blocks) /\ Len(blocks) \in Nat
  BY DEF Typed
<1>4. ASSUME NEW i \in DOMAIN blocks
      PROVE  Behind(blocks[i].dev) = BlocksBetween(i, i + Cardinality(Behind(blocks[i].dev)))
  <2> DEFINE b == Behind(blocks[i].dev)
             m == Len(blocks)
  <2>1. PICK e \in i..m : b = BlocksBetween(i, e)
    BY <1>2 DEF BelowBridges
  <2>2. i \in Nat /\ i > 0 /\ e \in Nat /\ i <= e /\ \A k \in i..e : k \in DOMAIN blocks
    <3>1. i \in 1..m /\ m \in Nat /\ DOMAIN blocks = 1..m
      BY <1>3
    <3> HIDE DEF m
    <3>2. QED
      BY <2>1, <3>1
  <2>3. Cardinality(b) = e - i
    <3>1. Cardinality(BlocksBetween(i, e)) = e - i
      BY <1>2, <2>2, BetweenCount
    <3>2. QED
      BY <2>1, <3>1
  <2> HIDE DEF b
  <2>4. i + Cardinality(b) = e
    BY <2>2, <2>3
  <2>5. QED
    BY <2>1, <2>4 DEF b
<1>5. QED
  BY <1>2, <1>4 DEF TreeOrder, Behind, BlocksBetween, ByAddress


\* What the two invariants are for.
LEMMA InvariantSuffices ==
  ASSUME Typed, LayoutInv, OrderInv, Enumerated(system)
  PROVE  NoBlockTwice /\ LayoutComplete /\ TreeOrder /\ FitsCanvas
<1>1. CASE phase \in {"layout", "done", "crashed"}
  <2>1. LaidOut /\ InOrder
    BY <1>1 DEF LayoutInv, OrderInv
  <2>2. QED
    BY <2>1, FinishedIsComplete, FinishedInOrder, LaidOutFits DEF LaidOut
<1>2. CASE phase \in {"populate", "failed"}
  <2>1. blocks = << >>
    BY <1>2 DEF Typed, Empty
  <2>2. DOMAIN blocks = {}
    BY <2>1
  <2>3. QED
    BY <1>2, <2>2 DEF NoBlockTwice, LayoutComplete, TreeOrder, FitsCanvas
<1>3. QED
  BY <1>1, <1>2 DEF Typed

-----------------------------------------------------------------------------
(***************************************************************************)
(* Theorems about a provider's system and the tree it becomes.             *)
(***************************************************************************)

\* Of any system a provider returns, the variables of PCITopologyCtx and of the layout
\* have the values they can have.
THEOREM TypeCorrectness == Spec => []TypeOK
<1>1. Init => Typed
  <2>1. SUFFICES ASSUME Init PROVE Typed
    OBVIOUS
  <2>2. Empty
    BY <2>1 DEF Init, Empty
  <2>3. system \in [devs : Seq(Device), buses : Seq(Bus)]
    BY <2>1, SystemsAssumption DEF Init
  <2>4. QED
    BY <2>2, <2>3, EmptyIsTyped
<1>2. Typed /\ [Next]_vars => Typed'
  BY StepTyped
<1>3. QED
  BY <1>1, <1>2, TypedIsTypeOK, PTL DEF Spec

\* Of a system the kernel enumerates, PCITopoUIComp never lays a device out twice; a layout
\* that is over has every device below the root buses and no other, and a finished one has
\* each right after the bridge it is behind and by address on its bus.  Unless the height
\* GetCanvasSizeEstimate makes wraps, the map refuses no block, nothing is placed below that
\* height, and no program crashes that has a device to draw.
THEOREM LayoutCorrectness ==
  Spec => [](Enumerated(system) => NoBlockTwice /\ LayoutComplete /\ TreeOrder /\ FitsCanvas)
<1>1. Init => Typed /\ LayoutInv /\ OrderInv
  <2>1. SUFFICES ASSUME Init PROVE Typed /\ LayoutInv /\ OrderInv
    OBVIOUS
  <2>2. Empty
    BY <2>1 DEF Init, Empty
  <2>3. system \in [devs : Seq(Device), buses : Seq(Bus)]
    BY <2>1, SystemsAssumption DEF Init
  <2>4. QED
    BY <2>2, <2>3, EmptyIsTyped DEF Empty, LayoutInv, OrderInv
<1>2. Typed /\ LayoutInv /\ OrderInv /\ [Next]_vars => Typed' /\ LayoutInv' /\ OrderInv'
  BY StepTyped, StepLaysOut, StepInOrder
<1>3. Typed /\ LayoutInv /\ OrderInv =>
        (Enumerated(system) => NoBlockTwice /\ LayoutComplete /\ TreeOrder /\ FitsCanvas)
  BY InvariantSuffices
<1>4. QED
  BY <1>1, <1>2, <1>3, PTL DEF Spec

-----------------------------------------------------------------------------
(***************************************************************************)
(* The start of the program.                                               *)
(***************************************************************************)

StartTyped ==
  /\ host \in Hosts /\ stage \in Stages
  /\ gone \subseteq DOMAIN host.devs /\ goneBuses \subseteq DOMAIN host.buses
  /\ at \in 1 .. Len(host.devs) + Len(host.buses) + 1
  /\ read \in Seq(DOMAIN host.devs) /\ readBuses \in Seq(DOMAIN host.buses)
  /\ Typed
  /\ stage # "run" => Empty

LEMMA HostTyped ==
  ASSUME StartTyped
  PROVE  /\ host.devs \in Seq(DeviceEntry) /\ Len(host.devs) \in Nat
         /\ DOMAIN host.devs = 1 .. Len(host.devs)
         /\ host.buses \in Seq(BusEntry) /\ Len(host.buses) \in Nat
         /\ DOMAIN host.buses = 1 .. Len(host.buses)
         /\ host.file \subseteq Systems
<1>1. host \in Host
  BY HostsAssumption DEF StartTyped
<1>2. host.devs \in Seq(DeviceEntry) /\ host.buses \in Seq(BusEntry) /\ host.file \subseteq Systems
  BY <1>1 DEF Host
<1>3. QED
  BY <1>2

\* What is read as a domain is a number.
LEMMA DomainRead ==
  ASSUME NEW dom \in Nat
  PROVE  ReadDomain(dom) \in Nat /\ ReadDomain(dom) % 256 \in Nat
<1>1. /\ HexDigit(dom, 1) \in Nat /\ HexDigit(dom, 16) \in Nat
      /\ HexDigit(dom, 256) \in Nat /\ HexDigit(dom, 4096) \in Nat
  BY DEF HexDigit
<1>2. ReadDomain(dom) \in Nat
  BY <1>1 DEF ReadDomain
<1>3. QED
  BY <1>2

\* What the scan describes is what a provider can return.
LEMMA ProvidedTyped ==
  ASSUME StartTyped, NEW bs \in Seq(DOMAIN host.buses)
  PROVE  [devs  |-> [i \in DOMAIN read |-> Described(host.devs[read[i]])],
          buses |-> [i \in DOMAIN bs |-> BusDescribed(host.buses[bs[i]])]]
            \in [devs : Seq(Device), buses : Seq(Bus)]
<1>1. ASSUME NEW e \in DeviceEntry PROVE Described(e) \in Device
  <2>1. e.dom \in Nat /\ e.bus \in Nat /\ e.fn \in Nat /\ e.bridge \in BOOLEAN /\ e.sec \in Nat /\ e.names \in 0..2
    <3> DEFINE numbers == 0..255
    <3>1. \A b \in numbers : b \in Nat
      OBVIOUS
    <3> HIDE DEF numbers
    <3>2. e \in [dom : Nat, bus : numbers, fn : Nat, bridge : BOOLEAN, sec : Nat, names : 0..2,
                 config : BOOLEAN, resource : BOOLEAN]
      BY DEF DeviceEntry, numbers
    <3>3. QED
      BY <3>1, <3>2
  <2>2. ReadDomain(e.dom) % 256 \in Nat
    BY <2>1, DomainRead
  <2>3. QED
    BY <2>1, <2>2 DEF Described, Device
<1>2. ASSUME NEW e \in BusEntry PROVE BusDescribed(e) \in Bus
  <2>1. e.dom \in Nat /\ e.bus \in Nat
    <3> DEFINE numbers == 0..255
    <3>1. \A b \in numbers : b \in Nat
      OBVIOUS
    <3> HIDE DEF numbers
    <3>2. e \in [dom : Nat, bus : numbers, above : {"host", "device"}]
      BY DEF BusEntry, numbers
    <3>3. QED
      BY <3>1, <3>2
  <2>2. ReadDomain(e.dom) \in Nat
    BY <2>1, DomainRead
  <2>3. (e.above = "host") \in BOOLEAN
    OBVIOUS
  <2>4. QED
    BY <2>1, <2>2, <2>3 DEF BusDescribed, Bus
<1>3. /\ host.devs \in Seq(DeviceEntry) /\ host.buses \in Seq(BusEntry)
      /\ read \in Seq(DOMAIN host.devs)
  BY HostTyped DEF StartTyped
<1>4. [i \in DOMAIN read |-> Described(host.devs[read[i]])] \in Seq(Device)
  <2>1. Len(read) \in Nat /\ DOMAIN read = 1 .. Len(read)
    BY <1>3
  <2>2. \A i \in 1 .. Len(read) : Described(host.devs[read[i]]) \in Device
    <3>1. \A i \in 1 .. Len(read) : host.devs[read[i]] \in DeviceEntry
      BY <1>3
    <3>2. QED
      BY <1>1, <3>1
  <2>3. QED
    BY <2>1, <2>2
<1>5. [i \in DOMAIN bs |-> BusDescribed(host.buses[bs[i]])] \in Seq(Bus)
  <2>1. Len(bs) \in Nat /\ DOMAIN bs = 1 .. Len(bs)
    OBVIOUS
  <2>2. \A i \in 1 .. Len(bs) : BusDescribed(host.buses[bs[i]]) \in Bus
    <3>1. \A i \in 1 .. Len(bs) : host.buses[bs[i]] \in BusEntry
      BY <1>3
    <3>2. QED
      BY <1>2, <3>1
  <2>3. QED
    BY <2>1, <2>2
<1>6. QED
  BY <1>4, <1>5

\* The steps of the start that leave the layout as it is, but for the system.
LEMMA StillEmpty ==
  ASSUME Empty, system' \in [devs : Seq(Device), buses : Seq(Bus)],
         UNCHANGED <<phase, devs, buses, mode, roots, stack, y, blocks, saved>>
  PROVE  Empty' /\ Typed'
<1>1. Empty'
  BY DEF Empty
<1>2. QED
  BY <1>1, DotsAssumption DEF Empty, Typed, Elems, Spots

\* What the steps before Populate do to the variables of the layout.
LEMMA BeforeRun ==
  ASSUME StartTyped, [ProgramNext]_program
  PROVE  \/ stage = "run" /\ [Next]_vars /\ UNCHANGED start
         \/ UNCHANGED program
         \/ /\ stage # "run"
            /\ UNCHANGED <<host, phase, devs, buses, mode, roots, stack, y, blocks, saved>>
<1>1. CASE Main
  BY <1>1 DEF Main, ParseCmdLineOptions, ParseConfig, LoggerInit, CheckPrivileges, CreateTopology, Call,
              ReadDevice, DevicesRead, ReadBus, BusesRead, ViewSnapshot, Run, vars, Next
<1>2. CASE \E m \in Modes : Run(SwitchDrawingMode(m))
  BY <1>2 DEF Run, Next
<1>3. CASE \E i \in DOMAIN host.devs : Unplug(i)
  BY <1>3 DEF Unplug, vars
<1>4. QED
  BY <1>1, <1>2, <1>3 DEF ProgramNext

\* One more entry of a directory has been looked at.
LEMMA OneEntryOn ==
  ASSUME StartTyped, at \in DOMAIN host.devs \/ at \in DOMAIN host.buses
  PROVE  at + 1 \in 1 .. Len(host.devs) + Len(host.buses) + 1
<1> DEFINE m == Len(host.devs)
           n == Len(host.buses)
<1>1. m \in Nat /\ n \in Nat /\ (at \in 1..m \/ at \in 1..n)
  BY HostTyped
<1> HIDE DEF m, n
<1>2. at + 1 \in 1 .. m + n + 1
  BY <1>1
<1>3. QED
  BY <1>2 DEF m, n

LEMMA StartTypedStep ==
  ASSUME StartTyped, [ProgramNext]_program
  PROVE  StartTyped'
<1> DEFINE R == DOMAIN host.devs
           B == DOMAIN host.buses
           Places == 1 .. Len(host.devs) + Len(host.buses) + 1
<1>1. /\ host \in Hosts /\ stage \in Stages /\ gone \subseteq R /\ goneBuses \subseteq B
      /\ at \in Places /\ read \in Seq(R) /\ readBuses \in Seq(B) /\ Typed
      /\ stage # "run" => Empty
  BY DEF StartTyped
<1>2. CASE UNCHANGED program
  <2>1. Typed' /\ (stage' # "run" => Empty')
    <3>1. UNCHANGED vars
      BY <1>2 DEF program
    <3>2. UNCHANGED <<phase, devs, buses, mode, roots, stack, y, blocks, saved, stage>>
      BY <1>2 DEF program, vars
    <3>3. QED
      BY <1>1, <3>1, <3>2, StepTyped DEF Empty
  <2>2. UNCHANGED start
    BY <1>2 DEF program, start
  <2>3. QED
    BY <1>1, <2>1, <2>2 DEF StartTyped, start
<1>3. CASE stage = "run" /\ [Next]_vars /\ UNCHANGED start
  <2>1. Typed'
    BY <1>1, <1>3, StepTyped
  <2>2. QED
    BY <1>1, <1>3, <2>1 DEF StartTyped, start
<1>4. CASE /\ stage # "run"
           /\ UNCHANGED <<host, phase, devs, buses, mode, roots, stack, y, blocks, saved>>
  <2>1. Empty /\ system \in [devs : Seq(Device), buses : Seq(Bus)]
    BY <1>1, <1>4 DEF Typed
  <2> DEFINE Kept == /\ stage' \in Stages /\ gone' \subseteq R /\ goneBuses' \subseteq B
                     /\ at' \in Places /\ read' \in Seq(R) /\ readBuses' \in Seq(B)
                     /\ system' \in [devs : Seq(Device), buses : Seq(Bus)]
  <2>2. ASSUME Kept PROVE StartTyped'
    <3>1. Empty' /\ Typed'
      BY <1>4, <2>1, <2>2, StillEmpty
    <3>2. host' = host
      BY <1>4
    <3>3. QED
      BY <1>1, <2>2, <3>1, <3>2 DEF StartTyped
  <2>3. ASSUME NEW bs \in Seq(B), Provided(bs),
               UNCHANGED <<gone, goneBuses, read>>, readBuses' \in Seq(B)
        PROVE  Kept
    <3>1. system' \in [devs : Seq(Device), buses : Seq(Bus)]
      BY <2>3, ProvidedTyped DEF Provided
    <3>2. stage' \in Stages /\ at' = at
      BY <2>3 DEF Provided, Stages
    <3>3. QED
      BY <1>1, <2>3, <3>1, <3>2
  <2>4. ASSUME NEW from, NEW succeeds, NEW to \in Stages, Call(from, succeeds, to)
        PROVE  Kept
    <3>1. stage' \in Stages
      BY <2>4 DEF Call, Stages
    <3>2. UNCHANGED <<gone, goneBuses, at, read, readBuses, system>>
      BY <2>4 DEF Call, vars
    <3>3. QED
      BY <1>1, <2>1, <3>1, <3>2
  <2>5. ASSUME ParseCmdLineOptions \/ ParseConfig \/ LoggerInit \/ CheckPrivileges \/ CreateTopology
        PROVE  Kept
    <3> HIDE DEF Kept
    <3>1. "config" \in Stages /\ "log" \in Stages /\ "privileges" \in Stages /\ "ids" \in Stages
          /\ (IF Chosen = "view" THEN "view" ELSE "devices") \in Stages
      BY DEF Stages
    <3>2. CASE ParseCmdLineOptions
      BY <2>4, <3>1, <3>2 DEF ParseCmdLineOptions
    <3>3. CASE ParseConfig
      BY <2>4, <3>1, <3>3 DEF ParseConfig
    <3>4. CASE LoggerInit
      BY <2>4, <3>1, <3>4 DEF LoggerInit
    <3>5. CASE CheckPrivileges
      BY <2>4, <3>1, <3>5 DEF CheckPrivileges
    <3>6. CASE CreateTopology
      BY <2>4, <3>1, <3>6 DEF CreateTopology
    <3>7. QED
      BY <2>5, <3>2, <3>3, <3>4, <3>5, <3>6
  <2>6. ASSUME ReadDevice PROVE Kept
    <3>1. at \in R /\ UNCHANGED <<gone, goneBuses, readBuses, system>>
      BY <2>6 DEF ReadDevice, PassOver
    <3>2. at + 1 \in Places
      BY <3>1, OneEntryOn
    <3>3. at' \in {at, at + 1} /\ read' \in {read, Append(read, at)} /\ stage' \in {stage, "failed"}
      BY <2>6 DEF ReadDevice, PassOver
    <3>4. Append(read, at) \in Seq(R)
      BY <1>1, <3>1
    <3>5. "failed" \in Stages
      BY DEF Stages
    <3> HIDE DEF R, B, Places
    <3>6. QED
      BY <1>1, <2>1, <3>1, <3>2, <3>3, <3>4, <3>5
  <2>7. ASSUME DevicesRead PROVE Kept
    <3>1. UNCHANGED <<gone, goneBuses, read, readBuses, system>> /\ at' = 1 /\ stage' = "buses"
      BY <2>7 DEF DevicesRead, vars
    <3>2. 1 \in Places /\ "buses" \in Stages
      <4>1. \A m, n \in Nat : 1 \in 1 .. m + n + 1
        OBVIOUS
      <4>2. QED
        BY <4>1, HostTyped DEF Stages
    <3>3. QED
      BY <1>1, <2>1, <3>1, <3>2
  <2>8. ASSUME ReadBus PROVE Kept
    <3>1. at \in B /\ UNCHANGED <<gone, goneBuses, read>>
      BY <2>8 DEF ReadBus
    <3>2. at + 1 \in Places
      BY <3>1, OneEntryOn
    <3>3. Append(readBuses, at) \in Seq(B) /\ << >> \in Seq(B)
      BY <1>1, <3>1
    <3>4. "failed" \in Stages
      BY DEF Stages
    <3>5. CASE readBuses' = << >> /\ Provided(readBuses')
      BY <2>3, <3>1, <3>3, <3>5
    <3>6. CASE /\ at' \in {at, at + 1} /\ readBuses' \in {readBuses, Append(readBuses, at)}
               /\ stage' \in {stage, "failed"} /\ system' = system
      <4> HIDE DEF R, B, Places
      <4>1. QED
        BY <1>1, <2>1, <3>1, <3>2, <3>3, <3>4, <3>6
    <3>7. QED
      BY <2>8, <3>5, <3>6 DEF ReadBus, PassOver
  <2>9. ASSUME BusesRead PROVE Kept
    <3>1. Provided(readBuses) /\ UNCHANGED <<gone, goneBuses, read, readBuses>>
      BY <2>9 DEF BusesRead
    <3>2. QED
      BY <1>1, <2>3, <3>1
  <2>10. ASSUME ViewSnapshot PROVE Kept
    <3>1. UNCHANGED <<gone, goneBuses, at, read, readBuses>> /\ stage' \in {"run", "failed"}
          /\ (system' = system \/ system' \in host.file)
      BY <2>10 DEF ViewSnapshot
    <3>2. system' \in [devs : Seq(Device), buses : Seq(Bus)]
      BY <2>1, <3>1, HostTyped, SystemsAssumption
    <3>3. "run" \in Stages /\ "failed" \in Stages
      BY DEF Stages
    <3>4. QED
      BY <1>1, <3>1, <3>2, <3>3
  <2>11. ASSUME NEW i \in DOMAIN host.devs, Unplug(i) PROVE Kept
    <3>1. UNCHANGED <<stage, at, read, readBuses, system>> /\ gone' = gone \cup {i}
      BY <2>11 DEF Unplug, vars
    <3>2. goneBuses' \subseteq B
      BY <1>1, <2>11 DEF Unplug
    <3>3. QED
      BY <1>1, <2>1, <3>1, <3>2
  <2> HIDE DEF Kept
  <2>12. CASE Main
    <3>1. ~Run(Populate) /\ ~Run(Layout)
      BY <1>4 DEF Run
    <3>2. QED
      BY <2>2, <2>5, <2>6, <2>7, <2>8, <2>9, <2>10, <2>12, <3>1 DEF Main
  <2>13. CASE \E i \in DOMAIN host.devs : Unplug(i)
    BY <2>2, <2>11, <2>13
  <2>14. CASE UNCHANGED program
    BY <1>2, <2>14
  <2>15. ~ \E m \in Modes : Run(SwitchDrawingMode(m))
    BY <1>4 DEF Run
  <2>16. QED
    BY <2>12, <2>13, <2>14, <2>15 DEF ProgramNext
<1>5. QED
  BY <1>2, <1>3, <1>4, BeforeRun

LEMMA StartTypedInit == Startup => StartTyped
<1>1. SUFFICES ASSUME Startup PROVE StartTyped
  OBVIOUS
<1>2. Empty /\ host \in Hosts /\ stage \in Stages
  BY <1>1 DEF Startup, Empty, Stages
<1>3. system \in [devs : Seq(Device), buses : Seq(Bus)]
  BY <1>1 DEF Startup
<1>4. Typed
  BY <1>2, <1>3, EmptyIsTyped
<1>5. host \in Host
  BY <1>2, HostsAssumption
<1>6. Len(host.devs) \in Nat /\ Len(host.buses) \in Nat
  BY <1>5 DEF Host
<1>7. at \in 1 .. Len(host.devs) + Len(host.buses) + 1
  <2>1. \A m, n \in Nat : 1 \in 1 .. m + n + 1
    OBVIOUS
  <2>2. at = 1
    BY <1>1 DEF Startup
  <2>3. QED
    BY <1>6, <2>1, <2>2
<1>8. read \in Seq(DOMAIN host.devs) /\ readBuses \in Seq(DOMAIN host.buses)
  BY <1>1 DEF Startup
<1>9. gone \subseteq DOMAIN host.devs /\ goneBuses \subseteq DOMAIN host.buses
  BY <1>1 DEF Startup
<1>10. QED
  BY <1>2, <1>4, <1>7, <1>8, <1>9 DEF StartTyped

LEMMA StartTypedIsTypesOK == StartTyped => TypesOK
<1>1. SUFFICES ASSUME StartTyped PROVE TypesOK
  OBVIOUS
<1>2. read \in Seq(DOMAIN host.devs) /\ readBuses \in Seq(DOMAIN host.buses)
  BY <1>1 DEF StartTyped
<1>3. Elems(read) \subseteq DOMAIN host.devs /\ Elems(readBuses) \subseteq DOMAIN host.buses
  BY <1>2 DEF Elems
<1>4. QED
  BY <1>1, <1>3, TypedIsTypeOK DEF StartTyped, TypesOK

\* However the program is started and whatever is unplugged during the scan, the
\* variables of main, of SysfsProvider and of the layout have the values they can have.
THEOREM StartTypeCorrectness == Program => []TypesOK
<1>1. StartTyped /\ [ProgramNext]_program => StartTyped'
  BY StartTypedStep
<1>2. QED
  BY <1>1, StartTypedInit, StartTypedIsTypesOK, PTL DEF Program

\* The invariant of the layout, and that of its order, from the start of the program.
LEMMA LayoutStays ==
  ASSUME StartTyped, LayoutInv, [ProgramNext]_program
  PROVE  LayoutInv'
<1>1. Typed /\ (stage # "run" => phase = "populate")
  BY DEF StartTyped, Empty
<1>2. CASE [Next]_vars
  BY <1>1, <1>2, StepLaysOut
<1>3. CASE UNCHANGED program
  BY <1>2, <1>3 DEF program
<1>4. CASE stage # "run" /\ phase' = phase
  BY <1>1, <1>4 DEF LayoutInv
<1>5. QED
  BY <1>2, <1>3, <1>4, BeforeRun

LEMMA OrderStaysRight ==
  ASSUME StartTyped, LayoutInv, OrderInv, [ProgramNext]_program
  PROVE  OrderInv'
<1>1. Typed /\ (stage # "run" => phase = "populate")
  BY DEF StartTyped, Empty
<1>2. CASE [Next]_vars
  BY <1>1, <1>2, StepInOrder
<1>3. CASE UNCHANGED program
  BY <1>2, <1>3 DEF program
<1>4. CASE stage # "run" /\ phase' = phase
  BY <1>1, <1>4 DEF OrderInv
<1>5. QED
  BY <1>2, <1>3, <1>4, BeforeRun

\* The tree of a program that has started is right for a system the kernel enumerates:
\* no device twice, all that the root buses lead to, in the order of the tree, and, unless
\* the estimate of the height wraps, all of it on the canvas and in the map.
THEOREM StartedLayoutCorrectness ==
  Program => [](Enumerated(system) => NoBlockTwice /\ LayoutComplete /\ TreeOrder /\ FitsCanvas)
<1>1. Startup => LayoutInv /\ OrderInv
  BY DEF Startup, LayoutInv, OrderInv
<1>2. StartTyped /\ LayoutInv /\ OrderInv /\ [ProgramNext]_program => LayoutInv' /\ OrderInv'
  BY LayoutStays, OrderStaysRight
<1>3. StartTyped /\ LayoutInv /\ OrderInv =>
        (Enumerated(system) => NoBlockTwice /\ LayoutComplete /\ TreeOrder /\ FitsCanvas)
  BY InvariantSuffices DEF StartTyped
<1>4. StartTyped /\ [ProgramNext]_program => StartTyped'
  BY StartTypedStep
<1>5. QED
  BY <1>1, <1>2, <1>3, <1>4, StartTypedInit, PTL DEF Program

-----------------------------------------------------------------------------
(***************************************************************************)
(* The recursion and the scan come to an end.                              *)
(***************************************************************************)

LEMMA BusesFinite ==
  ASSUME Typed
  PROVE  IsFiniteSet(KnownBuses) /\ Cardinality(KnownBuses) \in Nat
<1> DEFINE C == Elems(system.buses)
           f == [b \in C |-> b.bus]
<1>1. IsFiniteSet(C)
  BY ListFinite DEF Typed
<1> HIDE DEF C
<1>2. f \in Surjection(C, {b.bus : b \in C})
  BY Fun_IsSurj
<1>3. IsFiniteSet({b.bus : b \in C})
  BY <1>1, <1>2, FS_Surjection
<1>4. QED
  BY <1>3, FS_CardinalityType DEF KnownBuses, C

\* A bus or a device fewer is two steps fewer, an activation more is one more.
LEMMA OneForTwo ==
  ASSUME NEW r \in Nat, NEW d \in Nat, NEW b \in Nat, NEW k \in Nat, NEW l \in Nat, l <= k + 1,
         NEW left, left = 2 * (r + d - b) + k + 1,
         NEW left2,
         \/ b <= d /\ r - 1 \in Nat /\ left2 = 2 * (r - 1 + d - b) + l + 1
         \/ b + 1 <= d /\ left2 = 2 * (r + d - (b + 1)) + l + 1
  PROVE  left2 \in 0..(left - 1)
<1>1. /\ 2 * (r - 1 + d - b) = 2 * (r + d - b) - 2
      /\ 2 * (r + d - (b + 1)) = 2 * (r + d - b) - 2
  OBVIOUS
<1>2. left2 = 2 * (r + d - b) - 2 + l + 1
  BY <1>1
<1>3. r + d - b >= 1
  OBVIOUS
<1>4. QED
  BY <1>2, <1>3

\* Each turn of a loop, each call and each return of the layout leaves less to do.
LEMMA LayoutComesNearer ==
  ASSUME Typed, Enumerated(system), LaidOut, Layout, Typed', LaidOut'
  PROVE  LayoutLeft' \in 0..(LayoutLeft - 1)
<1> DEFINE r == Cardinality(roots)
           d == Len(devs)
           b == Len(blocks)
           k == Len(stack)
<1>1. phase = "layout" /\ phase' \in {"layout", "done", "crashed"} /\ devs' = devs
  BY DEF Layout, NextBus, PlaceDevice, Return, FinishLayout
<1>2. IsFiniteSet(roots) /\ r \in Nat /\ d \in Nat /\ b \in Nat /\ k \in Nat
  <2>1. roots \subseteq KnownBuses
    BY DEF Typed, LaidOut, BusesRight
  <2>2. IsFiniteSet(roots) /\ Cardinality(roots) \in Nat
    BY <2>1, BusesFinite, FS_Subset, FS_CardinalityType
  <2>3. QED
    BY <2>2 DEF Typed
<1>3. /\ LayoutLeft = 2 * (r + d - b) + k + 1
      /\ LayoutLeft' = 2 * (r' + d' - b') + k' + (IF phase' = "layout" THEN 1 ELSE 0)
  BY <1>1 DEF LayoutLeft
<1>4. b' \in Nat /\ k' \in Nat /\ b' <= d
  <2>1. /\ devs \in Seq(Device) /\ blocks' \in Seq(Blocks') /\ stack' \in Seq(Frames')
        /\ \A e \in Blocks' : e.dev \in Elems(devs)
    BY <1>1 DEF Typed, Blocks, Elems
  <2>2. \A i, j \in DOMAIN blocks' : i # j => blocks'[i].dev # blocks'[j].dev
    BY DEF LaidOut, NoBlockTwice
  <2>3. b' <= d
    BY <2>1, <2>2, NoMoreBlocks
  <2>4. QED
    BY <2>1, <2>3
<1>5. d' = d
  BY <1>1
<1>6. CASE NextBus
  <2>1. PICK nr \in roots \cap KnownBuses :
          /\ roots' = roots \ {nr} /\ blocks' = blocks /\ stack = << >>
          /\ stack' = <<[bus |-> nr, placed |-> 0]>> \/ stack' = stack
    BY <1>6, NextBusOpens
  <2>2. r' = r - 1 /\ r' \in Nat
    <3>1. Cardinality(roots \ {nr}) = Cardinality(roots) - 1
      BY <1>2, <2>1, FS_RemoveElement
    <3>2. IsFiniteSet(roots \ {nr})
      BY <1>2, FS_Subset
    <3>3. QED
      BY <2>1, <3>1, <3>2, FS_CardinalityType
  <2>3. b' = b /\ phase' = "layout"
    BY <1>1, <1>6, <2>1 DEF NextBus
  <2>4. k' <= k + 1
    <3>1. CASE stack' = stack
      BY <1>2, <3>1
    <3>2. CASE stack' = <<[bus |-> nr, placed |-> 0]>>
      <4>1. k' = 1
        BY <3>2
      <4>2. QED
        BY <1>2, <4>1
    <3>3. QED
      BY <2>1, <3>1, <3>2
  <2> HIDE DEF r, d, b, k
  <2>5. LayoutLeft' = 2 * (r - 1 + d - b) + k' + 1
    BY <1>3, <1>5, <2>2, <2>3
  <2>6. LayoutLeft = 2 * (r + d - b) + k + 1
    BY <1>3
  <2>7. b <= d /\ r - 1 \in Nat /\ k' \in Nat
    BY <1>4, <2>2, <2>3
  <2>8. QED
    BY <1>2, <2>4, <2>5, <2>6, <2>7, OneForTwo
<1>7. CASE PlaceDevice
  <2>1. PICK a : blocks' = Append(blocks, a)
    BY <1>7, PlaceDeviceOpens
  <2>2. b' = b + 1
    BY <2>1 DEF Typed
  <2>3. r' = r /\ phase' = "layout"
    BY <1>1, <1>7 DEF PlaceDevice
  <2>4. k' <= k + 1
    <3>1. stack \in Seq(Frames) /\ stack # << >>
      BY <1>7 DEF Typed, PlaceDevice
    <3> DEFINE rest == SubSeq(stack, 1, Len(stack) - 1)
               g == buses[top.bus].devs[top.placed + 1]
    <3>2. rest \in Seq(Frames) /\ Len(rest) = k - 1
      BY <3>1, WithoutTop
    <3>3. stack' = rest \o Descend(top, g)
      BY <1>7 DEF PlaceDevice
    <3>4. \/ \E e : Descend(top, g) = <<e>>
          \/ \E e, f : Descend(top, g) = <<e, f>>
      BY DEF Descend
    <3> HIDE DEF rest, g
    <3>5. CASE \E e : Descend(top, g) = <<e>>
      <4>1. PICK e : stack' = rest \o <<e>>
        BY <3>3, <3>5
      <4>2. Len(rest \o <<e>>) = Len(rest) + 1
        BY <3>2
      <4>3. QED
        BY <1>2, <3>2, <4>1, <4>2
    <3>6. CASE \E e, f : Descend(top, g) = <<e, f>>
      <4>1. PICK e, f : stack' = rest \o <<e, f>>
        BY <3>3, <3>6
      <4>2. Len(rest \o <<e, f>>) = Len(rest) + 2
        BY <3>2
      <4>3. QED
        BY <1>2, <3>2, <4>1, <4>2
    <3>7. QED
      BY <3>4, <3>5, <3>6
  <2> HIDE DEF r, d, b, k
  <2>5. LayoutLeft' = 2 * (r + d - (b + 1)) + k' + 1
    BY <1>3, <1>5, <2>2, <2>3
  <2>6. LayoutLeft = 2 * (r + d - b) + k + 1
    BY <1>3
  <2>7. b + 1 <= d /\ k' \in Nat
    BY <1>4, <2>2
  <2>8. \/ b <= d /\ r - 1 \in Nat /\ LayoutLeft' = 2 * (r - 1 + d - b) + k' + 1
        \/ b + 1 <= d /\ LayoutLeft' = 2 * (r + d - (b + 1)) + k' + 1
    BY <2>5, <2>7
  <2>9. QED
    BY <1>2, <2>4, <2>6, <2>7, <2>8, OneForTwo
<1>8. CASE Return
  <2>1. stack \in Seq(Frames) /\ stack # << >>
    BY <1>8 DEF Typed, Return
  <2>2. k' = k - 1
    BY <1>8, <2>1, WithoutTop DEF Return
  <2>3. r' = r /\ b' = b /\ phase' = "layout"
    BY <1>1, <1>8 DEF Return
  <2> HIDE DEF r, d, b, k
  <2>4. QED
    BY <1>2, <1>3, <1>4, <1>5, <2>2, <2>3
<1>9. CASE FinishLayout
  <2>1. r' = r /\ b' = b /\ k' = k /\ phase' # "layout"
    BY <1>9 DEF FinishLayout
  <2> HIDE DEF r, d, b, k
  <2>2. QED
    BY <1>2, <1>3, <1>4, <1>5, <2>1
<1>10. QED
  BY <1>6, <1>7, <1>8, <1>9 DEF Layout

\* Populate leaves a layout to be made, or nothing.
LEMMA PopulateComesNearer ==
  ASSUME Typed, Enumerated(system), Populate
  PROVE  LayoutLeft' \in 0..(LayoutLeft - 1)
<1> DEFINE r == Cardinality(KnownBuses)
           d == Len(system.devs)
<1>1. r \in Nat /\ d \in Nat
  BY BusesFinite DEF Typed
<1>2. LayoutLeft = 2 * (r + d) + 2
  BY DEF Populate, LayoutLeft
<1>3. Len(devs') = d
  BY SortedList DEF Populate, Typed, Enumerated
<1>4. Empty
  BY DEF Populate, Typed
<1>5. CASE phase' = "failed"
  <2>1. roots' = {} /\ blocks' = << >> /\ stack' = << >>
    BY <1>4, <1>5 DEF Populate, StartLayout, Empty
  <2>2. Cardinality(roots') = 0
    BY <2>1, FS_EmptySet
  <2>3. LayoutLeft' = 2 * (0 + d - 0) + 0 + 0
    BY <1>3, <1>5, <2>1, <2>2 DEF LayoutLeft
  <2> HIDE DEF r, d
  <2>4. QED
    BY <1>1, <1>2, <2>3
<1>6. CASE phase' # "failed"
  <2>1. phase' = "layout" /\ roots' = DOMAIN buses' /\ blocks' = << >> /\ stack' = << >>
    BY <1>6 DEF Populate, StartLayout
  <2>2. DOMAIN buses' = KnownBuses
    BY <1>6 DEF Populate, Populated, KnownBuses
  <2>3. LayoutLeft' = 2 * (r + d - 0) + 0 + 1
    BY <1>3, <2>1, <2>2 DEF LayoutLeft
  <2> HIDE DEF r, d
  <2>4. QED
    BY <1>1, <1>2, <2>3
<1>7. QED
  BY <1>5, <1>6

\* Where the scan is in its directory.
AtRight ==
  /\ stage = "devices" => at <= Len(host.devs) + 1
  /\ stage = "buses" => at <= Len(host.buses) + 1
  /\ stage \in {"options", "config", "log", "privileges", "ids"} => at = 1

\* The entries of the directories are numbered.
LEMMA EntriesCounted ==
  ASSUME StartTyped
  PROVE  /\ Len(host.devs) \in Nat /\ Len(host.buses) \in Nat /\ at \in Nat \ {0}
         /\ at \in DOMAIN host.devs <=> at <= Len(host.devs)
         /\ at \in DOMAIN host.buses <=> at <= Len(host.buses)
<1> DEFINE m == Len(host.devs)
           n == Len(host.buses)
<1>1. m \in Nat /\ n \in Nat /\ DOMAIN host.devs = 1..m /\ DOMAIN host.buses = 1..n
  BY HostTyped
<1>2. at \in 1..(m + n + 1)
  BY DEF StartTyped
<1> HIDE DEF m, n
<1>3. at \in Nat \ {0}
  BY <1>1, <1>2
<1>4. QED
  BY <1>1, <1>3 DEF m, n

\* Each call of main's, and each entry, leaves less to do before Populate.
LEMMA StartComesNearer ==
  ASSUME StartTyped, AtRight, stage # "run", Main
  PROVE  StepsToRun' \in 0..(StepsToRun - 1) /\ AtRight'
<1> DEFINE m == Len(host.devs)
           n == Len(host.buses)
<1>1. /\ m \in Nat /\ n \in Nat /\ at \in Nat \ {0}
      /\ at \in DOMAIN host.devs <=> at <= m
      /\ at \in DOMAIN host.buses <=> at <= n
  BY EntriesCounted
<1>2. host' = host
  BY DEF Main, ParseCmdLineOptions, ParseConfig, LoggerInit, CheckPrivileges, CreateTopology, Call,
         ReadDevice, DevicesRead, ReadBus, BusesRead, ViewSnapshot, Run
<1>3. /\ stage = "options" => StepsToRun = m + n + 7
      /\ stage = "config" => StepsToRun = m + n + 6
      /\ stage = "log" => StepsToRun = m + n + 5
      /\ stage = "privileges" => StepsToRun = m + n + 4
      /\ stage = "ids" => StepsToRun = m + n + 3
      /\ stage = "devices" => StepsToRun = m + n + 3 - at
      /\ stage = "buses" => StepsToRun = n + 2 - at
      /\ stage = "view" => StepsToRun = 1
  BY DEF StepsToRun
<1>4. /\ stage' = "config" => StepsToRun' = m + n + 6
      /\ stage' = "log" => StepsToRun' = m + n + 5
      /\ stage' = "privileges" => StepsToRun' = m + n + 4
      /\ stage' = "ids" => StepsToRun' = m + n + 3
      /\ stage' = "devices" => StepsToRun' = m + n + 3 - at'
      /\ stage' = "buses" => StepsToRun' = n + 2 - at'
      /\ stage' = "view" => StepsToRun' = 1
      /\ stage' \in {"run", "saved", "failed"} => StepsToRun' = 0
  BY <1>2 DEF StepsToRun
<1> HIDE DEF m, n
<1> DEFINE Nearer == StepsToRun' \in 0..(StepsToRun - 1) /\ AtRight'
<1>5. AtRight' <=> /\ stage' = "devices" => at' <= m + 1
                   /\ stage' = "buses" => at' <= n + 1
                   /\ stage' \in {"options", "config", "log", "privileges", "ids"} => at' = 1
  BY <1>2 DEF AtRight, m, n
<1>6. CASE ParseCmdLineOptions
  <2>1. stage = "options" /\ stage' \in {"config", "failed"} /\ at' = at
    BY <1>6 DEF ParseCmdLineOptions, Call
  <2>2. QED
    BY <1>1, <1>3, <1>4, <1>5, <2>1 DEF AtRight
<1>7. CASE ParseConfig
  <2>1. stage = "config" /\ stage' \in {"log", "failed"} /\ at' = at
    BY <1>7 DEF ParseConfig, Call
  <2>2. QED
    BY <1>1, <1>3, <1>4, <1>5, <2>1 DEF AtRight
<1>8. CASE LoggerInit
  <2>1. stage = "log" /\ stage' \in {"privileges", "failed"} /\ at' = at
    BY <1>8 DEF LoggerInit, Call
  <2>2. QED
    BY <1>1, <1>3, <1>4, <1>5, <2>1 DEF AtRight
<1>9. CASE CheckPrivileges
  <2>1. stage = "privileges" /\ stage' \in {"ids", "failed"} /\ at' = at
    BY <1>9 DEF CheckPrivileges, Call
  <2>2. QED
    BY <1>1, <1>3, <1>4, <1>5, <2>1 DEF AtRight
<1>10. CASE CreateTopology
  <2>1. stage = "ids" /\ stage' \in {"view", "devices", "failed"} /\ at' = at
    BY <1>10 DEF CreateTopology, Call
  <2>2. at = 1
    BY <2>1 DEF AtRight
  <2>3. QED
    BY <1>1, <1>3, <1>4, <1>5, <2>1, <2>2
<1>11. CASE ReadDevice
  <2>1. /\ stage = "devices" /\ at <= m
        /\ \/ stage' = stage /\ at' = at + 1
           \/ stage' = "failed" /\ at' = at
    BY <1>1, <1>11 DEF ReadDevice, PassOver
  <2>2. QED
    BY <1>1, <1>3, <1>4, <1>5, <2>1
<1>12. CASE DevicesRead
  <2>1. stage = "devices" /\ ~(at <= m) /\ stage' = "buses" /\ at' = 1
    BY <1>1, <1>12 DEF DevicesRead
  <2>2. at = m + 1
    BY <1>1, <2>1 DEF AtRight, m
  <2>3. QED
    BY <1>1, <1>3, <1>4, <1>5, <2>1, <2>2
<1>13. CASE ReadBus
  <2>1. /\ stage = "buses" /\ at <= n
        /\ \/ stage' = stage /\ at' = at + 1
           \/ stage' \in {"run", "saved", "failed"} /\ at' = at
    BY <1>1, <1>13 DEF ReadBus, PassOver, Provided
  <2>2. QED
    BY <1>1, <1>3, <1>4, <1>5, <2>1
<1>14. CASE BusesRead
  <2>1. stage = "buses" /\ stage' \in {"run", "saved"} /\ at <= n + 1
    BY <1>14 DEF BusesRead, Provided, AtRight, n
  <2>2. QED
    BY <1>1, <1>3, <1>4, <1>5, <2>1
<1>15. CASE ViewSnapshot
  <2>1. stage = "view" /\ stage' \in {"run", "failed"}
    BY <1>15 DEF ViewSnapshot
  <2>2. QED
    BY <1>1, <1>3, <1>4, <1>5, <2>1
<1>16. ~Run(Populate) /\ ~Run(Layout)
  BY DEF Run
<1>17. QED
  BY <1>6, <1>7, <1>8, <1>9, <1>10, <1>11, <1>12, <1>13, <1>14, <1>15, <1>16 DEF Main

\* The scan stays in its directory.
LEMMA AtRightStep ==
  ASSUME StartTyped, AtRight, [ProgramNext]_program
  PROVE  AtRight'
<1>1. CASE stage # "run" /\ Main
  BY <1>1, StartComesNearer
<1>2. CASE stage = "run" /\ UNCHANGED start
  BY <1>2 DEF start, AtRight
<1>3. CASE UNCHANGED <<host, stage, at>>
  BY <1>3 DEF AtRight
<1>4. CASE stage = "run" /\ Main
  BY <1>2, <1>4 DEF Main, ParseCmdLineOptions, ParseConfig, LoggerInit, CheckPrivileges,
       CreateTopology, Call, ReadDevice, DevicesRead, ReadBus, BusesRead, ViewSnapshot, Run
<1>5. QED
  BY <1>1, <1>2, <1>3, <1>4 DEF ProgramNext, Run, Unplug, program

\* Populate and the layout, of a machine as it is enumerated.
LEMMA RunComesNearer ==
  ASSUME Typed, LayoutInv, Typed', LayoutInv', stage = "run", Main, Enumerated(system)
  PROVE  StepsToRun' = StepsToRun /\ LayoutLeft' \in 0..(LayoutLeft - 1)
<1>1. Run(Populate) \/ Run(Layout)
  BY DEF Main, ParseCmdLineOptions, ParseConfig, LoggerInit, CheckPrivileges, CreateTopology,
         Call, ReadDevice, DevicesRead, ReadBus, BusesRead, ViewSnapshot
<1>2. StepsToRun' = StepsToRun
  BY <1>1 DEF Run, start, StepsToRun
<1>3. CASE Run(Populate)
  BY <1>2, <1>3, PopulateComesNearer DEF Run
<1>4. CASE Run(Layout)
  <2>1. phase = "layout" /\ phase' \in {"layout", "done", "crashed"} /\ system' = system
    BY <1>4 DEF Run, Layout, NextBus, PlaceDevice, Return, FinishLayout
  <2>2. LaidOut /\ LaidOut'
    BY <2>1 DEF LayoutInv
  <2>3. QED
    BY <1>2, <1>4, <2>2, LayoutComesNearer DEF Run
<1>5. QED
  BY <1>1, <1>3, <1>4

\* No scan is endless, and of a machine as it is enumerated no layout: the recursion of
\* AddBusDevices has a bound, whatever the tree of buses.
THEOREM ProgramComesNearer == Program => ComesNearer
<1>1. Startup => LayoutInv /\ AtRight
  BY DEF Startup, LayoutInv, AtRight
<1>2. StartTyped /\ LayoutInv /\ [ProgramNext]_program => LayoutInv'
  BY LayoutStays
<1>3. StartTyped /\ AtRight /\ [ProgramNext]_program => AtRight'
  BY AtRightStep
<1>4. StartTyped /\ [ProgramNext]_program => StartTyped'
  BY StartTypedStep
<1>5. StartTyped /\ LayoutInv /\ AtRight /\ StartTyped' /\ LayoutInv' =>
        (Main /\ (stage = "run" => Enumerated(system)) =>
           \/ StepsToRun' \in 0..(StepsToRun - 1)
           \/ StepsToRun' = StepsToRun /\ LayoutLeft' \in 0..(LayoutLeft - 1))
  BY StartComesNearer, RunComesNearer DEF StartTyped
<1>6. QED
  BY <1>1, <1>2, <1>3, <1>4, <1>5, StartTypedInit, PTL DEF Program, ComesNearer

\* Its parts, one for each property: AddDevice places no device twice and, unless the estimate
\* of the height wraps, never finds a block's key taken.
THEOREM DevicesPlacedOnce == Program => [](Enumerated(system) => NoBlockTwice)
<1>1. (Enumerated(system) => NoBlockTwice /\ LayoutComplete /\ TreeOrder /\ FitsCanvas)
        => (Enumerated(system) => NoBlockTwice)
  OBVIOUS
<1>2. QED
  BY <1>1, StartedLayoutCorrectness, PTL

\* AddTopologyElements ends with blocks of all devices below the root buses, and of no other:
\* with none it crashes, and, unless an estimate wraps, it crashes on nothing else, nor does
\* ReapplyHighlight after any switch of the mode.
THEOREM TreeIsComplete == Program => [](Enumerated(system) => LayoutComplete)
<1>1. (Enumerated(system) => NoBlockTwice /\ LayoutComplete /\ TreeOrder /\ FitsCanvas)
        => (Enumerated(system) => LayoutComplete)
  OBVIOUS
<1>2. QED
  BY <1>1, StartedLayoutCorrectness, PTL

\* AddBusDevices places what is behind a bridge right below it, and a bus by address.
THEOREM TreeIsInOrder == Program => [](Enumerated(system) => TreeOrder)
<1>1. (Enumerated(system) => NoBlockTwice /\ LayoutComplete /\ TreeOrder /\ FitsCanvas)
        => (Enumerated(system) => TreeOrder)
  OBVIOUS
<1>2. QED
  BY <1>1, StartedLayoutCorrectness, PTL

\* GetCanvasSizeEstimate is enough for what AddTopologyElements then places, unless it wraps.
THEOREM CanvasHoldsTree == Program => [](Enumerated(system) => FitsCanvas)
<1>1. (Enumerated(system) => NoBlockTwice /\ LayoutComplete /\ TreeOrder /\ FitsCanvas)
        => (Enumerated(system) => FitsCanvas)
  OBVIOUS
<1>2. QED
  BY <1>1, StartedLayoutCorrectness, PTL

-----------------------------------------------------------------------------
(***************************************************************************)
(* What is served.                                                         *)
(***************************************************************************)

\* Nothing a start that went on has left behind is missing from what it read.
DevicesComplete == DOMAIN host.devs \subseteq gone \cup Elems(read)

BusesComplete ==
  readBuses = << >> \/ DOMAIN host.buses \subseteq goneBuses \cup Elems(readBuses)

ServeInv ==
  /\ stage \notin {"options", "failed"} => Accepted
  /\ stage \in {"options", "config", "log", "privileges", "ids"} => at = 1
  /\ stage = "view" => Chosen = "view"
  /\ stage \in {"devices", "buses"} => Chosen # "view"
  /\ stage \in {"ids", "devices", "buses"} => Chosen = "view" \/ host.root
  /\ stage = "devices" => \A i \in DOMAIN host.devs : i < at => i \in gone \cup Elems(read)
  /\ stage = "buses" =>
       /\ DevicesComplete
       /\ \A i \in DOMAIN host.buses : i < at => i \in goneBuses \cup Elems(readBuses)
  /\ \A i \in Elems(read) : Readable(host.devs[i])
  /\ stage \in {"saved", "run"} =>
       IF "view" \in host.opts THEN system \in host.file
       ELSE host.root /\ DevicesComplete /\ BusesComplete

\* Of options that are accepted just one names a mode.
LEMMA OneMode ==
  ASSUME Accepted, host.opts \subseteq Options
  PROVE  Chosen \in OpModes /\ ("view" \in host.opts <=> Chosen = "view")
<1> DEFINE M == host.opts \cap OpModes
<1>1. Cardinality(M) = 1
  BY DEF Accepted
<1>2. IsFiniteSet(M)
  <2>1. IsFiniteSet(OpModes)
    <3>1. OpModes = {"live"} \cup {"capture"} \cup {"view"}
      BY DEF OpModes
    <3>2. IsFiniteSet({"live"}) /\ IsFiniteSet({"capture"}) /\ IsFiniteSet({"view"})
      BY FS_Singleton
    <3>3. QED
      BY <3>1, <3>2, FS_Union
  <2>2. M \subseteq OpModes
    OBVIOUS
  <2>3. QED
    BY <2>1, <2>2, FS_Subset
<1>3. PICK m : M = {m}
  BY <1>1, <1>2, FS_Singleton
<1>4. Chosen = m
  BY <1>3 DEF Chosen
<1>5. QED
  BY <1>3, <1>4 DEF OpModes

\* A domain below 10 is read as it is, and one below 256 as no other one below 256.
LEMMA SmallDomains ==
  ASSUME NEW dom \in Nat, DomainParses(dom)
  PROVE  /\ dom < 10 => ReadDomain(dom) % 256 = dom
         /\ dom < 256 => ReadDomain(dom) % 256 = (dom % 16) + 10 * (dom \div 16)
         /\ dom < 256 => dom % 16 \in 0..9 /\ dom \div 16 \in 0..9 /\ dom = 16 * (dom \div 16) + (dom % 16)
<1> DEFINE q == dom \div 16
           r == dom % 16
<1>1. q \in Nat /\ r \in 0..15 /\ dom = 16 * q + r
  OBVIOUS
<1>2. HexDigit(dom, 1) = r
  BY DEF HexDigit
<1>3. HexDigit(dom, 16) = q % 16
  BY DEF HexDigit
<1>4. r <= 9 /\ q % 16 <= 9
  BY <1>2, <1>3 DEF DomainParses
<1>5. ASSUME dom < 256
      PROVE  /\ q \in 0..9 /\ r \in 0..9 /\ ReadDomain(dom) = r + 10 * q /\ ReadDomain(dom) % 256 = r + 10 * q
  <2>1. dom \div 256 = 0 /\ dom \div 4096 = 0
    BY <1>5
  <2>2. HexDigit(dom, 256) = 0 /\ HexDigit(dom, 4096) = 0
    BY <2>1 DEF HexDigit
  <2>3. q < 16
    BY <1>5
  <2> HIDE DEF q, r
  <2>4. q % 16 = q
    BY <1>1, <2>3
  <2>5. q \in 0..9 /\ r \in 0..9
    BY <1>1, <1>4, <2>4
  <2>6. ReadDomain(dom) = r + 10 * q
    <3>1. ReadDomain(dom) = r + 10 * q + 100 * 0 + 1000 * 0
      BY <1>2, <1>3, <2>2, <2>4 DEF ReadDomain
    <3>2. QED
      BY <2>5, <3>1
  <2>7. (r + 10 * q) % 256 = r + 10 * q
    BY <2>5
  <2>8. QED
    BY <2>5, <2>6, <2>7
<1>6. ASSUME dom < 10 PROVE q = 0 /\ r = dom /\ dom < 256
  BY <1>6
<1>7. dom < 256 => ReadDomain(dom) % 256 = (dom % 16) + 10 * (dom \div 16)
  BY <1>5, Zenon
<1>8. dom < 256 => dom % 16 \in 0..9 /\ dom \div 16 \in 0..9 /\ dom = 16 * (dom \div 16) + (dom % 16)
  BY <1>1, <1>5, Zenon
<1> HIDE DEF q, r
<1>9. dom < 10 => ReadDomain(dom) % 256 = dom
  BY <1>1, <1>5, <1>6
<1>10. QED
  BY <1>7, <1>8, <1>9, Zenon

\* The addresses of what was read are right as far as the domains are small.
LEMMA AddressesRight ==
  ASSUME StartTyped, ServeInv
  PROVE  LET address(i) == <<Described(host.devs[i]).dom, Described(host.devs[i]).bus, host.devs[i].fn>>
         IN  /\ \A i \in Elems(read) : host.devs[i].dom < 10 =>
                  address(i) = <<host.devs[i].dom, host.devs[i].bus, host.devs[i].fn>>
             /\ \A i, j \in Elems(read) :
                  i # j /\ host.devs[i].dom < 256 /\ host.devs[j].dom < 256 => address(i) # address(j)
<1> DEFINE dom(i) == host.devs[i].dom
<1>1. \A i \in Elems(read) : i \in DOMAIN host.devs /\ dom(i) \in Nat /\ DomainParses(dom(i))
  <2>1. SUFFICES ASSUME NEW i \in Elems(read)
                 PROVE  i \in DOMAIN host.devs /\ dom(i) \in Nat /\ DomainParses(dom(i))
    OBVIOUS
  <2>2. i \in DOMAIN host.devs
    BY DEF StartTyped, Elems
  <2>3. host.devs[i] \in DeviceEntry
    BY <2>2, HostTyped
  <2>4. dom(i) \in Nat
    BY <2>3 DEF DeviceEntry
  <2>5. Readable(host.devs[i])
    BY DEF ServeInv
  <2>6. QED
    BY <2>2, <2>4, <2>5 DEF Readable
<1>2. \A i : /\ Described(host.devs[i]).dom = ReadDomain(dom(i)) % 256
             /\ Described(host.devs[i]).bus = host.devs[i].bus
  BY DEF Described
<1>3. ASSUME NEW i \in Elems(read), dom(i) < 10
      PROVE  Described(host.devs[i]).dom = dom(i)
  BY <1>1, <1>2, <1>3, SmallDomains
<1>4. ASSUME NEW i \in Elems(read), NEW j \in Elems(read), dom(i) < 256, dom(j) < 256,
             Described(host.devs[i]).dom = Described(host.devs[j]).dom
      PROVE  dom(i) = dom(j)
  <2>1. ReadDomain(dom(i)) % 256 = ReadDomain(dom(j)) % 256
    BY <1>2, <1>4
  <2> DEFINE InTens(x, a, b) == ReadDomain(x) % 256 = a + 10 * b /\ a \in 0..9 /\ b \in 0..9 /\ x = 16 * b + a
  <2>2. ASSUME NEW x \in Nat, DomainParses(x), x < 256 PROVE \E a, b : InTens(x, a, b)
    <3>1. InTens(x, x % 16, x \div 16)
      BY <2>2, SmallDomains
    <3> HIDE DEF InTens
    <3>2. QED
      BY <3>1
  <2>3. \E a, b : InTens(dom(i), a, b)
    <3> HIDE DEF InTens
    <3>1. QED
      BY <1>1, <1>4, <2>2
  <2>4. \E a, b : InTens(dom(j), a, b)
    <3> HIDE DEF InTens
    <3>1. QED
      BY <1>1, <1>4, <2>2
  <2>5. PICK a, b : InTens(dom(i), a, b)
    BY <2>3
  <2>6. PICK c, d : InTens(dom(j), c, d)
    BY <2>4
  <2>7. a + 10 * b = c + 10 * d
    BY <2>1, <2>5, <2>6
  <2>8. a = c /\ b = d
    BY <2>5, <2>6, <2>7
  <2>9. QED
    BY <2>5, <2>6, <2>8
<1>5. ASSUME NEW i \in Elems(read), NEW j \in Elems(read), i # j, dom(i) < 256, dom(j) < 256
      PROVE  <<Described(host.devs[i]).dom, Described(host.devs[i]).bus, host.devs[i].fn>> #
             <<Described(host.devs[j]).dom, Described(host.devs[j]).bus, host.devs[j].fn>>
  <2>1. SUFFICES ASSUME Described(host.devs[i]).dom = Described(host.devs[j]).dom,
                        host.devs[i].bus = host.devs[j].bus, host.devs[i].fn = host.devs[j].fn
                 PROVE  FALSE
    BY <1>2
  <2>2. dom(i) = dom(j)
    BY <1>4, <1>5, <2>1
  <2>3. host \in Hosts
    BY DEF StartTyped
  <2>4. QED
    BY <1>1, <1>5, <2>1, <2>2, <2>3, AddressesAssumption
<1>6. QED
  BY <1>2, <1>3, <1>5

LEMMA ServeInvSuffices == StartTyped /\ ServeInv => ServesRequest
<1>1. SUFFICES ASSUME StartTyped, ServeInv, stage \in {"saved", "run"}, "view" \notin host.opts
               PROVE  host.root /\ ScanRight
  BY DEF ServesRequest, ServeInv
<1>2. host.root /\ DevicesComplete /\ BusesComplete
  BY <1>1 DEF ServeInv
<1>3. /\ DOMAIN host.devs \ gone \subseteq Elems(read)
      /\ readBuses = << >> \/ DOMAIN host.buses \ goneBuses \subseteq Elems(readBuses)
  BY <1>2 DEF DevicesComplete, BusesComplete
<1>4. QED
  BY <1>1, <1>2, <1>3, AddressesRight DEF ScanRight

\* The steps up to the scan.
LEMMA ServeCalls ==
  ASSUME StartTyped, ServeInv,
         ParseCmdLineOptions \/ ParseConfig \/ LoggerInit \/ CheckPrivileges \/ CreateTopology
  PROVE  ServeInv'
<1>1. UNCHANGED <<host, gone, goneBuses, at, read, readBuses, system>>
  BY DEF ParseCmdLineOptions, ParseConfig, LoggerInit, CheckPrivileges, CreateTopology, Call, vars
<1>2. Accepted' = Accepted /\ Chosen' = Chosen
  BY <1>1 DEF Accepted, Chosen
<1>3. /\ stage \in {"options", "config", "log", "privileges", "ids"}
      /\ stage' \in {"failed", "config", "log", "privileges", "ids", "view", "devices"}
  BY DEF ParseCmdLineOptions, ParseConfig, LoggerInit, CheckPrivileges, CreateTopology, Call
<1>4. stage' # "failed" => Accepted
  BY DEF ParseCmdLineOptions, ParseConfig, LoggerInit, CheckPrivileges, CreateTopology, Call, ServeInv
<1>5. stage' \in {"ids", "devices"} => Chosen = "view" \/ host.root
  BY DEF ParseCmdLineOptions, ParseConfig, LoggerInit, CheckPrivileges, CreateTopology, Call,
         NeedsElPriv, ServeInv
<1>6. /\ stage' = "view" => Chosen = "view"
      /\ stage' = "devices" => Chosen # "view"
  BY DEF ParseCmdLineOptions, ParseConfig, LoggerInit, CheckPrivileges, CreateTopology, Call
<1>7. at = 1 /\ \A i \in Elems(read) : Readable(host.devs[i])
  BY <1>3 DEF ServeInv
<1>8. \A i \in DOMAIN host.devs : ~(i < at)
  <2>1. \A i \in DOMAIN host.devs : i \in Nat /\ i > 0
    BY HostTyped
  <2>2. QED
    BY <1>7, <2>1
<1>9. \A i \in Elems(read)' : Readable(host.devs[i])'
  BY <1>1, <1>7 DEF Readable
<1>10. QED
  BY <1>1, <1>2, <1>3, <1>4, <1>5, <1>6, <1>7, <1>8, <1>9 DEF ServeInv

\* The scan of the devices.
LEMMA ServeDevices ==
  ASSUME StartTyped, ServeInv, ReadDevice \/ DevicesRead
  PROVE  ServeInv'
<1>1. UNCHANGED <<host, gone, goneBuses, readBuses>> /\ stage = "devices"
  BY DEF ReadDevice, DevicesRead, PassOver, vars
<1>2. Accepted' = Accepted /\ Chosen' = Chosen
  BY <1>1 DEF Accepted, Chosen
<1>3. /\ Accepted /\ Chosen # "view" /\ host.root
      /\ \A i \in DOMAIN host.devs : i < at => i \in gone \cup Elems(read)
      /\ \A i \in Elems(read) : Readable(host.devs[i])
  BY <1>1 DEF ServeInv
<1>4. read \in Seq(DOMAIN host.devs) /\ DOMAIN host.devs = 1 .. Len(host.devs) /\ Len(host.devs) \in Nat
      /\ at \in Nat /\ at > 0
  <2>1. at \in 1 .. Len(host.devs) + Len(host.buses) + 1
    BY DEF StartTyped
  <2> DEFINE most == Len(host.devs) + Len(host.buses) + 1
  <2>2. most \in Nat
    <3>1. \A m, n \in Nat : m + n + 1 \in Nat
      OBVIOUS
    <3>2. QED
      BY <3>1, HostTyped
  <2>3. at \in 1..most
    BY <2>1
  <2> HIDE DEF most
  <2>4. at \in Nat /\ at > 0
    BY <2>2, <2>3
  <2>5. QED
    BY <2>4, HostTyped DEF StartTyped
<1>5. ASSUME NEW more \in Seq(DOMAIN host.devs), at \in DOMAIN host.devs, more = Append(read, at)
      PROVE  Elems(more) = Elems(read) \cup {at}
  <2>1. /\ Len(read) \in Nat /\ DOMAIN read = 1 .. Len(read) /\ DOMAIN more = 1 .. Len(read) + 1
        /\ \A i \in 1 .. Len(read) : more[i] = read[i]
        /\ more[Len(read) + 1] = at
    BY <1>4, <1>5
  <2>2. \A i \in 1 .. Len(read) + 1 : i \in 1 .. Len(read) \/ i = Len(read) + 1
    BY <2>1
  <2>3. QED
    BY <2>1, <2>2 DEF Elems
<1>6. CASE stage' = "failed" /\ UNCHANGED <<at, read>>
  BY <1>1, <1>2, <1>3, <1>6 DEF ServeInv, Readable
<1>7. CASE at \in DOMAIN host.devs /\ at' = at + 1 /\ stage' = "devices"
           /\ \/ at \in gone /\ read' = read
              \/ Readable(host.devs[at]) /\ read' = Append(read, at)
  <2>1. \/ at \in gone /\ Elems(read') = Elems(read)
        \/ Readable(host.devs[at]) /\ Elems(read') = Elems(read) \cup {at}
    <3>1. CASE at \in gone /\ read' = read
      BY <3>1
    <3>2. CASE Readable(host.devs[at]) /\ read' = Append(read, at)
      <4>1. read' \in Seq(DOMAIN host.devs)
        BY <1>4, <1>7, <3>2
      <4>2. QED
        BY <1>5, <1>7, <3>2, <4>1
    <3>3. QED
      BY <1>7, <3>1, <3>2
  <2>2. \A i \in Elems(read') : Readable(host.devs[i])
    BY <1>3, <2>1
  <2>3. Elems(read) \subseteq Elems(read') /\ at \in gone \cup Elems(read')
    BY <2>1
  <2>4. \A i \in DOMAIN host.devs : i < at + 1 => i < at \/ i = at
    <3>1. \A i \in DOMAIN host.devs : i \in Nat
      BY <1>4
    <3>2. QED
      BY <1>4, <3>1
  <2>5. \A i \in DOMAIN host.devs : i < at' => i \in gone \cup Elems(read')
    BY <1>3, <1>7, <2>3, <2>4
  <2>6. stage' # "failed" /\ stage' # "buses" /\ stage' \notin {"saved", "run", "view", "options"}
        /\ stage' \notin {"options", "config", "log", "privileges", "ids"}
    BY <1>7
  <2>7. \A i \in Elems(read)' : Readable(host.devs[i])'
    BY <1>1, <2>2 DEF Readable, Elems
  <2>8. Elems(read)' = Elems(read')
    BY DEF Elems
  <2>9. QED
    BY <1>1, <1>2, <1>3, <2>4, <2>5, <2>6, <2>7, <2>8 DEF ServeInv
<1>8. CASE at \notin DOMAIN host.devs /\ stage' = "buses" /\ at' = 1 /\ read' = read
  <2>1. \A i \in DOMAIN host.devs : i < at
    <3> DEFINE n == Len(host.devs)
    <3>1. n \in Nat /\ DOMAIN host.devs = 1..n
      BY <1>4
    <3> HIDE DEF n
    <3>2. QED
      BY <1>4, <1>8, <3>1
  <2>2. DevicesComplete'
    BY <1>1, <1>3, <1>8, <2>1 DEF DevicesComplete
  <2>3. \A i \in DOMAIN host.buses : ~(i < 1)
    <3>1. \A i \in DOMAIN host.buses : i \in Nat /\ i > 0
      BY HostTyped
    <3>2. QED
      BY <3>1
  <2>4. QED
    BY <1>1, <1>2, <1>3, <1>8, <2>2, <2>3 DEF ServeInv, Readable
<1>9. QED
  BY <1>1, <1>6, <1>7, <1>8 DEF ReadDevice, DevicesRead, PassOver, vars

\* The scan of the buses, and what both together provide.
LEMMA ServeBuses ==
  ASSUME StartTyped, ServeInv, ReadBus \/ BusesRead
  PROVE  ServeInv'
<1>1. UNCHANGED <<host, gone, goneBuses, read>> /\ stage = "buses"
  BY DEF ReadBus, BusesRead
<1>2. Accepted' = Accepted /\ Chosen' = Chosen
  BY <1>1 DEF Accepted, Chosen
<1>3. /\ Accepted /\ Chosen # "view" /\ host.root /\ DevicesComplete
      /\ \A i \in DOMAIN host.buses : i < at => i \in goneBuses \cup Elems(readBuses)
      /\ \A i \in Elems(read) : Readable(host.devs[i])
  BY <1>1 DEF ServeInv
<1>4. readBuses \in Seq(DOMAIN host.buses) /\ DOMAIN host.buses = 1 .. Len(host.buses)
      /\ Len(host.buses) \in Nat /\ at \in Nat /\ at > 0
  <2>1. at \in 1 .. Len(host.devs) + Len(host.buses) + 1
    BY DEF StartTyped
  <2> DEFINE most == Len(host.devs) + Len(host.buses) + 1
  <2>2. most \in Nat
    <3>1. \A m, n \in Nat : m + n + 1 \in Nat
      OBVIOUS
    <3>2. QED
      BY <3>1, HostTyped
  <2>3. at \in 1..most
    BY <2>1
  <2> HIDE DEF most
  <2>4. at \in Nat /\ at > 0
    BY <2>2, <2>3
  <2>5. QED
    BY <2>4, HostTyped DEF StartTyped
<1>5. DevicesComplete' /\ \A i \in Elems(read)' : Readable(host.devs[i])'
  BY <1>1, <1>3 DEF DevicesComplete, Readable
<1>6. "view" \notin host.opts
  <2>1. host.opts \subseteq Options
    BY HostsAssumption DEF StartTyped, Host
  <2>2. QED
    BY <1>3, <2>1, OneMode
<1>7. CASE stage' = "failed"
  BY <1>5, <1>7 DEF ServeInv
<1>8. CASE at \in DOMAIN host.buses /\ at' = at + 1 /\ stage' = "buses"
           /\ \/ at \in goneBuses /\ readBuses' = readBuses
              \/ readBuses' = Append(readBuses, at)
  <2>1. Elems(readBuses) \subseteq Elems(readBuses') /\ at \in goneBuses \cup Elems(readBuses')
    <3>1. CASE readBuses' = Append(readBuses, at)
      <4>1. /\ Len(readBuses) \in Nat /\ DOMAIN readBuses = 1 .. Len(readBuses)
            /\ DOMAIN readBuses' = 1 .. Len(readBuses) + 1
            /\ \A i \in 1 .. Len(readBuses) : readBuses'[i] = readBuses[i]
            /\ readBuses'[Len(readBuses) + 1] = at
        BY <1>4, <1>8, <3>1
      <4>2. /\ \A i \in 1 .. Len(readBuses) : i \in 1 .. Len(readBuses) + 1
            /\ Len(readBuses) + 1 \in 1 .. Len(readBuses) + 1
        BY <4>1
      <4>3. QED
        BY <4>1, <4>2 DEF Elems
    <3>2. QED
      BY <1>8, <3>1
  <2>2. \A i \in DOMAIN host.buses : i < at + 1 => i < at \/ i = at
    <3>1. \A i \in DOMAIN host.buses : i \in Nat
      BY <1>4
    <3>2. QED
      BY <1>4, <3>1
  <2>3. \A i \in DOMAIN host.buses : i < at' => i \in goneBuses \cup Elems(readBuses')
    BY <1>3, <1>8, <2>1, <2>2
  <2>4. Elems(readBuses)' = Elems(readBuses')
    BY DEF Elems
  <2>5. stage' # "failed" /\ stage' # "devices" /\ stage' \notin {"saved", "run"} /\ stage' # "view"
        /\ stage' \notin {"options", "config", "log", "privileges", "ids"}
    BY <1>8
  <2>6. QED
    BY <1>1, <1>2, <1>3, <1>5, <1>8, <2>3, <2>4, <2>5 DEF ServeInv
<1>9. CASE Provided(readBuses') /\ (readBuses' = << >> \/ (at \notin DOMAIN host.buses /\ readBuses' = readBuses))
  <2>1. stage' \in {"saved", "run"}
    BY <1>9 DEF Provided
  <2>2. BusesComplete'
    <3>1. CASE readBuses' = << >>
      BY <3>1 DEF BusesComplete
    <3>2. CASE at \notin DOMAIN host.buses /\ readBuses' = readBuses
      <4>1. \A i \in DOMAIN host.buses : i < at
        <5> DEFINE n == Len(host.buses)
        <5>1. n \in Nat /\ DOMAIN host.buses = 1..n
          BY <1>4
        <5> HIDE DEF n
        <5>2. QED
          BY <1>4, <3>2, <5>1
      <4>2. DOMAIN host.buses \subseteq goneBuses \cup Elems(readBuses)
        BY <1>3, <4>1
      <4>3. QED
        BY <1>1, <3>2, <4>2 DEF BusesComplete
    <3>3. QED
      BY <1>9, <3>1, <3>2
  <2>3. stage' # "failed" /\ stage' # "devices" /\ stage' # "buses" /\ stage' # "view"
        /\ stage' \notin {"options", "config", "log", "privileges", "ids"}
    BY <2>1
  <2>4. QED
    BY <1>1, <1>2, <1>3, <1>5, <1>6, <2>2, <2>3 DEF ServeInv
<1>10. QED
  BY <1>1, <1>7, <1>8, <1>9 DEF ReadBus, BusesRead, PassOver

LEMMA ServeStep ==
  ASSUME StartTyped, ServeInv, [ProgramNext]_program
  PROVE  ServeInv'
<1>1. CASE ViewSnapshot
  <2>1. /\ UNCHANGED <<host, gone, goneBuses, at, read, readBuses>> /\ stage = "view"
        /\ \/ system' \in host.file /\ stage' = "run"
           \/ stage' = "failed"
    BY <1>1 DEF ViewSnapshot
  <2>2. Accepted /\ Chosen = "view" /\ \A i \in Elems(read) : Readable(host.devs[i])
    BY <2>1 DEF ServeInv
  <2>3. Accepted' = Accepted /\ Chosen' = Chosen /\ \A i \in Elems(read)' : Readable(host.devs[i])'
    BY <2>1, <2>2 DEF Accepted, Chosen, Readable
  <2>4. "view" \in host.opts
    <3>1. host.opts \subseteq Options
      BY HostsAssumption DEF StartTyped, Host
    <3>2. QED
      BY <2>2, <3>1, OneMode
  <2>5. QED
    BY <2>1, <2>2, <2>3, <2>4 DEF ServeInv
<1>2. CASE \E i \in DOMAIN host.devs : Unplug(i)
  <2>1. /\ UNCHANGED <<host, stage, at, read, readBuses, system>> /\ stage \in {"devices", "buses"}
        /\ gone \subseteq gone' /\ goneBuses \subseteq goneBuses'
    BY <1>2 DEF Unplug, vars
  <2>2. Accepted' = Accepted /\ Chosen' = Chosen /\ \A i : Readable(host.devs[i])' = Readable(host.devs[i])
    BY <2>1 DEF Accepted, Chosen, Readable
  <2>3. DevicesComplete => DevicesComplete'
    BY <2>1 DEF DevicesComplete
  <2>4. Elems(read)' = Elems(read) /\ Elems(readBuses)' = Elems(readBuses)
    BY <2>1
  <2>5. QED
    BY <2>1, <2>2, <2>3, <2>4 DEF ServeInv
<1>3. CASE (stage = "run" /\ [Next]_vars /\ UNCHANGED start) \/ UNCHANGED program
  <2>1. UNCHANGED <<host, stage, gone, goneBuses, at, read, readBuses>> /\ system' = system
    BY <1>3 DEF start, program, vars, Next, Populate, Layout, NextBus, PlaceDevice, Return, FinishLayout,
                SwitchDrawingMode
  <2>2. /\ Accepted' = Accepted /\ Chosen' = Chosen /\ \A i : Readable(host.devs[i])' = Readable(host.devs[i])
        /\ DevicesComplete' = DevicesComplete /\ BusesComplete' = BusesComplete
        /\ Elems(read)' = Elems(read) /\ Elems(readBuses)' = Elems(readBuses)
    BY <2>1 DEF Accepted, Chosen, Readable, DevicesComplete, BusesComplete
  <2>3. QED
    BY <2>1, <2>2 DEF ServeInv
<1>4. CASE Main
  <2>1. Run(Populate) \/ Run(Layout) => stage = "run" /\ [Next]_vars /\ UNCHANGED start
    BY DEF Run, Next
  <2>2. QED
    BY <1>1, <1>3, <1>4, <2>1, ServeCalls, ServeDevices, ServeBuses DEF Main
<1>5. CASE \E m \in Modes : Run(SwitchDrawingMode(m))
  <2>1. stage = "run" /\ [Next]_vars /\ UNCHANGED start
    BY <1>5 DEF Run, Next
  <2>2. QED
    BY <1>3, <2>1
<1>6. QED
  BY <1>2, <1>3, <1>4, <1>5 DEF ProgramNext

\* Whatever is unplugged during the scan, the program shows or stores only what was
\* asked for: the file's content, or what a scan found that ran as root and passed
\* over nothing that stayed, each device at its own address.
THEOREM RequestIsServed == Program => []ServesRequest
<1>1. Startup => ServeInv
  BY DEF Startup, ServeInv, Elems
<1>2. StartTyped /\ [ProgramNext]_program => StartTyped'
  BY StartTypedStep
<1>3. StartTyped /\ ServeInv /\ [ProgramNext]_program => ServeInv'
  BY ServeStep
<1>4. QED
  BY <1>1, <1>2, <1>3, StartTypedInit, ServeInvSuffices, PTL DEF Program
=============================================================================
