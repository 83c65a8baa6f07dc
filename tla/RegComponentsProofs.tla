------------------------- MODULE RegComponentsProofs -------------------------
(***************************************************************************)
(* Proofs about RegComponents: the elements appended for a capability are  *)
(* counted out to its registers one for each, whatever the device lists,   *)
(* and what is on the screen tells the truth about the configuration       *)
(* space, but for the mislabelled rows.                                    *)
(***************************************************************************)
EXTENDS RegTextsProofs

-----------------------------------------------------------------------------
(***************************************************************************)
(* Rows of buttons and descriptions.                                       *)
(***************************************************************************)

HeaderRegs == {"dev_id", "vid", "status", "command", "class_code", "revision", "bist",
               "header_type", "latency_timer", "cache_line_size"}

Type0Regs == {"bar0", "bar1", "bar2", "bar3", "bar4", "bar5", "cardbus_cis_ptr",
              "subsys_dev_id", "subsys_vid", "exp_rom_bar", "cap_ptr",
              "max_lat", "min_gnt", "itr_pin", "itr_line"}

Type1Regs == {"bar0", "bar1", "sec_lat_timer", "sub_bus_num", "sec_bus_num", "prim_bus_num",
              "sec_status", "io_limit", "io_base", "mem_limit", "mem_base",
              "pref_mem_limit", "pref_mem_base", "pref_base_upper", "pref_limit_upper",
              "io_limit_upper", "io_base_upper", "cap_ptr", "exp_rom_bar",
              "bridge_ctl", "itr_pin", "itr_line"}

SmallRegs == {"vendor_spec", "pmcap", "pmcs", "msg_ctrl", "msg_addr_lower", "msg_addr_upper",
              "msg_addr", "ext_msg_data", "msg_data", "mask_bits", "pending_bits",
              "tbl_off", "pba_off"}

ExtRegs == {"link_ctl3", "lane_err_stat", "lane_eq_ctl", "dlink_feat_cap", "dlink_feat_stat",
            "ari_cap", "ari_ctl", "pasid_cap", "pasid_ctl"}

\* The registers that have buttons.
RegNames == HeaderRegs \cup Type0Regs \cup Type1Regs \cup SmallRegs \cup ExpressRegs
            \cup ExtRegs \cup AERRegs

Described == [reg : RegNames, back : Nat]

Rows == [buttons : Seq(RegNames), infos : Seq(Described)]

RegsIn(row) == {row.buttons[k] : k \in DOMAIN row.buttons}

\* No two buttons of a row are of one register, each description counts back to the
\* button of its register, each button has one that does, and only a link's lanes have
\* several.
RowRight(row) ==
  /\ \A j, k \in DOMAIN row.buttons : row.buttons[j] = row.buttons[k] => j = k
  /\ \A k \in DOMAIN row.infos :
       /\ row.infos[k].back \in 1..Len(row.buttons)
       /\ row.buttons[Len(row.buttons) + 1 - row.infos[k].back] = row.infos[k].reg
  /\ \A j \in DOMAIN row.buttons : \E k \in DOMAIN row.infos : row.infos[k].reg = row.buttons[j]
  /\ \A j, k \in DOMAIN row.infos :
       row.infos[j].reg = row.infos[k].reg => j = k \/ row.infos[j].reg = "lane_eq_ctl"

\* So it is in each of the rows; their registers differ, are among regs, and take at
\* most n elements.
RowsRight(rows, regs, n) ==
  /\ rows \in Seq(Rows)
  /\ \A r \in DOMAIN rows : RowRight(rows[r]) /\ RegsIn(rows[r]) \subseteq regs
  /\ \A r, s \in DOMAIN rows : r # s => RegsIn(rows[r]) \cap RegsIn(rows[s]) = {}
  /\ Taken(rows, Len(rows) + 1) <= n

LEMMA ListsOf ==
  ASSUME NEW S, NEW a \in S, NEW b \in S, NEW c \in S, NEW d \in S
  PROVE  /\ <<a>> \in Seq(S) /\ <<a, b>> \in Seq(S) /\ <<a, b, c>> \in Seq(S)
         /\ <<a, b, c, d>> \in Seq(S)
OBVIOUS

LEMMA LongListOf ==
  ASSUME NEW S, NEW a \in S, NEW b \in S, NEW c \in S, NEW d \in S, NEW e \in S, NEW f \in S,
         NEW g \in S
  PROVE  <<a, b, c, d, e, f, g>> \in Seq(S)
OBVIOUS

LEMMA UpTo ==
  ASSUME NEW n \in Nat
  PROVE  IsFiniteSet(1..n) /\ Cardinality(1..n) = n
<1>1. IsFiniteSet(1..n) /\ Cardinality(1..n) = IF 1 > n THEN 0 ELSE n - 1 + 1
  BY FS_Interval
<1>2. QED
  BY <1>1

LEMMA RowList ==
  ASSUME NEW rows \in Seq(Rows), NEW r \in DOMAIN rows
  PROVE  /\ r \in 1..Len(rows) /\ Len(rows) \in Nat
         /\ rows[r].buttons \in Seq(RegNames) /\ Len(rows[r].buttons) \in Nat
         /\ DOMAIN rows[r].buttons = 1..Len(rows[r].buttons)
<1>1. rows[r] \in Rows
  OBVIOUS
<1>2. rows[r].buttons \in Seq(RegNames)
  BY <1>1 DEF Rows
<1>3. QED
  BY <1>2

LEMMA ComesBefore ==
  ASSUME NEW rows, NEW r
  PROVE  /\ \A q \in 1..(r - 1) : \A k \in DOMAIN rows[q].buttons :
              <<q, k>> \in ButtonsBefore(rows, r)
         /\ \A p \in ButtonsBefore(rows, r) :
              \E q \in 1..(r - 1) : \E k \in DOMAIN rows[q].buttons : p = <<q, k>>
BY DEF ButtonsBefore

LEMMA TakenFinite ==
  ASSUME NEW rows \in Seq(Rows), NEW r \in 1..(Len(rows) + 1)
  PROVE  IsFiniteSet(ButtonsBefore(rows, r)) /\ Taken(rows, r) \in Nat
<1> DEFINE Of(q) == {q} \X DOMAIN rows[q].buttons
           S == {Of(q) : q \in 1..(r - 1)}
<1>1. IsFiniteSet(1..(r - 1))
  BY FS_Interval
<1>2. IsFiniteSet(S)
  <2>1. [q \in 1..(r - 1) |-> Of(q)] \in Surjection(1..(r - 1), S)
    BY DEF Surjection
  <2>2. QED
    BY <1>1, <2>1, FS_Surjection
<1>3. \A T \in S : IsFiniteSet(T)
  <2>1. SUFFICES ASSUME NEW q \in 1..(r - 1) PROVE IsFiniteSet(Of(q))
    OBVIOUS
  <2>2. q \in DOMAIN rows
    OBVIOUS
  <2>3. DOMAIN rows[q].buttons = 1..Len(rows[q].buttons) /\ Len(rows[q].buttons) \in Nat
    BY <2>2, RowList
  <2>4. IsFiniteSet({q}) /\ IsFiniteSet(DOMAIN rows[q].buttons)
    BY <2>3, FS_Singleton, UpTo
  <2>5. QED
    BY <2>4, FS_Product
<1>4. IsFiniteSet(UNION S)
  BY <1>2, <1>3, FS_UNION
<1>5. QED
  BY <1>4, FS_CardinalityType DEF ButtonsBefore, Taken

LEMMA TakenStep ==
  ASSUME NEW rows \in Seq(Rows), NEW r \in DOMAIN rows
  PROVE  Taken(rows, r + 1) = Taken(rows, r) + Len(rows[r].buttons)
<1> DEFINE N == {r} \X DOMAIN rows[r].buttons
<1>1. r \in 1..Len(rows) /\ Len(rows) \in Nat
  OBVIOUS
<1>2. ButtonsBefore(rows, r + 1) = ButtonsBefore(rows, r) \cup N
  <2>1. 1..(r + 1 - 1) = 1..(r - 1) \cup {r}
    BY <1>1
  <2>2. QED
    BY <2>1 DEF ButtonsBefore
<1>3. ButtonsBefore(rows, r) \cap N = {}
  <2>1. \A p \in ButtonsBefore(rows, r) : p[1] \in 1..(r - 1)
    BY DEF ButtonsBefore
  <2>2. \A p \in N : p[1] = r
    OBVIOUS
  <2>3. r \notin 1..(r - 1)
    BY <1>1
  <2>4. QED
    BY <2>1, <2>2, <2>3
<1>4. IsFiniteSet(N) /\ Cardinality(N) = Len(rows[r].buttons)
  <2>1. DOMAIN rows[r].buttons = 1..Len(rows[r].buttons) /\ Len(rows[r].buttons) \in Nat
    BY RowList
  <2>2. IsFiniteSet({r}) /\ Cardinality({r}) = 1
    BY FS_Singleton
  <2>3. /\ IsFiniteSet(DOMAIN rows[r].buttons)
        /\ Cardinality(DOMAIN rows[r].buttons) = Len(rows[r].buttons)
    BY <2>1, UpTo
  <2>4. IsFiniteSet(N) /\ Cardinality(N) = Cardinality({r}) * Cardinality(DOMAIN rows[r].buttons)
    BY <2>2, <2>3, FS_Product
  <2>5. QED
    BY <2>1, <2>2, <2>3, <2>4
<1>5. IsFiniteSet(ButtonsBefore(rows, r)) /\ Taken(rows, r) \in Nat
  BY <1>1, TakenFinite
<1>6. Cardinality(ButtonsBefore(rows, r) \cap N) = 0
  BY <1>3, FS_EmptySet
<1>7. Cardinality(ButtonsBefore(rows, r + 1)) =
        Cardinality(ButtonsBefore(rows, r)) + Cardinality(N) - 0
  BY <1>2, <1>4, <1>5, <1>6, FS_Union
<1>8. Len(rows[r].buttons) \in Nat
  BY RowList
<1>9. QED
  BY <1>4, <1>5, <1>7, <1>8 DEF Taken

LEMMA TakenGrows ==
  ASSUME NEW rows \in Seq(Rows), NEW r \in 1..(Len(rows) + 1), NEW s \in 1..(Len(rows) + 1),
         r <= s
  PROVE  Taken(rows, r) <= Taken(rows, s)
<1>1. ButtonsBefore(rows, r) \subseteq ButtonsBefore(rows, s)
  <2>1. 1..(r - 1) \subseteq 1..(s - 1)
    OBVIOUS
  <2>2. QED
    BY <2>1 DEF ButtonsBefore
<1>2. QED
  BY <1>1, TakenFinite, FS_Subset DEF Taken

\* The element a button gets is its own.
LEMMA PlacesDiffer ==
  ASSUME NEW rows \in Seq(Rows), NEW r \in DOMAIN rows, NEW s \in DOMAIN rows,
         NEW j \in DOMAIN rows[r].buttons, NEW k \in DOMAIN rows[s].buttons,
         Taken(rows, r) + j = Taken(rows, s) + k
  PROVE  r = s /\ j = k
<1>1. r \in 1..Len(rows) /\ s \in 1..Len(rows) /\ Len(rows) \in Nat
  OBVIOUS
<1>2. j \in 1..Len(rows[r].buttons) /\ k \in 1..Len(rows[s].buttons)
  BY RowList
<1>3. Taken(rows, r) \in Nat /\ Taken(rows, s) \in Nat
  BY <1>1, TakenFinite
<1>4. Len(rows[r].buttons) \in Nat /\ Len(rows[s].buttons) \in Nat
  BY RowList
<1>5. CASE r = s
  BY <1>2, <1>3, <1>5
<1>6. CASE r < s
  <2>1. Taken(rows, r + 1) <= Taken(rows, s)
    BY <1>1, <1>6, TakenGrows
  <2>2. Taken(rows, r + 1) = Taken(rows, r) + Len(rows[r].buttons)
    BY TakenStep
  <2>3. QED
    BY <2>1, <2>2, <1>2, <1>3, <1>4, SMTT(30)
<1>7. CASE s < r
  <2>1. Taken(rows, s + 1) <= Taken(rows, r)
    BY <1>1, <1>7, TakenGrows
  <2>2. Taken(rows, s + 1) = Taken(rows, s) + Len(rows[s].buttons)
    BY TakenStep
  <2>3. QED
    BY <2>1, <2>2, <1>2, <1>3, <1>4
<1>8. QED
  BY <1>1, <1>5, <1>6, <1>7

\* And it is one of those that are appended.
LEMMA PlaceAppended ==
  ASSUME NEW rows, NEW regs, NEW n \in Nat, RowsRight(rows, regs, n),
         NEW r \in DOMAIN rows, NEW k \in DOMAIN rows[r].buttons
  PROVE  Taken(rows, r) + k \in 1..n
<1>1. rows \in Seq(Rows) /\ Taken(rows, Len(rows) + 1) <= n
  BY DEF RowsRight
<1>2. r \in 1..Len(rows) /\ Len(rows) \in Nat
  BY <1>1
<1>3. DOMAIN rows[r].buttons = 1..Len(rows[r].buttons)
  BY <1>1, RowList
<1>4. k \in 1..Len(rows[r].buttons) /\ Len(rows[r].buttons) \in Nat
  BY <1>1, <1>3, RowList
<1>5. Taken(rows, r) \in Nat /\ Taken(rows, Len(rows) + 1) \in Nat
  BY <1>1, <1>2, TakenFinite
<1>6. Taken(rows, r + 1) = Taken(rows, r) + Len(rows[r].buttons)
  BY <1>1, TakenStep
<1>7. Taken(rows, r + 1) <= Taken(rows, Len(rows) + 1)
  BY <1>1, <1>2, TakenGrows
<1> DEFINE t == Taken(rows, r)
           l == Len(rows[r].buttons)
           u == Taken(rows, Len(rows) + 1)
<1>8. t \in Nat /\ l \in Nat /\ u \in Nat /\ k \in 1..l /\ t + l <= u /\ u <= n
  BY <1>1, <1>4, <1>5, <1>6, <1>7
<1> HIDE DEF t, l, u
<1>9. t + k \in 1..n
  BY <1>8
<1>10. QED
  BY <1>9 DEF t

LEMMA ListedTogether ==
  ASSUME NEW a \in Seq(Rows), NEW b \in Seq(Rows)
  PROVE  /\ a \o b \in Seq(Rows) /\ Len(a \o b) = Len(a) + Len(b)
         /\ \A r \in 1..Len(a) : (a \o b)[r] = a[r]
         /\ \A r \in 1..Len(b) : (a \o b)[Len(a) + r] = b[r]
         /\ \A r \in 1..(Len(a) + Len(b)) : r > Len(a) => r - Len(a) \in 1..Len(b)
OBVIOUS

\* Two lists of rows, of different registers, one after the other.
LEMMA BothRight ==
  ASSUME NEW a, NEW b, NEW A, NEW B, NEW m \in Nat, NEW n \in Nat,
         RowsRight(a, A, m), RowsRight(b, B, n), A \cap B = {}
  PROVE  RowsRight(a \o b, A \cup B, m + n)
<1> DEFINE c == a \o b
           M == Len(a)
           N == Len(b)
<1>1. a \in Seq(Rows) /\ b \in Seq(Rows) /\ M \in Nat /\ N \in Nat
  BY DEF RowsRight
<1>2. /\ c \in Seq(Rows) /\ Len(c) = M + N
      /\ \A r \in 1..M : c[r] = a[r]
      /\ \A r \in 1..N : c[M + r] = b[r]
      /\ \A r \in 1..(M + N) : r > M => r - M \in 1..N /\ c[r] = b[r - M]
  <2>1. \A r \in 1..(M + N) : r > M => M + (r - M) = r
    BY <1>1
  <2>2. QED
    BY <1>1, <2>1, ListedTogether
<1> HIDE DEF c
<1>3. /\ DOMAIN c = 1..(M + N) /\ DOMAIN a = 1..M /\ DOMAIN b = 1..N
  BY <1>1, <1>2
<1>4. ASSUME NEW r \in DOMAIN c
      PROVE  /\ RowRight(c[r])
             /\ r <= M => /\ r \in DOMAIN a /\ RegsIn(c[r]) = RegsIn(a[r])
                          /\ RegsIn(c[r]) \subseteq A
             /\ r > M => /\ r - M \in DOMAIN b /\ RegsIn(c[r]) = RegsIn(b[r - M])
                         /\ RegsIn(c[r]) \subseteq B
  <2>1. CASE r <= M
    <3>1. r \in 1..M /\ c[r] = a[r]
      BY <1>1, <1>2, <1>3, <2>1
    <3>2. QED
      BY <1>1, <1>3, <2>1, <3>1 DEF RowsRight
  <2>2. CASE r > M
    <3>1. r - M \in 1..N /\ c[r] = b[r - M]
      BY <1>2, <1>3, <2>2
    <3>2. ~(r <= M)
      BY <1>1, <1>3, <2>2
    <3>3. QED
      BY <1>3, <3>1, <3>2 DEF RowsRight
  <2>3. QED
    BY <1>1, <1>3, <2>1, <2>2
<1>5. ASSUME NEW r \in DOMAIN c, NEW s \in DOMAIN c, r # s
      PROVE  RegsIn(c[r]) \cap RegsIn(c[s]) = {}
  <2>1. r \in Int /\ s \in Int /\ M \in Int
    BY <1>1, <1>3
  <2>2. CASE r <= M /\ s <= M
    BY <1>4, <1>5, <2>2 DEF RowsRight
  <2>3. CASE r > M /\ s > M
    <3>1. r - M # s - M
      BY <1>5, <2>1
    <3>2. QED
      BY <1>4, <2>3, <3>1 DEF RowsRight
  <2>4. CASE (r <= M /\ s > M) \/ (r > M /\ s <= M)
    BY <1>4, <2>4
  <2>5. QED
    BY <2>1, <2>2, <2>3, <2>4
<1>6. Taken(c, M + N + 1) <= m + n
  <2> DEFINE X == ButtonsBefore(a, M + 1)
             Y == ButtonsBefore(b, N + 1)
             f == [p \in Y |-> <<p[1] + M, p[2]>>]
             Z == {f[p] : p \in Y}
  <2>1. /\ IsFiniteSet(X) /\ Cardinality(X) \in Nat /\ Cardinality(X) <= m
        /\ IsFiniteSet(Y) /\ Cardinality(Y) \in Nat /\ Cardinality(Y) <= n
    <3>1. M + 1 \in 1..(M + 1) /\ N + 1 \in 1..(N + 1)
      BY <1>1
    <3>2. QED
      BY <1>1, <3>1, TakenFinite DEF Taken, RowsRight
  <2>2. IsFiniteSet(Z) /\ Cardinality(Z) <= Cardinality(Y)
    <3> HIDE DEF Y
    <3>1. f \in Surjection(Y, Z)
      BY DEF Surjection
    <3>2. QED
      BY <2>1, <3>1, FS_Surjection
  <2>3. ButtonsBefore(c, M + N + 1) \subseteq X \cup Z
    <3>1. SUFFICES ASSUME NEW q \in 1..(M + N), NEW k \in DOMAIN c[q].buttons
                   PROVE  <<q, k>> \in X \cup Z
      <4>1. M + N + 1 - 1 = M + N
        BY <1>1
      <4>2. QED
        BY <4>1, ComesBefore
    <3>2. CASE q <= M
      <4>1. q \in 1..(M + 1 - 1) /\ c[q] = a[q]
        BY <1>1, <1>2, <3>2
      <4>2. k \in DOMAIN a[q].buttons
        BY <4>1
      <4>3. QED
        BY <4>1, <4>2, ComesBefore
    <3>3. CASE q > M
      <4>1. q - M \in 1..N /\ c[q] = b[q - M]
        BY <1>2, <3>3
      <4>2. q - M \in 1..(N + 1 - 1)
        BY <1>1, <4>1
      <4>3. k \in DOMAIN b[q - M].buttons
        BY <4>1
      <4>4. <<q - M, k>> \in Y
        BY <4>2, <4>3, ComesBefore
      <4>5. f[<<q - M, k>>] = <<q - M + M, k>>
        BY <4>4
      <4>6. q - M + M = q
        BY <1>1
      <4>7. <<q, k>> \in Z
        BY <4>4, <4>5, <4>6
      <4>8. QED
        BY <4>7
    <3>4. QED
      BY <1>1, <3>2, <3>3
  <2> HIDE DEF X, Y, Z
  <2>4. IsFiniteSet(X \cup Z) /\ Cardinality(X \cup Z) <= Cardinality(X) + Cardinality(Z)
    <3>1. IsFiniteSet(X \cap Z) /\ IsFiniteSet(X \cup Z)
          /\ Cardinality(X \cup Z) = Cardinality(X) + Cardinality(Z) - Cardinality(X \cap Z)
      BY <2>1, <2>2, FS_Union, FS_Intersection
    <3>2. Cardinality(X \cap Z) \in Nat /\ Cardinality(Z) \in Nat
      BY <2>2, <3>1, FS_CardinalityType
    <3>3. QED
      BY <2>1, <3>1, <3>2
  <2>5. Cardinality(ButtonsBefore(c, M + N + 1)) <= Cardinality(X \cup Z)
    BY <2>3, <2>4, FS_Subset
  <2>6. /\ Cardinality(ButtonsBefore(c, M + N + 1)) \in Nat /\ Cardinality(X \cup Z) \in Nat
        /\ Cardinality(Z) \in Nat
    BY <2>2, <2>3, <2>4, FS_Subset, FS_CardinalityType
  <2>7. QED
    BY <2>1, <2>2, <2>4, <2>5, <2>6 DEF Taken
<1>7. \A r \in DOMAIN c : RowRight(c[r]) /\ RegsIn(c[r]) \subseteq A \cup B
  <2>1. \A r \in DOMAIN c : r <= M \/ r > M
    BY <1>1, <1>3
  <2>2. QED
    BY <1>4, <2>1
<1>8. RowsRight(c, A \cup B, m + n)
  BY <1>2, <1>5, <1>6, <1>7 DEF RowsRight
<1>9. QED
  BY <1>8 DEF c

LEMMA AloneRight ==
  ASSUME NEW row \in Rows, RowRight(row)
  PROVE  RowsRight(<<row>>, RegsIn(row), Len(row.buttons))
<1> DEFINE c == <<row>>
<1>1. c \in Seq(Rows) /\ Len(c) = 1 /\ c[1] = row /\ DOMAIN c = {1}
  OBVIOUS
<1> HIDE DEF c
<1>2. Taken(c, Len(c) + 1) = Taken(c, 1) + Len(row.buttons)
  BY <1>1, TakenStep
<1>3. Taken(c, 1) = 0
  <2>1. ButtonsBefore(c, 1) = {}
    <3>1. 1..(1 - 1) = {}
      OBVIOUS
    <3>2. QED
      BY <3>1 DEF ButtonsBefore
  <2>2. QED
    BY <2>1, FS_EmptySet DEF Taken
<1>4. Len(row.buttons) \in Nat
  BY <1>1, RowList
<1>5. RowsRight(c, RegsIn(row), Len(row.buttons))
  BY <1>1, <1>2, <1>3, <1>4 DEF RowsRight
<1>6. QED
  BY <1>5 DEF c

LEMMA WiderRight ==
  ASSUME NEW rows, NEW A, NEW B, NEW m \in Nat, NEW n \in Nat, RowsRight(rows, A, m),
         A \subseteq B, m <= n
  PROVE  RowsRight(rows, B, n)
<1>1. rows \in Seq(Rows)
  BY DEF RowsRight
<1>2. Len(rows) + 1 \in 1..(Len(rows) + 1)
  BY <1>1
<1>3. Taken(rows, Len(rows) + 1) \in Nat
  BY <1>1, <1>2, TakenFinite
<1>4. QED
  BY <1>3 DEF RowsRight

LEMMA NoneRight == RowsRight(<< >>, {}, 0)
<1> DEFINE c == << >>
<1>1. c \in Seq(Rows) /\ Len(c) = 0 /\ DOMAIN c = {}
  OBVIOUS
<1>2. ButtonsBefore(c, Len(c) + 1) = {}
  <2>1. 1..(Len(c) + 1 - 1) = {}
    OBVIOUS
  <2>2. QED
    BY <2>1 DEF ButtonsBefore
<1>3. Taken(c, Len(c) + 1) = 0
  BY <1>2, FS_EmptySet DEF Taken
<1>4. QED
  BY <1>1, <1>3 DEF RowsRight

LEMMA WhenRight ==
  ASSUME NEW rows, NEW A, NEW m \in Nat, RowsRight(rows, A, m), NEW cond
  PROVE  RowsRight(When(cond, rows), A, m)
<1>1. CASE cond
  BY <1>1 DEF When
<1>2. CASE ~cond
  <2>1. RowsRight(<< >>, A, m)
    BY NoneRight, WiderRight
  <2>2. QED
    BY <1>2, <2>1 DEF When
<1>3. QED
  BY <1>1, <1>2

LEMMA RowIsRight ==
  ASSUME NEW regs \in Seq(RegNames), NEW back,
         \A k \in DOMAIN regs : back[k] = Len(regs) + 1 - k,
         \A j, k \in DOMAIN regs : regs[j] = regs[k] => j = k
  PROVE  RowsRight(Row(regs, back), {regs[k] : k \in DOMAIN regs}, Len(regs))
<1> DEFINE row == RowOf(regs, back)
<1>1. Len(regs) \in Nat /\ DOMAIN regs = 1..Len(regs)
  OBVIOUS
<1>2. /\ row.buttons = regs /\ DOMAIN row.infos = DOMAIN regs
      /\ \A k \in DOMAIN regs : row.infos[k].reg = regs[k] /\ row.infos[k].back = back[k]
  BY DEF RowOf
<1>3. row \in Rows
  <2>1. \A k \in 1..Len(regs) : [reg |-> regs[k], back |-> back[k]] \in Described
    <3>1. \A k \in 1..Len(regs) : back[k] \in Nat /\ regs[k] \in RegNames
      BY <1>1
    <3>2. QED
      BY <3>1 DEF Described
  <2>2. [k \in DOMAIN regs |-> [reg |-> regs[k], back |-> back[k]]] \in Seq(Described)
    BY <1>1, <2>1
  <2>3. QED
    BY <2>2 DEF RowOf, Rows
<1> HIDE DEF row
<1>4. RowRight(row)
  <2>1. \A k \in DOMAIN row.infos :
          /\ row.infos[k].back \in 1..Len(row.buttons)
          /\ Len(row.buttons) + 1 - row.infos[k].back = k
    BY <1>1, <1>2
  <2>2. \A j, k \in DOMAIN row.infos : row.infos[j].reg = row.infos[k].reg => j = k
    BY <1>2
  <2>3. QED
    BY <1>2, <2>1, <2>2 DEF RowRight
<1>5. RegsIn(row) = {regs[k] : k \in DOMAIN regs}
  BY <1>2 DEF RegsIn
<1>6. RowsRight(<<row>>, RegsIn(row), Len(row.buttons))
  BY <1>3, <1>4, AloneRight
<1>7. QED
  BY <1>2, <1>5, <1>6 DEF Row, row

LEMMA PairRight ==
  ASSUME NEW a \in RegNames, NEW b \in RegNames, a # b
  PROVE  RowsRight(Row(<<a, b>>, <<2, 1>>), {a, b}, 2)
<1> DEFINE regs == <<a, b>>
           back == <<2, 1>>
<1>1. regs \in Seq(RegNames)
  BY ListsOf
<1>2. /\ Len(regs) = 2 /\ DOMAIN regs = 1..2
      /\ regs[1] = a /\ regs[2] = b
      /\ back[1] = 2 /\ back[2] = 1
  OBVIOUS
<1> HIDE DEF regs, back
<1>3. DOMAIN regs = {1, 2}
  BY <1>2
<1>4. {regs[k] : k \in DOMAIN regs} = {a, b}
  BY <1>2, <1>3
<1>5. \A k \in DOMAIN regs : back[k] = Len(regs) + 1 - k
  BY <1>2, <1>3
<1>6. \A j, k \in DOMAIN regs : regs[j] = regs[k] => j = k
  BY <1>2, <1>3
<1>7. RowsRight(Row(regs, back), {regs[k] : k \in DOMAIN regs}, Len(regs))
  BY <1>1, <1>5, <1>6, RowIsRight
<1>8. QED
  BY <1>2, <1>4, <1>7 DEF regs, back

LEMMA TripleRight ==
  ASSUME NEW a \in RegNames, NEW b \in RegNames, NEW c \in RegNames, a # b, a # c, b # c
  PROVE  RowsRight(Row(<<a, b, c>>, <<3, 2, 1>>), {a, b, c}, 3)
<1> DEFINE regs == <<a, b, c>>
           back == <<3, 2, 1>>
<1>1. regs \in Seq(RegNames)
  BY ListsOf
<1>2. /\ Len(regs) = 3 /\ DOMAIN regs = 1..3
      /\ regs[1] = a /\ regs[2] = b /\ regs[3] = c
      /\ back[1] = 3 /\ back[2] = 2 /\ back[3] = 1
  OBVIOUS
<1> HIDE DEF regs, back
<1>3. DOMAIN regs = {1, 2, 3}
  BY <1>2
<1>4. {regs[k] : k \in DOMAIN regs} = {a, b, c}
  BY <1>2, <1>3
<1>5. \A k \in DOMAIN regs : back[k] = Len(regs) + 1 - k
  BY <1>2, <1>3
<1>6. \A j, k \in DOMAIN regs : regs[j] = regs[k] => j = k
  BY <1>2, <1>3
<1>7. RowsRight(Row(regs, back), {regs[k] : k \in DOMAIN regs}, Len(regs))
  BY <1>1, <1>5, <1>6, RowIsRight
<1>8. QED
  BY <1>2, <1>4, <1>7 DEF regs, back

LEMMA QuadRight ==
  ASSUME NEW a \in RegNames, NEW b \in RegNames, NEW c \in RegNames, NEW d \in RegNames,
         a # b, a # c, a # d, b # c, b # d, c # d
  PROVE  RowsRight(Row(<<a, b, c, d>>, <<4, 3, 2, 1>>), {a, b, c, d}, 4)
<1> DEFINE regs == <<a, b, c, d>>
           back == <<4, 3, 2, 1>>
<1>1. regs \in Seq(RegNames)
  BY ListsOf
<1>2. /\ Len(regs) = 4 /\ DOMAIN regs = 1..4
      /\ regs[1] = a /\ regs[2] = b /\ regs[3] = c /\ regs[4] = d
      /\ back[1] = 4 /\ back[2] = 3 /\ back[3] = 2 /\ back[4] = 1
  OBVIOUS
<1> HIDE DEF regs, back
<1>3. DOMAIN regs = {1, 2, 3, 4}
  BY <1>2
<1>4. {regs[k] : k \in DOMAIN regs} = {a, b, c, d}
  BY <1>2, <1>3
<1>5. \A k \in DOMAIN regs : back[k] = Len(regs) + 1 - k
  BY <1>2, <1>3
<1>6. \A j, k \in DOMAIN regs : regs[j] = regs[k] => j = k
  BY <1>2, <1>3
<1>7. RowsRight(Row(regs, back), {regs[k] : k \in DOMAIN regs}, Len(regs))
  BY <1>1, <1>5, <1>6, RowIsRight
<1>8. QED
  BY <1>2, <1>4, <1>7 DEF regs, back

LEMMA OnesRight ==
  ASSUME NEW regs \in Seq(RegNames), \A j, k \in DOMAIN regs : regs[j] = regs[k] => j = k
  PROVE  RowsRight(Ones(regs), {regs[k] : k \in DOMAIN regs}, Len(regs))
<1> DEFINE n == Len(regs)
           rows == Ones(regs)
<1>1. n \in Nat /\ DOMAIN regs = 1..n
  OBVIOUS
<1>2. ASSUME NEW k \in 1..n
      PROVE  RowRight(RowOf(<<regs[k]>>, <<1>>)) /\ RegsIn(RowOf(<<regs[k]>>, <<1>>)) = {regs[k]}
             /\ RowOf(<<regs[k]>>, <<1>>) \in Rows
  <2> DEFINE one == <<regs[k]>>
             row == RowOf(one, <<1>>)
  <2>1. one \in Seq(RegNames) /\ Len(one) = 1 /\ DOMAIN one = {1} /\ one[1] = regs[k]
    BY <1>1
  <2> HIDE DEF one
  <2>2. /\ row.buttons = one /\ DOMAIN row.infos = {1}
        /\ row.infos[1].reg = one[1] /\ row.infos[1].back = 1
    BY <2>1 DEF RowOf
  <2>3. row \in Rows
    <3>1. [reg |-> one[1], back |-> 1] \in Described
      BY <1>1, <2>1 DEF Described
    <3>2. [j \in DOMAIN one |-> [reg |-> one[j], back |-> <<1>>[j]]] \in Seq(Described)
      <4>1. DOMAIN one = 1..1 /\ <<1>>[1] = 1
        BY <2>1
      <4>2. QED
        BY <3>1, <4>1
    <3>3. QED
      BY <2>1, <3>2 DEF RowOf, Rows
  <2> HIDE DEF row
  <2>4. RegsIn(row) = {regs[k]}
    BY <2>1, <2>2 DEF RegsIn
  <2>5. Len(row.buttons) = 1 /\ DOMAIN row.buttons = {1}
    BY <2>1, <2>2
  <2>6. 1 \in 1..1 /\ 1 + 1 - 1 = 1
    OBVIOUS
  <2>7. RowRight(row)
    BY <2>2, <2>5, <2>6 DEF RowRight
  <2>8. QED
    BY <2>3, <2>4, <2>7 DEF row, one
<1>3. rows \in Seq(Rows) /\ Len(rows) = n /\ DOMAIN rows = 1..n
      /\ \A k \in 1..n : rows[k] = RowOf(<<regs[k]>>, <<1>>)
  <2>1. rows = [k \in 1..n |-> RowOf(<<regs[k]>>, <<1>>)]
    BY <1>1 DEF Ones
  <2>2. QED
    BY <1>1, <1>2, <2>1
<1> HIDE DEF rows
<1>4. ASSUME NEW k \in 1..n PROVE rows[k].buttons = <<regs[k]>>
  <2>1. rows[k] = RowOf(<<regs[k]>>, <<1>>)
    BY <1>3
  <2>2. QED
    BY <2>1 DEF RowOf
<1>5. Taken(rows, n + 1) <= n
  <2> DEFINE f == [k \in 1..n |-> <<k, 1>>]
  <2>1. n + 1 - 1 = n
    BY <1>1
  <2>2. f \in Surjection(1..n, ButtonsBefore(rows, n + 1))
    <3>1. \A k \in 1..n : DOMAIN rows[k].buttons = {1}
      BY <1>4
    <3>2. \A p \in ButtonsBefore(rows, n + 1) : \E k \in 1..n : p = <<k, 1>>
      BY <2>1, <3>1, ComesBefore
    <3>3. \A k \in 1..n : <<k, 1>> \in ButtonsBefore(rows, n + 1)
      BY <2>1, <3>1, ComesBefore
    <3>4. QED
      BY <3>2, <3>3 DEF Surjection
  <2>3. QED
    BY <1>1, <2>2, UpTo, FS_Surjection DEF Taken
<1>6. \A k \in DOMAIN rows : RowRight(rows[k]) /\ RegsIn(rows[k]) = {regs[k]}
  <2>1. \A k \in 1..n : rows[k] = RowOf(<<regs[k]>>, <<1>>)
    BY <1>3
  <2>2. QED
    BY <1>2, <1>3, <2>1
<1>7. /\ \A j, k \in DOMAIN rows : j # k => RegsIn(rows[j]) \cap RegsIn(rows[k]) = {}
      /\ \A k \in DOMAIN rows : RegsIn(rows[k]) \subseteq {regs[j] : j \in DOMAIN regs}
  BY <1>1, <1>3, <1>6
<1>8. RowsRight(rows, {regs[k] : k \in DOMAIN regs}, n)
  BY <1>3, <1>5, <1>6, <1>7 DEF RowsRight
<1>9. QED
  BY <1>8 DEF rows

-----------------------------------------------------------------------------
(***************************************************************************)
(* The components made of rows that are right.                             *)
(***************************************************************************)

\* Where the description of a row's k-th button finds its element.
IsOf(c, of, rows, start, r, k) ==
  c.of = <<of, rows[r].buttons[k]>> /\ c.at = start + Taken(rows, r) + k

Made(of, rows, start) == ButtonsOf(of, rows, start) \cup InfosOf(of, rows, start)

LEMMA EachOfAButton ==
  ASSUME NEW rows, NEW regs, NEW n \in Nat, RowsRight(rows, regs, n), NEW of, NEW start \in Nat,
         NEW c \in ButtonsOf(of, rows, start) \cup InfosOf(of, rows, start)
  PROVE  \E r \in DOMAIN rows : \E k \in DOMAIN rows[r].buttons : IsOf(c, of, rows, start, r, k)
<1>1. rows \in Seq(Rows)
  BY DEF RowsRight
<1>2. CASE c \in ButtonsOf(of, rows, start)
  <2>1. PICK r \in DOMAIN rows : \E k \in DOMAIN rows[r].buttons :
          c = [of |-> <<of, rows[r].buttons[k]>>, at |-> start + Taken(rows, r) + k]
    <3>1. \A b \in ButtonsOf(of, rows, start) :
            \E r \in DOMAIN rows : \E k \in DOMAIN rows[r].buttons :
              b = [of |-> <<of, rows[r].buttons[k]>>, at |-> start + Taken(rows, r) + k]
      BY DEF ButtonsOf
    <3>2. QED
      BY <1>2, <3>1
  <2>2. PICK k \in DOMAIN rows[r].buttons :
          c = [of |-> <<of, rows[r].buttons[k]>>, at |-> start + Taken(rows, r) + k]
    BY <2>1
  <2>3. IsOf(c, of, rows, start, r, k)
    BY <2>2 DEF IsOf
  <2>4. QED
    BY <2>3
<1>3. CASE c \in InfosOf(of, rows, start)
  <2>1. PICK r \in DOMAIN rows : \E j \in DOMAIN rows[r].infos :
          c = [of |-> <<of, rows[r].infos[j].reg>>, nr |-> j,
               at |-> start + Taken(rows, r + 1) + 1 - rows[r].infos[j].back]
    BY <1>3 DEF InfosOf
  <2>2. PICK j \in DOMAIN rows[r].infos :
          c = [of |-> <<of, rows[r].infos[j].reg>>, nr |-> j,
               at |-> start + Taken(rows, r + 1) + 1 - rows[r].infos[j].back]
    BY <2>1
  <2> DEFINE b == rows[r].infos[j].back
             l == Len(rows[r].buttons)
  <2>3. b \in 1..l /\ rows[r].buttons[l + 1 - b] = rows[r].infos[j].reg
    BY DEF RowsRight, RowRight
  <2>4. l \in Nat /\ DOMAIN rows[r].buttons = 1..l
    BY <1>1, RowList
  <2>5. Taken(rows, r + 1) = Taken(rows, r) + l
    BY <1>1, TakenStep
  <2>6. Taken(rows, r) \in Nat
    <3>1. r \in 1..(Len(rows) + 1)
      BY <1>1
    <3>2. QED
      BY <1>1, <3>1, TakenFinite
  <2>7. c.of = <<of, rows[r].infos[j].reg>> /\ c.at = start + Taken(rows, r + 1) + 1 - b
    BY <2>2
  <2> HIDE DEF b, l
  <2>8. /\ l + 1 - b \in 1..l
        /\ start + (Taken(rows, r) + l) + 1 - b = start + Taken(rows, r) + (l + 1 - b)
    BY <2>3, <2>4, <2>6, SMTT(30)
  <2>9. IsOf(c, of, rows, start, r, l + 1 - b)
    BY <2>3, <2>5, <2>7, <2>8 DEF IsOf
  <2>10. QED
    BY <2>4, <2>8, <2>9
<1>4. QED
  BY <1>2, <1>3

LEMMA MadeRight ==
  ASSUME NEW rows, NEW regs, NEW n \in Nat, RowsRight(rows, regs, n), NEW of, NEW start \in Nat
  PROVE  /\ \A c \in Made(of, rows, start) :
              c.of[1] = of /\ c.at \in Nat /\ start < c.at /\ c.at <= start + n
         /\ \A c, e \in Made(of, rows, start) : c.of = e.of <=> c.at = e.at
         /\ \A b \in ButtonsOf(of, rows, start) : \E i \in InfosOf(of, rows, start) : i.of = b.of
         /\ \A i \in InfosOf(of, rows, start) : \E b \in ButtonsOf(of, rows, start) : b.of = i.of
<1> DEFINE C == Made(of, rows, start)
<1>1. rows \in Seq(Rows)
  BY DEF RowsRight
<1>2. \A c \in C : \E r \in DOMAIN rows : \E k \in DOMAIN rows[r].buttons :
        IsOf(c, of, rows, start, r, k)
  BY EachOfAButton DEF Made
<1> HIDE DEF C
<1>3. \A r \in DOMAIN rows : Taken(rows, r) \in Nat /\ \A k \in DOMAIN rows[r].buttons : k \in Nat
  <2>1. SUFFICES ASSUME NEW r \in DOMAIN rows
                 PROVE  Taken(rows, r) \in Nat /\ \A k \in DOMAIN rows[r].buttons : k \in Nat
    OBVIOUS
  <2>2. r \in 1..(Len(rows) + 1)
    BY <1>1
  <2>3. QED
    BY <1>1, <2>2, RowList, TakenFinite
<1>4. ASSUME NEW c \in C PROVE c.of[1] = of /\ c.at \in Nat /\ start < c.at /\ c.at <= start + n
  <2>1. PICK r \in DOMAIN rows : \E k \in DOMAIN rows[r].buttons : IsOf(c, of, rows, start, r, k)
    BY <1>2
  <2>2. PICK k \in DOMAIN rows[r].buttons : IsOf(c, of, rows, start, r, k)
    BY <2>1
  <2>3. Taken(rows, r) + k \in 1..n
    BY PlaceAppended
  <2>4. c.of[1] = of /\ c.at = start + Taken(rows, r) + k
    BY <2>2 DEF IsOf
  <2>5. QED
    BY <1>3, <2>3, <2>4
<1>5. ASSUME NEW c \in C, NEW e \in C PROVE c.of = e.of <=> c.at = e.at
  <2>1. PICK r \in DOMAIN rows : \E j \in DOMAIN rows[r].buttons : IsOf(c, of, rows, start, r, j)
    BY <1>2
  <2>2. PICK j \in DOMAIN rows[r].buttons : IsOf(c, of, rows, start, r, j)
    BY <2>1
  <2>3. PICK s \in DOMAIN rows : \E k \in DOMAIN rows[s].buttons : IsOf(e, of, rows, start, s, k)
    BY <1>2
  <2>4. PICK k \in DOMAIN rows[s].buttons : IsOf(e, of, rows, start, s, k)
    BY <2>3
  <2>5. CASE c.of = e.of
    <3>1. rows[r].buttons[j] = rows[s].buttons[k]
      BY <2>2, <2>4, <2>5 DEF IsOf
    <3>2. r = s
      <4>1. rows[r].buttons[j] \in RegsIn(rows[r]) /\ rows[s].buttons[k] \in RegsIn(rows[s])
        BY DEF RegsIn
      <4>2. QED
        BY <3>1, <4>1 DEF RowsRight
    <3>3. j = k
      BY <3>1, <3>2 DEF RowsRight, RowRight
    <3>4. QED
      BY <2>2, <2>4, <2>5, <3>2, <3>3 DEF IsOf
  <2>6. CASE c.at = e.at
    <3>1. start + Taken(rows, r) + j = start + Taken(rows, s) + k
      BY <2>2, <2>4, <2>6 DEF IsOf
    <3>2. Taken(rows, r) + j = Taken(rows, s) + k
      BY <1>3, <3>1
    <3>3. r = s /\ j = k
      BY <1>1, <3>2, PlacesDiffer
    <3>4. QED
      BY <2>2, <2>4, <2>6, <3>3 DEF IsOf
  <2>7. QED
    BY <2>5, <2>6
<1>6. ASSUME NEW b \in ButtonsOf(of, rows, start)
      PROVE  \E i \in InfosOf(of, rows, start) : i.of = b.of
  <2>1. PICK r \in DOMAIN rows : \E k \in DOMAIN rows[r].buttons :
          b = [of |-> <<of, rows[r].buttons[k]>>, at |-> start + Taken(rows, r) + k]
    BY DEF ButtonsOf
  <2>2. PICK k \in DOMAIN rows[r].buttons :
          b = [of |-> <<of, rows[r].buttons[k]>>, at |-> start + Taken(rows, r) + k]
    BY <2>1
  <2>3. PICK j \in DOMAIN rows[r].infos : rows[r].infos[j].reg = rows[r].buttons[k]
    BY DEF RowsRight, RowRight
  <2> DEFINE i == [of |-> <<of, rows[r].infos[j].reg>>, nr |-> j,
                   at |-> start + Taken(rows, r + 1) + 1 - rows[r].infos[j].back]
  <2>4. i \in InfosOf(of, rows, start)
    BY DEF InfosOf
  <2>5. i.of = b.of
    BY <2>2, <2>3
  <2>6. QED
    BY <2>4, <2>5
<1>7. ASSUME NEW i \in InfosOf(of, rows, start)
      PROVE  \E b \in ButtonsOf(of, rows, start) : b.of = i.of
  <2>1. PICK r \in DOMAIN rows : \E k \in DOMAIN rows[r].buttons : IsOf(i, of, rows, start, r, k)
    BY EachOfAButton
  <2>2. PICK k \in DOMAIN rows[r].buttons : IsOf(i, of, rows, start, r, k)
    BY <2>1
  <2> DEFINE b == [of |-> <<of, rows[r].buttons[k]>>, at |-> start + Taken(rows, r) + k]
  <2>3. b \in ButtonsOf(of, rows, start)
    BY DEF ButtonsOf
  <2>4. b.of = i.of
    BY <2>2 DEF IsOf
  <2>5. QED
    BY <2>3, <2>4
<1>8. QED
  BY <1>4, <1>5, <1>6, <1>7 DEF C

\* What a description tells apart from the others of its capability: its register, and
\* its lane.
LEMMA InfosDiffer ==
  ASSUME NEW rows, NEW regs, NEW n \in Nat, RowsRight(rows, regs, n), NEW of, NEW start
  PROVE  /\ \A i \in InfosOf(of, rows, start) :
              i.of = <<of, i.of[2]>> /\ i.of[1] = of /\ i.of[2] \in regs /\ i.nr \in Nat \ {0}
         /\ \A i, j \in InfosOf(of, rows, start) :
              i.of = j.of /\ (i.of[2] = "lane_eq_ctl" => i.nr = j.nr) => i = j
<1> DEFINE Is(i, r, k) == i = [of |-> <<of, rows[r].infos[k].reg>>, nr |-> k,
                               at |-> start + Taken(rows, r + 1) + 1 - rows[r].infos[k].back]
<1>1. \A i \in InfosOf(of, rows, start) :
        \E r \in DOMAIN rows : \E k \in DOMAIN rows[r].infos : Is(i, r, k)
  BY DEF InfosOf
<1>2. ASSUME NEW i, NEW r, NEW k, Is(i, r, k)
      PROVE  i.of = <<of, rows[r].infos[k].reg>> /\ i.of[1] = of
             /\ i.of[2] = rows[r].infos[k].reg /\ i.nr = k
  BY <1>2
<1>3. \A r \in DOMAIN rows : \A k \in DOMAIN rows[r].infos :
        rows[r].infos[k].reg \in RegsIn(rows[r])
  <2>1. SUFFICES ASSUME NEW r \in DOMAIN rows, NEW k \in DOMAIN rows[r].infos
                 PROVE  rows[r].infos[k].reg \in RegsIn(rows[r])
    OBVIOUS
  <2> DEFINE l == Len(rows[r].buttons)
             b == rows[r].infos[k].back
  <2>2. b \in 1..l /\ rows[r].buttons[l + 1 - b] = rows[r].infos[k].reg
    BY DEF RowsRight, RowRight
  <2>3. l \in Nat /\ DOMAIN rows[r].buttons = 1..l
    BY RowList DEF RowsRight
  <2> HIDE DEF l, b
  <2>4. l + 1 - b \in 1..l
    BY <2>2, <2>3
  <2>5. QED
    BY <2>2, <2>3, <2>4 DEF RegsIn
<1>4. \A r \in DOMAIN rows : \A k \in DOMAIN rows[r].infos : k \in Nat \ {0}
  <2>1. SUFFICES ASSUME NEW r \in DOMAIN rows, NEW k \in DOMAIN rows[r].infos
                 PROVE  k \in Nat \ {0}
    OBVIOUS
  <2>2. rows[r] \in Rows
    BY DEF RowsRight
  <2>3. rows[r].infos \in Seq(Described)
    BY <2>2 DEF Rows
  <2>4. QED
    BY <2>3
<1>5. \A r \in DOMAIN rows : RegsIn(rows[r]) \subseteq regs
  BY DEF RowsRight
<1> HIDE DEF Is
<1>6. ASSUME NEW i \in InfosOf(of, rows, start)
      PROVE  i.of = <<of, i.of[2]>> /\ i.of[1] = of /\ i.of[2] \in regs /\ i.nr \in Nat \ {0}
  <2>1. PICK r \in DOMAIN rows : \E k \in DOMAIN rows[r].infos : Is(i, r, k)
    BY <1>1
  <2>2. PICK k \in DOMAIN rows[r].infos : Is(i, r, k)
    BY <2>1
  <2>3. QED
    BY <1>2, <1>3, <1>4, <1>5, <2>2
<1>7. ASSUME NEW i \in InfosOf(of, rows, start), NEW j \in InfosOf(of, rows, start),
             i.of = j.of, i.of[2] = "lane_eq_ctl" => i.nr = j.nr
      PROVE  i = j
  <2>1. PICK r \in DOMAIN rows : \E k \in DOMAIN rows[r].infos : Is(i, r, k)
    BY <1>1
  <2>2. PICK k \in DOMAIN rows[r].infos : Is(i, r, k)
    BY <2>1
  <2>3. PICK s \in DOMAIN rows : \E m \in DOMAIN rows[s].infos : Is(j, s, m)
    BY <1>1
  <2>4. PICK m \in DOMAIN rows[s].infos : Is(j, s, m)
    BY <2>3
  <2>5. rows[r].infos[k].reg = rows[s].infos[m].reg
    BY <1>2, <1>7, <2>2, <2>4
  <2>6. r = s
    BY <1>3, <2>5 DEF RowsRight
  <2>7. k = m
    <3>1. CASE i.of[2] = "lane_eq_ctl"
      BY <1>2, <1>7, <2>2, <2>4, <3>1
    <3>2. CASE i.of[2] # "lane_eq_ctl"
      <4>1. rows[r].infos[k].reg # "lane_eq_ctl"
        BY <1>2, <2>2, <3>2
      <4>2. RowRight(rows[r])
        BY DEF RowsRight
      <4>3. m \in DOMAIN rows[r].infos
        BY <2>6
      <4>4. QED
        BY <2>5, <2>6, <4>1, <4>2, <4>3 DEF RowRight
    <3>3. QED
      BY <3>1, <3>2
  <2>8. QED
    BY <2>2, <2>4, <2>6, <2>7 DEF Is
<1>8. QED
  BY <1>6, <1>7

-----------------------------------------------------------------------------
(***************************************************************************)
(* The invariant.                                                          *)
(***************************************************************************)

Components == buttons \cup infos

\* Components share an element just when they are of one register, every component has
\* one that is there, and each register has both a button and a description.
Paired ==
  /\ \A c \in Components : c.at \in DOMAIN vis
  /\ \A c, e \in Components : c.of = e.of <=> c.at = e.at
  /\ {b.of : b \in buttons} = {i.of : i \in infos}

\* The places before the n-th.
Before(places, n) == {i \in places : i < n}

\* What the header and the capabilities before the next may have taken.
Room ==
  32 + 65 * Cardinality(Before(Places(dev, {Ext(25)}), next))
     + 22 * Cardinality(Before(Places(dev, WithRegisters), next))

CompInv ==
  /\ dev \in Descs /\ next \in 1..(Len(dev.caps) + 1)
  /\ pc \in {"header", "caps", "ready", "aborted"}
  /\ vis \in Seq({0, 1})
  /\ \A c \in Components : c.of[1] \in 0..(next - 1)
  /\ Paired
  /\ pc = "header" => vis = << >> /\ Components = {}
  /\ pc # "header" => Len(vis) <= Room

LEMMA Appended ==
  ASSUME NEW v \in Seq({0, 1}), NEW n \in Nat
  PROVE  /\ v \o [k \in 1..n |-> 0] \in Seq({0, 1})
         /\ Len(v \o [k \in 1..n |-> 0]) = Len(v) + n
<1>1. [k \in 1..n |-> 0] \in Seq({0, 1}) /\ Len([k \in 1..n |-> 0]) = n
  OBVIOUS
<1>2. QED
  BY <1>1

\* The components of one more capability, or of the header, disturb none of the others.
LEMMA AddPairs ==
  ASSUME vis \in Seq({0, 1}), Paired, NEW of, NEW comps, NEW regs, comps.count \in Nat,
         RowsRight(comps.rows, regs, comps.count), Add(of, comps),
         \A c \in Components : c.of[1] # of
  PROVE  /\ vis' \in Seq({0, 1}) /\ Len(vis') = Len(vis) + comps.count
         /\ Paired'
         /\ \A c \in Components' : c \in Components \/ c.of[1] = of
<1> DEFINE start == Len(vis)
           n == comps.count
           B == ButtonsOf(of, comps.rows, start)
           I == InfosOf(of, comps.rows, start)
           C == B \cup I
<1>1. buttons' = buttons \cup B /\ infos' = infos \cup I /\ vis' = vis \o [k \in 1..n |-> 0]
  BY DEF Add
<1>2. start \in Nat /\ n \in Nat /\ DOMAIN vis = 1..start
  OBVIOUS
<1>3. vis' \in Seq({0, 1}) /\ Len(vis') = start + n /\ DOMAIN vis' = 1..(start + n)
  <2>1. vis' \in Seq({0, 1}) /\ Len(vis') = start + n
    BY <1>1, Appended
  <2>2. QED
    BY <2>1
<1>4. /\ \A c \in C : c.of[1] = of /\ c.at \in Nat /\ start < c.at /\ c.at <= start + n
      /\ \A c, e \in C : c.of = e.of <=> c.at = e.at
      /\ \A b \in B : \E i \in I : i.of = b.of
      /\ \A i \in I : \E b \in B : b.of = i.of
  <2>1. C = Made(of, comps.rows, start)
    BY DEF Made
  <2>2. RowsRight(comps.rows, regs, n)
    OBVIOUS
  <2> HIDE DEF C, n, start
  <2>3. n \in Nat /\ start \in Nat
    BY <1>2
  <2>4. QED
    BY <2>1, <2>2, <2>3, MadeRight
<1> HIDE DEF start, n, B, I
<1>5. Components' = Components \cup C
  BY <1>1 DEF Components
<1>6. \A c \in Components : c.at \in Nat /\ c.at <= start /\ c.at \in 1..start
  BY <1>2 DEF Paired
<1>7. \A c \in Components' : c.at \in DOMAIN vis'
  BY <1>2, <1>3, <1>4, <1>5, <1>6
<1>8. ASSUME NEW c \in Components', NEW e \in Components' PROVE c.of = e.of <=> c.at = e.at
  <2>1. CASE c \in Components /\ e \in Components
    BY <2>1 DEF Paired
  <2>2. CASE c \in C /\ e \in C
    BY <1>4, <2>2
  <2>3. CASE c \in Components /\ e \in C
    <3>1. c.of # e.of
      BY <1>4, <2>3
    <3>2. c.at # e.at
      BY <1>2, <1>4, <1>6, <2>3
    <3>3. QED
      BY <3>1, <3>2
  <2>4. CASE c \in C /\ e \in Components
    <3>1. c.of # e.of
      BY <1>4, <2>4
    <3>2. c.at # e.at
      BY <1>2, <1>4, <1>6, <2>4
    <3>3. QED
      BY <3>1, <3>2
  <2>5. QED
    BY <1>5, <2>1, <2>2, <2>3, <2>4
<1>9. {b.of : b \in buttons'} = {i.of : i \in infos'}
  <2>1. {b.of : b \in buttons'} = {b.of : b \in buttons} \cup {b.of : b \in B}
    BY <1>1
  <2>2. {i.of : i \in infos'} = {i.of : i \in infos} \cup {i.of : i \in I}
    BY <1>1
  <2>3. {b.of : b \in B} = {i.of : i \in I}
    BY <1>4
  <2>4. QED
    BY <2>1, <2>2, <2>3 DEF Paired
<1>10. Paired'
  BY <1>7, <1>8, <1>9 DEF Paired
<1>11. QED
  BY <1>3, <1>4, <1>5, <1>10 DEF start, n

-----------------------------------------------------------------------------
(***************************************************************************)
(* The rows of each creator.                                               *)
(***************************************************************************)

LEMMA OneRight ==
  ASSUME NEW a \in RegNames
  PROVE  RowsRight(Ones(<<a>>), {a}, 1)
<1> DEFINE regs == <<a>>
<1>1. regs \in Seq(RegNames) /\ Len(regs) = 1 /\ DOMAIN regs = {1} /\ regs[1] = a
  <2>1. regs \in Seq(RegNames)
    BY ListsOf
  <2>2. Len(regs) = 1 /\ DOMAIN regs = 1..1 /\ 1..1 = {1} /\ regs[1] = a
    OBVIOUS
  <2>3. QED
    BY <2>1, <2>2
<1> HIDE DEF regs
<1>2. \A j, k \in DOMAIN regs : regs[j] = regs[k] => j = k
  BY <1>1
<1>3. {regs[k] : k \in DOMAIN regs} = {a}
  BY <1>1
<1>4. RowsRight(Ones(regs), {a}, 1)
  BY <1>1, <1>2, <1>3, OnesRight
<1>5. QED
  BY <1>4 DEF regs

LEMMA TwoRight ==
  ASSUME NEW a \in RegNames, NEW b \in RegNames, a # b
  PROVE  RowsRight(Ones(<<a, b>>), {a, b}, 2)
<1> DEFINE regs == <<a, b>>
<1>1. regs \in Seq(RegNames) /\ Len(regs) = 2 /\ DOMAIN regs = {1, 2} /\ regs[1] = a /\ regs[2] = b
  <2>1. regs \in Seq(RegNames)
    BY ListsOf
  <2>2. Len(regs) = 2 /\ DOMAIN regs = 1..2 /\ 1..2 = {1, 2} /\ regs[1] = a /\ regs[2] = b
    OBVIOUS
  <2>3. QED
    BY <2>1, <2>2
<1> HIDE DEF regs
<1>2. \A j, k \in DOMAIN regs : regs[j] = regs[k] => j = k
  BY <1>1
<1>3. {regs[k] : k \in DOMAIN regs} = {a, b}
  BY <1>1
<1>4. RowsRight(Ones(regs), {a, b}, 2)
  BY <1>1, <1>2, <1>3, OnesRight
<1>5. QED
  BY <1>4 DEF regs

LEMMA ThreeRight ==
  ASSUME NEW a \in RegNames, NEW b \in RegNames, NEW c \in RegNames, a # b, a # c, b # c
  PROVE  RowsRight(Ones(<<a, b, c>>), {a, b, c}, 3)
<1> DEFINE regs == <<a, b, c>>
<1>1. /\ regs \in Seq(RegNames) /\ Len(regs) = 3 /\ DOMAIN regs = {1, 2, 3}
      /\ regs[1] = a /\ regs[2] = b /\ regs[3] = c
  <2>1. regs \in Seq(RegNames)
    BY ListsOf
  <2>2. Len(regs) = 3 /\ DOMAIN regs = 1..3 /\ 1..3 = {1, 2, 3}
        /\ regs[1] = a /\ regs[2] = b /\ regs[3] = c
    OBVIOUS
  <2>3. QED
    BY <2>1, <2>2
<1> HIDE DEF regs
<1>2. \A j, k \in DOMAIN regs : regs[j] = regs[k] => j = k
  BY <1>1
<1>3. {regs[k] : k \in DOMAIN regs} = {a, b, c}
  BY <1>1
<1>4. RowsRight(Ones(regs), {a, b, c}, 3)
  BY <1>1, <1>2, <1>3, OnesRight
<1>5. QED
  BY <1>4 DEF regs

\* Seven registers, a row each.
LEMMA SevenRight ==
  ASSUME NEW a \in RegNames, NEW b \in RegNames, NEW c \in RegNames, NEW d \in RegNames,
         NEW e \in RegNames, NEW f \in RegNames, NEW g \in RegNames,
         a # b, a # c, a # d, a # e, a # f, a # g, b # c, b # d, b # e, b # f, b # g,
         c # d, c # e, c # f, c # g, d # e, d # f, d # g, e # f, e # g, f # g
  PROVE  RowsRight(Ones(<<a, b, c, d, e, f, g>>), {a, b, c, d, e, f, g}, 7)
<1> DEFINE regs == <<a, b, c, d, e, f, g>>
<1>1. /\ regs \in Seq(RegNames) /\ Len(regs) = 7 /\ DOMAIN regs = {1, 2, 3, 4, 5, 6, 7}
      /\ regs[1] = a /\ regs[2] = b /\ regs[3] = c /\ regs[4] = d
      /\ regs[5] = e /\ regs[6] = f /\ regs[7] = g
  <2>1. regs \in Seq(RegNames)
    BY LongListOf
  <2>2. Len(regs) = 7 /\ DOMAIN regs = 1..7 /\ 1..7 = {1, 2, 3, 4, 5, 6, 7}
    OBVIOUS
  <2>3. /\ regs[1] = a /\ regs[2] = b /\ regs[3] = c /\ regs[4] = d
        /\ regs[5] = e /\ regs[6] = f /\ regs[7] = g
    OBVIOUS
  <2>4. QED
    BY <2>1, <2>2, <2>3
<1> HIDE DEF regs
<1>2. \A j, k \in DOMAIN regs : regs[j] = regs[k] => j = k
  <2>1. SUFFICES ASSUME NEW j \in DOMAIN regs, NEW k \in DOMAIN regs, regs[j] = regs[k]
                 PROVE  j = k
    OBVIOUS
  <2>2. j \in {1, 2, 3, 4, 5, 6, 7} /\ k \in {1, 2, 3, 4, 5, 6, 7}
    BY <1>1
  <2>3. CASE j = 1
    BY <1>1, <2>1, <2>2, <2>3
  <2>4. CASE j = 2
    BY <1>1, <2>1, <2>2, <2>4
  <2>5. CASE j = 3
    BY <1>1, <2>1, <2>2, <2>5
  <2>6. CASE j = 4
    BY <1>1, <2>1, <2>2, <2>6
  <2>7. CASE j = 5
    BY <1>1, <2>1, <2>2, <2>7
  <2>8. CASE j = 6
    BY <1>1, <2>1, <2>2, <2>8
  <2>9. CASE j = 7
    BY <1>1, <2>1, <2>2, <2>9
  <2>10. QED
    BY <2>2, <2>3, <2>4, <2>5, <2>6, <2>7, <2>8, <2>9
<1>3. {regs[k] : k \in DOMAIN regs} = {a, b, c, d, e, f, g}
  BY <1>1
<1>4. RowsRight(Ones(regs), {regs[k] : k \in DOMAIN regs}, Len(regs))
  BY <1>1, <1>2, OnesRight
<1>5. RowsRight(Ones(regs), {a, b, c, d, e, f, g}, 7)
  BY <1>1, <1>3, <1>4
<1>6. QED
  BY <1>5 DEF regs

\* What a creator returns: as many elements as it appends, and rows of the registers that
\* need no more.
Creates(comps, max, regs) ==
  comps.count \in 0..max /\ RowsRight(comps.rows, regs, comps.count)

LEMMA HeaderCommonRight == RowsRight(HeaderCommon, HeaderRegs, 10)
<1> DEFINE A == Row(<<"dev_id", "vid">>, <<2, 1>>)
           RA == {"dev_id", "vid"}
           B == Row(<<"status", "command">>, <<2, 1>>)
           RB == {"status", "command"}
           C == Row(<<"class_code", "revision">>, <<2, 1>>)
           RC == {"class_code", "revision"}
           D == Row(<<"bist", "header_type", "latency_timer", "cache_line_size">>,
                  <<4, 3, 2, 1>>)
           RD == {"bist", "header_type", "latency_timer", "cache_line_size"}
<1>1. RowsRight(A, RA, 2)
  BY PairRight DEF RegNames, HeaderRegs
<1>2. RowsRight(B, RB, 2)
  BY PairRight DEF RegNames, HeaderRegs
<1>3. RowsRight(C, RC, 2)
  BY PairRight DEF RegNames, HeaderRegs
<1>4. RowsRight(D, RD, 4)
  BY QuadRight DEF RegNames, HeaderRegs
<1>5. HeaderCommon = A \o B \o C \o D
  BY DEF HeaderCommon
<1> HIDE DEF A, B, C, D
<1>6. RowsRight(A \o B, RA \cup RB, 2 + 2)
  BY <1>1, <1>2, BothRight
<1>7. RowsRight(A \o B \o C, RA \cup RB \cup RC, 2 + 2 + 2)
  BY <1>6, <1>3, BothRight
<1>8. RowsRight(A \o B \o C \o D, RA \cup RB \cup RC \cup RD, 2 + 2 + 2 + 4)
  BY <1>7, <1>4, BothRight
<1>9. QED
  BY <1>5, <1>8, WiderRight DEF HeaderRegs

LEMMA HeaderType0Right == RowsRight(HeaderType0, Type0Regs, 15)
<1> DEFINE A == Ones(<<"bar0", "bar1", "bar2", "bar3", "bar4", "bar5", "cardbus_cis_ptr">>)
           RA == {"bar0", "bar1", "bar2", "bar3", "bar4", "bar5", "cardbus_cis_ptr"}
           B == Row(<<"subsys_dev_id", "subsys_vid">>, <<2, 1>>)
           RB == {"subsys_dev_id", "subsys_vid"}
           C == Ones(<<"exp_rom_bar", "cap_ptr">>)
           RC == {"exp_rom_bar", "cap_ptr"}
           D == Row(<<"max_lat", "min_gnt", "itr_pin", "itr_line">>, <<4, 3, 2, 1>>)
           RD == {"max_lat", "min_gnt", "itr_pin", "itr_line"}
<1>1. RowsRight(A, RA, 7)
  BY SevenRight DEF RegNames, Type0Regs
<1>2. RowsRight(B, RB, 2)
  BY PairRight DEF RegNames, Type0Regs
<1>3. RowsRight(C, RC, 2)
  BY TwoRight DEF RegNames, Type0Regs
<1>4. RowsRight(D, RD, 4)
  BY QuadRight DEF RegNames, Type0Regs
<1>5. HeaderType0 = A \o B \o C \o D
  BY DEF HeaderType0
<1> HIDE DEF A, B, C, D
<1>6. RowsRight(A \o B, RA \cup RB, 7 + 2)
  BY <1>1, <1>2, BothRight
<1>7. RowsRight(A \o B \o C, RA \cup RB \cup RC, 7 + 2 + 2)
  <2>1. (RA \cup RB) \cap RC = {}
    OBVIOUS
  <2> HIDE DEF RA, RB, RC
  <2>2. QED
    BY <1>6, <1>3, <2>1, BothRight
<1>8. RowsRight(A \o B \o C \o D, RA \cup RB \cup RC \cup RD, 7 + 2 + 2 + 4)
  <2>1. (RA \cup RB \cup RC) \cap RD = {}
    OBVIOUS
  <2> HIDE DEF RA, RB, RC, RD
  <2>2. QED
    BY <1>7, <1>4, <2>1, BothRight
<1>9. QED
  BY <1>5, <1>8, WiderRight DEF Type0Regs

LEMMA HeaderType1Right == RowsRight(HeaderType1, Type1Regs, 22)
<1> DEFINE A == Ones(<<"bar0", "bar1">>)
           RA == {"bar0", "bar1"}
           B == Row(<<"sec_lat_timer", "sub_bus_num", "sec_bus_num", "prim_bus_num">>,
                  <<4, 3, 2, 1>>)
           RB == {"sec_lat_timer", "sub_bus_num", "sec_bus_num", "prim_bus_num"}
           C == Row(<<"sec_status", "io_limit", "io_base">>, <<3, 2, 1>>)
           RC == {"sec_status", "io_limit", "io_base"}
           D == Row(<<"mem_limit", "mem_base">>, <<2, 1>>)
           RD == {"mem_limit", "mem_base"}
           E == Row(<<"pref_mem_limit", "pref_mem_base">>, <<2, 1>>)
           RE == {"pref_mem_limit", "pref_mem_base"}
           F == Ones(<<"pref_base_upper", "pref_limit_upper">>)
           RF == {"pref_base_upper", "pref_limit_upper"}
           G == Row(<<"io_limit_upper", "io_base_upper">>, <<2, 1>>)
           RG == {"io_limit_upper", "io_base_upper"}
           H == Ones(<<"cap_ptr", "exp_rom_bar">>)
           RH == {"cap_ptr", "exp_rom_bar"}
           I == Row(<<"bridge_ctl", "itr_pin", "itr_line">>, <<3, 2, 1>>)
           RI == {"bridge_ctl", "itr_pin", "itr_line"}
<1>1. RowsRight(A, RA, 2)
  BY TwoRight DEF RegNames, Type1Regs
<1>2. RowsRight(B, RB, 4)
  BY QuadRight DEF RegNames, Type1Regs
<1>3. RowsRight(C, RC, 3)
  BY TripleRight DEF RegNames, Type1Regs
<1>4. RowsRight(D, RD, 2)
  BY PairRight DEF RegNames, Type1Regs
<1>5. RowsRight(E, RE, 2)
  BY PairRight DEF RegNames, Type1Regs
<1>6. RowsRight(F, RF, 2)
  BY TwoRight DEF RegNames, Type1Regs
<1>7. RowsRight(G, RG, 2)
  BY PairRight DEF RegNames, Type1Regs
<1>8. RowsRight(H, RH, 2)
  BY TwoRight DEF RegNames, Type1Regs
<1>9. RowsRight(I, RI, 3)
  BY TripleRight DEF RegNames, Type1Regs
<1>10. HeaderType1 = A \o B \o C \o D \o E \o F \o G \o H \o I
  BY DEF HeaderType1
<1> HIDE DEF A, B, C, D, E, F, G, H, I
<1>11. RowsRight(A \o B, RA \cup RB, 2 + 4)
  BY <1>1, <1>2, BothRight
<1>12. RowsRight(A \o B \o C, RA \cup RB \cup RC, 2 + 4 + 3)
  BY <1>11, <1>3, BothRight
<1>13. RowsRight(A \o B \o C \o D, RA \cup RB \cup RC \cup RD, 2 + 4 + 3 + 2)
  BY <1>12, <1>4, BothRight
<1>14. RowsRight(A \o B \o C \o D \o E, RA \cup RB \cup RC \cup RD \cup RE, 2 + 4 + 3 + 2 + 2)
  BY <1>13, <1>5, BothRight
<1>15. RowsRight(A \o B \o C \o D \o E \o F,
                 RA \cup RB \cup RC \cup RD \cup RE \cup RF, 2 + 4 + 3 + 2 + 2 + 2)
  BY <1>14, <1>6, BothRight
<1>16. RowsRight(A \o B \o C \o D \o E \o F \o G,
                 RA \cup RB \cup RC \cup RD \cup RE \cup RF \cup RG, 2 + 4 + 3 + 2 + 2 + 2 + 2)
  BY <1>15, <1>7, BothRight
<1>17. RowsRight(A \o B \o C \o D \o E \o F \o G \o H,
                 RA \cup RB \cup RC \cup RD \cup RE \cup RF \cup RG \cup RH,
                 2 + 4 + 3 + 2 + 2 + 2 + 2 + 2)
  BY <1>16, <1>8, BothRight
<1>18. RowsRight(A \o B \o C \o D \o E \o F \o G \o H \o I,
                 RA \cup RB \cup RC \cup RD \cup RE \cup RF \cup RG \cup RH \cup RI,
                 2 + 4 + 3 + 2 + 2 + 2 + 2 + 2 + 3)
  BY <1>17, <1>9, BothRight
<1>19. QED
  BY <1>10, <1>18, WiderRight DEF Type1Regs

ExpressDeviceRegs == {"pcie_cap", "dev_cap", "dev_status", "dev_ctl"}

LEMMA ExpressDeviceRight == RowsRight(ExpressDevice, ExpressDeviceRegs, 4)
<1> DEFINE A == Ones(<<"pcie_cap", "dev_cap">>)
           RA == {"pcie_cap", "dev_cap"}
           B == Row(<<"dev_status", "dev_ctl">>, <<2, 1>>)
           RB == {"dev_status", "dev_ctl"}
<1>1. RowsRight(A, RA, 2)
  BY TwoRight DEF RegNames, ExpressRegs
<1>2. RowsRight(B, RB, 2)
  BY PairRight DEF RegNames, ExpressRegs
<1>3. ExpressDevice = A \o B
  BY DEF ExpressDevice
<1> HIDE DEF A, B
<1>4. RowsRight(A \o B, RA \cup RB, 2 + 2)
  BY <1>1, <1>2, BothRight
<1>5. QED
  BY <1>3, <1>4, WiderRight DEF ExpressDeviceRegs

ExpressLinkRegs == {"link_cap", "link_status", "link_ctl"}

LEMMA ExpressLinkRight ==
  ASSUME NEW d \in Descs
  PROVE  RowsRight(ExpressLink(d), ExpressLinkRegs, 3)
<1> DEFINE A == When("link_cap" \in d.facts, Ones(<<"link_cap">>))
           RA == {"link_cap"}
           B == When("link_ctl" \in d.facts, Row(<<"link_status", "link_ctl">>, <<2, 1>>))
           RB == {"link_status", "link_ctl"}
<1>1. RowsRight(A, RA, 1)
  <2>1. RowsRight(Ones(<<"link_cap">>), RA, 1)
    BY OneRight DEF RegNames, ExpressRegs
  <2>2. QED
    BY <2>1, WhenRight
<1>2. RowsRight(B, RB, 2)
  <2>1. RowsRight(Row(<<"link_status", "link_ctl">>, <<2, 1>>), RB, 2)
    BY PairRight DEF RegNames, ExpressRegs
  <2>2. QED
    BY <2>1, WhenRight
<1>3. ExpressLink(d) = A \o B
  BY DEF ExpressLink
<1> HIDE DEF A, B
<1>4. RowsRight(A \o B, RA \cup RB, 1 + 2)
  BY <1>1, <1>2, BothRight
<1>5. QED
  BY <1>3, <1>4, WiderRight DEF ExpressLinkRegs

ExpressSlotRegs == {"slot_cap", "slot_status", "slot_ctl"}

LEMMA ExpressSlotRight ==
  ASSUME NEW d \in Descs
  PROVE  RowsRight(ExpressSlot(d), ExpressSlotRegs, 3)
<1> DEFINE A == When("slot_cap" \in d.facts, Ones(<<"slot_cap">>))
           RA == {"slot_cap"}
           B == When("slot_ctl" \in d.facts, Row(<<"slot_status", "slot_ctl">>, <<2, 1>>))
           RB == {"slot_status", "slot_ctl"}
<1>1. RowsRight(A, RA, 1)
  <2>1. RowsRight(Ones(<<"slot_cap">>), RA, 1)
    BY OneRight DEF RegNames, ExpressRegs
  <2>2. QED
    BY <2>1, WhenRight
<1>2. RowsRight(B, RB, 2)
  <2>1. RowsRight(Row(<<"slot_status", "slot_ctl">>, <<2, 1>>), RB, 2)
    BY PairRight DEF RegNames, ExpressRegs
  <2>2. QED
    BY <2>1, WhenRight
<1>3. ExpressSlot(d) = A \o B
  BY DEF ExpressSlot
<1> HIDE DEF A, B
<1>4. RowsRight(A \o B, RA \cup RB, 1 + 2)
  BY <1>1, <1>2, BothRight
<1>5. QED
  BY <1>3, <1>4, WiderRight DEF ExpressSlotRegs

ExpressRootRegs == {"root_cap", "root_ctl", "root_status"}

LEMMA ExpressRootRight ==
  ASSUME NEW d \in Descs
  PROVE  RowsRight(ExpressRoot(d), ExpressRootRegs, 3)
<1> DEFINE A == When("root_ctl" \in d.facts, Row(<<"root_cap", "root_ctl">>, <<2, 1>>))
           RA == {"root_cap", "root_ctl"}
           B == When("root_status" \in d.facts, Ones(<<"root_status">>))
           RB == {"root_status"}
<1>1. RowsRight(A, RA, 2)
  <2>1. RowsRight(Row(<<"root_cap", "root_ctl">>, <<2, 1>>), RA, 2)
    BY PairRight DEF RegNames, ExpressRegs
  <2>2. QED
    BY <2>1, WhenRight
<1>2. RowsRight(B, RB, 1)
  <2>1. RowsRight(Ones(<<"root_status">>), RB, 1)
    BY OneRight DEF RegNames, ExpressRegs
  <2>2. QED
    BY <2>1, WhenRight
<1>3. ExpressRoot(d) = A \o B
  BY DEF ExpressRoot
<1> HIDE DEF A, B
<1>4. RowsRight(A \o B, RA \cup RB, 2 + 1)
  BY <1>1, <1>2, BothRight
<1>5. QED
  BY <1>3, <1>4, WiderRight DEF ExpressRootRegs

ExpressDevice2Regs == {"dev_cap_2", "dev_ctl2"}

LEMMA ExpressDevice2Right ==
  ASSUME NEW d \in Descs
  PROVE  RowsRight(ExpressDevice2(d), ExpressDevice2Regs, 2)
<1> DEFINE A == When("dev_cap_2" \in d.facts, Ones(<<"dev_cap_2">>))
           RA == {"dev_cap_2"}
           B == When("dev_ctl2" \in d.facts, Ones(<<"dev_ctl2">>))
           RB == {"dev_ctl2"}
<1>1. RowsRight(A, RA, 1)
  <2>1. RowsRight(Ones(<<"dev_cap_2">>), RA, 1)
    BY OneRight DEF RegNames, ExpressRegs
  <2>2. QED
    BY <2>1, WhenRight
<1>2. RowsRight(B, RB, 1)
  <2>1. RowsRight(Ones(<<"dev_ctl2">>), RB, 1)
    BY OneRight DEF RegNames, ExpressRegs
  <2>2. QED
    BY <2>1, WhenRight
<1>3. ExpressDevice2(d) = A \o B
  BY DEF ExpressDevice2
<1> HIDE DEF A, B
<1>4. RowsRight(A \o B, RA \cup RB, 1 + 1)
  BY <1>1, <1>2, BothRight
<1>5. QED
  BY <1>3, <1>4, WiderRight DEF ExpressDevice2Regs

ExpressLink2Regs == {"link_cap2", "link_status2", "link_ctl2"}

LEMMA ExpressLink2Right ==
  ASSUME NEW d \in Descs
  PROVE  RowsRight(ExpressLink2(d), ExpressLink2Regs, 3)
<1> DEFINE A == When("link_cap2" \in d.facts, Ones(<<"link_cap2">>))
           RA == {"link_cap2"}
           B == When("link_ctl2" \in d.facts,
                     Row(<<"link_status2", "link_ctl2">>, <<2, 1>>))
           RB == {"link_status2", "link_ctl2"}
<1>1. RowsRight(A, RA, 1)
  <2>1. RowsRight(Ones(<<"link_cap2">>), RA, 1)
    BY OneRight DEF RegNames, ExpressRegs
  <2>2. QED
    BY <2>1, WhenRight
<1>2. RowsRight(B, RB, 2)
  <2>1. RowsRight(Row(<<"link_status2", "link_ctl2">>, <<2, 1>>), RB, 2)
    BY PairRight DEF RegNames, ExpressRegs
  <2>2. QED
    BY <2>1, WhenRight
<1>3. ExpressLink2(d) = A \o B
  BY DEF ExpressLink2
<1> HIDE DEF A, B
<1>4. RowsRight(A \o B, RA \cup RB, 1 + 2)
  BY <1>1, <1>2, BothRight
<1>5. QED
  BY <1>3, <1>4, WiderRight DEF ExpressLink2Regs

LEMMA PCIECapRight ==
  ASSUME NEW d \in Descs
  PROVE  RowsRight(CompatPCIECap(d).rows, ExpressRegs, 22)
<1> DEFINE A == ExpressDevice
           RA == ExpressDeviceRegs
           B == ExpressLink(d)
           RB == ExpressLinkRegs
           C == ExpressSlot(d)
           RC == ExpressSlotRegs
           D == ExpressRoot(d)
           RD == ExpressRootRegs
           E == ExpressDevice2(d)
           RE == ExpressDevice2Regs
           F == ExpressLink2(d)
           RF == ExpressLink2Regs
<1>1. RowsRight(A, RA, 4)
  BY ExpressDeviceRight
<1>2. RowsRight(B, RB, 3)
  BY ExpressLinkRight
<1>3. RowsRight(C, RC, 3)
  BY ExpressSlotRight
<1>4. RowsRight(D, RD, 3)
  BY ExpressRootRight
<1>5. RowsRight(E, RE, 2)
  BY ExpressDevice2Right
<1>6. RowsRight(F, RF, 3)
  BY ExpressLink2Right
<1>7. CompatPCIECap(d).rows = A \o B \o C \o D \o E \o F
  BY DEF CompatPCIECap
<1> HIDE DEF A, B, C, D, E, F
<1>8. RowsRight(A \o B, RA \cup RB, 4 + 3)
  BY <1>1, <1>2, BothRight DEF ExpressDeviceRegs, ExpressLinkRegs
<1>9. RowsRight(A \o B \o C, RA \cup RB \cup RC, 4 + 3 + 3)
  BY <1>8, <1>3, BothRight DEF ExpressDeviceRegs, ExpressLinkRegs, ExpressSlotRegs
<1>10. RowsRight(A \o B \o C \o D, RA \cup RB \cup RC \cup RD, 4 + 3 + 3 + 3)
  BY <1>9, <1>4, BothRight
  DEF ExpressDeviceRegs, ExpressLinkRegs, ExpressRootRegs, ExpressSlotRegs
<1>11. RowsRight(A \o B \o C \o D \o E, RA \cup RB \cup RC \cup RD \cup RE, 4 + 3 + 3 + 3 + 2)
  <2>1. (RA \cup RB \cup RC \cup RD) \cap RE = {}
    BY DEF ExpressDeviceRegs, ExpressLinkRegs, ExpressSlotRegs, ExpressRootRegs, ExpressDevice2Regs
  <2> HIDE DEF RA, RB, RC, RD, RE
  <2>2. QED
    BY <1>5, <1>10, <2>1, BothRight
<1>12. RowsRight(A \o B \o C \o D \o E \o F,
                 RA \cup RB \cup RC \cup RD \cup RE \cup RF, 4 + 3 + 3 + 3 + 2 + 3)
  <2>1. (RA \cup RB \cup RC \cup RD \cup RE) \cap RF = {}
    BY DEF ExpressDeviceRegs, ExpressLinkRegs, ExpressSlotRegs, ExpressRootRegs,
           ExpressDevice2Regs, ExpressLink2Regs
  <2> HIDE DEF RA, RB, RC, RD, RE, RF
  <2>2. 4 + 3 + 3 + 3 + 2 \in Nat /\ 3 \in Nat
    OBVIOUS
  <2>3. QED
    BY <1>6, <1>11, <2>1, <2>2, BothRight
<1>13. RA \cup RB \cup RC \cup RD \cup RE \cup RF \subseteq ExpressRegs
  BY DEF ExpressDeviceRegs, ExpressLinkRegs, ExpressSlotRegs, ExpressRootRegs,
         ExpressDevice2Regs, ExpressLink2Regs, ExpressRegs
<1>14. 4 + 3 + 3 + 3 + 2 + 3 \in Nat /\ 4 + 3 + 3 + 3 + 2 + 3 <= 22
  OBVIOUS
<1> HIDE DEF RA, RB, RC, RD, RE, RF
<1>15. QED
  BY <1>7, <1>12, <1>13, <1>14, WiderRight

LEMMA AERRight ==
  ASSUME NEW d \in Descs
  PROVE  RowsRight(AERErrors \o AERRoot(d) \o AERPrefixLog(d), AERRegs, 12)
<1> DEFINE A == Ones(<<"uncorr_err_stat", "uncorr_err_mask", "uncorr_err_sev",
                "corr_err_stat", "corr_err_mask", "adv_err_cap_ctl", "hdr_log">>)
           RA == {"uncorr_err_stat", "uncorr_err_mask", "uncorr_err_sev", "corr_err_stat",
                 "corr_err_mask", "adv_err_cap_ctl", "hdr_log"}
           B == When("root_port" \in d.facts, Ones(<<"root_err_cmd", "root_err_status",
                "err_src_id">>))
           RB == {"root_err_cmd", "root_err_status", "err_src_id"}
           C == When("tlp_pref_log" \in d.facts, Ones(<<"tlp_pref_log">>))
           RC == {"tlp_pref_log"}
<1>1. RowsRight(A, RA, 7)
  BY SevenRight DEF RegNames, AERRegs
<1>2. RowsRight(B, RB, 3)
  <2>1. RowsRight(Ones(<<"root_err_cmd", "root_err_status", "err_src_id">>), RB, 3)
    BY ThreeRight DEF RegNames, AERRegs
  <2>2. QED
    BY <2>1, WhenRight
<1>3. RowsRight(C, RC, 1)
  <2>1. RowsRight(Ones(<<"tlp_pref_log">>), RC, 1)
    BY OneRight DEF RegNames, AERRegs
  <2>2. QED
    BY <2>1, WhenRight
<1>4. AERErrors \o AERRoot(d) \o AERPrefixLog(d) = A \o B \o C
  BY DEF AERErrors, AERRoot, AERPrefixLog
<1> HIDE DEF A, B, C
<1>5. RowsRight(A \o B, RA \cup RB, 7 + 3)
  BY <1>1, <1>2, BothRight
<1>6. RowsRight(A \o B \o C, RA \cup RB \cup RC, 7 + 3 + 1)
  <2>1. (RA \cup RB) \cap RC = {}
    OBVIOUS
  <2> HIDE DEF RA, RB, RC
  <2>2. QED
    <3>1. 7 + 3 \in Nat /\ 1 \in Nat
      OBVIOUS
    <3>2. QED
      BY <1>5, <1>3, <2>1, <3>1, BothRight
<1>7. QED
  BY <1>4, <1>6, WiderRight DEF AERRegs

LEMMA HeaderCreated ==
  ASSUME NEW d \in Descs
  PROVE  Creates(CompatHeader(d), 32, HeaderRegsOf(d.type))
<1>1. CASE d.type = "TYPE0"
  <2>1. HeaderRegs \cap Type0Regs = {}
    BY DEF HeaderRegs, Type0Regs
  <2>2. RowsRight(HeaderCommon \o HeaderType0, HeaderRegs \cup Type0Regs, 10 + 15)
    BY <2>1, HeaderCommonRight, HeaderType0Right, BothRight
  <2>3. CompatHeader(d).count = 25 /\ CompatHeader(d).rows = HeaderCommon \o HeaderType0
    BY <1>1 DEF CompatHeader
  <2>4. HeaderRegs \cup Type0Regs \subseteq HeaderRegsOf(d.type)
    BY <1>1 DEF HeaderRegs, Type0Regs, HeaderRegsOf, Type0Cfg
  <2>5. RowsRight(CompatHeader(d).rows, HeaderRegsOf(d.type), 25)
    BY <2>2, <2>3, <2>4, WiderRight
  <2>6. QED
    BY <2>3, <2>5 DEF Creates
<1>2. CASE d.type # "TYPE0"
  <2>1. HeaderRegs \cap Type1Regs = {}
    BY DEF HeaderRegs, Type1Regs
  <2>2. RowsRight(HeaderCommon \o HeaderType1, HeaderRegs \cup Type1Regs, 10 + 22)
    BY <2>1, HeaderCommonRight, HeaderType1Right, BothRight
  <2>3. CompatHeader(d).count = 32 /\ CompatHeader(d).rows = HeaderCommon \o HeaderType1
    BY <1>2 DEF CompatHeader
  <2>4. HeaderRegs \cup Type1Regs \subseteq HeaderRegsOf(d.type)
    BY <1>2 DEF HeaderRegs, Type1Regs, HeaderRegsOf, Type1Cfg
  <2>5. RowsRight(CompatHeader(d).rows, HeaderRegsOf(d.type), 32)
    BY <2>2, <2>3, <2>4, WiderRight
  <2>6. QED
    BY <2>3, <2>5 DEF Creates
<1>3. QED
  BY <1>1, <1>2

LEMMA NothingCreated ==
  ASSUME NEW regs, NEW max \in Nat
  PROVE  Creates(NotImplCap, max, regs)
<1>1. RowsRight(<< >>, regs, 0)
  BY NoneRight, WiderRight
<1>2. QED
  BY <1>1 DEF Creates, NotImplCap

\* An address has one register or two.
AddressRegs(a) == IF a THEN {"msg_addr_lower", "msg_addr_upper"} ELSE {"msg_addr"}

LEMMA MSIAddressRight ==
  ASSUME NEW d \in Descs
  PROVE  \E n \in {1, 2} :
           /\ n = Len(MSIAddress(d)[1].buttons)
           /\ RowsRight(MSIAddress(d), AddressRegs(HasAddr64(d)), n)
<1>1. CASE HasAddr64(d)
  <2>1. MSIAddress(d) = Row(<<"msg_addr_lower", "msg_addr_upper">>, <<2, 1>>)
    BY <1>1 DEF MSIAddress, HasAddr64
  <2>2. RowsRight(MSIAddress(d), {"msg_addr_lower", "msg_addr_upper"}, 2)
    BY <2>1, PairRight DEF RegNames, SmallRegs
  <2>3. MSIAddress(d)[1].buttons = <<"msg_addr_lower", "msg_addr_upper">>
    BY <2>1 DEF Row, RowOf
  <2>4. Len(MSIAddress(d)[1].buttons) = 2
    BY <2>3
  <2>5. QED
    BY <1>1, <2>2, <2>4 DEF AddressRegs
<1>2. CASE ~HasAddr64(d)
  <2>1. MSIAddress(d) = Ones(<<"msg_addr">>)
    BY <1>2 DEF MSIAddress, HasAddr64
  <2>2. RowsRight(MSIAddress(d), {"msg_addr"}, 1)
    BY <2>1, OneRight DEF RegNames, SmallRegs
  <2>3. MSIAddress(d)[1].buttons = <<"msg_addr">>
    BY <2>1 DEF Ones, RowOf
  <2>4. Len(MSIAddress(d)[1].buttons) = 1
    BY <2>3
  <2>5. QED
    BY <1>2, <2>2, <2>4 DEF AddressRegs
<1>3. QED
  BY <1>1, <1>2

LEMMA MSICapCreated ==
  ASSUME NEW d \in Descs
  PROVE  Creates(CompatMSICap(d), 22, MSIRegs(HasAddr64(d), HasMasks(d)))
<1> DEFINE A == Ones(<<"msg_ctrl">>)
           B == MSIAddress(d)
           C == Row(<<"ext_msg_data", "msg_data">>, <<2, 1>>)
           M == Row(<<"mask_bits", "pending_bits">>, <<2, 1>>)
           D == When("per_vector_mask" \in d.facts, M)
           RB == AddressRegs(HasAddr64(d))
           RD == IF HasMasks(d) THEN {"mask_bits", "pending_bits"} ELSE {}
           m == IF "per_vector_mask" \in d.facts THEN 2 ELSE 0
<1>1. RowsRight(A, {"msg_ctrl"}, 1)
  BY OneRight DEF RegNames, SmallRegs
<1>2. PICK n \in {1, 2} : n = Len(B[1].buttons) /\ RowsRight(B, RB, n)
  BY MSIAddressRight
<1>3. RowsRight(C, {"ext_msg_data", "msg_data"}, 2)
  BY PairRight DEF RegNames, SmallRegs
<1>4. RowsRight(D, RD, m)
  <2>1. CASE HasMasks(d)
    <3>1. RowsRight(M, {"mask_bits", "pending_bits"}, 2)
      BY PairRight DEF RegNames, SmallRegs
    <3>2. QED
      BY <2>1, <3>1 DEF When, HasMasks
  <2>2. CASE ~HasMasks(d)
    <3>1. D = << >> /\ m = 0 /\ RD = {}
      BY <2>2 DEF When, HasMasks
    <3>2. QED
      BY <3>1, NoneRight
  <2>3. QED
    BY <2>1, <2>2
<1>5. CompatMSICap(d).rows = A \o B \o C \o D /\ CompatMSICap(d).count = 1 + n + 2 + m
  BY <1>2 DEF CompatMSICap
<1>6. m \in 0..2
  OBVIOUS
<1> HIDE DEF A, B, C, D, m
<1>7. RowsRight(A \o B, {"msg_ctrl"} \cup RB, 1 + n)
  BY <1>1, <1>2, BothRight DEF AddressRegs
<1>8. RowsRight(A \o B \o C, {"msg_ctrl"} \cup RB \cup {"ext_msg_data", "msg_data"}, 1 + n + 2)
  <2>1. ({"msg_ctrl"} \cup RB) \cap {"ext_msg_data", "msg_data"} = {}
    BY DEF AddressRegs
  <2>2. 1 + n \in Nat /\ 2 \in Nat
    BY <1>2
  <2> HIDE DEF RB
  <2>3. QED
    BY <1>3, <1>7, <2>1, <2>2, BothRight
<1>9. RowsRight(A \o B \o C \o D,
                {"msg_ctrl"} \cup RB \cup {"ext_msg_data", "msg_data"} \cup RD, 1 + n + 2 + m)
  <2>1. ({"msg_ctrl"} \cup RB \cup {"ext_msg_data", "msg_data"}) \cap RD = {}
    BY DEF AddressRegs
  <2>2. m \in Nat /\ 1 + n + 2 \in Nat
    BY <1>2, <1>6
  <2> HIDE DEF RB, RD
  <2>3. QED
    BY <1>4, <1>8, <2>1, <2>2, BothRight
<1>10. CompatMSICap(d).count \in 0..22
  <2>1. n \in {1, 2}
    BY <1>2
  <2>2. 1 + n + 2 + m \in 0..22
    BY <1>6, <2>1
  <2>3. QED
    BY <1>5, <2>2
<1>11. {"msg_ctrl"} \cup RB \cup {"ext_msg_data", "msg_data"} \cup RD
         = MSIRegs(HasAddr64(d), HasMasks(d))
  <2> DEFINE a == HasAddr64(d)
             v == HasMasks(d)
  <2>1. RB = (IF a THEN {"msg_addr_lower", "msg_addr_upper"} ELSE {"msg_addr"})
    BY DEF AddressRegs
  <2>2. MSIRegs(a, v) = {"msg_ctrl", "msg_data", "ext_msg_data"} \cup RB \cup RD
    BY <2>1 DEF MSIRegs
  <2> HIDE DEF RB, RD, a, v
  <2>3. QED
    BY <2>2 DEF a, v
<1> HIDE DEF RB, RD
<1>12. QED
  BY <1>5, <1>9, <1>10, <1>11 DEF Creates

LEMMA SmallCapsCreated ==
  /\ Creates(CompatPMCap, 22, {"pmcap", "pmcs"})
  /\ Creates(CompatVendorSpecCap, 22, {"vendor_spec"})
  /\ Creates(CompatMSIxCap, 22, {"msg_ctrl", "tbl_off", "pba_off"})
  /\ Creates(ExtARICap, 22, {"ari_cap", "ari_ctl"})
  /\ Creates(ExtPASIDCap, 22, {"pasid_cap", "pasid_ctl"})
  /\ Creates(ExtDataLinkFeatureCap, 22, {"dlink_feat_cap", "dlink_feat_stat"})
<1>1. Creates(CompatPMCap, 22, {"pmcap", "pmcs"})
  <2>1. RowsRight(CompatPMCap.rows, {"pmcap", "pmcs"}, 2)
    BY PairRight DEF RegNames, SmallRegs, CompatPMCap
  <2>2. QED
    BY <2>1 DEF Creates, CompatPMCap
<1>2. Creates(CompatVendorSpecCap, 22, {"vendor_spec"})
  <2>1. RowsRight(CompatVendorSpecCap.rows, {"vendor_spec"}, 1)
    BY OneRight DEF RegNames, SmallRegs, CompatVendorSpecCap
  <2>2. QED
    BY <2>1 DEF Creates, CompatVendorSpecCap
<1>3. Creates(CompatMSIxCap, 22, {"msg_ctrl", "tbl_off", "pba_off"})
  <2>1. RowsRight(CompatMSIxCap.rows, {"msg_ctrl", "tbl_off", "pba_off"}, 3)
    BY ThreeRight DEF RegNames, SmallRegs, CompatMSIxCap
  <2>2. QED
    BY <2>1 DEF Creates, CompatMSIxCap
<1>4. Creates(ExtARICap, 22, {"ari_cap", "ari_ctl"})
  <2>1. RowsRight(ExtARICap.rows, {"ari_cap", "ari_ctl"}, 2)
    BY TwoRight DEF RegNames, ExtRegs, ExtARICap
  <2>2. QED
    BY <2>1 DEF Creates, ExtARICap
<1>5. Creates(ExtPASIDCap, 22, {"pasid_cap", "pasid_ctl"})
  <2>1. RowsRight(ExtPASIDCap.rows, {"pasid_cap", "pasid_ctl"}, 2)
    BY TwoRight DEF RegNames, ExtRegs, ExtPASIDCap
  <2>2. QED
    BY <2>1 DEF Creates, ExtPASIDCap
<1>6. Creates(ExtDataLinkFeatureCap, 22, {"dlink_feat_cap", "dlink_feat_stat"})
  <2>1. RowsRight(ExtDataLinkFeatureCap.rows, {"dlink_feat_cap", "dlink_feat_stat"}, 2)
    BY TwoRight DEF RegNames, ExtRegs, ExtDataLinkFeatureCap
  <2>2. QED
    BY <2>1 DEF Creates, ExtDataLinkFeatureCap
<1>7. QED
  BY <1>1, <1>2, <1>3, <1>4, <1>5, <1>6

LEMMA ExpressCreated ==
  ASSUME NEW d \in Descs
  PROVE  Creates(CompatPCIECap(d), 22, ExpressRegs) /\ Creates(ExtAERCap(d), 22, AERRegs)
<1>1. Creates(CompatPCIECap(d), 22, ExpressRegs)
  <2>1. CompatPCIECap(d).count = 22
    BY DEF CompatPCIECap
  <2>2. QED
    BY <2>1, PCIECapRight DEF Creates
<1>2. CASE NoExpress(d)
  BY <1>1, <1>2, NothingCreated DEF ExtAERCap
<1>3. CASE ~NoExpress(d)
  <2>1. ExtAERCap(d).count = 12 /\ ExtAERCap(d).rows = AERErrors \o AERRoot(d) \o AERPrefixLog(d)
    BY <1>3 DEF ExtAERCap
  <2>2. QED
    BY <1>1, <2>1, AERRight DEF Creates
<1>4. QED
  BY <1>2, <1>3

\* One button for all lanes; that the speed is supported means that there are some.
LEMMA SecondaryCreated ==
  ASSUME NEW d \in Descs
  PROVE  Creates(ExtSecondaryPCIECap(d), 65, {"link_ctl3", "lane_err_stat", "lane_eq_ctl"})
<1> DEFINE fast == "speed_8gt" \in d.facts
           one  == <<"lane_eq_ctl">>
           lane == [reg |-> "lane_eq_ctl", back |-> 1]
           desc == [k \in 1..d.lanes |-> lane]
           row  == [buttons |-> one, infos |-> desc]
           A    == Ones(<<"link_ctl3", "lane_err_stat">>)
           B    == When(fast, <<row>>)
<1>1. d.lanes \in Nat /\ d.lanes <= 63 /\ (fast => 1 <= d.lanes)
  <2>1. /\ d.lanes \in 0..63
        /\ d.lanes > 0 <=> "link_cap" \in d.facts
        /\ fast => "link_cap" \in d.facts
    BY DescsAssumption
  <2>2. QED
    BY <2>1
<1>2. CASE NoExpress(d)
  <2>1. ExtSecondaryPCIECap(d) = NotImplCap
    BY <1>2 DEF ExtSecondaryPCIECap
  <2>2. QED
    BY <2>1, NothingCreated
<1>3. CASE ~NoExpress(d)
  <2>1. ExtSecondaryPCIECap(d).count = 2 + d.lanes /\ ExtSecondaryPCIECap(d).rows = A \o B
    BY <1>3 DEF ExtSecondaryPCIECap
  <2>2. RowsRight(A, {"link_ctl3", "lane_err_stat"}, 2)
    BY TwoRight DEF RegNames, ExtRegs
  <2>3. CASE fast
    <3>1. one \in Seq(RegNames) /\ Len(one) = 1 /\ DOMAIN one = {1} /\ one[1] = "lane_eq_ctl"
      <4>1. "lane_eq_ctl" \in RegNames
        BY DEF RegNames, ExtRegs
      <4>2. one \in Seq(RegNames)
        BY <4>1, ListsOf
      <4>3. Len(one) = 1 /\ DOMAIN one = 1..1 /\ 1..1 = {1} /\ one[1] = "lane_eq_ctl"
        OBVIOUS
      <4>4. QED
        BY <4>2, <4>3
    <3>2. lane.reg = "lane_eq_ctl" /\ lane.back = 1 /\ lane \in Described
      BY DEF Described, RegNames, ExtRegs
    <3> HIDE DEF one, lane
    <3>3. /\ desc \in Seq(Described) /\ DOMAIN desc = 1..d.lanes /\ 1 \in DOMAIN desc
          /\ \A k \in DOMAIN desc : desc[k] = lane
      BY <1>1, <2>3, <3>2
    <3> HIDE DEF desc
    <3>4. row.buttons = one /\ row.infos = desc /\ row \in Rows
      BY <3>1, <3>3 DEF Rows
    <3> HIDE DEF row
    <3>5. RowRight(row)
      <4>1. 1 \in 1..1 /\ 1 + 1 - 1 = 1
        OBVIOUS
      <4>2. QED
        BY <3>1, <3>2, <3>3, <3>4, <4>1 DEF RowRight
    <3>6. RegsIn(row) = {"lane_eq_ctl"}
      BY <3>1, <3>4 DEF RegsIn
    <3>7. RowsRight(<<row>>, {"lane_eq_ctl"}, 1)
      BY <3>1, <3>4, <3>5, <3>6, AloneRight
    <3>8. RowsRight(B, {"lane_eq_ctl"}, d.lanes)
      <4>1. B = <<row>>
        BY <2>3 DEF When
      <4>2. d.lanes \in Nat /\ 1 <= d.lanes
        BY <1>1, <2>3
      <4>3. QED
        BY <3>7, <4>1, <4>2, WiderRight
    <3> HIDE DEF A, B
    <3>9. RowsRight(A \o B, {"link_ctl3", "lane_err_stat"} \cup {"lane_eq_ctl"}, 2 + d.lanes)
      BY <1>1, <2>2, <3>8, BothRight
    <3>10. 2 + d.lanes \in 0..65
      BY <1>1
    <3>11. {"link_ctl3", "lane_err_stat"} \cup {"lane_eq_ctl"}
             = {"link_ctl3", "lane_err_stat", "lane_eq_ctl"}
      OBVIOUS
    <3>12. QED
      BY <2>1, <3>9, <3>10, <3>11 DEF Creates
  <2>4. CASE ~fast
    <3>1. RowsRight(B, {}, d.lanes)
      <4>1. B = << >>
        BY <2>4 DEF When
      <4>2. QED
        BY <1>1, <4>1, NoneRight, WiderRight
    <3> HIDE DEF A, B
    <3>2. RowsRight(A \o B, {"link_ctl3", "lane_err_stat"} \cup {}, 2 + d.lanes)
      BY <1>1, <2>2, <3>1, BothRight
    <3>3. 2 + d.lanes \in 0..65 /\ 2 + d.lanes \in Nat
      BY <1>1
    <3>4. RowsRight(A \o B, {"link_ctl3", "lane_err_stat", "lane_eq_ctl"}, 2 + d.lanes)
      BY <3>2, <3>3, WiderRight
    <3>5. QED
      BY <2>1, <3>3, <3>4 DEF Creates
  <2>5. QED
    BY <2>3, <2>4
<1>4. QED
  BY <1>2, <1>3

\* How many elements a capability appends at most.
Cost(cap) == IF cap = Ext(25) THEN 65 ELSE IF cap \in WithRegisters THEN 22 ELSE 0

LEMMA CompatCapCreated ==
  ASSUME NEW d \in Descs, NEW id \in CompatIDs
  PROVE  Creates(GetCompatCapComponents(d, id), Cost(Compat(id)), CompatRegs(d, id))
<1> USE DEF GetCompatCapComponents, CompatRegs, Cost, WithRegisters, Compat, Ext
<1>1. CASE id = 1
  BY <1>1, SmallCapsCreated
<1>2. CASE id = 5
  BY <1>2, MSICapCreated
<1>3. CASE id = 9
  BY <1>3, SmallCapsCreated
<1>4. CASE id = 16
  BY <1>4, ExpressCreated
<1>5. CASE id = 17
  BY <1>5, SmallCapsCreated
<1>6. CASE id \notin {1, 5, 9, 16, 17}
  <2>1. GetCompatCapComponents(d, id) = NotImplCap /\ Cost(Compat(id)) = 0
    BY <1>6
  <2>2. QED
    BY <2>1, NothingCreated
<1>7. QED
  BY <1>1, <1>2, <1>3, <1>4, <1>5, <1>6

LEMMA ExtendedCapCreated ==
  ASSUME NEW d \in Descs, NEW id \in ExtIDs
  PROVE  Creates(GetExtendedCapComponents(d, id), Cost(Ext(id)), ExtendedRegs(id))
<1> USE DEF GetExtendedCapComponents, ExtendedRegs, Cost, WithRegisters, Compat, Ext
<1>1. CASE id = 1
  BY <1>1, ExpressCreated
<1>2. CASE id = 14
  BY <1>2, SmallCapsCreated
<1>3. CASE id = 25
  BY <1>3, SecondaryCreated
<1>4. CASE id = 27
  BY <1>4, SmallCapsCreated
<1>5. CASE id = 37
  BY <1>5, SmallCapsCreated
<1>6. CASE id \notin {1, 14, 25, 27, 37}
  <2>1. GetExtendedCapComponents(d, id) = NotImplCap /\ Cost(Ext(id)) = 0
    BY <1>6
  <2>2. QED
    BY <2>1, NothingCreated
<1>7. QED
  BY <1>1, <1>2, <1>3, <1>4, <1>5, <1>6

LEMMA CostNat == \A cap : Cost(cap) \in Nat
BY DEF Cost

-----------------------------------------------------------------------------
(***************************************************************************)
(* Room for what is appended.                                              *)
(***************************************************************************)

LEMMA PlacesFinite ==
  ASSUME NEW d \in Descs, NEW S, NEW n \in Nat
  PROVE  /\ IsFiniteSet(Places(d, S)) /\ IsFiniteSet(Before(Places(d, S), n))
         /\ Cardinality(Places(d, S)) \in Nat /\ Cardinality(Before(Places(d, S), n)) \in Nat
         /\ Cardinality(Before(Places(d, S), n)) <= Cardinality(Places(d, S))
<1>1. d.caps \in Seq({"compat", "extended"} \X Nat)
  BY DescsAssumption
<1>2. DOMAIN d.caps = 1..Len(d.caps) /\ Len(d.caps) \in Nat
  BY <1>1
<1>3. Places(d, S) \subseteq 1..Len(d.caps) /\ Before(Places(d, S), n) \subseteq Places(d, S)
  BY <1>2 DEF Places, Before
<1>4. IsFiniteSet(Places(d, S))
  BY <1>2, <1>3, UpTo, FS_Subset
<1>5. QED
  BY <1>3, <1>4, FS_Subset, FS_CardinalityType

LEMMA PlacesBeforeNext ==
  ASSUME NEW d \in Descs, NEW S, NEW n \in DOMAIN d.caps
  PROVE  Cardinality(Before(Places(d, S), n + 1)) =
           Cardinality(Before(Places(d, S), n)) + (IF d.caps[n] \in S THEN 1 ELSE 0)
<1> DEFINE P == Places(d, S)
<1>1. d.caps \in Seq({"compat", "extended"} \X Nat)
  BY DescsAssumption
<1>2. n \in Nat /\ \A i \in P : i \in Nat
  BY <1>1 DEF Places
<1>3. IsFiniteSet(Before(P, n)) /\ Cardinality(Before(P, n)) \in Nat
  BY <1>2, PlacesFinite
<1>4. CASE d.caps[n] \in S
  <2>1. n \in P
    BY <1>4 DEF Places
  <2> HIDE DEF P
  <2>2. Before(P, n + 1) = Before(P, n) \cup {n} /\ n \notin Before(P, n)
    BY <1>2, <2>1 DEF Before
  <2>3. Cardinality(Before(P, n) \cup {n}) = Cardinality(Before(P, n)) + 1
    BY <1>3, <2>2, FS_AddElement
  <2>4. QED
    BY <1>4, <2>2, <2>3 DEF P
<1>5. CASE d.caps[n] \notin S
  <2>1. n \notin P
    BY <1>5 DEF Places
  <2> HIDE DEF P
  <2>2. Before(P, n + 1) = Before(P, n)
    BY <1>2, <2>1 DEF Before
  <2>3. QED
    BY <1>3, <1>5, <2>2 DEF P
<1>6. QED
  BY <1>4, <1>5

LEMMA ThereIsRoom ==
  ASSUME dev \in Descs, next \in Nat
  PROVE  Room \in Nat /\ 32 <= Room /\ Room <= InteractiveElemMax
<1> DEFINE a == Cardinality(Before(Places(dev, {Ext(25)}), next))
           b == Cardinality(Before(Places(dev, WithRegisters), next))
           A == Cardinality(Places(dev, {Ext(25)}))
           B == Cardinality(Places(dev, WithRegisters))
<1>1. a \in Nat /\ b \in Nat /\ A \in Nat /\ B \in Nat /\ a <= A /\ b <= B
  BY PlacesFinite
<1>2. 32 + 65 * A + 22 * B <= InteractiveElemMax
  BY RoomAssumption
<1>3. InteractiveElemMax \in Nat
  BY DescsAssumption
<1>4. Room = 32 + 65 * a + 22 * b
  BY DEF Room
<1> HIDE DEF a, b, A, B
<1>5. QED
  BY <1>1, <1>2, <1>3, <1>4

LEMMA RoomForNext ==
  ASSUME dev \in Descs, next \in DOMAIN dev.caps, dev' = dev, next' = next + 1
  PROVE  Room' = Room + Cost(dev.caps[next])
<1> DEFINE a(n) == Cardinality(Before(Places(dev, {Ext(25)}), n))
           b(n) == Cardinality(Before(Places(dev, WithRegisters), n))
           cap == dev.caps[next]
<1>1. next \in Nat
  <2>1. dev.caps \in Seq({"compat", "extended"} \X Nat)
    BY DescsAssumption
  <2>2. QED
    BY <2>1
<1>2. a(next) \in Nat /\ b(next) \in Nat
  BY <1>1, PlacesFinite
<1>3. a(next + 1) = a(next) + (IF cap = Ext(25) THEN 1 ELSE 0)
  <2>1. cap \in {Ext(25)} <=> cap = Ext(25)
    OBVIOUS
  <2>2. a(next + 1) = a(next) + (IF cap \in {Ext(25)} THEN 1 ELSE 0)
    BY PlacesBeforeNext
  <2>3. QED
    BY <2>1, <2>2
<1>4. b(next + 1) = b(next) + (IF cap \in WithRegisters THEN 1 ELSE 0)
  BY PlacesBeforeNext
<1>5. Ext(25) \notin WithRegisters
  BY DEF WithRegisters, Ext, Compat
<1>6. Room = 32 + 65 * a(next) + 22 * b(next)
  BY DEF Room
<1>7. Room' = 32 + 65 * a(next + 1) + 22 * b(next + 1)
  BY DEF Room
<1> HIDE DEF a, b, cap
<1>8. Cost(cap) = IF cap = Ext(25) THEN 65 ELSE IF cap \in WithRegisters THEN 22 ELSE 0
  BY DEF Cost
<1>9. CASE cap = Ext(25)
  BY <1>2, <1>3, <1>4, <1>5, <1>6, <1>7, <1>8, <1>9 DEF cap
<1>10. CASE cap # Ext(25) /\ cap \in WithRegisters
  BY <1>2, <1>3, <1>4, <1>6, <1>7, <1>8, <1>10 DEF cap
<1>11. CASE cap # Ext(25) /\ cap \notin WithRegisters
  BY <1>2, <1>3, <1>4, <1>6, <1>7, <1>8, <1>11 DEF cap
<1>12. QED
  BY <1>9, <1>10, <1>11

-----------------------------------------------------------------------------
(***************************************************************************)
(* The invariant holds.                                                    *)
(***************************************************************************)

LEMMA CapsList ==
  ASSUME NEW d \in Descs
  PROVE  /\ Len(d.caps) \in Nat /\ DOMAIN d.caps = 1..Len(d.caps)
         /\ \A n \in DOMAIN d.caps : d.caps[n] = <<d.caps[n][1], d.caps[n][2]>>
<1>1. d.caps \in Seq({"compat", "extended"} \X Nat)
  BY DescsAssumption
<1>2. QED
  BY <1>1

LEMMA InitInv == Init => CompInv
<1>1. SUFFICES ASSUME Init PROVE CompInv
  OBVIOUS
<1>2. Components = {} /\ vis = << >> /\ vis \in Seq({0, 1})
  BY <1>1 DEF Init, Components
<1>3. Len(dev.caps) \in Nat
  BY <1>1, CapsList DEF Init
<1>4. {b.of : b \in buttons} = {i.of : i \in infos}
  BY <1>1 DEF Init
<1>5. QED
  BY <1>1, <1>2, <1>3, <1>4 DEF Init, CompInv, Paired

\* The header is the first to take elements.
LEMMA HeaderAdded ==
  ASSUME CompInv, AddCompatHeaderRegs
  PROVE  CompInv'
<1>1. /\ pc = "header" /\ pc' = "caps" /\ Add(0, CompatHeader(dev)) /\ next' = next /\ dev' = dev
      /\ dev \in Descs /\ vis \in Seq({0, 1}) /\ Paired /\ Components = {} /\ vis = << >>
  BY DEF CompInv, AddCompatHeaderRegs, Add
<1> DEFINE comps == CompatHeader(dev)
<1>2. Creates(comps, 32, HeaderRegsOf(dev.type))
  BY <1>1, HeaderCreated
<1> HIDE DEF comps
<1>3. RowsRight(comps.rows, HeaderRegsOf(dev.type), comps.count)
  BY <1>2 DEF Creates
<1>4. comps.count \in Nat /\ comps.count <= 32
  BY <1>2 DEF Creates
<1>5. /\ vis' \in Seq({0, 1}) /\ Len(vis') = Len(vis) + comps.count
      /\ Paired'
      /\ \A c \in Components' : c \in Components \/ c.of[1] = 0
  BY <1>1, <1>3, <1>4, AddPairs DEF comps
<1>6. next \in Nat /\ next \in 1..(Len(dev.caps) + 1)
  BY <1>1, CapsList DEF CompInv
<1>7. Len(vis') <= 32
  <2>1. Len(vis) = 0
    BY <1>1
  <2>2. QED
    BY <1>4, <1>5, <2>1
<1>8. Room' = Room
  BY <1>1 DEF Room
<1>9. Room \in Nat /\ 32 <= Room
  BY <1>1, <1>6, ThereIsRoom
<1>10. Len(vis') <= Room'
  <2>1. Len(vis') \in Nat
    BY <1>5
  <2>2. QED
    BY <1>7, <1>8, <1>9, <2>1
<1>11. \A c \in Components' : c.of[1] \in 0..(next' - 1)
  BY <1>1, <1>5, <1>6
<1>12. QED
  BY <1>1, <1>5, <1>6, <1>10, <1>11 DEF CompInv

\* Whatever the next capability is, its components are made of rows that are right.
LEMMA NextCreated ==
  ASSUME CompInv, AddCapability
  PROVE  \E comps : Creates(comps, Cost(dev.caps[next]), RegsOf(dev, next)) /\ Add(next, comps)
<1> DEFINE cap  == dev.caps[next]
           type == cap[1]
           id   == cap[2]
<1>1. dev \in Descs /\ next \in DOMAIN dev.caps /\ next # 0
  <2>1. dev \in Descs /\ next \in 1..(Len(dev.caps) + 1) /\ next <= Len(dev.caps)
    BY DEF CompInv, AddCapability
  <2>2. QED
    BY <2>1, CapsList
<1>2. cap = <<type, id>>
  BY <1>1, CapsList
<1>3. \/ type = "compat" /\ id \in CompatIDs /\ Add(next, GetCompatCapComponents(dev, id))
      \/ type = "extended" /\ id \in ExtIDs /\ Add(next, GetExtendedCapComponents(dev, id))
  BY DEF AddCapability
<1> HIDE DEF cap, type, id
<1>4. CASE type = "compat" /\ id \in CompatIDs /\ Add(next, GetCompatCapComponents(dev, id))
  <2>1. cap = Compat(id)
    BY <1>2, <1>4 DEF Compat
  <2>2. Creates(GetCompatCapComponents(dev, id), Cost(cap), CompatRegs(dev, id))
    BY <1>1, <1>4, <2>1, CompatCapCreated
  <2>3. RegsOf(dev, next) = CompatRegs(dev, id)
    BY <1>1, <1>4 DEF RegsOf, type, id, cap
  <2>4. QED
    BY <1>4, <2>2, <2>3 DEF cap
<1>5. CASE type = "extended" /\ id \in ExtIDs /\ Add(next, GetExtendedCapComponents(dev, id))
  <2>1. cap = Ext(id)
    BY <1>2, <1>5 DEF Ext
  <2>2. Creates(GetExtendedCapComponents(dev, id), Cost(cap), ExtendedRegs(id))
    BY <1>1, <1>5, <2>1, ExtendedCapCreated
  <2>3. RegsOf(dev, next) = ExtendedRegs(id)
    BY <1>1, <1>5 DEF RegsOf, type, id, cap
  <2>4. QED
    BY <1>5, <2>2, <2>3 DEF cap
<1>6. QED
  BY <1>3, <1>4, <1>5

LEMMA CapabilityAdded ==
  ASSUME CompInv, AddCapability
  PROVE  CompInv'
<1>1. /\ pc = "caps" /\ pc' = pc /\ next' = next + 1
      /\ dev \in Descs /\ vis \in Seq({0, 1}) /\ Paired /\ Len(vis) <= Room
      /\ next \in 1..(Len(dev.caps) + 1) /\ next <= Len(dev.caps)
      /\ \A c \in Components : c.of[1] \in 0..(next - 1)
  BY DEF CompInv, AddCapability
<1>2. Len(dev.caps) \in Nat /\ next \in DOMAIN dev.caps /\ next \in Nat
  BY <1>1, CapsList
<1>3. PICK comps : Creates(comps, Cost(dev.caps[next]), RegsOf(dev, next)) /\ Add(next, comps)
  BY NextCreated
<1>4. dev' = dev
  BY <1>3 DEF Add
<1> DEFINE cost == Cost(dev.caps[next])
<1>5. cost \in Nat
  BY CostNat
<1> HIDE DEF cost
<1>6. RowsRight(comps.rows, RegsOf(dev, next), comps.count)
  BY <1>3 DEF Creates
<1>7. comps.count \in Nat /\ comps.count <= cost
  BY <1>3, <1>5 DEF Creates, cost
<1>8. \A c \in Components : c.of[1] # next
  BY <1>1, <1>2
<1>9. /\ vis' \in Seq({0, 1}) /\ Len(vis') = Len(vis) + comps.count
      /\ Paired'
      /\ \A c \in Components' : c \in Components \/ c.of[1] = next
  BY <1>1, <1>3, <1>6, <1>7, <1>8, AddPairs
<1>10. Len(vis') <= Room'
  <2>1. Room' = Room + cost
    BY <1>1, <1>2, <1>4, RoomForNext DEF cost
  <2>2. Room \in Nat
    BY <1>1, <1>2, ThereIsRoom
  <2>3. Len(vis) \in Nat
    BY <1>1
  <2>4. QED
    BY <1>1, <1>5, <1>7, <1>9, <2>1, <2>2, <2>3
<1>11. \A c \in Components' : c.of[1] \in 0..(next' - 1)
  <2>1. next' - 1 = next
    BY <1>1, <1>2
  <2>2. 0..(next - 1) \subseteq 0..next /\ next \in 0..next
    BY <1>2
  <2>3. QED
    BY <1>1, <1>9, <2>1, <2>2
<1>12. next' \in 1..(Len(dev'.caps) + 1)
  BY <1>1, <1>2, <1>4
<1>13. QED
  BY <1>1, <1>4, <1>9, <1>10, <1>11, <1>12 DEF CompInv

\* What is pressed later turns elements on and off, and adds none.
LEMMA Toggled ==
  ASSUME CompInv, UNCHANGED <<dev, next, buttons, infos>>, vis' \in [DOMAIN vis -> {0, 1}],
         pc = "header" => pc' = "header" /\ vis' = vis,
         pc' \in {"header", "caps", "ready", "aborted"}, pc # "header" => pc' # "header"
  PROVE  CompInv'
<1>1. vis \in Seq({0, 1})
  BY DEF CompInv
<1>2. vis' \in Seq({0, 1}) /\ Len(vis') = Len(vis) /\ DOMAIN vis' = DOMAIN vis
  BY <1>1
<1>3. Components' = Components
  BY DEF Components
<1>4. Paired'
  BY <1>2, <1>3 DEF Paired, CompInv
<1>5. Room' = Room
  BY DEF Room
<1>6. QED
  BY <1>2, <1>3, <1>4, <1>5 DEF CompInv

LEMMA NextInv == CompInv /\ [Next]_vars => CompInv'
<1>1. SUFFICES ASSUME CompInv, [Next]_vars PROVE CompInv'
  OBVIOUS
<1>2. vis \in Seq({0, 1})
  BY <1>1 DEF CompInv
<1>3. vis \in [DOMAIN vis -> {0, 1}]
  BY <1>2
<1>4. CASE AddCompatHeaderRegs
  BY <1>1, <1>4, HeaderAdded
<1>5. CASE AddCapability
  BY <1>1, <1>5, CapabilityAdded
<1>6. CASE Abort
  BY <1>1, <1>3, <1>6, Toggled DEF Abort
<1>7. CASE FinalizeComponent
  BY <1>1, <1>3, <1>7, Toggled DEF FinalizeComponent
<1>8. ASSUME NEW b \in buttons, Press(b) PROVE CompInv'
  <2>1. vis' \in [DOMAIN vis -> {0, 1}]
    BY <1>3, <1>8 DEF Press
  <2>2. QED
    BY <1>1, <1>8, <2>1, Toggled DEF Press
<1>9. CASE Reset
  <2>1. vis' \in [DOMAIN vis -> {0, 1}]
    BY <1>9 DEF Reset
  <2>2. QED
    BY <1>1, <1>9, <2>1, Toggled DEF Reset
<1>10. CASE UNCHANGED vars
  <2>1. pc \in {"header", "caps", "ready", "aborted"}
    BY <1>1 DEF CompInv
  <2>2. QED
    BY <1>1, <1>3, <1>10, <2>1, Toggled DEF vars
<1>11. QED
  BY <1>1, <1>4, <1>5, <1>6, <1>7, <1>8, <1>9, <1>10 DEF Next, Gone

\* Elements are shared by the components of one register, and there are enough of them.
THEOREM Invariant == Spec => []CompInv
<1>1. QED
  BY InitInv, NextInv, PTL DEF Spec

\* The values have their types, every pointer is to an element that is there, and the
\* elements fit into the buffer reserved for them, so that it is never moved.
THEOREM TypeCorrectness == Spec => []TypeOK
<1>1. CompInv => TypeOK
  <2>1. SUFFICES ASSUME CompInv PROVE TypeOK
    OBVIOUS
  <2>2. dev \in Descs /\ next \in 1..(Len(dev.caps) + 1) /\ next \in Nat /\ Len(dev.caps) \in Nat
    BY <2>1, CapsList DEF CompInv
  <2>3. Len(vis) <= InteractiveElemMax
    <3>1. Room \in Nat /\ 32 <= Room /\ Room <= InteractiveElemMax
      BY <2>2, ThereIsRoom
    <3>2. InteractiveElemMax \in Nat
      BY DescsAssumption
    <3>3. CASE pc = "header"
      <4>1. Len(vis) = 0
        BY <2>1, <3>3 DEF CompInv
      <4>2. QED
        BY <3>2, <4>1
    <3>4. CASE pc # "header"
      <4>1. Len(vis) <= Room /\ Len(vis) \in Nat
        BY <2>1, <3>4 DEF CompInv
      <4>2. QED
        BY <3>1, <3>2, <4>1
    <3>5. QED
      BY <3>3, <3>4
  <2>4. \A c \in Components : c.of[1] \in 0..Len(dev.caps) /\ c.at \in DOMAIN vis
    <3>1. 0..(next - 1) \subseteq 0..Len(dev.caps)
      BY <2>2
    <3>2. QED
      BY <2>1, <3>1 DEF CompInv, Paired
  <2>5. QED
    BY <2>1, <2>2, <2>3, <2>4 DEF CompInv, TypeOK, Components
<1>2. QED
  BY <1>1, Invariant, PTL

\* A button looks pressed just when the descriptions of its register are shown, and
\* none is without the other.
THEOREM ButtonsTellWhatIsShown == Spec => []LitIffShown
<1>1. CompInv => LitIffShown
  BY DEF CompInv, Paired, Components, LitIffShown, Lit
<1>2. QED
  BY <1>1, Invariant, PTL

\* A press shows or hides the descriptions of one register.
THEOREM PressesShowOne == Spec => PressShowsOne
<1>1. CompInv /\ [Next]_vars =>
        [\A b \in buttons : Press(b) => \A i \in infos : (Lit(i)' # Lit(i)) <=> i.of = b.of]_vars
  <2>1. SUFFICES ASSUME CompInv, NEW b \in buttons, Press(b), NEW i \in infos
                 PROVE  (Lit(i)' # Lit(i)) <=> i.of = b.of
    OBVIOUS
  <2>2. /\ i.of = b.of <=> i.at = b.at
        /\ i.at \in DOMAIN vis /\ b.at \in DOMAIN vis
    BY <2>1 DEF CompInv, Paired, Components
  <2>3. vis \in [DOMAIN vis -> {0, 1}]
    <3>1. vis \in Seq({0, 1})
      BY <2>1 DEF CompInv
    <3>2. QED
      BY <3>1
  <2>4. vis' = [vis EXCEPT ![b.at] = IF vis[b.at] = 1 THEN 0 ELSE 1]
    BY <2>1 DEF Press
  <2>5. CASE i.at = b.at
    <3>1. vis'[i.at] = IF vis[i.at] = 1 THEN 0 ELSE 1
      BY <2>2, <2>4, <2>5
    <3>2. QED
      BY <2>2, <2>5, <3>1 DEF Lit
  <2>6. CASE i.at # b.at
    <3>1. vis'[i.at] = vis[i.at]
      BY <2>2, <2>3, <2>4, <2>6
    <3>2. QED
      BY <2>2, <2>6, <3>1 DEF Lit
  <2>7. QED
    BY <2>5, <2>6
<1>2. QED
  BY <1>1, Invariant, PTL DEF Spec, PressShowsOne

-----------------------------------------------------------------------------
(***************************************************************************)
(* What is on the screen.                                                  *)
(***************************************************************************)

\* Each description is of a register of the header or of the capability it belongs to,
\* and no register has two of them but for the lanes.
InfosInv ==
  /\ \A i \in infos :
       /\ i.of = <<i.of[1], i.of[2]>> /\ i.nr \in Nat \ {0}
       /\ i.of[1] \in 0..Len(dev.caps) /\ i.of[2] \in RegsOf(dev, i.of[1])
  /\ \A i, j \in infos : i.of = j.of /\ (i.of[2] = "lane_eq_ctl" => i.nr = j.nr) => i = j

LEMMA InfosAdded ==
  ASSUME InfosInv, NEW of \in 0..Len(dev.caps), NEW comps, comps.count \in Nat, vis \in Seq({0, 1}),
         RowsRight(comps.rows, RegsOf(dev, of), comps.count), Add(of, comps),
         \A i \in infos : i.of[1] # of
  PROVE  InfosInv'
<1> DEFINE I == InfosOf(of, comps.rows, Len(vis))
           regs == RegsOf(dev, of)
<1>1. infos' = infos \cup I /\ dev' = dev
  BY DEF Add
<1>2. /\ \A i \in I : /\ i.of = <<of, i.of[2]>> /\ i.of[1] = of /\ i.of[2] \in regs
                     /\ i.nr \in Nat \ {0}
      /\ \A i, j \in I : i.of = j.of /\ (i.of[2] = "lane_eq_ctl" => i.nr = j.nr) => i = j
  BY InfosDiffer
<1> HIDE DEF I
<1>3. \A i \in infos' :
        /\ i.of = <<i.of[1], i.of[2]>> /\ i.nr \in Nat \ {0}
        /\ i.of[1] \in 0..Len(dev.caps) /\ i.of[2] \in RegsOf(dev, i.of[1])
  BY <1>1, <1>2 DEF InfosInv
<1>4. \A i, j \in infos' : i.of = j.of /\ (i.of[2] = "lane_eq_ctl" => i.nr = j.nr) => i = j
  <2>1. SUFFICES ASSUME NEW i \in infos', NEW j \in infos', i.of = j.of,
                        i.of[2] = "lane_eq_ctl" => i.nr = j.nr
                 PROVE  i = j
    OBVIOUS
  <2>2. CASE i \in infos /\ j \in infos
    BY <2>1, <2>2 DEF InfosInv
  <2>3. CASE i \in I /\ j \in I
    BY <1>2, <2>1, <2>3
  <2>4. CASE (i \in infos /\ j \in I) \/ (i \in I /\ j \in infos)
    BY <1>2, <2>1, <2>4
  <2>5. QED
    BY <1>1, <2>2, <2>3, <2>4
<1>5. QED
  BY <1>1, <1>3, <1>4 DEF InfosInv

LEMMA NextInfosInv == CompInv /\ InfosInv /\ [Next]_vars => InfosInv'
<1>1. SUFFICES ASSUME CompInv, InfosInv, [Next]_vars PROVE InfosInv'
  OBVIOUS
<1>2. dev \in Descs /\ vis \in Seq({0, 1}) /\ Len(dev.caps) \in Nat
  BY <1>1, CapsList DEF CompInv
<1>3. CASE AddCompatHeaderRegs
  <2>1. Add(0, CompatHeader(dev)) /\ infos = {}
    BY <1>1, <1>3 DEF AddCompatHeaderRegs, CompInv, Components
  <2> DEFINE comps == CompatHeader(dev)
  <2>2. Creates(comps, 32, HeaderRegsOf(dev.type))
    BY <1>2, HeaderCreated
  <2> HIDE DEF comps
  <2>3. comps.count \in Nat /\ RowsRight(comps.rows, HeaderRegsOf(dev.type), comps.count)
    BY <2>2 DEF Creates
  <2>4. RegsOf(dev, 0) = HeaderRegsOf(dev.type) /\ 0 \in 0..Len(dev.caps)
    BY <1>2 DEF RegsOf
  <2>5. QED
    BY <1>1, <1>2, <2>1, <2>3, <2>4, InfosAdded DEF comps
<1>4. CASE AddCapability
  <2>1. PICK comps : Creates(comps, Cost(dev.caps[next]), RegsOf(dev, next)) /\ Add(next, comps)
    BY <1>1, <1>4, NextCreated
  <2>2. next \in 1..(Len(dev.caps) + 1) /\ next <= Len(dev.caps)
        /\ \A i \in infos : i.of[1] \in 0..(next - 1)
    BY <1>1, <1>4 DEF CompInv, AddCapability, Components
  <2>3. next \in 0..Len(dev.caps) /\ \A i \in infos : i.of[1] # next
    BY <1>2, <2>2
  <2> DEFINE cost == Cost(dev.caps[next])
  <2>4. cost \in Nat
    BY CostNat
  <2> HIDE DEF cost
  <2>5. comps.count \in Nat /\ RowsRight(comps.rows, RegsOf(dev, next), comps.count)
    BY <2>1, <2>4 DEF Creates, cost
  <2>6. QED
    BY <1>1, <1>2, <2>1, <2>3, <2>5, InfosAdded
<1>5. CASE UNCHANGED <<dev, infos>>
  BY <1>1, <1>5 DEF InfosInv
<1>6. QED
  BY <1>1, <1>3, <1>4, <1>5
  DEF Next, Abort, FinalizeComponent, Press, Reset, Gone, vars

LEMMA InfosAlways == Spec => [](CompInv /\ InfosInv)
<1>1. Init => InfosInv
  BY DEF Init, InfosInv
<1>2. QED
  BY <1>1, InitInv, NextInv, NextInfosInv, PTL DEF Spec

\* The description a component shows is that of the register it is of.
LEMMA TextIs ==
  ASSUME CompInv, InfosInv, NEW i \in infos
  PROVE  /\ dev \in Descs /\ i.of[1] \in 0..Len(dev.caps)
         /\ i.of[2] \in RegsOf(dev, i.of[1]) /\ i.nr \in Nat \ {0}
         /\ TextOf(i) = TextFor(dev, i.of[1], i.of[2], i.nr)
BY TextOfFor DEF CompInv, InfosInv

\* Each row on the screen shows the bits that it is labelled with, but for the mislabelled
\* ones, of all registers of the header and of every capability that has a description.
THEOREM LabelsAreTrue == Spec => []LabelsTrue
<1>1. CompInv /\ InfosInv => LabelsTrue
  <2>1. SUFFICES ASSUME CompInv, InfosInv, NEW i \in infos
                 PROVE  Truthful(TextOf(i), i.of[2])
    BY DEF LabelsTrue, Truthful, Shown
  <2>2. QED
    BY <2>1, TextIs, TextsRight DEF Right
<1>2. QED
  BY <1>1, InfosAlways, PTL

\* No bit of a register is left out or shown twice, but for those of a bridge's control
\* register and of a lane's.
THEOREM EveryBitIsLabelled == Spec => []EveryBitLabelled
<1>1. CompInv /\ InfosInv => EveryBitLabelled
  <2>1. SUFFICES ASSUME CompInv, InfosInv, NEW i \in infos
                 PROVE  Complete(TextOf(i), i.of[2])
    BY DEF EveryBitLabelled, Complete, Missing, Twice, Shown
  <2>2. QED
    BY <2>1, TextIs, TextsRight DEF Right
<1>2. QED
  BY <1>1, InfosAlways, PTL

\* The bytes that two descriptions of one header or capability are titled with are
\* different ones, but for BIST's and the header type's; a button names the byte of its
\* description; and the offsets of an MSI capability are those of its structure.
THEOREM TitlesAreApart == Spec => []TitlesApart
<1>1. CompInv /\ InfosInv => TitlesApart
  <2>1. SUFFICES ASSUME CompInv, InfosInv, NEW i \in infos
                 PROVE  /\ i.nr = 1 \/ i.of[2] # "lane_eq_ctl"
                             => (TextOf(i).button = TextOf(i).title <=> i.of[2] # "bist")
                        /\ i.of[1] # 0 /\ dev.caps[i.of[1]] = Compat(5)
                             => TextOf(i).title = OffsetOf(MSIStruct(dev), MSIMember(i.of[2]))
                        /\ \A j \in infos :
                             i.of[1] = j.of[1] /\ i # j
                               => (TitledBytes(i) \cap TitledBytes(j) = {}
                                     <=> {i.of[2], j.of[2]} # {"bist", "header_type"})
    BY DEF TitlesApart, Shown
  <2>2. i.nr = 1 \/ i.of[2] # "lane_eq_ctl"
          => (TextOf(i).button = TextOf(i).title <=> i.of[2] # "bist")
    BY <2>1, TextIs, TextsRight
  <2>3. i.of[1] # 0 /\ dev.caps[i.of[1]] = Compat(5)
          => TextOf(i).title = OffsetOf(MSIStruct(dev), MSIMember(i.of[2]))
    <3>1. SUFFICES ASSUME i.of[1] # 0, dev.caps[i.of[1]] = Compat(5)
                   PROVE  TextOf(i).title = OffsetOf(MSIStruct(dev), MSIMember(i.of[2]))
      OBVIOUS
    <3>2. i.of[1] \in 1..Len(dev.caps)
      <4>1. Len(dev.caps) \in Nat /\ i.of[1] \in 0..Len(dev.caps)
        BY <2>1, TextIs, CapsList
      <4>2. QED
        BY <3>1, <4>1
    <3>3. QED
      BY <2>1, <3>1, <3>2, TextIs, MSITitles
  <2>4. ASSUME NEW j \in infos, i.of[1] = j.of[1], i # j
        PROVE  TitledBytes(i) \cap TitledBytes(j) = {}
                 <=> {i.of[2], j.of[2]} # {"bist", "header_type"}
    <3>1. Other(i.of[2], i.nr, j.of[2], j.nr)
      <4>1. SUFFICES ASSUME i.of[2] = j.of[2], i.of[2] = "lane_eq_ctl" => i.nr = j.nr
                     PROVE  FALSE
        BY DEF Other
      <4>2. i.of = j.of
        BY <2>1, <2>4, <4>1 DEF InfosInv
      <4>3. QED
        BY <2>1, <2>4, <4>1, <4>2 DEF InfosInv
    <3>2. /\ TitledBytes(i) = TitledBy(TextOf(i))
          /\ TitledBytes(j) = TitledBy(TextOf(j))
      BY DEF TitledBytes, TitledBy
    <3> DEFINE of == i.of[1]
               reg == i.of[2]
               nr == i.nr
               q == j.of[2]
               m == j.nr
    <3>3. /\ dev \in Descs /\ of \in 0..Len(dev.caps)
          /\ reg \in RegsOf(dev, of) /\ nr \in Nat \ {0}
          /\ TextOf(i) = TextFor(dev, of, reg, nr)
      BY <2>1, TextIs
    <3>4. /\ q \in RegsOf(dev, of) /\ m \in Nat \ {0}
          /\ TextOf(j) = TextFor(dev, of, q, m)
      BY <2>1, <2>4, TextIs
    <3>5. Other(reg, nr, q, m)
      BY <3>1
    <3> HIDE DEF of, reg, nr, q, m
    <3>6. TitledApart(TextFor(dev, of, reg, nr), TextFor(dev, of, q, m), reg, q)
      BY <3>3, <3>4, <3>5, TextsApart
    <3>7. QED
      BY <3>2, <3>3, <3>4, <3>6 DEF TitledApart, reg, q
  <2>5. QED
    BY <2>2, <2>3, <2>4
<1>2. QED
  BY <1>1, InfosAlways, PTL

-----------------------------------------------------------------------------
(***************************************************************************)
(* The component and the abstract store.                                   *)
(***************************************************************************)

\* The elements are off while they are handed out.
ClosedAtFirst == pc \in {"header", "caps"} => \A k \in DOMAIN vis : vis[k] = 0

LEMMA AppendedOff ==
  ASSUME vis \in Seq({0, 1}), \A k \in DOMAIN vis : vis[k] = 0,
         NEW of, NEW comps, comps.count \in Nat, Add(of, comps)
  PROVE  \A k \in DOMAIN vis' : vis'[k] = 0
<1> DEFINE n == comps.count
           new == [k \in 1..n |-> 0]
<1>1. vis' = vis \o new
  BY DEF Add
<1>2. new \in Seq({0, 1}) /\ Len(new) = n /\ \A k \in 1..n : new[k] = 0
  OBVIOUS
<1> HIDE DEF new, n
<1>3. QED
  BY <1>1, <1>2

LEMMA NextClosed == CompInv /\ ClosedAtFirst /\ [Next]_vars => ClosedAtFirst'
<1>1. SUFFICES ASSUME CompInv, ClosedAtFirst, [Next]_vars PROVE ClosedAtFirst'
  OBVIOUS
<1>2. dev \in Descs /\ vis \in Seq({0, 1})
  BY <1>1 DEF CompInv
<1>3. CASE AddCompatHeaderRegs
  <2>1. Add(0, CompatHeader(dev)) /\ \A k \in DOMAIN vis : vis[k] = 0
    BY <1>1, <1>3 DEF AddCompatHeaderRegs, ClosedAtFirst
  <2>2. CompatHeader(dev).count \in Nat
    BY DEF CompatHeader
  <2>3. QED
    BY <1>2, <2>1, <2>2, AppendedOff DEF ClosedAtFirst
<1>4. CASE AddCapability
  <2>1. PICK comps : Creates(comps, Cost(dev.caps[next]), RegsOf(dev, next)) /\ Add(next, comps)
    BY <1>1, <1>4, NextCreated
  <2> DEFINE cost == Cost(dev.caps[next])
  <2>2. cost \in Nat
    BY CostNat
  <2> HIDE DEF cost
  <2>3. comps.count \in Nat
    BY <2>1, <2>2 DEF Creates, cost
  <2>4. \A k \in DOMAIN vis : vis[k] = 0
    BY <1>1, <1>4 DEF AddCapability, ClosedAtFirst
  <2>5. QED
    BY <1>2, <2>1, <2>3, <2>4, AppendedOff DEF ClosedAtFirst
<1>5. CASE UNCHANGED <<pc, vis>>
  BY <1>1, <1>5 DEF ClosedAtFirst
<1>6. CASE pc' \in {"ready", "aborted"}
  BY <1>6 DEF ClosedAtFirst
<1>7. QED
  BY <1>1, <1>3, <1>4, <1>5, <1>6
  DEF Next, Abort, FinalizeComponent, Press, Reset, Gone, vars

\* Until the device comes up no register is open, and none of the others ever is.
LEMMA NoneOpen ==
  ASSUME pc # "ready" \/ Shown = {}
  PROVE  OpenRegs = [d \in Descs |-> {}]
<1>1. \A d \in Descs : (IF d = Displayed THEN {i.of : i \in Shown} ELSE {}) = {}
  BY DescsAssumption DEF Displayed
<1>2. QED
  BY <1>1 DEF OpenRegs

\* The registers that are open when only vis_state_ has changed.
LEMMA OpenNow ==
  ASSUME dev \in Descs, pc = "ready", UNCHANGED <<dev, pc>>
  PROVE  OpenRegs' = [OpenRegs EXCEPT ![dev] = {i.of : i \in Shown'}]
<1> DEFINE S == {i.of : i \in Shown}
           T == {i.of : i \in Shown'}
<1>1. OpenRegs = [d \in Descs |-> IF d = dev THEN S ELSE {}]
  BY DEF OpenRegs, Displayed
<1>2. OpenRegs' = [d \in Descs |-> IF d = dev THEN T ELSE {}]
  BY DEF OpenRegs, Displayed
<1> HIDE DEF S, T
<1>3. OpenRegs' = [OpenRegs EXCEPT ![dev] = T]
  BY <1>1, <1>2
<1>4. QED
  BY <1>3 DEF T

\* A press opens or closes the register of the button.
LEMMA PressOpens ==
  ASSUME CompInv, NEW b \in buttons, Press(b)
  PROVE  {i.of : i \in Shown'} = ({i.of : i \in Shown} \ {b.of})
                                   \cup ({b.of} \ {i.of : i \in Shown})
<1> DEFINE S == {i.of : i \in Shown}
           T == {i.of : i \in Shown'}
<1>1. infos' = infos /\ vis' = [vis EXCEPT ![b.at] = IF vis[b.at] = 1 THEN 0 ELSE 1]
  BY DEF Press
<1>2. vis \in [DOMAIN vis -> {0, 1}] /\ b.at \in DOMAIN vis
  <2>1. vis \in Seq({0, 1})
    BY DEF CompInv
  <2>2. QED
    BY <2>1 DEF CompInv, Paired, Components
<1>3. \A i \in infos : /\ i.at \in DOMAIN vis
                       /\ i.of = b.of <=> i.at = b.at
  BY DEF CompInv, Paired, Components
<1>4. \A i \in infos : i.of = b.of => (Lit(i)' <=> ~Lit(i))
  BY <1>1, <1>2, <1>3 DEF Lit
<1>5. \A i \in infos : i.of # b.of => (Lit(i)' <=> Lit(i))
  BY <1>1, <1>2, <1>3 DEF Lit
<1>6. PICK e \in infos : e.of = b.of
  BY DEF CompInv, Paired
<1>7. \A i \in infos : i.of = b.of => (Lit(i) <=> Lit(e))
  BY <1>3, <1>6 DEF Lit
<1>8. \A r : r \in S <=> \E i \in infos : Lit(i) /\ i.of = r
  BY DEF Shown
<1>9. \A r : r \in T <=> \E i \in infos : Lit(i)' /\ i.of = r
  BY <1>1 DEF Shown
<1> HIDE DEF S, T
<1>10. \A r : r # b.of => (r \in T <=> r \in S)
  BY <1>5, <1>8, <1>9
<1>11. b.of \in T <=> b.of \notin S
  BY <1>4, <1>6, <1>7, <1>8, <1>9
<1>12. T = (S \ {b.of}) \cup ({b.of} \ S)
  BY <1>10, <1>11
<1>13. QED
  BY <1>12 DEF S, T

LEMMA RegisterIn ==
  ASSUME NEW d, NEW of \in 0..Len(d.caps), NEW reg \in RegsOf(d, of)
  PROVE  <<of, reg>> \in RegistersOf(d)
<1>1. <<of, reg>> \in {of} \X RegsOf(d, of)
  OBVIOUS
<1>2. QED
  BY <1>1 DEF RegistersOf

\* Every step of the component is a step of the store, or hidden from it.
LEMMA ComponentRefines ==
  ASSUME CompInv, InfosInv, ClosedAtFirst, [Next]_vars
  PROVE  [Store!Next]_Store!vars
<1>1. dev \in Descs /\ dev # NoDevice
  BY DescsAssumption DEF CompInv
<1>2. ASSUME pc # "ready", pc' # "ready", dev' = dev
      PROVE  UNCHANGED Store!vars
  <2>1. OpenRegs = [d \in Descs |-> {}]
    BY <1>2, NoneOpen
  <2>2. OpenRegs' = [d \in Descs |-> {}]
    BY <1>2, DescsAssumption DEF OpenRegs, Displayed
  <2>3. QED
    BY <1>2, <2>1, <2>2 DEF Store!vars, Displayed
<1>3. CASE AddCompatHeaderRegs
  BY <1>2, <1>3 DEF AddCompatHeaderRegs, Add
<1>4. CASE AddCapability
  <2>1. PICK comps : Add(next, comps)
    BY <1>4, NextCreated
  <2>2. pc = "caps" /\ pc' = pc
    BY <1>4 DEF AddCapability
  <2>3. dev' = dev
    BY <2>1 DEF Add
  <2>4. QED
    BY <1>2, <2>2, <2>3
<1>5. CASE Abort
  BY <1>2, <1>5 DEF Abort
<1>6. CASE FinalizeComponent
  <2>1. \A i \in infos : vis[i.at] = 0
    BY <1>6 DEF FinalizeComponent, ClosedAtFirst, CompInv, Paired, Components
  <2>2. Shown' = {}
    BY <1>6, <2>1 DEF FinalizeComponent, Shown, Lit
  <2>3. OpenRegs' = [d \in Descs |-> {}]
    BY <2>2 DEF OpenRegs
  <2>4. OpenRegs = [d \in Descs |-> {}]
    BY <1>6, NoneOpen DEF FinalizeComponent
  <2>5. Displayed = NoDevice /\ Displayed' = dev /\ dev' = dev
    BY <1>6 DEF FinalizeComponent, Displayed
  <2>6. Store!Display
    BY <1>1, <2>3, <2>4, <2>5 DEF Store!Display
  <2>7. QED
    BY <2>6 DEF Store!Next
<1>7. ASSUME NEW b \in buttons, Press(b)
      PROVE  [Store!Next]_Store!vars
  <2>1. pc = "ready" /\ pc' = pc /\ dev' = dev
    BY <1>7 DEF Press
  <2>2. Displayed = dev /\ Displayed' = dev
    BY <2>1 DEF Displayed
  <2> DEFINE S == {i.of : i \in Shown}
             T == {i.of : i \in Shown'}
  <2>3. OpenRegs' = [OpenRegs EXCEPT ![dev] = T]
    BY <1>1, <2>1, OpenNow
  <2>4. OpenRegs[dev] = S
    BY <1>1, <2>2 DEF OpenRegs
  <2>5. T = (S \ {b.of}) \cup ({b.of} \ S)
    BY <1>7, PressOpens
  <2> HIDE DEF S, T
  <2>6. Store!Toggle(b.of)
    BY <1>1, <2>1, <2>2, <2>3, <2>4, <2>5 DEF Store!Toggle
  <2>7. b.of \in RegistersOf(dev)
    <3>1. PICK i \in infos : i.of = b.of
      BY <1>7 DEF CompInv, Paired
    <3>2. /\ i.of = <<i.of[1], i.of[2]>> /\ i.of[1] \in 0..Len(dev.caps)
          /\ i.of[2] \in RegsOf(dev, i.of[1])
      BY DEF InfosInv
    <3>3. QED
      BY <3>1, <3>2, RegisterIn
  <2>8. QED
    BY <1>1, <2>2, <2>6, <2>7 DEF Store!Next
<1>8. CASE Reset
  <2>1. pc = "ready" /\ pc' = pc /\ dev' = dev /\ infos' = infos
    BY <1>8 DEF Reset
  <2>2. Displayed = dev /\ Displayed' = dev
    BY <2>1 DEF Displayed
  <2>3. \A i \in infos : vis'[i.at] = 0
    BY <1>8 DEF Reset, CompInv, Paired, Components
  <2>4. Shown' = {}
    BY <2>1, <2>3 DEF Shown, Lit
  <2>5. OpenRegs' = [OpenRegs EXCEPT ![dev] = {}]
    BY <1>1, <2>1, <2>4, OpenNow
  <2>6. Store!CloseAll
    BY <1>1, <2>1, <2>2, <2>5 DEF Store!CloseAll
  <2>7. QED
    BY <2>6 DEF Store!Next
<1>9. CASE UNCHANGED vars
  BY <1>9 DEF vars, Store!vars, OpenRegs, Displayed, Shown, Lit
<1>10. QED
  BY <1>3, <1>4, <1>5, <1>6, <1>7, <1>8, <1>9 DEF Next, Gone

\* Whatever the device lists: what its component shows is what the user has opened, as the
\* store that RegsPane implements, too, has it.
THEOREM ComponentRefinement == Spec => ImplementsHighlightStore
<1>1. Init => Store!Init
  <2>1. SUFFICES ASSUME Init PROVE Store!Init
    OBVIOUS
  <2>2. OpenRegs = [d \in Descs |-> {}] /\ Displayed = NoDevice
    BY <2>1, NoneOpen DEF Init, Displayed
  <2>3. QED
    BY <2>1, <2>2 DEF Init, Store!Init
<1>2. Init => ClosedAtFirst
  BY DEF Init, ClosedAtFirst
<1>3. CompInv /\ InfosInv /\ ClosedAtFirst /\ [Next]_vars => [Store!Next]_Store!vars
  BY ComponentRefines
<1>4. QED
  BY <1>1, <1>2, <1>3, NextClosed, InfosAlways, PTL
  DEF Spec, ImplementsHighlightStore, Store!Spec
=============================================================================
