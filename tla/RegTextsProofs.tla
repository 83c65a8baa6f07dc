---------------------------- MODULE RegTextsProofs ----------------------------
(***************************************************************************)
(* Proofs about RegTexts: every register's description, of every type of   *)
(* header and of every capability, shows the bits it is labelled with, but *)
(* for the mislabelled ones; no bit is left out; and the bytes of the      *)
(* registers of a header or a capability do not overlap.                   *)
(***************************************************************************)
EXTENDS RegComponents, FiniteSetTheorems, WellFoundedInduction, TLAPS

-----------------------------------------------------------------------------
(***************************************************************************)
(* Sums of widths.                                                         *)
(***************************************************************************)

Below == {p \in Nat \X Nat : p[1] < p[2]}

\* A set of numbers that is not empty has a least one.
LEMMA Least ==
  ASSUME NEW S \in SUBSET Nat, S # {}
  PROVE  \E m \in S : \A k \in S : m <= k
<1>1. OpToRel(<, Nat) = Below
  BY DEF OpToRel, Below
<1>2. IsWellFoundedOn(OpToRel(<, Nat), Nat)
  BY NatLessThanWellFounded
<1>3. IsWellFoundedOn(Below, Nat)
  BY <1>1, <1>2
<1>4. PICK m \in S : \A k \in S : ~(<<k, m>> \in Below)
  BY <1>3, WFMin
<1>5. \A k \in S : m <= k
  <2>1. SUFFICES ASSUME NEW k \in S, k < m PROVE FALSE
    OBVIOUS
  <2>2. <<k, m>> \in Below
    BY <2>1 DEF Below
  <2>3. QED
    BY <1>4, <2>2
<1>6. QED
  BY <1>5

IsSums(f, w, m) == f[0] = 0 /\ \A n \in 1..m : f[n] = f[n - 1] + w[n]

\* There are sums of any number of the widths: else there were a least number that there
\* are none of.
LEMMA SumsExist ==
  ASSUME NEW w \in Seq(Nat)
  PROVE  \E f \in [0..Len(w) -> Nat] : IsSums(f, w, Len(w))
<1> DEFINE l == Len(w)
           Bad == {m \in 0..l : ~\E f \in [0..m -> Nat] : IsSums(f, w, m)}
<1>1. l \in Nat
  OBVIOUS
<1>2. 0 \notin Bad
  <2>1. [n \in 0..0 |-> 0] \in [0..0 -> Nat] /\ IsSums([n \in 0..0 |-> 0], w, 0)
    BY DEF IsSums
  <2>2. QED
    BY <2>1
<1>3. ASSUME NEW m \in 1..l, m - 1 \notin Bad
      PROVE  m \notin Bad
  <2>1. w[m] \in Nat /\ m \in Nat /\ m > 0 /\ m - 1 \in 0..l
    BY <1>3
  <2>2. PICK f \in [0..(m - 1) -> Nat] : IsSums(f, w, m - 1)
    BY <1>3, <2>1
  <2> DEFINE g == [n \in 0..m |-> IF n < m THEN f[n] ELSE f[m - 1] + w[m]]
  <2>3. g \in [0..m -> Nat]
    BY <2>1, <2>2
  <2>4. IsSums(g, w, m)
    <3>1. f[0] = 0 /\ \A k \in 1..(m - 1) : f[k] = f[k - 1] + w[k]
      BY <2>2 DEF IsSums
    <3>2. g[m] = f[m - 1] + w[m] /\ \A k \in 0..(m - 1) : g[k] = f[k]
      BY <2>1
    <3> HIDE DEF g
    <3>3. g[0] = 0
      BY <2>1, <3>1, <3>2
    <3>4. ASSUME NEW k \in 1..m PROVE g[k] = g[k - 1] + w[k]
      <4>1. CASE k = m
        BY <2>1, <3>2, <4>1
      <4>2. CASE k # m
        <5>1. k \in 1..(m - 1) /\ k \in 0..(m - 1) /\ k - 1 \in 0..(m - 1)
          BY <2>1, <4>2
        <5>2. QED
          BY <3>1, <3>2, <5>1
      <4>3. QED
        BY <4>1, <4>2
    <3>5. QED
      BY <3>3, <3>4 DEF IsSums
  <2>5. QED
    BY <2>3, <2>4
<1> HIDE DEF l
<1>4. Bad = {}
  <2>1. SUFFICES ASSUME Bad # {} PROVE FALSE
    OBVIOUS
  <2>2. Bad \in SUBSET Nat
    OBVIOUS
  <2> HIDE DEF Bad
  <2>3. PICK m \in Bad : \A k \in Bad : m <= k
    BY <2>1, <2>2, Least
  <2>4. m \in 0..l /\ m # 0
    BY <1>2, <2>3 DEF Bad
  <2>5. m \in 1..l /\ m - 1 \notin Bad
    BY <1>1, <2>2, <2>3, <2>4
  <2>6. QED
    BY <1>3, <2>3, <2>5
<1>5. QED
  BY <1>1, <1>4 DEF l

\* A field ends where the one before it does and its width on.
LEMMA EndsDefined ==
  ASSUME NEW w \in Seq(Nat)
  PROVE  /\ Ends(w)[0] = 0
         /\ \A n \in 1..Len(w) : Ends(w)[n] = Ends(w)[n - 1] + w[n]
<1>1. PICK f \in [0..Len(w) -> Nat] : IsSums(f, w, Len(w))
  BY SumsExist
<1>2. f = [n \in 0..Len(w) |-> IF n = 0 THEN 0 ELSE f[n - 1] + w[n]]
  BY <1>1 DEF IsSums
<1>3. Ends(w) = [n \in 0..Len(w) |-> IF n = 0 THEN 0 ELSE Ends(w)[n - 1] + w[n]]
  BY <1>2 DEF Ends
<1> DEFINE e == Ends(w)
<1>4. e = [n \in 0..Len(w) |-> IF n = 0 THEN 0 ELSE e[n - 1] + w[n]]
  BY <1>3
<1>5. Len(w) \in Nat
  OBVIOUS
<1> HIDE DEF e
<1>6. /\ e[0] = 0
      /\ \A n \in 1..Len(w) : e[n] = e[n - 1] + w[n]
  BY <1>4, <1>5
<1>7. QED
  BY <1>6 DEF e

LEMMA SingleEnds ==
  ASSUME NEW n \in Nat
  PROVE  /\ <<n>> \in Seq(Nat) /\ Len(<<n>>) = 1 /\ Bits(<<n>>) = n
         /\ Ends(<<n>>)[0] = 0 /\ Ends(<<n>>)[1] = n
<1>1. <<n>> \in Seq(Nat) /\ Len(<<n>>) = 1
  OBVIOUS
<1> DEFINE e == Ends(<<n>>)
<1>2. e[0] = 0 /\ \A k \in 1..1 : e[k] = e[k - 1] + <<n>>[k]
  BY <1>1, EndsDefined
<1> HIDE DEF e
<1>3. e[0] = 0 /\ e[1] = n
  BY <1>2
<1>4. QED
  BY <1>1, <1>3 DEF e, Bits

-----------------------------------------------------------------------------
(***************************************************************************)
(* What makes a description right.                                         *)
(***************************************************************************)

InReg(row, len) == row[1] \in Nat /\ row[2] \in Nat /\ row[1] <= row[2] /\ row[2] < len

Labelled(rows, b)    == \E r \in rows : b \in r[1]..r[2]
Covers(rows, lo, hi) == \A b \in lo..hi : Labelled(rows, b)
Apart(rows)          == \A r, q \in rows : r # q => r[2] < q[1] \/ q[2] < r[1]

\* The first bit of a field and the one behind its last.
First(w, k)  == IF k = All THEN 0 ELSE Ends(w)[k - 1]
Behind(w, k) == IF k = All THEN Bits(w) ELSE Ends(w)[k]

\* The row shows a field within the register.
HasField(w, row, len) ==
  /\ row[3] \in 1..Len(w) \cup {All}
  /\ First(w, row[3]) \in Nat /\ Behind(w, row[3]) \in Nat
  /\ First(w, row[3]) < Behind(w, row[3]) /\ Behind(w, row[3]) <= len

\* It has just its bits for a label unless it begins with one of the wrong ones.
ShowsField(w, row, len, wrong) ==
  /\ HasField(w, row, len)
  /\ row[1] \notin wrong <=> row[1] = First(w, row[3]) /\ row[2] + 1 = Behind(w, row[3])

\* The row is labelled with more bits than the number has that its field is cut to, and
\* begins with one of the wrong ones.
CutShort(w, row, wrong) ==
  /\ row[3] \in Int /\ row[3] < All /\ All - row[3] \in 1..Len(w)
  /\ Ends(w)[All - row[3] - 1] \in Nat
  /\ row[1] \in wrong /\ row[1] + 16 <= row[2]

\* The rows are of the register, whatever they are labelled with.
Reads(content, len) ==
  /\ content.layout \in Seq(Nat)
  /\ \A r \in content.rows : InReg(r, len)
  /\ \A r \in content.rows : r[3] # None => HasField(content.layout, r, len)

Fits(content, len, wrong) ==
  /\ content.layout \in Seq(Nat)
  /\ \A r \in content.rows : InReg(r, len)
  /\ \A r \in content.rows :
       r[3] # None => \/ ShowsField(content.layout, r, len, wrong)
                      \/ CutShort(content.layout, r, wrong)

Tells(content, len, wrong) ==
  Fits(content, len, wrong) /\ Apart(content.rows) /\ Covers(content.rows, 0, len - 1)

\* A description titled with the offset it is read at.
Placed(text, off, len) ==
  text.button = off /\ text.title = off /\ text.at = 8 * off /\ text.len = len

TextTells(text, off, len, wrong) ==
  Placed(text, off, len) /\ \A content \in text.contents : Tells(content, len, wrong)

\* What LabelsTrue and EveryBitLabelled say of a description.
Truthful(text, reg) ==
  \A content \in text.contents : \A row \in content.rows :
    row[3] # None => (RowTrue(text, content.layout, row) <=> ~Mislabelled(reg, row))

Missing(text, rows) == {b \in 0..(text.len - 1) : ~\E r \in rows : b \in r[1]..r[2]}
Twice(text, rows)   ==
  {b \in 0..(text.len - 1) : \E r, q \in rows : r # q /\ b \in r[1]..r[2] /\ b \in q[1]..q[2]}

Complete(text, reg) ==
  \A content \in text.contents :
    /\ Missing(text, content.rows) = CASE reg = "bridge_ctl"  -> 12..15
                                       [] reg = "lane_eq_ctl" -> 12..14
                                       [] OTHER               -> {}
    /\ Twice(text, content.rows) = IF reg = "lane_eq_ctl" THEN 4..6 ELSE {}
    /\ \A r \in content.rows : r[2] < text.len

Right(text, reg) == Truthful(text, reg) /\ Complete(text, reg)

\* The bits from first to before behind of a register of len bits that begins at t.
BitsFrom(t, first, behind, len) ==
  {t + b : b \in first..(Min({first + (behind - first), len}) - 1)}

NamedFrom(t, lo, hi) == (t + lo)..(t + hi)

\* A label has the bits of its field just when they begin and end with the same.
LEMMA SameBits ==
  ASSUME NEW t \in Nat, NEW len \in Nat, NEW lo \in Nat, NEW hi \in Nat, lo <= hi,
         NEW first \in Nat, NEW behind \in Nat, first < behind, behind <= len
  PROVE  NamedFrom(t, lo, hi) = BitsFrom(t, first, behind, len) <=> lo = first /\ hi + 1 = behind
<1> DEFINE L == (t + lo)..(t + hi)
           R == {t + b : b \in first..(behind - 1)}
<1>1. Min({first + (behind - first), len}) = behind
  <2>1. first + (behind - first) = behind /\ behind \in Int /\ len \in Int
    OBVIOUS
  <2>2. \A x \in {behind, len} : behind <= x
    OBVIOUS
  <2>3. QED
    BY <2>1, <2>2 DEF Min
<1>2. CASE lo = first /\ hi + 1 = behind
  <2>1. \A x \in L : x - t \in first..(behind - 1) /\ x = t + (x - t)
    BY <1>2
  <2>2. L \subseteq R
    BY <2>1
  <2>3. R \subseteq L
    BY <1>2
  <2>4. QED
    BY <1>1, <1>2, <2>2, <2>3 DEF BitsFrom, NamedFrom
<1>3. CASE ~(lo = first /\ hi + 1 = behind)
  <2>1. SUFFICES L # R
    BY <1>1, <1>3 DEF BitsFrom, NamedFrom
  <2>2. t + lo \in L /\ t + hi \in L
    OBVIOUS
  <2>3. t + first \in R /\ t + (behind - 1) \in R
    OBVIOUS
  <2>4. \A x \in L : t + lo <= x /\ x <= t + hi
    OBVIOUS
  <2>5. \A x \in R : t + first <= x /\ x <= t + (behind - 1)
    OBVIOUS
  <2> HIDE DEF L, R
  <2>6. QED
    BY <1>3, <2>2, <2>3, <2>4, <2>5
<1>4. QED
  BY <1>2, <1>3

\* The bits of the row's field, as RegTexts reads them.
LEMMA FieldRead ==
  ASSUME NEW text, NEW w \in Seq(Nat), NEW row, NEW len, HasField(w, row, len)
  PROVE  ReadBits(text, w, row) =
           BitsFrom(text.at, First(w, row[3]), Behind(w, row[3]), text.len)
<1>0. ~(row[3] < All)
  BY DEF HasField, All
<1>1. CASE row[3] = All
  <2>1. Bits(w) \in Nat /\ Bits(w) - 0 = Bits(w)
    BY <1>1 DEF HasField, Behind
  <2>2. QED
    BY <1>0, <1>1, <2>1 DEF ReadBits, BitsFrom, First, Behind
<1>2. CASE row[3] # All
  <2>1. row[3] \in 1..Len(w)
    BY <1>2 DEF HasField
  <2>2. Ends(w)[row[3]] = Ends(w)[row[3] - 1] + w[row[3]]
    BY <2>1, EndsDefined
  <2>3. w[row[3]] \in Nat /\ Ends(w)[row[3] - 1] \in Nat
    BY <1>2, <2>1 DEF HasField, First
  <2>4. Ends(w)[row[3]] - Ends(w)[row[3] - 1] = w[row[3]]
    BY <2>2, <2>3
  <2>5. QED
    BY <1>0, <1>2, <2>4 DEF ReadBits, BitsFrom, First, Behind, Position
<1>3. QED
  BY <1>1, <1>2

\* Of a field that is cut, no bits further apart than a number of 16 bits has them.
LEMMA CutRead ==
  ASSUME NEW text, NEW w \in Seq(Nat), NEW row, NEW wrong, CutShort(w, row, wrong),
         text.at \in Nat, text.len \in Nat
  PROVE  /\ ReadBits(text, w, row) \subseteq Int
         /\ \A x, z \in ReadBits(text, w, row) : z < x + 16
<1> DEFINE k == All - row[3]
           first == Position(w, k)
           shown == Min({w[k], 16})
           last == Min({first + shown, text.len}) - 1
<1>1. row[3] < All /\ k # All /\ k \in 1..Len(w) /\ w[k] \in Nat /\ first \in Nat
  BY DEF CutShort, Position, All
<1>2. ReadBits(text, w, row) = {text.at + b : b \in first..last}
  BY <1>1 DEF ReadBits
<1>3. shown \in Nat /\ shown <= 16
  <2> DEFINE n == w[k]
  <2>1. n \in Nat
    BY <1>1
  <2> HIDE DEF n
  <2>2. \E m \in {n, 16} : \A x \in {n, 16} : m <= x
    BY <2>1
  <2>3. Min({n, 16}) \in {n, 16} /\ \A x \in {n, 16} : Min({n, 16}) <= x
    BY <2>2 DEF Min
  <2>4. QED
    BY <2>1, <2>3 DEF n
<1> HIDE DEF shown, first, k
<1>4. last \in Int /\ last <= first + 15
  <2> DEFINE a == first + shown
             l == text.len
  <2>1. a \in Nat /\ l \in Nat
    BY <1>1, <1>3
  <2> HIDE DEF a, l
  <2>2. \E m \in {a, l} : \A x \in {a, l} : m <= x
    BY <2>1
  <2>3. Min({a, l}) \in {a, l} /\ \A x \in {a, l} : Min({a, l}) <= x
    BY <2>2 DEF Min
  <2>4. Min({a, l}) \in Nat /\ Min({a, l}) <= a
    BY <2>1, <2>3
  <2>5. QED
    BY <1>1, <1>3, <2>4 DEF a, l
<1> HIDE DEF last
<1>5. text.at \in Nat
  OBVIOUS
<1> DEFINE at == text.at
<1> HIDE DEF at
<1>6. ASSUME NEW x \in {at + b : b \in first..last}
      PROVE  x \in Int /\ at + first <= x /\ x <= at + first + 15
  BY <1>1, <1>4, <1>5 DEF at
<1>7. ReadBits(text, w, row) = {at + b : b \in first..last} /\ at + first \in Int
  BY <1>1, <1>2, <1>5 DEF at
<1> DEFINE S == {at + b : b \in first..last}
           lowest == at + first
<1>8. /\ lowest \in Int
      /\ \A x \in S : x \in Int /\ lowest <= x /\ x <= lowest + 15
  <2>1. \A x \in S : x \in Int /\ at + first <= x /\ x <= at + first + 15
    BY <1>6
  <2>2. QED
    <3>1. at \in Nat /\ first \in Nat
      BY <1>1, <1>5 DEF at
    <3> HIDE DEF S
    <3>2. QED
      BY <2>1, <3>1
<1>9. ReadBits(text, w, row) = S
  BY <1>7
<1> HIDE DEF S, lowest
<1>10. QED
  BY <1>8, <1>9

\* A row of a description that is read where it is titled shows the bits of its label, if
\* that is not a wrong one.
LEMMA RowTruthful ==
  ASSUME NEW text, NEW t \in Nat, NEW len \in Nat, NEW wrong, NEW w \in Seq(Nat), NEW row,
         text.title = t, text.at = 8 * t, text.len = len,
         InReg(row, len), ShowsField(w, row, len, wrong)
  PROVE  RowTrue(text, w, row) <=> row[1] \notin wrong
<1> DEFINE first == First(w, row[3])
           behind == Behind(w, row[3])
<1>1. ReadBits(text, w, row) = BitsFrom(8 * t, first, behind, len)
  BY FieldRead DEF ShowsField
<1>2. LabelBits(text, row) = (8 * t + row[1])..(8 * t + row[2])
  BY DEF LabelBits
<1>3. /\ row[1] \in Nat /\ row[2] \in Nat /\ row[1] <= row[2]
      /\ first \in Nat /\ behind \in Nat /\ first < behind /\ behind <= len
      /\ row[1] \notin wrong <=> row[1] = first /\ row[2] + 1 = behind
  BY DEF InReg, ShowsField, HasField
<1> DEFINE s == 8 * t
           lo == row[1]
           hi == row[2]
<1>4. s \in Nat
  OBVIOUS
<1>5. LabelBits(text, row) = ReadBits(text, w, row) <=> lo = first /\ hi + 1 = behind
  <2>1. /\ ReadBits(text, w, row) = BitsFrom(s, first, behind, len)
        /\ LabelBits(text, row) = NamedFrom(s, lo, hi)
    BY <1>1, <1>2 DEF NamedFrom
  <2>2. /\ lo \in Nat /\ hi \in Nat /\ lo <= hi
        /\ first \in Nat /\ behind \in Nat /\ first < behind /\ behind <= len
    BY <1>3
  <2> HIDE DEF s, lo, hi, first, behind
  <2>3. NamedFrom(s, lo, hi) = BitsFrom(s, first, behind, len) <=> lo = first /\ hi + 1 = behind
    BY <1>4, <2>2, SameBits
  <2>4. QED
    BY <2>1, <2>3
<1>6. QED
  BY <1>3, <1>5 DEF RowTrue

\* One whose number is cut does not, and its label is a wrong one.
LEMMA RowCut ==
  ASSUME NEW text, NEW t \in Nat, NEW len \in Nat, NEW wrong, NEW w \in Seq(Nat), NEW row,
         text.title = t, text.at = 8 * t, text.len = len,
         InReg(row, len), CutShort(w, row, wrong)
  PROVE  ~RowTrue(text, w, row) /\ row[1] \in wrong
<1>1. text.at \in Nat /\ text.len \in Nat
  OBVIOUS
<1>2. \A x, z \in ReadBits(text, w, row) : z < x + 16
  BY <1>1, CutRead
<1>3. row[1] \in wrong /\ row[1] + 16 <= row[2] /\ row[1] \in Nat /\ row[2] \in Nat
  BY DEF CutShort, InReg
<1>4. 8 * t + row[1] \in LabelBits(text, row) /\ 8 * t + row[2] \in LabelBits(text, row)
  BY <1>3 DEF LabelBits
<1>5. ~(8 * t + row[2] < 8 * t + row[1] + 16)
  BY <1>3
<1>6. QED
  BY <1>2, <1>3, <1>4, <1>5 DEF RowTrue

\* A description that is read where it is titled shows the bits of its labels, but for
\* the wrong ones.
LEMMA TextTruthful ==
  ASSUME NEW text, NEW reg, NEW t \in Nat, NEW len \in Nat, NEW wrong,
         text.title = t, text.at = 8 * t, text.len = len,
         \A content \in text.contents : Fits(content, len, wrong),
         \A row : Mislabelled(reg, row) <=> row[1] \in wrong
  PROVE  Truthful(text, reg)
<1>1. SUFFICES ASSUME NEW content \in text.contents, NEW row \in content.rows, row[3] # None
               PROVE  RowTrue(text, content.layout, row) <=> row[1] \notin wrong
  BY DEF Truthful
<1>2. /\ content.layout \in Seq(Nat) /\ InReg(row, len)
      /\ ShowsField(content.layout, row, len, wrong) \/ CutShort(content.layout, row, wrong)
  BY <1>1 DEF Fits
<1>3. CASE ShowsField(content.layout, row, len, wrong)
  BY <1>2, <1>3, RowTruthful
<1>4. CASE CutShort(content.layout, row, wrong)
  BY <1>2, <1>4, RowCut
<1>5. QED
  BY <1>2, <1>3, <1>4

\* One that is read before or behind where it is titled shows none of them.
LEMMA TextElsewhere ==
  ASSUME NEW text, NEW reg \in MislabelledRegs, NEW t \in Nat, NEW at \in Nat, NEW len \in Nat,
         text.title = t, text.at = at, text.len = len,
         at + len <= 8 * t \/ 8 * t + len <= at,
         \A content \in text.contents : Reads(content, len)
  PROVE  Truthful(text, reg)
<1>1. SUFFICES ASSUME NEW content \in text.contents, NEW row \in content.rows, row[3] # None
               PROVE  LabelBits(text, row) # ReadBits(text, content.layout, row)
  BY DEF Truthful, RowTrue, Mislabelled
<1> DEFINE w == content.layout
           first == First(w, row[3])
           behind == Behind(w, row[3])
           last == Min({first + (behind - first), len}) - 1
<1>2. w \in Seq(Nat) /\ InReg(row, len) /\ HasField(w, row, len)
  BY <1>1 DEF Reads
<1>3. ReadBits(text, w, row) = {at + b : b \in first..last}
  BY <1>2, FieldRead DEF BitsFrom
<1>4. /\ row[1] \in Nat /\ row[2] \in Nat /\ row[1] <= row[2] /\ row[2] < len
      /\ first \in Nat /\ behind \in Nat /\ first < behind /\ behind <= len
  BY <1>2 DEF InReg, HasField
<1>5. last = behind - 1
  <2> HIDE DEF first, behind
  <2>1. first + (behind - first) = behind
    BY <1>4
  <2>2. \A x \in {behind, len} : behind <= x
    BY <1>4
  <2>3. QED
    BY <1>4, <2>1, <2>2 DEF Min
<1> HIDE DEF first, behind, last
<1>6. 8 * t + row[1] \in LabelBits(text, row) /\ 8 * t + row[1] < 8 * t + len
  BY <1>4 DEF LabelBits
<1>7. \A x \in ReadBits(text, w, row) : at <= x /\ x < at + len
  BY <1>3, <1>4, <1>5
<1>8. 8 * t + row[1] \notin ReadBits(text, w, row)
  <2>1. SUFFICES ASSUME at <= 8 * t + row[1], 8 * t + row[1] < at + len PROVE FALSE
    BY <1>7
  <2>2. QED
    BY <1>4, <2>1
<1>9. QED
  BY <1>6, <1>8 DEF w

\* Rows that cover the register and do not overlap name each bit once.
LEMMA TextComplete ==
  ASSUME NEW text, NEW reg, reg \notin {"bridge_ctl", "lane_eq_ctl"}, NEW len \in Nat,
         text.len = len, NEW wrong, \A content \in text.contents : Tells(content, len, wrong)
  PROVE  Complete(text, reg)
<1>1. SUFFICES ASSUME NEW content \in text.contents
               PROVE  /\ Missing(text, content.rows) = {} /\ Twice(text, content.rows) = {}
                      /\ \A r \in content.rows : r[2] < text.len
  BY DEF Complete
<1> DEFINE rows == content.rows
<1>2. (\A r \in rows : InReg(r, len)) /\ Apart(rows) /\ Covers(rows, 0, len - 1)
  BY <1>1 DEF Tells, Fits
<1> HIDE DEF rows
<1>3. Missing(text, rows) = {}
  BY <1>2 DEF Missing, Covers, Labelled
<1>4. Twice(text, rows) = {}
  BY <1>2 DEF Twice, Apart, InReg
<1>5. \A r \in rows : r[2] < text.len
  BY <1>2 DEF InReg
<1>6. QED
  BY <1>3, <1>4, <1>5 DEF rows

\* Which rows are mislabelled.
LEMMA Mislabelling ==
  /\ \A reg, row :
          reg \notin MislabelledRegs \cup DOMAIN MislabelledRows => ~Mislabelled(reg, row)
  /\ \A row : \A reg \in DOMAIN MislabelledRows :
       Mislabelled(reg, row) <=> row[1] \in MislabelledRows[reg]
  /\ DOMAIN MislabelledRows = {"dev_cap", "link_cap", "link_ctl", "link_status", "slot_cap",
                               "root_err_cmd", "msg_addr", "msg_addr_lower",
                               "lane_err_stat", "dlink_feat_cap", "dlink_feat_stat"}
  /\ MislabelledRegs = {"bist", "lane_eq_ctl"}
<1>1. /\ DOMAIN MislabelledRows = {"dev_cap", "link_cap", "link_ctl", "link_status", "slot_cap",
                                   "root_err_cmd", "msg_addr", "msg_addr_lower",
                                   "lane_err_stat", "dlink_feat_cap", "dlink_feat_stat"}
      /\ MislabelledRegs = {"bist", "lane_eq_ctl"}
  BY DEF MislabelledRows, MislabelledRegs
<1>2. QED
  BY <1>1 DEF Mislabelled

\* The registers without mislabelled rows, and whose bits are all labelled once.
Plain(reg) ==
  reg \notin MislabelledRegs \cup DOMAIN MislabelledRows \cup {"bridge_ctl", "lane_eq_ctl"}

LEMMA PlainRight ==
  ASSUME NEW text, NEW off \in Nat, NEW len \in Nat, TextTells(text, off, len, {}),
         NEW reg, Plain(reg)
  PROVE  Right(text, reg)
<1>1. \A row : Mislabelled(reg, row) <=> row[1] \in {}
  BY Mislabelling DEF Plain
<1>2. /\ text.title = off /\ text.at = 8 * off /\ text.len = len
      /\ \A content \in text.contents : Tells(content, len, {}) /\ Fits(content, len, {})
  BY DEF TextTells, Placed, Tells
<1>3. Truthful(text, reg)
  BY <1>1, <1>2, TextTruthful
<1>4. Complete(text, reg)
  BY <1>2, TextComplete DEF Plain
<1>5. QED
  BY <1>3, <1>4 DEF Right

LEMMA ExceptedRight ==
  ASSUME NEW text, NEW off \in Nat, NEW len \in Nat, NEW reg \in DOMAIN MislabelledRows,
         TextTells(text, off, len, MislabelledRows[reg])
  PROVE  Right(text, reg)
<1>1. \A row : Mislabelled(reg, row) <=> row[1] \in MislabelledRows[reg]
  BY Mislabelling
<1>2. reg \notin {"bridge_ctl", "lane_eq_ctl"}
  BY Mislabelling
<1>3. /\ text.title = off /\ text.at = 8 * off /\ text.len = len
      /\ \A content \in text.contents :
           Tells(content, len, MislabelledRows[reg]) /\ Fits(content, len, MislabelledRows[reg])
  BY DEF TextTells, Placed, Tells
<1>4. Truthful(text, reg)
  BY <1>1, <1>3, TextTruthful
<1>5. Complete(text, reg)
  BY <1>2, <1>3, TextComplete
<1>6. QED
  BY <1>4, <1>5 DEF Right

\* The parts a description is made of cover the bits they name.
LEMMA PartsCover ==
  ASSUME NEW P
  PROVE  /\ \A lo, hi, k : Field(lo, hi, k) \in P => Covers(UNION P, lo, hi)
         /\ \A lo, k : Flag(lo, k) \in P => Covers(UNION P, lo, lo)
         /\ \A lo, hi : Rsvd(lo, hi) \in P => Covers(UNION P, lo, hi)
         /\ \A k : \A lo, hi \in Nat : Flags(lo, hi, k) \in P => Covers(UNION P, lo, hi)
<1>1. ASSUME NEW lo, NEW hi, NEW k, Field(lo, hi, k) \in P
      PROVE  Covers(UNION P, lo, hi)
  <2>1. <<lo, hi, k>> \in UNION P
    BY <1>1 DEF Field
  <2>2. QED
    BY <2>1 DEF Covers, Labelled
<1>2. ASSUME NEW lo, NEW hi, Rsvd(lo, hi) \in P
      PROVE  Covers(UNION P, lo, hi)
  <2>1. <<lo, hi, None>> \in UNION P
    BY <1>2 DEF Rsvd
  <2>2. QED
    BY <2>1 DEF Covers, Labelled
<1>3. ASSUME NEW lo \in Nat, NEW hi \in Nat, NEW k, Flags(lo, hi, k) \in P
      PROVE  Covers(UNION P, lo, hi)
  <2>1. SUFFICES ASSUME NEW b \in lo..hi PROVE Labelled(UNION P, b)
    BY DEF Covers
  <2>2. <<b, b, k + b - lo>> \in UNION P
    BY <1>3 DEF Flags
  <2>3. b \in b..b
    OBVIOUS
  <2>4. QED
    BY <2>2, <2>3 DEF Labelled
<1>4. QED
  BY <1>1, <1>2, <1>3 DEF Flag

LEMMA WholeTells ==
  ASSUME NEW w \in Seq(Nat), NEW len \in Nat, 0 < len, Bits(w) = len
  PROVE  Tells(Content(w, {Field(0, len - 1, All)}), len, {})
<1> DEFINE c == Content(w, {Field(0, len - 1, All)})
           row == <<0, len - 1, All>>
<1>1. c.layout = w /\ c.rows = {row}
  BY DEF Content, Field
<1>2. row[1] = 0 /\ row[2] = len - 1 /\ row[3] = All /\ row[2] + 1 = len
  OBVIOUS
<1> HIDE DEF row, c
<1>3. InReg(row, len) /\ ShowsField(w, row, len, {})
  BY <1>2 DEF InReg, ShowsField, HasField, First, Behind
<1>4. Apart(c.rows) /\ Covers(c.rows, 0, len - 1)
  BY <1>1, <1>2 DEF Apart, Covers, Labelled
<1>5. Tells(c, len, {})
  BY <1>1, <1>3, <1>4 DEF Tells, Fits
<1>6. QED
  BY <1>5 DEF c

LEMMA NumberTells ==
  ASSUME NEW w \in Seq(Nat), Bits(w) \in Nat, 0 < Bits(w), NEW c \in Number(w)
  PROVE  Tells(c, Bits(w), {})
BY WholeTells DEF Number

LEMMA SingleTells ==
  ASSUME NEW len \in Nat, 0 < len
  PROVE  Tells(Content(<<len>>, {Field(0, len - 1, 1)}), len, {})
<1> DEFINE w == <<len>>
           c == Content(w, {Field(0, len - 1, 1)})
           row == <<0, len - 1, 1>>
<1>1. /\ w \in Seq(Nat) /\ Len(w) = 1 /\ Ends(w)[0] = 0 /\ Ends(w)[1] = len
  BY SingleEnds
<1>2. c.layout = w /\ c.rows = {row}
  BY DEF Content, Field
<1>3. row[1] = 0 /\ row[2] = len - 1 /\ row[3] = 1 /\ row[2] + 1 = len
  OBVIOUS
<1> HIDE DEF row, c, w
<1>4. First(w, 1) = 0 /\ Behind(w, 1) = len
  BY <1>1 DEF First, Behind, All
<1>5. InReg(row, len) /\ ShowsField(w, row, len, {})
  BY <1>1, <1>3, <1>4 DEF InReg, ShowsField, HasField
<1>6. Apart(c.rows) /\ Covers(c.rows, 0, len - 1)
  BY <1>2, <1>3 DEF Apart, Covers, Labelled
<1>7. Tells(c, len, {})
  BY <1>1, <1>2, <1>5, <1>6 DEF Tells, Fits
<1>8. QED
  BY <1>7 DEF c, w

LEMMA MergedAt ==
  ASSUME NEW tables, NEW t \in tables, NEW r \in DOMAIN t,
         \A u \in tables : r \in DOMAIN u => u = t
  PROVE  Merged(tables)[r] = t[r]
<1>1. (CHOOSE u \in tables : r \in DOMAIN u) = t
  OBVIOUS
<1>2. r \in UNION {DOMAIN u : u \in tables}
  OBVIOUS
<1>3. QED
  BY <1>1, <1>2 DEF Merged

-----------------------------------------------------------------------------
(***************************************************************************)
(* Where the fields of the header's registers end, and the descriptions of *)
(* those that are not shown as a number.                                   *)
(***************************************************************************)

LEMMA RegVendorIDEnds ==
  /\ RegVendorID \in Seq(Nat) /\ Len(RegVendorID) = 1 /\ Bits(RegVendorID) = 16
  /\ Ends(RegVendorID)[0] = 0 /\ Ends(RegVendorID)[1] = 16
BY SingleEnds DEF RegVendorID

LEMMA RegDeviceIDEnds ==
  /\ RegDeviceID \in Seq(Nat) /\ Len(RegDeviceID) = 1 /\ Bits(RegDeviceID) = 16
  /\ Ends(RegDeviceID)[0] = 0 /\ Ends(RegDeviceID)[1] = 16
BY SingleEnds DEF RegDeviceID

LEMMA RegRevIDEnds ==
  /\ RegRevID \in Seq(Nat) /\ Len(RegRevID) = 1 /\ Bits(RegRevID) = 8 /\ Ends(RegRevID)[0] = 0
  /\ Ends(RegRevID)[1] = 8
BY SingleEnds DEF RegRevID

LEMMA RegCacheLineSizeEnds ==
  /\ RegCacheLineSize \in Seq(Nat) /\ Len(RegCacheLineSize) = 1 /\ Bits(RegCacheLineSize) = 8
  /\ Ends(RegCacheLineSize)[0] = 0 /\ Ends(RegCacheLineSize)[1] = 8
BY SingleEnds DEF RegCacheLineSize

LEMMA RegLatTimerEnds ==
  /\ RegLatTimer \in Seq(Nat) /\ Len(RegLatTimer) = 1 /\ Bits(RegLatTimer) = 8
  /\ Ends(RegLatTimer)[0] = 0 /\ Ends(RegLatTimer)[1] = 8
BY SingleEnds DEF RegLatTimer

LEMMA RegCapPtrEnds ==
  /\ RegCapPtr \in Seq(Nat) /\ Len(RegCapPtr) = 1 /\ Bits(RegCapPtr) = 8
  /\ Ends(RegCapPtr)[0] = 0 /\ Ends(RegCapPtr)[1] = 8
BY SingleEnds DEF RegCapPtr

LEMMA RegItrLineEnds ==
  /\ RegItrLine \in Seq(Nat) /\ Len(RegItrLine) = 1 /\ Bits(RegItrLine) = 8
  /\ Ends(RegItrLine)[0] = 0 /\ Ends(RegItrLine)[1] = 8
BY SingleEnds DEF RegItrLine

LEMMA RegItrPinEnds ==
  /\ RegItrPin \in Seq(Nat) /\ Len(RegItrPin) = 1 /\ Bits(RegItrPin) = 8
  /\ Ends(RegItrPin)[0] = 0 /\ Ends(RegItrPin)[1] = 8
BY SingleEnds DEF RegItrPin

LEMMA RegCardbusCISEnds ==
  /\ RegCardbusCIS \in Seq(Nat) /\ Len(RegCardbusCIS) = 1 /\ Bits(RegCardbusCIS) = 32
  /\ Ends(RegCardbusCIS)[0] = 0 /\ Ends(RegCardbusCIS)[1] = 32
BY SingleEnds DEF RegCardbusCIS

LEMMA RegSubsysVIDEnds ==
  /\ RegSubsysVID \in Seq(Nat) /\ Len(RegSubsysVID) = 1 /\ Bits(RegSubsysVID) = 16
  /\ Ends(RegSubsysVID)[0] = 0 /\ Ends(RegSubsysVID)[1] = 16
BY SingleEnds DEF RegSubsysVID

LEMMA RegSubsysIDEnds ==
  /\ RegSubsysID \in Seq(Nat) /\ Len(RegSubsysID) = 1 /\ Bits(RegSubsysID) = 16
  /\ Ends(RegSubsysID)[0] = 0 /\ Ends(RegSubsysID)[1] = 16
BY SingleEnds DEF RegSubsysID

LEMMA RegMinGntEnds ==
  /\ RegMinGnt \in Seq(Nat) /\ Len(RegMinGnt) = 1 /\ Bits(RegMinGnt) = 8
  /\ Ends(RegMinGnt)[0] = 0 /\ Ends(RegMinGnt)[1] = 8
BY SingleEnds DEF RegMinGnt

LEMMA RegMaxLatEnds ==
  /\ RegMaxLat \in Seq(Nat) /\ Len(RegMaxLat) = 1 /\ Bits(RegMaxLat) = 8
  /\ Ends(RegMaxLat)[0] = 0 /\ Ends(RegMaxLat)[1] = 8
BY SingleEnds DEF RegMaxLat

LEMMA RegPrimBusNumEnds ==
  /\ RegPrimBusNum \in Seq(Nat) /\ Len(RegPrimBusNum) = 1 /\ Bits(RegPrimBusNum) = 8
  /\ Ends(RegPrimBusNum)[0] = 0 /\ Ends(RegPrimBusNum)[1] = 8
BY SingleEnds DEF RegPrimBusNum

LEMMA RegSecBusNumEnds ==
  /\ RegSecBusNum \in Seq(Nat) /\ Len(RegSecBusNum) = 1 /\ Bits(RegSecBusNum) = 8
  /\ Ends(RegSecBusNum)[0] = 0 /\ Ends(RegSecBusNum)[1] = 8
BY SingleEnds DEF RegSecBusNum

LEMMA RegSubBusNumEnds ==
  /\ RegSubBusNum \in Seq(Nat) /\ Len(RegSubBusNum) = 1 /\ Bits(RegSubBusNum) = 8
  /\ Ends(RegSubBusNum)[0] = 0 /\ Ends(RegSubBusNum)[1] = 8
BY SingleEnds DEF RegSubBusNum

LEMMA RegIOUpperBLEnds ==
  /\ RegIOUpperBL \in Seq(Nat) /\ Len(RegIOUpperBL) = 1 /\ Bits(RegIOUpperBL) = 16
  /\ Ends(RegIOUpperBL)[0] = 0 /\ Ends(RegIOUpperBL)[1] = 16
BY SingleEnds DEF RegIOUpperBL

LEMMA RegCommandEnds ==
  /\ RegCommand \in Seq(Nat) /\ Len(RegCommand) = 10 /\ Bits(RegCommand) = 16
  /\ Ends(RegCommand)[0] = 0 /\ Ends(RegCommand)[1] = 1 /\ Ends(RegCommand)[2] = 2
  /\ Ends(RegCommand)[3] = 3 /\ Ends(RegCommand)[4] = 6 /\ Ends(RegCommand)[5] = 7
  /\ Ends(RegCommand)[6] = 8 /\ Ends(RegCommand)[7] = 9 /\ Ends(RegCommand)[8] = 10
  /\ Ends(RegCommand)[9] = 11 /\ Ends(RegCommand)[10] = 16
<1>1. RegCommand \in Seq(Nat) /\ Len(RegCommand) = 10
  BY DEF RegCommand
<1> DEFINE e == Ends(RegCommand)
<1>2. e[0] = 0 /\ \A n \in 1..10 : e[n] = e[n - 1] + RegCommand[n]
  BY <1>1, EndsDefined
<1> HIDE DEF e
<1>3. /\ e[0] = 0 /\ e[1] = 1 /\ e[2] = 2 /\ e[3] = 3 /\ e[4] = 6 /\ e[5] = 7 /\ e[6] = 8
      /\ e[7] = 9 /\ e[8] = 10 /\ e[9] = 11 /\ e[10] = 16
  BY <1>2 DEF RegCommand
<1>4. QED
  BY <1>1, <1>3 DEF e, Bits

LEMMA RegStatusEnds ==
  /\ RegStatus \in Seq(Nat) /\ Len(RegStatus) = 12 /\ Bits(RegStatus) = 16
  /\ Ends(RegStatus)[0] = 0 /\ Ends(RegStatus)[1] = 1 /\ Ends(RegStatus)[2] = 3
  /\ Ends(RegStatus)[3] = 4 /\ Ends(RegStatus)[4] = 5 /\ Ends(RegStatus)[5] = 8
  /\ Ends(RegStatus)[6] = 9 /\ Ends(RegStatus)[7] = 11 /\ Ends(RegStatus)[8] = 12
  /\ Ends(RegStatus)[9] = 13 /\ Ends(RegStatus)[10] = 14 /\ Ends(RegStatus)[11] = 15
  /\ Ends(RegStatus)[12] = 16
<1>1. RegStatus \in Seq(Nat) /\ Len(RegStatus) = 12
  BY DEF RegStatus
<1> DEFINE e == Ends(RegStatus)
<1>2. e[0] = 0 /\ \A n \in 1..12 : e[n] = e[n - 1] + RegStatus[n]
  BY <1>1, EndsDefined
<1> HIDE DEF e
<1>3. /\ e[0] = 0 /\ e[1] = 1 /\ e[2] = 3 /\ e[3] = 4 /\ e[4] = 5 /\ e[5] = 8 /\ e[6] = 9
      /\ e[7] = 11 /\ e[8] = 12 /\ e[9] = 13 /\ e[10] = 14 /\ e[11] = 15 /\ e[12] = 16
  BY <1>2 DEF RegStatus
<1>4. QED
  BY <1>1, <1>3 DEF e, Bits

LEMMA RegClassCodeEnds ==
  /\ RegClassCode \in Seq(Nat) /\ Len(RegClassCode) = 3 /\ Bits(RegClassCode) = 24
  /\ Ends(RegClassCode)[0] = 0 /\ Ends(RegClassCode)[1] = 8 /\ Ends(RegClassCode)[2] = 16
  /\ Ends(RegClassCode)[3] = 24
<1>1. RegClassCode \in Seq(Nat) /\ Len(RegClassCode) = 3
  BY DEF RegClassCode
<1> DEFINE e == Ends(RegClassCode)
<1>2. e[0] = 0 /\ \A n \in 1..3 : e[n] = e[n - 1] + RegClassCode[n]
  BY <1>1, EndsDefined
<1> HIDE DEF e
<1>3. e[0] = 0 /\ e[1] = 8 /\ e[2] = 16 /\ e[3] = 24
  BY <1>2 DEF RegClassCode
<1>4. QED
  BY <1>1, <1>3 DEF e, Bits

LEMMA RegHdrTypeEnds ==
  /\ RegHdrType \in Seq(Nat) /\ Len(RegHdrType) = 2 /\ Bits(RegHdrType) = 8
  /\ Ends(RegHdrType)[0] = 0 /\ Ends(RegHdrType)[1] = 7 /\ Ends(RegHdrType)[2] = 8
<1>1. RegHdrType \in Seq(Nat) /\ Len(RegHdrType) = 2
  BY DEF RegHdrType
<1> DEFINE e == Ends(RegHdrType)
<1>2. e[0] = 0 /\ \A n \in 1..2 : e[n] = e[n - 1] + RegHdrType[n]
  BY <1>1, EndsDefined
<1> HIDE DEF e
<1>3. e[0] = 0 /\ e[1] = 7 /\ e[2] = 8
  BY <1>2 DEF RegHdrType
<1>4. QED
  BY <1>1, <1>3 DEF e, Bits

LEMMA RegBISTEnds ==
  /\ RegBIST \in Seq(Nat) /\ Len(RegBIST) = 4 /\ Bits(RegBIST) = 8 /\ Ends(RegBIST)[0] = 0
  /\ Ends(RegBIST)[1] = 4 /\ Ends(RegBIST)[2] = 6 /\ Ends(RegBIST)[3] = 7
  /\ Ends(RegBIST)[4] = 8
<1>1. RegBIST \in Seq(Nat) /\ Len(RegBIST) = 4
  BY DEF RegBIST
<1> DEFINE e == Ends(RegBIST)
<1>2. e[0] = 0 /\ \A n \in 1..4 : e[n] = e[n - 1] + RegBIST[n]
  BY <1>1, EndsDefined
<1> HIDE DEF e
<1>3. e[0] = 0 /\ e[1] = 4 /\ e[2] = 6 /\ e[3] = 7 /\ e[4] = 8
  BY <1>2 DEF RegBIST
<1>4. QED
  BY <1>1, <1>3 DEF e, Bits

LEMMA RegBARMemEnds ==
  /\ RegBARMem \in Seq(Nat) /\ Len(RegBARMem) = 4 /\ Bits(RegBARMem) = 32
  /\ Ends(RegBARMem)[0] = 0 /\ Ends(RegBARMem)[1] = 1 /\ Ends(RegBARMem)[2] = 3
  /\ Ends(RegBARMem)[3] = 4 /\ Ends(RegBARMem)[4] = 32
<1>1. RegBARMem \in Seq(Nat) /\ Len(RegBARMem) = 4
  BY DEF RegBARMem
<1> DEFINE e == Ends(RegBARMem)
<1>2. e[0] = 0 /\ \A n \in 1..4 : e[n] = e[n - 1] + RegBARMem[n]
  BY <1>1, EndsDefined
<1> HIDE DEF e
<1>3. e[0] = 0 /\ e[1] = 1 /\ e[2] = 3 /\ e[3] = 4 /\ e[4] = 32
  BY <1>2 DEF RegBARMem
<1>4. QED
  BY <1>1, <1>3 DEF e, Bits

LEMMA RegBARIoEnds ==
  /\ RegBARIo \in Seq(Nat) /\ Len(RegBARIo) = 3 /\ Bits(RegBARIo) = 32
  /\ Ends(RegBARIo)[0] = 0 /\ Ends(RegBARIo)[1] = 1 /\ Ends(RegBARIo)[2] = 2
  /\ Ends(RegBARIo)[3] = 32
<1>1. RegBARIo \in Seq(Nat) /\ Len(RegBARIo) = 3
  BY DEF RegBARIo
<1> DEFINE e == Ends(RegBARIo)
<1>2. e[0] = 0 /\ \A n \in 1..3 : e[n] = e[n - 1] + RegBARIo[n]
  BY <1>1, EndsDefined
<1> HIDE DEF e
<1>3. e[0] = 0 /\ e[1] = 1 /\ e[2] = 2 /\ e[3] = 32
  BY <1>2 DEF RegBARIo
<1>4. QED
  BY <1>1, <1>3 DEF e, Bits

LEMMA RegExpROMBarEnds ==
  /\ RegExpROMBar \in Seq(Nat) /\ Len(RegExpROMBar) = 3 /\ Bits(RegExpROMBar) = 32
  /\ Ends(RegExpROMBar)[0] = 0 /\ Ends(RegExpROMBar)[1] = 1 /\ Ends(RegExpROMBar)[2] = 11
  /\ Ends(RegExpROMBar)[3] = 32
<1>1. RegExpROMBar \in Seq(Nat) /\ Len(RegExpROMBar) = 3
  BY DEF RegExpROMBar
<1> DEFINE e == Ends(RegExpROMBar)
<1>2. e[0] = 0 /\ \A n \in 1..3 : e[n] = e[n - 1] + RegExpROMBar[n]
  BY <1>1, EndsDefined
<1> HIDE DEF e
<1>3. e[0] = 0 /\ e[1] = 1 /\ e[2] = 11 /\ e[3] = 32
  BY <1>2 DEF RegExpROMBar
<1>4. QED
  BY <1>1, <1>3 DEF e, Bits

LEMMA RegIOBaseEnds ==
  /\ RegIOBase \in Seq(Nat) /\ Len(RegIOBase) = 2 /\ Bits(RegIOBase) = 8
  /\ Ends(RegIOBase)[0] = 0 /\ Ends(RegIOBase)[1] = 4 /\ Ends(RegIOBase)[2] = 8
<1>1. RegIOBase \in Seq(Nat) /\ Len(RegIOBase) = 2
  BY DEF RegIOBase
<1> DEFINE e == Ends(RegIOBase)
<1>2. e[0] = 0 /\ \A n \in 1..2 : e[n] = e[n - 1] + RegIOBase[n]
  BY <1>1, EndsDefined
<1> HIDE DEF e
<1>3. e[0] = 0 /\ e[1] = 4 /\ e[2] = 8
  BY <1>2 DEF RegIOBase
<1>4. QED
  BY <1>1, <1>3 DEF e, Bits

LEMMA RegIOLimitEnds ==
  /\ RegIOLimit \in Seq(Nat) /\ Len(RegIOLimit) = 2 /\ Bits(RegIOLimit) = 8
  /\ Ends(RegIOLimit)[0] = 0 /\ Ends(RegIOLimit)[1] = 4 /\ Ends(RegIOLimit)[2] = 8
<1>1. RegIOLimit \in Seq(Nat) /\ Len(RegIOLimit) = 2
  BY DEF RegIOLimit
<1> DEFINE e == Ends(RegIOLimit)
<1>2. e[0] = 0 /\ \A n \in 1..2 : e[n] = e[n - 1] + RegIOLimit[n]
  BY <1>1, EndsDefined
<1> HIDE DEF e
<1>3. e[0] = 0 /\ e[1] = 4 /\ e[2] = 8
  BY <1>2 DEF RegIOLimit
<1>4. QED
  BY <1>1, <1>3 DEF e, Bits

LEMMA RegSecStatusEnds ==
  /\ RegSecStatus \in Seq(Nat) /\ Len(RegSecStatus) = 11 /\ Bits(RegSecStatus) = 16
  /\ Ends(RegSecStatus)[0] = 0 /\ Ends(RegSecStatus)[1] = 5 /\ Ends(RegSecStatus)[2] = 6
  /\ Ends(RegSecStatus)[3] = 7 /\ Ends(RegSecStatus)[4] = 8 /\ Ends(RegSecStatus)[5] = 9
  /\ Ends(RegSecStatus)[6] = 11 /\ Ends(RegSecStatus)[7] = 12 /\ Ends(RegSecStatus)[8] = 13
  /\ Ends(RegSecStatus)[9] = 14 /\ Ends(RegSecStatus)[10] = 15 /\ Ends(RegSecStatus)[11] = 16
<1>1. RegSecStatus \in Seq(Nat) /\ Len(RegSecStatus) = 11
  BY DEF RegSecStatus
<1> DEFINE e == Ends(RegSecStatus)
<1>2. e[0] = 0 /\ \A n \in 1..11 : e[n] = e[n - 1] + RegSecStatus[n]
  BY <1>1, EndsDefined
<1> HIDE DEF e
<1>3. /\ e[0] = 0 /\ e[1] = 5 /\ e[2] = 6 /\ e[3] = 7 /\ e[4] = 8 /\ e[5] = 9 /\ e[6] = 11
      /\ e[7] = 12 /\ e[8] = 13 /\ e[9] = 14 /\ e[10] = 15 /\ e[11] = 16
  BY <1>2 DEF RegSecStatus
<1>4. QED
  BY <1>1, <1>3 DEF e, Bits

LEMMA RegMemBLEnds ==
  /\ RegMemBL \in Seq(Nat) /\ Len(RegMemBL) = 2 /\ Bits(RegMemBL) = 16
  /\ Ends(RegMemBL)[0] = 0 /\ Ends(RegMemBL)[1] = 4 /\ Ends(RegMemBL)[2] = 16
<1>1. RegMemBL \in Seq(Nat) /\ Len(RegMemBL) = 2
  BY DEF RegMemBL
<1> DEFINE e == Ends(RegMemBL)
<1>2. e[0] = 0 /\ \A n \in 1..2 : e[n] = e[n - 1] + RegMemBL[n]
  BY <1>1, EndsDefined
<1> HIDE DEF e
<1>3. e[0] = 0 /\ e[1] = 4 /\ e[2] = 16
  BY <1>2 DEF RegMemBL
<1>4. QED
  BY <1>1, <1>3 DEF e, Bits

LEMMA RegPrefMemBLEnds ==
  /\ RegPrefMemBL \in Seq(Nat) /\ Len(RegPrefMemBL) = 2 /\ Bits(RegPrefMemBL) = 16
  /\ Ends(RegPrefMemBL)[0] = 0 /\ Ends(RegPrefMemBL)[1] = 4 /\ Ends(RegPrefMemBL)[2] = 16
<1>1. RegPrefMemBL \in Seq(Nat) /\ Len(RegPrefMemBL) = 2
  BY DEF RegPrefMemBL
<1> DEFINE e == Ends(RegPrefMemBL)
<1>2. e[0] = 0 /\ \A n \in 1..2 : e[n] = e[n - 1] + RegPrefMemBL[n]
  BY <1>1, EndsDefined
<1> HIDE DEF e
<1>3. e[0] = 0 /\ e[1] = 4 /\ e[2] = 16
  BY <1>2 DEF RegPrefMemBL
<1>4. QED
  BY <1>1, <1>3 DEF e, Bits

LEMMA RegBridgeCtlEnds ==
  /\ RegBridgeCtl \in Seq(Nat) /\ Len(RegBridgeCtl) = 13 /\ Bits(RegBridgeCtl) = 16
  /\ Ends(RegBridgeCtl)[0] = 0 /\ Ends(RegBridgeCtl)[1] = 1 /\ Ends(RegBridgeCtl)[2] = 2
  /\ Ends(RegBridgeCtl)[3] = 3 /\ Ends(RegBridgeCtl)[4] = 4 /\ Ends(RegBridgeCtl)[5] = 5
  /\ Ends(RegBridgeCtl)[6] = 6 /\ Ends(RegBridgeCtl)[7] = 7 /\ Ends(RegBridgeCtl)[8] = 8
  /\ Ends(RegBridgeCtl)[9] = 9 /\ Ends(RegBridgeCtl)[10] = 10 /\ Ends(RegBridgeCtl)[11] = 11
  /\ Ends(RegBridgeCtl)[12] = 12 /\ Ends(RegBridgeCtl)[13] = 16
<1>1. RegBridgeCtl \in Seq(Nat) /\ Len(RegBridgeCtl) = 13
  BY DEF RegBridgeCtl
<1> DEFINE e == Ends(RegBridgeCtl)
<1>2. e[0] = 0 /\ \A n \in 1..13 : e[n] = e[n - 1] + RegBridgeCtl[n]
  BY <1>1, EndsDefined
<1> HIDE DEF e
<1>3. /\ e[0] = 0 /\ e[1] = 1 /\ e[2] = 2 /\ e[3] = 3 /\ e[4] = 4 /\ e[5] = 5 /\ e[6] = 6
      /\ e[7] = 7 /\ e[8] = 8 /\ e[9] = 9 /\ e[10] = 10 /\ e[11] = 11 /\ e[12] = 12
      /\ e[13] = 16
  BY <1>2 DEF RegBridgeCtl
<1>4. QED
  BY <1>1, <1>3 DEF e, Bits

LEMMA RegInfoCommandCompTells == Tells(RegInfoCommandComp, 16, {})
<1> DEFINE P == {Flags(0, 2, 1), Rsvd(3, 5), Flag(6, 5), Rsvd(7, 7), Flag(8, 7), Rsvd(9, 9),
                 Flag(10, 9), Rsvd(11, 15)}
           R == UNION P
           e == Ends(RegCommand)
<1>0. /\ Len(RegCommand) = 10 /\ e[0] = 0 /\ e[1] = 1 /\ e[2] = 2 /\ e[3] = 3 /\ e[4] = 6
      /\ e[5] = 7 /\ e[6] = 8 /\ e[7] = 9 /\ e[8] = 10 /\ e[9] = 11 /\ e[10] = 16
  BY RegCommandEnds
<1> HIDE DEF e
<1>1. ASSUME NEW r \in R, r[3] # None
      PROVE  ShowsField(RegCommand, r, 16, {})
  <2>1. /\ r[3] \in 1..10 /\ r[1] = e[r[3] - 1] /\ r[2] + 1 = e[r[3]]
        /\ e[r[3] - 1] \in Nat /\ e[r[3]] \in Nat
        /\ e[r[3] - 1] < e[r[3]] /\ e[r[3]] <= 16
    BY <1>0, <1>1 DEF None, Field, Flags, Flag, Rsvd
  <2>2. QED
    BY <1>0, <2>1 DEF ShowsField, HasField, First, Behind, All, e
<1>2. (\A r \in R : InReg(r, 16)) /\ Apart(R)
  BY DEF InReg, Apart, None, Field, Flags, Flag, Rsvd
<1>3. Covers(R, 0, 15)
  <2>1. /\ Flags(0, 2, 1) \in P /\ Rsvd(3, 5) \in P /\ Flag(6, 5) \in P /\ Rsvd(7, 7) \in P
        /\ Flag(8, 7) \in P /\ Rsvd(9, 9) \in P /\ Flag(10, 9) \in P /\ Rsvd(11, 15) \in P
    OBVIOUS
  <2> HIDE DEF P
  <2>2. /\ Covers(R, 0, 2) /\ Covers(R, 3, 5) /\ Covers(R, 6, 6) /\ Covers(R, 7, 7)
        /\ Covers(R, 8, 8) /\ Covers(R, 9, 9) /\ Covers(R, 10, 10) /\ Covers(R, 11, 15)
    BY <2>1, PartsCover
  <2> HIDE DEF R
  <2>3. QED
    BY <2>2 DEF Covers
<1>4. Tells(Content(RegCommand, P), 16, {})
  BY <1>1, <1>2, <1>3, RegCommandEnds DEF Tells, Fits, Content
<1>5. QED
  BY <1>4 DEF RegInfoCommandComp

LEMMA RegInfoStatusCompTells == Tells(RegInfoStatusComp, 16, {})
<1> DEFINE P == {Flag(0, 1), Rsvd(1, 2), Flags(3, 4, 3), Rsvd(5, 7), Flag(8, 6), Rsvd(9, 10),
                 Flags(11, 15, 8)}
           R == UNION P
           e == Ends(RegStatus)
<1>0. /\ Len(RegStatus) = 12 /\ e[0] = 0 /\ e[1] = 1 /\ e[2] = 3 /\ e[3] = 4 /\ e[4] = 5
      /\ e[5] = 8 /\ e[6] = 9 /\ e[7] = 11 /\ e[8] = 12 /\ e[9] = 13 /\ e[10] = 14
      /\ e[11] = 15 /\ e[12] = 16
  BY RegStatusEnds
<1> HIDE DEF e
<1>1. ASSUME NEW r \in R, r[3] # None
      PROVE  ShowsField(RegStatus, r, 16, {})
  <2>1. /\ r[3] \in 1..12 /\ r[1] = e[r[3] - 1] /\ r[2] + 1 = e[r[3]]
        /\ e[r[3] - 1] \in Nat /\ e[r[3]] \in Nat
        /\ e[r[3] - 1] < e[r[3]] /\ e[r[3]] <= 16
    BY <1>0, <1>1 DEF None, Field, Flags, Flag, Rsvd
  <2>2. QED
    BY <1>0, <2>1 DEF ShowsField, HasField, First, Behind, All, e
<1>2. (\A r \in R : InReg(r, 16)) /\ Apart(R)
  BY DEF InReg, Apart, None, Field, Flags, Flag, Rsvd
<1>3. Covers(R, 0, 15)
  <2>1. /\ Flag(0, 1) \in P /\ Rsvd(1, 2) \in P /\ Flags(3, 4, 3) \in P /\ Rsvd(5, 7) \in P
        /\ Flag(8, 6) \in P /\ Rsvd(9, 10) \in P /\ Flags(11, 15, 8) \in P
    OBVIOUS
  <2> HIDE DEF P
  <2>2. /\ Covers(R, 0, 0) /\ Covers(R, 1, 2) /\ Covers(R, 3, 4) /\ Covers(R, 5, 7)
        /\ Covers(R, 8, 8) /\ Covers(R, 9, 10) /\ Covers(R, 11, 15)
    BY <2>1, PartsCover
  <2> HIDE DEF R
  <2>3. QED
    BY <2>2 DEF Covers
<1>4. Tells(Content(RegStatus, P), 16, {})
  BY <1>1, <1>2, <1>3, RegStatusEnds DEF Tells, Fits, Content
<1>5. QED
  BY <1>4 DEF RegInfoStatusComp

LEMMA RegInfoHdrTypeCompTells == Tells(RegInfoHdrTypeComp, 8, {})
<1> DEFINE P == {Field(0, 6, 1), Flag(7, 2)}
           R == UNION P
           e == Ends(RegHdrType)
<1>0. Len(RegHdrType) = 2 /\ e[0] = 0 /\ e[1] = 7 /\ e[2] = 8
  BY RegHdrTypeEnds
<1> HIDE DEF e
<1>1. ASSUME NEW r \in R, r[3] # None
      PROVE  ShowsField(RegHdrType, r, 8, {})
  <2>1. /\ r[3] \in 1..2 /\ r[1] = e[r[3] - 1] /\ r[2] + 1 = e[r[3]]
        /\ e[r[3] - 1] \in Nat /\ e[r[3]] \in Nat
        /\ e[r[3] - 1] < e[r[3]] /\ e[r[3]] <= 8
    BY <1>0, <1>1 DEF None, Field, Flag
  <2>2. QED
    BY <1>0, <2>1 DEF ShowsField, HasField, First, Behind, All, e
<1>2. (\A r \in R : InReg(r, 8)) /\ Apart(R)
  BY DEF InReg, Apart, None, Field, Flag
<1>3. Covers(R, 0, 7)
  <2>1. Field(0, 6, 1) \in P /\ Flag(7, 2) \in P
    OBVIOUS
  <2> HIDE DEF P
  <2>2. Covers(R, 0, 6) /\ Covers(R, 7, 7)
    BY <2>1, PartsCover
  <2> HIDE DEF R
  <2>3. QED
    BY <2>2 DEF Covers
<1>4. Tells(Content(RegHdrType, P), 8, {})
  BY <1>1, <1>2, <1>3, RegHdrTypeEnds DEF Tells, Fits, Content
<1>5. QED
  BY <1>4 DEF RegInfoHdrTypeComp

LEMMA RegInfoBISTCompTells == Tells(RegInfoBISTComp, 8, {})
<1> DEFINE P == {Field(0, 3, 1), Rsvd(4, 5), Flags(6, 7, 3)}
           R == UNION P
           e == Ends(RegBIST)
<1>0. Len(RegBIST) = 4 /\ e[0] = 0 /\ e[1] = 4 /\ e[2] = 6 /\ e[3] = 7 /\ e[4] = 8
  BY RegBISTEnds
<1> HIDE DEF e
<1>1. ASSUME NEW r \in R, r[3] # None
      PROVE  ShowsField(RegBIST, r, 8, {})
  <2>1. /\ r[3] \in 1..4 /\ r[1] = e[r[3] - 1] /\ r[2] + 1 = e[r[3]]
        /\ e[r[3] - 1] \in Nat /\ e[r[3]] \in Nat
        /\ e[r[3] - 1] < e[r[3]] /\ e[r[3]] <= 8
    BY <1>0, <1>1 DEF None, Field, Flags, Rsvd
  <2>2. QED
    BY <1>0, <2>1 DEF ShowsField, HasField, First, Behind, All, e
<1>2. (\A r \in R : InReg(r, 8)) /\ Apart(R)
  BY DEF InReg, Apart, None, Field, Flags, Rsvd
<1>3. Covers(R, 0, 7)
  <2>1. Field(0, 3, 1) \in P /\ Rsvd(4, 5) \in P /\ Flags(6, 7, 3) \in P
    OBVIOUS
  <2> HIDE DEF P
  <2>2. Covers(R, 0, 3) /\ Covers(R, 4, 5) /\ Covers(R, 6, 7)
    BY <2>1, PartsCover
  <2> HIDE DEF R
  <2>3. QED
    BY <2>2 DEF Covers
<1>4. Tells(Content(RegBIST, P), 8, {})
  BY <1>1, <1>2, <1>3, RegBISTEnds DEF Tells, Fits, Content
<1>5. QED
  BY <1>4 DEF RegInfoBISTComp

LEMMA RegInfoSecStatusCompTells == Tells(RegInfoSecStatusComp, 16, {})
<1> DEFINE P == {Rsvd(0, 4), Flag(5, 2), Rsvd(6, 6), Flags(7, 8, 4), Field(9, 10, 6),
                 Flags(11, 15, 7)}
           R == UNION P
           e == Ends(RegSecStatus)
<1>0. /\ Len(RegSecStatus) = 11 /\ e[0] = 0 /\ e[1] = 5 /\ e[2] = 6 /\ e[3] = 7 /\ e[4] = 8
      /\ e[5] = 9 /\ e[6] = 11 /\ e[7] = 12 /\ e[8] = 13 /\ e[9] = 14 /\ e[10] = 15
      /\ e[11] = 16
  BY RegSecStatusEnds
<1> HIDE DEF e
<1>1. ASSUME NEW r \in R, r[3] # None
      PROVE  ShowsField(RegSecStatus, r, 16, {})
  <2>1. /\ r[3] \in 1..11 /\ r[1] = e[r[3] - 1] /\ r[2] + 1 = e[r[3]]
        /\ e[r[3] - 1] \in Nat /\ e[r[3]] \in Nat
        /\ e[r[3] - 1] < e[r[3]] /\ e[r[3]] <= 16
    BY <1>0, <1>1 DEF None, Field, Flags, Flag, Rsvd
  <2>2. QED
    BY <1>0, <2>1 DEF ShowsField, HasField, First, Behind, All, e
<1>2. (\A r \in R : InReg(r, 16)) /\ Apart(R)
  BY DEF InReg, Apart, None, Field, Flags, Flag, Rsvd
<1>3. Covers(R, 0, 15)
  <2>1. /\ Rsvd(0, 4) \in P /\ Flag(5, 2) \in P /\ Rsvd(6, 6) \in P /\ Flags(7, 8, 4) \in P
        /\ Field(9, 10, 6) \in P /\ Flags(11, 15, 7) \in P
    OBVIOUS
  <2> HIDE DEF P
  <2>2. /\ Covers(R, 0, 4) /\ Covers(R, 5, 5) /\ Covers(R, 6, 6) /\ Covers(R, 7, 8)
        /\ Covers(R, 9, 10) /\ Covers(R, 11, 15)
    BY <2>1, PartsCover
  <2> HIDE DEF R
  <2>3. QED
    BY <2>2 DEF Covers
<1>4. Tells(Content(RegSecStatus, P), 16, {})
  BY <1>1, <1>2, <1>3, RegSecStatusEnds DEF Tells, Fits, Content
<1>5. QED
  BY <1>4 DEF RegInfoSecStatusComp

LEMMA ClassCodeBox ==
  Box(RegClassCode, <<<<8, 3>>, <<8, 2>>, <<8, 1>>>>) =
    Content(RegClassCode, {Field(16, 23, 3), Field(8, 15, 2), Field(0, 7, 1)})
<1> DEFINE p == <<<<8, 3>>, <<8, 2>>, <<8, 1>>>>
           v == [k \in DOMAIN p |-> p[k][1]]
           e == Ends(v)
<1>1. DOMAIN p = 1..3 /\ p[1] = <<8, 3>> /\ p[2] = <<8, 2>> /\ p[3] = <<8, 1>>
  OBVIOUS
<1> HIDE DEF p
<1>2. v \in Seq(Nat) /\ Len(v) = 3 /\ DOMAIN v = 1..3 /\ v[1] = 8 /\ v[2] = 8 /\ v[3] = 8
  BY <1>1
<1> HIDE DEF v
<1>3. e[0] = 0 /\ \A k \in 1..3 : e[k] = e[k - 1] + v[k]
  BY <1>2, EndsDefined
<1>4. Bits(v) = e[3] /\ \A k : Position(v, k) = e[k - 1]
  BY <1>2 DEF Bits, Position
<1> HIDE DEF e
<1>5. e[0] = 0 /\ e[1] = 8 /\ e[2] = 16 /\ e[3] = 24
  BY <1>2, <1>3
<1>6. {Field(Bits(v) - Position(v, k + 1), Bits(v) - Position(v, k) - 1, p[k][2]) :
         k \in DOMAIN p} =
        {Field(16, 23, 3), Field(8, 15, 2), Field(0, 7, 1)}
  BY <1>1, <1>4, <1>5
<1>7. QED
  BY <1>6 DEF Box, p, v

LEMMA ClassCodeTells == Tells(Box(RegClassCode, <<<<8, 3>>, <<8, 2>>, <<8, 1>>>>), 24, {})
<1> DEFINE P == {Field(16, 23, 3), Field(8, 15, 2), Field(0, 7, 1)}
           R == UNION P
           e == Ends(RegClassCode)
<1>0. Len(RegClassCode) = 3 /\ e[0] = 0 /\ e[1] = 8 /\ e[2] = 16 /\ e[3] = 24
  BY RegClassCodeEnds
<1> HIDE DEF e
<1>1. ASSUME NEW r \in R, r[3] # None
      PROVE  ShowsField(RegClassCode, r, 24, {})
  <2>1. /\ r[3] \in 1..3 /\ r[1] = e[r[3] - 1] /\ r[2] + 1 = e[r[3]]
        /\ e[r[3] - 1] \in Nat /\ e[r[3]] \in Nat
        /\ e[r[3] - 1] < e[r[3]] /\ e[r[3]] <= 24
    BY <1>0, <1>1 DEF None, Field
  <2>2. QED
    BY <1>0, <2>1 DEF ShowsField, HasField, First, Behind, All, e
<1>2. (\A r \in R : InReg(r, 24)) /\ Apart(R)
  BY DEF InReg, Apart, None, Field
<1>3. Covers(R, 0, 23)
  <2>1. Field(16, 23, 3) \in P /\ Field(8, 15, 2) \in P /\ Field(0, 7, 1) \in P
    OBVIOUS
  <2> HIDE DEF P
  <2>2. Covers(R, 16, 23) /\ Covers(R, 8, 15) /\ Covers(R, 0, 7)
    BY <2>1, PartsCover
  <2> HIDE DEF R
  <2>3. QED
    BY <2>2 DEF Covers
<1>4. Tells(Content(RegClassCode, P), 24, {})
  BY <1>1, <1>2, <1>3, RegClassCodeEnds DEF Tells, Fits, Content
<1>5. QED
  BY <1>4, ClassCodeBox

LEMMA BARIoBox ==
  Box(RegBARIo, <<<<30, 3>>, <<1, None>>, <<1, 1>>>>) =
    Content(RegBARIo, {Field(2, 31, 3), Field(1, 1, None), Field(0, 0, 1)})
<1> DEFINE p == <<<<30, 3>>, <<1, None>>, <<1, 1>>>>
           v == [k \in DOMAIN p |-> p[k][1]]
           e == Ends(v)
<1>1. DOMAIN p = 1..3 /\ p[1] = <<30, 3>> /\ p[2] = <<1, None>> /\ p[3] = <<1, 1>>
  OBVIOUS
<1> HIDE DEF p
<1>2. v \in Seq(Nat) /\ Len(v) = 3 /\ DOMAIN v = 1..3 /\ v[1] = 30 /\ v[2] = 1 /\ v[3] = 1
  BY <1>1
<1> HIDE DEF v
<1>3. e[0] = 0 /\ \A k \in 1..3 : e[k] = e[k - 1] + v[k]
  BY <1>2, EndsDefined
<1>4. Bits(v) = e[3] /\ \A k : Position(v, k) = e[k - 1]
  BY <1>2 DEF Bits, Position
<1> HIDE DEF e
<1>5. e[0] = 0 /\ e[1] = 30 /\ e[2] = 31 /\ e[3] = 32
  BY <1>2, <1>3
<1>6. {Field(Bits(v) - Position(v, k + 1), Bits(v) - Position(v, k) - 1, p[k][2]) :
         k \in DOMAIN p} =
        {Field(2, 31, 3), Field(1, 1, None), Field(0, 0, 1)}
  BY <1>1, <1>4, <1>5
<1>7. QED
  BY <1>6 DEF Box, p, v

LEMMA BARIoTells == Tells(Box(RegBARIo, <<<<30, 3>>, <<1, None>>, <<1, 1>>>>), 32, {})
<1> DEFINE P == {Field(2, 31, 3), Field(1, 1, None), Field(0, 0, 1)}
           R == UNION P
           e == Ends(RegBARIo)
<1>0. Len(RegBARIo) = 3 /\ e[0] = 0 /\ e[1] = 1 /\ e[2] = 2 /\ e[3] = 32
  BY RegBARIoEnds
<1> HIDE DEF e
<1>1. ASSUME NEW r \in R, r[3] # None
      PROVE  ShowsField(RegBARIo, r, 32, {})
  <2>1. /\ r[3] \in 1..3 /\ r[1] = e[r[3] - 1] /\ r[2] + 1 = e[r[3]]
        /\ e[r[3] - 1] \in Nat /\ e[r[3]] \in Nat
        /\ e[r[3] - 1] < e[r[3]] /\ e[r[3]] <= 32
    BY <1>0, <1>1 DEF None, Field
  <2>2. QED
    BY <1>0, <2>1 DEF ShowsField, HasField, First, Behind, All, e
<1>2. (\A r \in R : InReg(r, 32)) /\ Apart(R)
  BY DEF InReg, Apart, None, Field
<1>3. Covers(R, 0, 31)
  <2>1. Field(2, 31, 3) \in P /\ Field(1, 1, None) \in P /\ Field(0, 0, 1) \in P
    OBVIOUS
  <2> HIDE DEF P
  <2>2. Covers(R, 2, 31) /\ Covers(R, 1, 1) /\ Covers(R, 0, 0)
    BY <2>1, PartsCover
  <2> HIDE DEF R
  <2>3. QED
    BY <2>2 DEF Covers
<1>4. Tells(Content(RegBARIo, P), 32, {})
  BY <1>1, <1>2, <1>3, RegBARIoEnds DEF Tells, Fits, Content
<1>5. QED
  BY <1>4, BARIoBox

LEMMA BARMemBox ==
  Box(RegBARMem, <<<<28, 4>>, <<1, 3>>, <<2, 2>>, <<1, 1>>>>) =
    Content(RegBARMem, {Field(4, 31, 4), Field(3, 3, 3), Field(1, 2, 2), Field(0, 0, 1)})
<1> DEFINE p == <<<<28, 4>>, <<1, 3>>, <<2, 2>>, <<1, 1>>>>
           v == [k \in DOMAIN p |-> p[k][1]]
           e == Ends(v)
<1>1. /\ DOMAIN p = 1..4 /\ p[1] = <<28, 4>> /\ p[2] = <<1, 3>> /\ p[3] = <<2, 2>>
      /\ p[4] = <<1, 1>>
  OBVIOUS
<1> HIDE DEF p
<1>2. /\ v \in Seq(Nat) /\ Len(v) = 4 /\ DOMAIN v = 1..4 /\ v[1] = 28 /\ v[2] = 1 /\ v[3] = 2
      /\ v[4] = 1
  BY <1>1
<1> HIDE DEF v
<1>3. e[0] = 0 /\ \A k \in 1..4 : e[k] = e[k - 1] + v[k]
  BY <1>2, EndsDefined
<1>4. Bits(v) = e[4] /\ \A k : Position(v, k) = e[k - 1]
  BY <1>2 DEF Bits, Position
<1> HIDE DEF e
<1>5. e[0] = 0 /\ e[1] = 28 /\ e[2] = 29 /\ e[3] = 31 /\ e[4] = 32
  BY <1>2, <1>3
<1>6. {Field(Bits(v) - Position(v, k + 1), Bits(v) - Position(v, k) - 1, p[k][2]) :
         k \in DOMAIN p} =
        {Field(4, 31, 4), Field(3, 3, 3), Field(1, 2, 2), Field(0, 0, 1)}
  BY <1>1, <1>4, <1>5
<1>7. QED
  BY <1>6 DEF Box, p, v

LEMMA BARMemTells == Tells(Box(RegBARMem, <<<<28, 4>>, <<1, 3>>, <<2, 2>>, <<1, 1>>>>), 32, {})
<1> DEFINE P == {Field(4, 31, 4), Field(3, 3, 3), Field(1, 2, 2), Field(0, 0, 1)}
           R == UNION P
           e == Ends(RegBARMem)
<1>0. Len(RegBARMem) = 4 /\ e[0] = 0 /\ e[1] = 1 /\ e[2] = 3 /\ e[3] = 4 /\ e[4] = 32
  BY RegBARMemEnds
<1> HIDE DEF e
<1>1. ASSUME NEW r \in R, r[3] # None
      PROVE  ShowsField(RegBARMem, r, 32, {})
  <2>1. /\ r[3] \in 1..4 /\ r[1] = e[r[3] - 1] /\ r[2] + 1 = e[r[3]]
        /\ e[r[3] - 1] \in Nat /\ e[r[3]] \in Nat
        /\ e[r[3] - 1] < e[r[3]] /\ e[r[3]] <= 32
    BY <1>0, <1>1 DEF None, Field
  <2>2. QED
    BY <1>0, <2>1 DEF ShowsField, HasField, First, Behind, All, e
<1>2. (\A r \in R : InReg(r, 32)) /\ Apart(R)
  BY DEF InReg, Apart, None, Field
<1>3. Covers(R, 0, 31)
  <2>1. /\ Field(4, 31, 4) \in P /\ Field(3, 3, 3) \in P /\ Field(1, 2, 2) \in P
        /\ Field(0, 0, 1) \in P
    OBVIOUS
  <2> HIDE DEF P
  <2>2. Covers(R, 4, 31) /\ Covers(R, 3, 3) /\ Covers(R, 1, 2) /\ Covers(R, 0, 0)
    BY <2>1, PartsCover
  <2> HIDE DEF R
  <2>3. QED
    BY <2>2 DEF Covers
<1>4. Tells(Content(RegBARMem, P), 32, {})
  BY <1>1, <1>2, <1>3, RegBARMemEnds DEF Tells, Fits, Content
<1>5. QED
  BY <1>4, BARMemBox

LEMMA ExpROMBarBox ==
  Box(RegExpROMBar, <<<<21, 3>>, <<10, 2>>, <<1, 1>>>>) =
    Content(RegExpROMBar, {Field(11, 31, 3), Field(1, 10, 2), Field(0, 0, 1)})
<1> DEFINE p == <<<<21, 3>>, <<10, 2>>, <<1, 1>>>>
           v == [k \in DOMAIN p |-> p[k][1]]
           e == Ends(v)
<1>1. DOMAIN p = 1..3 /\ p[1] = <<21, 3>> /\ p[2] = <<10, 2>> /\ p[3] = <<1, 1>>
  OBVIOUS
<1> HIDE DEF p
<1>2. v \in Seq(Nat) /\ Len(v) = 3 /\ DOMAIN v = 1..3 /\ v[1] = 21 /\ v[2] = 10 /\ v[3] = 1
  BY <1>1
<1> HIDE DEF v
<1>3. e[0] = 0 /\ \A k \in 1..3 : e[k] = e[k - 1] + v[k]
  BY <1>2, EndsDefined
<1>4. Bits(v) = e[3] /\ \A k : Position(v, k) = e[k - 1]
  BY <1>2 DEF Bits, Position
<1> HIDE DEF e
<1>5. e[0] = 0 /\ e[1] = 21 /\ e[2] = 31 /\ e[3] = 32
  BY <1>2, <1>3
<1>6. {Field(Bits(v) - Position(v, k + 1), Bits(v) - Position(v, k) - 1, p[k][2]) :
         k \in DOMAIN p} =
        {Field(11, 31, 3), Field(1, 10, 2), Field(0, 0, 1)}
  BY <1>1, <1>4, <1>5
<1>7. QED
  BY <1>6 DEF Box, p, v

LEMMA ExpROMBarTells == Tells(Box(RegExpROMBar, <<<<21, 3>>, <<10, 2>>, <<1, 1>>>>), 32, {})
<1> DEFINE P == {Field(11, 31, 3), Field(1, 10, 2), Field(0, 0, 1)}
           R == UNION P
           e == Ends(RegExpROMBar)
<1>0. Len(RegExpROMBar) = 3 /\ e[0] = 0 /\ e[1] = 1 /\ e[2] = 11 /\ e[3] = 32
  BY RegExpROMBarEnds
<1> HIDE DEF e
<1>1. ASSUME NEW r \in R, r[3] # None
      PROVE  ShowsField(RegExpROMBar, r, 32, {})
  <2>1. /\ r[3] \in 1..3 /\ r[1] = e[r[3] - 1] /\ r[2] + 1 = e[r[3]]
        /\ e[r[3] - 1] \in Nat /\ e[r[3]] \in Nat
        /\ e[r[3] - 1] < e[r[3]] /\ e[r[3]] <= 32
    BY <1>0, <1>1 DEF None, Field
  <2>2. QED
    BY <1>0, <2>1 DEF ShowsField, HasField, First, Behind, All, e
<1>2. (\A r \in R : InReg(r, 32)) /\ Apart(R)
  BY DEF InReg, Apart, None, Field
<1>3. Covers(R, 0, 31)
  <2>1. Field(11, 31, 3) \in P /\ Field(1, 10, 2) \in P /\ Field(0, 0, 1) \in P
    OBVIOUS
  <2> HIDE DEF P
  <2>2. Covers(R, 11, 31) /\ Covers(R, 1, 10) /\ Covers(R, 0, 0)
    BY <2>1, PartsCover
  <2> HIDE DEF R
  <2>3. QED
    BY <2>2 DEF Covers
<1>4. Tells(Content(RegExpROMBar, P), 32, {})
  BY <1>1, <1>2, <1>3, RegExpROMBarEnds DEF Tells, Fits, Content
<1>5. QED
  BY <1>4, ExpROMBarBox

LEMMA IOBaseBox ==
  Box(RegIOBase, <<<<4, 2>>, <<4, 1>>>>) =
    Content(RegIOBase, {Field(4, 7, 2), Field(0, 3, 1)})
<1> DEFINE p == <<<<4, 2>>, <<4, 1>>>>
           v == [k \in DOMAIN p |-> p[k][1]]
           e == Ends(v)
<1>1. DOMAIN p = 1..2 /\ p[1] = <<4, 2>> /\ p[2] = <<4, 1>>
  OBVIOUS
<1> HIDE DEF p
<1>2. v \in Seq(Nat) /\ Len(v) = 2 /\ DOMAIN v = 1..2 /\ v[1] = 4 /\ v[2] = 4
  BY <1>1
<1> HIDE DEF v
<1>3. e[0] = 0 /\ \A k \in 1..2 : e[k] = e[k - 1] + v[k]
  BY <1>2, EndsDefined
<1>4. Bits(v) = e[2] /\ \A k : Position(v, k) = e[k - 1]
  BY <1>2 DEF Bits, Position
<1> HIDE DEF e
<1>5. e[0] = 0 /\ e[1] = 4 /\ e[2] = 8
  BY <1>2, <1>3
<1>6. {Field(Bits(v) - Position(v, k + 1), Bits(v) - Position(v, k) - 1, p[k][2]) :
         k \in DOMAIN p} =
        {Field(4, 7, 2), Field(0, 3, 1)}
  BY <1>1, <1>4, <1>5
<1>7. QED
  BY <1>6 DEF Box, p, v

LEMMA IOBaseTells == Tells(Box(RegIOBase, <<<<4, 2>>, <<4, 1>>>>), 8, {})
<1> DEFINE P == {Field(4, 7, 2), Field(0, 3, 1)}
           R == UNION P
           e == Ends(RegIOBase)
<1>0. Len(RegIOBase) = 2 /\ e[0] = 0 /\ e[1] = 4 /\ e[2] = 8
  BY RegIOBaseEnds
<1> HIDE DEF e
<1>1. ASSUME NEW r \in R, r[3] # None
      PROVE  ShowsField(RegIOBase, r, 8, {})
  <2>1. /\ r[3] \in 1..2 /\ r[1] = e[r[3] - 1] /\ r[2] + 1 = e[r[3]]
        /\ e[r[3] - 1] \in Nat /\ e[r[3]] \in Nat
        /\ e[r[3] - 1] < e[r[3]] /\ e[r[3]] <= 8
    BY <1>0, <1>1 DEF None, Field
  <2>2. QED
    BY <1>0, <2>1 DEF ShowsField, HasField, First, Behind, All, e
<1>2. (\A r \in R : InReg(r, 8)) /\ Apart(R)
  BY DEF InReg, Apart, None, Field
<1>3. Covers(R, 0, 7)
  <2>1. Field(4, 7, 2) \in P /\ Field(0, 3, 1) \in P
    OBVIOUS
  <2> HIDE DEF P
  <2>2. Covers(R, 4, 7) /\ Covers(R, 0, 3)
    BY <2>1, PartsCover
  <2> HIDE DEF R
  <2>3. QED
    BY <2>2 DEF Covers
<1>4. Tells(Content(RegIOBase, P), 8, {})
  BY <1>1, <1>2, <1>3, RegIOBaseEnds DEF Tells, Fits, Content
<1>5. QED
  BY <1>4, IOBaseBox

LEMMA IOLimitBox ==
  Box(RegIOLimit, <<<<4, 2>>, <<4, 1>>>>) =
    Content(RegIOLimit, {Field(4, 7, 2), Field(0, 3, 1)})
<1> DEFINE p == <<<<4, 2>>, <<4, 1>>>>
           v == [k \in DOMAIN p |-> p[k][1]]
           e == Ends(v)
<1>1. DOMAIN p = 1..2 /\ p[1] = <<4, 2>> /\ p[2] = <<4, 1>>
  OBVIOUS
<1> HIDE DEF p
<1>2. v \in Seq(Nat) /\ Len(v) = 2 /\ DOMAIN v = 1..2 /\ v[1] = 4 /\ v[2] = 4
  BY <1>1
<1> HIDE DEF v
<1>3. e[0] = 0 /\ \A k \in 1..2 : e[k] = e[k - 1] + v[k]
  BY <1>2, EndsDefined
<1>4. Bits(v) = e[2] /\ \A k : Position(v, k) = e[k - 1]
  BY <1>2 DEF Bits, Position
<1> HIDE DEF e
<1>5. e[0] = 0 /\ e[1] = 4 /\ e[2] = 8
  BY <1>2, <1>3
<1>6. {Field(Bits(v) - Position(v, k + 1), Bits(v) - Position(v, k) - 1, p[k][2]) :
         k \in DOMAIN p} =
        {Field(4, 7, 2), Field(0, 3, 1)}
  BY <1>1, <1>4, <1>5
<1>7. QED
  BY <1>6 DEF Box, p, v

LEMMA IOLimitTells == Tells(Box(RegIOLimit, <<<<4, 2>>, <<4, 1>>>>), 8, {})
<1> DEFINE P == {Field(4, 7, 2), Field(0, 3, 1)}
           R == UNION P
           e == Ends(RegIOLimit)
<1>0. Len(RegIOLimit) = 2 /\ e[0] = 0 /\ e[1] = 4 /\ e[2] = 8
  BY RegIOLimitEnds
<1> HIDE DEF e
<1>1. ASSUME NEW r \in R, r[3] # None
      PROVE  ShowsField(RegIOLimit, r, 8, {})
  <2>1. /\ r[3] \in 1..2 /\ r[1] = e[r[3] - 1] /\ r[2] + 1 = e[r[3]]
        /\ e[r[3] - 1] \in Nat /\ e[r[3]] \in Nat
        /\ e[r[3] - 1] < e[r[3]] /\ e[r[3]] <= 8
    BY <1>0, <1>1 DEF None, Field
  <2>2. QED
    BY <1>0, <2>1 DEF ShowsField, HasField, First, Behind, All, e
<1>2. (\A r \in R : InReg(r, 8)) /\ Apart(R)
  BY DEF InReg, Apart, None, Field
<1>3. Covers(R, 0, 7)
  <2>1. Field(4, 7, 2) \in P /\ Field(0, 3, 1) \in P
    OBVIOUS
  <2> HIDE DEF P
  <2>2. Covers(R, 4, 7) /\ Covers(R, 0, 3)
    BY <2>1, PartsCover
  <2> HIDE DEF R
  <2>3. QED
    BY <2>2 DEF Covers
<1>4. Tells(Content(RegIOLimit, P), 8, {})
  BY <1>1, <1>2, <1>3, RegIOLimitEnds DEF Tells, Fits, Content
<1>5. QED
  BY <1>4, IOLimitBox

LEMMA MemBLBox ==
  Box(RegMemBL, <<<<12, 2>>, <<4, 1>>>>) =
    Content(RegMemBL, {Field(4, 15, 2), Field(0, 3, 1)})
<1> DEFINE p == <<<<12, 2>>, <<4, 1>>>>
           v == [k \in DOMAIN p |-> p[k][1]]
           e == Ends(v)
<1>1. DOMAIN p = 1..2 /\ p[1] = <<12, 2>> /\ p[2] = <<4, 1>>
  OBVIOUS
<1> HIDE DEF p
<1>2. v \in Seq(Nat) /\ Len(v) = 2 /\ DOMAIN v = 1..2 /\ v[1] = 12 /\ v[2] = 4
  BY <1>1
<1> HIDE DEF v
<1>3. e[0] = 0 /\ \A k \in 1..2 : e[k] = e[k - 1] + v[k]
  BY <1>2, EndsDefined
<1>4. Bits(v) = e[2] /\ \A k : Position(v, k) = e[k - 1]
  BY <1>2 DEF Bits, Position
<1> HIDE DEF e
<1>5. e[0] = 0 /\ e[1] = 12 /\ e[2] = 16
  BY <1>2, <1>3
<1>6. {Field(Bits(v) - Position(v, k + 1), Bits(v) - Position(v, k) - 1, p[k][2]) :
         k \in DOMAIN p} =
        {Field(4, 15, 2), Field(0, 3, 1)}
  BY <1>1, <1>4, <1>5
<1>7. QED
  BY <1>6 DEF Box, p, v

LEMMA MemBLTells == Tells(Box(RegMemBL, <<<<12, 2>>, <<4, 1>>>>), 16, {})
<1> DEFINE P == {Field(4, 15, 2), Field(0, 3, 1)}
           R == UNION P
           e == Ends(RegMemBL)
<1>0. Len(RegMemBL) = 2 /\ e[0] = 0 /\ e[1] = 4 /\ e[2] = 16
  BY RegMemBLEnds
<1> HIDE DEF e
<1>1. ASSUME NEW r \in R, r[3] # None
      PROVE  ShowsField(RegMemBL, r, 16, {})
  <2>1. /\ r[3] \in 1..2 /\ r[1] = e[r[3] - 1] /\ r[2] + 1 = e[r[3]]
        /\ e[r[3] - 1] \in Nat /\ e[r[3]] \in Nat
        /\ e[r[3] - 1] < e[r[3]] /\ e[r[3]] <= 16
    BY <1>0, <1>1 DEF None, Field
  <2>2. QED
    BY <1>0, <2>1 DEF ShowsField, HasField, First, Behind, All, e
<1>2. (\A r \in R : InReg(r, 16)) /\ Apart(R)
  BY DEF InReg, Apart, None, Field
<1>3. Covers(R, 0, 15)
  <2>1. Field(4, 15, 2) \in P /\ Field(0, 3, 1) \in P
    OBVIOUS
  <2> HIDE DEF P
  <2>2. Covers(R, 4, 15) /\ Covers(R, 0, 3)
    BY <2>1, PartsCover
  <2> HIDE DEF R
  <2>3. QED
    BY <2>2 DEF Covers
<1>4. Tells(Content(RegMemBL, P), 16, {})
  BY <1>1, <1>2, <1>3, RegMemBLEnds DEF Tells, Fits, Content
<1>5. QED
  BY <1>4, MemBLBox

LEMMA PrefMemBLBox ==
  Box(RegPrefMemBL, <<<<12, 2>>, <<4, 1>>>>) =
    Content(RegPrefMemBL, {Field(4, 15, 2), Field(0, 3, 1)})
<1> DEFINE p == <<<<12, 2>>, <<4, 1>>>>
           v == [k \in DOMAIN p |-> p[k][1]]
           e == Ends(v)
<1>1. DOMAIN p = 1..2 /\ p[1] = <<12, 2>> /\ p[2] = <<4, 1>>
  OBVIOUS
<1> HIDE DEF p
<1>2. v \in Seq(Nat) /\ Len(v) = 2 /\ DOMAIN v = 1..2 /\ v[1] = 12 /\ v[2] = 4
  BY <1>1
<1> HIDE DEF v
<1>3. e[0] = 0 /\ \A k \in 1..2 : e[k] = e[k - 1] + v[k]
  BY <1>2, EndsDefined
<1>4. Bits(v) = e[2] /\ \A k : Position(v, k) = e[k - 1]
  BY <1>2 DEF Bits, Position
<1> HIDE DEF e
<1>5. e[0] = 0 /\ e[1] = 12 /\ e[2] = 16
  BY <1>2, <1>3
<1>6. {Field(Bits(v) - Position(v, k + 1), Bits(v) - Position(v, k) - 1, p[k][2]) :
         k \in DOMAIN p} =
        {Field(4, 15, 2), Field(0, 3, 1)}
  BY <1>1, <1>4, <1>5
<1>7. QED
  BY <1>6 DEF Box, p, v

LEMMA PrefMemBLTells == Tells(Box(RegPrefMemBL, <<<<12, 2>>, <<4, 1>>>>), 16, {})
<1> DEFINE P == {Field(4, 15, 2), Field(0, 3, 1)}
           R == UNION P
           e == Ends(RegPrefMemBL)
<1>0. Len(RegPrefMemBL) = 2 /\ e[0] = 0 /\ e[1] = 4 /\ e[2] = 16
  BY RegPrefMemBLEnds
<1> HIDE DEF e
<1>1. ASSUME NEW r \in R, r[3] # None
      PROVE  ShowsField(RegPrefMemBL, r, 16, {})
  <2>1. /\ r[3] \in 1..2 /\ r[1] = e[r[3] - 1] /\ r[2] + 1 = e[r[3]]
        /\ e[r[3] - 1] \in Nat /\ e[r[3]] \in Nat
        /\ e[r[3] - 1] < e[r[3]] /\ e[r[3]] <= 16
    BY <1>0, <1>1 DEF None, Field
  <2>2. QED
    BY <1>0, <2>1 DEF ShowsField, HasField, First, Behind, All, e
<1>2. (\A r \in R : InReg(r, 16)) /\ Apart(R)
  BY DEF InReg, Apart, None, Field
<1>3. Covers(R, 0, 15)
  <2>1. Field(4, 15, 2) \in P /\ Field(0, 3, 1) \in P
    OBVIOUS
  <2> HIDE DEF P
  <2>2. Covers(R, 4, 15) /\ Covers(R, 0, 3)
    BY <2>1, PartsCover
  <2> HIDE DEF R
  <2>3. QED
    BY <2>2 DEF Covers
<1>4. Tells(Content(RegPrefMemBL, P), 16, {})
  BY <1>1, <1>2, <1>3, RegPrefMemBLEnds DEF Tells, Fits, Content
<1>5. QED
  BY <1>4, PrefMemBLBox

LEMMA EmptyBox ==
  Box(<<32>>, <<<<32, 1>>>>) =
    Content(<<32>>, {Field(0, 31, 1)})
<1> DEFINE p == <<<<32, 1>>>>
           v == [k \in DOMAIN p |-> p[k][1]]
           e == Ends(v)
<1>1. DOMAIN p = 1..1 /\ p[1] = <<32, 1>>
  OBVIOUS
<1> HIDE DEF p
<1>2. v \in Seq(Nat) /\ Len(v) = 1 /\ DOMAIN v = 1..1 /\ v[1] = 32
  BY <1>1
<1> HIDE DEF v
<1>3. e[0] = 0 /\ \A k \in 1..1 : e[k] = e[k - 1] + v[k]
  BY <1>2, EndsDefined
<1>4. Bits(v) = e[1] /\ \A k : Position(v, k) = e[k - 1]
  BY <1>2 DEF Bits, Position
<1> HIDE DEF e
<1>5. e[0] = 0 /\ e[1] = 32
  BY <1>2, <1>3
<1>6. {Field(Bits(v) - Position(v, k + 1), Bits(v) - Position(v, k) - 1, p[k][2]) :
         k \in DOMAIN p} =
        {Field(0, 31, 1)}
  BY <1>1, <1>4, <1>5
<1>7. QED
  BY <1>6 DEF Box, p, v

LEMMA EmptyTells == Tells(Box(<<32>>, <<<<32, 1>>>>), 32, {})
<1>1. Tells(Content(<<32>>, {Field(0, 32 - 1, 1)}), 32, {})
  BY SingleTells
<1>2. 32 - 1 = 31
  OBVIOUS
<1>3. QED
  BY <1>1, <1>2, EmptyBox

\* The contents of a table that holds no register of another one.
LEMMA HeaderLookup ==
  /\ \A r \in {"vid", "dev_id"} : HeaderContents[r] = IDNumbers[r]
  /\ \A r \in {"cache_line_size", "latency_timer"} : HeaderContents[r] = TimerNumbers[r]
  /\ \A r \in {"cardbus_cis_ptr", "subsys_vid", "subsys_dev_id"} :
       HeaderContents[r] = SubsysNumbers[r]
  /\ \A r \in {"cap_ptr", "itr_line", "itr_pin"} : HeaderContents[r] = InterruptNumbers[r]
  /\ \A r \in {"min_gnt", "max_lat"} : HeaderContents[r] = Type0Numbers[r]
  /\ \A r \in {"prim_bus_num", "sec_bus_num", "sub_bus_num", "sec_lat_timer"} :
       HeaderContents[r] = BusNumbers[r]
  /\ \A r \in {"io_base", "io_limit"} : HeaderContents[r] = IOWindow[r]
  /\ \A r \in {"io_base_upper", "io_limit_upper"} : HeaderContents[r] = UpperIOWindow[r]
  /\ \A r \in {"mem_base", "mem_limit"} : HeaderContents[r] = MemoryWindow[r]
  /\ \A r \in {"pref_mem_base", "pref_mem_limit"} : HeaderContents[r] = PrefetchableWindow[r]
  /\ \A r \in {"pref_base_upper", "pref_limit_upper"} :
       HeaderContents[r] = UpperPrefetchableWindow[r]
  /\ HeaderContents["command"] = {RegInfoCommandComp}
  /\ HeaderContents["status"] = {RegInfoStatusComp}
  /\ HeaderContents["revision"] = Number(RegRevID)
  /\ HeaderContents["class_code"] = {RegInfoCCComp}
  /\ HeaderContents["header_type"] = {RegInfoHdrTypeComp}
  /\ HeaderContents["bist"] = {RegInfoBISTComp}
  /\ HeaderContents["exp_rom_bar"] = RegInfoExpROMComp
  /\ HeaderContents["sec_status"] = {RegInfoSecStatusComp}
  /\ HeaderContents["bridge_ctl"] = {RegInfoBridgeCtrlComp}
  /\ \A r \in Bars : HeaderContents[r] = RegInfoBARComp
<1> DEFINE A == IDNumbers
           B == TimerNumbers
           C == SubsysNumbers
           D == InterruptNumbers
           E == Type0Numbers
           F == BusNumbers
           G == IOWindow
           H == UpperIOWindow
           I == MemoryWindow
           J == PrefetchableWindow
           K == UpperPrefetchableWindow
           M == [command |-> {RegInfoCommandComp}, status |-> {RegInfoStatusComp},
                 revision |-> Number(RegRevID), class_code |-> {RegInfoCCComp},
                 header_type |-> {RegInfoHdrTypeComp}, bist |-> {RegInfoBISTComp},
                 exp_rom_bar |-> RegInfoExpROMComp, sec_status |-> {RegInfoSecStatusComp},
                 bridge_ctl |-> {RegInfoBridgeCtrlComp}]
           N == [r \in Bars |-> RegInfoBARComp]
           S == {A, B, C, D, E, F, G, H, I, J, K, M, N}
<1>1. /\ DOMAIN A = {"vid", "dev_id"} /\ DOMAIN B = {"cache_line_size", "latency_timer"}
      /\ DOMAIN C = {"cardbus_cis_ptr", "subsys_vid", "subsys_dev_id"}
      /\ DOMAIN D = {"cap_ptr", "itr_line", "itr_pin"} /\ DOMAIN E = {"min_gnt", "max_lat"}
      /\ DOMAIN F = {"prim_bus_num", "sec_bus_num", "sub_bus_num", "sec_lat_timer"}
      /\ DOMAIN G = {"io_base", "io_limit"} /\ DOMAIN H = {"io_base_upper", "io_limit_upper"}
      /\ DOMAIN I = {"mem_base", "mem_limit"}
      /\ DOMAIN J = {"pref_mem_base", "pref_mem_limit"}
      /\ DOMAIN K = {"pref_base_upper", "pref_limit_upper"}
  BY DEF IDNumbers, TimerNumbers, SubsysNumbers, InterruptNumbers, Type0Numbers, BusNumbers,
         IOWindow, UpperIOWindow, MemoryWindow, PrefetchableWindow, UpperPrefetchableWindow
<1>2. /\ DOMAIN M = {"command", "status", "revision", "class_code", "header_type", "bist",
                     "exp_rom_bar", "sec_status", "bridge_ctl"}
      /\ DOMAIN N = {"bar0", "bar1", "bar2", "bar3", "bar4", "bar5"}
  BY DEF Bars
<1>3. /\ M["command"] = {RegInfoCommandComp} /\ M["status"] = {RegInfoStatusComp}
      /\ M["revision"] = Number(RegRevID) /\ M["class_code"] = {RegInfoCCComp}
      /\ M["header_type"] = {RegInfoHdrTypeComp} /\ M["bist"] = {RegInfoBISTComp}
      /\ M["exp_rom_bar"] = RegInfoExpROMComp /\ M["sec_status"] = {RegInfoSecStatusComp}
      /\ M["bridge_ctl"] = {RegInfoBridgeCtrlComp} /\ \A r \in Bars : N[r] = RegInfoBARComp
  OBVIOUS
<1>4. HeaderContents = Merged(S)
  BY DEF HeaderContents
<1> HIDE DEF A, B, C, D, E, F, G, H, I, J, K, M, N
<1>5. \A t, u \in S : \A r : r \in DOMAIN t /\ r \in DOMAIN u => t = u
  BY <1>1, <1>2
<1> DEFINE Owns(t) == t \in S /\ \A r \in DOMAIN t : HeaderContents[r] = t[r]
<1>6. \A t \in S : Owns(t)
  <2>1. SUFFICES ASSUME NEW t \in S, NEW r \in DOMAIN t PROVE HeaderContents[r] = t[r]
    OBVIOUS
  <2>2. \A u \in S : r \in DOMAIN u => u = t
    BY <1>5
  <2> HIDE DEF S
  <2>3. QED
    BY <1>4, <2>1, <2>2, MergedAt
<1>7. /\ Owns(A) /\ Owns(B) /\ Owns(C) /\ Owns(D) /\ Owns(E) /\ Owns(F) /\ Owns(G) /\ Owns(H)
      /\ Owns(I) /\ Owns(J) /\ Owns(K) /\ Owns(M) /\ Owns(N)
  BY <1>6
<1> HIDE DEF S
<1>8. /\ \A r \in DOMAIN A : HeaderContents[r] = IDNumbers[r]
      /\ \A r \in DOMAIN B : HeaderContents[r] = TimerNumbers[r]
      /\ \A r \in DOMAIN C : HeaderContents[r] = SubsysNumbers[r]
      /\ \A r \in DOMAIN D : HeaderContents[r] = InterruptNumbers[r]
      /\ \A r \in DOMAIN E : HeaderContents[r] = Type0Numbers[r]
      /\ \A r \in DOMAIN F : HeaderContents[r] = BusNumbers[r]
      /\ \A r \in DOMAIN G : HeaderContents[r] = IOWindow[r]
      /\ \A r \in DOMAIN H : HeaderContents[r] = UpperIOWindow[r]
      /\ \A r \in DOMAIN I : HeaderContents[r] = MemoryWindow[r]
      /\ \A r \in DOMAIN J : HeaderContents[r] = PrefetchableWindow[r]
      /\ \A r \in DOMAIN K : HeaderContents[r] = UpperPrefetchableWindow[r]
  BY <1>7 DEF A, B, C, D, E, F, G, H, I, J, K
<1>9. /\ \A r \in DOMAIN M : HeaderContents[r] = M[r]
      /\ \A r \in DOMAIN N : HeaderContents[r] = N[r]
  BY <1>7
<1>10. /\ \A r \in {"vid", "dev_id"} : HeaderContents[r] = IDNumbers[r]
       /\ \A r \in {"cache_line_size", "latency_timer"} : HeaderContents[r] = TimerNumbers[r]
       /\ \A r \in {"cardbus_cis_ptr", "subsys_vid", "subsys_dev_id"} :
            HeaderContents[r] = SubsysNumbers[r]
       /\ \A r \in {"cap_ptr", "itr_line", "itr_pin"} : HeaderContents[r] = InterruptNumbers[r]
       /\ \A r \in {"min_gnt", "max_lat"} : HeaderContents[r] = Type0Numbers[r]
       /\ \A r \in {"prim_bus_num", "sec_bus_num", "sub_bus_num", "sec_lat_timer"} :
            HeaderContents[r] = BusNumbers[r]
       /\ \A r \in {"io_base", "io_limit"} : HeaderContents[r] = IOWindow[r]
       /\ \A r \in {"io_base_upper", "io_limit_upper"} : HeaderContents[r] = UpperIOWindow[r]
       /\ \A r \in {"mem_base", "mem_limit"} : HeaderContents[r] = MemoryWindow[r]
       /\ \A r \in {"pref_mem_base", "pref_mem_limit"} :
            HeaderContents[r] = PrefetchableWindow[r]
       /\ \A r \in {"pref_base_upper", "pref_limit_upper"} :
            HeaderContents[r] = UpperPrefetchableWindow[r]
  BY <1>1, <1>8
<1>11. \A r \in Bars : HeaderContents[r] = RegInfoBARComp
  BY <1>2, <1>3, <1>9 DEF Bars
<1>12. QED
  BY <1>2, <1>3, <1>9, <1>10, <1>11

OneByte == {"revision", "cache_line_size", "latency_timer", "header_type", "bist", "cap_ptr",
            "itr_line", "itr_pin", "min_gnt", "max_lat", "prim_bus_num", "sec_bus_num",
            "sub_bus_num", "sec_lat_timer", "io_base", "io_limit"}

FourBytes == Bars \cup {"cardbus_cis_ptr", "exp_rom_bar", "pref_base_upper",
                        "pref_limit_upper"}

TellAll(reg, len) == \A c \in HeaderContents[reg] : Tells(c, len, {})

LEMMA BarsTell ==
  /\ Tells(GetBarElem.Empty, 32, {}) /\ Tells(GetBarElem.IoSpace, 32, {})
  /\ Tells(GetBarElem.Memory, 32, {}) /\ Tells(GetBarElem.Exp, 32, {})
BY EmptyTells, BARIoTells, BARMemTells, ExpROMBarTells DEF GetBarElem

LEMMA NumbersTell ==
  /\ \A c \in Number(RegVendorID) \cup Number(RegDeviceID) \cup Number(RegSubsysVID)
              \cup Number(RegSubsysID) \cup Number(RegIOUpperBL) : Tells(c, 16, {})
  /\ \A c \in Number(RegRevID) \cup Number(RegCacheLineSize) \cup Number(RegLatTimer)
              \cup Number(RegCapPtr) \cup Number(RegItrLine) \cup Number(RegItrPin)
              \cup Number(RegMinGnt) \cup Number(RegMaxLat) \cup Number(RegPrimBusNum)
              \cup Number(RegSecBusNum) \cup Number(RegSubBusNum) : Tells(c, 8, {})
  /\ \A c \in Number(RegCardbusCIS) : Tells(c, 32, {})
<1>1. \A n \in Nat : 0 < n => \A w \in Seq(Nat) : Bits(w) = n =>
        \A c \in Number(w) : Tells(c, n, {})
  BY NumberTells
<1>2. \A w \in Seq(Nat) : Bits(w) = 16 => \A c \in Number(w) : Tells(c, 16, {})
  BY <1>1
<1>3. \A w \in Seq(Nat) : Bits(w) = 8 => \A c \in Number(w) : Tells(c, 8, {})
  BY <1>1
<1>4. \A w \in Seq(Nat) : Bits(w) = 32 => \A c \in Number(w) : Tells(c, 32, {})
  BY <1>1
<1>5. \A c \in Number(RegVendorID) \cup Number(RegDeviceID) \cup Number(RegSubsysVID)
              \cup Number(RegSubsysID) \cup Number(RegIOUpperBL) : Tells(c, 16, {})
  BY <1>2, RegVendorIDEnds, RegDeviceIDEnds, RegSubsysVIDEnds, RegSubsysIDEnds, RegIOUpperBLEnds
<1>6. \A c \in Number(RegRevID) \cup Number(RegCacheLineSize) \cup Number(RegLatTimer)
              \cup Number(RegCapPtr) \cup Number(RegItrLine) \cup Number(RegItrPin)
              \cup Number(RegMinGnt) \cup Number(RegMaxLat) \cup Number(RegPrimBusNum)
              \cup Number(RegSecBusNum) \cup Number(RegSubBusNum) : Tells(c, 8, {})
  BY <1>3, RegRevIDEnds, RegCacheLineSizeEnds, RegLatTimerEnds, RegCapPtrEnds, RegItrLineEnds,
     RegItrPinEnds, RegMinGntEnds, RegMaxLatEnds, RegPrimBusNumEnds, RegSecBusNumEnds,
     RegSubBusNumEnds
<1>7. \A c \in Number(RegCardbusCIS) : Tells(c, 32, {})
  BY <1>4, RegCardbusCISEnds
<1>8. QED
  BY <1>5, <1>6, <1>7

\* The windows of a bridge.
LEMMA WindowsTell ==
  /\ \A c \in Number(<<8>>) : Tells(c, 8, {})
  /\ \A c \in Number(<<16>>) : Tells(c, 16, {})
  /\ \A c \in Number(<<32>>) : Tells(c, 32, {})
<1>1. \A n \in Nat : 0 < n => \A c \in Number(<<n>>) : Tells(c, n, {})
  <2>1. SUFFICES ASSUME NEW n \in Nat, 0 < n, NEW c \in Number(<<n>>) PROVE Tells(c, n, {})
    OBVIOUS
  <2>2. <<n>> \in Seq(Nat) /\ Bits(<<n>>) = n
    BY SingleEnds
  <2>3. QED
    BY <2>1, <2>2, NumberTells
<1>2. QED
  BY <1>1

LEMMA ContentsTell ==
  /\ \A reg \in OneByte : TellAll(reg, 8)
  /\ \A reg \in Words \ {"bridge_ctl"} : TellAll(reg, 16)
  /\ TellAll("class_code", 24)
  /\ \A reg \in FourBytes : TellAll(reg, 32)
<1> USE HeaderLookup DEF TellAll
<1>1. \A reg \in {"cache_line_size", "latency_timer"} : TellAll(reg, 8)
  BY NumbersTell DEF TimerNumbers
<1>2. \A reg \in {"cap_ptr", "itr_line", "itr_pin"} : TellAll(reg, 8)
  BY NumbersTell DEF InterruptNumbers
<1>3. \A reg \in {"min_gnt", "max_lat"} : TellAll(reg, 8)
  BY NumbersTell DEF Type0Numbers
<1>4. \A reg \in {"prim_bus_num", "sec_bus_num", "sub_bus_num", "sec_lat_timer"} :
        TellAll(reg, 8)
  BY NumbersTell DEF BusNumbers
<1>5. \A reg \in {"io_base", "io_limit"} : TellAll(reg, 8)
  BY WindowsTell, IOBaseTells, IOLimitTells DEF IOWindow
<1>6. TellAll("revision", 8) /\ TellAll("header_type", 8) /\ TellAll("bist", 8)
  BY NumbersTell, RegInfoHdrTypeCompTells, RegInfoBISTCompTells
<1>7. \A reg \in {"vid", "dev_id"} : TellAll(reg, 16)
  BY NumbersTell DEF IDNumbers
<1>8. TellAll("subsys_vid", 16) /\ TellAll("subsys_dev_id", 16) /\ TellAll("cardbus_cis_ptr", 32)
  BY NumbersTell DEF SubsysNumbers
<1>9. \A reg \in {"io_base_upper", "io_limit_upper"} : TellAll(reg, 16)
  BY NumbersTell DEF UpperIOWindow
<1>10. \A reg \in {"mem_base", "mem_limit"} : TellAll(reg, 16)
  BY WindowsTell, MemBLTells DEF MemoryWindow
<1>11. \A reg \in {"pref_mem_base", "pref_mem_limit"} : TellAll(reg, 16)
  BY WindowsTell, PrefMemBLTells DEF PrefetchableWindow
<1>12. \A reg \in {"pref_base_upper", "pref_limit_upper"} : TellAll(reg, 32)
  BY WindowsTell DEF UpperPrefetchableWindow
<1>13. TellAll("command", 16) /\ TellAll("status", 16) /\ TellAll("sec_status", 16)
  BY RegInfoCommandCompTells, RegInfoStatusCompTells, RegInfoSecStatusCompTells
<1>14. TellAll("class_code", 24)
  BY ClassCodeTells DEF RegInfoCCComp
<1>15. \A reg \in Bars : TellAll(reg, 32)
  BY BarsTell DEF RegInfoBARComp
<1>16. TellAll("exp_rom_bar", 32)
  BY BarsTell DEF RegInfoExpROMComp
<1> HIDE HeaderLookup DEF TellAll
<1>17. \A reg \in OneByte : TellAll(reg, 8)
  BY <1>1, <1>2, <1>3, <1>4, <1>5, <1>6 DEF OneByte
<1>18. \A reg \in Words \ {"bridge_ctl"} : TellAll(reg, 16)
  BY <1>7, <1>8, <1>9, <1>10, <1>11, <1>13 DEF Words
<1>19. \A reg \in FourBytes : TellAll(reg, 32)
  BY <1>8, <1>12, <1>15, <1>16 DEF FourBytes
<1>20. QED
  BY <1>14, <1>17, <1>18, <1>19

-----------------------------------------------------------------------------
(***************************************************************************)
(* The header's registers.                                                 *)
(***************************************************************************)

ReadAsType0 == {"cap_ptr", "itr_line", "itr_pin"}

\* The bits a register is read from are its bytes.
LEMMA ReadAt ==
  ASSUME NEW off \in Nat, NEW len \in 1..4, (off % 4) + len <= 4
  PROVE  get_reg_compat(off, len).at = 8 * off /\ get_reg_compat(off, len).len = 8 * len
<1> DEFINE r == off % 4
           q == off \div 4
           first == IF len = 4 THEN 0 ELSE 8 * r
<1>1. off = 4 * q + r /\ r \in 0..3 /\ q \in Nat
  OBVIOUS
<1>2. r + len <= 4
  OBVIOUS
<1>3. get_reg_compat(off, len) = [at |-> 32 * q + first, len |-> Min({8 * len, 32 - first})]
  BY DEF get_reg_compat
<1> HIDE DEF r, q
<1>4. first = 8 * r /\ first \in Nat
  BY <1>1, <1>2
<1>5. 8 * len \in Int /\ 32 - first \in Int /\ 8 * len <= 32 - first
  BY <1>1, <1>2, <1>4
<1>6. Min({8 * len, 32 - first}) = 8 * len
  BY <1>5 DEF Min
<1>7. QED
  BY <1>1, <1>3, <1>4, <1>6

\* No register crosses a dword.
LEMMA Type0Inside ==
  ASSUME NEW r \in DOMAIN Type0Cfg
  PROVE  /\ Type0Cfg[r] \in Nat /\ t0_reg_map[r] \in 1..4
         /\ (Type0Cfg[r] % 4) + t0_reg_map[r] <= 4
BY DEF Type0Cfg, t0_reg_map, Bars, Words

LEMMA Type1Inside ==
  ASSUME NEW r \in DOMAIN Type1Cfg
  PROVE  /\ Type1Cfg[r] \in Nat /\ t1_reg_map[r] \in 1..4
         /\ (Type1Cfg[r] % 4) + t1_reg_map[r] <= 4
BY DEF Type1Cfg, t1_reg_map, Bars, Words

LEMMA Type0Read ==
  ASSUME NEW r \in DOMAIN Type0Cfg
  PROVE  Type0Getter(r).at = 8 * Type0Cfg[r] /\ Type0Getter(r).len = 8 * t0_reg_map[r]
BY Type0Inside, ReadAt DEF Type0Getter

LEMMA Type1Read ==
  ASSUME NEW r \in DOMAIN Type1Cfg
  PROVE  Type1Getter(r).at = 8 * Type1Cfg[r] /\ Type1Getter(r).len = 8 * t1_reg_map[r]
BY Type1Inside, ReadAt DEF Type1Getter

\* The registers of a header of the type.
LengthOf(reg) == IF reg \in FourBytes THEN 4 ELSE IF reg = "class_code" THEN 3
                 ELSE IF reg \in Words THEN 2 ELSE 1

\* The types agree where their registers do.
LEMMA TypesAgree ==
  /\ Type1Cfg["cap_ptr"] = Type0Cfg["cap_ptr"] /\ Type1Cfg["itr_line"] = Type0Cfg["itr_line"]
  /\ Type1Cfg["itr_pin"] = Type0Cfg["itr_pin"]
  /\ \A r \in DOMAIN Type0Cfg : t0_reg_map[r] = LengthOf(r)
  /\ \A r \in DOMAIN Type1Cfg : t1_reg_map[r] = LengthOf(r)
<1>1. /\ Type1Cfg["cap_ptr"] = Type0Cfg["cap_ptr"] /\ Type1Cfg["itr_line"] = Type0Cfg["itr_line"]
      /\ Type1Cfg["itr_pin"] = Type0Cfg["itr_pin"]
  BY DEF Type0Cfg, Type1Cfg
<1>2. \A r \in DOMAIN Type0Cfg : t0_reg_map[r] = LengthOf(r)
  BY DEF Type0Cfg, t0_reg_map, LengthOf, FourBytes, Bars, Words
<1>3. \A r \in DOMAIN Type1Cfg : t1_reg_map[r] = LengthOf(r)
  BY DEF Type1Cfg, t1_reg_map, LengthOf, FourBytes, Bars, Words
<1>4. QED
  BY <1>1, <1>2, <1>3

\* Each register is read where its label says.
LEMMA HeaderRead ==
  ASSUME NEW type \in {"TYPE0", "TYPE1"}, NEW reg \in HeaderRegsOf(type)
  PROVE  /\ RegTypeLabel(type, reg) \in Nat
         /\ Getter(type, reg).at = 8 * RegTypeLabel(type, reg)
         /\ Getter(type, reg).len = 8 * LengthOf(reg)
<1>1. Common \subseteq DOMAIN Type0Cfg
  BY DEF Common, Type0Cfg
<1>2. ReadAsType0 \subseteq DOMAIN Type0Cfg
  BY DEF ReadAsType0, Type0Cfg
<1>3. CASE type = "TYPE0" \/ reg \in Common
  <2>1. reg \in DOMAIN Type0Cfg
    BY <1>1, <1>3 DEF HeaderRegsOf
  <2>2. RegTypeLabel(type, reg) = Type0Cfg[reg] /\ Getter(type, reg) = Type0Getter(reg)
    BY <1>3 DEF RegTypeLabel, Getter
  <2>3. QED
    BY <2>1, <2>2, Type0Inside, Type0Read, TypesAgree
<1>4. CASE type # "TYPE0" /\ reg \notin Common
  <2>1. reg \in DOMAIN Type1Cfg /\ RegTypeLabel(type, reg) = Type1Cfg[reg]
    BY <1>4 DEF HeaderRegsOf, RegTypeLabel, Common
  <2>2. CASE reg \in ReadAsType0
    <3>1. Getter(type, reg) = Type0Getter(reg) /\ reg \in DOMAIN Type0Cfg
      BY <1>2, <2>2 DEF Getter, ReadAsType0
    <3>2. Type1Cfg[reg] = Type0Cfg[reg]
      BY <2>2, TypesAgree DEF ReadAsType0
    <3>3. QED
      BY <2>1, <3>1, <3>2, Type0Inside, Type0Read, TypesAgree
  <2>3. CASE reg \notin ReadAsType0
    <3>1. Getter(type, reg) = Type1Getter(reg)
      BY <1>4, <2>3 DEF Getter, ReadAsType0
    <3>2. QED
      BY <2>1, <3>1, Type1Inside, Type1Read, TypesAgree
  <2>4. QED
    BY <2>2, <2>3
<1>5. QED
  BY <1>3, <1>4

\* The registers other than the two that the descriptions of go wrong.
LEMMA HeaderTells ==
  ASSUME NEW type \in {"TYPE0", "TYPE1"}, NEW reg \in HeaderRegsOf(type) \ {"bist", "bridge_ctl"}
  PROVE  TextTells(HeaderText(type, reg), RegTypeLabel(type, reg), 8 * LengthOf(reg), {})
<1>1. TellAll(reg, 8 * LengthOf(reg))
  <2>1. reg \in OneByte \cup Words \cup {"class_code"} \cup FourBytes
    BY DEF HeaderRegsOf, Type0Cfg, Type1Cfg, OneByte, Words, FourBytes, Bars
  <2>2. CASE reg \in FourBytes
    <3>1. 8 * LengthOf(reg) = 32
      BY <2>2 DEF LengthOf
    <3>2. QED
      BY <2>2, <3>1, ContentsTell
  <2>3. CASE reg = "class_code"
    <3>1. 8 * LengthOf(reg) = 24
      BY <2>3 DEF LengthOf, FourBytes, Bars
    <3>2. QED
      BY <2>3, <3>1, ContentsTell
  <2>4. CASE reg \in Words
    <3>1. 8 * LengthOf(reg) = 16
      BY <2>4 DEF LengthOf, FourBytes, Bars, Words
    <3>2. QED
      BY <2>4, <3>1, ContentsTell
  <2>5. CASE reg \in OneByte
    <3>1. 8 * LengthOf(reg) = 8
      BY <2>5 DEF LengthOf, FourBytes, Bars, Words, OneByte
    <3>2. QED
      BY <2>5, <3>1, ContentsTell
  <2>6. QED
    BY <2>1, <2>2, <2>3, <2>4, <2>5
<1>2. HeaderText(type, reg).contents = HeaderContents[reg]
  BY DEF HeaderText
<1>3. Placed(HeaderText(type, reg), RegTypeLabel(type, reg), 8 * LengthOf(reg))
  BY HeaderRead DEF Placed, HeaderText, TitledAs
<1>4. QED
  BY <1>1, <1>2, <1>3 DEF TextTells, TellAll

LEMMA Type0Apart ==
  ASSUME NEW r \in DOMAIN Type0Cfg, NEW q \in DOMAIN Type0Cfg, r # q
  PROVE  \/ Type0Cfg[r] + t0_reg_map[r] <= Type0Cfg[q]
         \/ Type0Cfg[q] + t0_reg_map[q] <= Type0Cfg[r]
BY DEF Type0Cfg, t0_reg_map, Bars, Words

LEMMA Type1Apart ==
  ASSUME NEW r \in DOMAIN Type1Cfg, NEW q \in DOMAIN Type1Cfg, r # q
  PROVE  \/ Type1Cfg[r] + t1_reg_map[r] <= Type1Cfg[q]
         \/ Type1Cfg[q] + t1_reg_map[q] <= Type1Cfg[r]
BY DEF Type1Cfg, t1_reg_map, Bars, Words

\* The registers of a header do not share bytes.
LEMMA LabelsApart ==
  ASSUME NEW type \in {"TYPE0", "TYPE1"},
         NEW r \in HeaderRegsOf(type), NEW q \in HeaderRegsOf(type), r # q
  PROVE  \/ RegTypeLabel(type, r) + LengthOf(r) <= RegTypeLabel(type, q)
         \/ RegTypeLabel(type, q) + LengthOf(q) <= RegTypeLabel(type, r)
<1>1. CASE type = "TYPE0"
  <2>1. r \in DOMAIN Type0Cfg /\ q \in DOMAIN Type0Cfg
    BY <1>1 DEF HeaderRegsOf
  <2>2. RegTypeLabel(type, r) = Type0Cfg[r] /\ RegTypeLabel(type, q) = Type0Cfg[q]
    BY <1>1 DEF RegTypeLabel
  <2>3. QED
    BY <2>1, <2>2, Type0Apart, TypesAgree
<1>2. CASE type = "TYPE1"
  <2> DEFINE In1(x) == IF x = "latency_timer" THEN "prim_lat_timer" ELSE x
  <2>1. ASSUME NEW x \in HeaderRegsOf(type)
        PROVE  /\ In1(x) \in DOMAIN Type1Cfg
               /\ RegTypeLabel(type, x) = Type1Cfg[In1(x)] /\ LengthOf(x) = t1_reg_map[In1(x)]
    <3>1. In1(x) \in DOMAIN Type1Cfg
      BY <1>2 DEF HeaderRegsOf, Type1Cfg
    <3>2. \A y \in Common \ {"latency_timer"} : Type0Cfg[y] = Type1Cfg[y]
      BY DEF Common, Type0Cfg, Type1Cfg
    <3>3. Type0Cfg["latency_timer"] = Type1Cfg["prim_lat_timer"]
      BY DEF Type0Cfg, Type1Cfg
    <3>4. RegTypeLabel(type, x) = Type1Cfg[In1(x)]
      BY <1>2, <3>2, <3>3 DEF RegTypeLabel, Common
    <3>5. LengthOf("latency_timer") = LengthOf("prim_lat_timer")
      BY DEF LengthOf, FourBytes, Bars, Words
    <3>6. LengthOf(x) = LengthOf(In1(x))
      BY <3>5
    <3>7. QED
      BY <3>1, <3>4, <3>6, TypesAgree
  <2>2. In1(r) # In1(q)
    BY <1>2 DEF HeaderRegsOf, Type1Cfg
  <2> HIDE DEF In1
  <2>3. QED
    BY <2>1, <2>2, Type1Apart
<1>3. QED
  BY <1>1, <1>2

\* The bytes of the description of n bytes at off.
TitledBy(text) == text.title..(text.title + (text.len - 1) \div 8)

LEMMA TitledSpan ==
  ASSUME NEW text, NEW off \in Nat, NEW n \in Nat, 0 < n, text.title = off, text.len = 8 * n
  PROVE  \A x : x \in TitledBy(text) <=> x \in Int /\ off <= x /\ x < off + n
<1>1. (8 * n - 1) \div 8 = n - 1
  OBVIOUS
<1>2. QED
  BY <1>1 DEF TitledBy

\* Bytes are apart or the same.
LEMMA SpansApart ==
  ASSUME NEW s, NEW t, NEW a \in Nat, NEW m \in Nat, NEW b \in Nat, NEW n \in Nat, 0 < m, 0 < n,
         s.title = a, s.len = 8 * m, t.title = b, t.len = 8 * n
  PROVE  /\ a + m <= b \/ b + n <= a => TitledBy(s) \cap TitledBy(t) = {}
         /\ a = b => TitledBy(s) \cap TitledBy(t) # {}
<1>1. \A x : x \in TitledBy(s) <=> x \in Int /\ a <= x /\ x < a + m
  BY TitledSpan
<1>2. \A x : x \in TitledBy(t) <=> x \in Int /\ b <= x /\ x < b + n
  BY TitledSpan
<1>3. a + m <= b \/ b + n <= a => TitledBy(s) \cap TitledBy(t) = {}
  BY <1>1, <1>2
<1>4. a = b => a \in TitledBy(s) \cap TitledBy(t)
  BY <1>1, <1>2
<1>5. QED
  BY <1>3, <1>4

LEMMA BridgeCtlFits ==
  /\ Fits(RegInfoBridgeCtrlComp, 16, {})
  /\ \A b : (\E r \in RegInfoBridgeCtrlComp.rows : b \in r[1]..r[2]) <=> b \in 0..11
  /\ Apart(RegInfoBridgeCtrlComp.rows)
<1> DEFINE R == UNION {Flags(0, 11, 1)}
           e == Ends(RegBridgeCtl)
<1>1. R = {<<b, b, 1 + b - 0>> : b \in 0..11}
  BY DEF Flags
<1>2. ASSUME NEW r \in R
      PROVE  r[1] \in 0..11 /\ r[2] = r[1] /\ r[3] = r[1] + 1
  <2>1. PICK b \in 0..11 : r = <<b, b, 1 + b - 0>>
    BY <1>1
  <2>2. r[1] = b /\ r[2] = b /\ r[3] = 1 + b - 0
    BY <2>1
  <2>3. 1 + b - 0 = b + 1
    OBVIOUS
  <2>4. QED
    BY <2>2, <2>3
<1>3. ASSUME NEW b \in 0..11
      PROVE  \E r \in R : r[1] = b
  <2>1. <<b, b, 1 + b - 0>> \in R /\ <<b, b, 1 + b - 0>>[1] = b
    BY <1>1
  <2>2. QED
    BY <2>1
<1>4. \A r, q \in R : r[1] = q[1] => r = q
  BY <1>1
<1>5. RegInfoBridgeCtrlComp.layout = RegBridgeCtl /\ RegInfoBridgeCtrlComp.rows = R
  BY DEF RegInfoBridgeCtrlComp, Content
<1> HIDE DEF R
<1>6. \A k \in 0..12 : e[k] = k
  <2>1. /\ e[0] = 0 /\ e[1] = 1 /\ e[2] = 2 /\ e[3] = 3 /\ e[4] = 4 /\ e[5] = 5 /\ e[6] = 6
        /\ e[7] = 7 /\ e[8] = 8 /\ e[9] = 9 /\ e[10] = 10 /\ e[11] = 11 /\ e[12] = 12
    BY RegBridgeCtlEnds
  <2> HIDE DEF e
  <2>2. QED
    BY <2>1
<1>7. Len(RegBridgeCtl) = 13 /\ RegBridgeCtl \in Seq(Nat)
  BY RegBridgeCtlEnds
<1> HIDE DEF e
<1>8. ASSUME NEW r \in R PROVE InReg(r, 16) /\ ShowsField(RegBridgeCtl, r, 16, {})
  <2>0. r[1] \in 0..11 /\ r[2] = r[1] /\ r[3] = r[1] + 1
    BY <1>2
  <2>1. /\ r[3] \in 1..13 /\ e[r[3] - 1] = r[1] /\ e[r[3]] = r[2] + 1 /\ r[1] \in 0..11
        /\ r[2] = r[1] /\ r[3] # All
    <3>1. r[1] \in 0..12 /\ r[3] \in 0..12 /\ r[3] - 1 = r[1] /\ r[2] + 1 = r[3]
      BY <2>0
    <3>2. e[r[1]] = r[1] /\ e[r[3]] = r[3]
      BY <1>6, <3>1
    <3>3. r[3] \in 1..13 /\ r[3] # All
      BY <2>0 DEF All
    <3>4. QED
      BY <2>0, <3>1, <3>2, <3>3
  <2>2. First(RegBridgeCtl, r[3]) = r[1] /\ Behind(RegBridgeCtl, r[3]) = r[2] + 1
    BY <2>1 DEF First, Behind, e
  <2>3. InReg(r, 16)
    BY <2>0 DEF InReg
  <2>4. r[3] \in 1..Len(RegBridgeCtl)
    BY <1>7, <2>1
  <2>5. HasField(RegBridgeCtl, r, 16)
    BY <2>0, <2>2, <2>4 DEF HasField
  <2>6. r[1] = First(RegBridgeCtl, r[3]) /\ r[2] + 1 = Behind(RegBridgeCtl, r[3])
    BY <2>2
  <2>7. QED
    BY <2>3, <2>5, <2>6 DEF ShowsField
<1>9. Fits(RegInfoBridgeCtrlComp, 16, {})
  BY <1>5, <1>7, <1>8 DEF Fits
<1>10. \A b : (\E r \in R : b \in r[1]..r[2]) <=> b \in 0..11
  BY <1>2, <1>3
<1>11. Apart(R)
  BY <1>2, <1>4 DEF Apart
<1>12. QED
  BY <1>5, <1>9, <1>10, <1>11

\* Every description of a header is as it should be.
LEMMA HeaderRight ==
  ASSUME NEW type \in {"TYPE0", "TYPE1"}, NEW reg \in HeaderRegsOf(type)
  PROVE  Right(HeaderText(type, reg), reg)
<1> DEFINE text == HeaderText(type, reg)
           off == RegTypeLabel(type, reg)
<1>1. off \in Nat /\ text.at = 8 * off /\ text.len = 8 * LengthOf(reg)
  BY HeaderRead DEF HeaderText
<1>2. text.contents = HeaderContents[reg] /\ text.title = RegTypeLabel(type, TitledAs(reg))
  BY DEF HeaderText
<1>3. CASE reg \notin {"bist", "bridge_ctl"}
  <2>1. Plain(reg)
    BY <1>3, Mislabelling DEF Plain, HeaderRegsOf, Type0Cfg, Type1Cfg
  <2>2. 8 * LengthOf(reg) \in Nat
    BY DEF LengthOf
  <2>3. QED
    BY <1>1, <1>3, <2>1, <2>2, HeaderTells, PlainRight
<1>4. CASE reg = "bist"
  <2>1. off = 15 /\ text.title = 14 /\ text.at = 120 /\ text.len = 8
    BY <1>1, <1>2, <1>4 DEF RegTypeLabel, TitledAs, Common, Type0Cfg, LengthOf, FourBytes, Bars,
       Words
  <2>2. \A c \in text.contents : Tells(c, 8, {})
    BY <1>2, <1>4, ContentsTell DEF OneByte, TellAll
  <2>3. \A c \in text.contents : Reads(c, 8)
    BY <2>2 DEF Tells, Fits, Reads, ShowsField, CutShort
  <2>4. reg \in MislabelledRegs
    BY <1>4 DEF MislabelledRegs
  <2>5. 8 * 14 + 8 <= 120 /\ 120 \in Nat /\ 14 \in Nat /\ 8 \in Nat
    OBVIOUS
  <2>6. Truthful(text, reg)
    BY <2>1, <2>3, <2>4, <2>5, TextElsewhere
  <2>7. Complete(text, reg)
    BY <1>4, <2>1, <2>2, TextComplete
  <2>8. QED
    BY <2>6, <2>7 DEF Right
<1>5. CASE reg = "bridge_ctl"
  <2>1. text.contents = {RegInfoBridgeCtrlComp} /\ text.len = 16 /\ text.title = off
    BY <1>1, <1>2, <1>5, HeaderLookup DEF TitledAs, LengthOf, FourBytes, Bars, Words
  <2>2. \A row : Mislabelled(reg, row) <=> row[1] \in {}
    BY <1>5, Mislabelling
  <2>3. \A c \in text.contents : Fits(c, 16, {})
    BY <2>1, BridgeCtlFits
  <2>4. Truthful(text, reg)
    BY <1>1, <2>1, <2>2, <2>3, TextTruthful
  <2> DEFINE rows == RegInfoBridgeCtrlComp.rows
  <2>5. \A r \in rows : r[2] < 16 /\ InReg(r, 16)
    BY BridgeCtlFits DEF Fits, InReg
  <2>6. Missing(text, rows) = 12..15
    BY <2>1, BridgeCtlFits DEF Missing
  <2>7. Twice(text, rows) = {}
    BY <2>1, <2>5, BridgeCtlFits DEF Twice, Apart, InReg
  <2> HIDE DEF rows
  <2>8. Complete(text, reg)
    BY <1>5, <2>1, <2>5, <2>6, <2>7 DEF Complete, rows
  <2>9. QED
    BY <2>4, <2>8 DEF Right
<1>6. QED
  BY <1>3, <1>4, <1>5

\* The button over a description of the header and the bytes it is titled with.
LEMMA HeaderTitles ==
  ASSUME NEW type \in {"TYPE0", "TYPE1"}
  PROVE  /\ \A r \in HeaderRegsOf(type) :
              HeaderText(type, r).button = HeaderText(type, r).title <=> r # "bist"
         /\ \A r, q \in HeaderRegsOf(type) :
              r # q => (TitledBy(HeaderText(type, r)) \cap TitledBy(HeaderText(type, q)) = {}
                          <=> {r, q} # {"bist", "header_type"})
<1> DEFINE L(x) == RegTypeLabel(type, x)
           T(x) == L(TitledAs(x))
<1>1. /\ L("bist") = 15 /\ L("header_type") = 14
      /\ LengthOf("bist") = 1 /\ LengthOf("header_type") = 1
  BY DEF RegTypeLabel, Common, Type0Cfg, LengthOf, FourBytes, Bars, Words
<1>2. {"bist", "header_type"} \subseteq HeaderRegsOf(type)
  BY DEF HeaderRegsOf, Type0Cfg, Type1Cfg
<1>3. \A r : HeaderText(type, r).button = L(r) /\ HeaderText(type, r).title = T(r)
  BY DEF HeaderText
<1>4. \A r \in HeaderRegsOf(type) : /\ HeaderText(type, r).len = 8 * LengthOf(r)
                                /\ LengthOf(r) \in Nat /\ 0 < LengthOf(r)
  BY HeaderRead DEF HeaderText, LengthOf
<1>5. T("bist") = 14 /\ \A r : r # "bist" => T(r) = L(r)
  BY <1>1 DEF TitledAs
<1>6. \A r \in HeaderRegsOf(type) : L(r) \in Nat
  BY HeaderRead
<1>7. \A r, q \in HeaderRegsOf(type) :
        r # q => L(r) + LengthOf(r) <= L(q) \/ L(q) + LengthOf(q) <= L(r)
  BY LabelsApart
<1> HIDE DEF L, T
<1>8. \A r \in HeaderRegsOf(type) : T(r) \in Nat
  BY <1>5, <1>6
<1>9. ASSUME NEW r \in HeaderRegsOf(type), NEW q \in HeaderRegsOf(type), r # q
      PROVE  TitledBy(HeaderText(type, r)) \cap TitledBy(HeaderText(type, q)) = {}
               <=> {r, q} # {"bist", "header_type"}
  <2>1. /\ T(r) + LengthOf(r) <= T(q) \/ T(q) + LengthOf(q) <= T(r)
             => TitledBy(HeaderText(type, r)) \cap TitledBy(HeaderText(type, q)) = {}
        /\ T(r) = T(q) => TitledBy(HeaderText(type, r)) \cap TitledBy(HeaderText(type, q)) # {}
    BY <1>3, <1>4, <1>8, SpansApart
  <2>2. CASE {r, q} = {"bist", "header_type"}
    <3>1. r \in {r, q} /\ q \in {r, q}
      OBVIOUS
    <3>2. r \in {"bist", "header_type"} /\ q \in {"bist", "header_type"}
      BY <2>2, <3>1
    <3>3. T(r) = T(q)
      BY <1>1, <1>5, <1>9, <3>2
    <3>4. QED
      BY <2>1, <2>2, <3>3
  <2>3. CASE {r, q} # {"bist", "header_type"}
    <3>1. T(r) + LengthOf(r) <= T(q) \/ T(q) + LengthOf(q) <= T(r)
      <4>1. CASE r = "bist"
        <5>1. q # "header_type" /\ q # "bist"
          BY <1>9, <2>3, <4>1
        <5>2. L("header_type") + 1 <= L(q) \/ L(q) + LengthOf(q) <= L("header_type")
          BY <1>1, <1>2, <1>7, <5>1
        <5>3. QED
          BY <1>1, <1>5, <4>1, <5>1, <5>2
      <4>2. CASE q = "bist"
        <5>1. r # "header_type" /\ r # "bist"
          BY <1>9, <2>3, <4>2
        <5>2. L("header_type") + 1 <= L(r) \/ L(r) + LengthOf(r) <= L("header_type")
          BY <1>1, <1>2, <1>7, <5>1
        <5>3. QED
          BY <1>1, <1>5, <4>2, <5>1, <5>2
      <4>3. CASE r # "bist" /\ q # "bist"
        BY <1>5, <1>7, <1>9, <4>3
      <4>4. QED
        BY <4>1, <4>2, <4>3
    <3>2. QED
      BY <2>1, <2>3, <3>1
  <2>4. QED
    BY <2>2, <2>3
<1>10. \A r \in HeaderRegsOf(type) :
         HeaderText(type, r).button = HeaderText(type, r).title <=> r # "bist"
  BY <1>1, <1>3, <1>5
<1>11. QED
  BY <1>9, <1>10
-----------------------------------------------------------------------------
(***************************************************************************)
(* Capabilities.                                                           *)
(***************************************************************************)

\* The rows that RegComponents names as mislabelled.
Wrong(reg) == IF reg \in DOMAIN MislabelledRows THEN MislabelledRows[reg] ELSE {}

\* The registers of a table say what they should and do not share bytes.
Sound(table, regs) ==
  /\ \A r \in regs : Right(table[r], r) /\ table[r].button = table[r].title
  /\ \A r, q \in regs : r # q => TitledBy(table[r]) \cap TitledBy(table[q]) = {}

\* The one at off(r), of size bytes.
LEMMA TableSound ==
  ASSUME NEW table, NEW regs, NEW off \in [regs -> Nat], NEW size \in [regs -> Nat \ {0}],
         \A r \in regs : TextTells(table[r], off[r], 8 * size[r], Wrong(r)),
         \A r \in regs : r \notin {"bist", "bridge_ctl", "lane_eq_ctl"},
         \A r, q \in regs : r # q => off[r] + size[r] <= off[q] \/ off[q] + size[q] <= off[r]
  PROVE  Sound(table, regs)
<1>1. ASSUME NEW r \in regs PROVE Right(table[r], r)
  <2>1. 8 * size[r] \in Nat /\ off[r] \in Nat
    OBVIOUS
  <2>2. CASE r \in DOMAIN MislabelledRows
    BY <2>1, <2>2, ExceptedRight DEF Wrong
  <2>3. CASE r \notin DOMAIN MislabelledRows
    <3>1. Plain(r)
      BY <2>3, Mislabelling DEF Plain
    <3>2. QED
      BY <2>1, <2>3, <3>1, PlainRight DEF Wrong
  <2>4. QED
    BY <2>2, <2>3
<1>2. \A r \in regs : /\ table[r].button = off[r] /\ table[r].title = off[r]
                      /\ table[r].len = 8 * size[r]
  BY DEF TextTells, Placed
<1>3. ASSUME NEW r \in regs, NEW q \in regs, r # q
      PROVE  TitledBy(table[r]) \cap TitledBy(table[q]) = {}
  <2>1. off[r] \in Nat /\ off[q] \in Nat /\ size[r] \in Nat /\ size[q] \in Nat
        /\ 0 < size[r] /\ 0 < size[q]
    OBVIOUS
  <2>2. off[r] + size[r] <= off[q] \/ off[q] + size[q] <= off[r]
    BY <1>3
  <2>3. QED
    BY <1>2, <2>1, <2>2, SpansApart
<1>4. QED
  BY <1>1, <1>2, <1>3 DEF Sound

LEMMA RegAt ==
  ASSUME NEW cap, NEW k \in DOMAIN cap, \A j \in DOMAIN cap : cap[j][1] = cap[k][1] => j = k
  PROVE  RegOf(cap, cap[k][1]) = k
BY DEF RegOf

\* The k-th register of a capability, where those before it take so many bytes.
LEMMA LaidOut ==
  ASSUME NEW cap, NEW k \in DOMAIN cap, NEW name, NEW w, NEW off, cap[k] = <<name, w>>,
         \A j \in DOMAIN cap : cap[j][1] = name => j = k,
         Position(Sizes(cap), k) = off
  PROVE  LayoutOf(cap, name) = w /\ OffsetOf(cap, name) = off
<1>1. cap[k][1] = name /\ cap[k][2] = w
  OBVIOUS
<1>2. RegOf(cap, name) = k
  BY <1>1, RegAt
<1>3. QED
  BY <1>1, <1>2 DEF LayoutOf, OffsetOf

\* A description each of whose rows shows the field it is labelled as.
LEMMA FieldsTell ==
  ASSUME NEW w \in Seq(Nat), NEW P, NEW len, NEW wrong,
         \A r \in UNION P : InReg(r, len),
         \A r \in UNION P : r[3] # None => ShowsField(w, r, len, wrong),
         Apart(UNION P), Covers(UNION P, 0, len - 1)
  PROVE  Tells(Content(w, P), len, wrong)
<1>1. Content(w, P).layout = w /\ Content(w, P).rows = UNION P
  BY DEF Content
<1>2. QED
  BY <1>1 DEF Tells, Fits

\* A member is placed at the offset its structure has it at.
LEMMA MemberTells ==
  ASSUME NEW cap, NEW off, NEW name, NEW rows, NEW w, NEW len, NEW wrong,
         LayoutOf(cap, name) = w, OffsetOf(cap, name) = off, 8 * SizeOf(w) = len,
         Tells(Content(w, rows), len, wrong)
  PROVE  TextTells(Member(cap, off, name, rows), off, len, wrong)
BY DEF Member, Text, TextTells, Placed
LEMMA SingleSize ==
  ASSUME NEW n \in Nat
  PROVE  SizeOf(<<8 * n>>) = n
BY SingleEnds DEF SizeOf

LEMMA CompatCapHdrEnds ==
  /\ CompatCapHdr \in Seq(Nat) /\ Len(CompatCapHdr) = 2 /\ Bits(CompatCapHdr) = 16
  /\ SizeOf(CompatCapHdr) = 2 /\ Ends(CompatCapHdr)[0] = 0 /\ Ends(CompatCapHdr)[1] = 8
  /\ Ends(CompatCapHdr)[2] = 16
<1>1. CompatCapHdr \in Seq(Nat) /\ Len(CompatCapHdr) = 2
  BY DEF CompatCapHdr
<1> DEFINE e == Ends(CompatCapHdr)
<1>2. e[0] = 0 /\ \A n \in 1..2 : e[n] = e[n - 1] + CompatCapHdr[n]
  BY <1>1, EndsDefined
<1> HIDE DEF e
<1>3. e[0] = 0 /\ e[1] = 8 /\ e[2] = 16
  BY <1>2 DEF CompatCapHdr
<1>4. QED
  BY <1>1, <1>3 DEF e, Bits, SizeOf

LEMMA ExtCapHdrEnds ==
  /\ ExtCapHdr \in Seq(Nat) /\ Len(ExtCapHdr) = 3 /\ Bits(ExtCapHdr) = 32
  /\ SizeOf(ExtCapHdr) = 4 /\ Ends(ExtCapHdr)[0] = 0 /\ Ends(ExtCapHdr)[1] = 16
  /\ Ends(ExtCapHdr)[2] = 20 /\ Ends(ExtCapHdr)[3] = 32
<1>1. ExtCapHdr \in Seq(Nat) /\ Len(ExtCapHdr) = 3
  BY DEF ExtCapHdr
<1> DEFINE e == Ends(ExtCapHdr)
<1>2. e[0] = 0 /\ \A n \in 1..3 : e[n] = e[n - 1] + ExtCapHdr[n]
  BY <1>1, EndsDefined
<1> HIDE DEF e
<1>3. e[0] = 0 /\ e[1] = 16 /\ e[2] = 20 /\ e[3] = 32
  BY <1>2 DEF ExtCapHdr
<1>4. QED
  BY <1>1, <1>3 DEF e, Bits, SizeOf

LEMMA RegPMCapEnds ==
  /\ RegPMCap \in Seq(Nat) /\ Len(RegPMCap) = 8 /\ Bits(RegPMCap) = 16 /\ SizeOf(RegPMCap) = 2
  /\ Ends(RegPMCap)[0] = 0 /\ Ends(RegPMCap)[1] = 3 /\ Ends(RegPMCap)[2] = 4
  /\ Ends(RegPMCap)[3] = 5 /\ Ends(RegPMCap)[4] = 6 /\ Ends(RegPMCap)[5] = 9
  /\ Ends(RegPMCap)[6] = 10 /\ Ends(RegPMCap)[7] = 11 /\ Ends(RegPMCap)[8] = 16
<1>1. RegPMCap \in Seq(Nat) /\ Len(RegPMCap) = 8
  BY DEF RegPMCap
<1> DEFINE e == Ends(RegPMCap)
<1>2. e[0] = 0 /\ \A n \in 1..8 : e[n] = e[n - 1] + RegPMCap[n]
  BY <1>1, EndsDefined
<1> HIDE DEF e
<1>3. /\ e[0] = 0 /\ e[1] = 3 /\ e[2] = 4 /\ e[3] = 5 /\ e[4] = 6 /\ e[5] = 9 /\ e[6] = 10
      /\ e[7] = 11 /\ e[8] = 16
  BY <1>2 DEF RegPMCap
<1>4. QED
  BY <1>1, <1>3 DEF e, Bits, SizeOf

LEMMA RegPMCtlStatusEnds ==
  /\ RegPMCtlStatus \in Seq(Nat) /\ Len(RegPMCtlStatus) = 12 /\ Bits(RegPMCtlStatus) = 32
  /\ SizeOf(RegPMCtlStatus) = 4 /\ Ends(RegPMCtlStatus)[0] = 0 /\ Ends(RegPMCtlStatus)[1] = 2
  /\ Ends(RegPMCtlStatus)[2] = 3 /\ Ends(RegPMCtlStatus)[3] = 4 /\ Ends(RegPMCtlStatus)[4] = 8
  /\ Ends(RegPMCtlStatus)[5] = 9 /\ Ends(RegPMCtlStatus)[6] = 13
  /\ Ends(RegPMCtlStatus)[7] = 15 /\ Ends(RegPMCtlStatus)[8] = 16
  /\ Ends(RegPMCtlStatus)[9] = 22 /\ Ends(RegPMCtlStatus)[10] = 23
  /\ Ends(RegPMCtlStatus)[11] = 24 /\ Ends(RegPMCtlStatus)[12] = 32
<1>1. RegPMCtlStatus \in Seq(Nat) /\ Len(RegPMCtlStatus) = 12
  BY DEF RegPMCtlStatus
<1> DEFINE e == Ends(RegPMCtlStatus)
<1>2. e[0] = 0 /\ \A n \in 1..12 : e[n] = e[n - 1] + RegPMCtlStatus[n]
  BY <1>1, EndsDefined
<1> HIDE DEF e
<1>3. /\ e[0] = 0 /\ e[1] = 2 /\ e[2] = 3 /\ e[3] = 4 /\ e[4] = 8 /\ e[5] = 9 /\ e[6] = 13
      /\ e[7] = 15 /\ e[8] = 16 /\ e[9] = 22 /\ e[10] = 23 /\ e[11] = 24 /\ e[12] = 32
  BY <1>2 DEF RegPMCtlStatus
<1>4. QED
  BY <1>1, <1>3 DEF e, Bits, SizeOf

LEMMA RegMSIxMsgCtrlEnds ==
  /\ RegMSIxMsgCtrl \in Seq(Nat) /\ Len(RegMSIxMsgCtrl) = 4 /\ Bits(RegMSIxMsgCtrl) = 16
  /\ SizeOf(RegMSIxMsgCtrl) = 2 /\ Ends(RegMSIxMsgCtrl)[0] = 0 /\ Ends(RegMSIxMsgCtrl)[1] = 11
  /\ Ends(RegMSIxMsgCtrl)[2] = 14 /\ Ends(RegMSIxMsgCtrl)[3] = 15
  /\ Ends(RegMSIxMsgCtrl)[4] = 16
<1>1. RegMSIxMsgCtrl \in Seq(Nat) /\ Len(RegMSIxMsgCtrl) = 4
  BY DEF RegMSIxMsgCtrl
<1> DEFINE e == Ends(RegMSIxMsgCtrl)
<1>2. e[0] = 0 /\ \A n \in 1..4 : e[n] = e[n - 1] + RegMSIxMsgCtrl[n]
  BY <1>1, EndsDefined
<1> HIDE DEF e
<1>3. e[0] = 0 /\ e[1] = 11 /\ e[2] = 14 /\ e[3] = 15 /\ e[4] = 16
  BY <1>2 DEF RegMSIxMsgCtrl
<1>4. QED
  BY <1>1, <1>3 DEF e, Bits, SizeOf

LEMMA RegMSIxTblOffIdEnds ==
  /\ RegMSIxTblOffId \in Seq(Nat) /\ Len(RegMSIxTblOffId) = 2 /\ Bits(RegMSIxTblOffId) = 32
  /\ SizeOf(RegMSIxTblOffId) = 4 /\ Ends(RegMSIxTblOffId)[0] = 0
  /\ Ends(RegMSIxTblOffId)[1] = 3 /\ Ends(RegMSIxTblOffId)[2] = 32
<1>1. RegMSIxTblOffId \in Seq(Nat) /\ Len(RegMSIxTblOffId) = 2
  BY DEF RegMSIxTblOffId
<1> DEFINE e == Ends(RegMSIxTblOffId)
<1>2. e[0] = 0 /\ \A n \in 1..2 : e[n] = e[n - 1] + RegMSIxTblOffId[n]
  BY <1>1, EndsDefined
<1> HIDE DEF e
<1>3. e[0] = 0 /\ e[1] = 3 /\ e[2] = 32
  BY <1>2 DEF RegMSIxTblOffId
<1>4. QED
  BY <1>1, <1>3 DEF e, Bits, SizeOf

LEMMA RegMSIxPBAOffIdEnds ==
  /\ RegMSIxPBAOffId \in Seq(Nat) /\ Len(RegMSIxPBAOffId) = 2 /\ Bits(RegMSIxPBAOffId) = 32
  /\ SizeOf(RegMSIxPBAOffId) = 4 /\ Ends(RegMSIxPBAOffId)[0] = 0
  /\ Ends(RegMSIxPBAOffId)[1] = 3 /\ Ends(RegMSIxPBAOffId)[2] = 32
<1>1. RegMSIxPBAOffId \in Seq(Nat) /\ Len(RegMSIxPBAOffId) = 2
  BY DEF RegMSIxPBAOffId
<1> DEFINE e == Ends(RegMSIxPBAOffId)
<1>2. e[0] = 0 /\ \A n \in 1..2 : e[n] = e[n - 1] + RegMSIxPBAOffId[n]
  BY <1>1, EndsDefined
<1> HIDE DEF e
<1>3. e[0] = 0 /\ e[1] = 3 /\ e[2] = 32
  BY <1>2 DEF RegMSIxPBAOffId
<1>4. QED
  BY <1>1, <1>3 DEF e, Bits, SizeOf

LEMMA PciPMCapLaid ==
  /\ LayoutOf(PciPMCap, "pmcap") = RegPMCap /\ OffsetOf(PciPMCap, "pmcap") = 2
  /\ LayoutOf(PciPMCap, "pmcs") = RegPMCtlStatus /\ OffsetOf(PciPMCap, "pmcs") = 4
<1> DEFINE c == PciPMCap
           s == Sizes(c)
           e == Ends(s)
<1>1. /\ DOMAIN c = 1..3 /\ c[1] = <<"hdr", CompatCapHdr>> /\ c[2] = <<"pmcap", RegPMCap>>
      /\ c[3] = <<"pmcs", RegPMCtlStatus>>
  BY DEF PciPMCap
<1> HIDE DEF c
<1>2. \A j, k \in DOMAIN c : c[j][1] = c[k][1] => j = k
  BY <1>1
<1>3. s \in Seq(Nat) /\ Len(s) = 3 /\ s[1] = 2 /\ s[2] = 2 /\ s[3] = 4
  <2>1. s = [k \in 1..3 |-> SizeOf(c[k][2])]
    BY <1>1 DEF Sizes
  <2>2. SizeOf(CompatCapHdr) = 2 /\ SizeOf(RegPMCap) = 2 /\ SizeOf(RegPMCtlStatus) = 4
    BY CompatCapHdrEnds, RegPMCapEnds, RegPMCtlStatusEnds
  <2> HIDE DEF s
  <2>3. QED
    BY <1>1, <2>1, <2>2
<1> HIDE DEF s
<1>4. e[0] = 0 /\ \A k \in 1..3 : e[k] = e[k - 1] + s[k]
  BY <1>3, EndsDefined
<1> HIDE DEF e
<1>5. e[0] = 0 /\ e[1] = 2 /\ e[2] = 4
  BY <1>3, <1>4
<1>6. Position(s, 2) = 2 /\ Position(s, 3) = 4
  BY <1>5 DEF Position, e
<1>7. LayoutOf(c, "pmcap") = RegPMCap /\ OffsetOf(c, "pmcap") = 2
  <2>1. \A j \in DOMAIN c : c[j][1] = "pmcap" => j = 2
    BY <1>1, <1>2
  <2>2. Position(Sizes(c), 2) = 2
    BY <1>6 DEF s
  <2>3. 2 \in DOMAIN c /\ c[2] = <<"pmcap", RegPMCap>>
    BY <1>1
  <2>4. QED
    BY <2>1, <2>2, <2>3, LaidOut
<1>8. LayoutOf(c, "pmcs") = RegPMCtlStatus /\ OffsetOf(c, "pmcs") = 4
  <2>1. \A j \in DOMAIN c : c[j][1] = "pmcs" => j = 3
    BY <1>1, <1>2
  <2>2. Position(Sizes(c), 3) = 4
    BY <1>6 DEF s
  <2>3. 3 \in DOMAIN c /\ c[3] = <<"pmcs", RegPMCtlStatus>>
    BY <1>1
  <2>4. QED
    BY <2>1, <2>2, <2>3, LaidOut
<1>9. QED
  BY <1>7, <1>8 DEF c

LEMMA PciMSIxCapLaid ==
  /\ LayoutOf(PciMSIxCap, "msg_ctrl") = RegMSIxMsgCtrl /\ OffsetOf(PciMSIxCap, "msg_ctrl") = 2
  /\ LayoutOf(PciMSIxCap, "tbl_off_id") = RegMSIxTblOffId
  /\ OffsetOf(PciMSIxCap, "tbl_off_id") = 4
  /\ LayoutOf(PciMSIxCap, "pba_off_id") = RegMSIxPBAOffId
  /\ OffsetOf(PciMSIxCap, "pba_off_id") = 8
<1> DEFINE c == PciMSIxCap
           s == Sizes(c)
           e == Ends(s)
<1>1. /\ DOMAIN c = 1..4 /\ c[1] = <<"hdr", CompatCapHdr>>
      /\ c[2] = <<"msg_ctrl", RegMSIxMsgCtrl>> /\ c[3] = <<"tbl_off_id", RegMSIxTblOffId>>
      /\ c[4] = <<"pba_off_id", RegMSIxPBAOffId>>
  BY DEF PciMSIxCap
<1> HIDE DEF c
<1>2. \A j, k \in DOMAIN c : c[j][1] = c[k][1] => j = k
  BY <1>1
<1>3. s \in Seq(Nat) /\ Len(s) = 4 /\ s[1] = 2 /\ s[2] = 2 /\ s[3] = 4 /\ s[4] = 4
  <2>1. s = [k \in 1..4 |-> SizeOf(c[k][2])]
    BY <1>1 DEF Sizes
  <2>2. /\ SizeOf(CompatCapHdr) = 2 /\ SizeOf(RegMSIxMsgCtrl) = 2
        /\ SizeOf(RegMSIxTblOffId) = 4 /\ SizeOf(RegMSIxPBAOffId) = 4
    BY CompatCapHdrEnds, RegMSIxMsgCtrlEnds, RegMSIxTblOffIdEnds, RegMSIxPBAOffIdEnds
  <2> HIDE DEF s
  <2>3. QED
    BY <1>1, <2>1, <2>2
<1> HIDE DEF s
<1>4. e[0] = 0 /\ \A k \in 1..4 : e[k] = e[k - 1] + s[k]
  BY <1>3, EndsDefined
<1> HIDE DEF e
<1>5. e[0] = 0 /\ e[1] = 2 /\ e[2] = 4 /\ e[3] = 8
  BY <1>3, <1>4
<1>6. Position(s, 2) = 2 /\ Position(s, 3) = 4 /\ Position(s, 4) = 8
  BY <1>5 DEF Position, e
<1>7. LayoutOf(c, "msg_ctrl") = RegMSIxMsgCtrl /\ OffsetOf(c, "msg_ctrl") = 2
  <2>1. \A j \in DOMAIN c : c[j][1] = "msg_ctrl" => j = 2
    BY <1>1, <1>2
  <2>2. Position(Sizes(c), 2) = 2
    BY <1>6 DEF s
  <2>3. 2 \in DOMAIN c /\ c[2] = <<"msg_ctrl", RegMSIxMsgCtrl>>
    BY <1>1
  <2>4. QED
    BY <2>1, <2>2, <2>3, LaidOut
<1>8. LayoutOf(c, "tbl_off_id") = RegMSIxTblOffId /\ OffsetOf(c, "tbl_off_id") = 4
  <2>1. \A j \in DOMAIN c : c[j][1] = "tbl_off_id" => j = 3
    BY <1>1, <1>2
  <2>2. Position(Sizes(c), 3) = 4
    BY <1>6 DEF s
  <2>3. 3 \in DOMAIN c /\ c[3] = <<"tbl_off_id", RegMSIxTblOffId>>
    BY <1>1
  <2>4. QED
    BY <2>1, <2>2, <2>3, LaidOut
<1>9. LayoutOf(c, "pba_off_id") = RegMSIxPBAOffId /\ OffsetOf(c, "pba_off_id") = 8
  <2>1. \A j \in DOMAIN c : c[j][1] = "pba_off_id" => j = 4
    BY <1>1, <1>2
  <2>2. Position(Sizes(c), 4) = 8
    BY <1>6 DEF s
  <2>3. 4 \in DOMAIN c /\ c[4] = <<"pba_off_id", RegMSIxPBAOffId>>
    BY <1>1
  <2>4. QED
    BY <2>1, <2>2, <2>3, LaidOut
<1>10. QED
  BY <1>7, <1>8, <1>9 DEF c

LEMMA PmcapTells == TextTells(PMTexts["pmcap"], 2, 16, {})
<1> DEFINE P == {Field(0, 2, 1), Flags(3, 5, 2), Field(6, 8, 5), Flags(9, 10, 6),
                 Field(11, 15, 8)}
           R == UNION P
           e == Ends(RegPMCap)
<1>0. /\ Len(RegPMCap) = 8 /\ e[0] = 0 /\ e[1] = 3 /\ e[2] = 4 /\ e[3] = 5 /\ e[4] = 6
      /\ e[5] = 9 /\ e[6] = 10 /\ e[7] = 11 /\ e[8] = 16
  BY RegPMCapEnds
<1> HIDE DEF e
<1>1. ASSUME NEW r \in R, r[3] # None
      PROVE  ShowsField(RegPMCap, r, 16, {})
  <2>1. /\ r[3] \in 1..8 /\ r[1] = e[r[3] - 1] /\ r[2] + 1 = e[r[3]]
        /\ e[r[3] - 1] \in Nat /\ e[r[3]] \in Nat
        /\ e[r[3] - 1] < e[r[3]] /\ e[r[3]] <= 16
    BY <1>0, <1>1 DEF None, Field, Flags
  <2>2. QED
    BY <1>0, <2>1 DEF ShowsField, HasField, First, Behind, All, e
<1>2. (\A r \in R : InReg(r, 16)) /\ Apart(R)
  BY DEF InReg, Apart, None, Field, Flags
<1>3. Covers(R, 0, 15)
  <2>1. /\ Field(0, 2, 1) \in P /\ Flags(3, 5, 2) \in P /\ Field(6, 8, 5) \in P
        /\ Flags(9, 10, 6) \in P /\ Field(11, 15, 8) \in P
    OBVIOUS
  <2> HIDE DEF P
  <2>2. /\ Covers(R, 0, 2) /\ Covers(R, 3, 5) /\ Covers(R, 6, 8) /\ Covers(R, 9, 10)
        /\ Covers(R, 11, 15)
    BY <2>1, PartsCover
  <2> HIDE DEF R
  <2>3. QED
    BY <2>2 DEF Covers
<1>4. Tells(Content(RegPMCap, P), 16, {})
  BY <1>1, <1>2, <1>3, RegPMCapEnds DEF Tells, Fits, Content
<1> HIDE DEF P
<1>5. /\ LayoutOf(PciPMCap, "pmcap") = RegPMCap /\ OffsetOf(PciPMCap, "pmcap") = 2
      /\ 8 * SizeOf(RegPMCap) = 16
  BY PciPMCapLaid, RegPMCapEnds
<1>6. TextTells(Member(PciPMCap, 2, "pmcap", P), 2, 16, {})
  BY <1>4, <1>5, MemberTells
<1>7. QED
  BY <1>6 DEF P, PMTexts

LEMMA PmcsTells == TextTells(PMTexts["pmcs"], 4, 32, {})
<1> DEFINE P == {Field(0, 1, 1), Rsvd(2, 2), Flag(3, 3), Rsvd(4, 7), Flag(8, 5),
                 Field(9, 12, 6), Field(13, 14, 7), Flag(15, 8), Rsvd(16, 23),
                 Field(24, 31, 12)}
           R == UNION P
           e == Ends(RegPMCtlStatus)
<1>0. /\ Len(RegPMCtlStatus) = 12 /\ e[0] = 0 /\ e[1] = 2 /\ e[2] = 3 /\ e[3] = 4 /\ e[4] = 8
      /\ e[5] = 9 /\ e[6] = 13 /\ e[7] = 15 /\ e[8] = 16 /\ e[9] = 22 /\ e[10] = 23
      /\ e[11] = 24 /\ e[12] = 32
  BY RegPMCtlStatusEnds
<1> HIDE DEF e
<1>1. ASSUME NEW r \in R, r[3] # None
      PROVE  ShowsField(RegPMCtlStatus, r, 32, {})
  <2>1. /\ r[3] \in 1..12 /\ r[1] = e[r[3] - 1] /\ r[2] + 1 = e[r[3]]
        /\ e[r[3] - 1] \in Nat /\ e[r[3]] \in Nat
        /\ e[r[3] - 1] < e[r[3]] /\ e[r[3]] <= 32
    BY <1>0, <1>1 DEF None, Field, Flag, Rsvd
  <2>2. QED
    BY <1>0, <2>1 DEF ShowsField, HasField, First, Behind, All, e
<1>2. (\A r \in R : InReg(r, 32)) /\ Apart(R)
  BY DEF InReg, Apart, None, Field, Flag, Rsvd
<1>3. Covers(R, 0, 31)
  <2>1. /\ Field(0, 1, 1) \in P /\ Rsvd(2, 2) \in P /\ Flag(3, 3) \in P /\ Rsvd(4, 7) \in P
        /\ Flag(8, 5) \in P /\ Field(9, 12, 6) \in P /\ Field(13, 14, 7) \in P
        /\ Flag(15, 8) \in P /\ Rsvd(16, 23) \in P /\ Field(24, 31, 12) \in P
    OBVIOUS
  <2> HIDE DEF P
  <2>2. /\ Covers(R, 0, 1) /\ Covers(R, 2, 2) /\ Covers(R, 3, 3) /\ Covers(R, 4, 7)
        /\ Covers(R, 8, 8) /\ Covers(R, 9, 12) /\ Covers(R, 13, 14) /\ Covers(R, 15, 15)
        /\ Covers(R, 16, 23) /\ Covers(R, 24, 31)
    BY <2>1, PartsCover
  <2> HIDE DEF R
  <2>3. QED
    BY <2>2 DEF Covers
<1>4. Tells(Content(RegPMCtlStatus, P), 32, {})
  BY <1>1, <1>2, <1>3, RegPMCtlStatusEnds DEF Tells, Fits, Content
<1> HIDE DEF P
<1>5. /\ LayoutOf(PciPMCap, "pmcs") = RegPMCtlStatus /\ OffsetOf(PciPMCap, "pmcs") = 4
      /\ 8 * SizeOf(RegPMCtlStatus) = 32
  BY PciPMCapLaid, RegPMCtlStatusEnds
<1>6. TextTells(Member(PciPMCap, 4, "pmcs", P), 4, 32, {})
  BY <1>4, <1>5, MemberTells
<1>7. QED
  BY <1>6 DEF P, PMTexts

LEMMA PMTextsSound ==
  Sound(PMTexts, {"pmcap", "pmcs"})
<1> DEFINE regs == {"pmcap", "pmcs"}
           off == [pmcap |-> 2, pmcs |-> 4]
           size == [pmcap |-> 2, pmcs |-> 4]
           t == PMTexts
<1>1. /\ TextTells(t["pmcap"], 2, 16, {})
      /\ TextTells(t["pmcs"], 4, 32, {})
  BY PmcapTells, PmcsTells DEF PMTexts
<1> HIDE DEF t
<1>2. \A r \in regs : Wrong(r) = {}
  BY Mislabelling DEF Wrong, MislabelledRows
<1>3. \A r \in regs : TextTells(t[r], off[r], 8 * size[r], Wrong(r))
  BY <1>1, <1>2
<1>4. \A r, q \in regs : r # q => off[r] + size[r] <= off[q] \/ off[q] + size[q] <= off[r]
  OBVIOUS
<1>5. off \in [regs -> Nat] /\ size \in [regs -> Nat \ {0}]
  OBVIOUS
<1>6. \A r \in regs : r \notin {"bist", "bridge_ctl", "lane_eq_ctl"}
  OBVIOUS
<1> HIDE DEF off, size
<1>7. Sound(t, regs)
  BY <1>3, <1>4, <1>5, <1>6, TableSound
<1>8. QED
  BY <1>7 DEF t

LEMMA MsgCtrlTells == TextTells(MSIxTexts["msg_ctrl"], 2, 16, {})
<1> DEFINE P == {Field(0, 10, 1), Rsvd(11, 13), Flags(14, 15, 3)}
           R == UNION P
           e == Ends(RegMSIxMsgCtrl)
<1>0. Len(RegMSIxMsgCtrl) = 4 /\ e[0] = 0 /\ e[1] = 11 /\ e[2] = 14 /\ e[3] = 15 /\ e[4] = 16
  BY RegMSIxMsgCtrlEnds
<1> HIDE DEF e
<1>1. ASSUME NEW r \in R, r[3] # None
      PROVE  ShowsField(RegMSIxMsgCtrl, r, 16, {})
  <2>1. /\ r[3] \in 1..4 /\ r[1] = e[r[3] - 1] /\ r[2] + 1 = e[r[3]]
        /\ e[r[3] - 1] \in Nat /\ e[r[3]] \in Nat
        /\ e[r[3] - 1] < e[r[3]] /\ e[r[3]] <= 16
    BY <1>0, <1>1 DEF None, Field, Flags, Rsvd
  <2>2. QED
    BY <1>0, <2>1 DEF ShowsField, HasField, First, Behind, All, e
<1>2. (\A r \in R : InReg(r, 16)) /\ Apart(R)
  BY DEF InReg, Apart, None, Field, Flags, Rsvd
<1>3. Covers(R, 0, 15)
  <2>1. Field(0, 10, 1) \in P /\ Rsvd(11, 13) \in P /\ Flags(14, 15, 3) \in P
    OBVIOUS
  <2> HIDE DEF P
  <2>2. Covers(R, 0, 10) /\ Covers(R, 11, 13) /\ Covers(R, 14, 15)
    BY <2>1, PartsCover
  <2> HIDE DEF R
  <2>3. QED
    BY <2>2 DEF Covers
<1>4. Tells(Content(RegMSIxMsgCtrl, P), 16, {})
  BY <1>1, <1>2, <1>3, RegMSIxMsgCtrlEnds DEF Tells, Fits, Content
<1> HIDE DEF P
<1>5. /\ LayoutOf(PciMSIxCap, "msg_ctrl") = RegMSIxMsgCtrl
      /\ OffsetOf(PciMSIxCap, "msg_ctrl") = 2
      /\ 8 * SizeOf(RegMSIxMsgCtrl) = 16
  BY PciMSIxCapLaid, RegMSIxMsgCtrlEnds
<1>6. TextTells(Member(PciMSIxCap, 2, "msg_ctrl", P), 2, 16, {})
  BY <1>4, <1>5, MemberTells
<1>7. QED
  BY <1>6 DEF P, MSIxTexts

LEMMA TblOffTells == TextTells(MSIxTexts["tbl_off"], 4, 32, {})
<1> DEFINE P == {Field(0, 2, 1), Field(3, 31, 2)}
           R == UNION P
           e == Ends(RegMSIxTblOffId)
<1>0. Len(RegMSIxTblOffId) = 2 /\ e[0] = 0 /\ e[1] = 3 /\ e[2] = 32
  BY RegMSIxTblOffIdEnds
<1> HIDE DEF e
<1>1. ASSUME NEW r \in R, r[3] # None
      PROVE  ShowsField(RegMSIxTblOffId, r, 32, {})
  <2>1. /\ r[3] \in 1..2 /\ r[1] = e[r[3] - 1] /\ r[2] + 1 = e[r[3]]
        /\ e[r[3] - 1] \in Nat /\ e[r[3]] \in Nat
        /\ e[r[3] - 1] < e[r[3]] /\ e[r[3]] <= 32
    BY <1>0, <1>1 DEF None, Field
  <2>2. QED
    BY <1>0, <2>1 DEF ShowsField, HasField, First, Behind, All, e
<1>2. (\A r \in R : InReg(r, 32)) /\ Apart(R)
  BY DEF InReg, Apart, None, Field
<1>3. Covers(R, 0, 31)
  <2>1. Field(0, 2, 1) \in P /\ Field(3, 31, 2) \in P
    OBVIOUS
  <2> HIDE DEF P
  <2>2. Covers(R, 0, 2) /\ Covers(R, 3, 31)
    BY <2>1, PartsCover
  <2> HIDE DEF R
  <2>3. QED
    BY <2>2 DEF Covers
<1>4. Tells(Content(RegMSIxTblOffId, P), 32, {})
  BY <1>1, <1>2, <1>3, RegMSIxTblOffIdEnds DEF Tells, Fits, Content
<1> HIDE DEF P
<1>5. /\ LayoutOf(PciMSIxCap, "tbl_off_id") = RegMSIxTblOffId
      /\ OffsetOf(PciMSIxCap, "tbl_off_id") = 4
      /\ 8 * SizeOf(RegMSIxTblOffId) = 32
  BY PciMSIxCapLaid, RegMSIxTblOffIdEnds
<1>6. TextTells(Member(PciMSIxCap, 4, "tbl_off_id", P), 4, 32, {})
  BY <1>4, <1>5, MemberTells
<1>7. QED
  BY <1>6 DEF P, MSIxTexts

LEMMA PbaOffTells == TextTells(MSIxTexts["pba_off"], 8, 32, {})
<1> DEFINE P == {Field(0, 2, 1), Field(3, 31, 2)}
           R == UNION P
           e == Ends(RegMSIxPBAOffId)
<1>0. Len(RegMSIxPBAOffId) = 2 /\ e[0] = 0 /\ e[1] = 3 /\ e[2] = 32
  BY RegMSIxPBAOffIdEnds
<1> HIDE DEF e
<1>1. ASSUME NEW r \in R, r[3] # None
      PROVE  ShowsField(RegMSIxPBAOffId, r, 32, {})
  <2>1. /\ r[3] \in 1..2 /\ r[1] = e[r[3] - 1] /\ r[2] + 1 = e[r[3]]
        /\ e[r[3] - 1] \in Nat /\ e[r[3]] \in Nat
        /\ e[r[3] - 1] < e[r[3]] /\ e[r[3]] <= 32
    BY <1>0, <1>1 DEF None, Field
  <2>2. QED
    BY <1>0, <2>1 DEF ShowsField, HasField, First, Behind, All, e
<1>2. (\A r \in R : InReg(r, 32)) /\ Apart(R)
  BY DEF InReg, Apart, None, Field
<1>3. Covers(R, 0, 31)
  <2>1. Field(0, 2, 1) \in P /\ Field(3, 31, 2) \in P
    OBVIOUS
  <2> HIDE DEF P
  <2>2. Covers(R, 0, 2) /\ Covers(R, 3, 31)
    BY <2>1, PartsCover
  <2> HIDE DEF R
  <2>3. QED
    BY <2>2 DEF Covers
<1>4. Tells(Content(RegMSIxPBAOffId, P), 32, {})
  BY <1>1, <1>2, <1>3, RegMSIxPBAOffIdEnds DEF Tells, Fits, Content
<1> HIDE DEF P
<1>5. /\ LayoutOf(PciMSIxCap, "pba_off_id") = RegMSIxPBAOffId
      /\ OffsetOf(PciMSIxCap, "pba_off_id") = 8
      /\ 8 * SizeOf(RegMSIxPBAOffId) = 32
  BY PciMSIxCapLaid, RegMSIxPBAOffIdEnds
<1>6. TextTells(Member(PciMSIxCap, 8, "pba_off_id", P), 8, 32, {})
  BY <1>4, <1>5, MemberTells
<1>7. QED
  BY <1>6 DEF P, MSIxTexts

LEMMA MSIxTextsSound ==
  Sound(MSIxTexts, {"msg_ctrl", "tbl_off", "pba_off"})
<1> DEFINE regs == {"msg_ctrl", "tbl_off", "pba_off"}
           off == [msg_ctrl |-> 2, tbl_off |-> 4, pba_off |-> 8]
           size == [msg_ctrl |-> 2, tbl_off |-> 4, pba_off |-> 4]
           t == MSIxTexts
<1>1. /\ TextTells(t["msg_ctrl"], 2, 16, {})
      /\ TextTells(t["tbl_off"], 4, 32, {})
      /\ TextTells(t["pba_off"], 8, 32, {})
  BY MsgCtrlTells, TblOffTells, PbaOffTells DEF MSIxTexts
<1> HIDE DEF t
<1>2. \A r \in regs : Wrong(r) = {}
  BY Mislabelling DEF Wrong, MislabelledRows
<1>3. \A r \in regs : TextTells(t[r], off[r], 8 * size[r], Wrong(r))
  BY <1>1, <1>2
<1>4. \A r, q \in regs : r # q => off[r] + size[r] <= off[q] \/ off[q] + size[q] <= off[r]
  OBVIOUS
<1>5. off \in [regs -> Nat] /\ size \in [regs -> Nat \ {0}]
  OBVIOUS
<1>6. \A r \in regs : r \notin {"bist", "bridge_ctl", "lane_eq_ctl"}
  OBVIOUS
<1> HIDE DEF off, size
<1>7. Sound(t, regs)
  BY <1>3, <1>4, <1>5, <1>6, TableSound
<1>8. QED
  BY <1>7 DEF t

LEMMA RegPciECapEnds ==
  /\ RegPciECap \in Seq(Nat) /\ Len(RegPciECap) = 5 /\ Bits(RegPciECap) = 16
  /\ SizeOf(RegPciECap) = 2 /\ Ends(RegPciECap)[0] = 0 /\ Ends(RegPciECap)[1] = 4
  /\ Ends(RegPciECap)[2] = 8 /\ Ends(RegPciECap)[3] = 9 /\ Ends(RegPciECap)[4] = 14
  /\ Ends(RegPciECap)[5] = 16
<1>1. RegPciECap \in Seq(Nat) /\ Len(RegPciECap) = 5
  BY DEF RegPciECap
<1> DEFINE e == Ends(RegPciECap)
<1>2. e[0] = 0 /\ \A n \in 1..5 : e[n] = e[n - 1] + RegPciECap[n]
  BY <1>1, EndsDefined
<1> HIDE DEF e
<1>3. e[0] = 0 /\ e[1] = 4 /\ e[2] = 8 /\ e[3] = 9 /\ e[4] = 14 /\ e[5] = 16
  BY <1>2 DEF RegPciECap
<1>4. QED
  BY <1>1, <1>3 DEF e, Bits, SizeOf

LEMMA RegDevCapEnds ==
  /\ RegDevCap \in Seq(Nat) /\ Len(RegDevCap) = 11 /\ Bits(RegDevCap) = 30
  /\ SizeOf(RegDevCap) = 4 /\ Ends(RegDevCap)[0] = 0 /\ Ends(RegDevCap)[1] = 3
  /\ Ends(RegDevCap)[2] = 5 /\ Ends(RegDevCap)[3] = 6 /\ Ends(RegDevCap)[4] = 9
  /\ Ends(RegDevCap)[5] = 12 /\ Ends(RegDevCap)[6] = 15 /\ Ends(RegDevCap)[7] = 16
  /\ Ends(RegDevCap)[8] = 24 /\ Ends(RegDevCap)[9] = 26 /\ Ends(RegDevCap)[10] = 27
  /\ Ends(RegDevCap)[11] = 30
<1>1. RegDevCap \in Seq(Nat) /\ Len(RegDevCap) = 11
  BY DEF RegDevCap
<1> DEFINE e == Ends(RegDevCap)
<1>2. e[0] = 0 /\ \A n \in 1..11 : e[n] = e[n - 1] + RegDevCap[n]
  BY <1>1, EndsDefined
<1> HIDE DEF e
<1>3. /\ e[0] = 0 /\ e[1] = 3 /\ e[2] = 5 /\ e[3] = 6 /\ e[4] = 9 /\ e[5] = 12 /\ e[6] = 15
      /\ e[7] = 16 /\ e[8] = 24 /\ e[9] = 26 /\ e[10] = 27 /\ e[11] = 30
  BY <1>2 DEF RegDevCap
<1>4. QED
  BY <1>1, <1>3 DEF e, Bits, SizeOf

LEMMA RegDevCtlEnds ==
  /\ RegDevCtl \in Seq(Nat) /\ Len(RegDevCtl) = 12 /\ Bits(RegDevCtl) = 16
  /\ SizeOf(RegDevCtl) = 2 /\ Ends(RegDevCtl)[0] = 0 /\ Ends(RegDevCtl)[1] = 1
  /\ Ends(RegDevCtl)[2] = 2 /\ Ends(RegDevCtl)[3] = 3 /\ Ends(RegDevCtl)[4] = 4
  /\ Ends(RegDevCtl)[5] = 5 /\ Ends(RegDevCtl)[6] = 8 /\ Ends(RegDevCtl)[7] = 9
  /\ Ends(RegDevCtl)[8] = 10 /\ Ends(RegDevCtl)[9] = 11 /\ Ends(RegDevCtl)[10] = 12
  /\ Ends(RegDevCtl)[11] = 15 /\ Ends(RegDevCtl)[12] = 16
<1>1. RegDevCtl \in Seq(Nat) /\ Len(RegDevCtl) = 12
  BY DEF RegDevCtl
<1> DEFINE e == Ends(RegDevCtl)
<1>2. e[0] = 0 /\ \A n \in 1..12 : e[n] = e[n - 1] + RegDevCtl[n]
  BY <1>1, EndsDefined
<1> HIDE DEF e
<1>3. /\ e[0] = 0 /\ e[1] = 1 /\ e[2] = 2 /\ e[3] = 3 /\ e[4] = 4 /\ e[5] = 5 /\ e[6] = 8
      /\ e[7] = 9 /\ e[8] = 10 /\ e[9] = 11 /\ e[10] = 12 /\ e[11] = 15 /\ e[12] = 16
  BY <1>2 DEF RegDevCtl
<1>4. QED
  BY <1>1, <1>3 DEF e, Bits, SizeOf

LEMMA RegDevStatusEnds ==
  /\ RegDevStatus \in Seq(Nat) /\ Len(RegDevStatus) = 8 /\ Bits(RegDevStatus) = 16
  /\ SizeOf(RegDevStatus) = 2 /\ Ends(RegDevStatus)[0] = 0 /\ Ends(RegDevStatus)[1] = 1
  /\ Ends(RegDevStatus)[2] = 2 /\ Ends(RegDevStatus)[3] = 3 /\ Ends(RegDevStatus)[4] = 4
  /\ Ends(RegDevStatus)[5] = 5 /\ Ends(RegDevStatus)[6] = 6 /\ Ends(RegDevStatus)[7] = 7
  /\ Ends(RegDevStatus)[8] = 16
<1>1. RegDevStatus \in Seq(Nat) /\ Len(RegDevStatus) = 8
  BY DEF RegDevStatus
<1> DEFINE e == Ends(RegDevStatus)
<1>2. e[0] = 0 /\ \A n \in 1..8 : e[n] = e[n - 1] + RegDevStatus[n]
  BY <1>1, EndsDefined
<1> HIDE DEF e
<1>3. /\ e[0] = 0 /\ e[1] = 1 /\ e[2] = 2 /\ e[3] = 3 /\ e[4] = 4 /\ e[5] = 5 /\ e[6] = 6
      /\ e[7] = 7 /\ e[8] = 16
  BY <1>2 DEF RegDevStatus
<1>4. QED
  BY <1>1, <1>3 DEF e, Bits, SizeOf

LEMMA RegLinkCapEnds ==
  /\ RegLinkCap \in Seq(Nat) /\ Len(RegLinkCap) = 12 /\ Bits(RegLinkCap) = 32
  /\ SizeOf(RegLinkCap) = 4 /\ Ends(RegLinkCap)[0] = 0 /\ Ends(RegLinkCap)[1] = 4
  /\ Ends(RegLinkCap)[2] = 10 /\ Ends(RegLinkCap)[3] = 12 /\ Ends(RegLinkCap)[4] = 15
  /\ Ends(RegLinkCap)[5] = 18 /\ Ends(RegLinkCap)[6] = 19 /\ Ends(RegLinkCap)[7] = 20
  /\ Ends(RegLinkCap)[8] = 21 /\ Ends(RegLinkCap)[9] = 22 /\ Ends(RegLinkCap)[10] = 23
  /\ Ends(RegLinkCap)[11] = 24 /\ Ends(RegLinkCap)[12] = 32
<1>1. RegLinkCap \in Seq(Nat) /\ Len(RegLinkCap) = 12
  BY DEF RegLinkCap
<1> DEFINE e == Ends(RegLinkCap)
<1>2. e[0] = 0 /\ \A n \in 1..12 : e[n] = e[n - 1] + RegLinkCap[n]
  BY <1>1, EndsDefined
<1> HIDE DEF e
<1>3. /\ e[0] = 0 /\ e[1] = 4 /\ e[2] = 10 /\ e[3] = 12 /\ e[4] = 15 /\ e[5] = 18 /\ e[6] = 19
      /\ e[7] = 20 /\ e[8] = 21 /\ e[9] = 22 /\ e[10] = 23 /\ e[11] = 24 /\ e[12] = 32
  BY <1>2 DEF RegLinkCap
<1>4. QED
  BY <1>1, <1>3 DEF e, Bits, SizeOf

LEMMA RegLinkCtlEnds ==
  /\ RegLinkCtl \in Seq(Nat) /\ Len(RegLinkCtl) = 13 /\ Bits(RegLinkCtl) = 16
  /\ SizeOf(RegLinkCtl) = 2 /\ Ends(RegLinkCtl)[0] = 0 /\ Ends(RegLinkCtl)[1] = 2
  /\ Ends(RegLinkCtl)[2] = 3 /\ Ends(RegLinkCtl)[3] = 4 /\ Ends(RegLinkCtl)[4] = 5
  /\ Ends(RegLinkCtl)[5] = 6 /\ Ends(RegLinkCtl)[6] = 7 /\ Ends(RegLinkCtl)[7] = 8
  /\ Ends(RegLinkCtl)[8] = 9 /\ Ends(RegLinkCtl)[9] = 10 /\ Ends(RegLinkCtl)[10] = 11
  /\ Ends(RegLinkCtl)[11] = 12 /\ Ends(RegLinkCtl)[12] = 15 /\ Ends(RegLinkCtl)[13] = 16
<1>1. RegLinkCtl \in Seq(Nat) /\ Len(RegLinkCtl) = 13
  BY DEF RegLinkCtl
<1> DEFINE e == Ends(RegLinkCtl)
<1>2. e[0] = 0 /\ \A n \in 1..13 : e[n] = e[n - 1] + RegLinkCtl[n]
  BY <1>1, EndsDefined
<1> HIDE DEF e
<1>3. /\ e[0] = 0 /\ e[1] = 2 /\ e[2] = 3 /\ e[3] = 4 /\ e[4] = 5 /\ e[5] = 6 /\ e[6] = 7
      /\ e[7] = 8 /\ e[8] = 9 /\ e[9] = 10 /\ e[10] = 11 /\ e[11] = 12 /\ e[12] = 15
      /\ e[13] = 16
  BY <1>2 DEF RegLinkCtl
<1>4. QED
  BY <1>1, <1>3 DEF e, Bits, SizeOf

LEMMA RegLinkStatusEnds ==
  /\ RegLinkStatus \in Seq(Nat) /\ Len(RegLinkStatus) = 8 /\ Bits(RegLinkStatus) = 16
  /\ SizeOf(RegLinkStatus) = 2 /\ Ends(RegLinkStatus)[0] = 0 /\ Ends(RegLinkStatus)[1] = 4
  /\ Ends(RegLinkStatus)[2] = 10 /\ Ends(RegLinkStatus)[3] = 11 /\ Ends(RegLinkStatus)[4] = 12
  /\ Ends(RegLinkStatus)[5] = 13 /\ Ends(RegLinkStatus)[6] = 14 /\ Ends(RegLinkStatus)[7] = 15
  /\ Ends(RegLinkStatus)[8] = 16
<1>1. RegLinkStatus \in Seq(Nat) /\ Len(RegLinkStatus) = 8
  BY DEF RegLinkStatus
<1> DEFINE e == Ends(RegLinkStatus)
<1>2. e[0] = 0 /\ \A n \in 1..8 : e[n] = e[n - 1] + RegLinkStatus[n]
  BY <1>1, EndsDefined
<1> HIDE DEF e
<1>3. /\ e[0] = 0 /\ e[1] = 4 /\ e[2] = 10 /\ e[3] = 11 /\ e[4] = 12 /\ e[5] = 13 /\ e[6] = 14
      /\ e[7] = 15 /\ e[8] = 16
  BY <1>2 DEF RegLinkStatus
<1>4. QED
  BY <1>1, <1>3 DEF e, Bits, SizeOf

LEMMA RegSlotCapEnds ==
  /\ RegSlotCap \in Seq(Nat) /\ Len(RegSlotCap) = 12 /\ Bits(RegSlotCap) = 32
  /\ SizeOf(RegSlotCap) = 4 /\ Ends(RegSlotCap)[0] = 0 /\ Ends(RegSlotCap)[1] = 1
  /\ Ends(RegSlotCap)[2] = 2 /\ Ends(RegSlotCap)[3] = 3 /\ Ends(RegSlotCap)[4] = 4
  /\ Ends(RegSlotCap)[5] = 5 /\ Ends(RegSlotCap)[6] = 6 /\ Ends(RegSlotCap)[7] = 7
  /\ Ends(RegSlotCap)[8] = 15 /\ Ends(RegSlotCap)[9] = 17 /\ Ends(RegSlotCap)[10] = 18
  /\ Ends(RegSlotCap)[11] = 19 /\ Ends(RegSlotCap)[12] = 32
<1>1. RegSlotCap \in Seq(Nat) /\ Len(RegSlotCap) = 12
  BY DEF RegSlotCap
<1> DEFINE e == Ends(RegSlotCap)
<1>2. e[0] = 0 /\ \A n \in 1..12 : e[n] = e[n - 1] + RegSlotCap[n]
  BY <1>1, EndsDefined
<1> HIDE DEF e
<1>3. /\ e[0] = 0 /\ e[1] = 1 /\ e[2] = 2 /\ e[3] = 3 /\ e[4] = 4 /\ e[5] = 5 /\ e[6] = 6
      /\ e[7] = 7 /\ e[8] = 15 /\ e[9] = 17 /\ e[10] = 18 /\ e[11] = 19 /\ e[12] = 32
  BY <1>2 DEF RegSlotCap
<1>4. QED
  BY <1>1, <1>3 DEF e, Bits, SizeOf

LEMMA RegSlotCtlEnds ==
  /\ RegSlotCtl \in Seq(Nat) /\ Len(RegSlotCtl) = 13 /\ Bits(RegSlotCtl) = 16
  /\ SizeOf(RegSlotCtl) = 2 /\ Ends(RegSlotCtl)[0] = 0 /\ Ends(RegSlotCtl)[1] = 1
  /\ Ends(RegSlotCtl)[2] = 2 /\ Ends(RegSlotCtl)[3] = 3 /\ Ends(RegSlotCtl)[4] = 4
  /\ Ends(RegSlotCtl)[5] = 5 /\ Ends(RegSlotCtl)[6] = 6 /\ Ends(RegSlotCtl)[7] = 8
  /\ Ends(RegSlotCtl)[8] = 10 /\ Ends(RegSlotCtl)[9] = 11 /\ Ends(RegSlotCtl)[10] = 12
  /\ Ends(RegSlotCtl)[11] = 13 /\ Ends(RegSlotCtl)[12] = 14 /\ Ends(RegSlotCtl)[13] = 16
<1>1. RegSlotCtl \in Seq(Nat) /\ Len(RegSlotCtl) = 13
  BY DEF RegSlotCtl
<1> DEFINE e == Ends(RegSlotCtl)
<1>2. e[0] = 0 /\ \A n \in 1..13 : e[n] = e[n - 1] + RegSlotCtl[n]
  BY <1>1, EndsDefined
<1> HIDE DEF e
<1>3. /\ e[0] = 0 /\ e[1] = 1 /\ e[2] = 2 /\ e[3] = 3 /\ e[4] = 4 /\ e[5] = 5 /\ e[6] = 6
      /\ e[7] = 8 /\ e[8] = 10 /\ e[9] = 11 /\ e[10] = 12 /\ e[11] = 13 /\ e[12] = 14
      /\ e[13] = 16
  BY <1>2 DEF RegSlotCtl
<1>4. QED
  BY <1>1, <1>3 DEF e, Bits, SizeOf

LEMMA RegSlotStatusEnds ==
  /\ RegSlotStatus \in Seq(Nat) /\ Len(RegSlotStatus) = 10 /\ Bits(RegSlotStatus) = 16
  /\ SizeOf(RegSlotStatus) = 2 /\ Ends(RegSlotStatus)[0] = 0 /\ Ends(RegSlotStatus)[1] = 1
  /\ Ends(RegSlotStatus)[2] = 2 /\ Ends(RegSlotStatus)[3] = 3 /\ Ends(RegSlotStatus)[4] = 4
  /\ Ends(RegSlotStatus)[5] = 5 /\ Ends(RegSlotStatus)[6] = 6 /\ Ends(RegSlotStatus)[7] = 7
  /\ Ends(RegSlotStatus)[8] = 8 /\ Ends(RegSlotStatus)[9] = 9 /\ Ends(RegSlotStatus)[10] = 16
<1>1. RegSlotStatus \in Seq(Nat) /\ Len(RegSlotStatus) = 10
  BY DEF RegSlotStatus
<1> DEFINE e == Ends(RegSlotStatus)
<1>2. e[0] = 0 /\ \A n \in 1..10 : e[n] = e[n - 1] + RegSlotStatus[n]
  BY <1>1, EndsDefined
<1> HIDE DEF e
<1>3. /\ e[0] = 0 /\ e[1] = 1 /\ e[2] = 2 /\ e[3] = 3 /\ e[4] = 4 /\ e[5] = 5 /\ e[6] = 6
      /\ e[7] = 7 /\ e[8] = 8 /\ e[9] = 9 /\ e[10] = 16
  BY <1>2 DEF RegSlotStatus
<1>4. QED
  BY <1>1, <1>3 DEF e, Bits, SizeOf

LEMMA RegRootCtlEnds ==
  /\ RegRootCtl \in Seq(Nat) /\ Len(RegRootCtl) = 6 /\ Bits(RegRootCtl) = 16
  /\ SizeOf(RegRootCtl) = 2 /\ Ends(RegRootCtl)[0] = 0 /\ Ends(RegRootCtl)[1] = 1
  /\ Ends(RegRootCtl)[2] = 2 /\ Ends(RegRootCtl)[3] = 3 /\ Ends(RegRootCtl)[4] = 4
  /\ Ends(RegRootCtl)[5] = 5 /\ Ends(RegRootCtl)[6] = 16
<1>1. RegRootCtl \in Seq(Nat) /\ Len(RegRootCtl) = 6
  BY DEF RegRootCtl
<1> DEFINE e == Ends(RegRootCtl)
<1>2. e[0] = 0 /\ \A n \in 1..6 : e[n] = e[n - 1] + RegRootCtl[n]
  BY <1>1, EndsDefined
<1> HIDE DEF e
<1>3. e[0] = 0 /\ e[1] = 1 /\ e[2] = 2 /\ e[3] = 3 /\ e[4] = 4 /\ e[5] = 5 /\ e[6] = 16
  BY <1>2 DEF RegRootCtl
<1>4. QED
  BY <1>1, <1>3 DEF e, Bits, SizeOf

LEMMA RegRootCapEnds ==
  /\ RegRootCap \in Seq(Nat) /\ Len(RegRootCap) = 2 /\ Bits(RegRootCap) = 16
  /\ SizeOf(RegRootCap) = 2 /\ Ends(RegRootCap)[0] = 0 /\ Ends(RegRootCap)[1] = 1
  /\ Ends(RegRootCap)[2] = 16
<1>1. RegRootCap \in Seq(Nat) /\ Len(RegRootCap) = 2
  BY DEF RegRootCap
<1> DEFINE e == Ends(RegRootCap)
<1>2. e[0] = 0 /\ \A n \in 1..2 : e[n] = e[n - 1] + RegRootCap[n]
  BY <1>1, EndsDefined
<1> HIDE DEF e
<1>3. e[0] = 0 /\ e[1] = 1 /\ e[2] = 16
  BY <1>2 DEF RegRootCap
<1>4. QED
  BY <1>1, <1>3 DEF e, Bits, SizeOf

LEMMA RegRootStatusEnds ==
  /\ RegRootStatus \in Seq(Nat) /\ Len(RegRootStatus) = 4 /\ Bits(RegRootStatus) = 32
  /\ SizeOf(RegRootStatus) = 4 /\ Ends(RegRootStatus)[0] = 0 /\ Ends(RegRootStatus)[1] = 16
  /\ Ends(RegRootStatus)[2] = 17 /\ Ends(RegRootStatus)[3] = 18 /\ Ends(RegRootStatus)[4] = 32
<1>1. RegRootStatus \in Seq(Nat) /\ Len(RegRootStatus) = 4
  BY DEF RegRootStatus
<1> DEFINE e == Ends(RegRootStatus)
<1>2. e[0] = 0 /\ \A n \in 1..4 : e[n] = e[n - 1] + RegRootStatus[n]
  BY <1>1, EndsDefined
<1> HIDE DEF e
<1>3. e[0] = 0 /\ e[1] = 16 /\ e[2] = 17 /\ e[3] = 18 /\ e[4] = 32
  BY <1>2 DEF RegRootStatus
<1>4. QED
  BY <1>1, <1>3 DEF e, Bits, SizeOf

LEMMA RegDevCap2Ends ==
  /\ RegDevCap2 \in Seq(Nat) /\ Len(RegDevCap2) = 21 /\ Bits(RegDevCap2) = 32
  /\ SizeOf(RegDevCap2) = 4 /\ Ends(RegDevCap2)[0] = 0 /\ Ends(RegDevCap2)[1] = 4
  /\ Ends(RegDevCap2)[2] = 5 /\ Ends(RegDevCap2)[3] = 6 /\ Ends(RegDevCap2)[4] = 7
  /\ Ends(RegDevCap2)[5] = 8 /\ Ends(RegDevCap2)[6] = 9 /\ Ends(RegDevCap2)[7] = 10
  /\ Ends(RegDevCap2)[8] = 11 /\ Ends(RegDevCap2)[9] = 12 /\ Ends(RegDevCap2)[10] = 14
  /\ Ends(RegDevCap2)[11] = 16 /\ Ends(RegDevCap2)[12] = 17 /\ Ends(RegDevCap2)[13] = 18
  /\ Ends(RegDevCap2)[14] = 20 /\ Ends(RegDevCap2)[15] = 21 /\ Ends(RegDevCap2)[16] = 22
  /\ Ends(RegDevCap2)[17] = 24 /\ Ends(RegDevCap2)[18] = 26 /\ Ends(RegDevCap2)[19] = 27
  /\ Ends(RegDevCap2)[20] = 31 /\ Ends(RegDevCap2)[21] = 32
<1>1. RegDevCap2 \in Seq(Nat) /\ Len(RegDevCap2) = 21
  BY DEF RegDevCap2
<1> DEFINE e == Ends(RegDevCap2)
<1>2. e[0] = 0 /\ \A n \in 1..21 : e[n] = e[n - 1] + RegDevCap2[n]
  BY <1>1, EndsDefined
<1> HIDE DEF e
<1>3. /\ e[0] = 0 /\ e[1] = 4 /\ e[2] = 5 /\ e[3] = 6 /\ e[4] = 7 /\ e[5] = 8 /\ e[6] = 9
      /\ e[7] = 10 /\ e[8] = 11 /\ e[9] = 12 /\ e[10] = 14 /\ e[11] = 16 /\ e[12] = 17
      /\ e[13] = 18 /\ e[14] = 20 /\ e[15] = 21 /\ e[16] = 22 /\ e[17] = 24 /\ e[18] = 26
      /\ e[19] = 27 /\ e[20] = 31 /\ e[21] = 32
  BY <1>2 DEF RegDevCap2
<1>4. QED
  BY <1>1, <1>3 DEF e, Bits, SizeOf

LEMMA RegDevCtl2Ends ==
  /\ RegDevCtl2 \in Seq(Nat) /\ Len(RegDevCtl2) = 12 /\ Bits(RegDevCtl2) = 16
  /\ SizeOf(RegDevCtl2) = 2 /\ Ends(RegDevCtl2)[0] = 0 /\ Ends(RegDevCtl2)[1] = 4
  /\ Ends(RegDevCtl2)[2] = 5 /\ Ends(RegDevCtl2)[3] = 6 /\ Ends(RegDevCtl2)[4] = 7
  /\ Ends(RegDevCtl2)[5] = 8 /\ Ends(RegDevCtl2)[6] = 9 /\ Ends(RegDevCtl2)[7] = 10
  /\ Ends(RegDevCtl2)[8] = 11 /\ Ends(RegDevCtl2)[9] = 12 /\ Ends(RegDevCtl2)[10] = 13
  /\ Ends(RegDevCtl2)[11] = 15 /\ Ends(RegDevCtl2)[12] = 16
<1>1. RegDevCtl2 \in Seq(Nat) /\ Len(RegDevCtl2) = 12
  BY DEF RegDevCtl2
<1> DEFINE e == Ends(RegDevCtl2)
<1>2. e[0] = 0 /\ \A n \in 1..12 : e[n] = e[n - 1] + RegDevCtl2[n]
  BY <1>1, EndsDefined
<1> HIDE DEF e
<1>3. /\ e[0] = 0 /\ e[1] = 4 /\ e[2] = 5 /\ e[3] = 6 /\ e[4] = 7 /\ e[5] = 8 /\ e[6] = 9
      /\ e[7] = 10 /\ e[8] = 11 /\ e[9] = 12 /\ e[10] = 13 /\ e[11] = 15 /\ e[12] = 16
  BY <1>2 DEF RegDevCtl2
<1>4. QED
  BY <1>1, <1>3 DEF e, Bits, SizeOf

LEMMA RegDevStatus2Ends ==
  /\ RegDevStatus2 \in Seq(Nat) /\ Len(RegDevStatus2) = 1 /\ Bits(RegDevStatus2) = 16
  /\ SizeOf(RegDevStatus2) = 2 /\ Ends(RegDevStatus2)[0] = 0 /\ Ends(RegDevStatus2)[1] = 16
BY SingleEnds DEF RegDevStatus2, SizeOf

LEMMA RegLinkCap2Ends ==
  /\ RegLinkCap2 \in Seq(Nat) /\ Len(RegLinkCap2) = 9 /\ Bits(RegLinkCap2) = 32
  /\ SizeOf(RegLinkCap2) = 4 /\ Ends(RegLinkCap2)[0] = 0 /\ Ends(RegLinkCap2)[1] = 1
  /\ Ends(RegLinkCap2)[2] = 8 /\ Ends(RegLinkCap2)[3] = 9 /\ Ends(RegLinkCap2)[4] = 16
  /\ Ends(RegLinkCap2)[5] = 23 /\ Ends(RegLinkCap2)[6] = 24 /\ Ends(RegLinkCap2)[7] = 25
  /\ Ends(RegLinkCap2)[8] = 31 /\ Ends(RegLinkCap2)[9] = 32
<1>1. RegLinkCap2 \in Seq(Nat) /\ Len(RegLinkCap2) = 9
  BY DEF RegLinkCap2
<1> DEFINE e == Ends(RegLinkCap2)
<1>2. e[0] = 0 /\ \A n \in 1..9 : e[n] = e[n - 1] + RegLinkCap2[n]
  BY <1>1, EndsDefined
<1> HIDE DEF e
<1>3. /\ e[0] = 0 /\ e[1] = 1 /\ e[2] = 8 /\ e[3] = 9 /\ e[4] = 16 /\ e[5] = 23 /\ e[6] = 24
      /\ e[7] = 25 /\ e[8] = 31 /\ e[9] = 32
  BY <1>2 DEF RegLinkCap2
<1>4. QED
  BY <1>1, <1>3 DEF e, Bits, SizeOf

LEMMA RegLinkCtl2Ends ==
  /\ RegLinkCtl2 \in Seq(Nat) /\ Len(RegLinkCtl2) = 8 /\ Bits(RegLinkCtl2) = 16
  /\ SizeOf(RegLinkCtl2) = 2 /\ Ends(RegLinkCtl2)[0] = 0 /\ Ends(RegLinkCtl2)[1] = 4
  /\ Ends(RegLinkCtl2)[2] = 5 /\ Ends(RegLinkCtl2)[3] = 6 /\ Ends(RegLinkCtl2)[4] = 7
  /\ Ends(RegLinkCtl2)[5] = 10 /\ Ends(RegLinkCtl2)[6] = 11 /\ Ends(RegLinkCtl2)[7] = 12
  /\ Ends(RegLinkCtl2)[8] = 16
<1>1. RegLinkCtl2 \in Seq(Nat) /\ Len(RegLinkCtl2) = 8
  BY DEF RegLinkCtl2
<1> DEFINE e == Ends(RegLinkCtl2)
<1>2. e[0] = 0 /\ \A n \in 1..8 : e[n] = e[n - 1] + RegLinkCtl2[n]
  BY <1>1, EndsDefined
<1> HIDE DEF e
<1>3. /\ e[0] = 0 /\ e[1] = 4 /\ e[2] = 5 /\ e[3] = 6 /\ e[4] = 7 /\ e[5] = 10 /\ e[6] = 11
      /\ e[7] = 12 /\ e[8] = 16
  BY <1>2 DEF RegLinkCtl2
<1>4. QED
  BY <1>1, <1>3 DEF e, Bits, SizeOf

LEMMA RegLinkStatus2Ends ==
  /\ RegLinkStatus2 \in Seq(Nat) /\ Len(RegLinkStatus2) = 12 /\ Bits(RegLinkStatus2) = 16
  /\ SizeOf(RegLinkStatus2) = 2 /\ Ends(RegLinkStatus2)[0] = 0 /\ Ends(RegLinkStatus2)[1] = 1
  /\ Ends(RegLinkStatus2)[2] = 2 /\ Ends(RegLinkStatus2)[3] = 3 /\ Ends(RegLinkStatus2)[4] = 4
  /\ Ends(RegLinkStatus2)[5] = 5 /\ Ends(RegLinkStatus2)[6] = 6 /\ Ends(RegLinkStatus2)[7] = 7
  /\ Ends(RegLinkStatus2)[8] = 8 /\ Ends(RegLinkStatus2)[9] = 10
  /\ Ends(RegLinkStatus2)[10] = 12 /\ Ends(RegLinkStatus2)[11] = 15
  /\ Ends(RegLinkStatus2)[12] = 16
<1>1. RegLinkStatus2 \in Seq(Nat) /\ Len(RegLinkStatus2) = 12
  BY DEF RegLinkStatus2
<1> DEFINE e == Ends(RegLinkStatus2)
<1>2. e[0] = 0 /\ \A n \in 1..12 : e[n] = e[n - 1] + RegLinkStatus2[n]
  BY <1>1, EndsDefined
<1> HIDE DEF e
<1>3. /\ e[0] = 0 /\ e[1] = 1 /\ e[2] = 2 /\ e[3] = 3 /\ e[4] = 4 /\ e[5] = 5 /\ e[6] = 6
      /\ e[7] = 7 /\ e[8] = 8 /\ e[9] = 10 /\ e[10] = 12 /\ e[11] = 15 /\ e[12] = 16
  BY <1>2 DEF RegLinkStatus2
<1>4. QED
  BY <1>1, <1>3 DEF e, Bits, SizeOf

LEMMA RegSlotCap2Ends ==
  /\ RegSlotCap2 \in Seq(Nat) /\ Len(RegSlotCap2) = 1 /\ Bits(RegSlotCap2) = 32
  /\ SizeOf(RegSlotCap2) = 4 /\ Ends(RegSlotCap2)[0] = 0 /\ Ends(RegSlotCap2)[1] = 32
BY SingleEnds DEF RegSlotCap2, SizeOf

LEMMA RegSlotCtl2Ends ==
  /\ RegSlotCtl2 \in Seq(Nat) /\ Len(RegSlotCtl2) = 1 /\ Bits(RegSlotCtl2) = 16
  /\ SizeOf(RegSlotCtl2) = 2 /\ Ends(RegSlotCtl2)[0] = 0 /\ Ends(RegSlotCtl2)[1] = 16
BY SingleEnds DEF RegSlotCtl2, SizeOf

LEMMA RegSlotStatus2Ends ==
  /\ RegSlotStatus2 \in Seq(Nat) /\ Len(RegSlotStatus2) = 1 /\ Bits(RegSlotStatus2) = 16
  /\ SizeOf(RegSlotStatus2) = 2 /\ Ends(RegSlotStatus2)[0] = 0 /\ Ends(RegSlotStatus2)[1] = 16
BY SingleEnds DEF RegSlotStatus2, SizeOf

LEMMA PciECapLaid ==
  /\ LayoutOf(PciECap, "pcie_cap_reg") = RegPciECap /\ OffsetOf(PciECap, "pcie_cap_reg") = 2
  /\ LayoutOf(PciECap, "dev_cap") = RegDevCap /\ OffsetOf(PciECap, "dev_cap") = 4
  /\ LayoutOf(PciECap, "dev_ctl") = RegDevCtl /\ OffsetOf(PciECap, "dev_ctl") = 8
  /\ LayoutOf(PciECap, "dev_status") = RegDevStatus /\ OffsetOf(PciECap, "dev_status") = 10
  /\ LayoutOf(PciECap, "link_cap") = RegLinkCap /\ OffsetOf(PciECap, "link_cap") = 12
  /\ LayoutOf(PciECap, "link_ctl") = RegLinkCtl /\ OffsetOf(PciECap, "link_ctl") = 16
  /\ LayoutOf(PciECap, "link_status") = RegLinkStatus /\ OffsetOf(PciECap, "link_status") = 18
  /\ LayoutOf(PciECap, "slot_cap") = RegSlotCap /\ OffsetOf(PciECap, "slot_cap") = 20
  /\ LayoutOf(PciECap, "slot_ctl") = RegSlotCtl /\ OffsetOf(PciECap, "slot_ctl") = 24
  /\ LayoutOf(PciECap, "slot_status") = RegSlotStatus /\ OffsetOf(PciECap, "slot_status") = 26
  /\ LayoutOf(PciECap, "root_cap") = RegRootCap /\ OffsetOf(PciECap, "root_cap") = 30
  /\ LayoutOf(PciECap, "root_ctl") = RegRootCtl /\ OffsetOf(PciECap, "root_ctl") = 28
  /\ LayoutOf(PciECap, "root_status") = RegRootStatus /\ OffsetOf(PciECap, "root_status") = 32
  /\ LayoutOf(PciECap, "dev_cap2") = RegDevCap2 /\ OffsetOf(PciECap, "dev_cap2") = 36
  /\ LayoutOf(PciECap, "dev_ctl2") = RegDevCtl2 /\ OffsetOf(PciECap, "dev_ctl2") = 40
  /\ LayoutOf(PciECap, "link_cap2") = RegLinkCap2 /\ OffsetOf(PciECap, "link_cap2") = 44
  /\ LayoutOf(PciECap, "link_ctl2") = RegLinkCtl2 /\ OffsetOf(PciECap, "link_ctl2") = 48
  /\ LayoutOf(PciECap, "link_status2") = RegLinkStatus2 /\ OffsetOf(PciECap, "link_status2") = 50
<1> DEFINE c == PciECap
           s == Sizes(c)
           e == Ends(s)
<1>1. /\ DOMAIN c = 1..23 /\ c[1] = <<"hdr", CompatCapHdr>>
      /\ c[2] = <<"pcie_cap_reg", RegPciECap>> /\ c[3] = <<"dev_cap", RegDevCap>>
      /\ c[4] = <<"dev_ctl", RegDevCtl>> /\ c[5] = <<"dev_status", RegDevStatus>>
      /\ c[6] = <<"link_cap", RegLinkCap>> /\ c[7] = <<"link_ctl", RegLinkCtl>>
      /\ c[8] = <<"link_status", RegLinkStatus>> /\ c[9] = <<"slot_cap", RegSlotCap>>
      /\ c[10] = <<"slot_ctl", RegSlotCtl>> /\ c[11] = <<"slot_status", RegSlotStatus>>
      /\ c[12] = <<"root_ctl", RegRootCtl>> /\ c[13] = <<"root_cap", RegRootCap>>
      /\ c[14] = <<"root_status", RegRootStatus>> /\ c[15] = <<"dev_cap2", RegDevCap2>>
      /\ c[16] = <<"dev_ctl2", RegDevCtl2>> /\ c[17] = <<"dev_status2", RegDevStatus2>>
      /\ c[18] = <<"link_cap2", RegLinkCap2>> /\ c[19] = <<"link_ctl2", RegLinkCtl2>>
      /\ c[20] = <<"link_status2", RegLinkStatus2>> /\ c[21] = <<"slot_cap2", RegSlotCap2>>
      /\ c[22] = <<"slot_ctl2", RegSlotCtl2>> /\ c[23] = <<"slot_status2", RegSlotStatus2>>
  BY DEF PciECap
<1> HIDE DEF c
<1>2. \A j, k \in DOMAIN c : c[j][1] = c[k][1] => j = k
  BY <1>1
<1>3. /\ s \in Seq(Nat) /\ Len(s) = 23 /\ s[1] = 2 /\ s[2] = 2 /\ s[3] = 4 /\ s[4] = 2
      /\ s[5] = 2 /\ s[6] = 4 /\ s[7] = 2 /\ s[8] = 2 /\ s[9] = 4 /\ s[10] = 2 /\ s[11] = 2
      /\ s[12] = 2 /\ s[13] = 2 /\ s[14] = 4 /\ s[15] = 4 /\ s[16] = 2 /\ s[17] = 2
      /\ s[18] = 4 /\ s[19] = 2 /\ s[20] = 2 /\ s[21] = 4 /\ s[22] = 2 /\ s[23] = 2
  <2>1. s = [k \in 1..23 |-> SizeOf(c[k][2])]
    BY <1>1 DEF Sizes
  <2>2. /\ SizeOf(CompatCapHdr) = 2 /\ SizeOf(RegPciECap) = 2 /\ SizeOf(RegDevCap) = 4
        /\ SizeOf(RegDevCtl) = 2 /\ SizeOf(RegDevStatus) = 2 /\ SizeOf(RegLinkCap) = 4
        /\ SizeOf(RegLinkCtl) = 2 /\ SizeOf(RegLinkStatus) = 2 /\ SizeOf(RegSlotCap) = 4
        /\ SizeOf(RegSlotCtl) = 2 /\ SizeOf(RegSlotStatus) = 2 /\ SizeOf(RegRootCtl) = 2
        /\ SizeOf(RegRootCap) = 2 /\ SizeOf(RegRootStatus) = 4 /\ SizeOf(RegDevCap2) = 4
        /\ SizeOf(RegDevCtl2) = 2 /\ SizeOf(RegDevStatus2) = 2 /\ SizeOf(RegLinkCap2) = 4
        /\ SizeOf(RegLinkCtl2) = 2 /\ SizeOf(RegLinkStatus2) = 2 /\ SizeOf(RegSlotCap2) = 4
        /\ SizeOf(RegSlotCtl2) = 2 /\ SizeOf(RegSlotStatus2) = 2
    BY CompatCapHdrEnds, RegPciECapEnds, RegDevCapEnds, RegDevCtlEnds, RegDevStatusEnds,
       RegLinkCapEnds, RegLinkCtlEnds, RegLinkStatusEnds, RegSlotCapEnds, RegSlotCtlEnds,
       RegSlotStatusEnds, RegRootCtlEnds, RegRootCapEnds, RegRootStatusEnds, RegDevCap2Ends,
       RegDevCtl2Ends, RegDevStatus2Ends, RegLinkCap2Ends, RegLinkCtl2Ends,
       RegLinkStatus2Ends, RegSlotCap2Ends, RegSlotCtl2Ends, RegSlotStatus2Ends
  <2> HIDE DEF s
  <2>3. QED
    BY <1>1, <2>1, <2>2
<1> HIDE DEF s
<1>4. e[0] = 0 /\ \A k \in 1..23 : e[k] = e[k - 1] + s[k]
  BY <1>3, EndsDefined
<1> HIDE DEF e
<1>5. /\ e[0] = 0 /\ e[1] = 2 /\ e[2] = 4 /\ e[3] = 8 /\ e[4] = 10 /\ e[5] = 12 /\ e[6] = 16
      /\ e[7] = 18 /\ e[8] = 20 /\ e[9] = 24 /\ e[10] = 26 /\ e[11] = 28 /\ e[12] = 30
      /\ e[13] = 32 /\ e[14] = 36 /\ e[15] = 40 /\ e[16] = 42 /\ e[17] = 44 /\ e[18] = 48
      /\ e[19] = 50 /\ e[20] = 52 /\ e[21] = 56 /\ e[22] = 58
  <2>1. /\ s[1] = 2 /\ s[2] = 2 /\ s[3] = 4 /\ s[4] = 2 /\ s[5] = 2 /\ s[6] = 4 /\ s[7] = 2
        /\ s[8] = 2 /\ s[9] = 4 /\ s[10] = 2 /\ s[11] = 2 /\ s[12] = 2 /\ s[13] = 2
        /\ s[14] = 4 /\ s[15] = 4 /\ s[16] = 2 /\ s[17] = 2 /\ s[18] = 4 /\ s[19] = 2
        /\ s[20] = 2 /\ s[21] = 4 /\ s[22] = 2 /\ s[23] = 2
    BY <1>3
  <2>2. e[0] = 0 /\ e[1] = 2 /\ e[2] = 4 /\ e[3] = 8 /\ e[4] = 10 /\ e[5] = 12
    BY <1>4, <2>1
  <2>3. e[6] = 16 /\ e[7] = 18 /\ e[8] = 20 /\ e[9] = 24 /\ e[10] = 26 /\ e[11] = 28
    BY <1>4, <2>1, <2>2
  <2>4. e[12] = 30 /\ e[13] = 32 /\ e[14] = 36 /\ e[15] = 40 /\ e[16] = 42 /\ e[17] = 44
    BY <1>4, <2>1, <2>3
  <2>5. e[18] = 48 /\ e[19] = 50 /\ e[20] = 52 /\ e[21] = 56 /\ e[22] = 58
    BY <1>4, <2>1, <2>4
  <2>6. QED
    BY <2>2, <2>3, <2>4, <2>5
<1>6. /\ Position(s, 2) = 2 /\ Position(s, 3) = 4 /\ Position(s, 4) = 8 /\ Position(s, 5) = 10
      /\ Position(s, 6) = 12 /\ Position(s, 7) = 16 /\ Position(s, 8) = 18
      /\ Position(s, 9) = 20 /\ Position(s, 10) = 24 /\ Position(s, 11) = 26
      /\ Position(s, 13) = 30 /\ Position(s, 12) = 28 /\ Position(s, 14) = 32
      /\ Position(s, 15) = 36 /\ Position(s, 16) = 40 /\ Position(s, 18) = 44
      /\ Position(s, 19) = 48 /\ Position(s, 20) = 50
  BY <1>5 DEF Position, e
<1>7. LayoutOf(c, "pcie_cap_reg") = RegPciECap /\ OffsetOf(c, "pcie_cap_reg") = 2
  <2>1. \A j \in DOMAIN c : c[j][1] = "pcie_cap_reg" => j = 2
    BY <1>1, <1>2
  <2>2. Position(Sizes(c), 2) = 2
    BY <1>6 DEF s
  <2>3. 2 \in DOMAIN c /\ c[2] = <<"pcie_cap_reg", RegPciECap>>
    BY <1>1
  <2>4. QED
    BY <2>1, <2>2, <2>3, LaidOut
<1>8. LayoutOf(c, "dev_cap") = RegDevCap /\ OffsetOf(c, "dev_cap") = 4
  <2>1. \A j \in DOMAIN c : c[j][1] = "dev_cap" => j = 3
    BY <1>1, <1>2
  <2>2. Position(Sizes(c), 3) = 4
    BY <1>6 DEF s
  <2>3. 3 \in DOMAIN c /\ c[3] = <<"dev_cap", RegDevCap>>
    BY <1>1
  <2>4. QED
    BY <2>1, <2>2, <2>3, LaidOut
<1>9. LayoutOf(c, "dev_ctl") = RegDevCtl /\ OffsetOf(c, "dev_ctl") = 8
  <2>1. \A j \in DOMAIN c : c[j][1] = "dev_ctl" => j = 4
    BY <1>1, <1>2
  <2>2. Position(Sizes(c), 4) = 8
    BY <1>6 DEF s
  <2>3. 4 \in DOMAIN c /\ c[4] = <<"dev_ctl", RegDevCtl>>
    BY <1>1
  <2>4. QED
    BY <2>1, <2>2, <2>3, LaidOut
<1>10. LayoutOf(c, "dev_status") = RegDevStatus /\ OffsetOf(c, "dev_status") = 10
  <2>1. \A j \in DOMAIN c : c[j][1] = "dev_status" => j = 5
    BY <1>1, <1>2
  <2>2. Position(Sizes(c), 5) = 10
    BY <1>6 DEF s
  <2>3. 5 \in DOMAIN c /\ c[5] = <<"dev_status", RegDevStatus>>
    BY <1>1
  <2>4. QED
    BY <2>1, <2>2, <2>3, LaidOut
<1>11. LayoutOf(c, "link_cap") = RegLinkCap /\ OffsetOf(c, "link_cap") = 12
  <2>1. \A j \in DOMAIN c : c[j][1] = "link_cap" => j = 6
    BY <1>1, <1>2
  <2>2. Position(Sizes(c), 6) = 12
    BY <1>6 DEF s
  <2>3. 6 \in DOMAIN c /\ c[6] = <<"link_cap", RegLinkCap>>
    BY <1>1
  <2>4. QED
    BY <2>1, <2>2, <2>3, LaidOut
<1>12. LayoutOf(c, "link_ctl") = RegLinkCtl /\ OffsetOf(c, "link_ctl") = 16
  <2>1. \A j \in DOMAIN c : c[j][1] = "link_ctl" => j = 7
    BY <1>1, <1>2
  <2>2. Position(Sizes(c), 7) = 16
    BY <1>6 DEF s
  <2>3. 7 \in DOMAIN c /\ c[7] = <<"link_ctl", RegLinkCtl>>
    BY <1>1
  <2>4. QED
    BY <2>1, <2>2, <2>3, LaidOut
<1>13. LayoutOf(c, "link_status") = RegLinkStatus /\ OffsetOf(c, "link_status") = 18
  <2>1. \A j \in DOMAIN c : c[j][1] = "link_status" => j = 8
    BY <1>1, <1>2
  <2>2. Position(Sizes(c), 8) = 18
    BY <1>6 DEF s
  <2>3. 8 \in DOMAIN c /\ c[8] = <<"link_status", RegLinkStatus>>
    BY <1>1
  <2>4. QED
    BY <2>1, <2>2, <2>3, LaidOut
<1>14. LayoutOf(c, "slot_cap") = RegSlotCap /\ OffsetOf(c, "slot_cap") = 20
  <2>1. \A j \in DOMAIN c : c[j][1] = "slot_cap" => j = 9
    BY <1>1, <1>2
  <2>2. Position(Sizes(c), 9) = 20
    BY <1>6 DEF s
  <2>3. 9 \in DOMAIN c /\ c[9] = <<"slot_cap", RegSlotCap>>
    BY <1>1
  <2>4. QED
    BY <2>1, <2>2, <2>3, LaidOut
<1>15. LayoutOf(c, "slot_ctl") = RegSlotCtl /\ OffsetOf(c, "slot_ctl") = 24
  <2>1. \A j \in DOMAIN c : c[j][1] = "slot_ctl" => j = 10
    BY <1>1, <1>2
  <2>2. Position(Sizes(c), 10) = 24
    BY <1>6 DEF s
  <2>3. 10 \in DOMAIN c /\ c[10] = <<"slot_ctl", RegSlotCtl>>
    BY <1>1
  <2>4. QED
    BY <2>1, <2>2, <2>3, LaidOut
<1>16. LayoutOf(c, "slot_status") = RegSlotStatus /\ OffsetOf(c, "slot_status") = 26
  <2>1. \A j \in DOMAIN c : c[j][1] = "slot_status" => j = 11
    BY <1>1, <1>2
  <2>2. Position(Sizes(c), 11) = 26
    BY <1>6 DEF s
  <2>3. 11 \in DOMAIN c /\ c[11] = <<"slot_status", RegSlotStatus>>
    BY <1>1
  <2>4. QED
    BY <2>1, <2>2, <2>3, LaidOut
<1>17. LayoutOf(c, "root_cap") = RegRootCap /\ OffsetOf(c, "root_cap") = 30
  <2>1. \A j \in DOMAIN c : c[j][1] = "root_cap" => j = 13
    BY <1>1, <1>2
  <2>2. Position(Sizes(c), 13) = 30
    BY <1>6 DEF s
  <2>3. 13 \in DOMAIN c /\ c[13] = <<"root_cap", RegRootCap>>
    BY <1>1
  <2>4. QED
    BY <2>1, <2>2, <2>3, LaidOut
<1>18. LayoutOf(c, "root_ctl") = RegRootCtl /\ OffsetOf(c, "root_ctl") = 28
  <2>1. \A j \in DOMAIN c : c[j][1] = "root_ctl" => j = 12
    BY <1>1, <1>2
  <2>2. Position(Sizes(c), 12) = 28
    BY <1>6 DEF s
  <2>3. 12 \in DOMAIN c /\ c[12] = <<"root_ctl", RegRootCtl>>
    BY <1>1
  <2>4. QED
    BY <2>1, <2>2, <2>3, LaidOut
<1>19. LayoutOf(c, "root_status") = RegRootStatus /\ OffsetOf(c, "root_status") = 32
  <2>1. \A j \in DOMAIN c : c[j][1] = "root_status" => j = 14
    BY <1>1, <1>2
  <2>2. Position(Sizes(c), 14) = 32
    BY <1>6 DEF s
  <2>3. 14 \in DOMAIN c /\ c[14] = <<"root_status", RegRootStatus>>
    BY <1>1
  <2>4. QED
    BY <2>1, <2>2, <2>3, LaidOut
<1>20. LayoutOf(c, "dev_cap2") = RegDevCap2 /\ OffsetOf(c, "dev_cap2") = 36
  <2>1. \A j \in DOMAIN c : c[j][1] = "dev_cap2" => j = 15
    BY <1>1, <1>2
  <2>2. Position(Sizes(c), 15) = 36
    BY <1>6 DEF s
  <2>3. 15 \in DOMAIN c /\ c[15] = <<"dev_cap2", RegDevCap2>>
    BY <1>1
  <2>4. QED
    BY <2>1, <2>2, <2>3, LaidOut
<1>21. LayoutOf(c, "dev_ctl2") = RegDevCtl2 /\ OffsetOf(c, "dev_ctl2") = 40
  <2>1. \A j \in DOMAIN c : c[j][1] = "dev_ctl2" => j = 16
    BY <1>1, <1>2
  <2>2. Position(Sizes(c), 16) = 40
    BY <1>6 DEF s
  <2>3. 16 \in DOMAIN c /\ c[16] = <<"dev_ctl2", RegDevCtl2>>
    BY <1>1
  <2>4. QED
    BY <2>1, <2>2, <2>3, LaidOut
<1>22. LayoutOf(c, "link_cap2") = RegLinkCap2 /\ OffsetOf(c, "link_cap2") = 44
  <2>1. \A j \in DOMAIN c : c[j][1] = "link_cap2" => j = 18
    BY <1>1, <1>2
  <2>2. Position(Sizes(c), 18) = 44
    BY <1>6 DEF s
  <2>3. 18 \in DOMAIN c /\ c[18] = <<"link_cap2", RegLinkCap2>>
    BY <1>1
  <2>4. QED
    BY <2>1, <2>2, <2>3, LaidOut
<1>23. LayoutOf(c, "link_ctl2") = RegLinkCtl2 /\ OffsetOf(c, "link_ctl2") = 48
  <2>1. \A j \in DOMAIN c : c[j][1] = "link_ctl2" => j = 19
    BY <1>1, <1>2
  <2>2. Position(Sizes(c), 19) = 48
    BY <1>6 DEF s
  <2>3. 19 \in DOMAIN c /\ c[19] = <<"link_ctl2", RegLinkCtl2>>
    BY <1>1
  <2>4. QED
    BY <2>1, <2>2, <2>3, LaidOut
<1>24. LayoutOf(c, "link_status2") = RegLinkStatus2 /\ OffsetOf(c, "link_status2") = 50
  <2>1. \A j \in DOMAIN c : c[j][1] = "link_status2" => j = 20
    BY <1>1, <1>2
  <2>2. Position(Sizes(c), 20) = 50
    BY <1>6 DEF s
  <2>3. 20 \in DOMAIN c /\ c[20] = <<"link_status2", RegLinkStatus2>>
    BY <1>1
  <2>4. QED
    BY <2>1, <2>2, <2>3, LaidOut
<1>25. QED
  BY <1>7, <1>8, <1>9, <1>10, <1>11, <1>12, <1>13, <1>14, <1>15, <1>16, <1>17,
     <1>18, <1>19, <1>20, <1>21, <1>22, <1>23, <1>24 DEF c

LEMMA PCIeCapTextTells == TextTells(PCIeCapText, 2, 16, {})
<1> DEFINE P == {Field(0, 3, 1), Field(4, 7, 2), Flag(8, 3), Field(9, 13, 4), Rsvd(14, 15)}
           R == UNION P
           e == Ends(RegPciECap)
<1>0. /\ Len(RegPciECap) = 5 /\ e[0] = 0 /\ e[1] = 4 /\ e[2] = 8 /\ e[3] = 9 /\ e[4] = 14
      /\ e[5] = 16
  BY RegPciECapEnds
<1> HIDE DEF e
<1>1. ASSUME NEW r \in R, r[3] # None
      PROVE  ShowsField(RegPciECap, r, 16, {})
  <2>1. /\ r[3] \in 1..5 /\ r[1] = e[r[3] - 1] /\ r[2] + 1 = e[r[3]]
        /\ e[r[3] - 1] \in Nat /\ e[r[3]] \in Nat
        /\ e[r[3] - 1] < e[r[3]] /\ e[r[3]] <= 16
    BY <1>0, <1>1 DEF None, Field, Flag, Rsvd
  <2>2. QED
    BY <1>0, <2>1 DEF ShowsField, HasField, First, Behind, All, e
<1>2. (\A r \in R : InReg(r, 16)) /\ Apart(R)
  BY DEF InReg, Apart, None, Field, Flag, Rsvd
<1>3. Covers(R, 0, 15)
  <2>1. /\ Field(0, 3, 1) \in P /\ Field(4, 7, 2) \in P /\ Flag(8, 3) \in P
        /\ Field(9, 13, 4) \in P /\ Rsvd(14, 15) \in P
    OBVIOUS
  <2> HIDE DEF P
  <2>2. /\ Covers(R, 0, 3) /\ Covers(R, 4, 7) /\ Covers(R, 8, 8) /\ Covers(R, 9, 13)
        /\ Covers(R, 14, 15)
    BY <2>1, PartsCover
  <2> HIDE DEF R
  <2>3. QED
    BY <2>2 DEF Covers
<1>4. Tells(Content(RegPciECap, P), 16, {})
  BY <1>1, <1>2, <1>3, RegPciECapEnds DEF Tells, Fits, Content
<1> HIDE DEF P
<1>5. /\ LayoutOf(PciECap, "pcie_cap_reg") = RegPciECap /\ OffsetOf(PciECap, "pcie_cap_reg") = 2
      /\ 8 * SizeOf(RegPciECap) = 16
  BY PciECapLaid, RegPciECapEnds
<1>6. TextTells(Member(PciECap, 2, "pcie_cap_reg", P), 2, 16, {})
  BY <1>4, <1>5, MemberTells
<1>7. QED
  BY <1>6 DEF P, PCIe, PCIeCapText

LEMMA DevCapTextTells == TextTells(DevCapText, 4, 32, {18, 26, 28})
<1> DEFINE P == {Field(0, 2, 1), Field(3, 4, 2), Flag(5, 3), Field(6, 8, 4), Field(9, 11, 5),
                 Rsvd(12, 14), Flag(15, 7), Rsvd(16, 17), Field(18, 25, 8), Field(26, 27, 9),
                 Flag(28, 10), Rsvd(29, 31)}
           R == UNION P
           e == Ends(RegDevCap)
<1>0. /\ Len(RegDevCap) = 11 /\ e[0] = 0 /\ e[1] = 3 /\ e[2] = 5 /\ e[3] = 6 /\ e[4] = 9
      /\ e[5] = 12 /\ e[6] = 15 /\ e[7] = 16 /\ e[8] = 24 /\ e[9] = 26 /\ e[10] = 27
      /\ e[11] = 30
  BY RegDevCapEnds
<1> HIDE DEF e
<1>1. ASSUME NEW r \in R, r[3] # None
      PROVE  ShowsField(RegDevCap, r, 32, {18, 26, 28})
  <2>1. /\ r[3] \in 1..11 /\ (r[1] \notin {18, 26, 28}
                              <=> r[1] = e[r[3] - 1] /\ r[2] + 1 = e[r[3]])
        /\ e[r[3] - 1] \in Nat /\ e[r[3]] \in Nat
        /\ e[r[3] - 1] < e[r[3]] /\ e[r[3]] <= 32
    BY <1>0, <1>1 DEF None, Field, Flag, Rsvd
  <2>2. QED
    BY <1>0, <2>1 DEF ShowsField, HasField, First, Behind, All, e
<1>2. (\A r \in R : InReg(r, 32)) /\ Apart(R)
  BY DEF InReg, Apart, None, Field, Flag, Rsvd
<1>3. Covers(R, 0, 31)
  <2>1. /\ Field(0, 2, 1) \in P /\ Field(3, 4, 2) \in P /\ Flag(5, 3) \in P
        /\ Field(6, 8, 4) \in P /\ Field(9, 11, 5) \in P /\ Rsvd(12, 14) \in P
        /\ Flag(15, 7) \in P /\ Rsvd(16, 17) \in P /\ Field(18, 25, 8) \in P
        /\ Field(26, 27, 9) \in P /\ Flag(28, 10) \in P /\ Rsvd(29, 31) \in P
    OBVIOUS
  <2> HIDE DEF P
  <2>2. /\ Covers(R, 0, 2) /\ Covers(R, 3, 4) /\ Covers(R, 5, 5) /\ Covers(R, 6, 8)
        /\ Covers(R, 9, 11) /\ Covers(R, 12, 14) /\ Covers(R, 15, 15) /\ Covers(R, 16, 17)
        /\ Covers(R, 18, 25) /\ Covers(R, 26, 27) /\ Covers(R, 28, 28) /\ Covers(R, 29, 31)
    BY <2>1, PartsCover
  <2> HIDE DEF R
  <2>3. QED
    BY <2>2 DEF Covers
<1>4. Tells(Content(RegDevCap, P), 32, {18, 26, 28})
  BY <1>1, <1>2, <1>3, RegDevCapEnds DEF Tells, Fits, Content
<1> HIDE DEF P
<1>5. /\ LayoutOf(PciECap, "dev_cap") = RegDevCap /\ OffsetOf(PciECap, "dev_cap") = 4
      /\ 8 * SizeOf(RegDevCap) = 32
  BY PciECapLaid, RegDevCapEnds
<1>6. TextTells(Member(PciECap, 4, "dev_cap", P), 4, 32, {18, 26, 28})
  BY <1>4, <1>5, MemberTells
<1>7. QED
  BY <1>6 DEF P, PCIe, DevCapText

LEMMA DevCtlTextTells == TextTells(DevCtlText, 8, 16, {})
<1> DEFINE P == {Flags(0, 4, 1), Field(5, 7, 6), Flags(8, 11, 7), Field(12, 14, 11),
                 Flag(15, 12)}
           R == UNION P
           e == Ends(RegDevCtl)
<1>0. /\ Len(RegDevCtl) = 12 /\ e[0] = 0 /\ e[1] = 1 /\ e[2] = 2 /\ e[3] = 3 /\ e[4] = 4
      /\ e[5] = 5 /\ e[6] = 8 /\ e[7] = 9 /\ e[8] = 10 /\ e[9] = 11 /\ e[10] = 12
      /\ e[11] = 15 /\ e[12] = 16
  BY RegDevCtlEnds
<1> HIDE DEF e
<1>1. ASSUME NEW r \in R, r[3] # None
      PROVE  ShowsField(RegDevCtl, r, 16, {})
  <2>1. /\ r[3] \in 1..12 /\ r[1] = e[r[3] - 1] /\ r[2] + 1 = e[r[3]]
        /\ e[r[3] - 1] \in Nat /\ e[r[3]] \in Nat
        /\ e[r[3] - 1] < e[r[3]] /\ e[r[3]] <= 16
    BY <1>0, <1>1 DEF None, Field, Flags, Flag
  <2>2. QED
    BY <1>0, <2>1 DEF ShowsField, HasField, First, Behind, All, e
<1>2. (\A r \in R : InReg(r, 16)) /\ Apart(R)
  BY DEF InReg, Apart, None, Field, Flags, Flag
<1>3. Covers(R, 0, 15)
  <2>1. /\ Flags(0, 4, 1) \in P /\ Field(5, 7, 6) \in P /\ Flags(8, 11, 7) \in P
        /\ Field(12, 14, 11) \in P /\ Flag(15, 12) \in P
    OBVIOUS
  <2> HIDE DEF P
  <2>2. /\ Covers(R, 0, 4) /\ Covers(R, 5, 7) /\ Covers(R, 8, 11) /\ Covers(R, 12, 14)
        /\ Covers(R, 15, 15)
    BY <2>1, PartsCover
  <2> HIDE DEF R
  <2>3. QED
    BY <2>2 DEF Covers
<1>4. Tells(Content(RegDevCtl, P), 16, {})
  BY <1>1, <1>2, <1>3, RegDevCtlEnds DEF Tells, Fits, Content
<1> HIDE DEF P
<1>5. /\ LayoutOf(PciECap, "dev_ctl") = RegDevCtl /\ OffsetOf(PciECap, "dev_ctl") = 8
      /\ 8 * SizeOf(RegDevCtl) = 16
  BY PciECapLaid, RegDevCtlEnds
<1>6. TextTells(Member(PciECap, 8, "dev_ctl", P), 8, 16, {})
  BY <1>4, <1>5, MemberTells
<1>7. QED
  BY <1>6 DEF P, PCIe, DevCtlText

LEMMA DevStatusTextTells == TextTells(DevStatusText, 10, 16, {})
<1> DEFINE P == {Flags(0, 6, 1), Rsvd(7, 15)}
           R == UNION P
           e == Ends(RegDevStatus)
<1>0. /\ Len(RegDevStatus) = 8 /\ e[0] = 0 /\ e[1] = 1 /\ e[2] = 2 /\ e[3] = 3 /\ e[4] = 4
      /\ e[5] = 5 /\ e[6] = 6 /\ e[7] = 7 /\ e[8] = 16
  BY RegDevStatusEnds
<1> HIDE DEF e
<1>1. ASSUME NEW r \in R, r[3] # None
      PROVE  ShowsField(RegDevStatus, r, 16, {})
  <2>1. /\ r[3] \in 1..8 /\ r[1] = e[r[3] - 1] /\ r[2] + 1 = e[r[3]]
        /\ e[r[3] - 1] \in Nat /\ e[r[3]] \in Nat
        /\ e[r[3] - 1] < e[r[3]] /\ e[r[3]] <= 16
    BY <1>0, <1>1 DEF None, Flags, Rsvd
  <2>2. QED
    BY <1>0, <2>1 DEF ShowsField, HasField, First, Behind, All, e
<1>2. (\A r \in R : InReg(r, 16)) /\ Apart(R)
  BY DEF InReg, Apart, None, Flags, Rsvd
<1>3. Covers(R, 0, 15)
  <2>1. Flags(0, 6, 1) \in P /\ Rsvd(7, 15) \in P
    OBVIOUS
  <2> HIDE DEF P
  <2>2. Covers(R, 0, 6) /\ Covers(R, 7, 15)
    BY <2>1, PartsCover
  <2> HIDE DEF R
  <2>3. QED
    BY <2>2 DEF Covers
<1>4. Tells(Content(RegDevStatus, P), 16, {})
  BY <1>1, <1>2, <1>3, RegDevStatusEnds DEF Tells, Fits, Content
<1> HIDE DEF P
<1>5. /\ LayoutOf(PciECap, "dev_status") = RegDevStatus /\ OffsetOf(PciECap, "dev_status") = 10
      /\ 8 * SizeOf(RegDevStatus) = 16
  BY PciECapLaid, RegDevStatusEnds
<1>6. TextTells(Member(PciECap, 10, "dev_status", P), 10, 16, {})
  BY <1>4, <1>5, MemberTells
<1>7. QED
  BY <1>6 DEF P, PCIe, DevStatusText

LEMMA LinkCapTextTells == TextTells(LinkCapText, 12, 32, {23})
<1> DEFINE P == {Field(0, 3, 1), Field(4, 9, 2), Field(10, 11, 3), Field(12, 14, 4),
                 Field(15, 17, 5), Flags(18, 22, 6), Field(23, 31, 12)}
           R == UNION P
           e == Ends(RegLinkCap)
<1>0. /\ Len(RegLinkCap) = 12 /\ e[0] = 0 /\ e[1] = 4 /\ e[2] = 10 /\ e[3] = 12 /\ e[4] = 15
      /\ e[5] = 18 /\ e[6] = 19 /\ e[7] = 20 /\ e[8] = 21 /\ e[9] = 22 /\ e[10] = 23
      /\ e[11] = 24 /\ e[12] = 32
  BY RegLinkCapEnds
<1> HIDE DEF e
<1>1. ASSUME NEW r \in R, r[3] # None
      PROVE  ShowsField(RegLinkCap, r, 32, {23})
  <2>1. /\ r[3] \in 1..12 /\ (r[1] \notin {23} <=> r[1] = e[r[3] - 1] /\ r[2] + 1 = e[r[3]])
        /\ e[r[3] - 1] \in Nat /\ e[r[3]] \in Nat
        /\ e[r[3] - 1] < e[r[3]] /\ e[r[3]] <= 32
    BY <1>0, <1>1 DEF None, Field, Flags
  <2>2. QED
    BY <1>0, <2>1 DEF ShowsField, HasField, First, Behind, All, e
<1>2. (\A r \in R : InReg(r, 32)) /\ Apart(R)
  BY DEF InReg, Apart, None, Field, Flags
<1>3. Covers(R, 0, 31)
  <2>1. /\ Field(0, 3, 1) \in P /\ Field(4, 9, 2) \in P /\ Field(10, 11, 3) \in P
        /\ Field(12, 14, 4) \in P /\ Field(15, 17, 5) \in P /\ Flags(18, 22, 6) \in P
        /\ Field(23, 31, 12) \in P
    OBVIOUS
  <2> HIDE DEF P
  <2>2. /\ Covers(R, 0, 3) /\ Covers(R, 4, 9) /\ Covers(R, 10, 11) /\ Covers(R, 12, 14)
        /\ Covers(R, 15, 17) /\ Covers(R, 18, 22) /\ Covers(R, 23, 31)
    BY <2>1, PartsCover
  <2> HIDE DEF R
  <2>3. QED
    BY <2>2 DEF Covers
<1>4. Tells(Content(RegLinkCap, P), 32, {23})
  BY <1>1, <1>2, <1>3, RegLinkCapEnds DEF Tells, Fits, Content
<1> HIDE DEF P
<1>5. /\ LayoutOf(PciECap, "link_cap") = RegLinkCap /\ OffsetOf(PciECap, "link_cap") = 12
      /\ 8 * SizeOf(RegLinkCap) = 32
  BY PciECapLaid, RegLinkCapEnds
<1>6. TextTells(Member(PciECap, 12, "link_cap", P), 12, 32, {23})
  BY <1>4, <1>5, MemberTells
<1>7. QED
  BY <1>6 DEF P, PCIe, LinkCapText

LEMMA LinkCtlTextTells == TextTells(LinkCtlText, 16, 16, {14})
<1> DEFINE P == {Field(0, 1, 1), Rsvd(2, 2), Flags(3, 11, 3), Rsvd(12, 13), Field(14, 15, 13)}
           R == UNION P
           e == Ends(RegLinkCtl)
<1>0. /\ Len(RegLinkCtl) = 13 /\ e[0] = 0 /\ e[1] = 2 /\ e[2] = 3 /\ e[3] = 4 /\ e[4] = 5
      /\ e[5] = 6 /\ e[6] = 7 /\ e[7] = 8 /\ e[8] = 9 /\ e[9] = 10 /\ e[10] = 11 /\ e[11] = 12
      /\ e[12] = 15 /\ e[13] = 16
  BY RegLinkCtlEnds
<1> HIDE DEF e
<1>1. ASSUME NEW r \in R, r[3] # None
      PROVE  ShowsField(RegLinkCtl, r, 16, {14})
  <2>1. /\ r[3] \in 1..13 /\ (r[1] \notin {14} <=> r[1] = e[r[3] - 1] /\ r[2] + 1 = e[r[3]])
        /\ e[r[3] - 1] \in Nat /\ e[r[3]] \in Nat
        /\ e[r[3] - 1] < e[r[3]] /\ e[r[3]] <= 16
    BY <1>0, <1>1 DEF None, Field, Flags, Rsvd
  <2>2. QED
    BY <1>0, <2>1 DEF ShowsField, HasField, First, Behind, All, e
<1>2. (\A r \in R : InReg(r, 16)) /\ Apart(R)
  BY DEF InReg, Apart, None, Field, Flags, Rsvd
<1>3. Covers(R, 0, 15)
  <2>1. /\ Field(0, 1, 1) \in P /\ Rsvd(2, 2) \in P /\ Flags(3, 11, 3) \in P
        /\ Rsvd(12, 13) \in P /\ Field(14, 15, 13) \in P
    OBVIOUS
  <2> HIDE DEF P
  <2>2. /\ Covers(R, 0, 1) /\ Covers(R, 2, 2) /\ Covers(R, 3, 11) /\ Covers(R, 12, 13)
        /\ Covers(R, 14, 15)
    BY <2>1, PartsCover
  <2> HIDE DEF R
  <2>3. QED
    BY <2>2 DEF Covers
<1>4. Tells(Content(RegLinkCtl, P), 16, {14})
  BY <1>1, <1>2, <1>3, RegLinkCtlEnds DEF Tells, Fits, Content
<1> HIDE DEF P
<1>5. /\ LayoutOf(PciECap, "link_ctl") = RegLinkCtl /\ OffsetOf(PciECap, "link_ctl") = 16
      /\ 8 * SizeOf(RegLinkCtl) = 16
  BY PciECapLaid, RegLinkCtlEnds
<1>6. TextTells(Member(PciECap, 16, "link_ctl", P), 16, 16, {14})
  BY <1>4, <1>5, MemberTells
<1>7. QED
  BY <1>6 DEF P, PCIe, LinkCtlText

LEMMA LinkStatusTextTells == TextTells(LinkStatusText, 18, 16, {13})
<1> DEFINE P == {Field(0, 3, 1), Field(4, 9, 2), Rsvd(10, 10), Flags(11, 12, 4), Flag(13, 5),
                 Flags(14, 15, 7)}
           R == UNION P
           e == Ends(RegLinkStatus)
<1>0. /\ Len(RegLinkStatus) = 8 /\ e[0] = 0 /\ e[1] = 4 /\ e[2] = 10 /\ e[3] = 11 /\ e[4] = 12
      /\ e[5] = 13 /\ e[6] = 14 /\ e[7] = 15 /\ e[8] = 16
  BY RegLinkStatusEnds
<1> HIDE DEF e
<1>1. ASSUME NEW r \in R, r[3] # None
      PROVE  ShowsField(RegLinkStatus, r, 16, {13})
  <2>1. /\ r[3] \in 1..8 /\ (r[1] \notin {13} <=> r[1] = e[r[3] - 1] /\ r[2] + 1 = e[r[3]])
        /\ e[r[3] - 1] \in Nat /\ e[r[3]] \in Nat
        /\ e[r[3] - 1] < e[r[3]] /\ e[r[3]] <= 16
    BY <1>0, <1>1 DEF None, Field, Flags, Flag, Rsvd
  <2>2. QED
    BY <1>0, <2>1 DEF ShowsField, HasField, First, Behind, All, e
<1>2. (\A r \in R : InReg(r, 16)) /\ Apart(R)
  BY DEF InReg, Apart, None, Field, Flags, Flag, Rsvd
<1>3. Covers(R, 0, 15)
  <2>1. /\ Field(0, 3, 1) \in P /\ Field(4, 9, 2) \in P /\ Rsvd(10, 10) \in P
        /\ Flags(11, 12, 4) \in P /\ Flag(13, 5) \in P /\ Flags(14, 15, 7) \in P
    OBVIOUS
  <2> HIDE DEF P
  <2>2. /\ Covers(R, 0, 3) /\ Covers(R, 4, 9) /\ Covers(R, 10, 10) /\ Covers(R, 11, 12)
        /\ Covers(R, 13, 13) /\ Covers(R, 14, 15)
    BY <2>1, PartsCover
  <2> HIDE DEF R
  <2>3. QED
    BY <2>2 DEF Covers
<1>4. Tells(Content(RegLinkStatus, P), 16, {13})
  BY <1>1, <1>2, <1>3, RegLinkStatusEnds DEF Tells, Fits, Content
<1> HIDE DEF P
<1>5. /\ LayoutOf(PciECap, "link_status") = RegLinkStatus
      /\ OffsetOf(PciECap, "link_status") = 18
      /\ 8 * SizeOf(RegLinkStatus) = 16
  BY PciECapLaid, RegLinkStatusEnds
<1>6. TextTells(Member(PciECap, 18, "link_status", P), 18, 16, {13})
  BY <1>4, <1>5, MemberTells
<1>7. QED
  BY <1>6 DEF P, PCIe, LinkStatusText

LEMMA SlotCapTextTells == TextTells(SlotCapText, 20, 32, {15})
<1> DEFINE P == {Flags(0, 6, 1), Field(7, 14, 8), Field(15, 16, 8), Flags(17, 18, 10),
                 Field(19, 31, 12)}
           R == UNION P
           e == Ends(RegSlotCap)
<1>0. /\ Len(RegSlotCap) = 12 /\ e[0] = 0 /\ e[1] = 1 /\ e[2] = 2 /\ e[3] = 3 /\ e[4] = 4
      /\ e[5] = 5 /\ e[6] = 6 /\ e[7] = 7 /\ e[8] = 15 /\ e[9] = 17 /\ e[10] = 18
      /\ e[11] = 19 /\ e[12] = 32
  BY RegSlotCapEnds
<1> HIDE DEF e
<1>1. ASSUME NEW r \in R, r[3] # None
      PROVE  ShowsField(RegSlotCap, r, 32, {15})
  <2>1. /\ r[3] \in 1..12 /\ (r[1] \notin {15} <=> r[1] = e[r[3] - 1] /\ r[2] + 1 = e[r[3]])
        /\ e[r[3] - 1] \in Nat /\ e[r[3]] \in Nat
        /\ e[r[3] - 1] < e[r[3]] /\ e[r[3]] <= 32
    BY <1>0, <1>1 DEF None, Field, Flags
  <2>2. QED
    BY <1>0, <2>1 DEF ShowsField, HasField, First, Behind, All, e
<1>2. (\A r \in R : InReg(r, 32)) /\ Apart(R)
  BY DEF InReg, Apart, None, Field, Flags
<1>3. Covers(R, 0, 31)
  <2>1. /\ Flags(0, 6, 1) \in P /\ Field(7, 14, 8) \in P /\ Field(15, 16, 8) \in P
        /\ Flags(17, 18, 10) \in P /\ Field(19, 31, 12) \in P
    OBVIOUS
  <2> HIDE DEF P
  <2>2. /\ Covers(R, 0, 6) /\ Covers(R, 7, 14) /\ Covers(R, 15, 16) /\ Covers(R, 17, 18)
        /\ Covers(R, 19, 31)
    BY <2>1, PartsCover
  <2> HIDE DEF R
  <2>3. QED
    BY <2>2 DEF Covers
<1>4. Tells(Content(RegSlotCap, P), 32, {15})
  BY <1>1, <1>2, <1>3, RegSlotCapEnds DEF Tells, Fits, Content
<1> HIDE DEF P
<1>5. /\ LayoutOf(PciECap, "slot_cap") = RegSlotCap /\ OffsetOf(PciECap, "slot_cap") = 20
      /\ 8 * SizeOf(RegSlotCap) = 32
  BY PciECapLaid, RegSlotCapEnds
<1>6. TextTells(Member(PciECap, 20, "slot_cap", P), 20, 32, {15})
  BY <1>4, <1>5, MemberTells
<1>7. QED
  BY <1>6 DEF P, PCIe, SlotCapText

LEMMA SlotCtlTextTells == TextTells(SlotCtlText, 24, 16, {})
<1> DEFINE P == {Flags(0, 5, 1), Field(6, 7, 7), Field(8, 9, 8), Flag(10, 9), Rsvd(11, 11),
                 Flags(12, 13, 11), Rsvd(14, 15)}
           R == UNION P
           e == Ends(RegSlotCtl)
<1>0. /\ Len(RegSlotCtl) = 13 /\ e[0] = 0 /\ e[1] = 1 /\ e[2] = 2 /\ e[3] = 3 /\ e[4] = 4
      /\ e[5] = 5 /\ e[6] = 6 /\ e[7] = 8 /\ e[8] = 10 /\ e[9] = 11 /\ e[10] = 12
      /\ e[11] = 13 /\ e[12] = 14 /\ e[13] = 16
  BY RegSlotCtlEnds
<1> HIDE DEF e
<1>1. ASSUME NEW r \in R, r[3] # None
      PROVE  ShowsField(RegSlotCtl, r, 16, {})
  <2>1. /\ r[3] \in 1..13 /\ r[1] = e[r[3] - 1] /\ r[2] + 1 = e[r[3]]
        /\ e[r[3] - 1] \in Nat /\ e[r[3]] \in Nat
        /\ e[r[3] - 1] < e[r[3]] /\ e[r[3]] <= 16
    BY <1>0, <1>1 DEF None, Field, Flags, Flag, Rsvd
  <2>2. QED
    BY <1>0, <2>1 DEF ShowsField, HasField, First, Behind, All, e
<1>2. (\A r \in R : InReg(r, 16)) /\ Apart(R)
  BY DEF InReg, Apart, None, Field, Flags, Flag, Rsvd
<1>3. Covers(R, 0, 15)
  <2>1. /\ Flags(0, 5, 1) \in P /\ Field(6, 7, 7) \in P /\ Field(8, 9, 8) \in P
        /\ Flag(10, 9) \in P /\ Rsvd(11, 11) \in P /\ Flags(12, 13, 11) \in P
        /\ Rsvd(14, 15) \in P
    OBVIOUS
  <2> HIDE DEF P
  <2>2. /\ Covers(R, 0, 5) /\ Covers(R, 6, 7) /\ Covers(R, 8, 9) /\ Covers(R, 10, 10)
        /\ Covers(R, 11, 11) /\ Covers(R, 12, 13) /\ Covers(R, 14, 15)
    BY <2>1, PartsCover
  <2> HIDE DEF R
  <2>3. QED
    BY <2>2 DEF Covers
<1>4. Tells(Content(RegSlotCtl, P), 16, {})
  BY <1>1, <1>2, <1>3, RegSlotCtlEnds DEF Tells, Fits, Content
<1> HIDE DEF P
<1>5. /\ LayoutOf(PciECap, "slot_ctl") = RegSlotCtl /\ OffsetOf(PciECap, "slot_ctl") = 24
      /\ 8 * SizeOf(RegSlotCtl) = 16
  BY PciECapLaid, RegSlotCtlEnds
<1>6. TextTells(Member(PciECap, 24, "slot_ctl", P), 24, 16, {})
  BY <1>4, <1>5, MemberTells
<1>7. QED
  BY <1>6 DEF P, PCIe, SlotCtlText

LEMMA SlotStatusTextTells == TextTells(SlotStatusText, 26, 16, {})
<1> DEFINE P == {Flags(0, 8, 1), Rsvd(9, 15)}
           R == UNION P
           e == Ends(RegSlotStatus)
<1>0. /\ Len(RegSlotStatus) = 10 /\ e[0] = 0 /\ e[1] = 1 /\ e[2] = 2 /\ e[3] = 3 /\ e[4] = 4
      /\ e[5] = 5 /\ e[6] = 6 /\ e[7] = 7 /\ e[8] = 8 /\ e[9] = 9 /\ e[10] = 16
  BY RegSlotStatusEnds
<1> HIDE DEF e
<1>1. ASSUME NEW r \in R, r[3] # None
      PROVE  ShowsField(RegSlotStatus, r, 16, {})
  <2>1. /\ r[3] \in 1..10 /\ r[1] = e[r[3] - 1] /\ r[2] + 1 = e[r[3]]
        /\ e[r[3] - 1] \in Nat /\ e[r[3]] \in Nat
        /\ e[r[3] - 1] < e[r[3]] /\ e[r[3]] <= 16
    BY <1>0, <1>1 DEF None, Flags, Rsvd
  <2>2. QED
    BY <1>0, <2>1 DEF ShowsField, HasField, First, Behind, All, e
<1>2. (\A r \in R : InReg(r, 16)) /\ Apart(R)
  BY DEF InReg, Apart, None, Flags, Rsvd
<1>3. Covers(R, 0, 15)
  <2>1. Flags(0, 8, 1) \in P /\ Rsvd(9, 15) \in P
    OBVIOUS
  <2> HIDE DEF P
  <2>2. Covers(R, 0, 8) /\ Covers(R, 9, 15)
    BY <2>1, PartsCover
  <2> HIDE DEF R
  <2>3. QED
    BY <2>2 DEF Covers
<1>4. Tells(Content(RegSlotStatus, P), 16, {})
  BY <1>1, <1>2, <1>3, RegSlotStatusEnds DEF Tells, Fits, Content
<1> HIDE DEF P
<1>5. /\ LayoutOf(PciECap, "slot_status") = RegSlotStatus
      /\ OffsetOf(PciECap, "slot_status") = 26
      /\ 8 * SizeOf(RegSlotStatus) = 16
  BY PciECapLaid, RegSlotStatusEnds
<1>6. TextTells(Member(PciECap, 26, "slot_status", P), 26, 16, {})
  BY <1>4, <1>5, MemberTells
<1>7. QED
  BY <1>6 DEF P, PCIe, SlotStatusText

LEMMA RootCapTextTells == TextTells(RootCapText, 30, 16, {})
<1> DEFINE P == {Flag(0, 1), Rsvd(1, 15)}
           R == UNION P
           e == Ends(RegRootCap)
<1>0. Len(RegRootCap) = 2 /\ e[0] = 0 /\ e[1] = 1 /\ e[2] = 16
  BY RegRootCapEnds
<1> HIDE DEF e
<1>1. ASSUME NEW r \in R, r[3] # None
      PROVE  ShowsField(RegRootCap, r, 16, {})
  <2>1. /\ r[3] \in 1..2 /\ r[1] = e[r[3] - 1] /\ r[2] + 1 = e[r[3]]
        /\ e[r[3] - 1] \in Nat /\ e[r[3]] \in Nat
        /\ e[r[3] - 1] < e[r[3]] /\ e[r[3]] <= 16
    BY <1>0, <1>1 DEF None, Field, Flag, Rsvd
  <2>2. QED
    BY <1>0, <2>1 DEF ShowsField, HasField, First, Behind, All, e
<1>2. (\A r \in R : InReg(r, 16)) /\ Apart(R)
  BY DEF InReg, Apart, None, Field, Flag, Rsvd
<1>3. Covers(R, 0, 15)
  <2>1. Flag(0, 1) \in P /\ Rsvd(1, 15) \in P
    OBVIOUS
  <2> HIDE DEF P
  <2>2. Covers(R, 0, 0) /\ Covers(R, 1, 15)
    BY <2>1, PartsCover
  <2> HIDE DEF R
  <2>3. QED
    BY <2>2 DEF Covers
<1>4. Tells(Content(RegRootCap, P), 16, {})
  BY <1>1, <1>2, <1>3, RegRootCapEnds DEF Tells, Fits, Content
<1> HIDE DEF P
<1>5. /\ LayoutOf(PciECap, "root_cap") = RegRootCap /\ OffsetOf(PciECap, "root_cap") = 30
      /\ 8 * SizeOf(RegRootCap) = 16
  BY PciECapLaid, RegRootCapEnds
<1>6. TextTells(Member(PciECap, 30, "root_cap", P), 30, 16, {})
  BY <1>4, <1>5, MemberTells
<1>7. QED
  BY <1>6 DEF P, PCIe, RootCapText

LEMMA RootCtlTextTells == TextTells(RootCtlText, 28, 16, {})
<1> DEFINE P == {Flags(0, 4, 1), Rsvd(5, 15)}
           R == UNION P
           e == Ends(RegRootCtl)
<1>0. /\ Len(RegRootCtl) = 6 /\ e[0] = 0 /\ e[1] = 1 /\ e[2] = 2 /\ e[3] = 3 /\ e[4] = 4
      /\ e[5] = 5 /\ e[6] = 16
  BY RegRootCtlEnds
<1> HIDE DEF e
<1>1. ASSUME NEW r \in R, r[3] # None
      PROVE  ShowsField(RegRootCtl, r, 16, {})
  <2>1. /\ r[3] \in 1..6 /\ r[1] = e[r[3] - 1] /\ r[2] + 1 = e[r[3]]
        /\ e[r[3] - 1] \in Nat /\ e[r[3]] \in Nat
        /\ e[r[3] - 1] < e[r[3]] /\ e[r[3]] <= 16
    BY <1>0, <1>1 DEF None, Flags, Rsvd
  <2>2. QED
    BY <1>0, <2>1 DEF ShowsField, HasField, First, Behind, All, e
<1>2. (\A r \in R : InReg(r, 16)) /\ Apart(R)
  BY DEF InReg, Apart, None, Flags, Rsvd
<1>3. Covers(R, 0, 15)
  <2>1. Flags(0, 4, 1) \in P /\ Rsvd(5, 15) \in P
    OBVIOUS
  <2> HIDE DEF P
  <2>2. Covers(R, 0, 4) /\ Covers(R, 5, 15)
    BY <2>1, PartsCover
  <2> HIDE DEF R
  <2>3. QED
    BY <2>2 DEF Covers
<1>4. Tells(Content(RegRootCtl, P), 16, {})
  BY <1>1, <1>2, <1>3, RegRootCtlEnds DEF Tells, Fits, Content
<1> HIDE DEF P
<1>5. /\ LayoutOf(PciECap, "root_ctl") = RegRootCtl /\ OffsetOf(PciECap, "root_ctl") = 28
      /\ 8 * SizeOf(RegRootCtl) = 16
  BY PciECapLaid, RegRootCtlEnds
<1>6. TextTells(Member(PciECap, 28, "root_ctl", P), 28, 16, {})
  BY <1>4, <1>5, MemberTells
<1>7. QED
  BY <1>6 DEF P, PCIe, RootCtlText

LEMMA RootStatusTextTells == TextTells(RootStatusText, 32, 32, {})
<1> DEFINE P == {Field(0, 15, 1), Flags(16, 17, 2), Rsvd(18, 31)}
           R == UNION P
           e == Ends(RegRootStatus)
<1>0. Len(RegRootStatus) = 4 /\ e[0] = 0 /\ e[1] = 16 /\ e[2] = 17 /\ e[3] = 18 /\ e[4] = 32
  BY RegRootStatusEnds
<1> HIDE DEF e
<1>1. ASSUME NEW r \in R, r[3] # None
      PROVE  ShowsField(RegRootStatus, r, 32, {})
  <2>1. /\ r[3] \in 1..4 /\ r[1] = e[r[3] - 1] /\ r[2] + 1 = e[r[3]]
        /\ e[r[3] - 1] \in Nat /\ e[r[3]] \in Nat
        /\ e[r[3] - 1] < e[r[3]] /\ e[r[3]] <= 32
    BY <1>0, <1>1 DEF None, Field, Flags, Rsvd
  <2>2. QED
    BY <1>0, <2>1 DEF ShowsField, HasField, First, Behind, All, e
<1>2. (\A r \in R : InReg(r, 32)) /\ Apart(R)
  BY DEF InReg, Apart, None, Field, Flags, Rsvd
<1>3. Covers(R, 0, 31)
  <2>1. Field(0, 15, 1) \in P /\ Flags(16, 17, 2) \in P /\ Rsvd(18, 31) \in P
    OBVIOUS
  <2> HIDE DEF P
  <2>2. Covers(R, 0, 15) /\ Covers(R, 16, 17) /\ Covers(R, 18, 31)
    BY <2>1, PartsCover
  <2> HIDE DEF R
  <2>3. QED
    BY <2>2 DEF Covers
<1>4. Tells(Content(RegRootStatus, P), 32, {})
  BY <1>1, <1>2, <1>3, RegRootStatusEnds DEF Tells, Fits, Content
<1> HIDE DEF P
<1>5. /\ LayoutOf(PciECap, "root_status") = RegRootStatus
      /\ OffsetOf(PciECap, "root_status") = 32
      /\ 8 * SizeOf(RegRootStatus) = 32
  BY PciECapLaid, RegRootStatusEnds
<1>6. TextTells(Member(PciECap, 32, "root_status", P), 32, 32, {})
  BY <1>4, <1>5, MemberTells
<1>7. QED
  BY <1>6 DEF P, PCIe, RootStatusText

LEMMA DevCap2TextTells == TextTells(DevCap2Text, 36, 32, {})
<1> DEFINE P == {Field(0, 3, 1), Flags(4, 11, 2), Field(12, 13, 10), Field(14, 15, 11),
                 Flags(16, 17, 12), Field(18, 19, 14), Flags(20, 21, 15), Field(22, 23, 17),
                 Field(24, 25, 18), Flag(26, 19), Rsvd(27, 30), Flag(31, 21)}
           R == UNION P
           e == Ends(RegDevCap2)
<1>0. /\ Len(RegDevCap2) = 21 /\ e[0] = 0 /\ e[1] = 4 /\ e[2] = 5 /\ e[3] = 6 /\ e[4] = 7
      /\ e[5] = 8 /\ e[6] = 9 /\ e[7] = 10 /\ e[8] = 11 /\ e[9] = 12 /\ e[10] = 14
      /\ e[11] = 16 /\ e[12] = 17 /\ e[13] = 18 /\ e[14] = 20 /\ e[15] = 21 /\ e[16] = 22
      /\ e[17] = 24 /\ e[18] = 26 /\ e[19] = 27 /\ e[20] = 31 /\ e[21] = 32
  BY RegDevCap2Ends
<1> HIDE DEF e
<1>1. ASSUME NEW r \in R, r[3] # None
      PROVE  ShowsField(RegDevCap2, r, 32, {})
  <2>1. /\ r[3] \in 1..21 /\ r[1] = e[r[3] - 1] /\ r[2] + 1 = e[r[3]]
        /\ e[r[3] - 1] \in Nat /\ e[r[3]] \in Nat
        /\ e[r[3] - 1] < e[r[3]] /\ e[r[3]] <= 32
    BY <1>0, <1>1 DEF None, Field, Flags, Flag, Rsvd
  <2>2. QED
    BY <1>0, <2>1 DEF ShowsField, HasField, First, Behind, All, e
<1>2. (\A r \in R : InReg(r, 32)) /\ Apart(R)
  BY DEF InReg, Apart, None, Field, Flags, Flag, Rsvd
<1>3. Covers(R, 0, 31)
  <2>1. /\ Field(0, 3, 1) \in P /\ Flags(4, 11, 2) \in P /\ Field(12, 13, 10) \in P
        /\ Field(14, 15, 11) \in P /\ Flags(16, 17, 12) \in P /\ Field(18, 19, 14) \in P
        /\ Flags(20, 21, 15) \in P /\ Field(22, 23, 17) \in P /\ Field(24, 25, 18) \in P
        /\ Flag(26, 19) \in P /\ Rsvd(27, 30) \in P /\ Flag(31, 21) \in P
    OBVIOUS
  <2> HIDE DEF P
  <2>2. /\ Covers(R, 0, 3) /\ Covers(R, 4, 11) /\ Covers(R, 12, 13) /\ Covers(R, 14, 15)
        /\ Covers(R, 16, 17) /\ Covers(R, 18, 19) /\ Covers(R, 20, 21) /\ Covers(R, 22, 23)
        /\ Covers(R, 24, 25) /\ Covers(R, 26, 26) /\ Covers(R, 27, 30) /\ Covers(R, 31, 31)
    BY <2>1, PartsCover
  <2> HIDE DEF R
  <2>3. QED
    BY <2>2 DEF Covers
<1>4. Tells(Content(RegDevCap2, P), 32, {})
  <2>1. RegDevCap2 \in Seq(Nat) /\ 32 - 1 = 31
    BY RegDevCap2Ends
  <2> HIDE DEF P
  <2>2. QED
    BY <1>1, <1>2, <1>3, <2>1, FieldsTell
<1> HIDE DEF P
<1>5. /\ LayoutOf(PciECap, "dev_cap2") = RegDevCap2 /\ OffsetOf(PciECap, "dev_cap2") = 36
      /\ 8 * SizeOf(RegDevCap2) = 32
  BY PciECapLaid, RegDevCap2Ends
<1>6. TextTells(Member(PciECap, 36, "dev_cap2", P), 36, 32, {})
  BY <1>4, <1>5, MemberTells
<1>7. QED
  BY <1>6 DEF P, PCIe, DevCap2Text

LEMMA DevCtl2TextTells == TextTells(DevCtl2Text, 40, 16, {})
<1> DEFINE P == {Field(0, 3, 1), Flags(4, 12, 2), Field(13, 14, 11), Flag(15, 12)}
           R == UNION P
           e == Ends(RegDevCtl2)
<1>0. /\ Len(RegDevCtl2) = 12 /\ e[0] = 0 /\ e[1] = 4 /\ e[2] = 5 /\ e[3] = 6 /\ e[4] = 7
      /\ e[5] = 8 /\ e[6] = 9 /\ e[7] = 10 /\ e[8] = 11 /\ e[9] = 12 /\ e[10] = 13
      /\ e[11] = 15 /\ e[12] = 16
  BY RegDevCtl2Ends
<1> HIDE DEF e
<1>1. ASSUME NEW r \in R, r[3] # None
      PROVE  ShowsField(RegDevCtl2, r, 16, {})
  <2>1. /\ r[3] \in 1..12 /\ r[1] = e[r[3] - 1] /\ r[2] + 1 = e[r[3]]
        /\ e[r[3] - 1] \in Nat /\ e[r[3]] \in Nat
        /\ e[r[3] - 1] < e[r[3]] /\ e[r[3]] <= 16
    BY <1>0, <1>1 DEF None, Field, Flags, Flag
  <2>2. QED
    BY <1>0, <2>1 DEF ShowsField, HasField, First, Behind, All, e
<1>2. (\A r \in R : InReg(r, 16)) /\ Apart(R)
  BY DEF InReg, Apart, None, Field, Flags, Flag
<1>3. Covers(R, 0, 15)
  <2>1. /\ Field(0, 3, 1) \in P /\ Flags(4, 12, 2) \in P /\ Field(13, 14, 11) \in P
        /\ Flag(15, 12) \in P
    OBVIOUS
  <2> HIDE DEF P
  <2>2. Covers(R, 0, 3) /\ Covers(R, 4, 12) /\ Covers(R, 13, 14) /\ Covers(R, 15, 15)
    BY <2>1, PartsCover
  <2> HIDE DEF R
  <2>3. QED
    BY <2>2 DEF Covers
<1>4. Tells(Content(RegDevCtl2, P), 16, {})
  BY <1>1, <1>2, <1>3, RegDevCtl2Ends DEF Tells, Fits, Content
<1> HIDE DEF P
<1>5. /\ LayoutOf(PciECap, "dev_ctl2") = RegDevCtl2 /\ OffsetOf(PciECap, "dev_ctl2") = 40
      /\ 8 * SizeOf(RegDevCtl2) = 16
  BY PciECapLaid, RegDevCtl2Ends
<1>6. TextTells(Member(PciECap, 40, "dev_ctl2", P), 40, 16, {})
  BY <1>4, <1>5, MemberTells
<1>7. QED
  BY <1>6 DEF P, PCIe, DevCtl2Text

LEMMA LinkCap2TextTells == TextTells(LinkCap2Text, 44, 32, {})
<1> DEFINE P == {Rsvd(0, 0), Field(1, 7, 2), Flag(8, 3), Field(9, 15, 4), Field(16, 22, 5),
                 Flags(23, 24, 6), Rsvd(25, 30), Flag(31, 9)}
           R == UNION P
           e == Ends(RegLinkCap2)
<1>0. /\ Len(RegLinkCap2) = 9 /\ e[0] = 0 /\ e[1] = 1 /\ e[2] = 8 /\ e[3] = 9 /\ e[4] = 16
      /\ e[5] = 23 /\ e[6] = 24 /\ e[7] = 25 /\ e[8] = 31 /\ e[9] = 32
  BY RegLinkCap2Ends
<1> HIDE DEF e
<1>1. ASSUME NEW r \in R, r[3] # None
      PROVE  ShowsField(RegLinkCap2, r, 32, {})
  <2>1. /\ r[3] \in 1..9 /\ r[1] = e[r[3] - 1] /\ r[2] + 1 = e[r[3]]
        /\ e[r[3] - 1] \in Nat /\ e[r[3]] \in Nat
        /\ e[r[3] - 1] < e[r[3]] /\ e[r[3]] <= 32
    BY <1>0, <1>1 DEF None, Field, Flags, Flag, Rsvd
  <2>2. QED
    BY <1>0, <2>1 DEF ShowsField, HasField, First, Behind, All, e
<1>2. (\A r \in R : InReg(r, 32)) /\ Apart(R)
  BY DEF InReg, Apart, None, Field, Flags, Flag, Rsvd
<1>3. Covers(R, 0, 31)
  <2>1. /\ Rsvd(0, 0) \in P /\ Field(1, 7, 2) \in P /\ Flag(8, 3) \in P
        /\ Field(9, 15, 4) \in P /\ Field(16, 22, 5) \in P /\ Flags(23, 24, 6) \in P
        /\ Rsvd(25, 30) \in P /\ Flag(31, 9) \in P
    OBVIOUS
  <2> HIDE DEF P
  <2>2. /\ Covers(R, 0, 0) /\ Covers(R, 1, 7) /\ Covers(R, 8, 8) /\ Covers(R, 9, 15)
        /\ Covers(R, 16, 22) /\ Covers(R, 23, 24) /\ Covers(R, 25, 30) /\ Covers(R, 31, 31)
    BY <2>1, PartsCover
  <2> HIDE DEF R
  <2>3. QED
    BY <2>2 DEF Covers
<1>4. Tells(Content(RegLinkCap2, P), 32, {})
  BY <1>1, <1>2, <1>3, RegLinkCap2Ends DEF Tells, Fits, Content
<1> HIDE DEF P
<1>5. /\ LayoutOf(PciECap, "link_cap2") = RegLinkCap2 /\ OffsetOf(PciECap, "link_cap2") = 44
      /\ 8 * SizeOf(RegLinkCap2) = 32
  BY PciECapLaid, RegLinkCap2Ends
<1>6. TextTells(Member(PciECap, 44, "link_cap2", P), 44, 32, {})
  BY <1>4, <1>5, MemberTells
<1>7. QED
  BY <1>6 DEF P, PCIe, LinkCap2Text

LEMMA LinkCtl2TextTells == TextTells(LinkCtl2Text, 48, 16, {})
<1> DEFINE P == {Field(0, 3, 1), Flags(4, 6, 2), Field(7, 9, 5), Flags(10, 11, 6),
                 Field(12, 15, 8)}
           R == UNION P
           e == Ends(RegLinkCtl2)
<1>0. /\ Len(RegLinkCtl2) = 8 /\ e[0] = 0 /\ e[1] = 4 /\ e[2] = 5 /\ e[3] = 6 /\ e[4] = 7
      /\ e[5] = 10 /\ e[6] = 11 /\ e[7] = 12 /\ e[8] = 16
  BY RegLinkCtl2Ends
<1> HIDE DEF e
<1>1. ASSUME NEW r \in R, r[3] # None
      PROVE  ShowsField(RegLinkCtl2, r, 16, {})
  <2>1. /\ r[3] \in 1..8 /\ r[1] = e[r[3] - 1] /\ r[2] + 1 = e[r[3]]
        /\ e[r[3] - 1] \in Nat /\ e[r[3]] \in Nat
        /\ e[r[3] - 1] < e[r[3]] /\ e[r[3]] <= 16
    BY <1>0, <1>1 DEF None, Field, Flags
  <2>2. QED
    BY <1>0, <2>1 DEF ShowsField, HasField, First, Behind, All, e
<1>2. (\A r \in R : InReg(r, 16)) /\ Apart(R)
  BY DEF InReg, Apart, None, Field, Flags
<1>3. Covers(R, 0, 15)
  <2>1. /\ Field(0, 3, 1) \in P /\ Flags(4, 6, 2) \in P /\ Field(7, 9, 5) \in P
        /\ Flags(10, 11, 6) \in P /\ Field(12, 15, 8) \in P
    OBVIOUS
  <2> HIDE DEF P
  <2>2. /\ Covers(R, 0, 3) /\ Covers(R, 4, 6) /\ Covers(R, 7, 9) /\ Covers(R, 10, 11)
        /\ Covers(R, 12, 15)
    BY <2>1, PartsCover
  <2> HIDE DEF R
  <2>3. QED
    BY <2>2 DEF Covers
<1>4. Tells(Content(RegLinkCtl2, P), 16, {})
  BY <1>1, <1>2, <1>3, RegLinkCtl2Ends DEF Tells, Fits, Content
<1> HIDE DEF P
<1>5. /\ LayoutOf(PciECap, "link_ctl2") = RegLinkCtl2 /\ OffsetOf(PciECap, "link_ctl2") = 48
      /\ 8 * SizeOf(RegLinkCtl2) = 16
  BY PciECapLaid, RegLinkCtl2Ends
<1>6. TextTells(Member(PciECap, 48, "link_ctl2", P), 48, 16, {})
  BY <1>4, <1>5, MemberTells
<1>7. QED
  BY <1>6 DEF P, PCIe, LinkCtl2Text

LEMMA LinkStatus2TextTells == TextTells(LinkStatus2Text, 50, 16, {})
<1> DEFINE P == {Flags(0, 7, 1), Field(8, 9, 9), Rsvd(10, 11), Field(12, 14, 11),
                 Flag(15, 12)}
           R == UNION P
           e == Ends(RegLinkStatus2)
<1>0. /\ Len(RegLinkStatus2) = 12 /\ e[0] = 0 /\ e[1] = 1 /\ e[2] = 2 /\ e[3] = 3 /\ e[4] = 4
      /\ e[5] = 5 /\ e[6] = 6 /\ e[7] = 7 /\ e[8] = 8 /\ e[9] = 10 /\ e[10] = 12 /\ e[11] = 15
      /\ e[12] = 16
  BY RegLinkStatus2Ends
<1> HIDE DEF e
<1>1. ASSUME NEW r \in R, r[3] # None
      PROVE  ShowsField(RegLinkStatus2, r, 16, {})
  <2>1. /\ r[3] \in 1..12 /\ r[1] = e[r[3] - 1] /\ r[2] + 1 = e[r[3]]
        /\ e[r[3] - 1] \in Nat /\ e[r[3]] \in Nat
        /\ e[r[3] - 1] < e[r[3]] /\ e[r[3]] <= 16
    BY <1>0, <1>1 DEF None, Field, Flags, Flag, Rsvd
  <2>2. QED
    BY <1>0, <2>1 DEF ShowsField, HasField, First, Behind, All, e
<1>2. (\A r \in R : InReg(r, 16)) /\ Apart(R)
  BY DEF InReg, Apart, None, Field, Flags, Flag, Rsvd
<1>3. Covers(R, 0, 15)
  <2>1. /\ Flags(0, 7, 1) \in P /\ Field(8, 9, 9) \in P /\ Rsvd(10, 11) \in P
        /\ Field(12, 14, 11) \in P /\ Flag(15, 12) \in P
    OBVIOUS
  <2> HIDE DEF P
  <2>2. /\ Covers(R, 0, 7) /\ Covers(R, 8, 9) /\ Covers(R, 10, 11) /\ Covers(R, 12, 14)
        /\ Covers(R, 15, 15)
    BY <2>1, PartsCover
  <2> HIDE DEF R
  <2>3. QED
    BY <2>2 DEF Covers
<1>4. Tells(Content(RegLinkStatus2, P), 16, {})
  BY <1>1, <1>2, <1>3, RegLinkStatus2Ends DEF Tells, Fits, Content
<1> HIDE DEF P
<1>5. /\ LayoutOf(PciECap, "link_status2") = RegLinkStatus2
      /\ OffsetOf(PciECap, "link_status2") = 50
      /\ 8 * SizeOf(RegLinkStatus2) = 16
  BY PciECapLaid, RegLinkStatus2Ends
<1>6. TextTells(Member(PciECap, 50, "link_status2", P), 50, 16, {})
  BY <1>4, <1>5, MemberTells
<1>7. QED
  BY <1>6 DEF P, PCIe, LinkStatus2Text

LEMMA PCIeTextsSound ==
  Sound(PCIeTexts, {"pcie_cap", "dev_cap", "dev_ctl", "dev_status",
                   "link_cap", "link_ctl", "link_status", "slot_cap", "slot_ctl",
                   "slot_status", "root_cap", "root_ctl", "root_status", "dev_cap_2",
                   "dev_ctl2", "link_cap2", "link_ctl2", "link_status2"})
<1> DEFINE regs == {"pcie_cap", "dev_cap", "dev_ctl", "dev_status", "link_cap", "link_ctl",
                    "link_status", "slot_cap", "slot_ctl", "slot_status", "root_cap",
                    "root_ctl", "root_status", "dev_cap_2", "dev_ctl2", "link_cap2",
                    "link_ctl2", "link_status2"}
           off == [pcie_cap |-> 2, dev_cap |-> 4, dev_ctl |-> 8, dev_status |-> 10,
                   link_cap |-> 12, link_ctl |-> 16, link_status |-> 18, slot_cap |-> 20,
                   slot_ctl |-> 24, slot_status |-> 26, root_cap |-> 30, root_ctl |-> 28,
                   root_status |-> 32, dev_cap_2 |-> 36, dev_ctl2 |-> 40, link_cap2 |-> 44,
                   link_ctl2 |-> 48, link_status2 |-> 50]
           size == [pcie_cap |-> 2, dev_cap |-> 4, dev_ctl |-> 2, dev_status |-> 2,
                    link_cap |-> 4, link_ctl |-> 2, link_status |-> 2, slot_cap |-> 4,
                    slot_ctl |-> 2, slot_status |-> 2, root_cap |-> 2, root_ctl |-> 2,
                    root_status |-> 4, dev_cap_2 |-> 4, dev_ctl2 |-> 2, link_cap2 |-> 4,
                    link_ctl2 |-> 2, link_status2 |-> 2]
           t == PCIeTexts
<1>1. /\ TextTells(t["pcie_cap"], 2, 16, {})
      /\ TextTells(t["dev_cap"], 4, 32, {18, 26, 28})
      /\ TextTells(t["dev_ctl"], 8, 16, {})
      /\ TextTells(t["dev_status"], 10, 16, {})
      /\ TextTells(t["link_cap"], 12, 32, {23})
      /\ TextTells(t["link_ctl"], 16, 16, {14})
      /\ TextTells(t["link_status"], 18, 16, {13})
      /\ TextTells(t["slot_cap"], 20, 32, {15})
      /\ TextTells(t["slot_ctl"], 24, 16, {})
      /\ TextTells(t["slot_status"], 26, 16, {})
      /\ TextTells(t["root_cap"], 30, 16, {})
      /\ TextTells(t["root_ctl"], 28, 16, {})
      /\ TextTells(t["root_status"], 32, 32, {})
      /\ TextTells(t["dev_cap_2"], 36, 32, {})
      /\ TextTells(t["dev_ctl2"], 40, 16, {})
      /\ TextTells(t["link_cap2"], 44, 32, {})
      /\ TextTells(t["link_ctl2"], 48, 16, {})
      /\ TextTells(t["link_status2"], 50, 16, {})
  BY PCIeCapTextTells, DevCapTextTells, DevCtlTextTells, DevStatusTextTells, LinkCapTextTells,
     LinkCtlTextTells, LinkStatusTextTells, SlotCapTextTells, SlotCtlTextTells,
     SlotStatusTextTells, RootCapTextTells, RootCtlTextTells, RootStatusTextTells,
     DevCap2TextTells, DevCtl2TextTells, LinkCap2TextTells, LinkCtl2TextTells,
     LinkStatus2TextTells DEF PCIeTexts
<1> HIDE DEF t
<1>2. /\ Wrong("dev_cap") = {18, 26, 28} /\ Wrong("link_cap") = {23}
      /\ Wrong("link_ctl") = {14} /\ Wrong("link_status") = {13} /\ Wrong("slot_cap") = {15}
      /\ \A r \in regs \ {"dev_cap", "link_cap", "link_ctl", "link_status", "slot_cap"} :
             Wrong(r) = {}
  BY Mislabelling DEF Wrong, MislabelledRows
<1>3. \A r \in regs : TextTells(t[r], off[r], 8 * size[r], Wrong(r))
  <2>1. /\ off["pcie_cap"] = 2 /\ 8 * size["pcie_cap"] = 16
        /\ off["dev_cap"] = 4 /\ 8 * size["dev_cap"] = 32
        /\ off["dev_ctl"] = 8 /\ 8 * size["dev_ctl"] = 16
        /\ off["dev_status"] = 10 /\ 8 * size["dev_status"] = 16
        /\ off["link_cap"] = 12 /\ 8 * size["link_cap"] = 32
        /\ off["link_ctl"] = 16 /\ 8 * size["link_ctl"] = 16
        /\ off["link_status"] = 18 /\ 8 * size["link_status"] = 16
        /\ off["slot_cap"] = 20 /\ 8 * size["slot_cap"] = 32
        /\ off["slot_ctl"] = 24 /\ 8 * size["slot_ctl"] = 16
        /\ off["slot_status"] = 26 /\ 8 * size["slot_status"] = 16
        /\ off["root_cap"] = 30 /\ 8 * size["root_cap"] = 16
        /\ off["root_ctl"] = 28 /\ 8 * size["root_ctl"] = 16
        /\ off["root_status"] = 32 /\ 8 * size["root_status"] = 32
        /\ off["dev_cap_2"] = 36 /\ 8 * size["dev_cap_2"] = 32
        /\ off["dev_ctl2"] = 40 /\ 8 * size["dev_ctl2"] = 16
        /\ off["link_cap2"] = 44 /\ 8 * size["link_cap2"] = 32
        /\ off["link_ctl2"] = 48 /\ 8 * size["link_ctl2"] = 16
        /\ off["link_status2"] = 50 /\ 8 * size["link_status2"] = 16
    OBVIOUS
  <2> HIDE DEF off, size
  <2> DEFINE tells(r) == TextTells(t[r], off[r], 8 * size[r], Wrong(r))
  <2>2. /\ Wrong("pcie_cap") = {} /\ Wrong("dev_ctl") = {} /\ Wrong("dev_status") = {}
        /\ Wrong("slot_ctl") = {} /\ Wrong("slot_status") = {} /\ Wrong("root_cap") = {}
        /\ Wrong("root_ctl") = {} /\ Wrong("root_status") = {} /\ Wrong("dev_cap_2") = {}
        /\ Wrong("dev_ctl2") = {} /\ Wrong("link_cap2") = {} /\ Wrong("link_ctl2") = {}
        /\ Wrong("link_status2") = {}
    BY <1>2
  <2>3. tells("pcie_cap") /\ tells("dev_cap") /\ tells("dev_ctl") /\ tells("dev_status")
    BY <1>1, <1>2, <2>1, <2>2
  <2>4. tells("link_cap") /\ tells("link_ctl") /\ tells("link_status") /\ tells("slot_cap")
    BY <1>1, <1>2, <2>1, <2>2
  <2>5. tells("slot_ctl") /\ tells("slot_status") /\ tells("root_cap") /\ tells("root_ctl")
    BY <1>1, <2>1, <2>2
  <2>6. tells("root_status") /\ tells("dev_cap_2") /\ tells("dev_ctl2") /\ tells("link_cap2")
    BY <1>1, <2>1, <2>2
  <2>7. tells("link_ctl2") /\ tells("link_status2")
    BY <1>1, <2>1, <2>2
  <2> HIDE DEF tells
  <2>8. \A r \in regs : tells(r)
    BY <2>3, <2>4, <2>5, <2>6, <2>7
  <2>9. QED
    BY <2>8 DEF tells
<1>4. \A r, q \in regs : r # q => off[r] + size[r] <= off[q] \/ off[q] + size[q] <= off[r]
  OBVIOUS
<1>5. off \in [regs -> Nat] /\ size \in [regs -> Nat \ {0}]
  OBVIOUS
<1>6. \A r \in regs : r \notin {"bist", "bridge_ctl", "lane_eq_ctl"}
  OBVIOUS
<1> HIDE DEF off, size, regs
<1>7. Sound(t, regs)
  BY <1>3, <1>4, <1>5, <1>6, TableSound
<1>8. QED
  BY <1>7 DEF t, regs

LEMMA RegLinkCtl3Ends ==
  /\ RegLinkCtl3 \in Seq(Nat) /\ Len(RegLinkCtl3) = 5 /\ Bits(RegLinkCtl3) = 32
  /\ SizeOf(RegLinkCtl3) = 4 /\ Ends(RegLinkCtl3)[0] = 0 /\ Ends(RegLinkCtl3)[1] = 1
  /\ Ends(RegLinkCtl3)[2] = 2 /\ Ends(RegLinkCtl3)[3] = 9 /\ Ends(RegLinkCtl3)[4] = 16
  /\ Ends(RegLinkCtl3)[5] = 32
<1>1. RegLinkCtl3 \in Seq(Nat) /\ Len(RegLinkCtl3) = 5
  BY DEF RegLinkCtl3
<1> DEFINE e == Ends(RegLinkCtl3)
<1>2. e[0] = 0 /\ \A n \in 1..5 : e[n] = e[n - 1] + RegLinkCtl3[n]
  BY <1>1, EndsDefined
<1> HIDE DEF e
<1>3. e[0] = 0 /\ e[1] = 1 /\ e[2] = 2 /\ e[3] = 9 /\ e[4] = 16 /\ e[5] = 32
  BY <1>2 DEF RegLinkCtl3
<1>4. QED
  BY <1>1, <1>3 DEF e, Bits, SizeOf

LEMMA RegLaneErrStatusEnds ==
  /\ RegLaneErrStatus \in Seq(Nat) /\ Len(RegLaneErrStatus) = 1 /\ Bits(RegLaneErrStatus) = 32
  /\ SizeOf(RegLaneErrStatus) = 4 /\ Ends(RegLaneErrStatus)[0] = 0
  /\ Ends(RegLaneErrStatus)[1] = 32
BY SingleEnds DEF RegLaneErrStatus, SizeOf

LEMMA SecPciECapLaid ==
  /\ LayoutOf(SecPciECap, "link_ctl3") = RegLinkCtl3 /\ OffsetOf(SecPciECap, "link_ctl3") = 4
  /\ LayoutOf(SecPciECap, "lane_err_stat") = RegLaneErrStatus
  /\ OffsetOf(SecPciECap, "lane_err_stat") = 8
<1> DEFINE c == SecPciECap
           s == Sizes(c)
           e == Ends(s)
<1>1. /\ DOMAIN c = 1..3 /\ c[1] = <<"hdr", ExtCapHdr>> /\ c[2] = <<"link_ctl3", RegLinkCtl3>>
      /\ c[3] = <<"lane_err_stat", RegLaneErrStatus>>
  BY DEF SecPciECap
<1> HIDE DEF c
<1>2. \A j, k \in DOMAIN c : c[j][1] = c[k][1] => j = k
  BY <1>1
<1>3. s \in Seq(Nat) /\ Len(s) = 3 /\ s[1] = 4 /\ s[2] = 4 /\ s[3] = 4
  <2>1. s = [k \in 1..3 |-> SizeOf(c[k][2])]
    BY <1>1 DEF Sizes
  <2>2. SizeOf(ExtCapHdr) = 4 /\ SizeOf(RegLinkCtl3) = 4 /\ SizeOf(RegLaneErrStatus) = 4
    BY ExtCapHdrEnds, RegLinkCtl3Ends, RegLaneErrStatusEnds
  <2> HIDE DEF s
  <2>3. QED
    BY <1>1, <2>1, <2>2
<1> HIDE DEF s
<1>4. e[0] = 0 /\ \A k \in 1..3 : e[k] = e[k - 1] + s[k]
  BY <1>3, EndsDefined
<1> HIDE DEF e
<1>5. e[0] = 0 /\ e[1] = 4 /\ e[2] = 8
  BY <1>3, <1>4
<1>6. Position(s, 2) = 4 /\ Position(s, 3) = 8
  BY <1>5 DEF Position, e
<1>7. LayoutOf(c, "link_ctl3") = RegLinkCtl3 /\ OffsetOf(c, "link_ctl3") = 4
  <2>1. \A j \in DOMAIN c : c[j][1] = "link_ctl3" => j = 2
    BY <1>1, <1>2
  <2>2. Position(Sizes(c), 2) = 4
    BY <1>6 DEF s
  <2>3. 2 \in DOMAIN c /\ c[2] = <<"link_ctl3", RegLinkCtl3>>
    BY <1>1
  <2>4. QED
    BY <2>1, <2>2, <2>3, LaidOut
<1>8. LayoutOf(c, "lane_err_stat") = RegLaneErrStatus /\ OffsetOf(c, "lane_err_stat") = 8
  <2>1. \A j \in DOMAIN c : c[j][1] = "lane_err_stat" => j = 3
    BY <1>1, <1>2
  <2>2. Position(Sizes(c), 3) = 8
    BY <1>6 DEF s
  <2>3. 3 \in DOMAIN c /\ c[3] = <<"lane_err_stat", RegLaneErrStatus>>
    BY <1>1
  <2>4. QED
    BY <2>1, <2>2, <2>3, LaidOut
<1>9. QED
  BY <1>7, <1>8 DEF c

LEMMA LinkCtl3Tells == TextTells(SecondaryPCIETexts["link_ctl3"], 4, 32, {})
<1> DEFINE P == {Flags(0, 1, 1), Rsvd(2, 8), Field(9, 15, 4), Rsvd(16, 31)}
           R == UNION P
           e == Ends(RegLinkCtl3)
<1>0. /\ Len(RegLinkCtl3) = 5 /\ e[0] = 0 /\ e[1] = 1 /\ e[2] = 2 /\ e[3] = 9 /\ e[4] = 16
      /\ e[5] = 32
  BY RegLinkCtl3Ends
<1> HIDE DEF e
<1>1. ASSUME NEW r \in R, r[3] # None
      PROVE  ShowsField(RegLinkCtl3, r, 32, {})
  <2>1. /\ r[3] \in 1..5 /\ r[1] = e[r[3] - 1] /\ r[2] + 1 = e[r[3]]
        /\ e[r[3] - 1] \in Nat /\ e[r[3]] \in Nat
        /\ e[r[3] - 1] < e[r[3]] /\ e[r[3]] <= 32
    BY <1>0, <1>1 DEF None, Field, Flags, Rsvd
  <2>2. QED
    BY <1>0, <2>1 DEF ShowsField, HasField, First, Behind, All, e
<1>2. (\A r \in R : InReg(r, 32)) /\ Apart(R)
  BY DEF InReg, Apart, None, Field, Flags, Rsvd
<1>3. Covers(R, 0, 31)
  <2>1. /\ Flags(0, 1, 1) \in P /\ Rsvd(2, 8) \in P /\ Field(9, 15, 4) \in P
        /\ Rsvd(16, 31) \in P
    OBVIOUS
  <2> HIDE DEF P
  <2>2. Covers(R, 0, 1) /\ Covers(R, 2, 8) /\ Covers(R, 9, 15) /\ Covers(R, 16, 31)
    BY <2>1, PartsCover
  <2> HIDE DEF R
  <2>3. QED
    BY <2>2 DEF Covers
<1>4. Tells(Content(RegLinkCtl3, P), 32, {})
  BY <1>1, <1>2, <1>3, RegLinkCtl3Ends DEF Tells, Fits, Content
<1> HIDE DEF P
<1>5. /\ LayoutOf(SecPciECap, "link_ctl3") = RegLinkCtl3 /\ OffsetOf(SecPciECap, "link_ctl3") = 4
      /\ 8 * SizeOf(RegLinkCtl3) = 32
  BY SecPciECapLaid, RegLinkCtl3Ends
<1>6. TextTells(Member(SecPciECap, 4, "link_ctl3", P), 4, 32, {})
  BY <1>4, <1>5, MemberTells
<1>7. QED
  BY <1>6 DEF P, SecondaryPCIETexts

LEMMA LaneErrStatTells == TextTells(SecondaryPCIETexts["lane_err_stat"], 8, 32, {0})
<1> DEFINE P == {Field(0, 31, Low16(1))}
           R == UNION P
           e == Ends(RegLaneErrStatus)
<1>0. Len(RegLaneErrStatus) = 1 /\ e[0] = 0 /\ e[1] = 32
  BY RegLaneErrStatusEnds
<1> HIDE DEF e
<1>1. ASSUME NEW r \in R, r[3] # None
      PROVE  CutShort(RegLaneErrStatus, r, {0})
  <2>1. r = <<0, 31, -2>>
    BY <1>1 DEF Field, Low16, All
  <2>2. QED
    BY <1>0, <2>1 DEF CutShort, All, e
<1>2. (\A r \in R : InReg(r, 32)) /\ Apart(R)
  BY DEF InReg, Apart, None, Field, Low16
<1>3. Covers(R, 0, 31)
  <2>1. Field(0, 31, Low16(1)) \in P
    OBVIOUS
  <2> HIDE DEF P
  <2>2. Covers(R, 0, 31)
    BY <2>1, PartsCover
  <2> HIDE DEF R
  <2>3. QED
    BY <2>2 DEF Covers
<1>4. Tells(Content(RegLaneErrStatus, P), 32, {0})
  BY <1>1, <1>2, <1>3, RegLaneErrStatusEnds DEF Tells, Fits, Content
<1> HIDE DEF P
<1>5. /\ LayoutOf(SecPciECap, "lane_err_stat") = RegLaneErrStatus
      /\ OffsetOf(SecPciECap, "lane_err_stat") = 8
      /\ 8 * SizeOf(RegLaneErrStatus) = 32
  BY SecPciECapLaid, RegLaneErrStatusEnds
<1>6. TextTells(Member(SecPciECap, 8, "lane_err_stat", P), 8, 32, {0})
  BY <1>4, <1>5, MemberTells
<1>7. QED
  BY <1>6 DEF P, SecondaryPCIETexts

LEMMA SecondaryPCIETextsSound ==
  Sound(SecondaryPCIETexts, {"link_ctl3", "lane_err_stat"})
<1> DEFINE regs == {"link_ctl3", "lane_err_stat"}
           off == [link_ctl3 |-> 4, lane_err_stat |-> 8]
           size == [link_ctl3 |-> 4, lane_err_stat |-> 4]
           t == SecondaryPCIETexts
<1>1. /\ TextTells(t["link_ctl3"], 4, 32, {})
      /\ TextTells(t["lane_err_stat"], 8, 32, {0})
  BY LinkCtl3Tells, LaneErrStatTells DEF SecondaryPCIETexts
<1> HIDE DEF t
<1>2. Wrong("link_ctl3") = {} /\ Wrong("lane_err_stat") = {0}
  BY Mislabelling DEF Wrong, MislabelledRows
<1>3. \A r \in regs : TextTells(t[r], off[r], 8 * size[r], Wrong(r))
  BY <1>1, <1>2
<1>4. \A r, q \in regs : r # q => off[r] + size[r] <= off[q] \/ off[q] + size[q] <= off[r]
  OBVIOUS
<1>5. off \in [regs -> Nat] /\ size \in [regs -> Nat \ {0}]
  OBVIOUS
<1>6. \A r \in regs : r \notin {"bist", "bridge_ctl", "lane_eq_ctl"}
  OBVIOUS
<1> HIDE DEF off, size
<1>7. Sound(t, regs)
  BY <1>3, <1>4, <1>5, <1>6, TableSound
<1>8. QED
  BY <1>7 DEF t

LEMMA RegDataLinkFeatCapEnds ==
  /\ RegDataLinkFeatCap \in Seq(Nat) /\ Len(RegDataLinkFeatCap) = 3
  /\ Bits(RegDataLinkFeatCap) = 32 /\ SizeOf(RegDataLinkFeatCap) = 4
  /\ Ends(RegDataLinkFeatCap)[0] = 0 /\ Ends(RegDataLinkFeatCap)[1] = 23
  /\ Ends(RegDataLinkFeatCap)[2] = 31 /\ Ends(RegDataLinkFeatCap)[3] = 32
<1>1. RegDataLinkFeatCap \in Seq(Nat) /\ Len(RegDataLinkFeatCap) = 3
  BY DEF RegDataLinkFeatCap
<1> DEFINE e == Ends(RegDataLinkFeatCap)
<1>2. e[0] = 0 /\ \A n \in 1..3 : e[n] = e[n - 1] + RegDataLinkFeatCap[n]
  BY <1>1, EndsDefined
<1> HIDE DEF e
<1>3. e[0] = 0 /\ e[1] = 23 /\ e[2] = 31 /\ e[3] = 32
  BY <1>2 DEF RegDataLinkFeatCap
<1>4. QED
  BY <1>1, <1>3 DEF e, Bits, SizeOf

LEMMA RegDataLinkFeatStatusEnds ==
  /\ RegDataLinkFeatStatus \in Seq(Nat) /\ Len(RegDataLinkFeatStatus) = 3
  /\ Bits(RegDataLinkFeatStatus) = 32 /\ SizeOf(RegDataLinkFeatStatus) = 4
  /\ Ends(RegDataLinkFeatStatus)[0] = 0 /\ Ends(RegDataLinkFeatStatus)[1] = 23
  /\ Ends(RegDataLinkFeatStatus)[2] = 31 /\ Ends(RegDataLinkFeatStatus)[3] = 32
<1>1. RegDataLinkFeatStatus \in Seq(Nat) /\ Len(RegDataLinkFeatStatus) = 3
  BY DEF RegDataLinkFeatStatus
<1> DEFINE e == Ends(RegDataLinkFeatStatus)
<1>2. e[0] = 0 /\ \A n \in 1..3 : e[n] = e[n - 1] + RegDataLinkFeatStatus[n]
  BY <1>1, EndsDefined
<1> HIDE DEF e
<1>3. e[0] = 0 /\ e[1] = 23 /\ e[2] = 31 /\ e[3] = 32
  BY <1>2 DEF RegDataLinkFeatStatus
<1>4. QED
  BY <1>1, <1>3 DEF e, Bits, SizeOf

LEMMA DataLinkFeatureCapLaid ==
  /\ LayoutOf(DataLinkFeatureCap, "dlink_feat_cap") = RegDataLinkFeatCap
  /\ OffsetOf(DataLinkFeatureCap, "dlink_feat_cap") = 4
  /\ LayoutOf(DataLinkFeatureCap, "dlink_feat_stat") = RegDataLinkFeatStatus
  /\ OffsetOf(DataLinkFeatureCap, "dlink_feat_stat") = 8
<1> DEFINE c == DataLinkFeatureCap
           s == Sizes(c)
           e == Ends(s)
<1>1. /\ DOMAIN c = 1..3 /\ c[1] = <<"hdr", ExtCapHdr>>
      /\ c[2] = <<"dlink_feat_cap", RegDataLinkFeatCap>>
      /\ c[3] = <<"dlink_feat_stat", RegDataLinkFeatStatus>>
  BY DEF DataLinkFeatureCap
<1> HIDE DEF c
<1>2. \A j, k \in DOMAIN c : c[j][1] = c[k][1] => j = k
  BY <1>1
<1>3. s \in Seq(Nat) /\ Len(s) = 3 /\ s[1] = 4 /\ s[2] = 4 /\ s[3] = 4
  <2>1. s = [k \in 1..3 |-> SizeOf(c[k][2])]
    BY <1>1 DEF Sizes
  <2>2. /\ SizeOf(ExtCapHdr) = 4 /\ SizeOf(RegDataLinkFeatCap) = 4
        /\ SizeOf(RegDataLinkFeatStatus) = 4
    BY ExtCapHdrEnds, RegDataLinkFeatCapEnds, RegDataLinkFeatStatusEnds
  <2> HIDE DEF s
  <2>3. QED
    BY <1>1, <2>1, <2>2
<1> HIDE DEF s
<1>4. e[0] = 0 /\ \A k \in 1..3 : e[k] = e[k - 1] + s[k]
  BY <1>3, EndsDefined
<1> HIDE DEF e
<1>5. e[0] = 0 /\ e[1] = 4 /\ e[2] = 8
  BY <1>3, <1>4
<1>6. Position(s, 2) = 4 /\ Position(s, 3) = 8
  BY <1>5 DEF Position, e
<1>7. LayoutOf(c, "dlink_feat_cap") = RegDataLinkFeatCap /\ OffsetOf(c, "dlink_feat_cap") = 4
  <2>1. \A j \in DOMAIN c : c[j][1] = "dlink_feat_cap" => j = 2
    BY <1>1, <1>2
  <2>2. Position(Sizes(c), 2) = 4
    BY <1>6 DEF s
  <2>3. 2 \in DOMAIN c /\ c[2] = <<"dlink_feat_cap", RegDataLinkFeatCap>>
    BY <1>1
  <2>4. QED
    BY <2>1, <2>2, <2>3, LaidOut
<1>8. /\ LayoutOf(c, "dlink_feat_stat") = RegDataLinkFeatStatus
      /\ OffsetOf(c, "dlink_feat_stat") = 8
  <2>1. \A j \in DOMAIN c : c[j][1] = "dlink_feat_stat" => j = 3
    BY <1>1, <1>2
  <2>2. Position(Sizes(c), 3) = 8
    BY <1>6 DEF s
  <2>3. 3 \in DOMAIN c /\ c[3] = <<"dlink_feat_stat", RegDataLinkFeatStatus>>
    BY <1>1
  <2>4. QED
    BY <2>1, <2>2, <2>3, LaidOut
<1>9. QED
  BY <1>7, <1>8 DEF c

LEMMA DlinkFeatCapTells == TextTells(DataLinkFeatureTexts["dlink_feat_cap"], 4, 32, {0})
<1> DEFINE P == {Field(0, 22, Low16(1)), Rsvd(23, 30), Flag(31, 3)}
           R == UNION P
           e == Ends(RegDataLinkFeatCap)
<1>0. Len(RegDataLinkFeatCap) = 3 /\ e[0] = 0 /\ e[1] = 23 /\ e[2] = 31 /\ e[3] = 32
  BY RegDataLinkFeatCapEnds
<1> HIDE DEF e
<1>1. ASSUME NEW r \in R, r[3] # None
      PROVE  ShowsField(RegDataLinkFeatCap, r, 32, {0}) \/ CutShort(RegDataLinkFeatCap, r, {0})
  <2>1. r = <<0, 22, -2>> \/ r = <<31, 31, 3>>
    BY <1>1 DEF None, Field, Flag, Rsvd, Low16, All
  <2>2. CASE r = <<0, 22, -2>>
    BY <1>0, <2>2 DEF CutShort, All, e
  <2>3. CASE r = <<31, 31, 3>>
    BY <1>0, <2>3 DEF ShowsField, HasField, First, Behind, All, e
  <2>4. QED
    BY <2>1, <2>2, <2>3
<1>2. (\A r \in R : InReg(r, 32)) /\ Apart(R)
  BY DEF InReg, Apart, None, Field, Flag, Rsvd, Low16
<1>3. Covers(R, 0, 31)
  <2>1. Field(0, 22, Low16(1)) \in P /\ Rsvd(23, 30) \in P /\ Flag(31, 3) \in P
    OBVIOUS
  <2> HIDE DEF P
  <2>2. Covers(R, 0, 22) /\ Covers(R, 23, 30) /\ Covers(R, 31, 31)
    BY <2>1, PartsCover
  <2> HIDE DEF R
  <2>3. QED
    BY <2>2 DEF Covers
<1>4. Tells(Content(RegDataLinkFeatCap, P), 32, {0})
  BY <1>1, <1>2, <1>3, RegDataLinkFeatCapEnds DEF Tells, Fits, Content
<1> HIDE DEF P
<1>5. /\ LayoutOf(DataLinkFeatureCap, "dlink_feat_cap") = RegDataLinkFeatCap
      /\ OffsetOf(DataLinkFeatureCap, "dlink_feat_cap") = 4
      /\ 8 * SizeOf(RegDataLinkFeatCap) = 32
  BY DataLinkFeatureCapLaid, RegDataLinkFeatCapEnds
<1>6. TextTells(Member(DataLinkFeatureCap, 4, "dlink_feat_cap", P), 4, 32, {0})
  BY <1>4, <1>5, MemberTells
<1>7. QED
  BY <1>6 DEF P, DataLinkFeatureTexts

LEMMA DlinkFeatStatTells == TextTells(DataLinkFeatureTexts["dlink_feat_stat"], 8, 32, {0})
<1> DEFINE P == {Field(0, 22, Low16(1)), Rsvd(23, 30), Flag(31, 3)}
           R == UNION P
           e == Ends(RegDataLinkFeatStatus)
<1>0. Len(RegDataLinkFeatStatus) = 3 /\ e[0] = 0 /\ e[1] = 23 /\ e[2] = 31 /\ e[3] = 32
  BY RegDataLinkFeatStatusEnds
<1> HIDE DEF e
<1>1. ASSUME NEW r \in R, r[3] # None
      PROVE  ShowsField(RegDataLinkFeatStatus, r, 32, {0}) \/ CutShort(RegDataLinkFeatStatus, r, {0})
  <2>1. r = <<0, 22, -2>> \/ r = <<31, 31, 3>>
    BY <1>1 DEF None, Field, Flag, Rsvd, Low16, All
  <2>2. CASE r = <<0, 22, -2>>
    BY <1>0, <2>2 DEF CutShort, All, e
  <2>3. CASE r = <<31, 31, 3>>
    BY <1>0, <2>3 DEF ShowsField, HasField, First, Behind, All, e
  <2>4. QED
    BY <2>1, <2>2, <2>3
<1>2. (\A r \in R : InReg(r, 32)) /\ Apart(R)
  BY DEF InReg, Apart, None, Field, Flag, Rsvd, Low16
<1>3. Covers(R, 0, 31)
  <2>1. Field(0, 22, Low16(1)) \in P /\ Rsvd(23, 30) \in P /\ Flag(31, 3) \in P
    OBVIOUS
  <2> HIDE DEF P
  <2>2. Covers(R, 0, 22) /\ Covers(R, 23, 30) /\ Covers(R, 31, 31)
    BY <2>1, PartsCover
  <2> HIDE DEF R
  <2>3. QED
    BY <2>2 DEF Covers
<1>4. Tells(Content(RegDataLinkFeatStatus, P), 32, {0})
  BY <1>1, <1>2, <1>3, RegDataLinkFeatStatusEnds DEF Tells, Fits, Content
<1> HIDE DEF P
<1>5. /\ LayoutOf(DataLinkFeatureCap, "dlink_feat_stat") = RegDataLinkFeatStatus
      /\ OffsetOf(DataLinkFeatureCap, "dlink_feat_stat") = 8
      /\ 8 * SizeOf(RegDataLinkFeatStatus) = 32
  BY DataLinkFeatureCapLaid, RegDataLinkFeatStatusEnds
<1>6. TextTells(Member(DataLinkFeatureCap, 8, "dlink_feat_stat", P), 8, 32, {0})
  BY <1>4, <1>5, MemberTells
<1>7. QED
  BY <1>6 DEF P, DataLinkFeatureTexts

LEMMA DataLinkFeatureTextsSound ==
  Sound(DataLinkFeatureTexts, {"dlink_feat_cap",
                              "dlink_feat_stat"})
<1> DEFINE regs == {"dlink_feat_cap", "dlink_feat_stat"}
           off == [dlink_feat_cap |-> 4, dlink_feat_stat |-> 8]
           size == [dlink_feat_cap |-> 4, dlink_feat_stat |-> 4]
           t == DataLinkFeatureTexts
<1>1. /\ TextTells(t["dlink_feat_cap"], 4, 32, {0})
      /\ TextTells(t["dlink_feat_stat"], 8, 32, {0})
  BY DlinkFeatCapTells, DlinkFeatStatTells DEF DataLinkFeatureTexts
<1> HIDE DEF t
<1>2. \A r \in regs : Wrong(r) = {0}
  BY Mislabelling DEF Wrong, MislabelledRows
<1>3. \A r \in regs : TextTells(t[r], off[r], 8 * size[r], Wrong(r))
  BY <1>1, <1>2
<1>4. \A r, q \in regs : r # q => off[r] + size[r] <= off[q] \/ off[q] + size[q] <= off[r]
  OBVIOUS
<1>5. off \in [regs -> Nat] /\ size \in [regs -> Nat \ {0}]
  OBVIOUS
<1>6. \A r \in regs : r \notin {"bist", "bridge_ctl", "lane_eq_ctl"}
  OBVIOUS
<1> HIDE DEF off, size
<1>7. Sound(t, regs)
  BY <1>3, <1>4, <1>5, <1>6, TableSound
<1>8. QED
  BY <1>7 DEF t

LEMMA RegARICapabilityEnds ==
  /\ RegARICapability \in Seq(Nat) /\ Len(RegARICapability) = 4 /\ Bits(RegARICapability) = 16
  /\ SizeOf(RegARICapability) = 2 /\ Ends(RegARICapability)[0] = 0
  /\ Ends(RegARICapability)[1] = 1 /\ Ends(RegARICapability)[2] = 2
  /\ Ends(RegARICapability)[3] = 8 /\ Ends(RegARICapability)[4] = 16
<1>1. RegARICapability \in Seq(Nat) /\ Len(RegARICapability) = 4
  BY DEF RegARICapability
<1> DEFINE e == Ends(RegARICapability)
<1>2. e[0] = 0 /\ \A n \in 1..4 : e[n] = e[n - 1] + RegARICapability[n]
  BY <1>1, EndsDefined
<1> HIDE DEF e
<1>3. e[0] = 0 /\ e[1] = 1 /\ e[2] = 2 /\ e[3] = 8 /\ e[4] = 16
  BY <1>2 DEF RegARICapability
<1>4. QED
  BY <1>1, <1>3 DEF e, Bits, SizeOf

LEMMA RegARIControlEnds ==
  /\ RegARIControl \in Seq(Nat) /\ Len(RegARIControl) = 5 /\ Bits(RegARIControl) = 16
  /\ SizeOf(RegARIControl) = 2 /\ Ends(RegARIControl)[0] = 0 /\ Ends(RegARIControl)[1] = 1
  /\ Ends(RegARIControl)[2] = 2 /\ Ends(RegARIControl)[3] = 4 /\ Ends(RegARIControl)[4] = 7
  /\ Ends(RegARIControl)[5] = 16
<1>1. RegARIControl \in Seq(Nat) /\ Len(RegARIControl) = 5
  BY DEF RegARIControl
<1> DEFINE e == Ends(RegARIControl)
<1>2. e[0] = 0 /\ \A n \in 1..5 : e[n] = e[n - 1] + RegARIControl[n]
  BY <1>1, EndsDefined
<1> HIDE DEF e
<1>3. e[0] = 0 /\ e[1] = 1 /\ e[2] = 2 /\ e[3] = 4 /\ e[4] = 7 /\ e[5] = 16
  BY <1>2 DEF RegARIControl
<1>4. QED
  BY <1>1, <1>3 DEF e, Bits, SizeOf

LEMMA ARICapLaid ==
  /\ LayoutOf(ARICap, "ari_cap") = RegARICapability /\ OffsetOf(ARICap, "ari_cap") = 4
  /\ LayoutOf(ARICap, "ari_ctl") = RegARIControl /\ OffsetOf(ARICap, "ari_ctl") = 6
<1> DEFINE c == ARICap
           s == Sizes(c)
           e == Ends(s)
<1>1. /\ DOMAIN c = 1..3 /\ c[1] = <<"hdr", ExtCapHdr>>
      /\ c[2] = <<"ari_cap", RegARICapability>> /\ c[3] = <<"ari_ctl", RegARIControl>>
  BY DEF ARICap
<1> HIDE DEF c
<1>2. \A j, k \in DOMAIN c : c[j][1] = c[k][1] => j = k
  BY <1>1
<1>3. s \in Seq(Nat) /\ Len(s) = 3 /\ s[1] = 4 /\ s[2] = 2 /\ s[3] = 2
  <2>1. s = [k \in 1..3 |-> SizeOf(c[k][2])]
    BY <1>1 DEF Sizes
  <2>2. SizeOf(ExtCapHdr) = 4 /\ SizeOf(RegARICapability) = 2 /\ SizeOf(RegARIControl) = 2
    BY ExtCapHdrEnds, RegARICapabilityEnds, RegARIControlEnds
  <2> HIDE DEF s
  <2>3. QED
    BY <1>1, <2>1, <2>2
<1> HIDE DEF s
<1>4. e[0] = 0 /\ \A k \in 1..3 : e[k] = e[k - 1] + s[k]
  BY <1>3, EndsDefined
<1> HIDE DEF e
<1>5. e[0] = 0 /\ e[1] = 4 /\ e[2] = 6
  BY <1>3, <1>4
<1>6. Position(s, 2) = 4 /\ Position(s, 3) = 6
  BY <1>5 DEF Position, e
<1>7. LayoutOf(c, "ari_cap") = RegARICapability /\ OffsetOf(c, "ari_cap") = 4
  <2>1. \A j \in DOMAIN c : c[j][1] = "ari_cap" => j = 2
    BY <1>1, <1>2
  <2>2. Position(Sizes(c), 2) = 4
    BY <1>6 DEF s
  <2>3. 2 \in DOMAIN c /\ c[2] = <<"ari_cap", RegARICapability>>
    BY <1>1
  <2>4. QED
    BY <2>1, <2>2, <2>3, LaidOut
<1>8. LayoutOf(c, "ari_ctl") = RegARIControl /\ OffsetOf(c, "ari_ctl") = 6
  <2>1. \A j \in DOMAIN c : c[j][1] = "ari_ctl" => j = 3
    BY <1>1, <1>2
  <2>2. Position(Sizes(c), 3) = 6
    BY <1>6 DEF s
  <2>3. 3 \in DOMAIN c /\ c[3] = <<"ari_ctl", RegARIControl>>
    BY <1>1
  <2>4. QED
    BY <2>1, <2>2, <2>3, LaidOut
<1>9. QED
  BY <1>7, <1>8 DEF c

LEMMA ARICapTells == TextTells(ARITexts["ari_cap"], 4, 16, {})
<1> DEFINE P == {Flags(0, 1, 1), Rsvd(2, 7), Field(8, 15, 4)}
           R == UNION P
           e == Ends(RegARICapability)
<1>0. Len(RegARICapability) = 4 /\ e[0] = 0 /\ e[1] = 1 /\ e[2] = 2 /\ e[3] = 8 /\ e[4] = 16
  BY RegARICapabilityEnds
<1> HIDE DEF e
<1>1. ASSUME NEW r \in R, r[3] # None
      PROVE  ShowsField(RegARICapability, r, 16, {})
  <2>1. /\ r[3] \in 1..4 /\ r[1] = e[r[3] - 1] /\ r[2] + 1 = e[r[3]]
        /\ e[r[3] - 1] \in Nat /\ e[r[3]] \in Nat
        /\ e[r[3] - 1] < e[r[3]] /\ e[r[3]] <= 16
    <3>1. r \in {<<0, 0, 1>>, <<1, 1, 2>>, <<8, 15, 4>>}
      BY <1>1 DEF None, Field, Flags, Rsvd
    <3>2. \/ r[1] = 0 /\ r[2] = 0 /\ r[3] = 1
          \/ r[1] = 1 /\ r[2] = 1 /\ r[3] = 2
          \/ r[1] = 8 /\ r[2] = 15 /\ r[3] = 4
      BY <3>1
    <3>3. CASE r[1] = 0 /\ r[2] = 0 /\ r[3] = 1
      BY <1>0, <3>3
    <3>4. CASE r[1] = 1 /\ r[2] = 1 /\ r[3] = 2
      BY <1>0, <3>4
    <3>5. CASE r[1] = 8 /\ r[2] = 15 /\ r[3] = 4
      BY <1>0, <3>5
    <3>6. QED
      BY <3>2, <3>3, <3>4, <3>5
  <2>2. QED
    BY <1>0, <2>1 DEF ShowsField, HasField, First, Behind, All, e
<1>2. (\A r \in R : InReg(r, 16)) /\ Apart(R)
  BY DEF InReg, Apart, None, Field, Flags, Rsvd
<1>3. Covers(R, 0, 15)
  <2>1. Flags(0, 1, 1) \in P /\ Rsvd(2, 7) \in P /\ Field(8, 15, 4) \in P
    OBVIOUS
  <2> HIDE DEF P
  <2>2. Covers(R, 0, 1) /\ Covers(R, 2, 7) /\ Covers(R, 8, 15)
    BY <2>1, PartsCover
  <2> HIDE DEF R
  <2>3. QED
    BY <2>2 DEF Covers
<1>4. Tells(Content(RegARICapability, P), 16, {})
  BY <1>1, <1>2, <1>3, RegARICapabilityEnds DEF Tells, Fits, Content
<1> HIDE DEF P
<1>5. /\ LayoutOf(ARICap, "ari_cap") = RegARICapability /\ OffsetOf(ARICap, "ari_cap") = 4
      /\ 8 * SizeOf(RegARICapability) = 16
  BY ARICapLaid, RegARICapabilityEnds
<1>6. TextTells(Member(ARICap, 4, "ari_cap", P), 4, 16, {})
  BY <1>4, <1>5, MemberTells
<1>7. QED
  BY <1>6 DEF P, ARITexts

LEMMA ARICtlTells == TextTells(ARITexts["ari_ctl"], 6, 16, {})
<1> DEFINE P == {Flags(0, 1, 1), Rsvd(2, 3), Field(4, 6, 4), Rsvd(7, 15)}
           R == UNION P
           e == Ends(RegARIControl)
<1>0. /\ Len(RegARIControl) = 5 /\ e[0] = 0 /\ e[1] = 1 /\ e[2] = 2 /\ e[3] = 4 /\ e[4] = 7
      /\ e[5] = 16
  BY RegARIControlEnds
<1> HIDE DEF e
<1>1. ASSUME NEW r \in R, r[3] # None
      PROVE  ShowsField(RegARIControl, r, 16, {})
  <2>1. /\ r[3] \in 1..5 /\ r[1] = e[r[3] - 1] /\ r[2] + 1 = e[r[3]]
        /\ e[r[3] - 1] \in Nat /\ e[r[3]] \in Nat
        /\ e[r[3] - 1] < e[r[3]] /\ e[r[3]] <= 16
    BY <1>0, <1>1 DEF None, Field, Flags, Rsvd
  <2>2. QED
    BY <1>0, <2>1 DEF ShowsField, HasField, First, Behind, All, e
<1>2. (\A r \in R : InReg(r, 16)) /\ Apart(R)
  BY DEF InReg, Apart, None, Field, Flags, Rsvd
<1>3. Covers(R, 0, 15)
  <2>1. Flags(0, 1, 1) \in P /\ Rsvd(2, 3) \in P /\ Field(4, 6, 4) \in P /\ Rsvd(7, 15) \in P
    OBVIOUS
  <2> HIDE DEF P
  <2>2. Covers(R, 0, 1) /\ Covers(R, 2, 3) /\ Covers(R, 4, 6) /\ Covers(R, 7, 15)
    BY <2>1, PartsCover
  <2> HIDE DEF R
  <2>3. QED
    BY <2>2 DEF Covers
<1>4. Tells(Content(RegARIControl, P), 16, {})
  BY <1>1, <1>2, <1>3, RegARIControlEnds DEF Tells, Fits, Content
<1> HIDE DEF P
<1>5. /\ LayoutOf(ARICap, "ari_ctl") = RegARIControl /\ OffsetOf(ARICap, "ari_ctl") = 6
      /\ 8 * SizeOf(RegARIControl) = 16
  BY ARICapLaid, RegARIControlEnds
<1>6. TextTells(Member(ARICap, 6, "ari_ctl", P), 6, 16, {})
  BY <1>4, <1>5, MemberTells
<1>7. QED
  BY <1>6 DEF P, ARITexts

LEMMA ARITextsSound ==
  Sound(ARITexts, {"ari_cap", "ari_ctl"})
<1> DEFINE regs == {"ari_cap", "ari_ctl"}
           off == [ari_cap |-> 4, ari_ctl |-> 6]
           size == [ari_cap |-> 2, ari_ctl |-> 2]
           t == ARITexts
<1>1. /\ TextTells(t["ari_cap"], 4, 16, {})
      /\ TextTells(t["ari_ctl"], 6, 16, {})
  BY ARICapTells, ARICtlTells DEF ARITexts
<1> HIDE DEF t
<1>2. \A r \in regs : Wrong(r) = {}
  BY Mislabelling DEF Wrong, MislabelledRows
<1>3. \A r \in regs : TextTells(t[r], off[r], 8 * size[r], Wrong(r))
  BY <1>1, <1>2
<1>4. \A r, q \in regs : r # q => off[r] + size[r] <= off[q] \/ off[q] + size[q] <= off[r]
  OBVIOUS
<1>5. off \in [regs -> Nat] /\ size \in [regs -> Nat \ {0}]
  OBVIOUS
<1>6. \A r \in regs : r \notin {"bist", "bridge_ctl", "lane_eq_ctl"}
  OBVIOUS
<1> HIDE DEF off, size
<1>7. Sound(t, regs)
  BY <1>3, <1>4, <1>5, <1>6, TableSound
<1>8. QED
  BY <1>7 DEF t

LEMMA RegPASIDCapabilityEnds ==
  /\ RegPASIDCapability \in Seq(Nat) /\ Len(RegPASIDCapability) = 6
  /\ Bits(RegPASIDCapability) = 16 /\ SizeOf(RegPASIDCapability) = 2
  /\ Ends(RegPASIDCapability)[0] = 0 /\ Ends(RegPASIDCapability)[1] = 1
  /\ Ends(RegPASIDCapability)[2] = 2 /\ Ends(RegPASIDCapability)[3] = 3
  /\ Ends(RegPASIDCapability)[4] = 8 /\ Ends(RegPASIDCapability)[5] = 13
  /\ Ends(RegPASIDCapability)[6] = 16
<1>1. RegPASIDCapability \in Seq(Nat) /\ Len(RegPASIDCapability) = 6
  BY DEF RegPASIDCapability
<1> DEFINE e == Ends(RegPASIDCapability)
<1>2. e[0] = 0 /\ \A n \in 1..6 : e[n] = e[n - 1] + RegPASIDCapability[n]
  BY <1>1, EndsDefined
<1> HIDE DEF e
<1>3. e[0] = 0 /\ e[1] = 1 /\ e[2] = 2 /\ e[3] = 3 /\ e[4] = 8 /\ e[5] = 13 /\ e[6] = 16
  BY <1>2 DEF RegPASIDCapability
<1>4. QED
  BY <1>1, <1>3 DEF e, Bits, SizeOf

LEMMA RegPASIDControlEnds ==
  /\ RegPASIDControl \in Seq(Nat) /\ Len(RegPASIDControl) = 4 /\ Bits(RegPASIDControl) = 16
  /\ SizeOf(RegPASIDControl) = 2 /\ Ends(RegPASIDControl)[0] = 0
  /\ Ends(RegPASIDControl)[1] = 1 /\ Ends(RegPASIDControl)[2] = 2
  /\ Ends(RegPASIDControl)[3] = 3 /\ Ends(RegPASIDControl)[4] = 16
<1>1. RegPASIDControl \in Seq(Nat) /\ Len(RegPASIDControl) = 4
  BY DEF RegPASIDControl
<1> DEFINE e == Ends(RegPASIDControl)
<1>2. e[0] = 0 /\ \A n \in 1..4 : e[n] = e[n - 1] + RegPASIDControl[n]
  BY <1>1, EndsDefined
<1> HIDE DEF e
<1>3. e[0] = 0 /\ e[1] = 1 /\ e[2] = 2 /\ e[3] = 3 /\ e[4] = 16
  BY <1>2 DEF RegPASIDControl
<1>4. QED
  BY <1>1, <1>3 DEF e, Bits, SizeOf

LEMMA PASIDCapLaid ==
  /\ LayoutOf(PASIDCap, "pasid_cap") = RegPASIDCapability /\ OffsetOf(PASIDCap, "pasid_cap") = 4
  /\ LayoutOf(PASIDCap, "pasid_ctl") = RegPASIDControl /\ OffsetOf(PASIDCap, "pasid_ctl") = 6
<1> DEFINE c == PASIDCap
           s == Sizes(c)
           e == Ends(s)
<1>1. /\ DOMAIN c = 1..3 /\ c[1] = <<"hdr", ExtCapHdr>>
      /\ c[2] = <<"pasid_cap", RegPASIDCapability>> /\ c[3] = <<"pasid_ctl", RegPASIDControl>>
  BY DEF PASIDCap
<1> HIDE DEF c
<1>2. \A j, k \in DOMAIN c : c[j][1] = c[k][1] => j = k
  BY <1>1
<1>3. s \in Seq(Nat) /\ Len(s) = 3 /\ s[1] = 4 /\ s[2] = 2 /\ s[3] = 2
  <2>1. s = [k \in 1..3 |-> SizeOf(c[k][2])]
    BY <1>1 DEF Sizes
  <2>2. SizeOf(ExtCapHdr) = 4 /\ SizeOf(RegPASIDCapability) = 2 /\ SizeOf(RegPASIDControl) = 2
    BY ExtCapHdrEnds, RegPASIDCapabilityEnds, RegPASIDControlEnds
  <2> HIDE DEF s
  <2>3. QED
    BY <1>1, <2>1, <2>2
<1> HIDE DEF s
<1>4. e[0] = 0 /\ \A k \in 1..3 : e[k] = e[k - 1] + s[k]
  BY <1>3, EndsDefined
<1> HIDE DEF e
<1>5. e[0] = 0 /\ e[1] = 4 /\ e[2] = 6
  BY <1>3, <1>4
<1>6. Position(s, 2) = 4 /\ Position(s, 3) = 6
  BY <1>5 DEF Position, e
<1>7. LayoutOf(c, "pasid_cap") = RegPASIDCapability /\ OffsetOf(c, "pasid_cap") = 4
  <2>1. \A j \in DOMAIN c : c[j][1] = "pasid_cap" => j = 2
    BY <1>1, <1>2
  <2>2. Position(Sizes(c), 2) = 4
    BY <1>6 DEF s
  <2>3. 2 \in DOMAIN c /\ c[2] = <<"pasid_cap", RegPASIDCapability>>
    BY <1>1
  <2>4. QED
    BY <2>1, <2>2, <2>3, LaidOut
<1>8. LayoutOf(c, "pasid_ctl") = RegPASIDControl /\ OffsetOf(c, "pasid_ctl") = 6
  <2>1. \A j \in DOMAIN c : c[j][1] = "pasid_ctl" => j = 3
    BY <1>1, <1>2
  <2>2. Position(Sizes(c), 3) = 6
    BY <1>6 DEF s
  <2>3. 3 \in DOMAIN c /\ c[3] = <<"pasid_ctl", RegPASIDControl>>
    BY <1>1
  <2>4. QED
    BY <2>1, <2>2, <2>3, LaidOut
<1>9. QED
  BY <1>7, <1>8 DEF c

LEMMA PASIDCapTells == TextTells(PASIDTexts["pasid_cap"], 4, 16, {})
<1> DEFINE P == {Rsvd(0, 0), Flags(1, 2, 2), Rsvd(3, 7), Field(8, 12, 5), Rsvd(13, 15)}
           R == UNION P
           e == Ends(RegPASIDCapability)
<1>0. /\ Len(RegPASIDCapability) = 6 /\ e[0] = 0 /\ e[1] = 1 /\ e[2] = 2 /\ e[3] = 3
      /\ e[4] = 8 /\ e[5] = 13 /\ e[6] = 16
  BY RegPASIDCapabilityEnds
<1> HIDE DEF e
<1>1. ASSUME NEW r \in R, r[3] # None
      PROVE  ShowsField(RegPASIDCapability, r, 16, {})
  <2>1. /\ r[3] \in 1..6 /\ r[1] = e[r[3] - 1] /\ r[2] + 1 = e[r[3]]
        /\ e[r[3] - 1] \in Nat /\ e[r[3]] \in Nat
        /\ e[r[3] - 1] < e[r[3]] /\ e[r[3]] <= 16
    BY <1>0, <1>1 DEF None, Field, Flags, Rsvd
  <2>2. QED
    BY <1>0, <2>1 DEF ShowsField, HasField, First, Behind, All, e
<1>2. (\A r \in R : InReg(r, 16)) /\ Apart(R)
  BY DEF InReg, Apart, None, Field, Flags, Rsvd
<1>3. Covers(R, 0, 15)
  <2>1. /\ Rsvd(0, 0) \in P /\ Flags(1, 2, 2) \in P /\ Rsvd(3, 7) \in P
        /\ Field(8, 12, 5) \in P /\ Rsvd(13, 15) \in P
    OBVIOUS
  <2> HIDE DEF P
  <2>2. /\ Covers(R, 0, 0) /\ Covers(R, 1, 2) /\ Covers(R, 3, 7) /\ Covers(R, 8, 12)
        /\ Covers(R, 13, 15)
    BY <2>1, PartsCover
  <2> HIDE DEF R
  <2>3. QED
    BY <2>2 DEF Covers
<1>4. Tells(Content(RegPASIDCapability, P), 16, {})
  BY <1>1, <1>2, <1>3, RegPASIDCapabilityEnds DEF Tells, Fits, Content
<1> HIDE DEF P
<1>5. /\ LayoutOf(PASIDCap, "pasid_cap") = RegPASIDCapability
      /\ OffsetOf(PASIDCap, "pasid_cap") = 4
      /\ 8 * SizeOf(RegPASIDCapability) = 16
  BY PASIDCapLaid, RegPASIDCapabilityEnds
<1>6. TextTells(Member(PASIDCap, 4, "pasid_cap", P), 4, 16, {})
  BY <1>4, <1>5, MemberTells
<1>7. QED
  BY <1>6 DEF P, PASIDTexts

LEMMA PASIDCtlTells == TextTells(PASIDTexts["pasid_ctl"], 6, 16, {})
<1> DEFINE P == {Flags(0, 2, 1), Rsvd(3, 15)}
           R == UNION P
           e == Ends(RegPASIDControl)
<1>0. Len(RegPASIDControl) = 4 /\ e[0] = 0 /\ e[1] = 1 /\ e[2] = 2 /\ e[3] = 3 /\ e[4] = 16
  BY RegPASIDControlEnds
<1> HIDE DEF e
<1>1. ASSUME NEW r \in R, r[3] # None
      PROVE  ShowsField(RegPASIDControl, r, 16, {})
  <2>1. /\ r[3] \in 1..4 /\ r[1] = e[r[3] - 1] /\ r[2] + 1 = e[r[3]]
        /\ e[r[3] - 1] \in Nat /\ e[r[3]] \in Nat
        /\ e[r[3] - 1] < e[r[3]] /\ e[r[3]] <= 16
    <3>1. r \in {<<0, 0, 1>>, <<1, 1, 2>>, <<2, 2, 3>>}
      BY <1>1 DEF None, Flags, Rsvd
    <3>2. QED
      BY <1>0, <3>1
  <2>2. QED
    BY <1>0, <2>1 DEF ShowsField, HasField, First, Behind, All, e
<1>2. (\A r \in R : InReg(r, 16)) /\ Apart(R)
  BY DEF InReg, Apart, None, Flags, Rsvd
<1>3. Covers(R, 0, 15)
  <2>1. Flags(0, 2, 1) \in P /\ Rsvd(3, 15) \in P
    OBVIOUS
  <2> HIDE DEF P
  <2>2. Covers(R, 0, 2) /\ Covers(R, 3, 15)
    BY <2>1, PartsCover
  <2> HIDE DEF R
  <2>3. QED
    BY <2>2 DEF Covers
<1>4. Tells(Content(RegPASIDControl, P), 16, {})
  BY <1>1, <1>2, <1>3, RegPASIDControlEnds DEF Tells, Fits, Content
<1> HIDE DEF P
<1>5. /\ LayoutOf(PASIDCap, "pasid_ctl") = RegPASIDControl /\ OffsetOf(PASIDCap, "pasid_ctl") = 6
      /\ 8 * SizeOf(RegPASIDControl) = 16
  BY PASIDCapLaid, RegPASIDControlEnds
<1>6. TextTells(Member(PASIDCap, 6, "pasid_ctl", P), 6, 16, {})
  BY <1>4, <1>5, MemberTells
<1>7. QED
  BY <1>6 DEF P, PASIDTexts

LEMMA PASIDTextsSound ==
  Sound(PASIDTexts, {"pasid_cap", "pasid_ctl"})
<1> DEFINE regs == {"pasid_cap", "pasid_ctl"}
           off == [pasid_cap |-> 4, pasid_ctl |-> 6]
           size == [pasid_cap |-> 2, pasid_ctl |-> 2]
           t == PASIDTexts
<1>1. /\ TextTells(t["pasid_cap"], 4, 16, {})
      /\ TextTells(t["pasid_ctl"], 6, 16, {})
  BY PASIDCapTells, PASIDCtlTells DEF PASIDTexts
<1> HIDE DEF t
<1>2. \A r \in regs : Wrong(r) = {}
  BY Mislabelling DEF Wrong, MislabelledRows
<1>3. \A r \in regs : TextTells(t[r], off[r], 8 * size[r], Wrong(r))
  BY <1>1, <1>2
<1>4. \A r, q \in regs : r # q => off[r] + size[r] <= off[q] \/ off[q] + size[q] <= off[r]
  OBVIOUS
<1>5. off \in [regs -> Nat] /\ size \in [regs -> Nat \ {0}]
  OBVIOUS
<1>6. \A r \in regs : r \notin {"bist", "bridge_ctl", "lane_eq_ctl"}
  OBVIOUS
<1> HIDE DEF off, size
<1>7. Sound(t, regs)
  BY <1>3, <1>4, <1>5, <1>6, TableSound
<1>8. QED
  BY <1>7 DEF t

LEMMA RegAERUncorrStatusEnds ==
  /\ RegAERUncorrStatus \in Seq(Nat) /\ Len(RegAERUncorrStatus) = 20
  /\ Bits(RegAERUncorrStatus) = 32 /\ SizeOf(RegAERUncorrStatus) = 4
  /\ Ends(RegAERUncorrStatus)[0] = 0 /\ Ends(RegAERUncorrStatus)[1] = 4
  /\ Ends(RegAERUncorrStatus)[2] = 5 /\ Ends(RegAERUncorrStatus)[3] = 6
  /\ Ends(RegAERUncorrStatus)[4] = 12 /\ Ends(RegAERUncorrStatus)[5] = 13
  /\ Ends(RegAERUncorrStatus)[6] = 14 /\ Ends(RegAERUncorrStatus)[7] = 15
  /\ Ends(RegAERUncorrStatus)[8] = 16 /\ Ends(RegAERUncorrStatus)[9] = 17
  /\ Ends(RegAERUncorrStatus)[10] = 18 /\ Ends(RegAERUncorrStatus)[11] = 19
  /\ Ends(RegAERUncorrStatus)[12] = 20 /\ Ends(RegAERUncorrStatus)[13] = 21
  /\ Ends(RegAERUncorrStatus)[14] = 22 /\ Ends(RegAERUncorrStatus)[15] = 23
  /\ Ends(RegAERUncorrStatus)[16] = 24 /\ Ends(RegAERUncorrStatus)[17] = 25
  /\ Ends(RegAERUncorrStatus)[18] = 26 /\ Ends(RegAERUncorrStatus)[19] = 27
  /\ Ends(RegAERUncorrStatus)[20] = 32
<1>1. RegAERUncorrStatus \in Seq(Nat) /\ Len(RegAERUncorrStatus) = 20
  BY DEF RegAERUncorrStatus
<1> DEFINE e == Ends(RegAERUncorrStatus)
<1>2. e[0] = 0 /\ \A n \in 1..20 : e[n] = e[n - 1] + RegAERUncorrStatus[n]
  BY <1>1, EndsDefined
<1> HIDE DEF e
<1>3. /\ e[0] = 0 /\ e[1] = 4 /\ e[2] = 5 /\ e[3] = 6 /\ e[4] = 12 /\ e[5] = 13 /\ e[6] = 14
      /\ e[7] = 15 /\ e[8] = 16 /\ e[9] = 17 /\ e[10] = 18 /\ e[11] = 19 /\ e[12] = 20
      /\ e[13] = 21 /\ e[14] = 22 /\ e[15] = 23 /\ e[16] = 24 /\ e[17] = 25 /\ e[18] = 26
      /\ e[19] = 27 /\ e[20] = 32
  BY <1>2 DEF RegAERUncorrStatus
<1>4. QED
  BY <1>1, <1>3 DEF e, Bits, SizeOf

LEMMA RegAERUncorrMaskEnds ==
  /\ RegAERUncorrMask \in Seq(Nat) /\ Len(RegAERUncorrMask) = 20
  /\ Bits(RegAERUncorrMask) = 32 /\ SizeOf(RegAERUncorrMask) = 4
  /\ Ends(RegAERUncorrMask)[0] = 0 /\ Ends(RegAERUncorrMask)[1] = 4
  /\ Ends(RegAERUncorrMask)[2] = 5 /\ Ends(RegAERUncorrMask)[3] = 6
  /\ Ends(RegAERUncorrMask)[4] = 12 /\ Ends(RegAERUncorrMask)[5] = 13
  /\ Ends(RegAERUncorrMask)[6] = 14 /\ Ends(RegAERUncorrMask)[7] = 15
  /\ Ends(RegAERUncorrMask)[8] = 16 /\ Ends(RegAERUncorrMask)[9] = 17
  /\ Ends(RegAERUncorrMask)[10] = 18 /\ Ends(RegAERUncorrMask)[11] = 19
  /\ Ends(RegAERUncorrMask)[12] = 20 /\ Ends(RegAERUncorrMask)[13] = 21
  /\ Ends(RegAERUncorrMask)[14] = 22 /\ Ends(RegAERUncorrMask)[15] = 23
  /\ Ends(RegAERUncorrMask)[16] = 24 /\ Ends(RegAERUncorrMask)[17] = 25
  /\ Ends(RegAERUncorrMask)[18] = 26 /\ Ends(RegAERUncorrMask)[19] = 27
  /\ Ends(RegAERUncorrMask)[20] = 32
<1>1. RegAERUncorrMask \in Seq(Nat) /\ Len(RegAERUncorrMask) = 20
  BY DEF RegAERUncorrMask
<1> DEFINE e == Ends(RegAERUncorrMask)
<1>2. e[0] = 0 /\ \A n \in 1..20 : e[n] = e[n - 1] + RegAERUncorrMask[n]
  BY <1>1, EndsDefined
<1> HIDE DEF e
<1>3. /\ e[0] = 0 /\ e[1] = 4 /\ e[2] = 5 /\ e[3] = 6 /\ e[4] = 12 /\ e[5] = 13 /\ e[6] = 14
      /\ e[7] = 15 /\ e[8] = 16 /\ e[9] = 17 /\ e[10] = 18 /\ e[11] = 19 /\ e[12] = 20
      /\ e[13] = 21 /\ e[14] = 22 /\ e[15] = 23 /\ e[16] = 24 /\ e[17] = 25 /\ e[18] = 26
      /\ e[19] = 27 /\ e[20] = 32
  BY <1>2 DEF RegAERUncorrMask
<1>4. QED
  BY <1>1, <1>3 DEF e, Bits, SizeOf

LEMMA RegAERUncorrSeverityEnds ==
  /\ RegAERUncorrSeverity \in Seq(Nat) /\ Len(RegAERUncorrSeverity) = 20
  /\ Bits(RegAERUncorrSeverity) = 32 /\ SizeOf(RegAERUncorrSeverity) = 4
  /\ Ends(RegAERUncorrSeverity)[0] = 0 /\ Ends(RegAERUncorrSeverity)[1] = 4
  /\ Ends(RegAERUncorrSeverity)[2] = 5 /\ Ends(RegAERUncorrSeverity)[3] = 6
  /\ Ends(RegAERUncorrSeverity)[4] = 12 /\ Ends(RegAERUncorrSeverity)[5] = 13
  /\ Ends(RegAERUncorrSeverity)[6] = 14 /\ Ends(RegAERUncorrSeverity)[7] = 15
  /\ Ends(RegAERUncorrSeverity)[8] = 16 /\ Ends(RegAERUncorrSeverity)[9] = 17
  /\ Ends(RegAERUncorrSeverity)[10] = 18 /\ Ends(RegAERUncorrSeverity)[11] = 19
  /\ Ends(RegAERUncorrSeverity)[12] = 20 /\ Ends(RegAERUncorrSeverity)[13] = 21
  /\ Ends(RegAERUncorrSeverity)[14] = 22 /\ Ends(RegAERUncorrSeverity)[15] = 23
  /\ Ends(RegAERUncorrSeverity)[16] = 24 /\ Ends(RegAERUncorrSeverity)[17] = 25
  /\ Ends(RegAERUncorrSeverity)[18] = 26 /\ Ends(RegAERUncorrSeverity)[19] = 27
  /\ Ends(RegAERUncorrSeverity)[20] = 32
<1>1. RegAERUncorrSeverity \in Seq(Nat) /\ Len(RegAERUncorrSeverity) = 20
  BY DEF RegAERUncorrSeverity
<1> DEFINE e == Ends(RegAERUncorrSeverity)
<1>2. e[0] = 0 /\ \A n \in 1..20 : e[n] = e[n - 1] + RegAERUncorrSeverity[n]
  BY <1>1, EndsDefined
<1> HIDE DEF e
<1>3. /\ e[0] = 0 /\ e[1] = 4 /\ e[2] = 5 /\ e[3] = 6 /\ e[4] = 12 /\ e[5] = 13 /\ e[6] = 14
      /\ e[7] = 15 /\ e[8] = 16 /\ e[9] = 17 /\ e[10] = 18 /\ e[11] = 19 /\ e[12] = 20
      /\ e[13] = 21 /\ e[14] = 22 /\ e[15] = 23 /\ e[16] = 24 /\ e[17] = 25 /\ e[18] = 26
      /\ e[19] = 27 /\ e[20] = 32
  BY <1>2 DEF RegAERUncorrSeverity
<1>4. QED
  BY <1>1, <1>3 DEF e, Bits, SizeOf

LEMMA RegAERCorrStatusEnds ==
  /\ RegAERCorrStatus \in Seq(Nat) /\ Len(RegAERCorrStatus) = 11
  /\ Bits(RegAERCorrStatus) = 32 /\ SizeOf(RegAERCorrStatus) = 4
  /\ Ends(RegAERCorrStatus)[0] = 0 /\ Ends(RegAERCorrStatus)[1] = 1
  /\ Ends(RegAERCorrStatus)[2] = 6 /\ Ends(RegAERCorrStatus)[3] = 7
  /\ Ends(RegAERCorrStatus)[4] = 8 /\ Ends(RegAERCorrStatus)[5] = 9
  /\ Ends(RegAERCorrStatus)[6] = 12 /\ Ends(RegAERCorrStatus)[7] = 13
  /\ Ends(RegAERCorrStatus)[8] = 14 /\ Ends(RegAERCorrStatus)[9] = 15
  /\ Ends(RegAERCorrStatus)[10] = 16 /\ Ends(RegAERCorrStatus)[11] = 32
<1>1. RegAERCorrStatus \in Seq(Nat) /\ Len(RegAERCorrStatus) = 11
  BY DEF RegAERCorrStatus
<1> DEFINE e == Ends(RegAERCorrStatus)
<1>2. e[0] = 0 /\ \A n \in 1..11 : e[n] = e[n - 1] + RegAERCorrStatus[n]
  BY <1>1, EndsDefined
<1> HIDE DEF e
<1>3. /\ e[0] = 0 /\ e[1] = 1 /\ e[2] = 6 /\ e[3] = 7 /\ e[4] = 8 /\ e[5] = 9 /\ e[6] = 12
      /\ e[7] = 13 /\ e[8] = 14 /\ e[9] = 15 /\ e[10] = 16 /\ e[11] = 32
  BY <1>2 DEF RegAERCorrStatus
<1>4. QED
  BY <1>1, <1>3 DEF e, Bits, SizeOf

LEMMA RegAERCorrMaskEnds ==
  /\ RegAERCorrMask \in Seq(Nat) /\ Len(RegAERCorrMask) = 11 /\ Bits(RegAERCorrMask) = 32
  /\ SizeOf(RegAERCorrMask) = 4 /\ Ends(RegAERCorrMask)[0] = 0 /\ Ends(RegAERCorrMask)[1] = 1
  /\ Ends(RegAERCorrMask)[2] = 6 /\ Ends(RegAERCorrMask)[3] = 7 /\ Ends(RegAERCorrMask)[4] = 8
  /\ Ends(RegAERCorrMask)[5] = 9 /\ Ends(RegAERCorrMask)[6] = 12
  /\ Ends(RegAERCorrMask)[7] = 13 /\ Ends(RegAERCorrMask)[8] = 14
  /\ Ends(RegAERCorrMask)[9] = 15 /\ Ends(RegAERCorrMask)[10] = 16
  /\ Ends(RegAERCorrMask)[11] = 32
<1>1. RegAERCorrMask \in Seq(Nat) /\ Len(RegAERCorrMask) = 11
  BY DEF RegAERCorrMask
<1> DEFINE e == Ends(RegAERCorrMask)
<1>2. e[0] = 0 /\ \A n \in 1..11 : e[n] = e[n - 1] + RegAERCorrMask[n]
  BY <1>1, EndsDefined
<1> HIDE DEF e
<1>3. /\ e[0] = 0 /\ e[1] = 1 /\ e[2] = 6 /\ e[3] = 7 /\ e[4] = 8 /\ e[5] = 9 /\ e[6] = 12
      /\ e[7] = 13 /\ e[8] = 14 /\ e[9] = 15 /\ e[10] = 16 /\ e[11] = 32
  BY <1>2 DEF RegAERCorrMask
<1>4. QED
  BY <1>1, <1>3 DEF e, Bits, SizeOf

LEMMA RegAERAecCtlEnds ==
  /\ RegAERAecCtl \in Seq(Nat) /\ Len(RegAERAecCtl) = 10 /\ Bits(RegAERAecCtl) = 32
  /\ SizeOf(RegAERAecCtl) = 4 /\ Ends(RegAERAecCtl)[0] = 0 /\ Ends(RegAERAecCtl)[1] = 5
  /\ Ends(RegAERAecCtl)[2] = 6 /\ Ends(RegAERAecCtl)[3] = 7 /\ Ends(RegAERAecCtl)[4] = 8
  /\ Ends(RegAERAecCtl)[5] = 9 /\ Ends(RegAERAecCtl)[6] = 10 /\ Ends(RegAERAecCtl)[7] = 11
  /\ Ends(RegAERAecCtl)[8] = 12 /\ Ends(RegAERAecCtl)[9] = 13 /\ Ends(RegAERAecCtl)[10] = 32
<1>1. RegAERAecCtl \in Seq(Nat) /\ Len(RegAERAecCtl) = 10
  BY DEF RegAERAecCtl
<1> DEFINE e == Ends(RegAERAecCtl)
<1>2. e[0] = 0 /\ \A n \in 1..10 : e[n] = e[n - 1] + RegAERAecCtl[n]
  BY <1>1, EndsDefined
<1> HIDE DEF e
<1>3. /\ e[0] = 0 /\ e[1] = 5 /\ e[2] = 6 /\ e[3] = 7 /\ e[4] = 8 /\ e[5] = 9 /\ e[6] = 10
      /\ e[7] = 11 /\ e[8] = 12 /\ e[9] = 13 /\ e[10] = 32
  BY <1>2 DEF RegAERAecCtl
<1>4. QED
  BY <1>1, <1>3 DEF e, Bits, SizeOf

LEMMA RegAERHdrLogEnds ==
  /\ RegAERHdrLog \in Seq(Nat) /\ Len(RegAERHdrLog) = 1 /\ Bits(RegAERHdrLog) = 128
  /\ SizeOf(RegAERHdrLog) = 16 /\ Ends(RegAERHdrLog)[0] = 0 /\ Ends(RegAERHdrLog)[1] = 128
BY SingleEnds DEF RegAERHdrLog, SizeOf

LEMMA RegAERRootErrCmdEnds ==
  /\ RegAERRootErrCmd \in Seq(Nat) /\ Len(RegAERRootErrCmd) = 4 /\ Bits(RegAERRootErrCmd) = 32
  /\ SizeOf(RegAERRootErrCmd) = 4 /\ Ends(RegAERRootErrCmd)[0] = 0
  /\ Ends(RegAERRootErrCmd)[1] = 1 /\ Ends(RegAERRootErrCmd)[2] = 2
  /\ Ends(RegAERRootErrCmd)[3] = 3 /\ Ends(RegAERRootErrCmd)[4] = 32
<1>1. RegAERRootErrCmd \in Seq(Nat) /\ Len(RegAERRootErrCmd) = 4
  BY DEF RegAERRootErrCmd
<1> DEFINE e == Ends(RegAERRootErrCmd)
<1>2. e[0] = 0 /\ \A n \in 1..4 : e[n] = e[n - 1] + RegAERRootErrCmd[n]
  BY <1>1, EndsDefined
<1> HIDE DEF e
<1>3. e[0] = 0 /\ e[1] = 1 /\ e[2] = 2 /\ e[3] = 3 /\ e[4] = 32
  BY <1>2 DEF RegAERRootErrCmd
<1>4. QED
  BY <1>1, <1>3 DEF e, Bits, SizeOf

LEMMA RegAERRootErrStatusEnds ==
  /\ RegAERRootErrStatus \in Seq(Nat) /\ Len(RegAERRootErrStatus) = 9
  /\ Bits(RegAERRootErrStatus) = 32 /\ SizeOf(RegAERRootErrStatus) = 4
  /\ Ends(RegAERRootErrStatus)[0] = 0 /\ Ends(RegAERRootErrStatus)[1] = 1
  /\ Ends(RegAERRootErrStatus)[2] = 2 /\ Ends(RegAERRootErrStatus)[3] = 3
  /\ Ends(RegAERRootErrStatus)[4] = 4 /\ Ends(RegAERRootErrStatus)[5] = 5
  /\ Ends(RegAERRootErrStatus)[6] = 6 /\ Ends(RegAERRootErrStatus)[7] = 7
  /\ Ends(RegAERRootErrStatus)[8] = 27 /\ Ends(RegAERRootErrStatus)[9] = 32
<1>1. RegAERRootErrStatus \in Seq(Nat) /\ Len(RegAERRootErrStatus) = 9
  BY DEF RegAERRootErrStatus
<1> DEFINE e == Ends(RegAERRootErrStatus)
<1>2. e[0] = 0 /\ \A n \in 1..9 : e[n] = e[n - 1] + RegAERRootErrStatus[n]
  BY <1>1, EndsDefined
<1> HIDE DEF e
<1>3. /\ e[0] = 0 /\ e[1] = 1 /\ e[2] = 2 /\ e[3] = 3 /\ e[4] = 4 /\ e[5] = 5 /\ e[6] = 6
      /\ e[7] = 7 /\ e[8] = 27 /\ e[9] = 32
  BY <1>2 DEF RegAERRootErrStatus
<1>4. QED
  BY <1>1, <1>3 DEF e, Bits, SizeOf

LEMMA RegAERCorrErrSrcIDEnds ==
  /\ RegAERCorrErrSrcID \in Seq(Nat) /\ Len(RegAERCorrErrSrcID) = 1
  /\ Bits(RegAERCorrErrSrcID) = 16 /\ SizeOf(RegAERCorrErrSrcID) = 2
  /\ Ends(RegAERCorrErrSrcID)[0] = 0 /\ Ends(RegAERCorrErrSrcID)[1] = 16
BY SingleEnds DEF RegAERCorrErrSrcID, SizeOf

LEMMA RegAERErrSrcIDEnds ==
  /\ RegAERErrSrcID \in Seq(Nat) /\ Len(RegAERErrSrcID) = 1 /\ Bits(RegAERErrSrcID) = 16
  /\ SizeOf(RegAERErrSrcID) = 2 /\ Ends(RegAERErrSrcID)[0] = 0 /\ Ends(RegAERErrSrcID)[1] = 16
BY SingleEnds DEF RegAERErrSrcID, SizeOf

LEMMA RegAERTlpPrefixLogEnds ==
  /\ RegAERTlpPrefixLog \in Seq(Nat) /\ Len(RegAERTlpPrefixLog) = 1
  /\ Bits(RegAERTlpPrefixLog) = 128 /\ SizeOf(RegAERTlpPrefixLog) = 16
  /\ Ends(RegAERTlpPrefixLog)[0] = 0 /\ Ends(RegAERTlpPrefixLog)[1] = 128
BY SingleEnds DEF RegAERTlpPrefixLog, SizeOf

LEMMA AERCapLaid ==
  /\ LayoutOf(AERCap, "uncorr_err_status") = RegAERUncorrStatus
  /\ OffsetOf(AERCap, "uncorr_err_status") = 4
  /\ LayoutOf(AERCap, "uncorr_err_mask") = RegAERUncorrMask
  /\ OffsetOf(AERCap, "uncorr_err_mask") = 8
  /\ LayoutOf(AERCap, "uncorr_err_sev") = RegAERUncorrSeverity
  /\ OffsetOf(AERCap, "uncorr_err_sev") = 12
  /\ LayoutOf(AERCap, "corr_err_status") = RegAERCorrStatus
  /\ OffsetOf(AERCap, "corr_err_status") = 16
  /\ LayoutOf(AERCap, "corr_err_mask") = RegAERCorrMask /\ OffsetOf(AERCap, "corr_err_mask") = 20
  /\ LayoutOf(AERCap, "adv_err_cap_ctl") = RegAERAecCtl
  /\ OffsetOf(AERCap, "adv_err_cap_ctl") = 24
  /\ LayoutOf(AERCap, "hdr_log") = RegAERHdrLog /\ OffsetOf(AERCap, "hdr_log") = 28
  /\ LayoutOf(AERCap, "root_err_cmd") = RegAERRootErrCmd /\ OffsetOf(AERCap, "root_err_cmd") = 44
  /\ LayoutOf(AERCap, "root_err_status") = RegAERRootErrStatus
  /\ OffsetOf(AERCap, "root_err_status") = 48
  /\ LayoutOf(AERCap, "corr_err_src_id") = RegAERCorrErrSrcID
  /\ OffsetOf(AERCap, "corr_err_src_id") = 52
  /\ LayoutOf(AERCap, "err_src_id") = RegAERErrSrcID /\ OffsetOf(AERCap, "err_src_id") = 54
  /\ LayoutOf(AERCap, "tlp_pref_log") = RegAERTlpPrefixLog
  /\ OffsetOf(AERCap, "tlp_pref_log") = 56
<1> DEFINE c == AERCap
           s == Sizes(c)
           e == Ends(s)
<1>1. /\ DOMAIN c = 1..13 /\ c[1] = <<"hdr", ExtCapHdr>>
      /\ c[2] = <<"uncorr_err_status", RegAERUncorrStatus>>
      /\ c[3] = <<"uncorr_err_mask", RegAERUncorrMask>>
      /\ c[4] = <<"uncorr_err_sev", RegAERUncorrSeverity>>
      /\ c[5] = <<"corr_err_status", RegAERCorrStatus>>
      /\ c[6] = <<"corr_err_mask", RegAERCorrMask>>
      /\ c[7] = <<"adv_err_cap_ctl", RegAERAecCtl>> /\ c[8] = <<"hdr_log", RegAERHdrLog>>
      /\ c[9] = <<"root_err_cmd", RegAERRootErrCmd>>
      /\ c[10] = <<"root_err_status", RegAERRootErrStatus>>
      /\ c[11] = <<"corr_err_src_id", RegAERCorrErrSrcID>>
      /\ c[12] = <<"err_src_id", RegAERErrSrcID>>
      /\ c[13] = <<"tlp_pref_log", RegAERTlpPrefixLog>>
  BY DEF AERCap
<1> HIDE DEF c
<1>2. \A j, k \in DOMAIN c : c[j][1] = c[k][1] => j = k
  BY <1>1
<1>3. /\ s \in Seq(Nat) /\ Len(s) = 13 /\ s[1] = 4 /\ s[2] = 4 /\ s[3] = 4 /\ s[4] = 4
      /\ s[5] = 4 /\ s[6] = 4 /\ s[7] = 4 /\ s[8] = 16 /\ s[9] = 4 /\ s[10] = 4 /\ s[11] = 2
      /\ s[12] = 2 /\ s[13] = 16
  <2>1. s = [k \in 1..13 |-> SizeOf(c[k][2])]
    BY <1>1 DEF Sizes
  <2>2. /\ SizeOf(ExtCapHdr) = 4 /\ SizeOf(RegAERUncorrStatus) = 4
        /\ SizeOf(RegAERUncorrMask) = 4 /\ SizeOf(RegAERUncorrSeverity) = 4
        /\ SizeOf(RegAERCorrStatus) = 4 /\ SizeOf(RegAERCorrMask) = 4
        /\ SizeOf(RegAERAecCtl) = 4 /\ SizeOf(RegAERHdrLog) = 16
        /\ SizeOf(RegAERRootErrCmd) = 4 /\ SizeOf(RegAERRootErrStatus) = 4
        /\ SizeOf(RegAERCorrErrSrcID) = 2 /\ SizeOf(RegAERErrSrcID) = 2
        /\ SizeOf(RegAERTlpPrefixLog) = 16
    BY ExtCapHdrEnds, RegAERUncorrStatusEnds, RegAERUncorrMaskEnds, RegAERUncorrSeverityEnds,
       RegAERCorrStatusEnds, RegAERCorrMaskEnds, RegAERAecCtlEnds, RegAERHdrLogEnds,
       RegAERRootErrCmdEnds, RegAERRootErrStatusEnds, RegAERCorrErrSrcIDEnds,
       RegAERErrSrcIDEnds, RegAERTlpPrefixLogEnds
  <2> HIDE DEF s
  <2>3. QED
    BY <1>1, <2>1, <2>2
<1> HIDE DEF s
<1>4. e[0] = 0 /\ \A k \in 1..13 : e[k] = e[k - 1] + s[k]
  BY <1>3, EndsDefined
<1> HIDE DEF e
<1>5. /\ e[0] = 0 /\ e[1] = 4 /\ e[2] = 8 /\ e[3] = 12 /\ e[4] = 16 /\ e[5] = 20 /\ e[6] = 24
      /\ e[7] = 28 /\ e[8] = 44 /\ e[9] = 48 /\ e[10] = 52 /\ e[11] = 54 /\ e[12] = 56
  <2>1. /\ s[1] = 4 /\ s[2] = 4 /\ s[3] = 4 /\ s[4] = 4 /\ s[5] = 4 /\ s[6] = 4 /\ s[7] = 4
        /\ s[8] = 16 /\ s[9] = 4 /\ s[10] = 4 /\ s[11] = 2 /\ s[12] = 2 /\ s[13] = 16
    BY <1>3
  <2>2. e[0] = 0 /\ e[1] = 4 /\ e[2] = 8 /\ e[3] = 12 /\ e[4] = 16 /\ e[5] = 20
    BY <1>4, <2>1
  <2>3. e[6] = 24 /\ e[7] = 28 /\ e[8] = 44 /\ e[9] = 48 /\ e[10] = 52 /\ e[11] = 54
    BY <1>4, <2>1, <2>2
  <2>4. e[12] = 56
    BY <1>4, <2>1, <2>3
  <2>5. QED
    BY <2>2, <2>3, <2>4
<1>6. /\ Position(s, 2) = 4 /\ Position(s, 3) = 8 /\ Position(s, 4) = 12
      /\ Position(s, 5) = 16 /\ Position(s, 6) = 20 /\ Position(s, 7) = 24
      /\ Position(s, 8) = 28 /\ Position(s, 9) = 44 /\ Position(s, 10) = 48
      /\ Position(s, 11) = 52 /\ Position(s, 12) = 54 /\ Position(s, 13) = 56
  BY <1>5 DEF Position, e
<1>7. /\ LayoutOf(c, "uncorr_err_status") = RegAERUncorrStatus
      /\ OffsetOf(c, "uncorr_err_status") = 4
  <2>1. \A j \in DOMAIN c : c[j][1] = "uncorr_err_status" => j = 2
    BY <1>1, <1>2
  <2>2. Position(Sizes(c), 2) = 4
    BY <1>6 DEF s
  <2>3. 2 \in DOMAIN c /\ c[2] = <<"uncorr_err_status", RegAERUncorrStatus>>
    BY <1>1
  <2>4. QED
    BY <2>1, <2>2, <2>3, LaidOut
<1>8. LayoutOf(c, "uncorr_err_mask") = RegAERUncorrMask /\ OffsetOf(c, "uncorr_err_mask") = 8
  <2>1. \A j \in DOMAIN c : c[j][1] = "uncorr_err_mask" => j = 3
    BY <1>1, <1>2
  <2>2. Position(Sizes(c), 3) = 8
    BY <1>6 DEF s
  <2>3. 3 \in DOMAIN c /\ c[3] = <<"uncorr_err_mask", RegAERUncorrMask>>
    BY <1>1
  <2>4. QED
    BY <2>1, <2>2, <2>3, LaidOut
<1>9. LayoutOf(c, "uncorr_err_sev") = RegAERUncorrSeverity /\ OffsetOf(c, "uncorr_err_sev") = 12
  <2>1. \A j \in DOMAIN c : c[j][1] = "uncorr_err_sev" => j = 4
    BY <1>1, <1>2
  <2>2. Position(Sizes(c), 4) = 12
    BY <1>6 DEF s
  <2>3. 4 \in DOMAIN c /\ c[4] = <<"uncorr_err_sev", RegAERUncorrSeverity>>
    BY <1>1
  <2>4. QED
    BY <2>1, <2>2, <2>3, LaidOut
<1>10. LayoutOf(c, "corr_err_status") = RegAERCorrStatus /\ OffsetOf(c, "corr_err_status") = 16
  <2>1. \A j \in DOMAIN c : c[j][1] = "corr_err_status" => j = 5
    BY <1>1, <1>2
  <2>2. Position(Sizes(c), 5) = 16
    BY <1>6 DEF s
  <2>3. 5 \in DOMAIN c /\ c[5] = <<"corr_err_status", RegAERCorrStatus>>
    BY <1>1
  <2>4. QED
    BY <2>1, <2>2, <2>3, LaidOut
<1>11. LayoutOf(c, "corr_err_mask") = RegAERCorrMask /\ OffsetOf(c, "corr_err_mask") = 20
  <2>1. \A j \in DOMAIN c : c[j][1] = "corr_err_mask" => j = 6
    BY <1>1, <1>2
  <2>2. Position(Sizes(c), 6) = 20
    BY <1>6 DEF s
  <2>3. 6 \in DOMAIN c /\ c[6] = <<"corr_err_mask", RegAERCorrMask>>
    BY <1>1
  <2>4. QED
    BY <2>1, <2>2, <2>3, LaidOut
<1>12. LayoutOf(c, "adv_err_cap_ctl") = RegAERAecCtl /\ OffsetOf(c, "adv_err_cap_ctl") = 24
  <2>1. \A j \in DOMAIN c : c[j][1] = "adv_err_cap_ctl" => j = 7
    BY <1>1, <1>2
  <2>2. Position(Sizes(c), 7) = 24
    BY <1>6 DEF s
  <2>3. 7 \in DOMAIN c /\ c[7] = <<"adv_err_cap_ctl", RegAERAecCtl>>
    BY <1>1
  <2>4. QED
    BY <2>1, <2>2, <2>3, LaidOut
<1>13. LayoutOf(c, "hdr_log") = RegAERHdrLog /\ OffsetOf(c, "hdr_log") = 28
  <2>1. \A j \in DOMAIN c : c[j][1] = "hdr_log" => j = 8
    BY <1>1, <1>2
  <2>2. Position(Sizes(c), 8) = 28
    BY <1>6 DEF s
  <2>3. 8 \in DOMAIN c /\ c[8] = <<"hdr_log", RegAERHdrLog>>
    BY <1>1
  <2>4. QED
    BY <2>1, <2>2, <2>3, LaidOut
<1>14. LayoutOf(c, "root_err_cmd") = RegAERRootErrCmd /\ OffsetOf(c, "root_err_cmd") = 44
  <2>1. \A j \in DOMAIN c : c[j][1] = "root_err_cmd" => j = 9
    BY <1>1, <1>2
  <2>2. Position(Sizes(c), 9) = 44
    BY <1>6 DEF s
  <2>3. 9 \in DOMAIN c /\ c[9] = <<"root_err_cmd", RegAERRootErrCmd>>
    BY <1>1
  <2>4. QED
    BY <2>1, <2>2, <2>3, LaidOut
<1>15. /\ LayoutOf(c, "root_err_status") = RegAERRootErrStatus
       /\ OffsetOf(c, "root_err_status") = 48
  <2>1. \A j \in DOMAIN c : c[j][1] = "root_err_status" => j = 10
    BY <1>1, <1>2
  <2>2. Position(Sizes(c), 10) = 48
    BY <1>6 DEF s
  <2>3. 10 \in DOMAIN c /\ c[10] = <<"root_err_status", RegAERRootErrStatus>>
    BY <1>1
  <2>4. QED
    BY <2>1, <2>2, <2>3, LaidOut
<1>16. LayoutOf(c, "corr_err_src_id") = RegAERCorrErrSrcID /\ OffsetOf(c, "corr_err_src_id") = 52
  <2>1. \A j \in DOMAIN c : c[j][1] = "corr_err_src_id" => j = 11
    BY <1>1, <1>2
  <2>2. Position(Sizes(c), 11) = 52
    BY <1>6 DEF s
  <2>3. 11 \in DOMAIN c /\ c[11] = <<"corr_err_src_id", RegAERCorrErrSrcID>>
    BY <1>1
  <2>4. QED
    BY <2>1, <2>2, <2>3, LaidOut
<1>17. LayoutOf(c, "err_src_id") = RegAERErrSrcID /\ OffsetOf(c, "err_src_id") = 54
  <2>1. \A j \in DOMAIN c : c[j][1] = "err_src_id" => j = 12
    BY <1>1, <1>2
  <2>2. Position(Sizes(c), 12) = 54
    BY <1>6 DEF s
  <2>3. 12 \in DOMAIN c /\ c[12] = <<"err_src_id", RegAERErrSrcID>>
    BY <1>1
  <2>4. QED
    BY <2>1, <2>2, <2>3, LaidOut
<1>18. LayoutOf(c, "tlp_pref_log") = RegAERTlpPrefixLog /\ OffsetOf(c, "tlp_pref_log") = 56
  <2>1. \A j \in DOMAIN c : c[j][1] = "tlp_pref_log" => j = 13
    BY <1>1, <1>2
  <2>2. Position(Sizes(c), 13) = 56
    BY <1>6 DEF s
  <2>3. 13 \in DOMAIN c /\ c[13] = <<"tlp_pref_log", RegAERTlpPrefixLog>>
    BY <1>1
  <2>4. QED
    BY <2>1, <2>2, <2>3, LaidOut
<1>19. QED
  BY <1>7, <1>8, <1>9, <1>10, <1>11, <1>12, <1>13, <1>14, <1>15, <1>16, <1>17,
     <1>18 DEF c

LEMMA UncorrErrStatTells == TextTells(AERUncorrTexts["uncorr_err_stat"], 4, 32, {})
<1> DEFINE P == {Rsvd(0, 3), Flags(4, 5, 2), Rsvd(6, 11), Flags(12, 26, 5), Rsvd(27, 31)}
           R == UNION P
           e == Ends(RegAERUncorrStatus)
<1>0. /\ Len(RegAERUncorrStatus) = 20 /\ e[0] = 0 /\ e[1] = 4 /\ e[2] = 5 /\ e[3] = 6
      /\ e[4] = 12 /\ e[5] = 13 /\ e[6] = 14 /\ e[7] = 15 /\ e[8] = 16 /\ e[9] = 17
      /\ e[10] = 18 /\ e[11] = 19 /\ e[12] = 20 /\ e[13] = 21 /\ e[14] = 22 /\ e[15] = 23
      /\ e[16] = 24 /\ e[17] = 25 /\ e[18] = 26 /\ e[19] = 27 /\ e[20] = 32
  BY RegAERUncorrStatusEnds
<1> HIDE DEF e
<1>1. ASSUME NEW r \in R, r[3] # None
      PROVE  ShowsField(RegAERUncorrStatus, r, 32, {})
  <2>1. /\ r[3] \in 1..20 /\ r[1] = e[r[3] - 1] /\ r[2] + 1 = e[r[3]]
        /\ e[r[3] - 1] \in Nat /\ e[r[3]] \in Nat
        /\ e[r[3] - 1] < e[r[3]] /\ e[r[3]] <= 32
    BY <1>0, <1>1 DEF None, Flags, Rsvd
  <2>2. QED
    BY <1>0, <2>1 DEF ShowsField, HasField, First, Behind, All, e
<1>2. (\A r \in R : InReg(r, 32)) /\ Apart(R)
  BY DEF InReg, Apart, None, Flags, Rsvd
<1>3. Covers(R, 0, 31)
  <2>1. /\ Rsvd(0, 3) \in P /\ Flags(4, 5, 2) \in P /\ Rsvd(6, 11) \in P
        /\ Flags(12, 26, 5) \in P /\ Rsvd(27, 31) \in P
    OBVIOUS
  <2> HIDE DEF P
  <2>2. /\ Covers(R, 0, 3) /\ Covers(R, 4, 5) /\ Covers(R, 6, 11) /\ Covers(R, 12, 26)
        /\ Covers(R, 27, 31)
    BY <2>1, PartsCover
  <2> HIDE DEF R
  <2>3. QED
    BY <2>2 DEF Covers
<1>4. Tells(Content(RegAERUncorrStatus, P), 32, {})
  <2>1. RegAERUncorrStatus \in Seq(Nat) /\ 32 - 1 = 31
    BY RegAERUncorrStatusEnds
  <2> HIDE DEF P
  <2>2. QED
    BY <1>1, <1>2, <1>3, <2>1, FieldsTell
<1> HIDE DEF P
<1>5. /\ LayoutOf(AERCap, "uncorr_err_status") = RegAERUncorrStatus
      /\ OffsetOf(AERCap, "uncorr_err_status") = 4
      /\ 8 * SizeOf(RegAERUncorrStatus) = 32
  BY AERCapLaid, RegAERUncorrStatusEnds
<1>6. TextTells(Member(AERCap, 4, "uncorr_err_status", P), 4, 32, {})
  BY <1>4, <1>5, MemberTells
<1>7. QED
  BY <1>6 DEF P, AERUncorrTexts, AERUncorrRows

LEMMA UncorrErrMaskTells == TextTells(AERUncorrTexts["uncorr_err_mask"], 8, 32, {})
<1> DEFINE P == {Rsvd(0, 3), Flags(4, 5, 2), Rsvd(6, 11), Flags(12, 26, 5), Rsvd(27, 31)}
           R == UNION P
           e == Ends(RegAERUncorrMask)
<1>0. /\ Len(RegAERUncorrMask) = 20 /\ e[0] = 0 /\ e[1] = 4 /\ e[2] = 5 /\ e[3] = 6
      /\ e[4] = 12 /\ e[5] = 13 /\ e[6] = 14 /\ e[7] = 15 /\ e[8] = 16 /\ e[9] = 17
      /\ e[10] = 18 /\ e[11] = 19 /\ e[12] = 20 /\ e[13] = 21 /\ e[14] = 22 /\ e[15] = 23
      /\ e[16] = 24 /\ e[17] = 25 /\ e[18] = 26 /\ e[19] = 27 /\ e[20] = 32
  BY RegAERUncorrMaskEnds
<1> HIDE DEF e
<1>1. ASSUME NEW r \in R, r[3] # None
      PROVE  ShowsField(RegAERUncorrMask, r, 32, {})
  <2>1. /\ r[3] \in 1..20 /\ r[1] = e[r[3] - 1] /\ r[2] + 1 = e[r[3]]
        /\ e[r[3] - 1] \in Nat /\ e[r[3]] \in Nat
        /\ e[r[3] - 1] < e[r[3]] /\ e[r[3]] <= 32
    BY <1>0, <1>1 DEF None, Flags, Rsvd
  <2>2. QED
    BY <1>0, <2>1 DEF ShowsField, HasField, First, Behind, All, e
<1>2. (\A r \in R : InReg(r, 32)) /\ Apart(R)
  BY DEF InReg, Apart, None, Flags, Rsvd
<1>3. Covers(R, 0, 31)
  <2>1. /\ Rsvd(0, 3) \in P /\ Flags(4, 5, 2) \in P /\ Rsvd(6, 11) \in P
        /\ Flags(12, 26, 5) \in P /\ Rsvd(27, 31) \in P
    OBVIOUS
  <2> HIDE DEF P
  <2>2. /\ Covers(R, 0, 3) /\ Covers(R, 4, 5) /\ Covers(R, 6, 11) /\ Covers(R, 12, 26)
        /\ Covers(R, 27, 31)
    BY <2>1, PartsCover
  <2> HIDE DEF R
  <2>3. QED
    BY <2>2 DEF Covers
<1>4. Tells(Content(RegAERUncorrMask, P), 32, {})
  <2>1. RegAERUncorrMask \in Seq(Nat) /\ 32 - 1 = 31
    BY RegAERUncorrMaskEnds
  <2> HIDE DEF P
  <2>2. QED
    BY <1>1, <1>2, <1>3, <2>1, FieldsTell
<1> HIDE DEF P
<1>5. /\ LayoutOf(AERCap, "uncorr_err_mask") = RegAERUncorrMask
      /\ OffsetOf(AERCap, "uncorr_err_mask") = 8
      /\ 8 * SizeOf(RegAERUncorrMask) = 32
  BY AERCapLaid, RegAERUncorrMaskEnds
<1>6. TextTells(Member(AERCap, 8, "uncorr_err_mask", P), 8, 32, {})
  BY <1>4, <1>5, MemberTells
<1>7. QED
  BY <1>6 DEF P, AERUncorrTexts, AERUncorrRows

LEMMA UncorrErrSevTells == TextTells(AERUncorrTexts["uncorr_err_sev"], 12, 32, {})
<1> DEFINE P == {Rsvd(0, 3), Flags(4, 5, 2), Rsvd(6, 11), Flags(12, 26, 5), Rsvd(27, 31)}
           R == UNION P
           e == Ends(RegAERUncorrSeverity)
<1>0. /\ Len(RegAERUncorrSeverity) = 20 /\ e[0] = 0 /\ e[1] = 4 /\ e[2] = 5 /\ e[3] = 6
      /\ e[4] = 12 /\ e[5] = 13 /\ e[6] = 14 /\ e[7] = 15 /\ e[8] = 16 /\ e[9] = 17
      /\ e[10] = 18 /\ e[11] = 19 /\ e[12] = 20 /\ e[13] = 21 /\ e[14] = 22 /\ e[15] = 23
      /\ e[16] = 24 /\ e[17] = 25 /\ e[18] = 26 /\ e[19] = 27 /\ e[20] = 32
  BY RegAERUncorrSeverityEnds
<1> HIDE DEF e
<1>1. ASSUME NEW r \in R, r[3] # None
      PROVE  ShowsField(RegAERUncorrSeverity, r, 32, {})
  <2>1. /\ r[3] \in 1..20 /\ r[1] = e[r[3] - 1] /\ r[2] + 1 = e[r[3]]
        /\ e[r[3] - 1] \in Nat /\ e[r[3]] \in Nat
        /\ e[r[3] - 1] < e[r[3]] /\ e[r[3]] <= 32
    BY <1>0, <1>1 DEF None, Flags, Rsvd
  <2>2. QED
    BY <1>0, <2>1 DEF ShowsField, HasField, First, Behind, All, e
<1>2. (\A r \in R : InReg(r, 32)) /\ Apart(R)
  BY DEF InReg, Apart, None, Flags, Rsvd
<1>3. Covers(R, 0, 31)
  <2>1. /\ Rsvd(0, 3) \in P /\ Flags(4, 5, 2) \in P /\ Rsvd(6, 11) \in P
        /\ Flags(12, 26, 5) \in P /\ Rsvd(27, 31) \in P
    OBVIOUS
  <2> HIDE DEF P
  <2>2. /\ Covers(R, 0, 3) /\ Covers(R, 4, 5) /\ Covers(R, 6, 11) /\ Covers(R, 12, 26)
        /\ Covers(R, 27, 31)
    BY <2>1, PartsCover
  <2> HIDE DEF R
  <2>3. QED
    BY <2>2 DEF Covers
<1>4. Tells(Content(RegAERUncorrSeverity, P), 32, {})
  <2>1. RegAERUncorrSeverity \in Seq(Nat) /\ 32 - 1 = 31
    BY RegAERUncorrSeverityEnds
  <2> HIDE DEF P
  <2>2. QED
    BY <1>1, <1>2, <1>3, <2>1, FieldsTell
<1> HIDE DEF P
<1>5. /\ LayoutOf(AERCap, "uncorr_err_sev") = RegAERUncorrSeverity
      /\ OffsetOf(AERCap, "uncorr_err_sev") = 12
      /\ 8 * SizeOf(RegAERUncorrSeverity) = 32
  BY AERCapLaid, RegAERUncorrSeverityEnds
<1>6. TextTells(Member(AERCap, 12, "uncorr_err_sev", P), 12, 32, {})
  BY <1>4, <1>5, MemberTells
<1>7. QED
  BY <1>6 DEF P, AERUncorrTexts, AERUncorrRows

LEMMA CorrErrStatTells == TextTells(AERCorrTexts["corr_err_stat"], 16, 32, {})
<1> DEFINE P == {Flag(0, 1), Rsvd(1, 5), Flags(6, 8, 3), Rsvd(9, 11), Flags(12, 15, 7),
                 Rsvd(16, 31)}
           R == UNION P
           e == Ends(RegAERCorrStatus)
<1>0. /\ Len(RegAERCorrStatus) = 11 /\ e[0] = 0 /\ e[1] = 1 /\ e[2] = 6 /\ e[3] = 7
      /\ e[4] = 8 /\ e[5] = 9 /\ e[6] = 12 /\ e[7] = 13 /\ e[8] = 14 /\ e[9] = 15
      /\ e[10] = 16 /\ e[11] = 32
  BY RegAERCorrStatusEnds
<1> HIDE DEF e
<1>1. ASSUME NEW r \in R, r[3] # None
      PROVE  ShowsField(RegAERCorrStatus, r, 32, {})
  <2>1. /\ r[3] \in 1..11 /\ r[1] = e[r[3] - 1] /\ r[2] + 1 = e[r[3]]
        /\ e[r[3] - 1] \in Nat /\ e[r[3]] \in Nat
        /\ e[r[3] - 1] < e[r[3]] /\ e[r[3]] <= 32
    BY <1>0, <1>1 DEF None, Field, Flags, Flag, Rsvd
  <2>2. QED
    BY <1>0, <2>1 DEF ShowsField, HasField, First, Behind, All, e
<1>2. (\A r \in R : InReg(r, 32)) /\ Apart(R)
  BY DEF InReg, Apart, None, Field, Flags, Flag, Rsvd
<1>3. Covers(R, 0, 31)
  <2>1. /\ Flag(0, 1) \in P /\ Rsvd(1, 5) \in P /\ Flags(6, 8, 3) \in P /\ Rsvd(9, 11) \in P
        /\ Flags(12, 15, 7) \in P /\ Rsvd(16, 31) \in P
    OBVIOUS
  <2> HIDE DEF P
  <2>2. /\ Covers(R, 0, 0) /\ Covers(R, 1, 5) /\ Covers(R, 6, 8) /\ Covers(R, 9, 11)
        /\ Covers(R, 12, 15) /\ Covers(R, 16, 31)
    BY <2>1, PartsCover
  <2> HIDE DEF R
  <2>3. QED
    BY <2>2 DEF Covers
<1>4. Tells(Content(RegAERCorrStatus, P), 32, {})
  BY <1>1, <1>2, <1>3, RegAERCorrStatusEnds DEF Tells, Fits, Content
<1> HIDE DEF P
<1>5. /\ LayoutOf(AERCap, "corr_err_status") = RegAERCorrStatus
      /\ OffsetOf(AERCap, "corr_err_status") = 16
      /\ 8 * SizeOf(RegAERCorrStatus) = 32
  BY AERCapLaid, RegAERCorrStatusEnds
<1>6. TextTells(Member(AERCap, 16, "corr_err_status", P), 16, 32, {})
  BY <1>4, <1>5, MemberTells
<1>7. QED
  BY <1>6 DEF P, AERCorrTexts, AERCorrRows

LEMMA CorrErrMaskTells == TextTells(AERCorrTexts["corr_err_mask"], 20, 32, {})
<1> DEFINE P == {Flag(0, 1), Rsvd(1, 5), Flags(6, 8, 3), Rsvd(9, 11), Flags(12, 15, 7),
                 Rsvd(16, 31)}
           R == UNION P
           e == Ends(RegAERCorrMask)
<1>0. /\ Len(RegAERCorrMask) = 11 /\ e[0] = 0 /\ e[1] = 1 /\ e[2] = 6 /\ e[3] = 7 /\ e[4] = 8
      /\ e[5] = 9 /\ e[6] = 12 /\ e[7] = 13 /\ e[8] = 14 /\ e[9] = 15 /\ e[10] = 16
      /\ e[11] = 32
  BY RegAERCorrMaskEnds
<1> HIDE DEF e
<1>1. ASSUME NEW r \in R, r[3] # None
      PROVE  ShowsField(RegAERCorrMask, r, 32, {})
  <2>1. /\ r[3] \in 1..11 /\ r[1] = e[r[3] - 1] /\ r[2] + 1 = e[r[3]]
        /\ e[r[3] - 1] \in Nat /\ e[r[3]] \in Nat
        /\ e[r[3] - 1] < e[r[3]] /\ e[r[3]] <= 32
    BY <1>0, <1>1 DEF None, Field, Flags, Flag, Rsvd
  <2>2. QED
    BY <1>0, <2>1 DEF ShowsField, HasField, First, Behind, All, e
<1>2. (\A r \in R : InReg(r, 32)) /\ Apart(R)
  BY DEF InReg, Apart, None, Field, Flags, Flag, Rsvd
<1>3. Covers(R, 0, 31)
  <2>1. /\ Flag(0, 1) \in P /\ Rsvd(1, 5) \in P /\ Flags(6, 8, 3) \in P /\ Rsvd(9, 11) \in P
        /\ Flags(12, 15, 7) \in P /\ Rsvd(16, 31) \in P
    OBVIOUS
  <2> HIDE DEF P
  <2>2. /\ Covers(R, 0, 0) /\ Covers(R, 1, 5) /\ Covers(R, 6, 8) /\ Covers(R, 9, 11)
        /\ Covers(R, 12, 15) /\ Covers(R, 16, 31)
    BY <2>1, PartsCover
  <2> HIDE DEF R
  <2>3. QED
    BY <2>2 DEF Covers
<1>4. Tells(Content(RegAERCorrMask, P), 32, {})
  BY <1>1, <1>2, <1>3, RegAERCorrMaskEnds DEF Tells, Fits, Content
<1> HIDE DEF P
<1>5. /\ LayoutOf(AERCap, "corr_err_mask") = RegAERCorrMask
      /\ OffsetOf(AERCap, "corr_err_mask") = 20
      /\ 8 * SizeOf(RegAERCorrMask) = 32
  BY AERCapLaid, RegAERCorrMaskEnds
<1>6. TextTells(Member(AERCap, 20, "corr_err_mask", P), 20, 32, {})
  BY <1>4, <1>5, MemberTells
<1>7. QED
  BY <1>6 DEF P, AERCorrTexts, AERCorrRows

LEMMA AERCtlTextTells == TextTells(AERCtlText, 24, 32, {})
<1> DEFINE P == {Field(0, 4, 1), Flags(5, 12, 2), Rsvd(13, 31)}
           R == UNION P
           e == Ends(RegAERAecCtl)
<1>0. /\ Len(RegAERAecCtl) = 10 /\ e[0] = 0 /\ e[1] = 5 /\ e[2] = 6 /\ e[3] = 7 /\ e[4] = 8
      /\ e[5] = 9 /\ e[6] = 10 /\ e[7] = 11 /\ e[8] = 12 /\ e[9] = 13 /\ e[10] = 32
  BY RegAERAecCtlEnds
<1> HIDE DEF e
<1>1. ASSUME NEW r \in R, r[3] # None
      PROVE  ShowsField(RegAERAecCtl, r, 32, {})
  <2>1. /\ r[3] \in 1..10 /\ r[1] = e[r[3] - 1] /\ r[2] + 1 = e[r[3]]
        /\ e[r[3] - 1] \in Nat /\ e[r[3]] \in Nat
        /\ e[r[3] - 1] < e[r[3]] /\ e[r[3]] <= 32
    BY <1>0, <1>1 DEF None, Field, Flags, Rsvd
  <2>2. QED
    BY <1>0, <2>1 DEF ShowsField, HasField, First, Behind, All, e
<1>2. (\A r \in R : InReg(r, 32)) /\ Apart(R)
  BY DEF InReg, Apart, None, Field, Flags, Rsvd
<1>3. Covers(R, 0, 31)
  <2>1. Field(0, 4, 1) \in P /\ Flags(5, 12, 2) \in P /\ Rsvd(13, 31) \in P
    OBVIOUS
  <2> HIDE DEF P
  <2>2. Covers(R, 0, 4) /\ Covers(R, 5, 12) /\ Covers(R, 13, 31)
    BY <2>1, PartsCover
  <2> HIDE DEF R
  <2>3. QED
    BY <2>2 DEF Covers
<1>4. Tells(Content(RegAERAecCtl, P), 32, {})
  BY <1>1, <1>2, <1>3, RegAERAecCtlEnds DEF Tells, Fits, Content
<1> HIDE DEF P
<1>5. /\ LayoutOf(AERCap, "adv_err_cap_ctl") = RegAERAecCtl
      /\ OffsetOf(AERCap, "adv_err_cap_ctl") = 24
      /\ 8 * SizeOf(RegAERAecCtl) = 32
  BY AERCapLaid, RegAERAecCtlEnds
<1>6. TextTells(Member(AERCap, 24, "adv_err_cap_ctl", P), 24, 32, {})
  BY <1>4, <1>5, MemberTells
<1>7. QED
  BY <1>6 DEF P, AERCtlText

LEMMA RootErrCmdTextTells == TextTells(RootErrCmdText, 44, 32, {0, 2})
<1> DEFINE P == {Flag(0, 3), Flag(1, 2), Flag(2, 1), Rsvd(3, 31)}
           R == UNION P
           e == Ends(RegAERRootErrCmd)
<1>0. Len(RegAERRootErrCmd) = 4 /\ e[0] = 0 /\ e[1] = 1 /\ e[2] = 2 /\ e[3] = 3 /\ e[4] = 32
  BY RegAERRootErrCmdEnds
<1> HIDE DEF e
<1>1. ASSUME NEW r \in R, r[3] # None
      PROVE  ShowsField(RegAERRootErrCmd, r, 32, {0, 2})
  <2>1. /\ r[3] \in 1..4 /\ (r[1] \notin {0, 2} <=> r[1] = e[r[3] - 1] /\ r[2] + 1 = e[r[3]])
        /\ e[r[3] - 1] \in Nat /\ e[r[3]] \in Nat
        /\ e[r[3] - 1] < e[r[3]] /\ e[r[3]] <= 32
    BY <1>0, <1>1 DEF None, Field, Flag, Rsvd
  <2>2. QED
    BY <1>0, <2>1 DEF ShowsField, HasField, First, Behind, All, e
<1>2. (\A r \in R : InReg(r, 32)) /\ Apart(R)
  BY DEF InReg, Apart, None, Field, Flag, Rsvd
<1>3. Covers(R, 0, 31)
  <2>1. Flag(0, 3) \in P /\ Flag(1, 2) \in P /\ Flag(2, 1) \in P /\ Rsvd(3, 31) \in P
    OBVIOUS
  <2> HIDE DEF P
  <2>2. Covers(R, 0, 0) /\ Covers(R, 1, 1) /\ Covers(R, 2, 2) /\ Covers(R, 3, 31)
    BY <2>1, PartsCover
  <2> HIDE DEF R
  <2>3. QED
    BY <2>2 DEF Covers
<1>4. Tells(Content(RegAERRootErrCmd, P), 32, {0, 2})
  BY <1>1, <1>2, <1>3, RegAERRootErrCmdEnds DEF Tells, Fits, Content
<1> HIDE DEF P
<1>5. /\ LayoutOf(AERCap, "root_err_cmd") = RegAERRootErrCmd
      /\ OffsetOf(AERCap, "root_err_cmd") = 44
      /\ 8 * SizeOf(RegAERRootErrCmd) = 32
  BY AERCapLaid, RegAERRootErrCmdEnds
<1>6. TextTells(Member(AERCap, 44, "root_err_cmd", P), 44, 32, {0, 2})
  BY <1>4, <1>5, MemberTells
<1>7. QED
  BY <1>6 DEF P, RootErrCmdText

LEMMA RootErrStatusTextTells == TextTells(RootErrStatusText, 48, 32, {})
<1> DEFINE P == {Flags(0, 6, 1), Rsvd(7, 26), Field(27, 31, 9)}
           R == UNION P
           e == Ends(RegAERRootErrStatus)
<1>0. /\ Len(RegAERRootErrStatus) = 9 /\ e[0] = 0 /\ e[1] = 1 /\ e[2] = 2 /\ e[3] = 3
      /\ e[4] = 4 /\ e[5] = 5 /\ e[6] = 6 /\ e[7] = 7 /\ e[8] = 27 /\ e[9] = 32
  BY RegAERRootErrStatusEnds
<1> HIDE DEF e
<1>1. ASSUME NEW r \in R, r[3] # None
      PROVE  ShowsField(RegAERRootErrStatus, r, 32, {})
  <2>1. /\ r[3] \in 1..9 /\ r[1] = e[r[3] - 1] /\ r[2] + 1 = e[r[3]]
        /\ e[r[3] - 1] \in Nat /\ e[r[3]] \in Nat
        /\ e[r[3] - 1] < e[r[3]] /\ e[r[3]] <= 32
    BY <1>0, <1>1 DEF None, Field, Flags, Rsvd
  <2>2. QED
    BY <1>0, <2>1 DEF ShowsField, HasField, First, Behind, All, e
<1>2. (\A r \in R : InReg(r, 32)) /\ Apart(R)
  BY DEF InReg, Apart, None, Field, Flags, Rsvd
<1>3. Covers(R, 0, 31)
  <2>1. Flags(0, 6, 1) \in P /\ Rsvd(7, 26) \in P /\ Field(27, 31, 9) \in P
    OBVIOUS
  <2> HIDE DEF P
  <2>2. Covers(R, 0, 6) /\ Covers(R, 7, 26) /\ Covers(R, 27, 31)
    BY <2>1, PartsCover
  <2> HIDE DEF R
  <2>3. QED
    BY <2>2 DEF Covers
<1>4. Tells(Content(RegAERRootErrStatus, P), 32, {})
  BY <1>1, <1>2, <1>3, RegAERRootErrStatusEnds DEF Tells, Fits, Content
<1> HIDE DEF P
<1>5. /\ LayoutOf(AERCap, "root_err_status") = RegAERRootErrStatus
      /\ OffsetOf(AERCap, "root_err_status") = 48
      /\ 8 * SizeOf(RegAERRootErrStatus) = 32
  BY AERCapLaid, RegAERRootErrStatusEnds
<1>6. TextTells(Member(AERCap, 48, "root_err_status", P), 48, 32, {})
  BY <1>4, <1>5, MemberTells
<1>7. QED
  BY <1>6 DEF P, RootErrStatusText

\* A dump shows all of the bytes.
LEMMA LinesCover ==
  ASSUME NEW len \in Nat, 0 < len, NEW n \in {4, 16}
  PROVE  UNION GetHexDumpElem(len, n) = 0..(len - 1)
<1> DEFINE full == (len - 1) \div n
           upTo(k) == Min({(k + 1) * n, len})
           Line(k) == (k * n)..(upTo(k) - 1)
<1>1. 1 % n # 0
  OBVIOUS
<1>2. GetHexDumpElem(len, n) = {Line(k) : k \in 0..full}
  BY <1>1 DEF GetHexDumpElem
<1>3. ASSUME NEW k \in Nat
      PROVE  upTo(k) = IF (k + 1) * n <= len THEN (k + 1) * n ELSE len
  <2>1. (k + 1) * n \in Int
    OBVIOUS
  <2>2. QED
    BY <2>1 DEF Min
<1> HIDE DEF upTo
<1>4. ASSUME NEW x \in 0..(len - 1)
      PROVE  \E k \in 0..full : x \in Line(k)
  <2>1. x \div n \in 0..full
    OBVIOUS
  <2>2. (x \div n) * n <= x /\ x < ((x \div n) + 1) * n
    OBVIOUS
  <2>3. x <= upTo(x \div n) - 1
    BY <1>3, <2>1, <2>2
  <2>4. x \in Line(x \div n)
    BY <1>3, <2>1, <2>2, <2>3
  <2>5. QED
    BY <2>1, <2>4
<1>5. ASSUME NEW k \in 0..full, NEW x \in Line(k)
      PROVE  x \in 0..(len - 1)
  <2>1. upTo(k) <= len /\ upTo(k) \in Int /\ k * n \in Nat
    BY <1>3
  <2>2. QED
    BY <2>1
<1> HIDE DEF full, Line
<1>6. QED
  BY <1>2, <1>4, <1>5

LEMMA DumpTells ==
  ASSUME NEW len \in Nat, 0 < len, NEW n \in {4, 16}
  PROVE  Tells(Dump(len, n), 8 * len, {})
<1> DEFINE shown == Cardinality(UNION GetHexDumpElem(len, n))
           w == <<8 * len>>
<1>1. shown = len
  <2>1. UNION GetHexDumpElem(len, n) = 0..(len - 1)
    BY LinesCover
  <2>2. Cardinality(0..(len - 1)) = len
    <3>1. 0 \in Int /\ len - 1 \in Int /\ ~(0 > len - 1) /\ (len - 1) - 0 + 1 = len
      OBVIOUS
    <3> DEFINE m == len - 1
    <3>2. Cardinality(0..m) = IF 0 > m THEN 0 ELSE m - 0 + 1
      <4>1. m \in Int
        OBVIOUS
      <4> HIDE DEF m
      <4>2. QED
        BY <4>1, FS_Interval
    <3>3. QED
      BY <3>1, <3>2
  <2>3. QED
    BY <2>1, <2>2
<1>2. 8 * len \in Nat /\ 0 < 8 * len
  OBVIOUS
<1>3. w \in Seq(Nat) /\ Bits(w) = 8 * len
  BY <1>2, SingleEnds
<1>4. Dump(len, n) = Content(w, {Field(0, 8 * len - 1, All)})
  BY <1>1 DEF Dump
<1> HIDE DEF w
<1>5. QED
  BY <1>2, <1>3, <1>4, WholeTells

LEMMA HdrLogTextTells == TextTells(HdrLogText, 28, 128, {})
<1>1. Tells(Dump(16, 4), 8 * 16, {})
  BY DumpTells
<1>2. 8 * 16 = 128
  OBVIOUS
<1>3. QED
  BY <1>1, <1>2, AERCapLaid DEF HdrLogText, Text, TextTells, Placed

LEMMA TLPPrefLogTextTells == TextTells(TLPPrefLogText, 56, 128, {})
<1>1. Tells(Dump(16, 4), 8 * 16, {})
  BY DumpTells
<1>2. 8 * 16 = 128
  OBVIOUS
<1>3. QED
  BY <1>1, <1>2, AERCapLaid DEF TLPPrefLogText, Text, TextTells, Placed

LEMMA VendorSpecTells ==
  ASSUME NEW len \in 1..255
  PROVE  TextTells(VendorSpecTexts(len)["vendor_spec"], 3, 8 * len, {})
<1> DEFINE c == CompatCapVendorSpec
           s == Sizes(c)
           e == Ends(s)
<1>1. DOMAIN c = 1..2 /\ c[1] = <<"hdr", CompatCapHdr>> /\ c[2] = <<"len", <<8>>>>
  BY DEF CompatCapVendorSpec
<1> HIDE DEF c
<1>2. s \in Seq(Nat) /\ Len(s) = 2 /\ s[1] = 2 /\ s[2] = 1
  <2>1. s = [k \in 1..2 |-> SizeOf(c[k][2])]
    BY <1>1 DEF Sizes
  <2>2. SizeOf(CompatCapHdr) = 2
    BY CompatCapHdrEnds
  <2>3. SizeOf(<<8>>) = 1
    BY SingleEnds DEF SizeOf
  <2> HIDE DEF s
  <2>4. QED
    BY <1>1, <2>1, <2>2, <2>3
<1> HIDE DEF s
<1>3. e[0] = 0 /\ \A k \in 1..2 : e[k] = e[k - 1] + s[k]
  BY <1>2, EndsDefined
<1> HIDE DEF e
<1>4. e[2] = 3
  BY <1>2, <1>3
<1>5. CapSize(CompatCapVendorSpec) = 3
  BY <1>2, <1>4 DEF CapSize, Bits, e, s, c
<1>6. Tells(Dump(len, 16), 8 * len, {})
  BY DumpTells
<1>7. QED
  BY <1>5, <1>6 DEF VendorSpecTexts, Text, TextTells, Placed

LEMMA VendorSpecSound ==
  ASSUME NEW len \in 1..255
  PROVE  Sound(VendorSpecTexts(len), {"vendor_spec"})
<1> DEFINE t == VendorSpecTexts(len)
           off == [vendor_spec |-> 3]
           size == [vendor_spec |-> len]
<1>1. TextTells(t["vendor_spec"], 3, 8 * len, {})
  BY VendorSpecTells
<1>2. Wrong("vendor_spec") = {}
  BY Mislabelling DEF Wrong
<1> HIDE DEF t
<1>3. \A r \in {"vendor_spec"} : TextTells(t[r], off[r], 8 * size[r], Wrong(r))
  BY <1>1, <1>2
<1>4. off \in [{"vendor_spec"} -> Nat] /\ size \in [{"vendor_spec"} -> Nat \ {0}]
  OBVIOUS
<1>5. \A r \in {"vendor_spec"} : r \notin {"bist", "bridge_ctl", "lane_eq_ctl"}
  OBVIOUS
<1> HIDE DEF off, size
<1>6. Sound(t, {"vendor_spec"})
  BY <1>3, <1>4, <1>5, TableSound
<1>7. QED
  BY <1>6 DEF t
LEMMA SizesOfWords == SizeOf(<<16>>) = 2 /\ SizeOf(<<32>>) = 4
<1>1. SizeOf(<<8 * 2>>) = 2 /\ SizeOf(<<8 * 4>>) = 4
  BY SingleSize
<1>2. 8 * 2 = 16 /\ 8 * 4 = 32
  OBVIOUS
<1>3. QED
  BY <1>1, <1>2

LEMMA RegMSIMsgCtrlEnds ==
  /\ RegMSIMsgCtrl \in Seq(Nat) /\ Len(RegMSIMsgCtrl) = 8 /\ Bits(RegMSIMsgCtrl) = 16
  /\ SizeOf(RegMSIMsgCtrl) = 2 /\ Ends(RegMSIMsgCtrl)[0] = 0 /\ Ends(RegMSIMsgCtrl)[1] = 1
  /\ Ends(RegMSIMsgCtrl)[2] = 4 /\ Ends(RegMSIMsgCtrl)[3] = 7 /\ Ends(RegMSIMsgCtrl)[4] = 8
  /\ Ends(RegMSIMsgCtrl)[5] = 9 /\ Ends(RegMSIMsgCtrl)[6] = 10 /\ Ends(RegMSIMsgCtrl)[7] = 11
  /\ Ends(RegMSIMsgCtrl)[8] = 16
<1>1. RegMSIMsgCtrl \in Seq(Nat) /\ Len(RegMSIMsgCtrl) = 8
  BY DEF RegMSIMsgCtrl
<1> DEFINE e == Ends(RegMSIMsgCtrl)
<1>2. e[0] = 0 /\ \A n \in 1..8 : e[n] = e[n - 1] + RegMSIMsgCtrl[n]
  BY <1>1, EndsDefined
<1> HIDE DEF e
<1>3. /\ e[0] = 0 /\ e[1] = 1 /\ e[2] = 4 /\ e[3] = 7 /\ e[4] = 8 /\ e[5] = 9 /\ e[6] = 10
      /\ e[7] = 11 /\ e[8] = 16
  BY <1>2 DEF RegMSIMsgCtrl
<1>4. QED
  BY <1>1, <1>3 DEF e, Bits, SizeOf

LEMMA MSI32Laid ==
  ASSUME NEW a \in BOOLEAN, NEW m \in BOOLEAN, ~a, ~m
  PROVE  /\ OffsetOf(MSICap(a, m), "mc") = 2
         /\ OffsetOf(MSICap(a, m), "msg_addr") = 4
         /\ OffsetOf(MSICap(a, m), "msg_data") = 8
         /\ OffsetOf(MSICap(a, m), "ext_msg_data") = 10
<1> DEFINE c == MSICap(a, m)
           s == Sizes(c)
           e == Ends(s)
<1>1. /\ DOMAIN c = 1..5 /\ c[1] = <<"hdr", CompatCapHdr>> /\ c[2] = <<"mc", RegMSIMsgCtrl>>
      /\ c[3] = <<"msg_addr", <<32>>>> /\ c[4] = <<"msg_data", <<16>>>>
      /\ c[5] = <<"ext_msg_data", <<16>>>>
  BY DEF MSICap
<1> HIDE DEF c
<1>2. \A j, k \in DOMAIN c : c[j][1] = c[k][1] => j = k
  BY <1>1
<1>3. s \in Seq(Nat) /\ Len(s) = 5 /\ s[1] = 2 /\ s[2] = 2 /\ s[3] = 4 /\ s[4] = 2 /\ s[5] = 2
  <2>1. s = [k \in 1..5 |-> SizeOf(c[k][2])]
    BY <1>1 DEF Sizes
  <2>2. /\ SizeOf(CompatCapHdr) = 2 /\ SizeOf(RegMSIMsgCtrl) = 2 /\ SizeOf(<<32>>) = 4
        /\ SizeOf(<<16>>) = 2
    BY CompatCapHdrEnds, RegMSIMsgCtrlEnds, SizesOfWords
  <2> HIDE DEF s
  <2>3. QED
    BY <1>1, <2>1, <2>2
<1> HIDE DEF s
<1>4. e[0] = 0 /\ \A k \in 1..5 : e[k] = e[k - 1] + s[k]
  BY <1>3, EndsDefined
<1> HIDE DEF e
<1>5. e[0] = 0 /\ e[1] = 2 /\ e[2] = 4 /\ e[3] = 8 /\ e[4] = 10
  BY <1>3, <1>4
<1>6. Position(s, 2) = 2 /\ Position(s, 3) = 4 /\ Position(s, 4) = 8 /\ Position(s, 5) = 10
  BY <1>5 DEF Position, e
<1>7. OffsetOf(c, "mc") = 2
  <2>1. \A j \in DOMAIN c : c[j][1] = "mc" => j = 2
    BY <1>1, <1>2
  <2>2. Position(Sizes(c), 2) = 2
    BY <1>6 DEF s
  <2>3. 2 \in DOMAIN c /\ c[2] = <<"mc", RegMSIMsgCtrl>>
    BY <1>1
  <2>4. QED
    BY <2>1, <2>2, <2>3, LaidOut
<1>8. OffsetOf(c, "msg_addr") = 4
  <2>1. \A j \in DOMAIN c : c[j][1] = "msg_addr" => j = 3
    BY <1>1, <1>2
  <2>2. Position(Sizes(c), 3) = 4
    BY <1>6 DEF s
  <2>3. 3 \in DOMAIN c /\ c[3] = <<"msg_addr", <<32>>>>
    BY <1>1
  <2>4. QED
    BY <2>1, <2>2, <2>3, LaidOut
<1>9. OffsetOf(c, "msg_data") = 8
  <2>1. \A j \in DOMAIN c : c[j][1] = "msg_data" => j = 4
    BY <1>1, <1>2
  <2>2. Position(Sizes(c), 4) = 8
    BY <1>6 DEF s
  <2>3. 4 \in DOMAIN c /\ c[4] = <<"msg_data", <<16>>>>
    BY <1>1
  <2>4. QED
    BY <2>1, <2>2, <2>3, LaidOut
<1>10. OffsetOf(c, "ext_msg_data") = 10
  <2>1. \A j \in DOMAIN c : c[j][1] = "ext_msg_data" => j = 5
    BY <1>1, <1>2
  <2>2. Position(Sizes(c), 5) = 10
    BY <1>6 DEF s
  <2>3. 5 \in DOMAIN c /\ c[5] = <<"ext_msg_data", <<16>>>>
    BY <1>1
  <2>4. QED
    BY <2>1, <2>2, <2>3, LaidOut
<1>11. QED
  BY <1>7, <1>8, <1>9, <1>10 DEF c

LEMMA MSI32PVMLaid ==
  ASSUME NEW a \in BOOLEAN, NEW m \in BOOLEAN, ~a, m
  PROVE  /\ OffsetOf(MSICap(a, m), "mc") = 2
         /\ OffsetOf(MSICap(a, m), "msg_addr") = 4
         /\ OffsetOf(MSICap(a, m), "msg_data") = 8
         /\ OffsetOf(MSICap(a, m), "ext_msg_data") = 10
         /\ OffsetOf(MSICap(a, m), "mask_bits") = 12
         /\ OffsetOf(MSICap(a, m), "pending_bits") = 16
<1> DEFINE c == MSICap(a, m)
           s == Sizes(c)
           e == Ends(s)
<1>1. /\ DOMAIN c = 1..7 /\ c[1] = <<"hdr", CompatCapHdr>> /\ c[2] = <<"mc", RegMSIMsgCtrl>>
      /\ c[3] = <<"msg_addr", <<32>>>> /\ c[4] = <<"msg_data", <<16>>>>
      /\ c[5] = <<"ext_msg_data", <<16>>>> /\ c[6] = <<"mask_bits", <<32>>>>
      /\ c[7] = <<"pending_bits", <<32>>>>
  BY DEF MSICap
<1> HIDE DEF c
<1>2. \A j, k \in DOMAIN c : c[j][1] = c[k][1] => j = k
  BY <1>1
<1>3. /\ s \in Seq(Nat) /\ Len(s) = 7 /\ s[1] = 2 /\ s[2] = 2 /\ s[3] = 4 /\ s[4] = 2
      /\ s[5] = 2 /\ s[6] = 4 /\ s[7] = 4
  <2>1. s = [k \in 1..7 |-> SizeOf(c[k][2])]
    BY <1>1 DEF Sizes
  <2>2. /\ SizeOf(CompatCapHdr) = 2 /\ SizeOf(RegMSIMsgCtrl) = 2 /\ SizeOf(<<32>>) = 4
        /\ SizeOf(<<16>>) = 2
    BY CompatCapHdrEnds, RegMSIMsgCtrlEnds, SizesOfWords
  <2> HIDE DEF s
  <2>3. QED
    BY <1>1, <2>1, <2>2
<1> HIDE DEF s
<1>4. e[0] = 0 /\ \A k \in 1..7 : e[k] = e[k - 1] + s[k]
  BY <1>3, EndsDefined
<1> HIDE DEF e
<1>5. e[0] = 0 /\ e[1] = 2 /\ e[2] = 4 /\ e[3] = 8 /\ e[4] = 10 /\ e[5] = 12 /\ e[6] = 16
  <2>1. /\ e[1] = e[0] + s[1] /\ e[2] = e[1] + s[2] /\ e[3] = e[2] + s[3]
        /\ e[4] = e[3] + s[4] /\ e[5] = e[4] + s[5] /\ e[6] = e[5] + s[6]
    BY <1>4
  <2>2. QED
    BY <1>3, <1>4, <2>1
<1>6. /\ Position(s, 2) = 2 /\ Position(s, 3) = 4 /\ Position(s, 4) = 8 /\ Position(s, 5) = 10
      /\ Position(s, 6) = 12 /\ Position(s, 7) = 16
  BY <1>5 DEF Position, e
<1>7. OffsetOf(c, "mc") = 2
  <2>1. \A j \in DOMAIN c : c[j][1] = "mc" => j = 2
    BY <1>1, <1>2
  <2>2. Position(Sizes(c), 2) = 2
    BY <1>6 DEF s
  <2>3. 2 \in DOMAIN c /\ c[2] = <<"mc", RegMSIMsgCtrl>>
    BY <1>1
  <2>4. QED
    BY <2>1, <2>2, <2>3, LaidOut
<1>8. OffsetOf(c, "msg_addr") = 4
  <2>1. \A j \in DOMAIN c : c[j][1] = "msg_addr" => j = 3
    BY <1>1, <1>2
  <2>2. Position(Sizes(c), 3) = 4
    BY <1>6 DEF s
  <2>3. 3 \in DOMAIN c /\ c[3] = <<"msg_addr", <<32>>>>
    BY <1>1
  <2>4. QED
    BY <2>1, <2>2, <2>3, LaidOut
<1>9. OffsetOf(c, "msg_data") = 8
  <2>1. \A j \in DOMAIN c : c[j][1] = "msg_data" => j = 4
    BY <1>1, <1>2
  <2>2. Position(Sizes(c), 4) = 8
    BY <1>6 DEF s
  <2>3. 4 \in DOMAIN c /\ c[4] = <<"msg_data", <<16>>>>
    BY <1>1
  <2>4. QED
    BY <2>1, <2>2, <2>3, LaidOut
<1>10. OffsetOf(c, "ext_msg_data") = 10
  <2>1. \A j \in DOMAIN c : c[j][1] = "ext_msg_data" => j = 5
    BY <1>1, <1>2
  <2>2. Position(Sizes(c), 5) = 10
    BY <1>6 DEF s
  <2>3. 5 \in DOMAIN c /\ c[5] = <<"ext_msg_data", <<16>>>>
    BY <1>1
  <2>4. QED
    BY <2>1, <2>2, <2>3, LaidOut
<1>11. OffsetOf(c, "mask_bits") = 12
  <2>1. \A j \in DOMAIN c : c[j][1] = "mask_bits" => j = 6
    BY <1>1, <1>2
  <2>2. Position(Sizes(c), 6) = 12
    BY <1>6 DEF s
  <2>3. 6 \in DOMAIN c /\ c[6] = <<"mask_bits", <<32>>>>
    BY <1>1
  <2>4. QED
    BY <2>1, <2>2, <2>3, LaidOut
<1>12. OffsetOf(c, "pending_bits") = 16
  <2>1. \A j \in DOMAIN c : c[j][1] = "pending_bits" => j = 7
    BY <1>1, <1>2
  <2>2. Position(Sizes(c), 7) = 16
    BY <1>6 DEF s
  <2>3. 7 \in DOMAIN c /\ c[7] = <<"pending_bits", <<32>>>>
    BY <1>1
  <2>4. QED
    BY <2>1, <2>2, <2>3, LaidOut
<1>13. QED
  BY <1>7, <1>8, <1>9, <1>10, <1>11, <1>12 DEF c

LEMMA MSI64Laid ==
  ASSUME NEW a \in BOOLEAN, NEW m \in BOOLEAN, a, ~m
  PROVE  /\ OffsetOf(MSICap(a, m), "mc") = 2
         /\ OffsetOf(MSICap(a, m), "msg_addr") = 4
         /\ OffsetOf(MSICap(a, m), "msg_addr_upper") = 8
         /\ OffsetOf(MSICap(a, m), "msg_data") = 12
         /\ OffsetOf(MSICap(a, m), "ext_msg_data") = 14
<1> DEFINE c == MSICap(a, m)
           s == Sizes(c)
           e == Ends(s)
<1>1. /\ DOMAIN c = 1..6 /\ c[1] = <<"hdr", CompatCapHdr>> /\ c[2] = <<"mc", RegMSIMsgCtrl>>
      /\ c[3] = <<"msg_addr", <<32>>>> /\ c[4] = <<"msg_addr_upper", <<32>>>>
      /\ c[5] = <<"msg_data", <<16>>>> /\ c[6] = <<"ext_msg_data", <<16>>>>
  BY DEF MSICap
<1> HIDE DEF c
<1>2. \A j, k \in DOMAIN c : c[j][1] = c[k][1] => j = k
  BY <1>1
<1>3. /\ s \in Seq(Nat) /\ Len(s) = 6 /\ s[1] = 2 /\ s[2] = 2 /\ s[3] = 4 /\ s[4] = 4
      /\ s[5] = 2 /\ s[6] = 2
  <2>1. s = [k \in 1..6 |-> SizeOf(c[k][2])]
    BY <1>1 DEF Sizes
  <2>2. /\ SizeOf(CompatCapHdr) = 2 /\ SizeOf(RegMSIMsgCtrl) = 2 /\ SizeOf(<<32>>) = 4
        /\ SizeOf(<<16>>) = 2
    BY CompatCapHdrEnds, RegMSIMsgCtrlEnds, SizesOfWords
  <2> HIDE DEF s
  <2>3. QED
    BY <1>1, <2>1, <2>2
<1> HIDE DEF s
<1>4. e[0] = 0 /\ \A k \in 1..6 : e[k] = e[k - 1] + s[k]
  BY <1>3, EndsDefined
<1> HIDE DEF e
<1>5. e[0] = 0 /\ e[1] = 2 /\ e[2] = 4 /\ e[3] = 8 /\ e[4] = 12 /\ e[5] = 14
  BY <1>3, <1>4
<1>6. /\ Position(s, 2) = 2 /\ Position(s, 3) = 4 /\ Position(s, 4) = 8 /\ Position(s, 5) = 12
      /\ Position(s, 6) = 14
  BY <1>5 DEF Position, e
<1>7. OffsetOf(c, "mc") = 2
  <2>1. \A j \in DOMAIN c : c[j][1] = "mc" => j = 2
    BY <1>1, <1>2
  <2>2. Position(Sizes(c), 2) = 2
    BY <1>6 DEF s
  <2>3. 2 \in DOMAIN c /\ c[2] = <<"mc", RegMSIMsgCtrl>>
    BY <1>1
  <2>4. QED
    BY <2>1, <2>2, <2>3, LaidOut
<1>8. OffsetOf(c, "msg_addr") = 4
  <2>1. \A j \in DOMAIN c : c[j][1] = "msg_addr" => j = 3
    BY <1>1, <1>2
  <2>2. Position(Sizes(c), 3) = 4
    BY <1>6 DEF s
  <2>3. 3 \in DOMAIN c /\ c[3] = <<"msg_addr", <<32>>>>
    BY <1>1
  <2>4. QED
    BY <2>1, <2>2, <2>3, LaidOut
<1>9. OffsetOf(c, "msg_addr_upper") = 8
  <2>1. \A j \in DOMAIN c : c[j][1] = "msg_addr_upper" => j = 4
    BY <1>1, <1>2
  <2>2. Position(Sizes(c), 4) = 8
    BY <1>6 DEF s
  <2>3. 4 \in DOMAIN c /\ c[4] = <<"msg_addr_upper", <<32>>>>
    BY <1>1
  <2>4. QED
    BY <2>1, <2>2, <2>3, LaidOut
<1>10. OffsetOf(c, "msg_data") = 12
  <2>1. \A j \in DOMAIN c : c[j][1] = "msg_data" => j = 5
    BY <1>1, <1>2
  <2>2. Position(Sizes(c), 5) = 12
    BY <1>6 DEF s
  <2>3. 5 \in DOMAIN c /\ c[5] = <<"msg_data", <<16>>>>
    BY <1>1
  <2>4. QED
    BY <2>1, <2>2, <2>3, LaidOut
<1>11. OffsetOf(c, "ext_msg_data") = 14
  <2>1. \A j \in DOMAIN c : c[j][1] = "ext_msg_data" => j = 6
    BY <1>1, <1>2
  <2>2. Position(Sizes(c), 6) = 14
    BY <1>6 DEF s
  <2>3. 6 \in DOMAIN c /\ c[6] = <<"ext_msg_data", <<16>>>>
    BY <1>1
  <2>4. QED
    BY <2>1, <2>2, <2>3, LaidOut
<1>12. QED
  BY <1>7, <1>8, <1>9, <1>10, <1>11 DEF c

LEMMA MSI64PVMLaid ==
  ASSUME NEW a \in BOOLEAN, NEW m \in BOOLEAN, a, m
  PROVE  /\ OffsetOf(MSICap(a, m), "mc") = 2
         /\ OffsetOf(MSICap(a, m), "msg_addr") = 4
         /\ OffsetOf(MSICap(a, m), "msg_addr_upper") = 8
         /\ OffsetOf(MSICap(a, m), "msg_data") = 12
         /\ OffsetOf(MSICap(a, m), "ext_msg_data") = 14
         /\ OffsetOf(MSICap(a, m), "mask_bits") = 16
         /\ OffsetOf(MSICap(a, m), "pending_bits") = 20
<1> DEFINE c == MSICap(a, m)
           s == Sizes(c)
           e == Ends(s)
<1>1. /\ DOMAIN c = 1..8 /\ c[1] = <<"hdr", CompatCapHdr>> /\ c[2] = <<"mc", RegMSIMsgCtrl>>
      /\ c[3] = <<"msg_addr", <<32>>>> /\ c[4] = <<"msg_addr_upper", <<32>>>>
      /\ c[5] = <<"msg_data", <<16>>>> /\ c[6] = <<"ext_msg_data", <<16>>>>
      /\ c[7] = <<"mask_bits", <<32>>>> /\ c[8] = <<"pending_bits", <<32>>>>
  BY DEF MSICap
<1> HIDE DEF c
<1>2. \A j, k \in DOMAIN c : c[j][1] = c[k][1] => j = k
  BY <1>1
<1>3. /\ s \in Seq(Nat) /\ Len(s) = 8 /\ s[1] = 2 /\ s[2] = 2 /\ s[3] = 4 /\ s[4] = 4
      /\ s[5] = 2 /\ s[6] = 2 /\ s[7] = 4 /\ s[8] = 4
  <2>1. s = [k \in 1..8 |-> SizeOf(c[k][2])]
    BY <1>1 DEF Sizes
  <2>2. /\ SizeOf(CompatCapHdr) = 2 /\ SizeOf(RegMSIMsgCtrl) = 2 /\ SizeOf(<<32>>) = 4
        /\ SizeOf(<<16>>) = 2
    BY CompatCapHdrEnds, RegMSIMsgCtrlEnds, SizesOfWords
  <2> HIDE DEF s
  <2>3. QED
    BY <1>1, <2>1, <2>2
<1> HIDE DEF s
<1>4. e[0] = 0 /\ \A k \in 1..8 : e[k] = e[k - 1] + s[k]
  BY <1>3, EndsDefined
<1> HIDE DEF e
<1>5. /\ e[0] = 0 /\ e[1] = 2 /\ e[2] = 4 /\ e[3] = 8 /\ e[4] = 12 /\ e[5] = 14 /\ e[6] = 16
      /\ e[7] = 20
  <2>1. /\ s[1] = 2 /\ s[2] = 2 /\ s[3] = 4 /\ s[4] = 4 /\ s[5] = 2 /\ s[6] = 2 /\ s[7] = 4
        /\ s[8] = 4
    BY <1>3
  <2>2. e[0] = 0 /\ e[1] = 2 /\ e[2] = 4 /\ e[3] = 8 /\ e[4] = 12 /\ e[5] = 14
    BY <1>4, <2>1
  <2>3. e[6] = 16 /\ e[7] = 20
    BY <1>4, <2>1, <2>2
  <2>4. QED
    BY <2>2, <2>3
<1>6. /\ Position(s, 2) = 2 /\ Position(s, 3) = 4 /\ Position(s, 4) = 8 /\ Position(s, 5) = 12
      /\ Position(s, 6) = 14 /\ Position(s, 7) = 16 /\ Position(s, 8) = 20
  BY <1>5 DEF Position, e
<1>7. OffsetOf(c, "mc") = 2
  <2>1. \A j \in DOMAIN c : c[j][1] = "mc" => j = 2
    BY <1>1, <1>2
  <2>2. Position(Sizes(c), 2) = 2
    BY <1>6 DEF s
  <2>3. 2 \in DOMAIN c /\ c[2] = <<"mc", RegMSIMsgCtrl>>
    BY <1>1
  <2>4. QED
    BY <2>1, <2>2, <2>3, LaidOut
<1>8. OffsetOf(c, "msg_addr") = 4
  <2>1. \A j \in DOMAIN c : c[j][1] = "msg_addr" => j = 3
    BY <1>1, <1>2
  <2>2. Position(Sizes(c), 3) = 4
    BY <1>6 DEF s
  <2>3. 3 \in DOMAIN c /\ c[3] = <<"msg_addr", <<32>>>>
    BY <1>1
  <2>4. QED
    BY <2>1, <2>2, <2>3, LaidOut
<1>9. OffsetOf(c, "msg_addr_upper") = 8
  <2>1. \A j \in DOMAIN c : c[j][1] = "msg_addr_upper" => j = 4
    BY <1>1, <1>2
  <2>2. Position(Sizes(c), 4) = 8
    BY <1>6 DEF s
  <2>3. 4 \in DOMAIN c /\ c[4] = <<"msg_addr_upper", <<32>>>>
    BY <1>1
  <2>4. QED
    BY <2>1, <2>2, <2>3, LaidOut
<1>10. OffsetOf(c, "msg_data") = 12
  <2>1. \A j \in DOMAIN c : c[j][1] = "msg_data" => j = 5
    BY <1>1, <1>2
  <2>2. Position(Sizes(c), 5) = 12
    BY <1>6 DEF s
  <2>3. 5 \in DOMAIN c /\ c[5] = <<"msg_data", <<16>>>>
    BY <1>1
  <2>4. QED
    BY <2>1, <2>2, <2>3, LaidOut
<1>11. OffsetOf(c, "ext_msg_data") = 14
  <2>1. \A j \in DOMAIN c : c[j][1] = "ext_msg_data" => j = 6
    BY <1>1, <1>2
  <2>2. Position(Sizes(c), 6) = 14
    BY <1>6 DEF s
  <2>3. 6 \in DOMAIN c /\ c[6] = <<"ext_msg_data", <<16>>>>
    BY <1>1
  <2>4. QED
    BY <2>1, <2>2, <2>3, LaidOut
<1>12. OffsetOf(c, "mask_bits") = 16
  <2>1. \A j \in DOMAIN c : c[j][1] = "mask_bits" => j = 7
    BY <1>1, <1>2
  <2>2. Position(Sizes(c), 7) = 16
    BY <1>6 DEF s
  <2>3. 7 \in DOMAIN c /\ c[7] = <<"mask_bits", <<32>>>>
    BY <1>1
  <2>4. QED
    BY <2>1, <2>2, <2>3, LaidOut
<1>13. OffsetOf(c, "pending_bits") = 20
  <2>1. \A j \in DOMAIN c : c[j][1] = "pending_bits" => j = 8
    BY <1>1, <1>2
  <2>2. Position(Sizes(c), 8) = 20
    BY <1>6 DEF s
  <2>3. 8 \in DOMAIN c /\ c[8] = <<"pending_bits", <<32>>>>
    BY <1>1
  <2>4. QED
    BY <2>1, <2>2, <2>3, LaidOut
<1>14. QED
  BY <1>7, <1>8, <1>9, <1>10, <1>11, <1>12, <1>13 DEF c

LEMMA MSIMessageControlTells == TextTells(MSIMessageControl, 2, 16, {})
<1> DEFINE P == {Flag(0, 1), Field(1, 3, 2), Field(4, 6, 3), Flags(7, 10, 4), Rsvd(11, 15)}
           R == UNION P
           e == Ends(RegMSIMsgCtrl)
<1>0. /\ Len(RegMSIMsgCtrl) = 8 /\ e[0] = 0 /\ e[1] = 1 /\ e[2] = 4 /\ e[3] = 7 /\ e[4] = 8
      /\ e[5] = 9 /\ e[6] = 10 /\ e[7] = 11 /\ e[8] = 16
  BY RegMSIMsgCtrlEnds
<1> HIDE DEF e
<1>1. ASSUME NEW r \in R, r[3] # None
      PROVE  ShowsField(RegMSIMsgCtrl, r, 16, {})
  <2>1. /\ r[3] \in 1..8 /\ r[1] = e[r[3] - 1] /\ r[2] + 1 = e[r[3]]
        /\ e[r[3] - 1] \in Nat /\ e[r[3]] \in Nat
        /\ e[r[3] - 1] < e[r[3]] /\ e[r[3]] <= 16
    BY <1>0, <1>1 DEF None, Field, Flags, Flag, Rsvd
  <2>2. QED
    BY <1>0, <2>1 DEF ShowsField, HasField, First, Behind, All, e
<1>2. (\A r \in R : InReg(r, 16)) /\ Apart(R)
  BY DEF InReg, Apart, None, Field, Flags, Flag, Rsvd
<1>3. Covers(R, 0, 15)
  <2>1. /\ Flag(0, 1) \in P /\ Field(1, 3, 2) \in P /\ Field(4, 6, 3) \in P
        /\ Flags(7, 10, 4) \in P /\ Rsvd(11, 15) \in P
    OBVIOUS
  <2> HIDE DEF P
  <2>2. /\ Covers(R, 0, 0) /\ Covers(R, 1, 3) /\ Covers(R, 4, 6) /\ Covers(R, 7, 10)
        /\ Covers(R, 11, 15)
    BY <2>1, PartsCover
  <2> HIDE DEF R
  <2>3. QED
    BY <2>2 DEF Covers
<1>4. Tells(Content(RegMSIMsgCtrl, P), 16, {})
  BY <1>1, <1>2, <1>3, RegMSIMsgCtrlEnds DEF Tells, Fits, Content
<1> HIDE DEF P
<1>5. QED
  BY <1>4 DEF MSIMessageControl, Raw, Text, TextTells, Placed, P

LEMMA MSIAddressBox ==
  Box(<<2, 30>>, <<<<30, All>>, <<2, 1>>>>) =
    Content(<<2, 30>>, {Field(2, 31, All), Field(0, 1, 1)})
<1> DEFINE p == <<<<30, All>>, <<2, 1>>>>
           v == [k \in DOMAIN p |-> p[k][1]]
           e == Ends(v)
<1>1. DOMAIN p = 1..2 /\ p[1] = <<30, All>> /\ p[2] = <<2, 1>>
  OBVIOUS
<1> HIDE DEF p
<1>2. v \in Seq(Nat) /\ Len(v) = 2 /\ DOMAIN v = 1..2 /\ v[1] = 30 /\ v[2] = 2
  BY <1>1
<1> HIDE DEF v
<1>3. e[0] = 0 /\ \A k \in 1..2 : e[k] = e[k - 1] + v[k]
  BY <1>2, EndsDefined
<1>4. Bits(v) = e[2] /\ \A k : Position(v, k) = e[k - 1]
  BY <1>2 DEF Bits, Position
<1> HIDE DEF e
<1>5. e[0] = 0 /\ e[1] = 30 /\ e[2] = 32
  BY <1>2, <1>3
<1>6. {Field(Bits(v) - Position(v, k + 1), Bits(v) - Position(v, k) - 1, p[k][2]) :
         k \in DOMAIN p} =
        {Field(2, 31, All), Field(0, 1, 1)}
  BY <1>1, <1>4, <1>5
<1>7. QED
  BY <1>6 DEF Box, p, v

\* The upper bits of an address show all of it.
LEMMA MSILowerAddressTells == TextTells(MSILowerAddress, 4, 32, {2})
<1> DEFINE w == <<2, 30>>
           R == UNION {Field(2, 31, All), Field(0, 1, 1)}
           e == Ends(w)
<1>1. w \in Seq(Nat) /\ Len(w) = 2 /\ w[1] = 2 /\ w[2] = 30
  OBVIOUS
<1> HIDE DEF w
<1>2. e[0] = 0 /\ \A k \in 1..2 : e[k] = e[k - 1] + w[k]
  BY <1>1, EndsDefined
<1> HIDE DEF e
<1>3. e[0] = 0 /\ e[1] = 2 /\ e[2] = 32
  BY <1>1, <1>2
<1>4. /\ First(w, All) = 0 /\ Behind(w, All) = 32
      /\ First(w, 1) = 0 /\ Behind(w, 1) = 2
  BY <1>1, <1>3 DEF First, Behind, All, Bits, e
<1>5. R = {<<2, 31, All>>, <<0, 1, 1>>}
  BY DEF Field
<1> HIDE DEF R
<1>6. \A r \in R : InReg(r, 32) /\ ShowsField(w, r, 32, {2})
  BY <1>1, <1>4, <1>5 DEF InReg, ShowsField, HasField
<1>7. Apart(R) /\ Covers(R, 0, 31)
  <2>1. Apart(R)
    BY <1>5 DEF Apart
  <2>2. /\ <<2, 31, All>>[1] = 2 /\ <<2, 31, All>>[2] = 31
        /\ <<0, 1, 1>>[1] = 0 /\ <<0, 1, 1>>[2] = 1
    OBVIOUS
  <2>3. Covers(R, 0, 31)
    BY <1>5, <2>2 DEF Covers, Labelled
  <2>4. QED
    BY <2>1, <2>3
<1>8. Tells(Content(w, {Field(2, 31, All), Field(0, 1, 1)}), 32, {2})
  BY <1>1, <1>6, <1>7 DEF Tells, Fits, Content, R
<1>9. QED
  BY <1>8, MSIAddressBox DEF MSILowerAddress, Raw, Text, TextTells, Placed, w

LEMMA ValueTells ==
  ASSUME NEW off \in Nat, NEW len \in Nat, 0 < len
  PROVE  TextTells(Value(off, len), off, len, {})
BY SingleTells DEF Value, Raw, Text, TextTells, Placed

\* The registers of an MSI capability that are shown.
LEMMA MSITextsTell ==
  ASSUME NEW a \in BOOLEAN
  PROVE  /\ TextTells(MSITexts(a)["msg_ctrl"], 2, 16, {})
         /\ TextTells(MSITexts(a)["msg_addr"], 4, 32, {2})
         /\ TextTells(MSITexts(a)["msg_addr_lower"], 4, 32, {2})
         /\ TextTells(MSITexts(a)["msg_addr_upper"], 8, 32, {})
         /\ TextTells(MSITexts(a)["msg_data"], MSIDataOff(a), 16, {})
         /\ TextTells(MSITexts(a)["ext_msg_data"], MSIDataOff(a) + 2, 16, {})
         /\ TextTells(MSITexts(a)["mask_bits"], MSIMaskOff(a), 32, {})
         /\ TextTells(MSITexts(a)["pending_bits"], MSIMaskOff(a) + 4, 32, {})
<1>1. /\ MSIDataOff(a) \in Nat /\ MSIDataOff(a) + 2 \in Nat
      /\ MSIMaskOff(a) \in Nat /\ MSIMaskOff(a) + 4 \in Nat
  BY DEF MSIDataOff, MSIMaskOff
<1>2. /\ TextTells(Value(8, 32), 8, 32, {})
      /\ TextTells(Value(MSIDataOff(a), 16), MSIDataOff(a), 16, {})
      /\ TextTells(Value(MSIDataOff(a) + 2, 16), MSIDataOff(a) + 2, 16, {})
      /\ TextTells(Value(MSIMaskOff(a), 32), MSIMaskOff(a), 32, {})
      /\ TextTells(Value(MSIMaskOff(a) + 4, 32), MSIMaskOff(a) + 4, 32, {})
  BY <1>1, ValueTells
<1>3. QED
  BY <1>2, MSIMessageControlTells, MSILowerAddressTells DEF MSITexts

\* The offsets the code computes are those of the structure with the same parts.
LEMMA MSIOffsets ==
  ASSUME NEW a \in BOOLEAN, NEW m \in BOOLEAN
  PROVE  LET O(r) == OffsetOf(MSICap(a, m), MSIMember(r))
         IN  /\ O("msg_ctrl") = 2 /\ O("msg_data") = MSIDataOff(a)
             /\ O("ext_msg_data") = MSIDataOff(a) + 2
             /\ a => O("msg_addr_lower") = 4 /\ O("msg_addr_upper") = 8
             /\ ~a => O("msg_addr") = 4
             /\ m => O("mask_bits") = MSIMaskOff(a) /\ O("pending_bits") = MSIMaskOff(a) + 4
<1>1. /\ MSIMember("msg_ctrl") = "mc" /\ MSIMember("msg_addr_lower") = "msg_addr"
      /\ \A r \in {"msg_addr", "msg_addr_upper", "msg_data", "ext_msg_data", "mask_bits",
                   "pending_bits"} : MSIMember(r) = r
  BY DEF MSIMember
<1>2. CASE a /\ m
  <2>1. /\ OffsetOf(MSICap(a, m), "mc") = 2
        /\ OffsetOf(MSICap(a, m), "msg_addr") = 4
        /\ OffsetOf(MSICap(a, m), "msg_addr_upper") = 8
        /\ OffsetOf(MSICap(a, m), "msg_data") = 12
        /\ OffsetOf(MSICap(a, m), "ext_msg_data") = 14
        /\ OffsetOf(MSICap(a, m), "mask_bits") = 16
        /\ OffsetOf(MSICap(a, m), "pending_bits") = 20
    BY <1>2, MSI64PVMLaid
  <2>2. MSIDataOff(a) = 12 /\ MSIMaskOff(a) = 16 /\ 12 + 2 = 14 /\ 16 + 4 = 20
    BY <1>2 DEF MSIDataOff, MSIMaskOff
  <2>3. QED
    BY <1>1, <1>2, <2>1, <2>2
<1>3. CASE a /\ ~m
  <2>1. /\ OffsetOf(MSICap(a, m), "mc") = 2
        /\ OffsetOf(MSICap(a, m), "msg_addr") = 4
        /\ OffsetOf(MSICap(a, m), "msg_addr_upper") = 8
        /\ OffsetOf(MSICap(a, m), "msg_data") = 12
        /\ OffsetOf(MSICap(a, m), "ext_msg_data") = 14
    BY <1>3, MSI64Laid
  <2>2. MSIDataOff(a) = 12 /\ MSIMaskOff(a) = 16 /\ 12 + 2 = 14 /\ 16 + 4 = 20
    BY <1>3 DEF MSIDataOff, MSIMaskOff
  <2>3. QED
    BY <1>1, <1>3, <2>1, <2>2
<1>4. CASE ~a /\ m
  <2>1. /\ OffsetOf(MSICap(a, m), "mc") = 2
        /\ OffsetOf(MSICap(a, m), "msg_addr") = 4
        /\ OffsetOf(MSICap(a, m), "msg_data") = 8
        /\ OffsetOf(MSICap(a, m), "ext_msg_data") = 10
        /\ OffsetOf(MSICap(a, m), "mask_bits") = 12
        /\ OffsetOf(MSICap(a, m), "pending_bits") = 16
    BY <1>4, MSI32PVMLaid
  <2>2. MSIDataOff(a) = 8 /\ MSIMaskOff(a) = 12 /\ 8 + 2 = 10 /\ 12 + 4 = 16
    BY <1>4 DEF MSIDataOff, MSIMaskOff
  <2>3. QED
    BY <1>1, <1>4, <2>1, <2>2
<1>5. CASE ~a /\ ~m
  <2>1. /\ OffsetOf(MSICap(a, m), "mc") = 2
        /\ OffsetOf(MSICap(a, m), "msg_addr") = 4
        /\ OffsetOf(MSICap(a, m), "msg_data") = 8
        /\ OffsetOf(MSICap(a, m), "ext_msg_data") = 10
    BY <1>5, MSI32Laid
  <2>2. MSIDataOff(a) = 8 /\ MSIMaskOff(a) = 12 /\ 8 + 2 = 10 /\ 12 + 4 = 16
    BY <1>5 DEF MSIDataOff, MSIMaskOff
  <2>3. QED
    BY <1>1, <1>5, <2>1, <2>2
<1>6. QED
  BY <1>2, <1>3, <1>4, <1>5

LEMMA MSITextsSound ==
  ASSUME NEW a \in BOOLEAN, NEW m \in BOOLEAN
  PROVE  /\ Sound(MSITexts(a), MSIRegs(a, m))
         /\ \A r \in MSIRegs(a, m) :
              MSITexts(a)[r].title = OffsetOf(MSICap(a, m), MSIMember(r))
<1> DEFINE O(r) == OffsetOf(MSICap(a, m), MSIMember(r))
           regs == MSIRegs(a, m)
           two == {"msg_ctrl", "msg_data", "ext_msg_data"}
           t == MSITexts(a)
           off == [r \in regs |-> O(r)]
           size == [r \in regs |-> IF r \in two THEN 2 ELSE 4]
<1>1. /\ O("msg_ctrl") = 2 /\ O("msg_data") = MSIDataOff(a)
      /\ O("ext_msg_data") = MSIDataOff(a) + 2
      /\ a => O("msg_addr_lower") = 4 /\ O("msg_addr_upper") = 8
      /\ ~a => O("msg_addr") = 4
      /\ m => O("mask_bits") = MSIMaskOff(a) /\ O("pending_bits") = MSIMaskOff(a) + 4
  BY MSIOffsets
<1>2. /\ TextTells(t["msg_ctrl"], 2, 16, {}) /\ TextTells(t["msg_addr"], 4, 32, {2})
      /\ TextTells(t["msg_addr_lower"], 4, 32, {2}) /\ TextTells(t["msg_addr_upper"], 8, 32, {})
      /\ TextTells(t["msg_data"], MSIDataOff(a), 16, {})
      /\ TextTells(t["ext_msg_data"], MSIDataOff(a) + 2, 16, {})
      /\ TextTells(t["mask_bits"], MSIMaskOff(a), 32, {})
      /\ TextTells(t["pending_bits"], MSIMaskOff(a) + 4, 32, {})
  BY MSITextsTell
<1> HIDE DEF t, O
<1>3. /\ Wrong("msg_addr") = {2} /\ Wrong("msg_addr_lower") = {2}
      /\ \A r \in two \cup {"msg_addr_upper", "mask_bits", "pending_bits"} : Wrong(r) = {}
  BY Mislabelling DEF Wrong, MislabelledRows
<1>4. \A r \in regs : TextTells(t[r], O(r), IF r \in two THEN 16 ELSE 32, Wrong(r))
  BY <1>1, <1>2, <1>3 DEF MSIRegs
<1>5. ASSUME NEW r \in regs
      PROVE  TextTells(t[r], off[r], 8 * size[r], Wrong(r))
  <2>1. 8 * size[r] = IF r \in two THEN 16 ELSE 32
    OBVIOUS
  <2>2. off[r] = O(r)
    OBVIOUS
  <2>3. QED
    BY <1>4, <2>1, <2>2
<1>6. \A r \in regs : O(r) \in Nat
  BY <1>1 DEF MSIRegs, MSIDataOff, MSIMaskOff
<1>7. off \in [regs -> Nat] /\ size \in [regs -> Nat \ {0}]
  BY <1>6
<1>8. \A r, q \in regs : r # q => off[r] + size[r] <= off[q] \/ off[q] + size[q] <= off[r]
  BY <1>1 DEF MSIRegs, MSIDataOff, MSIMaskOff
<1>9. \A r \in regs : r \notin {"bist", "bridge_ctl", "lane_eq_ctl"}
  BY DEF MSIRegs
<1> HIDE DEF off, size, regs
<1>10. Sound(t, regs)
  BY <1>5, <1>7, <1>8, <1>9, TableSound
<1>11. \A r \in regs : t[r].title = O(r)
  BY <1>4 DEF TextTells, Placed
<1>12. QED
  BY <1>10, <1>11 DEF t, O, regs

-----------------------------------------------------------------------------

LEMMA ErrSrcIDTextTells == TextTells(ErrSrcIDText, 52, 32, {})
<1> DEFINE w == <<16>> \o <<16>>
           P == {Field(0, 15, 1), Field(16, 31, 2)}
           R == UNION P
           e == Ends(w)
<1>1. w \in Seq(Nat) /\ Len(w) = 2 /\ w[1] = 16 /\ w[2] = 16
  OBVIOUS
<1>2. ErrSrcIDText = Text(52, 8 * 52, 32, Content(w, P))
  <2>1. LayoutOf(AERCap, "corr_err_src_id") = <<16>> /\ LayoutOf(AERCap, "err_src_id") = <<16>>
    BY AERCapLaid DEF RegAERCorrErrSrcID, RegAERErrSrcID
  <2>2. QED
    BY <2>1, AERCapLaid DEF ErrSrcIDText
<1> HIDE DEF w
<1>3. e[0] = 0 /\ \A k \in 1..2 : e[k] = e[k - 1] + w[k]
  BY <1>1, EndsDefined
<1> HIDE DEF e
<1>4. e[0] = 0 /\ e[1] = 16 /\ e[2] = 32
  BY <1>1, <1>3
<1>5. First(w, 1) = 0 /\ Behind(w, 1) = 16 /\ First(w, 2) = 16 /\ Behind(w, 2) = 32
  BY <1>4 DEF First, Behind, All, e
<1>6. R = {<<0, 15, 1>>, <<16, 31, 2>>}
  BY DEF Field
<1>7. Covers(R, 0, 15) /\ Covers(R, 16, 31)
  <2>1. Field(0, 15, 1) \in P /\ Field(16, 31, 2) \in P
    OBVIOUS
  <2> HIDE DEF P
  <2>2. QED
    BY <2>1, PartsCover
<1> HIDE DEF R
<1>8. (\A r \in R : InReg(r, 32) /\ ShowsField(w, r, 32, {})) /\ Apart(R)
  BY <1>1, <1>5, <1>6 DEF InReg, ShowsField, HasField, Apart
<1>9. Covers(R, 0, 31)
  BY <1>7 DEF Covers
<1>10. Tells(Content(w, P), 32, {})
  BY <1>1, <1>8, <1>9 DEF Tells, Fits, Content, R
<1> HIDE DEF P
<1>11. QED
  BY <1>2, <1>10 DEF Text, TextTells, Placed

\* The three tables of the error reporting capability are of different registers.
LEMMA AERLookup ==
  /\ \A r \in {"uncorr_err_stat", "uncorr_err_mask", "uncorr_err_sev"} :
       AERTexts[r] = AERUncorrTexts[r]
  /\ \A r \in {"corr_err_stat", "corr_err_mask"} : AERTexts[r] = AERCorrTexts[r]
  /\ AERTexts["adv_err_cap_ctl"] = AERCtlText /\ AERTexts["hdr_log"] = HdrLogText
  /\ AERTexts["root_err_cmd"] = RootErrCmdText
  /\ AERTexts["root_err_status"] = RootErrStatusText
  /\ AERTexts["err_src_id"] = ErrSrcIDText /\ AERTexts["tlp_pref_log"] = TLPPrefLogText
<1> DEFINE A == AERUncorrTexts
           B == AERCorrTexts
           C == [adv_err_cap_ctl |-> AERCtlText, hdr_log |-> HdrLogText,
                 root_err_cmd |-> RootErrCmdText, root_err_status |-> RootErrStatusText,
                 err_src_id |-> ErrSrcIDText, tlp_pref_log |-> TLPPrefLogText]
           S == {A, B, C}
<1>1. /\ DOMAIN A = {"uncorr_err_stat", "uncorr_err_mask", "uncorr_err_sev"}
      /\ DOMAIN B = {"corr_err_stat", "corr_err_mask"}
  BY DEF AERUncorrTexts, AERCorrTexts
<1>2. /\ DOMAIN C = {"adv_err_cap_ctl", "hdr_log", "root_err_cmd", "root_err_status",
                     "err_src_id", "tlp_pref_log"}
      /\ C["adv_err_cap_ctl"] = AERCtlText /\ C["hdr_log"] = HdrLogText
      /\ C["root_err_cmd"] = RootErrCmdText /\ C["root_err_status"] = RootErrStatusText
      /\ C["err_src_id"] = ErrSrcIDText /\ C["tlp_pref_log"] = TLPPrefLogText
  OBVIOUS
<1>3. AERTexts = Merged(S)
  BY DEF AERTexts
<1> HIDE DEF A, B, C
<1>4. \A t, u \in S : \A r : r \in DOMAIN t /\ r \in DOMAIN u => t = u
  BY <1>1, <1>2
<1>5. ASSUME NEW t \in S, NEW r \in DOMAIN t PROVE AERTexts[r] = t[r]
  <2>1. \A u \in S : r \in DOMAIN u => u = t
    BY <1>4
  <2> HIDE DEF S
  <2>2. QED
    BY <1>3, <2>1, MergedAt
<1>6. /\ \A r \in DOMAIN A : AERTexts[r] = A[r]
      /\ \A r \in DOMAIN B : AERTexts[r] = B[r]
      /\ \A r \in DOMAIN C : AERTexts[r] = C[r]
  BY <1>5
<1>7. QED
  BY <1>1, <1>2, <1>6 DEF A, B

LEMMA AERTextsSound ==
  Sound(AERTexts, {"uncorr_err_stat", "uncorr_err_mask",
                  "uncorr_err_sev", "corr_err_stat", "corr_err_mask", "adv_err_cap_ctl",
                  "hdr_log", "root_err_cmd", "root_err_status", "err_src_id", "tlp_pref_log"})
<1> DEFINE regs == {"uncorr_err_stat", "uncorr_err_mask", "uncorr_err_sev", "corr_err_stat",
                    "corr_err_mask", "adv_err_cap_ctl", "hdr_log", "root_err_cmd",
                    "root_err_status", "err_src_id", "tlp_pref_log"}
           off == [uncorr_err_stat |-> 4, uncorr_err_mask |-> 8, uncorr_err_sev |-> 12,
                   corr_err_stat |-> 16, corr_err_mask |-> 20, adv_err_cap_ctl |-> 24,
                   hdr_log |-> 28, root_err_cmd |-> 44, root_err_status |-> 48,
                   err_src_id |-> 52, tlp_pref_log |-> 56]
           size == [uncorr_err_stat |-> 4, uncorr_err_mask |-> 4, uncorr_err_sev |-> 4,
                    corr_err_stat |-> 4, corr_err_mask |-> 4, adv_err_cap_ctl |-> 4,
                    hdr_log |-> 16, root_err_cmd |-> 4, root_err_status |-> 4,
                    err_src_id |-> 4, tlp_pref_log |-> 16]
           t == AERTexts
<1>1. /\ TextTells(t["uncorr_err_stat"], 4, 32, {})
      /\ TextTells(t["uncorr_err_mask"], 8, 32, {})
      /\ TextTells(t["uncorr_err_sev"], 12, 32, {})
      /\ TextTells(t["corr_err_stat"], 16, 32, {})
      /\ TextTells(t["corr_err_mask"], 20, 32, {})
      /\ TextTells(t["adv_err_cap_ctl"], 24, 32, {})
      /\ TextTells(t["hdr_log"], 28, 128, {})
      /\ TextTells(t["root_err_cmd"], 44, 32, {0, 2})
      /\ TextTells(t["root_err_status"], 48, 32, {})
      /\ TextTells(t["err_src_id"], 52, 32, {})
      /\ TextTells(t["tlp_pref_log"], 56, 128, {})
  BY AERLookup, UncorrErrStatTells, UncorrErrMaskTells, UncorrErrSevTells, CorrErrStatTells,
     CorrErrMaskTells, AERCtlTextTells, HdrLogTextTells, RootErrCmdTextTells,
     RootErrStatusTextTells, ErrSrcIDTextTells, TLPPrefLogTextTells
<1> HIDE DEF t
<1>2. Wrong("root_err_cmd") = {0, 2} /\ \A r \in regs \ {"root_err_cmd"} : Wrong(r) = {}
  BY Mislabelling DEF Wrong, MislabelledRows
<1>3. \A r \in regs : TextTells(t[r], off[r], 8 * size[r], Wrong(r))
  <2>1. /\ off["uncorr_err_stat"] = 4 /\ 8 * size["uncorr_err_stat"] = 32
        /\ off["uncorr_err_mask"] = 8 /\ 8 * size["uncorr_err_mask"] = 32
        /\ off["uncorr_err_sev"] = 12 /\ 8 * size["uncorr_err_sev"] = 32
        /\ off["corr_err_stat"] = 16 /\ 8 * size["corr_err_stat"] = 32
        /\ off["corr_err_mask"] = 20 /\ 8 * size["corr_err_mask"] = 32
        /\ off["adv_err_cap_ctl"] = 24 /\ 8 * size["adv_err_cap_ctl"] = 32
        /\ off["hdr_log"] = 28 /\ 8 * size["hdr_log"] = 128
        /\ off["root_err_cmd"] = 44 /\ 8 * size["root_err_cmd"] = 32
        /\ off["root_err_status"] = 48 /\ 8 * size["root_err_status"] = 32
        /\ off["err_src_id"] = 52 /\ 8 * size["err_src_id"] = 32
        /\ off["tlp_pref_log"] = 56 /\ 8 * size["tlp_pref_log"] = 128
    OBVIOUS
  <2> HIDE DEF off, size
  <2>2. QED
    BY <1>1, <1>2, <2>1
<1>4. \A r, q \in regs : r # q => off[r] + size[r] <= off[q] \/ off[q] + size[q] <= off[r]
  OBVIOUS
<1>5. off \in [regs -> Nat] /\ size \in [regs -> Nat \ {0}]
  OBVIOUS
<1>6. \A r \in regs : r \notin {"bist", "bridge_ctl", "lane_eq_ctl"}
  OBVIOUS
<1> HIDE DEF off, size
<1>7. Sound(t, regs)
  BY <1>3, <1>4, <1>5, <1>6, TableSound
<1>8. QED
  BY <1>7 DEF t


LEMMA RegLaneEqCtlEnds ==
  /\ RegLaneEqCtl \in Seq(Nat) /\ Len(RegLaneEqCtl) = 6 /\ Bits(RegLaneEqCtl) = 16
  /\ Ends(RegLaneEqCtl)[0] = 0 /\ Ends(RegLaneEqCtl)[1] = 4 /\ Ends(RegLaneEqCtl)[2] = 7
  /\ Ends(RegLaneEqCtl)[3] = 8 /\ Ends(RegLaneEqCtl)[4] = 12 /\ Ends(RegLaneEqCtl)[5] = 15
  /\ Ends(RegLaneEqCtl)[6] = 16
<1>1. RegLaneEqCtl \in Seq(Nat) /\ Len(RegLaneEqCtl) = 6
  BY DEF RegLaneEqCtl
<1> DEFINE e == Ends(RegLaneEqCtl)
<1>2. e[0] = 0 /\ \A n \in 1..6 : e[n] = e[n - 1] + RegLaneEqCtl[n]
  BY <1>1, EndsDefined
<1> HIDE DEF e
<1>3. e[0] = 0 /\ e[1] = 4 /\ e[2] = 7 /\ e[3] = 8 /\ e[4] = 12 /\ e[5] = 15 /\ e[6] = 16
  BY <1>2 DEF RegLaneEqCtl
<1>4. QED
  BY <1>1, <1>3 DEF e, Bits

\* The control of a lane is titled behind the other registers and read from before
\* there; the label of the last preset is that of the first.
LEMMA LaneRight ==
  ASSUME NEW lane \in Nat
  PROVE  Right(LaneText(lane), "lane_eq_ctl")
<1> DEFINE text == LaneText(lane)
           w == RegLaneEqCtl
           P == {Field(0, 3, 1), Field(4, 6, 2), Rsvd(7, 7), Field(8, 11, 4), Field(4, 6, 5),
                 Rsvd(15, 15)}
           R == UNION P
           c == Content(w, P)
           e == Ends(w)
<1>1. /\ text.title = 12 + 2 * lane /\ text.at = 16 * lane /\ text.len = 16
      /\ text.contents = {c}
  BY DEF LaneText
<1>2. /\ Len(w) = 6 /\ w \in Seq(Nat) /\ e[0] = 0 /\ e[1] = 4 /\ e[2] = 7 /\ e[3] = 8
      /\ e[4] = 12 /\ e[5] = 15
  BY RegLaneEqCtlEnds
<1>3. R = {<<0, 3, 1>>, <<4, 6, 2>>, <<7, 7, None>>, <<8, 11, 4>>, <<4, 6, 5>>, <<15, 15, None>>}
  BY DEF Field, Rsvd
<1>4. c.layout = w /\ c.rows = R
  BY DEF Content
<1> HIDE DEF text, w, c, e, R
<1>5. /\ First(w, 1) = 0 /\ Behind(w, 1) = 4 /\ First(w, 2) = 4 /\ Behind(w, 2) = 7
      /\ First(w, 4) = 8 /\ Behind(w, 4) = 12 /\ First(w, 5) = 12 /\ Behind(w, 5) = 15
  BY <1>2 DEF First, Behind, All, e
<1>6. \A r \in R : InReg(r, 16) /\ (r[3] # None => HasField(w, r, 16))
  BY <1>2, <1>3, <1>5 DEF InReg, HasField, None
<1>7. \A content \in text.contents : Reads(content, 16)
  BY <1>1, <1>2, <1>4, <1>6 DEF Reads
<1>8. /\ 12 + 2 * lane \in Nat /\ 16 * lane \in Nat /\ 16 * lane + 16 <= 8 * (12 + 2 * lane)
      /\ "lane_eq_ctl" \in MislabelledRegs
  BY DEF MislabelledRegs
<1>9. Truthful(text, "lane_eq_ctl")
  BY <1>1, <1>7, <1>8, TextElsewhere
<1>10. \A b \in Int : (\E r \in R : b \in r[1]..r[2]) <=> b \in 0..11 \/ b = 15
  <2>1. ASSUME NEW b \in Int, NEW r \in R, b \in r[1]..r[2] PROVE b \in 0..11 \/ b = 15
    BY <1>3, <2>1
  <2>2. /\ Labelled(R, 0) /\ Labelled(R, 1) /\ Labelled(R, 2) /\ Labelled(R, 3)
        /\ Labelled(R, 15) /\ Labelled(R, 7)
    <3>1. Covers(R, 0, 3) /\ Covers(R, 7, 7) /\ Covers(R, 15, 15)
      <4>1. Field(0, 3, 1) \in P /\ Rsvd(7, 7) \in P /\ Rsvd(15, 15) \in P
        OBVIOUS
      <4> HIDE DEF P
      <4>2. QED
        BY <4>1, PartsCover DEF R
    <3>2. QED
      BY <3>1 DEF Covers
  <2>3. Covers(R, 4, 6) /\ Covers(R, 8, 11)
    <3>1. Field(4, 6, 2) \in P /\ Field(8, 11, 4) \in P
      OBVIOUS
    <3> HIDE DEF P
    <3>2. QED
      BY <3>1, PartsCover DEF R
  <2>4. \A b \in 0..11 : Labelled(R, b)
    BY <2>2, <2>3 DEF Covers
  <2>5. QED
    BY <2>1, <2>2, <2>4 DEF Labelled
<1>11. Missing(text, R) = 12..14
  BY <1>1, <1>10 DEF Missing
<1>12. Twice(text, R) = 4..6
  <2>1. ASSUME NEW b \in Int, NEW r \in R, NEW q \in R, r # q, b \in r[1]..r[2], b \in q[1]..q[2]
        PROVE  b \in 4..6
    BY <1>3, <2>1
  <2>2. /\ <<4, 6, 2>> \in R /\ <<4, 6, 5>> \in R /\ <<4, 6, 2>> # <<4, 6, 5>>
        /\ \A b \in 4..6 :
              /\ b \in <<4, 6, 2>>[1]..<<4, 6, 2>>[2]
              /\ b \in <<4, 6, 5>>[1]..<<4, 6, 5>>[2]
    BY <1>3
  <2>3. QED
    BY <1>1, <2>1, <2>2 DEF Twice
<1>13. \A r \in R : r[2] < 16
  BY <1>6 DEF InReg
<1>14. Complete(text, "lane_eq_ctl")
  BY <1>1, <1>4, <1>11, <1>12, <1>13 DEF Complete
<1>15. QED
  BY <1>9, <1>14 DEF Right, text

\* The registers of a link's lanes and the others of their capability.
LEMMA SecondaryLookup ==
  ASSUME NEW nr
  PROVE  /\ \A r \in {"link_ctl3", "lane_err_stat"} :
                ExtendedTexts(25, nr)[r] = SecondaryPCIETexts[r]
         /\ ExtendedTexts(25, nr)["lane_eq_ctl"] = LaneText(nr - 1)
<1> DEFINE A == [lane_eq_ctl |-> LaneText(nr - 1)]
           B == SecondaryPCIETexts
<1>1. DOMAIN B = {"link_ctl3", "lane_err_stat"}
  BY DEF SecondaryPCIETexts
<1>2. DOMAIN A = {"lane_eq_ctl"} /\ A["lane_eq_ctl"] = LaneText(nr - 1)
  OBVIOUS
<1>3. ExtendedTexts(25, nr) = Merged({A, B})
  BY DEF ExtendedTexts
<1> HIDE DEF A, B
<1>4. \A r \in DOMAIN B : r \notin DOMAIN A
  BY <1>1, <1>2
<1>5. \A r \in DOMAIN B : Merged({A, B})[r] = B[r]
  BY <1>4, MergedAt
<1>6. \A r \in DOMAIN A : Merged({A, B})[r] = A[r]
  BY <1>4, MergedAt
<1>7. QED
  BY <1>1, <1>2, <1>3, <1>5, <1>6 DEF B

LEMMA LaneTitles ==
  ASSUME NEW lane \in Nat
  PROVE  /\ LaneText(lane).title = 12 + 2 * lane /\ LaneText(lane).len = 8 * 2
         /\ LaneText(lane).button = 12
BY DEF LaneText

-----------------------------------------------------------------------------
(***************************************************************************)
(* All of the descriptions.                                                *)
(***************************************************************************)

\* TextOf for any device.
TextFor(d, of, reg, nr) ==
  IF of = 0 THEN HeaderText(d.type, reg)
  ELSE IF d.caps[of][1] = "compat" THEN CompatTexts(d, d.caps[of][2])[reg]
  ELSE ExtendedTexts(d.caps[of][2], nr)[reg]

LEMMA TextOfFor ==
  ASSUME NEW info
  PROVE  TextOf(info) = TextFor(dev, info.of[1], info.of[2], info.nr)
BY DEF TextOf, TextFor

LEMMA CompatSound ==
  ASSUME NEW d \in Descs, NEW id
  PROVE  CompatRegs(d, id) # {} => Sound(CompatTexts(d, id), CompatRegs(d, id))
<1>1. HasAddr64(d) \in BOOLEAN /\ HasMasks(d) \in BOOLEAN /\ d.vendor_len \in 1..255
  BY DescsAssumption DEF HasAddr64, HasMasks
<1>2. CASE id = 1
  BY <1>2, PMTextsSound DEF CompatRegs, CompatTexts
<1>3. CASE id = 5
  <2>1. /\ CompatRegs(d, id) = MSIRegs(HasAddr64(d), HasMasks(d))
        /\ CompatTexts(d, id) = MSITexts(HasAddr64(d))
    BY <1>3 DEF CompatRegs, CompatTexts, HasAddr64
  <2>2. QED
    BY <1>1, <2>1, MSITextsSound
<1>4. CASE id = 9
  BY <1>1, <1>4, VendorSpecSound DEF CompatRegs, CompatTexts
<1>5. CASE id = 16
  BY <1>5, PCIeTextsSound DEF CompatRegs, CompatTexts, ExpressRegs
<1>6. CASE id = 17
  BY <1>6, MSIxTextsSound DEF CompatRegs, CompatTexts
<1>7. CASE id \notin {1, 5, 9, 16, 17}
  BY <1>7 DEF CompatRegs
<1>8. QED
  BY <1>2, <1>3, <1>4, <1>5, <1>6, <1>7

LEMMA ExtendedSound ==
  ASSUME NEW id, id # 25, NEW nr
  PROVE  ExtendedRegs(id) # {} => Sound(ExtendedTexts(id, nr), ExtendedRegs(id))
<1>1. CASE id = 1
  BY <1>1, AERTextsSound DEF ExtendedRegs, ExtendedTexts, AERRegs
<1>2. CASE id = 14
  BY <1>2, ARITextsSound DEF ExtendedRegs, ExtendedTexts
<1>3. CASE id = 27
  BY <1>3, PASIDTextsSound DEF ExtendedRegs, ExtendedTexts
<1>4. CASE id = 37
  BY <1>4, DataLinkFeatureTextsSound DEF ExtendedRegs, ExtendedTexts
<1>5. CASE id \notin {1, 14, 27, 37}
  BY <1>5 DEF ExtendedRegs
<1>6. QED
  BY <1>1, <1>2, <1>3, <1>4, <1>5

\* The texts of one table do not depend on which description they are of.
LEMMA ExtendedAlike ==
  ASSUME NEW id, id # 25, NEW nr, NEW m
  PROVE  ExtendedTexts(id, nr) = ExtendedTexts(id, m)
BY DEF ExtendedTexts

\* No capability has registers of the names that the header's odd ones have, and only the
\* one with lanes has a register with several descriptions.
LEMMA CapabilityNames ==
  /\ \A d, id : {"bist", "header_type", "lane_eq_ctl"} \cap CompatRegs(d, id) = {}
  /\ \A id : {"bist", "header_type"} \cap ExtendedRegs(id) = {}
  /\ \A id : "lane_eq_ctl" \in ExtendedRegs(id) => id = 25
  /\ \A type : "lane_eq_ctl" \notin HeaderRegsOf(type)
<1>1. \A d, id : {"bist", "header_type", "lane_eq_ctl"} \cap CompatRegs(d, id) = {}
  <2>1. SUFFICES ASSUME NEW d, NEW id
                 PROVE  {"bist", "header_type", "lane_eq_ctl"} \cap CompatRegs(d, id) = {}
    OBVIOUS
  <2>2. {"bist", "header_type", "lane_eq_ctl"} \cap MSIRegs(HasAddr64(d), HasMasks(d)) = {}
    BY DEF MSIRegs
  <2>3. QED
    BY <2>2 DEF CompatRegs, ExpressRegs
<1>2. /\ \A id : {"bist", "header_type"} \cap ExtendedRegs(id) = {}
      /\ \A id : "lane_eq_ctl" \in ExtendedRegs(id) => id = 25
  BY DEF ExtendedRegs, AERRegs
<1>3. \A type : "lane_eq_ctl" \notin HeaderRegsOf(type)
  BY DEF HeaderRegsOf, Type0Cfg, Type1Cfg
<1>4. QED
  BY <1>1, <1>2, <1>3

\* One description, and any other one of the same capability, of another register or
\* another lane.
Other(reg, nr, q, m) == reg # q \/ (reg = "lane_eq_ctl" /\ nr # m)

LEMMA SecondaryApart ==
  ASSUME NEW nr \in Nat \ {0}, NEW m \in Nat \ {0},
         NEW reg \in ExtendedRegs(25), NEW q \in ExtendedRegs(25), Other(reg, nr, q, m)
  PROVE  TitledBy(ExtendedTexts(25, nr)[reg]) \cap TitledBy(ExtendedTexts(25, m)[q]) = {}
<1> DEFINE two == {"link_ctl3", "lane_err_stat"}
           T == SecondaryPCIETexts
           L(k) == LaneText(k - 1)
<1>1. reg \in two \cup {"lane_eq_ctl"} /\ q \in two \cup {"lane_eq_ctl"}
  BY DEF ExtendedRegs
<1>2. \A k, r : r \in two => ExtendedTexts(25, k)[r] = T[r]
  BY SecondaryLookup
<1>3. \A k : ExtendedTexts(25, k)["lane_eq_ctl"] = L(k)
  BY SecondaryLookup
<1>4. \A r, s \in two : r # s => TitledBy(T[r]) \cap TitledBy(T[s]) = {}
  BY SecondaryPCIETextsSound DEF Sound
<1>5. /\ T["link_ctl3"].title = 4 /\ T["link_ctl3"].len = 8 * 4
      /\ T["lane_err_stat"].title = 8 /\ T["lane_err_stat"].len = 8 * 4
  BY LinkCtl3Tells, LaneErrStatTells DEF TextTells, Placed
<1>6. ASSUME NEW k \in Nat \ {0}
      PROVE  L(k).title = 10 + 2 * k /\ L(k).len = 8 * 2
  <2>1. k - 1 \in Nat /\ 12 + 2 * (k - 1) = 10 + 2 * k
    OBVIOUS
  <2>2. QED
    BY <2>1, LaneTitles
<1> HIDE DEF T, L
<1>7. ASSUME NEW r \in two, NEW k \in Nat \ {0}
      PROVE  TitledBy(T[r]) \cap TitledBy(L(k)) = {}
  <2>1. PICK a \in {4, 8} : T[r].title = a /\ T[r].len = 8 * 4
    BY <1>5
  <2>2. a \in Nat /\ 10 + 2 * k \in Nat /\ 4 \in Nat /\ 2 \in Nat /\ 0 < 4 /\ 0 < 2
        /\ a + 4 <= 10 + 2 * k
    OBVIOUS
  <2>3. QED
    BY <1>6, <2>1, <2>2, SpansApart
<1>8. ASSUME NEW k \in Nat \ {0}, NEW l \in Nat \ {0}, k # l
      PROVE  TitledBy(L(k)) \cap TitledBy(L(l)) = {}
  <2>1. /\ 10 + 2 * k \in Nat /\ 10 + 2 * l \in Nat /\ 2 \in Nat /\ 0 < 2
        /\ (10 + 2 * k) + 2 <= 10 + 2 * l \/ (10 + 2 * l) + 2 <= 10 + 2 * k
    BY <1>8
  <2>2. QED
    BY <1>6, <2>1, SpansApart
<1>9. CASE reg \in two /\ q \in two
  BY <1>2, <1>4, <1>9 DEF Other
<1>10. CASE reg \in two /\ q = "lane_eq_ctl"
  BY <1>2, <1>3, <1>7, <1>10
<1>11. CASE reg = "lane_eq_ctl" /\ q \in two
  BY <1>2, <1>3, <1>7, <1>11
<1>12. CASE reg = "lane_eq_ctl" /\ q = "lane_eq_ctl"
  BY <1>3, <1>8, <1>12 DEF Other
<1>13. QED
  BY <1>1, <1>9, <1>10, <1>11, <1>12

\* Each description is as it should be.
LEMMA TextsRight ==
  ASSUME NEW d \in Descs, NEW of \in 0..Len(d.caps), NEW reg \in RegsOf(d, of),
         NEW nr \in Nat \ {0}
  PROVE  /\ Right(TextFor(d, of, reg, nr), reg)
         /\ nr = 1 \/ reg # "lane_eq_ctl" =>
              (TextFor(d, of, reg, nr).button = TextFor(d, of, reg, nr).title <=> reg # "bist")
<1> DEFINE text == TextFor(d, of, reg, nr)
<1>1. CASE of = 0
  <2>1. text = HeaderText(d.type, reg) /\ reg \in HeaderRegsOf(d.type)
    BY <1>1 DEF TextFor, RegsOf
  <2>2. d.type \in {"TYPE0", "TYPE1"}
    BY DescsAssumption
  <2>3. QED
    BY <2>1, <2>2, HeaderRight, HeaderTitles
<1>2. CASE of # 0 /\ d.caps[of][1] = "compat"
  <2> DEFINE id == d.caps[of][2]
  <2>1. text = CompatTexts(d, id)[reg] /\ reg \in CompatRegs(d, id)
    BY <1>2 DEF TextFor, RegsOf
  <2>2. Sound(CompatTexts(d, id), CompatRegs(d, id))
    BY <2>1, CompatSound
  <2>3. Right(text, reg) /\ text.button = text.title
    BY <2>1, <2>2 DEF Sound
  <2>4. QED
    BY <2>1, <2>3, CapabilityNames
<1>3. CASE of # 0 /\ d.caps[of][1] # "compat" /\ d.caps[of][2] # 25
  <2> DEFINE id == d.caps[of][2]
  <2>1. text = ExtendedTexts(id, nr)[reg] /\ reg \in ExtendedRegs(id)
    BY <1>3 DEF TextFor, RegsOf
  <2>2. Sound(ExtendedTexts(id, nr), ExtendedRegs(id))
    BY <1>3, <2>1, ExtendedSound
  <2>3. Right(text, reg) /\ text.button = text.title
    BY <2>1, <2>2 DEF Sound
  <2>4. QED
    BY <2>1, <2>3, CapabilityNames
<1>4. CASE of # 0 /\ d.caps[of][1] # "compat" /\ d.caps[of][2] = 25
  <2>1. text = ExtendedTexts(25, nr)[reg] /\ reg \in ExtendedRegs(25)
    BY <1>4 DEF TextFor, RegsOf
  <2>2. reg # "bist"
    BY <2>1, CapabilityNames
  <2>3. CASE reg = "lane_eq_ctl"
    <3>1. text = LaneText(nr - 1) /\ nr - 1 \in Nat
      BY <2>1, <2>3, SecondaryLookup
    <3>2. Right(text, reg)
      BY <2>3, <3>1, LaneRight
    <3>3. /\ LaneText(nr - 1).button = 12
          /\ LaneText(nr - 1).title = 12 + 2 * (nr - 1)
      BY <3>1, LaneTitles
    <3>4. nr = 1 => 12 + 2 * (nr - 1) = 12
      OBVIOUS
    <3>5. nr = 1 => text.button = text.title
      <4> HIDE DEF text
      <4> QED
        BY <3>1, <3>3, <3>4
    <3>6. QED
      BY <2>2, <2>3, <3>2, <3>5
  <2>4. CASE reg # "lane_eq_ctl"
    <3>1. reg \in {"link_ctl3", "lane_err_stat"}
      BY <2>1, <2>4 DEF ExtendedRegs
    <3>2. text = SecondaryPCIETexts[reg]
      BY <2>1, <3>1, SecondaryLookup
    <3>3. Right(text, reg) /\ text.button = text.title
      BY <3>1, <3>2, SecondaryPCIETextsSound DEF Sound
    <3>4. QED
      BY <2>2, <3>3
  <2>5. QED
    BY <2>3, <2>4
<1>5. QED
  BY <1>1, <1>2, <1>3, <1>4

TitledApart(text, other, reg, q) ==
  TitledBy(text) \cap TitledBy(other) = {} <=> {reg, q} # {"bist", "header_type"}

\* No two of them are titled with the same bytes, but for that of BIST.
LEMMA TextsApart ==
  ASSUME NEW d \in Descs, NEW of \in 0..Len(d.caps), NEW reg \in RegsOf(d, of),
         NEW q \in RegsOf(d, of), NEW nr \in Nat \ {0}, NEW m \in Nat \ {0},
         Other(reg, nr, q, m)
  PROVE  TitledApart(TextFor(d, of, reg, nr), TextFor(d, of, q, m), reg, q)
<1> USE DEF TitledApart
<1>1. CASE of = 0
  <2>1. /\ TextFor(d, of, reg, nr) = HeaderText(d.type, reg) /\ reg \in HeaderRegsOf(d.type)
        /\ TextFor(d, of, q, m) = HeaderText(d.type, q) /\ q \in HeaderRegsOf(d.type)
    BY <1>1 DEF TextFor, RegsOf
  <2>2. d.type \in {"TYPE0", "TYPE1"}
    BY DescsAssumption
  <2>3. reg # q
    BY <2>1, CapabilityNames DEF Other
  <2>4. QED
    BY <2>1, <2>2, <2>3, HeaderTitles
<1>2. CASE of # 0 /\ d.caps[of][1] = "compat"
  <2> DEFINE id == d.caps[of][2]
  <2>1. /\ TextFor(d, of, reg, nr) = CompatTexts(d, id)[reg] /\ reg \in CompatRegs(d, id)
        /\ TextFor(d, of, q, m) = CompatTexts(d, id)[q] /\ q \in CompatRegs(d, id)
    BY <1>2 DEF TextFor, RegsOf
  <2>2. Sound(CompatTexts(d, id), CompatRegs(d, id))
    BY <2>1, CompatSound
  <2>3. reg # q /\ reg # "bist" /\ q # "bist"
    BY <2>1, CapabilityNames DEF Other
  <2>4. QED
    BY <2>1, <2>2, <2>3 DEF Sound
<1>3. CASE of # 0 /\ d.caps[of][1] # "compat" /\ d.caps[of][2] # 25
  <2> DEFINE id == d.caps[of][2]
  <2>1. /\ TextFor(d, of, reg, nr) = ExtendedTexts(id, nr)[reg] /\ reg \in ExtendedRegs(id)
        /\ TextFor(d, of, q, m) = ExtendedTexts(id, m)[q] /\ q \in ExtendedRegs(id)
    BY <1>3 DEF TextFor, RegsOf
  <2>2. /\ Sound(ExtendedTexts(id, nr), ExtendedRegs(id))
        /\ ExtendedTexts(id, m) = ExtendedTexts(id, nr)
    BY <1>3, <2>1, ExtendedSound, ExtendedAlike
  <2>3. reg # q /\ reg # "bist" /\ q # "bist"
    BY <1>3, <2>1, CapabilityNames DEF Other
  <2>4. QED
    BY <2>1, <2>2, <2>3 DEF Sound
<1>4. CASE of # 0 /\ d.caps[of][1] # "compat" /\ d.caps[of][2] = 25
  <2>1. /\ TextFor(d, of, reg, nr) = ExtendedTexts(25, nr)[reg] /\ reg \in ExtendedRegs(25)
        /\ TextFor(d, of, q, m) = ExtendedTexts(25, m)[q] /\ q \in ExtendedRegs(25)
    BY <1>4 DEF TextFor, RegsOf
  <2>2. reg # "bist" /\ q # "bist"
    BY <2>1, CapabilityNames
  <2>3. QED
    BY <2>1, <2>2, SecondaryApart
<1>5. QED
  BY <1>1, <1>2, <1>3, <1>4

\* The offsets of an MSI capability's registers.
LEMMA MSITitles ==
  ASSUME NEW d \in Descs, NEW of \in 1..Len(d.caps), d.caps[of] = Compat(5),
         NEW reg \in RegsOf(d, of), NEW nr
  PROVE  TextFor(d, of, reg, nr).title = OffsetOf(MSIStruct(d), MSIMember(reg))
<1>1. d.caps[of][1] = "compat" /\ d.caps[of][2] = 5 /\ of # 0
  BY DEF Compat
<1>2. /\ TextFor(d, of, reg, nr) = MSITexts(HasAddr64(d))[reg]
      /\ reg \in MSIRegs(HasAddr64(d), HasMasks(d))
  BY <1>1 DEF TextFor, RegsOf, CompatTexts, CompatRegs, HasAddr64
<1>3. HasAddr64(d) \in BOOLEAN /\ HasMasks(d) \in BOOLEAN
  BY DEF HasAddr64, HasMasks
<1>4. MSIStruct(d) = MSICap(HasAddr64(d), HasMasks(d))
  BY DEF MSIStruct, HasAddr64, HasMasks
<1>5. QED
  BY <1>2, <1>3, <1>4, MSITextsSound
=============================================================================
