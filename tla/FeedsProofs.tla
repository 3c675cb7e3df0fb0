---------------------------- MODULE FeedsProofs ----------------------------
(***************************************************************************)
(* Theorems about Feeds, for any tables, page size, filters and bounds,    *)
(* and, at the end, about the document's page of DetailPage, for any       *)
(* chores, tags and bounds.                                                *)
(***************************************************************************)
EXTENDS Feeds, DetailPage, SequenceTheorems, WellFoundedInduction, TLAPS

-----------------------------------------------------------------------------
(* Counting up, and what a WHERE leaves.                                    *)

\* A set of numbers with 0, and with the next of each of its own, has them all.
LEMMA EveryNumber ==
  ASSUME NEW T \in SUBSET Nat, 0 \in T, \A n \in T : n + 1 \in T
  PROVE  T = Nat
<1> DEFINE R == {ss \in Nat \X Nat : ss[1] < ss[2]}
<1>1. SUFFICES ASSUME Nat \ T # {} PROVE FALSE
  <2>1. T \subseteq Nat
    OBVIOUS
  <2> QED
    BY <2>1, Zenon
<1>2. IsWellFoundedOn(R, Nat)
  BY NatLessThanWellFounded, Zenon DEF OpToRel
<1> HIDE DEF R
<1>3. PICK m \in Nat \ T : \A k \in Nat \ T : ~(<<k, m>> \in R)
  <2>1. /\ Nat \ T \subseteq Nat
        /\ Nat \ T # {}
    BY <1>1
  <2> QED
    BY <1>2, <2>1, WFMin, Zenon
<1>4. m - 1 \in Nat /\ m - 1 < m
  <2>1. m # 0
    OBVIOUS
  <2> QED
    BY <2>1, m \in Nat
<1>5. <<m - 1, m>> \in R
  BY <1>4 DEF R
<1>6. m - 1 \in T
  BY <1>3, <1>4, <1>5
<1>7. m - 1 + 1 = m
  OBVIOUS
<1> QED
  BY <1>6, <1>7

\* f[i] is what is kept of the first i rows.
KeepsUpTo(f, rows, wanted) ==
  /\ f[0] = <<>>
  /\ \A i \in 1..Len(rows) :
       f[i] = IF rows[i] \in wanted THEN Append(f[i - 1], rows[i]) ELSE f[i - 1]

\* Those steps through the rows and keeps the ones that are wanted.
LEMMA ThoseSteps ==
  ASSUME NEW S, NEW rows \in Seq(S), NEW wanted
  PROVE  \E f \in [0..Len(rows) -> Seq(S)] :
           KeepsUpTo(f, rows, wanted) /\ Those(rows, wanted) = f[Len(rows)]
<1> DEFINE Step(f, i) == IF i = 0 THEN <<>>
                         ELSE IF rows[i] \in wanted THEN Append(f[i - 1], rows[i]) ELSE f[i - 1]
           T == {n \in Nat : n <= Len(rows) =>
                   \E f \in [0..n -> Seq(S)] : \A i \in 0..n : f[i] = Step(f, i)}
<1>0. Len(rows) \in Nat
  OBVIOUS
<1>1. 0 \in T
  <2> DEFINE f == [i \in 0..0 |-> <<>>]
  <2>1. f \in [0..0 -> Seq(S)] /\ \A i \in 0..0 : f[i] = Step(f, i)
    OBVIOUS
  <2> QED
    BY <2>1
<1>2. ASSUME NEW n \in T PROVE n + 1 \in T
  <2>1. SUFFICES ASSUME n + 1 <= Len(rows)
                 PROVE  \E f \in [0..(n + 1) -> Seq(S)] : \A i \in 0..(n + 1) : f[i] = Step(f, i)
    <3>1. n \in Nat /\ n + 1 \in Nat
      OBVIOUS
    <3> QED
      BY <3>1, Zenon
  <2>2. PICK f \in [0..n -> Seq(S)] : \A i \in 0..n : f[i] = Step(f, i)
    BY <2>1, <1>0
  <2> DEFINE last == IF rows[n + 1] \in wanted THEN Append(f[n], rows[n + 1]) ELSE f[n]
             g == [i \in 0..(n + 1) |-> IF i \in 0..n THEN f[i] ELSE last]
  <2>3. last \in Seq(S)
    <3>1. rows[n + 1] \in S /\ f[n] \in Seq(S)
      BY <2>1, <2>2, <1>0
    <3> QED
      BY <3>1
  <2>4. g \in [0..(n + 1) -> Seq(S)]
    BY <2>2, <2>3
  <2>5. ASSUME NEW i \in 0..(n + 1) PROVE g[i] = Step(g, i)
    <3>1. CASE i = 0
      BY <3>1, <2>2
    <3>2. CASE i \in 1..n
      <4>1. i - 1 \in 0..n /\ i \in 0..n /\ i # 0
        BY <3>2
      <4>2. g[i] = f[i] /\ g[i - 1] = f[i - 1]
        BY <4>1
      <4> QED
        BY <4>1, <4>2, <2>2
    <3>3. CASE i = n + 1
      <4>1. i - 1 = n /\ n \in 0..n /\ i \notin 0..n /\ i # 0 /\ n \in 0..(n + 1)
        BY <3>3
      <4>2. g[i] = last /\ g[i - 1] = f[n]
        BY <4>1
      <4> QED
        BY <4>1, <4>2, <3>3
    <3> QED
      BY <3>1, <3>2, <3>3
  <2> HIDE DEF g
  <2> QED
    BY <2>4, <2>5
<1>3. T = Nat
  <2> HIDE DEF T
  <2>1. T \in SUBSET Nat
    BY DEF T
  <2> QED
    BY <1>1, <1>2, <2>1, EveryNumber
<1>4. PICK f \in [0..Len(rows) -> Seq(S)] : \A i \in 0..Len(rows) : f[i] = Step(f, i)
  BY <1>0, <1>3
<1> DEFINE Steps(g) == g = [i \in 0..Len(rows) |-> Step(g, i)]
<1>5. Steps(f)
  BY <1>4
<1> DEFINE upTo == CHOOSE g : Steps(g)
<1>6. Steps(upTo)
  <2> HIDE DEF Steps
  <2> QED
    BY <1>5, Zenon
<1>7. Those(rows, wanted) = upTo[Len(rows)]
  BY DEF Those
<1>8. ASSUME NEW i \in 0..Len(rows) PROVE upTo[i] = Step(upTo, i)
  <2> HIDE DEF upTo
  <2> QED
    BY <1>6
<1> HIDE DEF upTo
<1> DEFINE U == {n \in Nat : n <= Len(rows) => upTo[n] = f[n]}
<1>9. 0 \in U
  BY <1>8, <1>4, <1>0
<1>10. ASSUME NEW n \in U PROVE n + 1 \in U
  <2>1. SUFFICES ASSUME n + 1 <= Len(rows) PROVE upTo[n + 1] = f[n + 1]
    BY n \in Nat
  <2>2. n + 1 \in 0..Len(rows) /\ n + 1 # 0 /\ n + 1 - 1 = n /\ n <= Len(rows)
    BY <2>1, <1>0
  <2>3. upTo[n] = f[n]
    BY <2>2
  <2>4. upTo[n + 1] = Step(upTo, n + 1) /\ f[n + 1] = Step(f, n + 1)
    BY <2>2, <1>8, <1>4, Zenon
  <2> QED
    BY <2>2, <2>3, <2>4
<1>11. U = Nat
  <2> HIDE DEF U
  <2>1. U \in SUBSET Nat
    BY DEF U
  <2> QED
    BY <1>9, <1>10, <2>1, EveryNumber
<1>12. upTo[Len(rows)] = f[Len(rows)]
  BY <1>11, <1>0
<1>13. \A i \in 1..Len(rows) : i \in 0..Len(rows) /\ i # 0
  BY <1>0
<1>14. 0 \in 0..Len(rows)
  BY <1>0
<1> QED
  BY <1>4, <1>7, <1>12, <1>13, <1>14 DEF KeepsUpTo

Descending(s) == \A i, j \in 1..Len(s) : i < j => s[i] > s[j]

Values(s) == {s[i] : i \in 1..Len(s)}

LEMMA ThoseAreRows ==
  ASSUME NEW S, NEW rows \in Seq(S), NEW wanted
  PROVE  Those(rows, wanted) \in Seq(S)
<1>1. PICK f \in [0..Len(rows) -> Seq(S)] : Those(rows, wanted) = f[Len(rows)]
  BY ThoseSteps
<1>2. Len(rows) \in Nat
  OBVIOUS
<1> QED
  BY <1>1, <1>2

\* What is put behind larger numbers.
LEMMA SmallestLast ==
  ASSUME NEW s \in Seq(Nat), NEW e \in Nat, Descending(s), \A v \in Values(s) : v > e
  PROVE  Descending(Append(s, e)) /\ Values(Append(s, e)) = Values(s) \cup {e}
<1> DEFINE t == Append(s, e)
<1>1. /\ Len(s) \in Nat
      /\ t \in Seq(Nat)
      /\ Len(t) = Len(s) + 1
      /\ t[Len(s) + 1] = e
      /\ \A i \in 1..Len(s) : t[i] = s[i]
  OBVIOUS
<1> HIDE DEF t
<1>2. Descending(t)
  <2>1. SUFFICES ASSUME NEW i \in 1..Len(t), NEW j \in 1..Len(t), i < j PROVE t[i] > t[j]
    BY DEF Descending
  <2>2. i \in 1..Len(s) /\ t[i] = s[i]
    BY <1>1, <2>1
  <2>3. CASE j \in 1..Len(s)
    BY <1>1, <2>1, <2>2, <2>3 DEF Descending
  <2>4. CASE j = Len(s) + 1
    BY <1>1, <2>2, <2>4 DEF Values
  <2> QED
    BY <1>1, <2>3, <2>4
<1>3. Values(t) = Values(s) \cup {e}
  <2>1. ASSUME NEW v \in Values(t) PROVE v \in Values(s) \cup {e}
    <3>1. PICK i \in 1..Len(t) : v = t[i]
      BY DEF Values
    <3>2. i \in 1..Len(s) \/ i = Len(s) + 1
      BY <1>1
    <3> QED
      BY <1>1, <3>1, <3>2 DEF Values
  <2>2. ASSUME NEW v \in Values(s) PROVE v \in Values(t)
    <3>1. PICK i \in 1..Len(s) : v = s[i]
      BY DEF Values
    <3>2. i \in 1..Len(t) /\ t[i] = v
      BY <1>1, <3>1
    <3> QED
      BY <3>2 DEF Values
  <2>3. e \in Values(t)
    <3>1. Len(s) + 1 \in 1..Len(t)
      BY <1>1
    <3> QED
      BY <1>1, <3>1 DEF Values
  <2> QED
    BY <2>1, <2>2, <2>3
<1> QED
  BY <1>2, <1>3 DEF t

\* Those keeps the order, and exactly the rows that are wanted.
LEMMA ThoseDescend ==
  ASSUME NEW rows \in Seq(Nat), NEW wanted, Descending(rows)
  PROVE  /\ Descending(Those(rows, wanted))
         /\ Values(Those(rows, wanted)) = {r \in Values(rows) : r \in wanted}
<1>1. PICK f \in [0..Len(rows) -> Seq(Nat)] :
        KeepsUpTo(f, rows, wanted) /\ Those(rows, wanted) = f[Len(rows)]
  BY ThoseSteps
<1>2. Len(rows) \in Nat
  OBVIOUS
<1>8. ASSUME NEW i \in 1..Len(rows), rows[i] \in wanted
      PROVE  f[i] = Append(f[i - 1], rows[i])
  BY <1>1, <1>8 DEF KeepsUpTo
<1> DEFINE Kept(n) == {rows[k] : k \in {j \in 1..n : rows[j] \in wanted}}
           T == {n \in Nat : n <= Len(rows) => Descending(f[n]) /\ Values(f[n]) = Kept(n)}
<1>3. 0 \in T
  <2>1. Descending(f[0]) /\ Values(f[0]) = {}
    BY <1>1 DEF Descending, Values, KeepsUpTo
  <2>2. Kept(0) = {}
    OBVIOUS
  <2> QED
    BY <2>1, <2>2
<1>4. ASSUME NEW n \in T PROVE n + 1 \in T
  <2>1. SUFFICES ASSUME n + 1 <= Len(rows)
                 PROVE  Descending(f[n + 1]) /\ Values(f[n + 1]) = Kept(n + 1)
    <3>1. n \in Nat /\ n + 1 \in Nat
      OBVIOUS
    <3> QED
      BY <3>1, Zenon
  <2>2. /\ n \in Nat /\ n \in 0..Len(rows) /\ n + 1 \in 1..Len(rows) /\ n + 1 - 1 = n
        /\ n <= Len(rows)
    BY <1>2, <2>1
  <2>3. /\ f[n] \in Seq(Nat)
        /\ Descending(f[n])
        /\ Values(f[n]) = Kept(n)
        /\ rows[n + 1] \in Nat
    BY <2>2
  <2>4. CASE rows[n + 1] \notin wanted
    <3>1. f[n + 1] = f[n]
      BY <1>1, <2>2, <2>4 DEF KeepsUpTo
    <3>2. {j \in 1..(n + 1) : rows[j] \in wanted} = {j \in 1..n : rows[j] \in wanted}
      BY <2>2, <2>4
    <3>3. Kept(n + 1) = Kept(n)
      BY <3>2
    <3> HIDE DEF Kept
    <3> QED
      BY <2>3, <3>1, <3>3
  <2>5. CASE rows[n + 1] \in wanted
    <3>1. f[n + 1] = Append(f[n], rows[n + 1])
      <4>1. PICK i \in 1..Len(rows) : i = n + 1 /\ i - 1 = n
        BY <2>2
      <4>2. f[i] = Append(f[i - 1], rows[i])
        BY <2>5, <4>1, <1>8
      <4> QED
        BY <4>1, <4>2, Zenon
    <3>2. {j \in 1..(n + 1) : rows[j] \in wanted} = {j \in 1..n : rows[j] \in wanted} \cup {n + 1}
      BY <2>2, <2>5
    <3>3. Kept(n + 1) = Kept(n) \cup {rows[n + 1]}
      BY <3>2
    <3>4. ASSUME NEW v \in Values(f[n]) PROVE v > rows[n + 1]
      <4>1. PICK k \in 1..n : v = rows[k]
        BY <2>3
      <4>2. k \in 1..Len(rows) /\ k < n + 1
        BY <1>2, <2>2, <4>1
      <4> QED
        BY <2>2, <4>1, <4>2 DEF Descending
    <3> HIDE DEF Kept
    <3> QED
      BY <2>3, <3>1, <3>3, <3>4, SmallestLast
  <2> QED
    BY <2>4, <2>5
<1>5. T = Nat
  <2> HIDE DEF T
  <2>1. T \in SUBSET Nat
    BY DEF T
  <2> QED
    BY <1>3, <1>4, <2>1, EveryNumber
<1>6. Descending(f[Len(rows)]) /\ Values(f[Len(rows)]) = Kept(Len(rows))
  <2> HIDE DEF Kept
  <2> QED
    BY <1>2, <1>5
<1>7. Kept(Len(rows)) = {r \in Values(rows) : r \in wanted}
  BY DEF Values
<1> QED
  BY <1>1, <1>6, <1>7

-----------------------------------------------------------------------------
(* A stretch of a descending list.                                          *)

\* In a descending list the larger is the earlier.
LEMMA LargerIsEarlier ==
  ASSUME NEW s \in Seq(Nat), Descending(s), NEW i \in 1..Len(s), NEW j \in 1..Len(s)
  PROVE  /\ s[i] > s[j] => i < j
         /\ s[i] = s[j] => i = j
<1>1. s[i] \in Nat /\ s[j] \in Nat /\ i \in Nat /\ j \in Nat
  OBVIOUS
<1>2. i < j => s[i] > s[j]
  BY DEF Descending
<1>3. j < i => s[j] > s[i]
  BY DEF Descending
<1> QED
  BY <1>1, <1>2, <1>3

\* t has the rows of s between two of them, and no others.
Between(t, s, lo, hi) == Values(t) = {r \in Values(s) : lo <= r /\ r <= hi}

LEMMA NextOfStretch ==
  ASSUME NEW s \in Seq(Nat), NEW t \in Seq(Nat), Descending(s), Descending(t),
         NEW lo \in Nat, NEW hi \in Nat, Between(t, s, lo, hi)
  PROVE  \A p, after \in 1..Len(t), q \in 1..Len(s), below \in Nat :
           after = p + 1 /\ below = q + 1 /\ t[p] = s[q]
             => below \in 1..Len(s) /\ t[after] = s[below]
<1> SUFFICES ASSUME NEW p \in 1..Len(t), NEW after \in 1..Len(t),
                    NEW q \in 1..Len(s), NEW below \in Nat,
                    after = p + 1, below = q + 1, t[p] = s[q]
             PROVE  below \in 1..Len(s) /\ t[after] = s[below]
  OBVIOUS
<1>0. /\ s \in [1..Len(s) -> Nat] /\ t \in [1..Len(t) -> Nat]
      /\ Len(s) \in Nat /\ Len(t) \in Nat /\ p < after /\ q < below
  <2>1. s \in [1..Len(s) -> Nat] /\ Len(s) \in Nat
    BY LenProperties
  <2>2. t \in [1..Len(t) -> Nat] /\ Len(t) \in Nat
    BY LenProperties
  <2> QED
    BY <2>1, <2>2, SMTT(20)
<1>1. t[p] > t[after] /\ t[p] \in Nat /\ t[after] \in Nat
  BY <1>0 DEF Descending
<1>2. /\ t[after] \in Values(s) /\ lo <= t[after]
      /\ t[p] \in Values(s) /\ t[p] <= hi
  <2>1. t[after] \in Values(t) /\ t[p] \in Values(t)
    BY DEF Values
  <2> QED
    BY <2>1 DEF Between
<1>3. PICK m \in 1..Len(s) : t[after] = s[m]
  BY <1>2 DEF Values
<1>4. q < m
  BY <1>1, <1>3, LargerIsEarlier
<1>5. below \in 1..Len(s)
  BY <1>0, <1>4
<1>6. m = below
  <2>1. SUFFICES ASSUME below < m PROVE FALSE
    BY <1>4
  <2>2. s[q] > s[below] /\ s[below] > s[m]
    BY <1>0, <1>5, <2>1 DEF Descending
  <2>3. s[below] \in Nat /\ s[below] \in Values(s)
    BY <1>0, <1>5 DEF Values
  <2>4. lo <= s[below] /\ s[below] <= hi
    <3>1. PICK x \in Nat, y \in Nat, z \in Nat : x = t[p] /\ y = s[below] /\ z = t[after]
      BY <1>1, <2>3
    <3>2. x > y /\ y > z
      BY <1>3, <2>2, <3>1
    <3>3. lo <= z /\ x <= hi
      BY <1>2, <3>1
    <3>4. lo <= y /\ y <= hi
      BY <3>2, <3>3
    <3> QED
      BY <3>1, <3>4
  <2>5. s[below] \in Values(t)
    BY <2>3, <2>4 DEF Between
  <2>6. PICK k \in 1..Len(t) : t[k] = s[below]
    BY <2>5 DEF Values
  <2>7. t[p] > t[k] /\ t[k] > t[after]
    BY <1>3, <2>2, <2>6
  <2>8. p < k /\ k < after
    BY <2>7, LargerIsEarlier
  <2> QED
    BY <2>8
<1> QED
  BY <1>3, <1>5, <1>6

LEMMA StretchGoesOn ==
  ASSUME NEW s \in Seq(Nat), NEW t \in Seq(Nat), Descending(s), Descending(t),
         NEW lo \in Nat, NEW hi \in Nat, Between(t, s, lo, hi),
         NEW i \in Nat, i + 1 \in 1..Len(s), t # <<>>, s[i + 1] = t[1]
  PROVE  \A k \in 1..Len(t) : i + k \in 1..Len(s) /\ t[k] = s[i + k]
<1> DEFINE T == {n \in Nat : n + 1 <= Len(t) =>
                   i + n + 1 \in 1..Len(s) /\ t[n + 1] = s[i + n + 1]}
<1>0. \A p, after \in 1..Len(t), q \in 1..Len(s), below \in Nat :
        after = p + 1 /\ below = q + 1 /\ t[p] = s[q]
          => below \in 1..Len(s) /\ t[after] = s[below]
  BY NextOfStretch
<1>1. Len(s) \in Nat /\ Len(t) \in Nat
  OBVIOUS
<1>2. 0 \in T
  BY <1>1
<1>3. ASSUME NEW n \in T PROVE n + 1 \in T
  <2>1. SUFFICES ASSUME n + 1 + 1 <= Len(t)
                 PROVE  i + n + 1 + 1 \in 1..Len(s) /\ t[n + 1 + 1] = s[i + n + 1 + 1]
    <3>1. n \in Nat /\ n + 1 \in Nat /\ i + (n + 1) + 1 = i + n + 1 + 1
      OBVIOUS
    <3> QED
      BY <3>1
  <2>2. PICK p \in Nat, q \in Nat, after \in Nat, below \in Nat :
          p = n + 1 /\ q = i + n + 1 /\ after = p + 1 /\ below = q + 1
    BY <1>1
  <2>3. /\ p \in 1..Len(t) /\ after \in 1..Len(t)
        /\ q \in 1..Len(s) /\ t[p] = s[q]
    <3>1. n + 1 <= Len(t) /\ n \in Nat
      BY <1>1, <2>1
    <3> QED
      BY <1>1, <2>1, <2>2, <3>1
  <2>4. below \in 1..Len(s) /\ t[after] = s[below]
    <3>1. q \in 1..Len(s) /\ p \in 1..Len(t) /\ after \in 1..Len(t) /\ t[p] = s[q]
      BY <2>3
    <3>2. after = p + 1 /\ below = q + 1
      BY <2>2
    <3> HIDE DEF T
    <3> QED
      BY <1>0, <3>1, <3>2
  <2> QED
    BY <2>2, <2>4
<1>4. T = Nat
  <2> HIDE DEF T
  <2>1. T \in SUBSET Nat
    BY DEF T
  <2> QED
    BY <1>2, <1>3, <2>1, EveryNumber
<1>5. ASSUME NEW k \in 1..Len(t) PROVE i + k \in 1..Len(s) /\ t[k] = s[i + k]
  <2>1. PICK n \in Nat : n + 1 = k
    BY <1>1
  <2>2. i + n + 1 = i + k /\ n + 1 <= Len(t)
    BY <1>1, <2>1
  <2>3. n \in T
    BY <1>4
  <2>4. i + n + 1 \in 1..Len(s) /\ t[n + 1] = s[i + n + 1]
    BY <2>2, <2>3
  <2> QED
    BY <2>1, <2>2, <2>4, Zenon
<1> QED
  BY <1>5

\* Such a list is a piece of the other: the whole rest of it when nothing
\* smaller is left out, its beginning when nothing larger is.
LEMMA StretchIsPiece ==
  ASSUME NEW s \in Seq(Nat), NEW t \in Seq(Nat), Descending(s), Descending(t),
         NEW lo \in Nat, NEW hi \in Nat, Between(t, s, lo, hi)
  PROVE  /\ \E i \in 0..(Len(s) - Len(t)) :
              /\ t = SubSeq(s, i + 1, i + Len(t))
              /\ lo = 0 => i + Len(t) = Len(s)
         /\ (\A v \in Values(s) : v <= hi) => t = SubSeq(s, 1, Len(t))
<1>1. Len(s) \in Nat /\ Len(t) \in Nat
  OBVIOUS
<1>2. CASE t = <<>>
  <2>1. /\ SubSeq(s, Len(s) + 1, Len(s) + Len(t)) = <<>>
        /\ SubSeq(s, 1, Len(t)) = <<>>
        /\ Len(s) \in 0..(Len(s) - Len(t)) /\ Len(s) + Len(t) = Len(s)
    BY <1>1, <1>2
  <2> QED
    BY <1>2, <2>1
<1>3. CASE t # <<>>
  <2>1. 1 \in 1..Len(t) /\ t[1] \in Nat
    BY <1>1, <1>3
  <2>2. t[1] \in Values(s) /\ lo <= t[1] /\ t[1] <= hi
    BY <2>1 DEF Between, Values
  <2>3. PICK m \in 1..Len(s) : s[m] = t[1]
    BY <2>2 DEF Values
  <2>4. PICK i \in Nat : i + 1 = m
    BY <1>1
  <2>5. \A k \in 1..Len(t) : i + k \in 1..Len(s) /\ t[k] = s[i + k]
    BY <1>3, <2>3, <2>4, StretchGoesOn
  <2>6. i + Len(t) <= Len(s)
    BY <1>1, <1>3, <2>5
  <2>7. t = SubSeq(s, i + 1, i + Len(t))
    <3>0. Len(t) # 0
      BY <1>3, EmptySeq
    <3>1. PICK from \in 1..Len(s), to \in 1..Len(s) :
            from = i + 1 /\ to = i + Len(t) /\ to - from + 1 = Len(t) /\ from <= to
      <4>1. PICK n \in Nat, m2 \in Nat : n = Len(t) /\ m2 = Len(s)
        BY <1>1
      <4>2. /\ i + 1 \in 1..Len(s) /\ i + n \in 1..Len(s)
            /\ i + n - (i + 1) + 1 = n /\ i + 1 <= i + n
        BY <2>6, <3>0, <4>1
      <4> QED
        BY <4>1, <4>2
    <3>2. \A k \in 1..Len(t) : from + k - 1 = i + k
      BY <3>1
    <3>3. /\ SubSeq(s, from, to) \in Seq(Nat)
          /\ Len(SubSeq(s, from, to)) = Len(t)
          /\ \A k \in 1..Len(t) : SubSeq(s, from, to)[k] = s[from + k - 1]
      <4>1. \A k \in from..to : s[k] \in Nat
        <5>1. \A k \in from..to : k \in 1..Len(s)
          BY <1>1
        <5> QED
          BY <5>1, SMTT(20)
      <4>2. from \in Int /\ to \in Int
        BY <1>1
      <4>3. PICK u : u = SubSeq(s, from, to)
        OBVIOUS
      <4>4. /\ u \in Seq(Nat)
            /\ Len(u) = IF from <= to THEN to - from + 1 ELSE 0
            /\ \A k \in 1..(to - from + 1) : u[k] = s[from + k - 1]
        BY <4>1, <4>2, <4>3, SubSeqProperties
      <4>5. from <= to /\ to - from + 1 = Len(t)
        BY <3>1
      <4> QED
        BY <4>3, <4>4, <4>5
    <3>4. \A k \in 1..Len(t) : SubSeq(s, from, to)[k] = t[k]
      BY <2>5, <3>2, <3>3
    <3>5. SubSeq(s, from, to) = t
      BY <3>3, <3>4, SeqEqual
    <3> QED
      BY <3>1, <3>5
  <2>8. ASSUME lo = 0 PROVE i + Len(t) = Len(s)
    <3>1. SUFFICES ASSUME i + Len(t) < Len(s) PROVE FALSE
      BY <1>1, <2>6
    <3>2. PICK j \in 1..Len(s) : j = i + Len(t) + 1
      BY <1>1, <3>1
    <3>3. Len(t) \in 1..Len(t) /\ t[Len(t)] = s[i + Len(t)] /\ i + Len(t) \in 1..Len(s)
      <4>1. Len(t) # 0
        BY <1>3, EmptySeq
      <4>2. Len(t) \in 1..Len(t)
        BY <1>1, <4>1
      <4> QED
        BY <2>5, <4>2
    <3>4. s[i + Len(t)] > s[j] /\ s[j] \in Nat /\ s[j] \in Values(s)
      <4>1. PICK a \in 1..Len(s) : a = i + Len(t)
        BY <3>3
      <4>2. a < j
        BY <1>1, <3>2, <4>1
      <4>3. s[a] > s[j]
        BY <4>2 DEF Descending
      <4> QED
        BY <4>1, <4>3, SMTT(20) DEF Values
    <3>5. t[Len(t)] <= hi
      BY <3>3 DEF Between, Values
    <3>6. s[j] \in Values(t)
      <4>1. PICK u \in Nat, v \in Nat : u = t[Len(t)] /\ v = s[j]
        BY <3>3, <3>4, SMTT(20)
      <4>2. u > v /\ u <= hi
        <5>1. t[Len(t)] > s[j]
          BY <3>3, <3>4, Zenon
        <5>2. u > v
          BY <4>1, <5>1, Zenon
        <5>3. u <= hi
          BY <3>5, <4>1, Zenon
        <5> QED
          BY <5>2, <5>3
      <4>3. lo <= v /\ v <= hi
        BY <2>8, <4>2
      <4> QED
        BY <3>4, <4>1, <4>3 DEF Between
    <3>7. PICK k \in 1..Len(t) : t[k] = s[j]
      BY <3>6 DEF Values
    <3>8. t[Len(t)] > t[k]
      BY <3>3, <3>4, <3>7
    <3>9. Len(t) < k
      BY <3>3, <3>7, <3>8, LargerIsEarlier
    <3> QED
      BY <1>1, <3>9
  <2>9. ASSUME \A v \in Values(s) : v <= hi PROVE i = 0
    <3>1. SUFFICES ASSUME i # 0 PROVE FALSE
      OBVIOUS
    <3>2. 1 \in 1..Len(s) /\ 1 < m
      BY <1>1, <2>3, <2>4, <3>1
    <3>3. s[1] > t[1] /\ s[1] \in Nat /\ s[1] \in Values(s)
      BY <2>3, <3>2 DEF Descending, Values
    <3>4. s[1] \in Values(t)
      BY <2>1, <2>2, <2>9, <3>3 DEF Between
    <3>5. PICK k \in 1..Len(t) : t[k] = s[1]
      BY <3>4 DEF Values
    <3>6. t[k] > t[1]
      BY <3>3, <3>5
    <3>7. k < 1
      BY <2>1, <3>6, LargerIsEarlier
    <3> QED
      BY <3>7
  <2>10. i \in 0..(Len(s) - Len(t))
    BY <1>1, <2>6
  <2>11. (\A v \in Values(s) : v <= hi) => t = SubSeq(s, 1, Len(t))
    BY <1>1, <2>7, <2>9
  <2> QED
    BY <2>7, <2>8, <2>10, <2>11
<1> QED
  BY <1>2, <1>3

-----------------------------------------------------------------------------
(* The inductive invariant.                                                 *)

Answered(q) == q.reply.at = "answered"

Pages == {"load", "more"}

\* Requests are numbered upwards, the latest list is asked for what is chosen
\* now, and every answer is of what was asked.
AskInv ==
  /\ screen # "search" => feed.ask # Blank
  /\ feed.turn <= spent.requests
  /\ \A q \in sent :
       /\ q.turn <= feed.turn
       /\ q.kind \in Pages /\ q.turn = feed.turn => q.ask = feed.ask \/ feed.ask = Blank
       /\ q.kind = "load" => q.cursor = Nil
       /\ q.kind = "more" => q.cursor # Nil
       /\ q.kind \in Pages /\ Answered(q) =>
            \A i \in 1..Len(q.reply.rows) : q.reply.rows[i].for = q.ask

\* Outside the search the newest comes first.
ListInv ==
  /\ Len(listing) <= FirstRows + spent.changes
  /\ screen # "search" => \A i \in 1..Len(listing) : listing[i] = Len(listing) + 1 - i
  /\ screen # "approvals" => pending = {} /\ told = 0 /\ feed.deciding = Nil

WaitInv ==
  /\ WaitsForSomething
  /\ feed.loadingMore => screen = "trail"

\* The rows that are listed for an ask, and the ones of a page.
Fit(a) == {r \in 1..Len(listing) : a \in fits[r]}

RowsOf(page) == [i \in 1..Len(page) |-> page[i].row]

\* A page of the rows that fit: those between two of them, and the cursor under it.
PieceOf(page, fit, next, top) ==
  /\ Descending(RowsOf(page))
  /\ Values(RowsOf(page)) = {r \in fit : next <= r /\ r <= top}
  /\ next <= top
  /\ next # Nil => next \in fit

Piece(page, a, next, top) == PieceOf(page, Fit(a), next, top)

\* Outside the search only listed rows are ever spoken of.
ListedInv ==
  screen # "search" =>
    /\ \A q \in sent :
         /\ q.cursor <= Len(listing) /\ q.row <= Len(listing)
         /\ q.kind \in Pages /\ Answered(q) =>
              /\ q.reply.next <= Len(listing)
              /\ \A i \in 1..Len(q.reply.rows) : q.reply.rows[i].row <= Len(listing)
    /\ feed.cursor <= Len(listing) /\ feed.deciding <= Len(listing)
    /\ \A i \in 1..Len(feed.shown) : feed.shown[i].row <= Len(listing)

Settled == feed.load = "ready" /\ ~Expected /\ ~crossed

\* Every page is a stretch of its list, and so is what is shown.
PieceInv ==
  screen # "search" =>
    /\ \A q \in sent : Answered(q) /\ q.kind = "load" =>
         \E top \in 0..Len(listing) : Piece(q.reply.rows, q.ask, q.reply.next, top)
    /\ \A q \in sent : Answered(q) /\ q.kind = "more" /\ q.cursor \in Fit(q.ask) =>
         Piece(q.reply.rows, q.ask, q.reply.next, q.cursor - 1)
    /\ Settled => \E top \in 0..Len(listing) : Piece(feed.shown, feed.ask, feed.cursor, top)

Exact(page) == \A i \in 1..Len(page) : page[i].open <=> page[i].row \in pending

\* No event is on its way, and none was lost since the list was asked for.
Informed == told = 0 /\ ~missed

\* While there is no more to be told the latest pages are as the table is, and
\* what was settled stays so.
CurrentInv ==
  screen = "approvals" =>
    /\ \A q \in sent : Answered(q) /\ q.kind \notin Pages => q.row \notin pending
    /\ Informed =>
         /\ \A q \in sent : q.kind \in Pages /\ q.turn = feed.turn /\ Answered(q) =>
              Exact(q.reply.rows)
         /\ \A q \in sent : q.kind = "load" /\ q.turn = feed.turn /\ Answered(q) =>
              Piece(q.reply.rows, q.ask, q.reply.next, Len(listing))
         /\ Settled => /\ Exact(feed.shown)
                       /\ Piece(feed.shown, feed.ask, feed.cursor, Len(listing))

FInv == /\ FeedTypeOK /\ AskInv /\ ListInv /\ WaitInv /\ ShownIsAsked
        /\ ListedInv /\ PieceInv /\ CurrentInv

-----------------------------------------------------------------------------
(* What the steps do, in the words of the invariant.                        *)

Count(s) == [requests |-> s, changes |-> spent.changes, refusals |-> spent.refusals]

\* A new request for the list, which is the one waited for from now on.
AsksAnew(q) ==
  /\ q \in FeedRequest
  /\ q.kind = "load" /\ q.row = Nil /\ q.cursor = Nil /\ q.reply = Unanswered
  /\ q.turn = spent.requests + 1
  /\ sent' = sent \cup {q}
  /\ feed' \in Feed
  /\ feed'.turn = q.turn /\ feed'.ask = q.ask
  /\ feed'.shown = feed.shown /\ feed'.cursor = feed.cursor
  /\ feed'.loadingMore = feed.loadingMore /\ feed'.busy = feed.busy
  /\ feed'.deciding = feed.deciding
  /\ MaySend /\ spent' = Count(spent.requests + 1)
  /\ UNCHANGED <<feedTables, live, crossed>> /\ missed' = FALSE
  /\ told' \in Nat /\ told' <= told

SameList ==
  /\ feed' \in Feed
  /\ feed'.ask = feed.ask /\ feed'.turn = feed.turn
  /\ feed'.shown = feed.shown /\ feed'.cursor = feed.cursor
  /\ feed'.load = feed.load /\ feed'.resultsFor = feed.resultsFor
  /\ feed'.message = feed.message /\ feed'.refetching = feed.refetching

\* Another request, of the list as it is.
Sends(q) ==
  /\ q \in FeedRequest
  /\ q.kind # "load" /\ q.reply = Unanswered
  /\ q.turn = feed.turn /\ q.ask = feed.ask
  /\ q.kind = "more" => q.cursor # Nil
  /\ q.cursor \in {Nil, feed.cursor}
  /\ q.row \in {Nil, feed.deciding} \/ \E i \in 1..Len(feed.shown) : q.row = feed.shown[i].row
  /\ sent' = sent \cup {q}
  /\ SameList /\ feed'.deciding = feed.deciding
  /\ feed'.loadingMore => feed.loadingMore \/ (screen = "trail" /\ q.kind = "more")
  /\ feed'.busy => feed.busy \/ q.kind = "decide"
  /\ MaySend /\ spent' = Count(spent.requests + 1)
  /\ UNCHANGED <<feedTables, live, told, missed, crossed>>

\* The dialog opens or closes, or the stream does.
Turns ==
  /\ SameList /\ feed'.loadingMore = feed.loadingMore /\ feed'.busy = feed.busy
  /\ \/ feed'.deciding \in {Nil, feed.deciding}
     \/ \E i \in 1..Len(feed.shown) : feed'.deciding = feed.shown[i].row
  /\ screen = "approvals"
  /\ UNCHANGED <<feedTables, sent, spent, crossed>>
  /\ live' \in BOOLEAN /\ told' \in Nat /\ missed' \in BOOLEAN
  /\ Informed' => Informed

\* Something has happened that the screen is to be told, and perhaps never is.
Tells == told' \in Nat /\ missed' \in BOOLEAN /\ ~Informed'

LEMMA IssueAsks ==
  ASSUME FeedTypeOK, NEW page \in Feed, page.ask \in Asks,
         page.shown = feed.shown, page.cursor = feed.cursor,
         page.loadingMore = feed.loadingMore, page.busy = feed.busy,
         page.deciding = feed.deciding,
         Reload(page), UNCHANGED <<feedTables, live, crossed>>, told' \in Nat, told' <= told
  PROVE  \E q : AsksAnew(q)
<1> DEFINE a == page.ask
<1>1. spent.requests \in Nat /\ spent.requests + 1 \in Nat
  BY FeedBoundsAssumption DEF FeedTypeOK
<1>2. Unanswered \in Reply
  BY DEF Unanswered, Reply, Nil
<1> DEFINE q == [NewRequest EXCEPT !.ask = a, !.turn = spent.requests + 1]
<1>3. /\ q \in FeedRequest
      /\ q.kind = "load" /\ q.row = Nil /\ q.cursor = Nil /\ q.reply = Unanswered
      /\ q.turn = spent.requests + 1 /\ q.ask = a
  <2>1. PICK r, u : r = NewRequest /\ u = [r EXCEPT !.ask = a]
    OBVIOUS
  <2>2. /\ r \in [id : Nat, kind : {"load"}, ask : {feed.ask}, cursor : {Nil}, turn : {feed.turn},
                  row : {Nil}, reply : {Unanswered}]
    BY <1>1, <2>1 DEF NewRequest
  <2>3. u \in [id : Nat, kind : {"load"}, ask : {a}, cursor : {Nil}, turn : {feed.turn},
               row : {Nil}, reply : {Unanswered}]
    BY <2>1, <2>2
  <2>4. [u EXCEPT !.turn = spent.requests + 1]
          \in [id : Nat, kind : {"load"}, ask : {a}, cursor : {Nil}, turn : {spent.requests + 1},
              row : {Nil}, reply : {Unanswered}]
    BY <2>3
  <2>5. q = [u EXCEPT !.turn = spent.requests + 1]
    BY <2>1, Zenon
  <2> HIDE DEF q
  <2> QED
    BY <1>1, <1>2, <2>4, <2>5 DEF FeedRequest, Nil
<1> HIDE DEF q
<1>4. q = [NewRequest EXCEPT !.ask = page.ask, !.turn = spent.requests + 1]
  BY Zenon DEF q
<1>5. sent' = sent \cup {q} /\ MaySend /\ missed' = FALSE
  BY <1>4 DEF Reload, Issue
<1>6. spent' = Count(spent.requests + 1)
  BY DEF Reload, Issue, FeedTypeOK, Count
<1>7. /\ feed' \in Feed
      /\ feed'.turn = spent.requests + 1 /\ feed'.ask = a
      /\ feed'.shown = page.shown /\ feed'.cursor = page.cursor
      /\ feed'.loadingMore = page.loadingMore /\ feed'.busy = page.busy
      /\ feed'.deciding = page.deciding
  BY <1>1 DEF Reload, Feed
<1> QED
  BY <1>3, <1>5, <1>6, <1>7 DEF AsksAnew

LEMMA NarrowAsks ==
  ASSUME FeedTypeOK, NEW a \in Asks, Narrow(a)
  PROVE  \E q : AsksAnew(q)
<1> DEFINE page == [feed EXCEPT !.ask = a, !.refetching = (screen = "approvals")]
<1>1. /\ page \in Feed /\ page.ask = a
      /\ page.shown = feed.shown /\ page.cursor = feed.cursor
      /\ page.loadingMore = feed.loadingMore /\ page.busy = feed.busy
      /\ page.deciding = feed.deciding
  BY DEF FeedTypeOK, Feed
<1>2. Reload(page) /\ UNCHANGED <<feedTables, live, told, crossed>>
  BY DEF Narrow
<1>3. told \in Nat
  BY DEF FeedTypeOK
<1> HIDE DEF page
<1> QED
  BY <1>1, <1>2, <1>3, IssueAsks

LEMMA RetryAsks ==
  ASSUME FeedTypeOK, AskInv, RetryLoad
  PROVE  \E q : AsksAnew(q)
<1>1. feed.ask \in Asks
  BY DEF FeedTypeOK, Feed, AskInv, RetryLoad, Says, SearchLoad
<1>2. PICK page :
        /\ page \in Feed /\ page.ask = feed.ask
        /\ page.shown = feed.shown /\ page.cursor = feed.cursor
        /\ page.loadingMore = feed.loadingMore /\ page.busy = feed.busy
        /\ page.deciding = feed.deciding
        /\ Reload(page)
  <2>1. screen \in AllScreens
    BY ScreensAssumption DEF FeedTypeOK
  <2>2. CASE screen = "approvals"
    <3> DEFINE page == [feed EXCEPT !.refetching = TRUE]
    <3>1. /\ page \in Feed /\ page.ask = feed.ask
          /\ page.shown = feed.shown /\ page.cursor = feed.cursor
          /\ page.loadingMore = feed.loadingMore /\ page.busy = feed.busy
          /\ page.deciding = feed.deciding
      BY DEF FeedTypeOK, Feed
    <3>2. Reload(page)
      BY <2>2 DEF RetryLoad
    <3> QED
      BY <3>1, <3>2
  <2>3. CASE screen = "trail"
    <3> DEFINE page == [feed EXCEPT !.load = "loading"]
    <3>1. /\ page \in Feed /\ page.ask = feed.ask
          /\ page.shown = feed.shown /\ page.cursor = feed.cursor
          /\ page.loadingMore = feed.loadingMore /\ page.busy = feed.busy
          /\ page.deciding = feed.deciding
      BY DEF FeedTypeOK, Feed
    <3>2. Reload(page)
      BY <2>3 DEF RetryLoad
    <3> QED
      BY <3>1, <3>2
  <2>4. CASE screen = "search"
    <3> DEFINE page == [feed EXCEPT !.resultsFor = Blank]
    <3>1. /\ page \in Feed /\ page.ask = feed.ask
          /\ page.shown = feed.shown /\ page.cursor = feed.cursor
          /\ page.loadingMore = feed.loadingMore /\ page.busy = feed.busy
          /\ page.deciding = feed.deciding
      BY DEF FeedTypeOK, Feed
    <3>2. Reload(page)
      BY <2>4 DEF RetryLoad
    <3> QED
      BY <3>1, <3>2
  <2> QED
    BY <2>1, <2>2, <2>3, <2>4 DEF AllScreens
<1>3. UNCHANGED <<feedTables, live, told, crossed>> /\ told \in Nat
  BY DEF RetryLoad, FeedTypeOK
<1> QED
  BY <1>1, <1>2, <1>3, IssueAsks

LEMMA HearAsks ==
  ASSUME FeedTypeOK, AskInv, ListInv, HearChange
  PROVE  \E q : AsksAnew(q)
<1>1. feed.ask \in Asks
  BY DEF FeedTypeOK, Feed, AskInv, HearChange, ListInv
<1> DEFINE page == [feed EXCEPT !.refetching = TRUE]
<1>2. /\ page \in Feed /\ page.ask = feed.ask
      /\ page.shown = feed.shown /\ page.cursor = feed.cursor
      /\ page.loadingMore = feed.loadingMore /\ page.busy = feed.busy
      /\ page.deciding = feed.deciding
  BY DEF FeedTypeOK, Feed
<1>3. Reload(page)
  BY DEF HearChange, HeardAlways
<1>4. UNCHANGED <<feedTables, live, crossed>> /\ told' \in Nat /\ told' <= told
  BY DEF HearChange, FeedTypeOK
<1> HIDE DEF page
<1> QED
  BY <1>1, <1>2, <1>3, <1>4, IssueAsks

LEMMA MoreSends ==
  ASSUME FeedTypeOK, AskInv, LoadMore
  PROVE  \E q : Sends(q)
<1>0. feed.ask \in Asks
  BY DEF FeedTypeOK, Feed, AskInv, LoadMore, Says, SearchLoad
<1>1. spent.requests \in Nat /\ spent.requests + 1 \in Nat
  BY FeedBoundsAssumption DEF FeedTypeOK
<1>2. Unanswered \in Reply /\ feed.cursor \in Nat /\ feed.turn \in Nat
  BY DEF Unanswered, Reply, Nil, FeedTypeOK, Feed
<1> DEFINE q == [NewRequest EXCEPT !.kind = "more", !.cursor = feed.cursor]
<1>3. /\ q \in FeedRequest
      /\ q.kind = "more" /\ q.row = Nil /\ q.reply = Unanswered
      /\ q.turn = feed.turn /\ q.ask = feed.ask /\ q.cursor = feed.cursor
  <2>1. PICK r, u : r = NewRequest /\ u = [r EXCEPT !.kind = "more"]
    OBVIOUS
  <2>2. r \in [id : Nat, kind : {"load"}, ask : {feed.ask}, cursor : {Nil}, turn : {feed.turn},
               row : {Nil}, reply : {Unanswered}]
    BY <1>1, <2>1 DEF NewRequest
  <2>3. u \in [id : Nat, kind : {"more"}, ask : {feed.ask}, cursor : {Nil}, turn : {feed.turn},
               row : {Nil}, reply : {Unanswered}]
    BY <2>1, <2>2
  <2>4. [u EXCEPT !.cursor = feed.cursor]
          \in [id : Nat, kind : {"more"}, ask : {feed.ask}, cursor : {feed.cursor},
               turn : {feed.turn}, row : {Nil}, reply : {Unanswered}]
    BY <2>3
  <2>5. q = [u EXCEPT !.cursor = feed.cursor]
    BY <2>1, Zenon
  <2> HIDE DEF q
  <2> QED
    BY <1>0, <1>2, <2>4, <2>5 DEF FeedRequest, Nil
<1>4. Issue(q) /\ feed.cursor # Nil /\ UNCHANGED <<feedTables, live, told, missed, crossed>>
  BY DEF LoadMore
<1> HIDE DEF q
<1>5. sent' = sent \cup {q} /\ MaySend /\ spent' = Count(spent.requests + 1)
  BY <1>4 DEF Issue, FeedTypeOK, Count
<1>6. /\ SameList /\ feed'.deciding = feed.deciding
      /\ feed'.loadingMore => screen = "trail"
      /\ feed'.busy = feed.busy
  BY DEF LoadMore, FeedTypeOK, Feed, SameList
<1> QED
  BY <1>3, <1>4, <1>5, <1>6 DEF Sends

\* A request about a row that is on the screen or in the dialog.
LEMMA ActSends ==
  ASSUME FeedTypeOK, AskInv, screen # "search", NEW kind \in {"decide", "withdraw"},
         NEW row \in FeedRows,
         row = feed.deciding \/ \E i \in 1..Len(feed.shown) : row = feed.shown[i].row,
         Issue([NewRequest EXCEPT !.kind = kind, !.row = row]),
         UNCHANGED <<feedTables, live, told, missed, crossed>>,
         SameList, feed'.deciding = feed.deciding, feed'.loadingMore = feed.loadingMore,
         feed'.busy => feed.busy \/ kind = "decide"
  PROVE  \E q : Sends(q)
<1>0. feed.ask \in Asks
  BY DEF FeedTypeOK, Feed, AskInv
<1>1. spent.requests \in Nat /\ spent.requests + 1 \in Nat
  BY FeedBoundsAssumption DEF FeedTypeOK
<1>2. Unanswered \in Reply /\ feed.turn \in Nat
  BY DEF Unanswered, Reply, Nil, FeedTypeOK, Feed
<1> DEFINE q == [NewRequest EXCEPT !.kind = kind, !.row = row]
<1>3. /\ q \in FeedRequest
      /\ q.kind = kind /\ q.row = row /\ q.reply = Unanswered /\ q.cursor = Nil
      /\ q.turn = feed.turn /\ q.ask = feed.ask
  <2>1. PICK r, u : r = NewRequest /\ u = [r EXCEPT !.kind = kind]
    OBVIOUS
  <2>2. r \in [id : Nat, kind : {"load"}, ask : {feed.ask}, cursor : {Nil}, turn : {feed.turn},
               row : {Nil}, reply : {Unanswered}]
    BY <1>1, <2>1 DEF NewRequest
  <2>3. u \in [id : Nat, kind : {kind}, ask : {feed.ask}, cursor : {Nil}, turn : {feed.turn},
               row : {Nil}, reply : {Unanswered}]
    BY <2>1, <2>2
  <2>4. [u EXCEPT !.row = row]
          \in [id : Nat, kind : {kind}, ask : {feed.ask}, cursor : {Nil},
               turn : {feed.turn}, row : {row}, reply : {Unanswered}]
    BY <2>3
  <2>5. q = [u EXCEPT !.row = row]
    BY <2>1, Zenon
  <2> HIDE DEF q
  <2> QED
    BY <1>0, <1>2, <2>4, <2>5 DEF FeedRequest, Nil
<1>4. Issue(q)
  OBVIOUS
<1> HIDE DEF q
<1>5. sent' = sent \cup {q} /\ MaySend /\ spent' = Count(spent.requests + 1)
  BY <1>4 DEF Issue, FeedTypeOK, Count
<1> QED
  BY <1>3, <1>5 DEF Sends

LEMMA WithdrawSends ==
  ASSUME FeedTypeOK, AskInv, NEW i \in DOMAIN feed.shown, Withdraw(i)
  PROVE  \E q : Sends(q)
<1>1. feed.shown \in Seq(ShownRow) /\ feed \in Feed
  BY DEF FeedTypeOK, Feed
<1>2. i \in 1..Len(feed.shown) /\ feed.shown[i] \in ShownRow
  BY <1>1
<1>3. PICK row \in FeedRows : row = feed.shown[i].row
  BY <1>2 DEF ShownRow
<1>4. /\ screen # "search" /\ Issue([NewRequest EXCEPT !.kind = "withdraw", !.row = row])
      /\ UNCHANGED <<feedTables, feed, live, told, missed, crossed>>
  BY <1>3 DEF Withdraw, Offered
<1>5. SameList
  BY <1>1, <1>4 DEF SameList
<1> QED
  BY <1>2, <1>3, <1>4, <1>5, ActSends

LEMMA DecisionSends ==
  ASSUME FeedTypeOK, AskInv, ListInv, SubmitDecision
  PROVE  \E q : Sends(q)
<1>1. feed \in Feed /\ feed' = [feed EXCEPT !.busy = TRUE]
  BY DEF FeedTypeOK, SubmitDecision
<1>2. PICK row \in FeedRows : row = feed.deciding
  BY <1>1 DEF Feed, SubmitDecision
<1>3. /\ screen # "search" /\ Issue([NewRequest EXCEPT !.kind = "decide", !.row = row])
      /\ UNCHANGED <<feedTables, live, told, missed, crossed>>
  BY <1>2 DEF SubmitDecision, ListInv
<1>4. SameList /\ feed'.deciding = feed.deciding /\ feed'.loadingMore = feed.loadingMore
  BY <1>1 DEF SameList, Feed
<1> QED
  BY <1>2, <1>3, <1>4, ActSends

LEMMA DialogTurns ==
  ASSUME FeedTypeOK, ListInv,
         CloseDecision \/ \E i \in DOMAIN feed.shown : OpenDecision(i)
  PROVE  Turns
<1>1. feed \in Feed /\ feed.shown \in Seq(ShownRow)
  BY DEF FeedTypeOK, Feed
<1>2. /\ screen = "approvals"
      /\ UNCHANGED <<feedTables, sent, live, told, spent, missed, crossed>>
  BY DEF CloseDecision, OpenDecision, Offered, ListInv
<1>3. PICK row \in FeedRows \cup {Nil} :
        /\ feed' = [feed EXCEPT !.deciding = row]
        /\ row = Nil \/ \E i \in 1..Len(feed.shown) : row = feed.shown[i].row
  <2>1. CASE CloseDecision
    BY <2>1 DEF CloseDecision
  <2>2. CASE \E i \in DOMAIN feed.shown : OpenDecision(i)
    <3>1. PICK i \in 1..Len(feed.shown) : OpenDecision(i)
      BY <1>1, <2>2
    <3>2. feed.shown[i] \in ShownRow
      BY <1>1
    <3> QED
      BY <3>1, <3>2 DEF OpenDecision, ShownRow
  <2> QED
    BY <2>1, <2>2
<1>4. /\ SameList /\ feed'.deciding = row
      /\ feed'.loadingMore = feed.loadingMore /\ feed'.busy = feed.busy
  BY <1>1, <1>3 DEF SameList, Feed
<1>5. live' \in BOOLEAN /\ told' \in Nat /\ missed' \in BOOLEAN /\ (Informed' => Informed)
  BY <1>2 DEF FeedTypeOK, Informed
<1> QED
  BY <1>2, <1>3, <1>4, <1>5 DEF Turns

LEMMA StreamTurns == ASSUME FeedTypeOK, OpenStream \/ LoseStream PROVE Turns
<1>1. feed \in Feed /\ live \in BOOLEAN /\ told \in Nat /\ missed \in BOOLEAN
  BY DEF FeedTypeOK
<1>2. CASE OpenStream
  <2>1. /\ UNCHANGED <<feedTables, feed, sent, told, spent, missed, crossed>>
        /\ screen = "approvals" /\ live' = TRUE
    BY <1>2 DEF OpenStream
  <2>2. Informed' <=> Informed
    BY <2>1 DEF Informed
  <2> QED
    BY <1>1, <2>1, <2>2 DEF Turns, SameList
<1>3. CASE LoseStream
  <2>1. /\ UNCHANGED <<feedTables, feed, sent, spent, crossed>>
        /\ screen = "approvals" /\ live' = FALSE /\ told' = 0 /\ missed' = (missed \/ told > 0)
    BY <1>3 DEF LoseStream
  <2>2. missed' \in BOOLEAN
    BY <2>1
  <2>3. Informed' => Informed
    <3>1. ~missed' => ~missed /\ ~(told > 0)
      BY <2>1
    <3> QED
      BY <1>1, <3>1 DEF Informed
  <2> QED
    BY <1>1, <2>1, <2>2, <2>3 DEF Turns, SameList
<1> QED
  BY <1>2, <1>3

LEMMA PublishTells == ASSUME FeedTypeOK, Publish PROVE Tells
<1>1. told \in Nat /\ missed \in BOOLEAN /\ live \in BOOLEAN
  BY DEF FeedTypeOK
<1>2. CASE told' = told + 1 /\ missed' = missed
  <2>1. missed' \in BOOLEAN /\ told' # 0 /\ told' \in Nat
    BY <1>1, <1>2
  <2> QED
    BY <2>1 DEF Tells, Informed
<1>3. CASE missed' = TRUE /\ told' = told
  BY <1>1, <1>3 DEF Tells, Informed
<1> QED
  BY <1>2, <1>3 DEF Publish

-----------------------------------------------------------------------------
(* The pages the server gives.                                              *)

LEMMA FittingAreRows ==
  ASSUME FeedTypeOK, NEW a
  PROVE  Fitting(a) \in Seq(FeedRows)
<1>1. listing \in Seq(FeedRows)
  BY DEF FeedTypeOK
<1> QED
  BY <1>1, ThoseAreRows DEF Fitting

LEMMA RestAreRows ==
  ASSUME FeedTypeOK, NEW a, NEW cursor \in Nat
  PROVE  Rest(a, cursor) \in Seq(FeedRows)
<1>1. PICK s \in Seq(FeedRows) : s = Fitting(a)
  BY FittingAreRows
<1>2. CASE screen = "search"
  <2>1. Len(s) \in Nat /\ cursor + 1 \in Int /\ \A i \in (cursor + 1)..Len(s) : s[i] \in FeedRows
    BY <1>1
  <2>2. SubSeq(s, cursor + 1, Len(s)) \in Seq(FeedRows)
    BY <2>1, SubSeqProperties
  <2> QED
    BY <1>1, <1>2, <2>2 DEF Rest, AfterOffset
<1>3. CASE screen # "search"
  <2> DEFINE older == {listing[i] : i \in Place(cursor)..Len(listing)}
             from == IF cursor = Nil THEN s ELSE Those(s, older)
  <2>1. from \in Seq(FeedRows)
    BY ThoseAreRows
  <2> HIDE DEF from
  <2>2. from # <<>> => Tail(from) \in Seq(FeedRows)
    BY <2>1, HeadTailProperties
  <2>3. AfterCursor(a, cursor) = IF cursor = Nil \/ from = <<>> THEN from ELSE Tail(from)
    BY <1>1 DEF AfterCursor, from
  <2> QED
    BY <1>3, <2>1, <2>2, <2>3 DEF Rest
<1> QED
  BY <1>2, <1>3

LEMMA RowsAreNumbers == ASSUME NEW s \in Seq(FeedRows) PROVE s \in Seq(Nat)
<1>1. FeedRows \subseteq Nat
  BY DEF FeedRows
<1> QED
  BY <1>1, SeqMonotonic

LEMMA ListingDescends ==
  ASSUME FeedTypeOK, ListInv, screen # "search"
  PROVE  /\ listing \in Seq(Nat)
         /\ Descending(listing)
         /\ Values(listing) = 1..Len(listing)
         /\ 1..Len(listing) \subseteq FeedRows
<1>1. listing \in Seq(FeedRows) /\ Len(listing) \in Nat
  BY DEF FeedTypeOK
<1>2. \A i \in 1..Len(listing) : listing[i] = Len(listing) + 1 - i
  BY DEF ListInv
<1>3. Descending(listing)
  BY <1>1, <1>2 DEF Descending
<1>4. Values(listing) = 1..Len(listing)
  <2>1. ASSUME NEW v \in 1..Len(listing) PROVE v \in Values(listing)
    <3>1. PICK i \in 1..Len(listing) : i = Len(listing) + 1 - v
      BY <1>1
    <3>2. listing[i] = v
      BY <1>1, <1>2, <3>1
    <3> QED
      BY <3>2 DEF Values
  <2>2. ASSUME NEW v \in Values(listing) PROVE v \in 1..Len(listing)
    BY <1>1, <1>2 DEF Values
  <2> QED
    BY <2>1, <2>2
<1>5. 1..Len(listing) \subseteq FeedRows
  BY <1>1, FeedBoundsAssumption DEF FeedRows, FeedTypeOK, ListInv
<1> QED
  BY <1>1, <1>3, <1>4, <1>5, RowsAreNumbers

LEMMA FittingDescends ==
  ASSUME FeedTypeOK, ListInv, screen # "search", NEW a
  PROVE  /\ Fitting(a) \in Seq(Nat)
         /\ Descending(Fitting(a))
         /\ Values(Fitting(a)) = Fit(a)
<1> DEFINE wanted == {r \in FeedRows : a \in fits[r]}
<1>1. /\ listing \in Seq(Nat) /\ Descending(listing)
      /\ Values(listing) = 1..Len(listing)
      /\ 1..Len(listing) \subseteq FeedRows
  BY ListingDescends
<1>2. Fitting(a) = Those(listing, wanted)
  BY DEF Fitting
<1>3. /\ Those(listing, wanted) \in Seq(Nat)
      /\ Descending(Those(listing, wanted))
      /\ Values(Those(listing, wanted)) = {r \in Values(listing) : r \in wanted}
  <2> HIDE DEF wanted
  <2> QED
    BY <1>1, ThoseAreRows, ThoseDescend
<1>4. {r \in Values(listing) : r \in wanted} = Fit(a)
  BY <1>1 DEF Fit
<1> QED
  BY <1>2, <1>3, <1>4

\* Tail takes the largest away.
LEMMA TailDescends ==
  ASSUME NEW s \in Seq(Nat), s # <<>>, Descending(s)
  PROVE  /\ Tail(s) \in Seq(Nat)
         /\ Descending(Tail(s))
         /\ s[1] \in Values(s)
         /\ \A v \in Values(s) : v <= s[1]
         /\ Values(Tail(s)) = {r \in Values(s) : r # s[1]}
<1> DEFINE t == Tail(s)
<1>1. /\ t \in Seq(Nat) /\ Len(t) = Len(s) - 1
      /\ \A i \in 1..Len(t) : t[i] = s[i + 1]
      /\ Len(s) \in Nat /\ Len(s) # 0
  BY HeadTailProperties, EmptySeq
<1> HIDE DEF t
<1>2. Descending(t)
  <2>1. SUFFICES ASSUME NEW i \in 1..Len(t), NEW j \in 1..Len(t), i < j PROVE t[i] > t[j]
    BY DEF Descending
  <2>2. PICK k \in 1..Len(s), m \in 1..Len(s) : k = i + 1 /\ m = j + 1 /\ k < m
    BY <1>1, <2>1
  <2>3. s[k] > s[m] /\ t[i] = s[k] /\ t[j] = s[m]
    BY <1>1, <2>2 DEF Descending
  <2> QED
    BY <2>3
<1>3. 1 \in 1..Len(s) /\ s[1] \in Values(s)
  BY <1>1 DEF Values
<1>4. ASSUME NEW v \in Values(s) PROVE v <= s[1]
  <2>1. PICK i \in 1..Len(s) : v = s[i]
    BY DEF Values
  <2>2. s[1] \in Nat /\ s[i] \in Nat
    BY <1>3
  <2>3. i # 1 => s[1] > s[i]
    BY <1>3 DEF Descending
  <2> QED
    BY <2>1, <2>2, <2>3
<1>5. ASSUME NEW v \in Values(t) PROVE v \in Values(s) /\ v # s[1]
  <2>1. PICK i \in 1..Len(t) : v = t[i]
    BY DEF Values
  <2>2. PICK k \in 1..Len(s) : k = i + 1
    BY <1>1
  <2>3. v = s[k] /\ k # 1
    BY <1>1, <2>1, <2>2
  <2> QED
    BY <1>3, <2>3, LargerIsEarlier DEF Values
<1>6. ASSUME NEW v \in Values(s), v # s[1] PROVE v \in Values(t)
  <2>1. PICK k \in 1..Len(s) : v = s[k]
    BY DEF Values
  <2>2. PICK i \in 1..Len(t) : k = i + 1
    <3>1. k # 1
      BY <1>6, <2>1
    <3> QED
      BY <1>1, <3>1
  <2>3. v = t[i]
    BY <1>1, <2>1, <2>2
  <2> QED
    BY <2>3 DEF Values
<1> QED
  BY <1>1, <1>2, <1>3, <1>4, <1>5, <1>6 DEF t

\* What is listed after the cursor, outside the search.
LEMMA RestIsBelow ==
  ASSUME FeedTypeOK, ListInv, screen # "search", NEW a, NEW cursor \in Nat,
         cursor # Nil => cursor \in Fit(a)
  PROVE  /\ Rest(a, cursor) \in Seq(Nat)
         /\ Descending(Rest(a, cursor))
         /\ Values(Rest(a, cursor)) = {r \in Fit(a) : cursor = Nil \/ r < cursor}
<1>1. PICK s \in Seq(Nat) : s = Fitting(a) /\ Descending(s) /\ Values(s) = Fit(a)
  BY FittingDescends
<1>2. Rest(a, cursor) = AfterCursor(a, cursor)
  BY DEF Rest
<1>3. CASE cursor = Nil
  <2>1. AfterCursor(a, cursor) = s
    BY <1>1, <1>3 DEF AfterCursor
  <2> QED
    BY <1>1, <1>2, <1>3, <2>1
<1>4. CASE cursor # Nil
  <2> DEFINE older == {listing[i] : i \in Place(cursor)..Len(listing)}
             from == Those(s, older)
  <2>1. cursor \in 1..Len(listing) /\ cursor \in Fit(a)
    BY <1>4 DEF Fit
  <2>2. PICK n \in Nat : n = Len(listing) /\ DOMAIN listing = 1..n
    BY ListingDescends
  <2>3. \A i \in 1..n : listing[i] = n + 1 - i
    BY <2>2 DEF ListInv
  <2>4. Place(cursor) = n + 1 - cursor
    <3>1. n + 1 - cursor \in 1..n /\ n + 1 - (n + 1 - cursor) = cursor
      BY <2>1, <2>2
    <3>2. \E i \in DOMAIN listing : listing[i] = cursor
      BY <2>2, <2>3, <3>1
    <3>3. Place(cursor) \in DOMAIN listing /\ listing[Place(cursor)] = cursor
      BY <3>2, Zenon DEF Place
    <3>4. PICK i \in 1..n : i = Place(cursor) /\ n + 1 - i = cursor
      BY <2>2, <2>3, <3>3
    <3> QED
      BY <3>4
  <2>5. older = 1..cursor
    <3>1. ASSUME NEW i \in Place(cursor)..Len(listing) PROVE listing[i] \in 1..cursor
      <4>1. i \in 1..n /\ n + 1 - i <= cursor /\ n + 1 - i >= 1
        BY <2>1, <2>2, <2>4
      <4> QED
        BY <2>3, <4>1
    <3>2. ASSUME NEW v \in 1..cursor
          PROVE  \E i \in Place(cursor)..Len(listing) : listing[i] = v
      <4>0. v \in Nat /\ n + 1 - v \in 1..n /\ n + 1 - (n + 1 - v) = v
        BY <2>1, <2>2
      <4>1. PICK i \in 1..n : i = n + 1 - v /\ n + 1 - i = v
        BY <4>0
      <4>2. i \in Place(cursor)..Len(listing)
        BY <2>1, <2>2, <2>4, <4>1
      <4>3. listing[i] = v
        BY <2>3, <4>1
      <4> QED
        BY <4>2, <4>3
    <3> QED
      BY <3>1, <3>2
  <2>6. /\ from \in Seq(Nat) /\ Descending(from)
        /\ Values(from) = {r \in Fit(a) : r \in older}
    <3> HIDE DEF older
    <3> QED
      BY <1>1, ThoseAreRows, ThoseDescend
  <2>7. AfterCursor(a, cursor) = IF from = <<>> THEN from ELSE Tail(from)
    BY <1>1, <1>4 DEF AfterCursor
  <2> HIDE DEF from, older
  <2>8. \A r \in Fit(a) : r \in Nat /\ r >= 1
    BY <2>2 DEF Fit
  <2>9. Values(from) = {r \in Fit(a) : r <= cursor} /\ cursor \in Values(from)
    <3>1. \A r \in Fit(a) : r \in older <=> r <= cursor
      BY <2>8, <2>5
    <3>2. Values(from) = {r \in Fit(a) : r <= cursor}
      BY <2>6, <3>1
    <3> QED
      BY <2>1, <3>2
  <2>10. from # <<>>
    BY <2>9 DEF Values
  <2>11. /\ Tail(from) \in Seq(Nat) /\ Descending(Tail(from))
         /\ from[1] \in Values(from)
         /\ \A v \in Values(from) : v <= from[1]
         /\ Values(Tail(from)) = {r \in Values(from) : r # from[1]}
    BY <2>6, <2>10, TailDescends
  <2>12. from[1] = cursor
    BY <2>8, <2>9, <2>11
  <2>13. Values(Tail(from)) = {r \in Fit(a) : r < cursor}
    BY <2>8, <2>9, <2>11, <2>12
  <2> QED
    BY <1>2, <1>4, <2>7, <2>10, <2>11, <2>13
<1> QED
  BY <1>3, <1>4

\* The first of a descending list are the ones from the last of them up.
LEMMA FirstOnes ==
  ASSUME NEW s \in Seq(Nat), Descending(s), NEW n \in 1..Len(s), NEW t \in Seq(Nat),
         Len(t) = n, \A i \in 1..n : t[i] = s[i]
  PROVE  Descending(t) /\ Values(t) = {r \in Values(s) : s[n] <= r}
<1>1. Len(s) \in Nat /\ \A i \in 1..n : i \in 1..Len(s)
  OBVIOUS
<1>2. Descending(t)
  BY <1>1 DEF Descending
<1>3. ASSUME NEW v \in Values(t) PROVE v \in Values(s) /\ s[n] <= v
  <2>1. PICK i \in 1..n : v = s[i]
    BY DEF Values
  <2>2. i < n => s[i] > s[n]
    BY <1>1 DEF Descending
  <2>3. s[i] \in Nat /\ s[n] \in Nat
    BY <1>1
  <2> QED
    BY <1>1, <2>1, <2>2, <2>3 DEF Values
<1>4. ASSUME NEW v \in Values(s), s[n] <= v PROVE v \in Values(t)
  <2>1. PICK i \in 1..Len(s) : v = s[i]
    BY DEF Values
  <2>2. n < i => s[n] > s[i]
    BY DEF Descending
  <2>3. s[i] \in Nat /\ s[n] \in Nat
    OBVIOUS
  <2>4. i \in 1..n
    BY <1>1, <1>4, <2>1, <2>2, <2>3
  <2> QED
    BY <2>1, <2>4 DEF Values
<1> QED
  BY <1>2, <1>3, <1>4

LEMMA PageIsGiven ==
  ASSUME FeedTypeOK, NEW q \in FeedRequest
  PROVE  /\ Page(q) \in Reply
         /\ Page(q).at = "answered"
         /\ \A i \in 1..Len(Page(q).rows) : Page(q).rows[i].for = q.ask
         /\ Exact(Page(q).rows)
<1>1. q.ask \in Asks /\ q.cursor \in Nat
  BY DEF FeedRequest
<1>2. PICK rest \in Seq(FeedRows) : rest = Rest(q.ask, q.cursor)
  BY <1>1, RestAreRows
<1>3. Len(rest) \in Nat /\ PageSize \in Nat /\ PageSize # 0
  BY FeedBoundsAssumption
<1>4. PICK size \in Nat : size = (IF Len(rest) > PageSize THEN PageSize ELSE Len(rest))
  BY <1>3
<1>5. size <= Len(rest)
  BY <1>3, <1>4
<1> DEFINE rows == [i \in 1..size |-> [row |-> rest[i], open |-> rest[i] \in pending, for |-> q.ask]]
           next == NextCursor(rest, q.cursor)
<1>6. Page(q) = [at |-> "answered", next |-> next, rows |-> rows]
  BY <1>2, <1>4 DEF Page
<1>7. ASSUME NEW i \in 1..size
      PROVE  /\ rows[i] \in ShownRow
             /\ rows[i].for = q.ask
             /\ rows[i].open <=> rows[i].row \in pending
  <2>1. rest[i] \in FeedRows
    BY <1>3, <1>5
  <2>2. PICK r, a : r = rest[i] /\ a = q.ask
    OBVIOUS
  <2>3. rows[i] = [row |-> r, open |-> r \in pending, for |-> a]
    BY <2>2
  <2> HIDE DEF rows
  <2>4. PICK b \in BOOLEAN : b <=> r \in pending
    OBVIOUS
  <2>5. rows[i] = [row |-> r, open |-> b, for |-> a]
    BY <2>3, <2>4
  <2>6. r \in FeedRows /\ a \in Asks
    BY <1>1, <2>1, <2>2
  <2>7. rows[i] \in ShownRow
    BY <2>5, <2>6 DEF ShownRow
  <2>8. rows[i].row = r /\ rows[i].for = a
    BY <2>5
  <2>9. rows[i].open = b
    BY <2>5
  <2> QED
    BY <2>2, <2>4, <2>7, <2>8, <2>9, Zenon
<1>8. rows \in Seq(ShownRow) /\ Len(rows) = size
  BY <1>7
<1>9. next \in Nat
  <2>1. Len(rest) > PageSize => rest[PageSize] \in FeedRows
    BY <1>3
  <2>2. FeedRows \subseteq Nat /\ MaxOffset \in Nat
    BY FeedBoundsAssumption DEF FeedRows
  <2> QED
    BY <1>1, <1>3, <2>1, <2>2 DEF NextCursor, Nil
<1> HIDE DEF rows, next
<1>10. Page(q) \in Reply /\ Page(q).at = "answered" /\ Page(q).rows = rows
  BY <1>6, <1>8, <1>9 DEF Reply
<1> QED
  BY <1>7, <1>8, <1>10 DEF Exact

\* Outside the search a page is a stretch of its list: from the top, or from
\* under the cursor.
LEMMA RestIsListed ==
  ASSUME FeedTypeOK, ListInv, screen # "search", NEW a, NEW cursor \in Nat
  PROVE  Rest(a, cursor) \in Seq(1..Len(listing))
<1> DEFINE S == 1..Len(listing)
<1>1. listing \in Seq(S)
  <2>1. PICK n \in Nat : n = Len(listing) /\ DOMAIN listing = 1..n /\ listing \in Seq(FeedRows)
    BY LenProperties DEF FeedTypeOK
  <2>2. \A i \in 1..n : listing[i] = n + 1 - i
    BY <2>1 DEF ListInv
  <2>3. \A i \in 1..n : listing[i] \in 1..n
    BY <2>2
  <2> QED
    BY <2>1, <2>3
<1> HIDE DEF S
<1>2. PICK s \in Seq(S) : s = Fitting(a)
  BY <1>1, ThoseAreRows DEF Fitting
<1> DEFINE older == {listing[i] : i \in Place(cursor)..Len(listing)}
           from == IF cursor = Nil THEN s ELSE Those(s, older)
<1>3. from \in Seq(S)
  BY ThoseAreRows
<1> HIDE DEF from
<1>4. from # <<>> => Tail(from) \in Seq(S)
  BY <1>3, HeadTailProperties
<1>5. AfterCursor(a, cursor) = IF cursor = Nil \/ from = <<>> THEN from ELSE Tail(from)
  BY <1>2 DEF AfterCursor, from
<1> QED
  BY <1>3, <1>4, <1>5 DEF Rest, S

LEMMA PageIsListed ==
  ASSUME FeedTypeOK, ListInv, screen # "search", NEW q \in FeedRequest
  PROVE  /\ Page(q).next <= Len(listing)
         /\ \A i \in 1..Len(Page(q).rows) : Page(q).rows[i].row <= Len(listing)
<1>1. q.ask \in Asks /\ q.cursor \in Nat /\ Len(listing) \in Nat
  BY DEF FeedRequest, FeedTypeOK
<1>2. PICK rest \in Seq(1..Len(listing)) : rest = Rest(q.ask, q.cursor)
  BY <1>1, RestIsListed
<1>3. Len(rest) \in Nat /\ PageSize \in Nat /\ PageSize # 0
  BY FeedBoundsAssumption
<1>4. PICK size \in Nat : size = (IF Len(rest) > PageSize THEN PageSize ELSE Len(rest))
  BY <1>3
<1>5. size <= Len(rest)
  BY <1>3, <1>4
<1> DEFINE rows == [i \in 1..size |-> [row |-> rest[i], open |-> rest[i] \in pending, for |-> q.ask]]
           next == NextCursor(rest, q.cursor)
<1>6. Page(q).rows = rows /\ Page(q).next = next
  BY <1>2, <1>4 DEF Page
<1>7. Len(rows) = size /\ \A i \in 1..size : rows[i].row = rest[i]
  OBVIOUS
<1>8. \A i \in 1..size : rest[i] <= Len(listing)
  BY <1>1, <1>3, <1>5
<1>9. next <= Len(listing)
  <2>1. CASE Len(rest) <= PageSize
    BY <1>1, <1>3, <2>1 DEF NextCursor, Nil
  <2>2. CASE Len(rest) > PageSize
    <3>1. next = rest[PageSize] /\ PageSize \in 1..Len(rest)
      BY <1>3, <2>2 DEF NextCursor
    <3>2. rest[PageSize] \in 1..Len(listing)
      BY <3>1, ElementOfSeq
    <3> QED
      BY <1>1, <3>1, <3>2
  <2> QED
    BY <1>3, <2>1, <2>2
<1> HIDE DEF rows, next
<1> QED
  BY <1>6, <1>7, <1>8, <1>9

LEMMA PageIsPiece ==
  ASSUME FeedTypeOK, ListInv, screen # "search", NEW q \in FeedRequest,
         q.cursor # Nil => q.cursor \in Fit(q.ask)
  PROVE  Piece(Page(q).rows, q.ask, Page(q).next,
               IF q.cursor = Nil THEN Len(listing) ELSE q.cursor - 1)
<1>1. q.ask \in Asks /\ q.cursor \in Nat
  BY DEF FeedRequest
<1>2. PICK rest \in Seq(Nat) :
        /\ rest = Rest(q.ask, q.cursor)
        /\ Descending(rest)
        /\ Values(rest) = {r \in Fit(q.ask) : q.cursor = Nil \/ r < q.cursor}
  BY <1>1, RestIsBelow
<1>3. Len(rest) \in Nat /\ PageSize \in Nat /\ PageSize # 0
  BY FeedBoundsAssumption
<1>4. PICK size \in Nat : size = (IF Len(rest) > PageSize THEN PageSize ELSE Len(rest))
  BY <1>3
<1>5. size <= Len(rest)
  BY <1>3, <1>4
<1> DEFINE rows == [i \in 1..size |-> [row |-> rest[i], open |-> rest[i] \in pending, for |-> q.ask]]
           next == NextCursor(rest, q.cursor)
           shown == [i \in 1..size |-> rest[i]]
           top == IF q.cursor = Nil THEN Len(listing) ELSE q.cursor - 1
<1>6. Page(q).rows = rows /\ Page(q).next = next
  BY <1>2, <1>4 DEF Page
<1>7. RowsOf(rows) = shown
  <2>1. Len(rows) = size
    OBVIOUS
  <2> QED
    BY <2>1 DEF RowsOf
<1>8. shown \in Seq(Nat) /\ Len(shown) = size /\ \A i \in 1..size : shown[i] = rest[i]
  <2>1. \A i \in 1..size : rest[i] \in Nat
    BY <1>3, <1>5
  <2> QED
    BY <2>1
<1>9. Len(listing) \in Nat
  BY DEF FeedTypeOK
<1>10. /\ top \in Nat
       /\ Values(rest) = {r \in Fit(q.ask) : r <= top}
       /\ Fit(q.ask) \subseteq Nat \ {0}
  BY <1>1, <1>2, <1>9 DEF Fit, Nil
<1> HIDE DEF rows, shown, top
<1>11. CASE Len(rest) <= PageSize
  <2>1. next = Nil /\ size = Len(rest)
    BY <1>3, <1>4, <1>11 DEF NextCursor
  <2>2. shown = rest
    BY <1>8, <2>1, SeqEqual
  <2>3. Values(rest) = {r \in Fit(q.ask) : next <= r /\ r <= top}
    BY <1>10, <2>1 DEF Nil
  <2>4. next <= top
    BY <1>10, <2>1 DEF Nil
  <2> QED
    BY <1>2, <1>6, <1>7, <2>1, <2>2, <2>3, <2>4 DEF Piece, PieceOf, top
<1>12. CASE Len(rest) > PageSize
  <2>1. next = rest[PageSize] /\ size = PageSize /\ size \in 1..Len(rest)
    BY <1>3, <1>4, <1>12 DEF NextCursor
  <2>2. Descending(shown) /\ Values(shown) = {r \in Values(rest) : next <= r}
    BY <1>2, <1>8, <2>1, FirstOnes
  <2>3. next \in Values(rest)
    BY <2>1 DEF Values
  <2>4. Values(shown) = {r \in Fit(q.ask) : next <= r /\ r <= top}
    BY <1>10, <2>2
  <2>5. next <= top /\ next \in Fit(q.ask)
    BY <1>10, <2>3
  <2> HIDE DEF next
  <2> QED
    BY <1>6, <1>7, <2>2, <2>4, <2>5 DEF Piece, PieceOf, top
<1> QED
  BY <1>3, <1>11, <1>12

-----------------------------------------------------------------------------
(* Answering, and what an answer does when it lands.                        *)

\* q has got its reply and is now p.
Replies(q, p) ==
  /\ q \in sent /\ q.reply.at = "asked"
  /\ p \in FeedRequest
  /\ p.kind = q.kind /\ p.ask = q.ask /\ p.cursor = q.cursor
  /\ p.turn = q.turn /\ p.row = q.row
  /\ sent' = (sent \ {q}) \cup {p}
  /\ UNCHANGED <<screen, listing, fits, feed, live, crossed>>
  /\ spent' \in [requests : 0..MaxRequests, changes : 0..MaxChanges, refusals : 0..MaxRefusals]
  /\ spent'.requests = spent.requests /\ spent'.changes = spent.changes

WithPage(q, p) == q.kind \in Pages /\ p.reply = Page(q) /\ UNCHANGED <<pending, told, missed>>

WithSettled(q, p) ==
  /\ q.kind \notin Pages /\ p.reply.at = "answered"
  /\ pending' = pending \ {q.row}
  /\ Tells
  /\ screen = "approvals"

WithFailure(p) == p.reply.at = "failed" /\ UNCHANGED <<pending, told, missed>>

LEMMA ReplyIsPut ==
  ASSUME FeedTypeOK, NEW q \in sent, NEW reply \in Reply
  PROVE  LET p == [q EXCEPT !.reply = reply]
         IN  /\ p \in FeedRequest
             /\ p.kind = q.kind /\ p.ask = q.ask /\ p.cursor = q.cursor
             /\ p.turn = q.turn /\ p.row = q.row /\ p.reply = reply
<1>1. q \in FeedRequest
  BY DEF FeedTypeOK
<1> QED
  BY <1>1 DEF FeedRequest

LEMMA ServeReplies ==
  ASSUME FeedTypeOK, ListInv, Serve
  PROVE  \E q, p : Replies(q, p) /\ (WithPage(q, p) \/ WithSettled(q, p) \/ WithFailure(p))
<1>1. PICK q \in sent : /\ q.reply.at = "asked"
                        /\ GivePage(q) \/ SettleIt(q) \/ RefuseIt(q) \/ FailIt(q)
  BY DEF Serve
<1>2. q \in FeedRequest /\ UNCHANGED <<feed, live, crossed>>
  BY DEF FeedTypeOK, Serve
<1>3. spent \in [requests : 0..MaxRequests, changes : 0..MaxChanges, refusals : 0..MaxRefusals]
  BY DEF FeedTypeOK
<1> DEFINE With(reply) == [q EXCEPT !.reply = reply]
           Same(reply) == /\ With(reply) \in FeedRequest
                          /\ With(reply).kind = q.kind /\ With(reply).ask = q.ask
                          /\ With(reply).cursor = q.cursor /\ With(reply).turn = q.turn
                          /\ With(reply).row = q.row /\ With(reply).reply = reply
<1>4. ASSUME NEW reply \in Reply PROVE Same(reply)
  BY ReplyIsPut
<1>5. /\ Page(q) \in Reply
      /\ [Unanswered EXCEPT !.at = "answered"] \in Reply
      /\ [Unanswered EXCEPT !.at = "answered"].at = "answered"
      /\ [Unanswered EXCEPT !.at = "failed"] \in Reply
      /\ [Unanswered EXCEPT !.at = "failed"].at = "failed"
  <2>1. Page(q) \in Reply
    BY <1>2, PageIsGiven
  <2>2. Unanswered \in Reply
    BY DEF Unanswered, Reply, Nil
  <2> QED
    BY <2>1, <2>2 DEF Reply
<1>6. CASE GivePage(q)
  <2>1. /\ sent' = (sent \ {q}) \cup {With(Page(q))}
        /\ UNCHANGED <<feedTables, told, missed, spent>> /\ q.kind \in Pages
    BY <1>6 DEF GivePage, Replied, Pages, Silent
  <2>2. Same(Page(q))
    BY <1>4, <1>5
  <2> HIDE DEF With
  <2> QED
    BY <1>1, <1>2, <1>3, <2>1, <2>2 DEF Replies, WithPage, feedTables
<1>7. CASE SettleIt(q)
  <2> DEFINE reply == [Unanswered EXCEPT !.at = "answered"]
  <2>1. /\ sent' = (sent \ {q}) \cup {With(reply)}
        /\ UNCHANGED <<screen, listing, fits, spent>> /\ q.kind \notin Pages
        /\ pending' = pending \ {q.row} /\ q.row \in pending
    BY <1>7 DEF SettleIt, Replied, Pages
  <2>2. Same(reply) /\ reply.at = "answered"
    BY <1>4, <1>5
  <2>3. screen = "approvals" /\ Tells
    BY <1>7, <2>1, PublishTells DEF ListInv, SettleIt
  <2> HIDE DEF With, reply
  <2> QED
    BY <1>1, <1>2, <1>3, <2>1, <2>2, <2>3 DEF Replies, WithSettled
<1>8. CASE RefuseIt(q) \/ FailIt(q)
  <2> DEFINE reply == [Unanswered EXCEPT !.at = "failed"]
  <2>1. /\ sent' = (sent \ {q}) \cup {With(reply)}
        /\ UNCHANGED <<feedTables, told, missed>>
    BY <1>8 DEF RefuseIt, FailIt, Replied, Silent
  <2>2. Same(reply) /\ reply.at = "failed"
    BY <1>4, <1>5
  <2>3. /\ spent' \in [requests : 0..MaxRequests, changes : 0..MaxChanges, refusals : 0..MaxRefusals]
        /\ spent'.requests = spent.requests /\ spent'.changes = spent.changes
    BY <1>3, <1>8, FeedBoundsAssumption DEF RefuseIt, FailIt
  <2> HIDE DEF With, reply
  <2> QED
    BY <1>1, <1>2, <2>1, <2>2, <2>3 DEF Replies, WithFailure, feedTables
<1> QED
  BY <1>1, <1>6, <1>7, <1>8

Latest(q) == q.kind = "load" /\ q.turn = feed.turn

\* The answer that is waited for: the list is the new one, or there is an error.
LandsList(q) ==
  /\ Latest(q) /\ Answered(q)
  /\ feed'.shown = q.reply.rows /\ feed'.cursor = q.reply.next
  /\ feed'.load = "ready" /\ feed'.refetching = FALSE
  /\ feed'.resultsFor = q.ask /\ feed'.message = FALSE
  /\ feed'.ask = feed.ask /\ feed'.turn = feed.turn
  /\ feed'.loadingMore = feed.loadingMore /\ feed'.busy = feed.busy
  /\ feed'.deciding = feed.deciding
  /\ crossed' = FALSE

LandsError(q) ==
  /\ Latest(q)
  /\ feed'.load = "error" /\ feed'.refetching = FALSE
  /\ feed'.resultsFor = q.ask /\ feed'.message = TRUE
  /\ feed'.shown = feed.shown /\ feed'.cursor = feed.cursor
  /\ feed'.ask = feed.ask /\ feed'.turn = feed.turn
  /\ feed'.loadingMore = feed.loadingMore /\ feed'.busy = feed.busy
  /\ feed'.deciding = feed.deciding
  /\ crossed' = crossed

LandsLate(q) == q.kind = "load" /\ ~Latest(q) /\ feed' = feed /\ crossed' = crossed

LandsMore(q) ==
  /\ q.kind = "more" /\ Answered(q)
  /\ feed'.shown = feed.shown \o q.reply.rows /\ feed'.cursor = q.reply.next
  /\ feed'.loadingMore = FALSE
  /\ feed'.load = feed.load /\ feed'.refetching = feed.refetching
  /\ feed'.resultsFor = feed.resultsFor /\ feed'.message = feed.message
  /\ feed'.ask = feed.ask /\ feed'.turn = feed.turn /\ feed'.busy = feed.busy
  /\ feed'.deciding = feed.deciding
  /\ crossed' = (crossed \/ ~Continues(q))

LandsNoMore(q) ==
  /\ q.kind = "more"
  /\ screen = "search" => feed'.message = TRUE /\ feed'.resultsFor = q.ask
                          /\ feed'.loadingMore = feed.loadingMore
  /\ screen # "search" => feed'.message = feed.message /\ feed'.resultsFor = feed.resultsFor
                          /\ feed'.loadingMore = FALSE
  /\ feed'.shown = feed.shown /\ feed'.cursor = feed.cursor
  /\ feed'.load = feed.load /\ feed'.refetching = feed.refetching
  /\ feed'.ask = feed.ask /\ feed'.turn = feed.turn /\ feed'.busy = feed.busy
  /\ feed'.deciding = feed.deciding
  /\ crossed' = (crossed \/ ~Continues(q))

\* Patched where it was settled.
LandsAct(q) ==
  /\ q.kind \notin Pages
  /\ feed'.busy = (feed.busy /\ q.kind # "decide")
  /\ feed'.deciding \in {feed.deciding, Nil}
  /\ \/ feed'.shown = feed.shown
     \/ /\ Answered(q)
        /\ feed'.shown = [i \in 1..Len(feed.shown) |->
                            [feed.shown[i] EXCEPT !.open = @ /\ feed.shown[i].row # q.row]]
  /\ feed'.cursor = feed.cursor /\ feed'.loadingMore = feed.loadingMore
  /\ feed'.load = feed.load /\ feed'.refetching = feed.refetching
  /\ feed'.resultsFor = feed.resultsFor /\ feed'.message = feed.message
  /\ feed'.ask = feed.ask /\ feed'.turn = feed.turn
  /\ crossed' = crossed

Lands(q) == LandsList(q) \/ LandsError(q) \/ LandsLate(q) \/ LandsMore(q) \/ LandsNoMore(q) \/ LandsAct(q)

LEMMA LandLands ==
  ASSUME FeedTypeOK, NEW q \in sent, Land(q)
  PROVE  /\ Lands(q) /\ feed' \in Feed /\ crossed' \in BOOLEAN
         /\ sent' = sent \ {q}
         /\ UNCHANGED <<feedTables, live, told, spent, missed>>
<1>1. /\ q \in FeedRequest /\ feed \in Feed /\ feed.shown \in Seq(ShownRow) /\ crossed \in BOOLEAN
  BY DEF FeedTypeOK, Feed
<1>2. /\ q.kind \in {"load", "more", "decide", "withdraw"}
      /\ q.ask \in Asks /\ q.reply \in Reply
  BY <1>1 DEF FeedRequest
<1>3. /\ q.reply.at \in {"answered", "failed"}
      /\ q.reply.rows \in Seq(ShownRow) /\ q.reply.next \in Nat
  BY <1>2 DEF Land, Reply
<1>4. sent' = sent \ {q} /\ UNCHANGED <<feedTables, live, told, spent, missed>>
  BY DEF Land
<1>5. CASE q.kind = "load"
  <2>1. CASE q.turn = feed.turn /\ q.reply.at = "answered"
    <3>1. feed' = [feed EXCEPT !.shown = q.reply.rows, !.cursor = q.reply.next, !.load = "ready",
                            !.refetching = FALSE, !.resultsFor = q.ask, !.message = FALSE]
      BY <1>5, <2>1 DEF Land, LatestAnswer, ShowLoad
    <3>2. crossed' = FALSE
      BY <1>1, <1>5, <2>1 DEF Land
    <3>3. feed' \in Feed
      BY <1>1, <1>2, <1>3, <3>1 DEF Feed
    <3>4. /\ feed'.shown = q.reply.rows /\ feed'.cursor = q.reply.next
          /\ feed'.load = "ready" /\ feed'.refetching = FALSE
          /\ feed'.resultsFor = q.ask /\ feed'.message = FALSE
          /\ feed'.ask = feed.ask /\ feed'.turn = feed.turn
          /\ feed'.loadingMore = feed.loadingMore /\ feed'.busy = feed.busy
          /\ feed'.deciding = feed.deciding
      BY <1>1, <3>1 DEF Feed
    <3> QED
      BY <1>4, <1>5, <2>1, <3>2, <3>3, <3>4 DEF Lands, LandsList, Latest, Answered
  <2>2. CASE q.turn = feed.turn /\ q.reply.at = "failed"
    <3>1. feed' = [feed EXCEPT !.load = "error", !.refetching = FALSE, !.resultsFor = q.ask,
                               !.message = TRUE]
      BY <1>5, <2>2 DEF Land, LatestAnswer, ShowLoad, FailedFor
    <3>2. crossed' = crossed
      BY <1>1, <1>5, <2>2 DEF Land
    <3>3. feed' \in Feed
      BY <1>1, <1>2, <3>1 DEF Feed
    <3>4. /\ feed'.load = "error" /\ feed'.refetching = FALSE
          /\ feed'.resultsFor = q.ask /\ feed'.message = TRUE
          /\ feed'.shown = feed.shown /\ feed'.cursor = feed.cursor
          /\ feed'.ask = feed.ask /\ feed'.turn = feed.turn
          /\ feed'.loadingMore = feed.loadingMore /\ feed'.busy = feed.busy
          /\ feed'.deciding = feed.deciding
      BY <1>1, <3>1 DEF Feed
    <3> QED
      BY <1>1, <1>4, <1>5, <2>2, <3>2, <3>3, <3>4 DEF Lands, LandsError, Latest
  <2>3. CASE q.turn # feed.turn
    <3>1. feed' = feed
      BY <1>5, <2>3 DEF Land, LatestAnswer
    <3>2. crossed' = crossed
      BY <1>1, <1>5, <2>3 DEF Land
    <3> QED
      BY <1>1, <1>4, <1>5, <2>3, <3>1, <3>2 DEF Lands, LandsLate, Latest
  <2> QED
    BY <1>3, <2>1, <2>2, <2>3
<1>6. CASE q.kind = "more"
  <2>0. ShowMore(q)
    BY <1>6 DEF Land
  <2>1. crossed' = (crossed \/ ~Continues(q)) /\ crossed' \in BOOLEAN
    BY <1>1, <1>6 DEF Land
  <2>2. CASE q.reply.at = "answered"
    <3>1. feed' = [feed EXCEPT !.shown = feed.shown \o q.reply.rows, !.cursor = q.reply.next,
                               !.loadingMore = FALSE]
      BY <2>0, <2>2 DEF ShowMore
    <3>2. feed.shown \o q.reply.rows \in Seq(ShownRow)
      BY <1>1, <1>3
    <3>3. feed' \in Feed
      BY <1>1, <1>3, <3>1, <3>2 DEF Feed
    <3>4. /\ feed'.shown = feed.shown \o q.reply.rows /\ feed'.cursor = q.reply.next
          /\ feed'.loadingMore = FALSE
          /\ feed'.load = feed.load /\ feed'.refetching = feed.refetching
          /\ feed'.resultsFor = feed.resultsFor /\ feed'.message = feed.message
          /\ feed'.ask = feed.ask /\ feed'.turn = feed.turn /\ feed'.busy = feed.busy
          /\ feed'.deciding = feed.deciding
      BY <1>1, <3>1 DEF Feed
    <3> QED
      BY <1>4, <1>6, <2>1, <2>2, <3>3, <3>4 DEF Lands, LandsMore, Answered
  <2>3. CASE q.reply.at = "failed" /\ screen = "search"
    <3>1. feed' = [feed EXCEPT !.message = TRUE, !.resultsFor = q.ask]
      BY <2>0, <2>3 DEF ShowMore
    <3>2. feed' \in Feed
      BY <1>1, <1>2, <3>1 DEF Feed
    <3>3. /\ feed'.message = TRUE /\ feed'.resultsFor = q.ask
          /\ feed'.loadingMore = feed.loadingMore
          /\ feed'.shown = feed.shown /\ feed'.cursor = feed.cursor
          /\ feed'.load = feed.load /\ feed'.refetching = feed.refetching
          /\ feed'.ask = feed.ask /\ feed'.turn = feed.turn /\ feed'.busy = feed.busy
          /\ feed'.deciding = feed.deciding
      BY <1>1, <3>1 DEF Feed
    <3> QED
      BY <1>4, <1>6, <2>1, <2>3, <3>2, <3>3 DEF Lands, LandsNoMore
  <2>4. CASE q.reply.at = "failed" /\ screen # "search"
    <3>1. feed' = [feed EXCEPT !.loadingMore = FALSE]
      BY <2>0, <2>4 DEF ShowMore
    <3>2. feed' \in Feed
      BY <1>1, <3>1 DEF Feed
    <3>3. /\ feed'.message = feed.message /\ feed'.resultsFor = feed.resultsFor
          /\ feed'.loadingMore = FALSE
          /\ feed'.shown = feed.shown /\ feed'.cursor = feed.cursor
          /\ feed'.load = feed.load /\ feed'.refetching = feed.refetching
          /\ feed'.ask = feed.ask /\ feed'.turn = feed.turn /\ feed'.busy = feed.busy
          /\ feed'.deciding = feed.deciding
      BY <1>1, <3>1 DEF Feed
    <3> QED
      BY <1>4, <1>6, <2>1, <2>4, <3>2, <3>3 DEF Lands, LandsNoMore
  <2> QED
    BY <1>3, <2>2, <2>3, <2>4
<1>7. CASE q.kind \notin Pages
  <2>0. ShowSettled(q) /\ crossed' = crossed
    BY <1>7 DEF Land, Pages
  <2> DEFINE patched == [i \in 1..Len(feed.shown) |->
                           [feed.shown[i] EXCEPT !.open = @ /\ feed.shown[i].row # q.row]]
             ready == [feed EXCEPT !.busy = @ /\ q.kind # "decide"]
  <2>1. /\ ready \in Feed
        /\ ready.busy = (feed.busy /\ q.kind # "decide")
        /\ ready.shown = feed.shown /\ ready.deciding = feed.deciding
        /\ ready.cursor = feed.cursor /\ ready.loadingMore = feed.loadingMore
        /\ ready.load = feed.load /\ ready.refetching = feed.refetching
        /\ ready.resultsFor = feed.resultsFor /\ ready.message = feed.message
        /\ ready.ask = feed.ask /\ ready.turn = feed.turn
    BY <1>1 DEF Feed
  <2>2. CASE q.reply.at = "failed"
    <3>1. feed' = ready
      BY <2>0, <2>2 DEF ShowSettled
    <3> HIDE DEF ready
    <3> QED
      BY <1>1, <1>4, <1>7, <2>0, <2>1, <3>1 DEF Lands, LandsAct
  <2>3. CASE q.reply.at = "answered"
    <3>1. DOMAIN ready.shown = 1..Len(feed.shown)
      BY <1>1, <2>1
    <3>2. PICK open \in {feed.deciding, Nil} :
            feed' = [ready EXCEPT !.shown = patched, !.deciding = open]
      BY <1>1, <2>0, <2>1, <2>3, <3>1 DEF ShowSettled
    <3>3. patched \in Seq(ShownRow)
      <4>1. \A i \in 1..Len(feed.shown) :
              [feed.shown[i] EXCEPT !.open = @ /\ feed.shown[i].row # q.row] \in ShownRow
        <5>1. SUFFICES ASSUME NEW i \in 1..Len(feed.shown), NEW x, x = feed.shown[i]
                       PROVE  [x EXCEPT !.open = @ /\ x.row # q.row] \in ShownRow
          BY Zenon
        <5>2. x \in ShownRow
          BY <1>1, <5>1
        <5>3. PICK b \in BOOLEAN : b <=> x.open /\ x.row # q.row
          OBVIOUS
        <5>4. [x EXCEPT !.open = @ /\ x.row # q.row] = [x EXCEPT !.open = b]
          BY <5>2, <5>3 DEF ShownRow
        <5>5. [x EXCEPT !.open = b] \in ShownRow
          BY <5>2 DEF ShownRow
        <5> QED
          BY <5>4, <5>5
      <4>2. Len(feed.shown) \in Nat
        BY <1>1
      <4> QED
        BY <4>1, <4>2, IsASeq
    <3> HIDE DEF patched, ready
    <3>4. feed' \in Feed
      BY <1>1, <2>1, <3>2, <3>3 DEF Feed
    <3>5. /\ feed'.busy = ready.busy /\ feed'.shown = patched /\ feed'.deciding = open
          /\ feed'.cursor = ready.cursor /\ feed'.loadingMore = ready.loadingMore
          /\ feed'.load = ready.load /\ feed'.refetching = ready.refetching
          /\ feed'.resultsFor = ready.resultsFor /\ feed'.message = ready.message
          /\ feed'.ask = ready.ask /\ feed'.turn = ready.turn
      BY <2>1, <3>2 DEF Feed
    <3> QED
      BY <1>1, <1>4, <1>7, <2>0, <2>1, <2>3, <3>4, <3>5 DEF Lands, LandsAct, Answered, patched
  <2> QED
    BY <1>3, <2>2, <2>3
<1> QED
  BY <1>2, <1>5, <1>6, <1>7 DEF Pages

-----------------------------------------------------------------------------
(* Every step is one of these.                                              *)

\* A row is added, or the rows and what they fit stay.
Grows ==
  /\ listing' \in Seq(FeedRows) /\ Len(listing') = Len(listing) + 1
  /\ screen # "search" => \A i \in 1..Len(listing') : listing'[i] = Len(listing') + 1 - i
  /\ Len(listing) + 1 \in FeedRows
  /\ pending' = IF screen = "approvals" THEN pending \cup {Len(listing) + 1} ELSE pending
  /\ IF screen = "approvals" THEN Tells ELSE UNCHANGED <<told, missed>>
  /\ UNCHANGED fits

Changes ==
  /\ UNCHANGED <<screen, feed, sent, live, crossed>>
  /\ spent' \in [requests : 0..MaxRequests, changes : 0..MaxChanges, refusals : 0..MaxRefusals]
  /\ spent'.requests = spent.requests /\ spent'.changes = spent.changes + 1

LEMMA ChangeCounts ==
  ASSUME FeedTypeOK, Change
  PROVE  Changes /\ spent.changes \in Nat /\ spent.changes + 1 <= MaxChanges
<1>1. spent \in [requests : 0..MaxRequests, changes : 0..MaxChanges, refusals : 0..MaxRefusals]
  BY DEF FeedTypeOK
<1>2. MaxChanges \in Nat
  BY FeedBoundsAssumption
<1>3. /\ spent.changes < MaxChanges /\ spent' = [spent EXCEPT !.changes = @ + 1]
      /\ UNCHANGED <<screen, feed, sent, live, crossed>>
  BY DEF Change
<1>4. spent.changes \in 0..MaxChanges /\ spent.changes + 1 \in 0..MaxChanges
  BY <1>1, <1>2, <1>3
<1>5. /\ spent' \in [requests : 0..MaxRequests, changes : 0..MaxChanges, refusals : 0..MaxRefusals]
      /\ spent'.requests = spent.requests /\ spent'.changes = spent.changes + 1
  BY <1>1, <1>3, <1>4
<1> QED
  BY <1>2, <1>3, <1>4, <1>5 DEF Changes

LEMMA AppearGrows ==
  ASSUME FeedTypeOK, ListInv, Appear
  PROVE  Changes /\ Grows
<1>1. PICK n \in Nat : n = Len(listing)
  BY DEF FeedTypeOK
<1>2. PICK place \in 0..n :
        /\ Change
        /\ screen # "search" => place = 0
        /\ listing' = SubSeq(listing, 1, place) \o <<n + 1>> \o SubSeq(listing, place + 1, n)
        /\ pending' = IF screen = "approvals" THEN pending \cup {n + 1} ELSE pending
        /\ IF screen = "approvals" THEN Tells ELSE UNCHANGED <<told, missed>>
        /\ UNCHANGED fits
  BY <1>1, PublishTells DEF Appear, Silent
<1>3. Changes /\ spent.changes \in Nat /\ spent.changes + 1 <= MaxChanges
  BY <1>2, ChangeCounts
<1>4. n + 1 \in FeedRows
  <2>1. PICK c \in Nat, first \in Nat, most \in Nat :
          c = spent.changes /\ first = FirstRows /\ most = MaxChanges
    BY <1>3, FeedBoundsAssumption
  <2>2. n <= first + c /\ c + 1 <= most
    BY <1>1, <1>3, <2>1 DEF ListInv
  <2>3. n + 1 \in 1..(first + most)
    BY <2>2
  <2> QED
    BY <2>1, <2>3 DEF FeedRows
<1>5. listing \in Seq(FeedRows) /\ \A i \in 1..n : listing[i] \in FeedRows
  BY <1>1 DEF FeedTypeOK
<1> DEFINE above == SubSeq(listing, 1, place)
           below == SubSeq(listing, place + 1, n)
<1>6. /\ above \in Seq(FeedRows) /\ Len(above) = place
      /\ below \in Seq(FeedRows) /\ Len(below) = n - place
      /\ \A i \in 1..(n - place) : below[i] = listing[place + 1 + i - 1]
  <2>1. (\A i \in 1..place : listing[i] \in FeedRows) /\ 1 \in Int /\ place \in Int
    BY <1>5
  <2>2. (\A i \in (place + 1)..n : listing[i] \in FeedRows) /\ place + 1 \in Int /\ n \in Int
    BY <1>5
  <2>3. above \in Seq(FeedRows) /\ Len(above) = IF 1 <= place THEN place - 1 + 1 ELSE 0
    BY <2>1, SubSeqProperties
  <2>4. /\ below \in Seq(FeedRows)
        /\ Len(below) = IF place + 1 <= n THEN n - (place + 1) + 1 ELSE 0
        /\ \A i \in 1..(n - (place + 1) + 1) : below[i] = listing[place + 1 + i - 1]
    BY <2>2, SubSeqProperties
  <2>5. n - (place + 1) + 1 = n - place
    OBVIOUS
  <2> HIDE DEF above, below
  <2> QED
    BY <2>3, <2>4, <2>5
<1> HIDE DEF above, below
<1>7. listing' = above \o <<n + 1>> \o below
  BY <1>2 DEF above, below
<1>8. listing' \in Seq(FeedRows) /\ Len(listing') = n + 1
  <2>1. <<n + 1>> \in Seq(FeedRows) /\ Len(<<n + 1>>) = 1
    BY <1>4
  <2>2. above \o <<n + 1>> \in Seq(FeedRows) /\ Len(above \o <<n + 1>>) = place + 1
    BY <1>6, <2>1, ConcatProperties
  <2>3. PICK s \in Seq(FeedRows) : s = above \o <<n + 1>> /\ Len(s) = place + 1
    BY <2>2
  <2>4. s \o below \in Seq(FeedRows) /\ Len(s \o below) = Len(s) + Len(below)
    BY <1>6, ConcatProperties
  <2>5. place + 1 + (n - place) = n + 1
    OBVIOUS
  <2> QED
    BY <1>6, <1>7, <2>3, <2>4, <2>5
<1>9. ASSUME screen # "search", NEW i \in 1..(n + 1) PROVE listing'[i] = n + 1 + 1 - i
  <2>1. place = 0
    BY <1>2, <1>9
  <2>2. above = <<>>
    BY <1>6, <2>1, EmptySeq
  <2>3. <<n + 1>> \in Seq(FeedRows) /\ Len(<<n + 1>>) = 1 /\ <<n + 1>>[1] = n + 1
    BY <1>4
  <2>4. above \o <<n + 1>> = <<n + 1>>
    BY <2>2, <2>3, ConcatEmptySeq
  <2>5. listing' = <<n + 1>> \o below
    BY <1>7, <2>4
  <2>6. \A j \in 1..(1 + n) : (<<n + 1>> \o below)[j] = IF j <= 1 THEN <<n + 1>>[j] ELSE below[j - 1]
    BY <1>6, <2>1, <2>3, ConcatProperties
  <2>7. CASE i = 1
    <3>1. listing'[i] = n + 1
      BY <1>9, <2>3, <2>5, <2>6, <2>7
    <3> QED
      BY <2>7, <3>1
  <2>8. CASE i # 1
    <3>1. PICK k \in 1..n : k = i - 1 /\ ~(i <= 1) /\ i \in 1..(1 + n)
      BY <1>9, <2>8
    <3>2. listing'[i] = below[k]
      BY <2>5, <2>6, <3>1, Zenon
    <3>3. below[k] = listing[k]
      <4>1. n - place = n /\ place + 1 + k - 1 = k
        BY <2>1
      <4> QED
        BY <1>6, <4>1
    <3>4. listing[k] = n + 1 - k
      BY <1>1, <1>9 DEF ListInv
    <3> QED
      BY <3>1, <3>2, <3>3, <3>4
  <2> QED
    BY <2>7, <2>8
<1> QED
  BY <1>1, <1>2, <1>3, <1>4, <1>8, <1>9 DEF Grows

LEMMA StepsAre ==
  ASSUME FeedTypeOK, AskInv, ListInv, FeedNext
  PROVE  \/ \E q : AsksAnew(q)
         \/ \E q : Sends(q)
         \/ ClearTerm \/ Turns
         \/ \E q, p : Replies(q, p) /\ (WithPage(q, p) \/ WithSettled(q, p) \/ WithFailure(p))
         \/ Changes /\ Grows
         \/ SettledByOther
         \/ Rematch
         \/ \E q \in sent : Land(q)
<1>1. CASE \E a \in Asks : Narrow(a)
  BY <1>1, NarrowAsks
<1>2. CASE RetryLoad
  BY <1>2, RetryAsks
<1>3. CASE LoadMore
  BY <1>3, MoreSends
<1>4. CASE SubmitDecision \/ \E i \in DOMAIN feed.shown : Withdraw(i)
  BY <1>4, WithdrawSends, DecisionSends
<1>5. CASE HearChange
  BY <1>5, HearAsks
<1>6. CASE Serve
  BY <1>6, ServeReplies
<1>7. CASE Appear
  BY <1>7, AppearGrows
<1>8. CASE CloseDecision \/ \E i \in DOMAIN feed.shown : OpenDecision(i)
  BY <1>8, DialogTurns
<1>9. CASE OpenStream \/ LoseStream
  BY <1>9, StreamTurns
<1> QED
  BY <1>1, <1>2, <1>3, <1>4, <1>5, <1>6, <1>7, <1>8, <1>9 DEF FeedNext

-----------------------------------------------------------------------------
(* The invariant holds at first, and every step keeps it.                   *)

LEMMA FeedStart == FeedInit => FInv
<1> SUFFICES ASSUME FeedInit PROVE FInv
  OBVIOUS
<1>1. /\ FirstRows \in Nat /\ MaxRequests \in Nat \ {0} /\ MaxChanges \in Nat /\ MaxRefusals \in Nat
  BY FeedBoundsAssumption
<1>2. PICK a \in Asks, ask \in Asks \cup {Blank}, begun \in {0, 1} :
        /\ screen = "search" => ask = Blank /\ begun = 0
        /\ screen # "search" => ask = a /\ begun = 1
        /\ feed = [ask |-> ask, turn |-> begun, shown |-> <<>>, cursor |-> Nil,
                   load |-> "loading", resultsFor |-> Blank, message |-> FALSE, deciding |-> Nil,
                   refetching |-> FALSE, loadingMore |-> FALSE, busy |-> FALSE]
        /\ sent = IF screen = "search" THEN {}
                  ELSE {[id |-> 1, kind |-> "load", ask |-> a, cursor |-> Nil, turn |-> 1,
                         row |-> Nil, reply |-> Unanswered]}
        /\ spent = [requests |-> begun, changes |-> 0, refusals |-> 0]
  BY DEF FeedInit
<1>3. /\ screen \in Screens /\ live \in BOOLEAN /\ told = 0 /\ missed = FALSE /\ crossed = FALSE
      /\ pending = IF screen = "approvals" THEN 1..FirstRows ELSE {}
      /\ listing = [i \in 1..FirstRows |-> FirstRows + 1 - i]
      /\ fits \in [FeedRows -> SUBSET Asks]
  BY DEF FeedInit
<1>4. Unanswered \in Reply /\ Unanswered.at = "asked"
  BY DEF Unanswered, Reply, Nil
<1>5. PICK q \in FeedRequest :
        /\ sent = IF screen = "search" THEN {} ELSE {q}
        /\ q.kind = "load" /\ q.ask = a /\ q.cursor = Nil /\ q.turn = 1 /\ q.row = Nil
        /\ q.reply = Unanswered
  <2> DEFINE q == [id |-> 1, kind |-> "load", ask |-> a, cursor |-> Nil, turn |-> 1,
                   row |-> Nil, reply |-> Unanswered]
  <2>1. q \in FeedRequest
    BY <1>4 DEF FeedRequest, Nil
  <2>2. /\ q.kind = "load" /\ q.ask = a /\ q.cursor = Nil /\ q.turn = 1 /\ q.row = Nil
        /\ q.reply = Unanswered
    OBVIOUS
  <2>3. sent = IF screen = "search" THEN {} ELSE {q}
    BY <1>2
  <2> HIDE DEF q
  <2> QED
    BY <2>1, <2>2, <2>3
<1>6. /\ feed \in Feed /\ feed.ask = ask /\ feed.turn = begun /\ feed.shown = <<>> /\ feed.cursor = Nil
      /\ feed.load = "loading" /\ feed.resultsFor = Blank /\ feed.refetching = FALSE
      /\ feed.loadingMore = FALSE /\ feed.busy = FALSE /\ feed.deciding = Nil
  BY <1>2 DEF Feed, Nil
<1>7. /\ listing \in Seq(FeedRows) /\ Len(listing) = FirstRows
      /\ \A i \in 1..FirstRows : listing[i] = FirstRows + 1 - i
  <2>1. \A i \in 1..FirstRows : FirstRows + 1 - i \in FeedRows
    BY <1>1 DEF FeedRows
  <2> QED
    BY <1>1, <1>3, <2>1
<1>8. FeedTypeOK
  <2>1. spent \in [requests : 0..MaxRequests, changes : 0..MaxChanges, refusals : 0..MaxRefusals]
    BY <1>1, <1>2
  <2>2. pending \subseteq FeedRows
    BY <1>1, <1>3 DEF FeedRows
  <2>3. sent \subseteq FeedRequest
    BY <1>5
  <2> QED
    BY <1>3, <1>6, <1>7, <2>1, <2>2, <2>3 DEF FeedTypeOK
<1>9. AskInv
  <2>1. spent.requests = begun
    BY <1>2
  <2> QED
    BY <1>2, <1>4, <1>5, <1>6, <2>1, ScreensAssumption DEF AskInv, Answered, Pages, Nil
<1>10. ListInv
  <2>1. spent.changes = 0
    BY <1>2
  <2> QED
    BY <1>1, <1>3, <1>6, <1>7, <2>1 DEF ListInv
<1>11. WaitInv /\ ShownIsAsked
  BY <1>2, <1>3, <1>6 DEF WaitInv, WaitsForSomething, ShownIsAsked, Says, SearchLoad
<1>12. ListedInv /\ PieceInv /\ CurrentInv
  <2>1. \A q1 \in sent : q1 = q /\ ~Answered(q1)
    BY <1>4, <1>5 DEF Answered
  <2>2. ~Settled
    BY <1>6 DEF Settled
  <2>3. Len(listing) \in Nat
    BY <1>7
  <2> QED
    BY <1>2, <1>5, <1>6, <2>1, <2>2, <2>3 DEF ListedInv, PieceInv, CurrentInv, Nil, Feed
<1> QED
  BY <1>8, <1>9, <1>10, <1>11, <1>12 DEF FInv

LEMMA AnewKeeps ==
  ASSUME FeedTypeOK, AskInv, ListInv, WaitInv, NEW q, AsksAnew(q)
  PROVE  FeedTypeOK' /\ AskInv' /\ ListInv' /\ WaitInv' /\ Expected'
<1>1. /\ feed \in Feed /\ sent \subseteq FeedRequest /\ told \in Nat
      /\ spent.requests \in 0..MaxRequests /\ spent.changes \in 0..MaxChanges
      /\ spent.refusals \in 0..MaxRefusals /\ MaxRequests \in Nat
  BY FeedBoundsAssumption DEF FeedTypeOK
<1>2. /\ spent' \in [requests : 0..MaxRequests, changes : 0..MaxChanges, refusals : 0..MaxRefusals]
      /\ spent'.requests = spent.requests + 1 /\ spent'.changes = spent.changes
  BY <1>1 DEF AsksAnew, Count, MaySend
<1>3. FeedTypeOK'
  BY <1>1, <1>2 DEF AsksAnew, FeedTypeOK, feedTables
<1>4. q.kind = "load" /\ q.ask \in Asks /\ q.reply.at = "asked"
  BY DEF AsksAnew, FeedRequest, Unanswered
<1>5. \A x \in sent : x.turn \in Nat /\ x.turn <= spent.requests /\ x.turn # q.turn
  <2>1. feed.turn \in Nat
    BY <1>1 DEF Feed
  <2>2. \A x \in sent : x.turn \in Nat
    BY <1>1 DEF FeedRequest
  <2> QED
    BY <1>1, <2>1, <2>2 DEF AskInv, AsksAnew
<1>6. AskInv'
  <2>1. screen' = screen /\ feed'.ask = q.ask /\ q.ask # Blank /\ feed'.turn = q.turn
    BY <1>4, ScreensAssumption DEF AsksAnew, feedTables
  <2>2. feed'.turn <= spent'.requests
    BY <1>1, <1>2 DEF AsksAnew
  <2>3. ASSUME NEW x \in sent'
        PROVE  /\ x.turn <= feed'.turn
               /\ x.kind \in Pages /\ x.turn = feed'.turn => x.ask = feed'.ask
               /\ x.kind = "load" => x.cursor = Nil
               /\ x.kind = "more" => x.cursor # Nil
               /\ x.kind \in Pages /\ Answered(x) =>
                    \A i \in 1..Len(x.reply.rows) : x.reply.rows[i].for = x.ask
    <3>1. CASE x = q
      BY <1>1, <1>4, <2>1, <3>1 DEF AsksAnew, Answered
    <3>2. CASE x \in sent
      BY <1>1, <1>5, <2>1, <3>2 DEF AskInv, AsksAnew
    <3> QED
      BY <3>1, <3>2 DEF AsksAnew
  <2> QED
    BY <2>1, <2>2, <2>3 DEF AskInv, Answered
<1>7. ListInv'
  BY <1>1, <1>2 DEF ListInv, AsksAnew, feedTables
<1>8. Expected'
  BY <1>4 DEF Expected, AsksAnew
<1>9. WaitInv'
  <2>1. feed'.loadingMore => \E x \in sent' : x.kind = "more"
    BY DEF AsksAnew, WaitInv, WaitsForSomething
  <2>2. feed'.busy => \E x \in sent' : x.kind = "decide"
    BY DEF AsksAnew, WaitInv, WaitsForSomething
  <2>3. feed'.loadingMore => screen' = "trail"
    BY DEF AsksAnew, WaitInv, feedTables
  <2> QED
    BY <1>8, <2>1, <2>2, <2>3 DEF WaitInv, WaitsForSomething
<1> QED
  BY <1>3, <1>6, <1>7, <1>8, <1>9

LEMMA SendsKeeps ==
  ASSUME FeedTypeOK, AskInv, ListInv, WaitInv, NEW q, Sends(q)
  PROVE  FeedTypeOK' /\ AskInv' /\ ListInv' /\ WaitInv' /\ (Expected' <=> Expected)
<1>1. /\ feed \in Feed /\ sent \subseteq FeedRequest /\ told \in Nat
      /\ spent.requests \in 0..MaxRequests /\ spent.changes \in 0..MaxChanges
      /\ spent.refusals \in 0..MaxRefusals /\ MaxRequests \in Nat
  BY FeedBoundsAssumption DEF FeedTypeOK
<1>2. /\ spent' \in [requests : 0..MaxRequests, changes : 0..MaxChanges, refusals : 0..MaxRefusals]
      /\ spent'.requests = spent.requests + 1 /\ spent'.changes = spent.changes
  BY <1>1 DEF Sends, Count, MaySend
<1>3. FeedTypeOK'
  BY <1>1, <1>2 DEF Sends, SameList, FeedTypeOK, feedTables
<1>4. /\ q.reply.at = "asked" /\ q.kind # "load" /\ feed.turn \in Nat
      /\ feed'.ask = feed.ask /\ feed'.turn = feed.turn /\ screen' = screen
  BY <1>1 DEF Sends, SameList, Unanswered, Feed, feedTables
<1>5. Expected' <=> Expected
  BY <1>4 DEF Expected, Sends
<1>6. AskInv'
  <2>1. ASSUME NEW x \in sent'
        PROVE  /\ x.turn <= feed'.turn
               /\ x.kind \in Pages /\ x.turn = feed'.turn => x.ask = feed'.ask \/ feed'.ask = Blank
               /\ x.kind = "load" => x.cursor = Nil
               /\ x.kind = "more" => x.cursor # Nil
               /\ x.kind \in Pages /\ Answered(x) =>
                    \A i \in 1..Len(x.reply.rows) : x.reply.rows[i].for = x.ask
    <3>1. CASE x = q
      BY <1>4, <3>1 DEF Sends, Answered
    <3>2. CASE x \in sent
      BY <1>4, <3>2 DEF AskInv
    <3> QED
      BY <3>1, <3>2 DEF Sends
  <2>2. feed'.turn <= spent'.requests
    BY <1>1, <1>2, <1>4 DEF AskInv
  <2> QED
    BY <1>4, <2>1, <2>2 DEF AskInv, Answered
<1>7. ListInv'
  BY <1>1, <1>2 DEF ListInv, Sends, feedTables
<1>8. WaitInv'
  <2>1. (screen = "search" /\ Says = "loading")' => Expected' \/ crossed'
    BY <1>4, <1>5 DEF Sends, SameList, WaitInv, WaitsForSomething, Says, SearchLoad
  <2>2. feed'.refetching => Expected'
    BY <1>5 DEF Sends, SameList, WaitInv, WaitsForSomething
  <2>3. feed'.loadingMore => \E x \in sent' : x.kind = "more"
    BY DEF Sends, WaitInv, WaitsForSomething
  <2>4. feed'.busy => \E x \in sent' : x.kind = "decide"
    BY DEF Sends, WaitInv, WaitsForSomething
  <2>5. feed'.loadingMore => screen' = "trail"
    BY <1>4 DEF Sends, WaitInv
  <2> QED
    BY <2>1, <2>2, <2>3, <2>4, <2>5 DEF WaitInv, WaitsForSomething
<1> QED
  BY <1>3, <1>5, <1>6, <1>7, <1>8

LEMMA ClearKeeps ==
  ASSUME FeedTypeOK, AskInv, ListInv, WaitInv, ClearTerm
  PROVE  FeedTypeOK' /\ AskInv' /\ ListInv' /\ WaitInv'
<1>1. feed \in Feed /\ feed' = [feed EXCEPT !.ask = Blank]
  BY DEF FeedTypeOK, ClearTerm
<1>2. /\ feed' \in Feed /\ feed'.ask = Blank /\ feed'.turn = feed.turn
      /\ feed'.refetching = feed.refetching /\ feed'.loadingMore = feed.loadingMore
      /\ feed'.busy = feed.busy /\ feed'.deciding = feed.deciding
  BY <1>1 DEF Feed
<1>3. /\ screen = "search"
      /\ UNCHANGED <<screen, listing, fits, pending, sent, live, told, spent, missed, crossed>>
  BY DEF ClearTerm, feedTables
<1>4. FeedTypeOK'
  BY <1>2, <1>3 DEF FeedTypeOK
<1>5. AskInv'
  BY <1>2, <1>3 DEF AskInv, Answered
<1>6. ListInv'
  BY <1>2, <1>3 DEF ListInv
<1>7. WaitInv'
  BY <1>2, <1>3 DEF WaitInv, WaitsForSomething, Says, SearchLoad, Expected
<1> QED
  BY <1>4, <1>5, <1>6, <1>7

LEMMA TurnsKeeps ==
  ASSUME FeedTypeOK, AskInv, ListInv, WaitInv, Turns
  PROVE  FeedTypeOK' /\ AskInv' /\ ListInv' /\ WaitInv' /\ (Expected' <=> Expected)
<1>1. /\ feed' \in Feed /\ feed'.ask = feed.ask /\ feed'.turn = feed.turn
      /\ feed'.load = feed.load /\ feed'.resultsFor = feed.resultsFor
      /\ feed'.message = feed.message /\ feed'.refetching = feed.refetching
      /\ feed'.loadingMore = feed.loadingMore /\ feed'.busy = feed.busy
      /\ UNCHANGED <<screen, listing, fits, pending, sent, spent, crossed>>
      /\ screen = "approvals" /\ live' \in BOOLEAN /\ told' \in Nat /\ missed' \in BOOLEAN
  BY DEF Turns, SameList, feedTables
<1>2. FeedTypeOK'
  BY <1>1 DEF FeedTypeOK
<1>3. AskInv'
  BY <1>1 DEF AskInv, Answered
<1>4. ListInv'
  BY <1>1 DEF ListInv
<1>5. Expected' <=> Expected
  BY <1>1 DEF Expected
<1>6. WaitInv'
  BY <1>1, <1>5 DEF WaitInv, WaitsForSomething, Says, SearchLoad
<1> QED
  BY <1>2, <1>3, <1>4, <1>5, <1>6

LEMMA RepliesKeeps ==
  ASSUME FeedTypeOK, AskInv, ListInv, WaitInv, NEW q, NEW p, Replies(q, p),
         WithPage(q, p) \/ WithSettled(q, p) \/ WithFailure(p)
  PROVE  FeedTypeOK' /\ AskInv' /\ ListInv' /\ WaitInv' /\ (Expected' <=> Expected)
<1>1. /\ q \in sent /\ q \in FeedRequest /\ p \in FeedRequest
      /\ p.kind = q.kind /\ p.ask = q.ask /\ p.cursor = q.cursor
      /\ p.turn = q.turn /\ p.row = q.row
      /\ sent' = (sent \ {q}) \cup {p}
      /\ UNCHANGED <<screen, listing, fits, feed, live, crossed>>
  BY DEF Replies, FeedTypeOK
<1>2. FeedTypeOK'
  <2>1. told' \in Nat /\ missed' \in BOOLEAN /\ pending' \subseteq FeedRows
    BY DEF FeedTypeOK, WithPage, WithSettled, WithFailure, Tells
  <2> QED
    BY <1>1, <2>1 DEF FeedTypeOK, Replies
<1>3. Expected' <=> Expected
  BY <1>1 DEF Expected
<1>4. p.kind \in Pages /\ Answered(p) => \A i \in 1..Len(p.reply.rows) : p.reply.rows[i].for = p.ask
  <2>1. CASE WithPage(q, p)
    BY <1>1, <2>1, PageIsGiven DEF WithPage
  <2>2. CASE WithSettled(q, p)
    BY <1>1, <2>2 DEF WithSettled
  <2>3. CASE WithFailure(p)
    BY <2>3 DEF WithFailure, Answered
  <2> QED
    BY <2>1, <2>2, <2>3
<1>5. AskInv'
  <2>1. ASSUME NEW x \in sent'
        PROVE  /\ x.turn <= feed.turn
               /\ x.kind \in Pages /\ x.turn = feed.turn => x.ask = feed.ask \/ feed.ask = Blank
               /\ x.kind = "load" => x.cursor = Nil
               /\ x.kind = "more" => x.cursor # Nil
               /\ x.kind \in Pages /\ Answered(x) =>
                    \A i \in 1..Len(x.reply.rows) : x.reply.rows[i].for = x.ask
    <3>1. CASE x = p
      BY <1>1, <1>4, <3>1 DEF AskInv
    <3>2. CASE x \in sent
      BY <3>2 DEF AskInv
    <3> QED
      BY <1>1, <3>1, <3>2
  <2>2. spent'.requests = spent.requests
    BY DEF Replies
  <2> QED
    BY <1>1, <2>1, <2>2 DEF AskInv, Answered
<1>6. ListInv'
  BY <1>1 DEF ListInv, Replies, WithPage, WithSettled, WithFailure
<1>7. WaitInv'
  <2>1. \A k : (\E x \in sent : x.kind = k) => \E x \in sent' : x.kind = k
    BY <1>1
  <2> QED
    BY <1>1, <1>3, <2>1 DEF WaitInv, WaitsForSomething, Says, SearchLoad
<1> QED
  BY <1>2, <1>3, <1>5, <1>6, <1>7

\* The tables change and the screen does not.
LEMMA TablesKeep ==
  ASSUME FeedTypeOK, AskInv, ListInv, WaitInv, (Changes /\ Grows) \/ SettledByOther \/ Rematch
  PROVE  /\ FeedTypeOK' /\ AskInv' /\ ListInv' /\ WaitInv'
         /\ UNCHANGED <<screen, feed, sent, live, crossed>>
<1>1. Changes /\ spent.changes \in Nat
  <2>1. CASE Changes /\ Grows
    BY <2>1, FeedBoundsAssumption DEF FeedTypeOK
  <2>2. CASE SettledByOther \/ Rematch
    BY <2>2, ChangeCounts DEF SettledByOther, Rematch
  <2> QED
    BY <2>1, <2>2
<1>2. UNCHANGED <<screen, feed, sent, live, crossed>> /\ spent'.requests = spent.requests
  BY <1>1 DEF Changes
<1>3. told \in Nat /\ missed \in BOOLEAN /\ pending \subseteq FeedRows /\ fits \in [FeedRows -> SUBSET Asks]
      /\ listing \in Seq(FeedRows) /\ Len(listing) \in Nat
  BY DEF FeedTypeOK
<1>4. Len(listing) <= FirstRows + spent'.changes
  <2>1. PICK n \in Nat, c \in Nat, first \in Nat :
          n = Len(listing) /\ c = spent.changes /\ first = FirstRows
    BY <1>1, <1>3, FeedBoundsAssumption
  <2>2. n <= first + c
    BY <2>1 DEF ListInv
  <2>3. spent'.changes = c + 1
    BY <1>1, <2>1 DEF Changes
  <2> QED
    BY <2>1, <2>2, <2>3
<1>5. /\ listing' \in Seq(FeedRows) /\ fits' \in [FeedRows -> SUBSET Asks]
      /\ pending' \subseteq FeedRows /\ told' \in Nat /\ missed' \in BOOLEAN
      /\ ListInv'
  <2>1. CASE Changes /\ Grows
    <3>1. /\ listing' \in Seq(FeedRows) /\ fits' \in [FeedRows -> SUBSET Asks]
          /\ pending' \subseteq FeedRows /\ told' \in Nat /\ missed' \in BOOLEAN
      BY <1>3, <2>1 DEF Grows, Tells
    <3>2. Len(listing') <= FirstRows + spent'.changes
      <4>1. PICK n \in Nat, c \in Nat, first \in Nat :
              n = Len(listing) /\ c = spent.changes /\ first = FirstRows
        BY <1>1, <1>3, FeedBoundsAssumption
      <4>2. n <= first + c
        BY <4>1 DEF ListInv
      <4>3. Len(listing') = n + 1 /\ spent'.changes = c + 1
        BY <2>1, <4>1 DEF Grows, Changes
      <4> QED
        BY <4>1, <4>2, <4>3
    <3>3. screen # "approvals" => pending' = {} /\ told' = 0
      BY <2>1 DEF Grows, ListInv
    <3> QED
      BY <1>2, <2>1, <3>1, <3>2, <3>3 DEF Grows, ListInv
  <2>2. CASE SettledByOther
    <3>1. /\ UNCHANGED <<listing, fits>> /\ pending' \subseteq pending
          /\ told' \in Nat /\ missed' \in BOOLEAN /\ screen = "approvals"
      BY <2>2, PublishTells DEF SettledByOther, ListInv, Tells
    <3>2. Len(listing') <= FirstRows + spent'.changes
      BY <1>4, <3>1
    <3> QED
      BY <1>2, <1>3, <3>1, <3>2 DEF ListInv
  <2>3. CASE Rematch
    <3>1. /\ UNCHANGED <<listing, pending, told, missed>> /\ fits' \in [FeedRows -> SUBSET Asks]
          /\ screen = "search"
      BY <1>3, <2>3 DEF Rematch, Silent
    <3>2. Len(listing') <= FirstRows + spent'.changes
      BY <1>4, <3>1
    <3> QED
      BY <1>2, <1>3, <3>1, <3>2 DEF ListInv
  <2> QED
    BY <2>1, <2>2, <2>3
<1>6. FeedTypeOK'
  BY <1>1, <1>2, <1>5 DEF FeedTypeOK, Changes
<1>7. AskInv'
  BY <1>2 DEF AskInv, Answered
<1>8. WaitInv'
  BY <1>2 DEF WaitInv, WaitsForSomething, Says, SearchLoad, Expected
<1> QED
  BY <1>2, <1>5, <1>6, <1>7, <1>8

LEMMA LandKeeps ==
  ASSUME FeedTypeOK, AskInv, ListInv, WaitInv, NEW q \in sent, Land(q)
  PROVE  /\ FeedTypeOK' /\ AskInv' /\ ListInv' /\ WaitInv'
         /\ Lands(q)
         /\ sent' = sent \ {q} /\ UNCHANGED <<feedTables, live, told, spent, missed>>
         /\ ~Latest(q) => (Expected' <=> Expected)
<1>1. /\ Lands(q) /\ feed' \in Feed /\ crossed' \in BOOLEAN
      /\ sent' = sent \ {q}
      /\ UNCHANGED <<feedTables, live, told, spent, missed>>
  BY LandLands
<1>2. /\ q \in FeedRequest /\ feed \in Feed
      /\ UNCHANGED <<screen, listing, fits, pending, live, told, spent, missed>>
  BY <1>1 DEF FeedTypeOK, feedTables
<1>3. feed'.ask = feed.ask /\ feed'.turn = feed.turn /\ feed'.deciding \in {feed.deciding, Nil}
  BY <1>1 DEF Lands, LandsList, LandsError, LandsLate, LandsMore, LandsNoMore, LandsAct
<1>4. FeedTypeOK'
  BY <1>1, <1>2 DEF FeedTypeOK
<1>5. AskInv'
  BY <1>1, <1>2, <1>3 DEF AskInv, Answered
<1>6. ListInv'
  BY <1>2, <1>3 DEF ListInv
<1>7. ~Latest(q) => (Expected' <=> Expected)
  BY <1>1, <1>3 DEF Latest, Expected
<1>8. \A k : k # q.kind => ((\E x \in sent : x.kind = k) => \E x \in sent' : x.kind = k)
  BY <1>1
<1>9. q.kind \in Pages /\ q.turn = feed.turn => q.ask = feed.ask \/ feed.ask = Blank
  BY DEF AskInv
<1>10. WaitInv'
  <2>1. CASE LandsList(q) \/ LandsError(q)
    <3>1. Latest(q) /\ q.kind = "load"
      BY <2>1 DEF LandsList, LandsError, Latest
    <3>2. /\ feed'.resultsFor = q.ask /\ feed'.refetching = FALSE
          /\ feed'.loadingMore = feed.loadingMore /\ feed'.busy = feed.busy
      BY <2>1 DEF LandsList, LandsError
    <3>3. ~((screen = "search" /\ Says = "loading")')
      BY <1>2, <1>3, <1>9, <3>1, <3>2 DEF Says, SearchLoad, Latest, Pages
    <3> QED
      BY <1>2, <1>8, <3>1, <3>2, <3>3 DEF WaitInv, WaitsForSomething
  <2>2. CASE LandsLate(q)
    <3>1. q.kind = "load" /\ ~Latest(q) /\ feed' = feed /\ crossed' = crossed
      BY <2>2 DEF LandsLate
    <3>2. Expected' <=> Expected
      BY <1>7, <3>1
    <3> QED
      BY <1>2, <1>8, <3>1, <3>2 DEF WaitInv, WaitsForSomething, Says, SearchLoad
  <2>3. CASE LandsMore(q)
    <3>1. /\ q.kind = "more" /\ ~Latest(q) /\ crossed' = (crossed \/ ~Continues(q))
          /\ feed'.loadingMore = FALSE /\ feed'.refetching = feed.refetching
          /\ feed'.resultsFor = feed.resultsFor /\ feed'.message = feed.message
          /\ feed'.busy = feed.busy
      BY <2>3 DEF LandsMore, Latest
    <3>2. Expected' <=> Expected
      BY <1>7, <3>1
    <3>3. (screen = "search" /\ Says = "loading")' => Expected' \/ crossed'
      BY <1>2, <1>3, <3>1, <3>2 DEF WaitInv, WaitsForSomething, Says, SearchLoad
    <3> QED
      BY <1>2, <1>8, <3>1, <3>2, <3>3 DEF WaitInv, WaitsForSomething
  <2>4. CASE LandsNoMore(q)
    <3>1. /\ q.kind = "more" /\ ~Latest(q) /\ crossed' = (crossed \/ ~Continues(q))
          /\ feed'.refetching = feed.refetching /\ feed'.busy = feed.busy
          /\ screen = "search" => feed'.resultsFor = q.ask /\ feed'.loadingMore = feed.loadingMore
          /\ screen # "search" => feed'.loadingMore = FALSE
      BY <2>4 DEF LandsNoMore, Latest
    <3>2. Expected' <=> Expected
      BY <1>7, <3>1
    <3>3. (screen = "search" /\ Says = "loading")' => Expected' \/ crossed'
      BY <1>2, <1>3, <1>9, <3>1, <3>2 DEF Says, SearchLoad, Continues, Pages
    <3>4. feed'.loadingMore = FALSE
      BY <1>2, <3>1 DEF WaitInv, Feed
    <3> QED
      BY <1>2, <1>8, <3>1, <3>2, <3>3, <3>4 DEF WaitInv, WaitsForSomething
  <2>5. CASE LandsAct(q)
    <3>1. /\ q.kind \notin Pages /\ ~Latest(q) /\ crossed' = crossed
          /\ feed'.busy = (feed.busy /\ q.kind # "decide")
          /\ feed'.loadingMore = feed.loadingMore /\ feed'.refetching = feed.refetching
          /\ feed'.resultsFor = feed.resultsFor /\ feed'.message = feed.message
          /\ feed'.load = feed.load
      BY <2>5 DEF LandsAct, Latest, Pages
    <3>2. Expected' <=> Expected
      BY <1>7, <3>1
    <3>3. (screen = "search" /\ Says = "loading")' => Expected' \/ crossed'
      BY <1>2, <1>3, <3>1, <3>2 DEF WaitInv, WaitsForSomething, Says, SearchLoad
    <3>4. feed'.loadingMore => \E x \in sent' : x.kind = "more"
      BY <1>8, <3>1 DEF WaitInv, WaitsForSomething, Pages
    <3>5. feed'.busy => \E x \in sent' : x.kind = "decide"
      BY <1>8, <3>1 DEF WaitInv, WaitsForSomething
    <3> QED
      BY <1>2, <3>1, <3>2, <3>3, <3>4, <3>5 DEF WaitInv, WaitsForSomething
  <2> QED
    BY <1>1, <2>1, <2>2, <2>3, <2>4, <2>5 DEF Lands
<1> QED
  BY <1>1, <1>4, <1>5, <1>6, <1>7, <1>10

LEMMA AskedKept ==
  ASSUME FeedTypeOK, AskInv, ListInv, WaitInv, ShownIsAsked, FeedNext
  PROVE  ShownIsAsked'
<1>1. CASE \E q : AsksAnew(q)
  <2>1. Expected'
    BY <1>1, AnewKeeps
  <2> QED
    BY <2>1 DEF ShownIsAsked
<1>2. CASE \E q : Sends(q)
  <2>1. PICK q : Sends(q)
    BY <1>2
  <2>2. Expected' <=> Expected
    BY <2>1, SendsKeeps
  <2>3. SameList /\ UNCHANGED <<screen, crossed>>
    BY <2>1 DEF Sends, feedTables
  <2> QED
    BY <2>2, <2>3 DEF ShownIsAsked, SameList, Says, SearchLoad
<1>7. CASE Turns
  <2>1. Expected' <=> Expected
    BY <1>7, TurnsKeeps
  <2>2. SameList /\ UNCHANGED <<screen, crossed>>
    BY <1>7 DEF Turns, feedTables
  <2> QED
    BY <2>1, <2>2 DEF ShownIsAsked, SameList, Says, SearchLoad
<1>3. CASE ClearTerm
  <2>1. feed'.ask = Blank /\ screen' = "search"
    BY <1>3 DEF ClearTerm, FeedTypeOK, Feed, feedTables
  <2> QED
    BY <2>1 DEF ShownIsAsked, Says, SearchLoad
<1>4. CASE \E q, p : Replies(q, p) /\ (WithPage(q, p) \/ WithSettled(q, p) \/ WithFailure(p))
  <2>1. PICK q, p : Replies(q, p) /\ (WithPage(q, p) \/ WithSettled(q, p) \/ WithFailure(p))
    BY <1>4
  <2>2. Expected' <=> Expected
    BY <2>1, RepliesKeeps
  <2>3. UNCHANGED <<screen, feed, crossed>>
    BY <2>1 DEF Replies
  <2> QED
    BY <2>2, <2>3 DEF ShownIsAsked, Says, SearchLoad
<1>5. CASE (Changes /\ Grows) \/ SettledByOther \/ Rematch
  <2>1. UNCHANGED <<screen, feed, sent, crossed>>
    BY <1>5, TablesKeep
  <2> QED
    BY <2>1 DEF ShownIsAsked, Says, SearchLoad, Expected
<1>6. CASE \E q \in sent : Land(q)
  <2>1. PICK q \in sent : Land(q)
    BY <1>6
  <2>2. /\ Lands(q) /\ UNCHANGED <<feedTables, live, told, spent, missed>>
        /\ ~Latest(q) => (Expected' <=> Expected)
    BY <2>1, LandKeeps
  <2>3. screen' = screen /\ feed.shown \in Seq(ShownRow) /\ q.reply.rows \in Seq(ShownRow)
    BY <2>2 DEF feedTables, FeedTypeOK, Feed, FeedRequest, Reply
  <2>4. q.kind \in Pages /\ q.turn = feed.turn => q.ask = feed.ask \/ feed.ask = Blank
    BY DEF AskInv
  <2>5. q.kind \in Pages /\ Answered(q) => \A i \in 1..Len(q.reply.rows) : q.reply.rows[i].for = q.ask
    BY DEF AskInv
  <2>6. CASE LandsList(q)
    <3>1. /\ Latest(q) /\ Answered(q) /\ feed'.shown = q.reply.rows
          /\ feed'.resultsFor = q.ask /\ feed'.ask = feed.ask
      BY <2>6 DEF LandsList
    <3>2. SUFFICES ASSUME Says' = "ready"
                   PROVE  \A i \in DOMAIN feed'.shown : feed'.shown[i].for = feed'.ask
      BY DEF ShownIsAsked
    <3>3. feed.ask # Blank
      <4>1. CASE screen = "search"
        BY <2>3, <3>1, <3>2, <4>1 DEF Says, SearchLoad
      <4>2. CASE screen # "search"
        BY <4>2 DEF AskInv
      <4> QED
        BY <4>1, <4>2
    <3>4. q.ask = feed.ask
      BY <2>4, <3>1, <3>3 DEF Latest, Pages
    <3>5. DOMAIN q.reply.rows = 1..Len(q.reply.rows)
      BY <2>3
    <3> QED
      BY <2>5, <3>1, <3>4, <3>5 DEF Latest, Pages
  <2>7. CASE LandsError(q)
    BY <2>3, <2>7 DEF LandsError, ShownIsAsked, Says, SearchLoad
  <2>8. CASE LandsLate(q)
    BY <2>2, <2>3, <2>8 DEF LandsLate, ShownIsAsked, Says, SearchLoad
  <2>9. CASE LandsMore(q)
    <3>1. /\ q.kind = "more" /\ Answered(q) /\ feed'.shown = feed.shown \o q.reply.rows
          /\ feed'.load = feed.load /\ feed'.resultsFor = feed.resultsFor
          /\ feed'.message = feed.message /\ feed'.ask = feed.ask
          /\ crossed' = (crossed \/ ~Continues(q))
      BY <2>9 DEF LandsMore
    <3>2. SUFFICES ASSUME Says' = "ready", ~Expected', ~crossed'
                   PROVE  \A i \in DOMAIN feed'.shown : feed'.shown[i].for = feed'.ask
      BY DEF ShownIsAsked
    <3>3. Says = "ready" /\ ~Expected /\ ~crossed /\ q.turn = feed.turn
      BY <2>2, <2>3, <3>1, <3>2 DEF Says, SearchLoad, Latest, Continues
    <3>4. feed.ask # Blank
      <4>1. CASE screen = "search"
        BY <3>3, <4>1 DEF Says, SearchLoad
      <4>2. CASE screen # "search"
        BY <4>2 DEF AskInv
      <4> QED
        BY <4>1, <4>2
    <3>5. q.ask = feed.ask
      BY <2>4, <3>1, <3>3, <3>4 DEF Pages
    <3>6. \A i \in 1..Len(feed.shown) : feed.shown[i].for = feed.ask
      BY <2>3, <3>3 DEF ShownIsAsked
    <3>7. \A i \in 1..Len(q.reply.rows) : q.reply.rows[i].for = feed.ask
      BY <2>5, <3>1, <3>5 DEF Pages
    <3>8. PICK s \in Seq(ShownRow), t \in Seq(ShownRow) : s = feed.shown /\ t = q.reply.rows
      BY <2>3
    <3>9. /\ s \o t \in Seq(ShownRow) /\ Len(s \o t) = Len(s) + Len(t)
          /\ \A i \in 1..(Len(s) + Len(t)) :
               (s \o t)[i] = IF i <= Len(s) THEN s[i] ELSE t[i - Len(s)]
      BY ConcatProperties
    <3>10. ASSUME NEW i \in 1..(Len(s) + Len(t)) PROVE (s \o t)[i].for = feed.ask
      <4>1. CASE i <= Len(s)
        <5>1. i \in 1..Len(s)
          BY <4>1
        <5>2. (s \o t)[i] = s[i]
          BY <3>9, <4>1
        <5> QED
          BY <3>6, <3>8, <5>1, <5>2
      <4>2. CASE ~(i <= Len(s))
        <5>1. PICK k \in 1..Len(t) : k = i - Len(s)
          BY <4>2
        <5>2. (s \o t)[i] = t[k]
          BY <3>9, <4>2, <5>1
        <5> QED
          BY <3>7, <3>8, <5>2
      <4> QED
        BY <4>1, <4>2
    <3>11. feed'.shown = s \o t /\ DOMAIN (s \o t) = 1..(Len(s) + Len(t))
      BY <3>1, <3>8, <3>9, LenProperties
    <3> QED
      BY <3>1, <3>10, <3>11
  <2>10. CASE LandsNoMore(q)
    <3>1. CASE screen = "search"
      BY <2>3, <2>10, <3>1 DEF LandsNoMore, ShownIsAsked, Says, SearchLoad
    <3>2. CASE screen # "search"
      BY <2>2, <2>3, <2>10, <3>2 DEF LandsNoMore, ShownIsAsked, Says, Latest
    <3> QED
      BY <3>1, <3>2
  <2>11. CASE LandsAct(q)
    <3>1. /\ ~Latest(q) /\ crossed' = crossed
          /\ feed'.load = feed.load /\ feed'.resultsFor = feed.resultsFor
          /\ feed'.message = feed.message /\ feed'.ask = feed.ask
      BY <2>11 DEF LandsAct, Latest, Pages
    <3>2. SUFFICES ASSUME Says' = "ready", ~Expected', ~crossed'
                   PROVE  \A i \in DOMAIN feed'.shown : feed'.shown[i].for = feed'.ask
      BY DEF ShownIsAsked
    <3>3. Says = "ready" /\ ~Expected /\ ~crossed
      BY <2>2, <2>3, <3>1, <3>2 DEF Says, SearchLoad
    <3>4. \A i \in 1..Len(feed.shown) : feed.shown[i].for = feed.ask
      BY <2>3, <3>3 DEF ShownIsAsked
    <3>5. CASE feed'.shown = feed.shown
      BY <2>3, <3>1, <3>4, <3>5
    <3>6. CASE feed'.shown = [i \in 1..Len(feed.shown) |->
                                [feed.shown[i] EXCEPT !.open = @ /\ feed.shown[i].row # q.row]]
      <4>1. \A i \in 1..Len(feed.shown) : feed.shown[i] \in ShownRow
        BY <2>3
      <4>2. ASSUME NEW i \in 1..Len(feed.shown) PROVE feed'.shown[i].for = feed.shown[i].for
        BY <3>6, <4>1 DEF ShownRow
      <4>3. DOMAIN feed'.shown = 1..Len(feed.shown)
        BY <3>6
      <4> QED
        BY <3>1, <3>4, <4>2, <4>3
    <3> QED
      BY <2>11, <3>5, <3>6 DEF LandsAct
  <2> QED
    BY <2>2, <2>6, <2>7, <2>8, <2>9, <2>10, <2>11 DEF Lands
<1> QED
  BY <1>1, <1>2, <1>3, <1>4, <1>5, <1>6, <1>7, StepsAre

-----------------------------------------------------------------------------
(* The lists stay stretches of the table.                                   *)

\* The same tables, and the lists are still those of the table.
LEMMA ListsAreCurrent ==
  ASSUME UNCHANGED <<listing, fits, pending>>, Informed' => Informed,
         \A x \in sent' : Answered(x) /\ x.kind \notin Pages => x.row \notin pending,
         Informed =>
           /\ \A x \in sent' : x.kind \in Pages /\ x.turn = feed'.turn /\ Answered(x) =>
                Exact(x.reply.rows)
           /\ \A x \in sent' : x.kind = "load" /\ x.turn = feed'.turn /\ Answered(x) =>
                Piece(x.reply.rows, x.ask, x.reply.next, Len(listing))
           /\ Settled' => /\ Exact(feed'.shown)
                          /\ Piece(feed'.shown, feed'.ask, feed'.cursor, Len(listing))
  PROVE  CurrentInv'
<1>1. ASSUME Informed, NEW x \in sent', x.kind \in Pages, x.turn = feed'.turn, Answered(x)
      PROVE  \A i \in 1..Len(x.reply.rows) :
               x.reply.rows[i].open <=> x.reply.rows[i].row \in pending'
  BY <1>1 DEF Exact
<1>2. ASSUME Informed, NEW x \in sent', x.kind = "load", x.turn = feed'.turn, Answered(x)
      PROVE  PieceOf(x.reply.rows, {r \in 1..Len(listing') : x.ask \in fits'[r]},
                     x.reply.next, Len(listing'))
  BY <1>2 DEF Piece, Fit
<1>3. Informed /\ Settled' =>
        /\ \A i \in 1..Len(feed'.shown) :
             feed'.shown[i].open <=> feed'.shown[i].row \in pending'
        /\ PieceOf(feed'.shown, {r \in 1..Len(listing') : feed'.ask \in fits'[r]},
                   feed'.cursor, Len(listing'))
  BY DEF Exact, Piece, Fit
<1>4. ASSUME Informed', NEW x \in sent', x.kind \in Pages, x.turn = feed'.turn, Answered(x)
      PROVE  Exact(x.reply.rows)'
  BY <1>1, <1>4 DEF Exact
<1>5. ASSUME Informed', NEW x \in sent', x.kind = "load", x.turn = feed'.turn, Answered(x)
      PROVE  Piece(x.reply.rows, x.ask, x.reply.next, Len(listing))'
  BY <1>2, <1>5 DEF Piece, Fit
<1>6. ASSUME Informed', Settled'
      PROVE  Exact(feed.shown)' /\ Piece(feed.shown, feed.ask, feed.cursor, Len(listing))'
  BY <1>3, <1>6 DEF Exact, Piece, Fit
<1>7. \A x \in sent' : Answered(x) /\ x.kind \notin Pages => x.row \notin pending'
  OBVIOUS
<1> QED
  BY <1>4, <1>5, <1>6, <1>7 DEF CurrentInv, Answered, Exact, Piece, Fit

LEMMA AnewKeepsLists ==
  ASSUME FeedTypeOK, AskInv, ListedInv, PieceInv, CurrentInv, NEW q, AsksAnew(q), Expected'
  PROVE  ListedInv' /\ PieceInv' /\ CurrentInv'
<1>1. /\ UNCHANGED <<screen, listing, fits, pending, crossed>> /\ sent' = sent \cup {q}
      /\ feed'.shown = feed.shown /\ feed'.cursor = feed.cursor /\ feed'.turn = q.turn
      /\ q.cursor = Nil /\ q.row = Nil /\ feed'.deciding = feed.deciding
  BY DEF AsksAnew, feedTables
<1>2. ~Answered(q)
  BY DEF AsksAnew, Answered, Unanswered
<1>3. ~Settled'
  BY DEF Settled
<1>4. Len(listing) \in Nat
  BY DEF FeedTypeOK
<1>5. \A x \in sent : x.turn # q.turn
  <2>1. feed.turn \in Nat /\ spent.requests \in Nat /\ \A x \in sent : x.turn \in Nat
    BY DEF FeedTypeOK, Feed, FeedRequest
  <2> QED
    BY <2>1 DEF AskInv, AsksAnew
<1>6. ListedInv'
  BY <1>1, <1>2, <1>4 DEF ListedInv, Answered, Nil
<1>7. PieceInv'
  BY <1>1, <1>2, <1>3 DEF PieceInv, Piece, Fit, Answered
<1>8. CurrentInv'
  BY <1>1, <1>2, <1>3, <1>5 DEF CurrentInv, Answered
<1> QED
  BY <1>6, <1>7, <1>8

LEMMA SendsKeepsLists ==
  ASSUME FeedTypeOK, ListedInv, PieceInv, CurrentInv, NEW q, Sends(q), Expected' <=> Expected
  PROVE  ListedInv' /\ PieceInv' /\ CurrentInv'
<1>1. /\ UNCHANGED <<screen, listing, fits, pending, told, missed, crossed>> /\ sent' = sent \cup {q}
      /\ feed'.shown = feed.shown /\ feed'.cursor = feed.cursor /\ feed'.turn = feed.turn
      /\ feed'.ask = feed.ask /\ feed'.load = feed.load
      /\ q.cursor \in {Nil, feed.cursor}
      /\ q.row \in {Nil, feed.deciding} \/ \E i \in 1..Len(feed.shown) : q.row = feed.shown[i].row
      /\ feed'.deciding = feed.deciding
  BY DEF Sends, SameList, feedTables
<1>2. ~Answered(q)
  BY DEF Sends, Answered, Unanswered
<1>3. Settled' <=> Settled
  BY <1>1 DEF Settled
<1>4. Len(listing) \in Nat
  BY DEF FeedTypeOK
<1>5. ListedInv'
  BY <1>1, <1>2, <1>4 DEF ListedInv, Answered, Nil
<1>6. PieceInv'
  BY <1>1, <1>2, <1>3 DEF PieceInv, Piece, Fit, Answered
<1>7. CurrentInv'
  <2>1. SUFFICES ASSUME screen = "approvals" PROVE CurrentInv'
    BY <1>1 DEF CurrentInv
  <2>2. \A x \in sent' : Answered(x) /\ x.kind \notin Pages => x.row \notin pending
    BY <1>1, <1>2, <2>1 DEF CurrentInv
  <2>3. Informed =>
          /\ \A x \in sent' : x.kind \in Pages /\ x.turn = feed'.turn /\ Answered(x) =>
               Exact(x.reply.rows)
          /\ \A x \in sent' : x.kind = "load" /\ x.turn = feed'.turn /\ Answered(x) =>
               Piece(x.reply.rows, x.ask, x.reply.next, Len(listing))
          /\ Settled' => /\ Exact(feed'.shown)
                         /\ Piece(feed'.shown, feed'.ask, feed'.cursor, Len(listing))
    BY <1>1, <1>2, <1>3, <2>1 DEF CurrentInv
  <2>4. Informed' => Informed
    BY <1>1 DEF Informed
  <2> QED
    BY <1>1, <2>2, <2>3, <2>4, ListsAreCurrent
<1> QED
  BY <1>5, <1>6, <1>7

LEMMA TurnsKeepsLists ==
  ASSUME FeedTypeOK, ListedInv, PieceInv, CurrentInv, Turns, Expected' <=> Expected
  PROVE  ListedInv' /\ PieceInv' /\ CurrentInv'
<1>1. /\ UNCHANGED <<screen, listing, fits, pending, sent, crossed>> /\ screen = "approvals"
      /\ feed'.shown = feed.shown /\ feed'.cursor = feed.cursor /\ feed'.turn = feed.turn
      /\ feed'.ask = feed.ask /\ feed'.load = feed.load
      /\ \/ feed'.deciding \in {Nil, feed.deciding}
         \/ \E i \in 1..Len(feed.shown) : feed'.deciding = feed.shown[i].row
      /\ Informed' => Informed
  BY DEF Turns, SameList, feedTables
<1>2. Settled' <=> Settled
  BY <1>1 DEF Settled
<1>3. Len(listing) \in Nat
  BY DEF FeedTypeOK
<1>4. ListedInv'
  BY <1>1, <1>3 DEF ListedInv, Answered, Nil
<1>5. PieceInv'
  BY <1>1, <1>2 DEF PieceInv, Piece, Fit, Answered
<1>6. CurrentInv'
  <2>1. \A x \in sent' : Answered(x) /\ x.kind \notin Pages => x.row \notin pending
    BY <1>1 DEF CurrentInv
  <2>2. Informed =>
          /\ \A x \in sent' : x.kind \in Pages /\ x.turn = feed'.turn /\ Answered(x) =>
               Exact(x.reply.rows)
          /\ \A x \in sent' : x.kind = "load" /\ x.turn = feed'.turn /\ Answered(x) =>
               Piece(x.reply.rows, x.ask, x.reply.next, Len(listing))
          /\ Settled' => /\ Exact(feed'.shown)
                         /\ Piece(feed'.shown, feed'.ask, feed'.cursor, Len(listing))
    BY <1>1, <1>2 DEF CurrentInv
  <2> QED
    BY <1>1, <2>1, <2>2, ListsAreCurrent
<1> QED
  BY <1>4, <1>5, <1>6

LEMMA RepliesKeepsLists ==
  ASSUME FeedTypeOK, AskInv, ListInv, ListedInv, PieceInv, CurrentInv, NEW q, NEW p,
         Replies(q, p), WithPage(q, p) \/ WithSettled(q, p) \/ WithFailure(p),
         Expected' <=> Expected
  PROVE  ListedInv' /\ PieceInv' /\ CurrentInv'
<1>1. /\ UNCHANGED <<screen, listing, fits, feed, crossed>> /\ q \in sent
      /\ sent' = (sent \ {q}) \cup {p}
      /\ p.kind = q.kind /\ p.ask = q.ask /\ p.cursor = q.cursor
      /\ p.turn = q.turn /\ p.row = q.row
  BY DEF Replies
<1>2. Settled' <=> Settled
  BY <1>1 DEF Settled
<1>3. q \in FeedRequest /\ Len(listing) \in Nat /\ told \in Nat
  BY <1>1 DEF FeedTypeOK
<1>4. q.kind \in Pages \/ ~Answered(p) \/ WithSettled(q, p)
  BY DEF WithPage, WithFailure, Answered
<1>5. WithSettled(q, p) \/ UNCHANGED <<pending, told, missed>>
  BY DEF WithPage, WithFailure
<1>6. WithSettled(q, p) => /\ q.kind \notin Pages /\ pending' = pending \ {q.row}
                           /\ ~Informed' /\ screen = "approvals"
  BY DEF WithSettled, Tells
<1>7. q.kind \in Pages /\ Answered(p) => p.reply = Page(q) /\ UNCHANGED <<pending, told, missed>>
  BY DEF WithPage, WithSettled, WithFailure, Answered
<1>8. ListedInv'
  <2>1. SUFFICES ASSUME screen # "search" PROVE ListedInv'
    BY <1>1 DEF ListedInv
  <2>2. q.kind \in Pages /\ Answered(p) =>
          /\ p.reply.next <= Len(listing)
          /\ \A i \in 1..Len(p.reply.rows) : p.reply.rows[i].row <= Len(listing)
    BY <1>3, <1>7, <2>1, PageIsListed
  <2> QED
    BY <1>1, <2>1, <2>2 DEF ListedInv, Answered
<1>9. ASSUME screen # "search", q.kind \in Pages, Answered(p),
             q.cursor # Nil => q.cursor \in Fit(q.ask)
      PROVE  Piece(p.reply.rows, p.ask, p.reply.next,
                   IF q.cursor = Nil THEN Len(listing) ELSE q.cursor - 1)
  BY <1>1, <1>3, <1>7, <1>9, PageIsPiece
<1>10. /\ q.kind = "load" => q.cursor = Nil
       /\ q.kind = "more" => q.cursor # Nil
  BY <1>1 DEF AskInv
<1>11. screen # "search" /\ p.kind = "load" /\ Answered(p) =>
         Piece(p.reply.rows, p.ask, p.reply.next, Len(listing))
  BY <1>1, <1>9, <1>10 DEF Pages
<1>12. screen # "search" /\ p.kind = "more" /\ Answered(p) /\ p.cursor \in Fit(p.ask) =>
         Piece(p.reply.rows, p.ask, p.reply.next, p.cursor - 1)
  BY <1>1, <1>9, <1>10 DEF Pages
<1>13. \A a : Fit(a)' = Fit(a)
  BY <1>1 DEF Fit
<1>14. PieceInv'
  <2>1. SUFFICES ASSUME screen # "search" PROVE PieceInv'
    BY <1>1 DEF PieceInv
  <2>2. ASSUME NEW x \in sent', Answered(x), x.kind = "load"
        PROVE  \E top \in 0..Len(listing) : PieceOf(x.reply.rows, Fit(x.ask), x.reply.next, top)
    BY <1>1, <1>3, <1>11, <2>1, <2>2 DEF PieceInv, Piece
  <2>3. ASSUME NEW x \in sent', Answered(x), x.kind = "more", x.cursor \in Fit(x.ask)
        PROVE  PieceOf(x.reply.rows, Fit(x.ask), x.reply.next, x.cursor - 1)
    BY <1>1, <1>12, <2>1, <2>3 DEF PieceInv, Piece
  <2>4. Settled => \E top \in 0..Len(listing) : PieceOf(feed.shown, Fit(feed.ask), feed.cursor, top)
    BY <2>1 DEF PieceInv, Piece
  <2> QED
    BY <1>1, <1>2, <2>2, <2>3, <2>4 DEF PieceInv, Piece, Fit, Answered
<1>15. CurrentInv'
  <2>1. SUFFICES ASSUME screen = "approvals" PROVE CurrentInv'
    BY <1>1 DEF CurrentInv
  <2>2. ASSUME NEW x \in sent', Answered(x), x.kind \notin Pages
        PROVE  x.row \notin pending'
    BY <1>1, <1>4, <1>5, <1>6, <2>1, <2>2 DEF CurrentInv
  <2>3. CASE WithSettled(q, p)
    <3>1. ~Informed'
      BY <1>6, <2>3
    <3> QED
      BY <2>2, <3>1 DEF CurrentInv, Answered
  <2>4. CASE UNCHANGED <<pending, told, missed>>
    <3>1. q.kind \in Pages /\ Answered(p) => Exact(p.reply.rows)
      BY <1>3, <1>7, PageIsGiven
    <3>0. Informed' <=> Informed
      BY <2>4 DEF Informed
    <3>2. SUFFICES ASSUME Informed PROVE CurrentInv'
      BY <1>1, <2>2, <3>0 DEF CurrentInv, Answered
    <3>3. ASSUME NEW x \in sent', x.kind \in Pages, x.turn = feed.turn, Answered(x)
          PROVE  Exact(x.reply.rows)
      BY <1>1, <2>1, <3>1, <3>2, <3>3 DEF CurrentInv
    <3>4. ASSUME NEW x \in sent', x.kind = "load", x.turn = feed.turn, Answered(x)
          PROVE  Piece(x.reply.rows, x.ask, x.reply.next, Len(listing))
      BY <1>1, <1>11, <2>1, <3>2, <3>4 DEF CurrentInv
    <3>5. Settled => Exact(feed.shown) /\ Piece(feed.shown, feed.ask, feed.cursor, Len(listing))
      BY <2>1, <3>2 DEF CurrentInv
    <3> QED
      BY <1>1, <1>2, <2>2, <2>4, <3>0, <3>3, <3>4, <3>5, ListsAreCurrent
  <2> QED
    BY <1>5, <2>3, <2>4
<1> QED
  BY <1>8, <1>14, <1>15

\* A piece stays one when a row is added above it.
LEMMA PieceStays ==
  ASSUME NEW n \in Nat, NEW fit, fit \subseteq 1..n, NEW grown,
         fit \subseteq grown, grown \subseteq fit \cup {n + 1}
  PROVE  \A page : \A next \in Nat, top \in Int :
           top <= n /\ PieceOf(page, fit, next, top) => PieceOf(page, grown, next, top)
<1> SUFFICES ASSUME NEW page, NEW next \in Nat, NEW top \in Int,
                    top <= n, PieceOf(page, fit, next, top)
             PROVE  PieceOf(page, grown, next, top)
  OBVIOUS
<1>1. \A r : r \in fit => r \in grown
  OBVIOUS
<1>2. \A r : r \in grown /\ r <= top => r \in fit
  OBVIOUS
<1>3. {r \in fit : next <= r /\ r <= top} = {r \in grown : next <= r /\ r <= top}
  BY <1>1, <1>2, Zenon
<1> QED
  BY <1>1, <1>3 DEF PieceOf

LEMMA GrowsKeepsLists ==
  ASSUME FeedTypeOK, ListedInv, PieceInv, CurrentInv, Changes, Grows
  PROVE  ListedInv' /\ PieceInv' /\ CurrentInv'
<1>1. /\ UNCHANGED <<screen, fits, feed, sent, crossed>>
      /\ pending' = IF screen = "approvals" THEN pending \cup {Len(listing) + 1} ELSE pending
      /\ screen = "approvals" => ~Informed'
  BY DEF Changes, Grows, Tells
<1>2. PICK n \in Nat : n = Len(listing) /\ Len(listing') = n + 1
  BY DEF FeedTypeOK, Grows
<1>3. Settled' <=> Settled
  BY <1>1 DEF Settled, Expected
<1>4. sent \subseteq FeedRequest /\ feed \in Feed /\ told \in Nat
  BY DEF FeedTypeOK
<1>5. ListedInv'
  <2>1. SUFFICES ASSUME screen # "search" PROVE ListedInv'
    BY <1>1 DEF ListedInv
  <2>2. \A m \in Nat : m <= n => m <= n + 1
    OBVIOUS
  <2>3. ASSUME NEW q \in sent
        PROVE  /\ q.cursor <= n + 1 /\ q.row <= n + 1
               /\ q.kind \in Pages /\ Answered(q) =>
                    /\ q.reply.next <= n + 1
                    /\ \A i \in 1..Len(q.reply.rows) : q.reply.rows[i].row <= n + 1
    <3>1. q.cursor \in Nat /\ q.row \in FeedRows \cup {Nil} /\ q.reply \in Reply
      BY <1>4 DEF FeedRequest
    <3>2. FeedRows \cup {Nil} \subseteq Nat
      BY DEF FeedRows, Nil
    <3>3. q.reply.next \in Nat /\ \A i \in 1..Len(q.reply.rows) : q.reply.rows[i] \in ShownRow
      BY <3>1 DEF Reply
    <3>4. \A i \in 1..Len(q.reply.rows) : q.reply.rows[i].row \in Nat
      BY <3>2, <3>3 DEF ShownRow
    <3> QED
      BY <1>2, <2>1, <2>2, <3>1, <3>2, <3>3, <3>4 DEF ListedInv
  <2>4. /\ feed.cursor <= n + 1 /\ feed.deciding <= n + 1
        /\ \A i \in 1..Len(feed.shown) : feed.shown[i].row <= n + 1
    <3>1. /\ feed.cursor \in Nat /\ feed.deciding \in Nat
          /\ \A i \in 1..Len(feed.shown) : feed.shown[i] \in ShownRow
      BY <1>4 DEF Feed, FeedRows, Nil
    <3>2. \A i \in 1..Len(feed.shown) : feed.shown[i].row \in Nat
      BY <3>1 DEF ShownRow, FeedRows
    <3> QED
      BY <1>2, <2>1, <2>2, <3>1, <3>2 DEF ListedInv
  <2> QED
    BY <1>1, <1>2, <2>3, <2>4 DEF ListedInv, Answered
<1>6. PieceInv'
  <2>1. SUFFICES ASSUME screen # "search" PROVE PieceInv'
    BY <1>1 DEF PieceInv
  <2> DEFINE Grown(a) == {r \in 1..(n + 1) : a \in fits[r]}
  <2>2. \A a : /\ Fit(a) \subseteq 1..n /\ Fit(a) \subseteq Grown(a)
               /\ Grown(a) \subseteq Fit(a) \cup {n + 1}
    BY <1>2 DEF Fit
  <2>3. \A a, page : \A next \in Nat, top \in Int :
          top <= n /\ Piece(page, a, next, top) => PieceOf(page, Grown(a), next, top)
    <3> HIDE DEF Grown
    <3> QED
      BY <2>2, PieceStays DEF Piece
  <2>4. \A q \in sent : q.reply.next \in Nat /\ q.cursor \in Nat
    BY <1>4 DEF FeedRequest, Reply
  <2>5. \A a : Fit(a)' = Grown(a)
    BY <1>1, <1>2 DEF Fit
  <2>6. \A q \in sent : Answered(q) /\ q.kind = "load" =>
          \E top \in 0..(n + 1) : PieceOf(q.reply.rows, Grown(q.ask), q.reply.next, top)
    <3> HIDE DEF Grown
    <3> SUFFICES ASSUME NEW q \in sent, Answered(q), q.kind = "load"
                 PROVE  \E top \in 0..(n + 1) : PieceOf(q.reply.rows, Grown(q.ask), q.reply.next, top)
      OBVIOUS
    <3>1. PICK top \in 0..n : Piece(q.reply.rows, q.ask, q.reply.next, top)
      BY <1>2, <2>1 DEF PieceInv
    <3>2. top \in Int /\ top <= n /\ top \in 0..(n + 1)
      OBVIOUS
    <3>3. PieceOf(q.reply.rows, Grown(q.ask), q.reply.next, top)
      BY <2>3, <2>4, <3>1, <3>2
    <3> QED
      BY <3>2, <3>3
  <2>7. \A q \in sent : Answered(q) /\ q.kind = "more" /\ q.cursor \in Grown(q.ask) =>
          PieceOf(q.reply.rows, Grown(q.ask), q.reply.next, q.cursor - 1)
    <3> SUFFICES ASSUME NEW q \in sent, Answered(q), q.kind = "more", q.cursor \in Grown(q.ask)
                 PROVE  PieceOf(q.reply.rows, Grown(q.ask), q.reply.next, q.cursor - 1)
      OBVIOUS
    <3>1. q.cursor \in Nat /\ q.cursor <= n
      BY <1>2, <2>1, <2>4 DEF ListedInv
    <3>2. q.cursor \in Fit(q.ask)
      BY <1>2, <3>1 DEF Fit
    <3>3. Piece(q.reply.rows, q.ask, q.reply.next, q.cursor - 1)
      BY <2>1, <3>2 DEF PieceInv
    <3>4. q.cursor - 1 \in Int /\ q.cursor - 1 <= n
      BY <3>1
    <3> HIDE DEF Grown
    <3> QED
      BY <2>3, <2>4, <3>3, <3>4
  <2>8. Settled => \E top \in 0..(n + 1) : PieceOf(feed.shown, Grown(feed.ask), feed.cursor, top)
    <3> HIDE DEF Grown
    <3> SUFFICES ASSUME Settled
                 PROVE  \E top \in 0..(n + 1) : PieceOf(feed.shown, Grown(feed.ask), feed.cursor, top)
      OBVIOUS
    <3>1. PICK top \in 0..n : Piece(feed.shown, feed.ask, feed.cursor, top)
      BY <1>2, <2>1 DEF PieceInv
    <3>2. top \in Int /\ top <= n /\ top \in 0..(n + 1) /\ feed.cursor \in Nat
      BY <1>4 DEF Feed
    <3>3. PieceOf(feed.shown, Grown(feed.ask), feed.cursor, top)
      BY <2>3, <3>1, <3>2
    <3> QED
      BY <3>2, <3>3
  <2> QED
    BY <1>1, <1>2, <1>3, <2>6, <2>7, <2>8 DEF PieceInv, Piece, Fit, Answered
<1>7. CurrentInv'
  <2>1. SUFFICES ASSUME screen = "approvals" PROVE CurrentInv'
    BY <1>1 DEF CurrentInv
  <2>2. ~Informed'
    BY <1>1, <2>1
  <2>3. ASSUME NEW q \in sent, Answered(q), q.kind \notin Pages PROVE q.row \notin pending'
    <3>1. q.row \notin pending /\ q.row <= n
      BY <1>2, <2>1, <2>3 DEF CurrentInv, ListedInv
    <3>2. q.row # n + 1
      BY <3>1
    <3> QED
      BY <1>1, <1>2, <2>1, <3>1, <3>2
  <2> QED
    BY <1>1, <2>2, <2>3 DEF CurrentInv, Answered
<1> QED
  BY <1>5, <1>6, <1>7

LEMMA SettledKeepsLists ==
  ASSUME FeedTypeOK, ListInv, ListedInv, PieceInv, CurrentInv, SettledByOther,
         UNCHANGED <<screen, feed, sent, crossed>>
  PROVE  ListedInv' /\ PieceInv' /\ CurrentInv'
<1>1. /\ UNCHANGED <<listing, fits>> /\ pending' \subseteq pending /\ ~Informed'
  BY PublishTells DEF SettledByOther, Tells
<1>2. Settled' <=> Settled
  BY DEF Settled, Expected
<1>4. ListedInv'
  BY <1>1 DEF ListedInv, Answered
<1>5. PieceInv'
  BY <1>1, <1>2 DEF PieceInv, Piece, Fit, Answered
<1>6. CurrentInv'
  BY <1>1 DEF CurrentInv, Answered
<1> QED
  BY <1>4, <1>5, <1>6

\* A piece and the piece under its last row make one.
LEMMA PiecesMakeOne ==
  ASSUME NEW s \in Seq(ShownRow), NEW t \in Seq(ShownRow), NEW fit,
         NEW c \in Nat, NEW next \in Nat, NEW top \in Nat,
         PieceOf(s, fit, c, top), PieceOf(t, fit, next, c - 1), fit \subseteq Nat
  PROVE  PieceOf(s \o t, fit, next, top)
<1>1. PICK m \in Nat, n \in Nat : m = Len(s) /\ n = Len(t)
  OBVIOUS
<1>2. /\ s \o t \in Seq(ShownRow) /\ Len(s \o t) = m + n
      /\ \A i \in 1..(m + n) : (s \o t)[i] = IF i <= m THEN s[i] ELSE t[i - m]
  BY <1>1, ConcatProperties
<1>3. PICK a, b, rows : a = RowsOf(s) /\ b = RowsOf(t) /\ rows = RowsOf(s \o t)
  OBVIOUS
<1>4. /\ Len(a) = m /\ Len(b) = n /\ Len(rows) = m + n
      /\ \A i \in 1..m : a[i] = s[i].row
      /\ \A i \in 1..n : b[i] = t[i].row
      /\ \A i \in 1..(m + n) : rows[i] = (s \o t)[i].row
  BY <1>1, <1>2, <1>3 DEF RowsOf
<1>5. /\ Descending(a) /\ Values(a) = {r \in fit : c <= r /\ r <= top}
      /\ Descending(b) /\ Values(b) = {r \in fit : next <= r /\ r <= c - 1}
      /\ c <= top /\ next <= c - 1
      /\ next # Nil => next \in fit
  BY <1>3 DEF PieceOf
<1>6. /\ \A i \in 1..m : rows[i] = a[i] /\ a[i] \in fit /\ c <= a[i] /\ a[i] <= top
      /\ \A i \in 1..n : rows[m + i] = b[i] /\ b[i] \in fit /\ next <= b[i] /\ b[i] <= c - 1
  <2>1. ASSUME NEW i \in 1..m PROVE rows[i] = a[i] /\ a[i] \in fit /\ c <= a[i] /\ a[i] <= top
    <3>1. i \in 1..(m + n) /\ i <= m
      OBVIOUS
    <3>2. rows[i] = a[i]
      BY <1>2, <1>4, <3>1
    <3>3. a[i] \in Values(a)
      BY <1>4 DEF Values
    <3> QED
      BY <1>5, <3>2, <3>3
  <2>2. ASSUME NEW i \in 1..n PROVE rows[m + i] = b[i] /\ b[i] \in fit /\ next <= b[i] /\ b[i] <= c - 1
    <3>1. m + i \in 1..(m + n) /\ ~(m + i <= m) /\ m + i - m = i
      OBVIOUS
    <3>2. (s \o t)[m + i] = t[i]
      BY <1>2, <3>1, SMTT(20)
    <3>3. rows[m + i] = b[i]
      BY <1>4, <3>1, <3>2
    <3>4. b[i] \in Values(b)
      BY <1>4 DEF Values
    <3> QED
      BY <1>5, <3>3, <3>4
  <2> QED
    BY <2>1, <2>2
<1>7. c <= top /\ next <= c - 1
  BY <1>5
<1>8. Descending(rows)
  <2> SUFFICES ASSUME NEW i \in 1..(m + n), NEW j \in 1..(m + n), i < j
               PROVE  rows[i] > rows[j]
    BY <1>4 DEF Descending
  <2>1. CASE j <= m
    <3>1. i \in 1..m /\ j \in 1..m
      BY <2>1
    <3> QED
      BY <1>4, <1>5, <1>6, <3>1 DEF Descending
  <2>2. CASE i <= m /\ ~(j <= m)
    <3>1. PICK k \in 1..n : j = m + k
      <4>1. j - m \in 1..n /\ j = m + (j - m)
        BY <2>2
      <4> QED
        BY <4>1
    <3>2. i \in 1..m
      BY <2>2
    <3>3. rows[i] \in Nat /\ rows[j] \in Nat /\ c <= rows[i] /\ rows[j] <= c - 1
      BY <1>6, <3>1, <3>2
    <3> QED
      BY <3>3
  <2>3. CASE ~(i <= m)
    <3>1. i - m \in 1..n /\ j - m \in 1..n /\ i = m + (i - m) /\ j = m + (j - m) /\ i - m < j - m
      BY <2>3
    <3>2. PICK k \in 1..n, l \in 1..n : i = m + k /\ j = m + l /\ k < l
      BY <3>1
    <3> QED
      BY <1>4, <1>5, <1>6, <3>2 DEF Descending
  <2> QED
    BY <2>1, <2>2, <2>3
<1>9. Values(rows) = {r \in fit : next <= r /\ r <= top}
  <2>1. ASSUME NEW v \in Values(rows) PROVE v \in fit /\ next <= v /\ v <= top
    <3>1. PICK i \in 1..(m + n) : v = rows[i]
      BY <1>4, <2>1 DEF Values
    <3>2. CASE i <= m
      <4>1. i \in 1..m
        BY <3>2
      <4>2. v \in fit /\ v \in Nat /\ c <= v /\ v <= top
        BY <1>6, <3>1, <4>1
      <4> QED
        BY <1>7, <4>2
    <3>3. CASE ~(i <= m)
      <4>1. i - m \in 1..n /\ i = m + (i - m)
        BY <3>3
      <4>2. PICK k \in 1..n : i = m + k
        BY <4>1
      <4>3. v \in fit /\ v \in Nat /\ next <= v /\ v <= c - 1
        BY <1>6, <3>1, <4>2
      <4> QED
        BY <1>7, <4>3
    <3> QED
      BY <3>2, <3>3
  <2>2. ASSUME NEW v \in fit, next <= v, v <= top PROVE v \in Values(rows)
    <3>1. CASE c <= v
      <4>1. v \in Values(a)
        BY <1>5, <2>2, <3>1
      <4>2. PICK i \in 1..m : v = a[i]
        BY <1>4, <4>1 DEF Values
      <4>3. i \in 1..(m + n) /\ rows[i] = v
        BY <1>6, <4>2
      <4> QED
        BY <1>4, <4>3 DEF Values
    <3>2. CASE ~(c <= v)
      <4>1. v \in Values(b)
        BY <1>5, <2>2, <3>2
      <4>2. PICK i \in 1..n : v = b[i]
        BY <1>4, <4>1 DEF Values
      <4>3. m + i \in 1..(m + n) /\ rows[m + i] = v
        BY <1>6, <4>2
      <4> QED
        BY <1>4, <4>3 DEF Values
    <3> QED
      BY <3>1, <3>2
  <2> QED
    BY <2>1, <2>2
<1>10. next <= top
  BY <1>5
<1> QED
  BY <1>3, <1>5, <1>8, <1>9, <1>10 DEF PieceOf

LEMMA JoinedRows ==
  ASSUME NEW S, NEW s \in Seq(ShownRow), NEW t \in Seq(ShownRow),
         \A i \in 1..Len(s) : s[i] \in S, \A i \in 1..Len(t) : t[i] \in S
  PROVE  \A i \in 1..Len(s \o t) : (s \o t)[i] \in S
<1>1. \A u \in Seq(ShownRow) : (\A i \in 1..Len(u) : u[i] \in S) => u \in Seq(S)
  <2> SUFFICES ASSUME NEW u \in Seq(ShownRow), \A i \in 1..Len(u) : u[i] \in S
               PROVE  u \in Seq(S)
    OBVIOUS
  <2>1. PICK n \in Nat : n = Len(u) /\ u \in [1..n -> ShownRow]
    BY LenProperties
  <2>2. u \in [1..n -> S]
    BY <2>1
  <2> QED
    BY <2>2, SeqDef
<1>2. s \o t \in Seq(S)
  BY <1>1, ConcatProperties
<1> QED
  BY <1>2

\* What is shown is of the table, when the list is the one that was asked for.
ShowsPiece(shown, cursor) ==
  /\ \E top \in 0..Len(listing) : Piece(shown, feed.ask, cursor, top)
  /\ screen = "approvals" /\ Informed =>
       Exact(shown) /\ Piece(shown, feed.ask, cursor, Len(listing))

ShowsListed(shown, cursor) ==
  cursor <= Len(listing) /\ \A i \in 1..Len(shown) : shown[i].row <= Len(listing)

LEMMA ShownWhenSettled ==
  ASSUME PieceInv, CurrentInv, screen # "search", Settled
  PROVE  ShowsPiece(feed.shown, feed.cursor)
  BY DEF PieceInv, CurrentInv, ShowsPiece

\* A list lands, and with it a piece of the table.
LEMMA ListLands ==
  ASSUME AskInv, ListedInv, PieceInv, CurrentInv, screen # "search",
         NEW q \in sent, LandsList(q)
  PROVE  ShowsPiece(q.reply.rows, q.reply.next) /\ ShowsListed(q.reply.rows, q.reply.next)
<1>1. q.kind = "load" /\ q.kind \in Pages /\ q.turn = feed.turn /\ Answered(q)
  BY DEF LandsList, Latest, Pages
<1>2. q.ask = feed.ask
  BY <1>1 DEF AskInv
<1>3. \E top \in 0..Len(listing) : Piece(q.reply.rows, q.ask, q.reply.next, top)
  BY <1>1 DEF PieceInv
<1>4. screen = "approvals" /\ Informed =>
        Exact(q.reply.rows) /\ Piece(q.reply.rows, q.ask, q.reply.next, Len(listing))
  BY <1>1 DEF CurrentInv
<1>5. ShowsListed(q.reply.rows, q.reply.next)
  BY <1>1 DEF ListedInv, ShowsListed
<1> QED
  BY <1>2, <1>3, <1>4, <1>5 DEF ShowsPiece

\* More rows land, and join when they continue the list.
LEMMA MoreLands ==
  ASSUME FeedTypeOK, AskInv, ListedInv, PieceInv, CurrentInv, screen # "search",
         NEW q \in sent, LandsMore(q)
  PROVE  /\ ShowsListed(feed.shown \o q.reply.rows, q.reply.next)
         /\ Settled /\ Continues(q) => ShowsPiece(feed.shown \o q.reply.rows, q.reply.next)
<1>1. q.kind = "more" /\ q.kind \in Pages /\ Answered(q) /\ q.cursor # Nil
  BY DEF LandsMore, Pages, AskInv
<1>2. /\ feed.shown \in Seq(ShownRow) /\ q.reply.rows \in Seq(ShownRow)
      /\ q.reply.next \in Nat /\ feed.cursor \in Nat /\ q.cursor \in Nat /\ Len(listing) \in Nat
  BY DEF FeedTypeOK, Feed, FeedRequest, Reply
<1>3. PICK s \in Seq(ShownRow), t \in Seq(ShownRow) : s = feed.shown /\ t = q.reply.rows
  BY <1>2
<1>4. /\ \A i \in 1..Len(s) : s[i] \in ShownRow
      /\ \A i \in 1..Len(t) : t[i] \in ShownRow
  OBVIOUS
<1>5. ShowsListed(s \o t, q.reply.next)
  <2> DEFINE S == {x \in ShownRow : x.row <= Len(listing)}
  <2>1. /\ q.reply.next <= Len(listing)
        /\ \A i \in 1..Len(s) : s[i] \in S
        /\ \A i \in 1..Len(t) : t[i] \in S
    BY <1>1, <1>3, <1>4 DEF ListedInv
  <2>2. \A i \in 1..Len(s \o t) : (s \o t)[i] \in S
    <3> HIDE DEF S
    <3> QED
      BY <2>1, JoinedRows
  <2> QED
    BY <2>1, <2>2 DEF ShowsListed
<1>6. ASSUME Settled, Continues(q) PROVE ShowsPiece(s \o t, q.reply.next)
  <2>1. q.turn = feed.turn /\ q.cursor = feed.cursor
    BY <1>6 DEF Continues
  <2>2. q.ask = feed.ask
    BY <1>1, <2>1 DEF AskInv
  <2>3. Fit(feed.ask) \subseteq Nat
    BY DEF Fit
  <2>4. PICK next \in Nat, c \in Nat : next = q.reply.next /\ c = feed.cursor
    BY <1>2
  <2>5. ShowsPiece(s, c)
    BY <1>3, <1>6, <2>4, ShownWhenSettled
  <2>6. c # Nil /\ c \in Fit(feed.ask)
    BY <1>1, <2>1, <2>4, <2>5 DEF ShowsPiece, Piece, PieceOf
  <2>7. PieceOf(t, Fit(feed.ask), next, c - 1)
    BY <1>1, <1>3, <2>1, <2>2, <2>4, <2>6 DEF PieceInv, Piece
  <2>8. ASSUME NEW top \in 0..Len(listing), PieceOf(s, Fit(feed.ask), c, top)
        PROVE  PieceOf(s \o t, Fit(feed.ask), next, top)
    <3>1. top \in Nat
      BY <1>2
    <3> QED
      BY <2>3, <2>7, <2>8, <3>1, PiecesMakeOne
  <2>9. \E top \in 0..Len(listing) : Piece(s \o t, feed.ask, next, top)
    BY <2>5, <2>8 DEF ShowsPiece, Piece
  <2>10. ASSUME screen = "approvals", Informed
         PROVE  Exact(s \o t) /\ Piece(s \o t, feed.ask, next, Len(listing))
    <3> DEFINE S == {x \in ShownRow : x.open <=> x.row \in pending}
    <3>1. Exact(s) /\ Exact(t)
      BY <1>1, <1>3, <2>1, <2>5, <2>10 DEF ShowsPiece, CurrentInv
    <3>2. /\ \A i \in 1..Len(s) : s[i] \in S
          /\ \A i \in 1..Len(t) : t[i] \in S
      BY <1>4, <3>1 DEF Exact
    <3>3. \A i \in 1..Len(s \o t) : (s \o t)[i] \in S
      <4> HIDE DEF S
      <4> QED
        BY <3>2, JoinedRows
    <3>4. Len(listing) \in 0..Len(listing)
      BY <1>2
    <3> QED
      BY <2>5, <2>8, <2>10, <3>3, <3>4 DEF ShowsPiece, Exact, Piece
  <2> QED
    BY <2>4, <2>9, <2>10 DEF ShowsPiece
<1> QED
  BY <1>3, <1>5, <1>6

\* A row is patched as the table is.
LEMMA ActLands ==
  ASSUME FeedTypeOK, ListedInv, PieceInv, CurrentInv, screen # "search",
         NEW q \in sent, LandsAct(q)
  PROVE  /\ ShowsListed(feed'.shown, feed.cursor)
         /\ Settled => ShowsPiece(feed'.shown, feed.cursor)
<1>1. feed.shown \in Seq(ShownRow) /\ Len(feed.shown) \in Nat
  BY DEF FeedTypeOK, Feed
<1>2. PICK new : new = feed'.shown
  OBVIOUS
<1>3. CASE new = feed.shown
  BY <1>2, <1>3, ShownWhenSettled DEF ListedInv, ShowsListed
<1>4. CASE /\ Answered(q)
           /\ new = [i \in 1..Len(feed.shown) |->
                       [feed.shown[i] EXCEPT !.open = @ /\ feed.shown[i].row # q.row]]
  <2>1. \A i \in 1..Len(feed.shown) : feed.shown[i] \in ShownRow
    BY <1>1
  <2>2. Len(new) = Len(feed.shown)
    BY <1>1, <1>4
  <2>3. ASSUME NEW i \in 1..Len(feed.shown)
        PROVE  /\ new[i].row = feed.shown[i].row
               /\ new[i].open <=> feed.shown[i].open /\ feed.shown[i].row # q.row
    <3>1. new[i] = [feed.shown[i] EXCEPT !.open = feed.shown[i].open /\ feed.shown[i].row # q.row]
      BY <1>4
    <3> QED
      BY <2>1, <3>1 DEF ShownRow
  <2>4. RowsOf(new) = RowsOf(feed.shown)
    BY <2>2, <2>3 DEF RowsOf
  <2>5. ShowsListed(new, feed.cursor)
    BY <2>2, <2>3 DEF ShowsListed, ListedInv
  <2>6. screen = "approvals" => q.row \notin pending
    BY <1>4 DEF CurrentInv, LandsAct
  <2>7. ASSUME Settled PROVE ShowsPiece(new, feed.cursor)
    <3>1. ShowsPiece(feed.shown, feed.cursor)
      BY <2>7, ShownWhenSettled
    <3>2. screen = "approvals" /\ Exact(feed.shown) => Exact(new)
      BY <2>2, <2>3, <2>6 DEF Exact
    <3> QED
      BY <2>4, <3>1, <3>2 DEF ShowsPiece, Piece, PieceOf
  <2> QED
    BY <1>2, <2>5, <2>7
<1> QED
  BY <1>2, <1>3, <1>4 DEF LandsAct

LEMMA LandKeepsLists ==
  ASSUME FeedTypeOK, AskInv, ListInv, ListedInv, PieceInv, CurrentInv,
         NEW q \in sent, Lands(q), sent' = sent \ {q},
         UNCHANGED <<feedTables, live, told, spent, missed>>, ~Latest(q) => (Expected' <=> Expected)
  PROVE  ListedInv' /\ PieceInv' /\ CurrentInv'
<1>1. UNCHANGED <<screen, listing, fits, pending>> /\ (Informed' => Informed)
  BY DEF feedTables, Informed
<1>2. feed'.ask = feed.ask /\ feed'.turn = feed.turn /\ feed'.deciding \in {feed.deciding, Nil}
  BY DEF Lands, LandsList, LandsError, LandsLate, LandsMore, LandsNoMore, LandsAct
<1>3. ASSUME screen # "search"
      PROVE  /\ ShowsListed(feed'.shown, feed'.cursor)
             /\ Settled' => ShowsPiece(feed'.shown, feed'.cursor)
  <2>1. ShowsListed(feed.shown, feed.cursor)
    BY <1>3 DEF ListedInv, ShowsListed
  <2>2. Settled => ShowsPiece(feed.shown, feed.cursor)
    BY <1>3, ShownWhenSettled
  <2>3. CASE LandsList(q)
    BY <1>3, <2>3, ListLands DEF LandsList
  <2>4. CASE LandsError(q)
    BY <2>1, <2>4 DEF LandsError, Settled
  <2>5. CASE LandsLate(q)
    BY <2>1, <2>2, <2>5 DEF LandsLate, Settled
  <2>6. CASE LandsMore(q)
    <3>1. /\ feed'.shown = feed.shown \o q.reply.rows /\ feed'.cursor = q.reply.next
          /\ feed'.load = feed.load /\ crossed' = (crossed \/ ~Continues(q)) /\ ~Latest(q)
      BY <2>6 DEF LandsMore, Latest
    <3>2. Settled' => Settled /\ Continues(q)
      BY <3>1 DEF Settled
    <3> QED
      BY <1>3, <2>6, <3>1, <3>2, MoreLands
  <2>7. CASE LandsNoMore(q)
    <3>1. /\ feed'.shown = feed.shown /\ feed'.cursor = feed.cursor /\ feed'.load = feed.load
          /\ crossed' = (crossed \/ ~Continues(q)) /\ ~Latest(q)
      BY <2>7 DEF LandsNoMore, Latest
    <3> QED
      BY <2>1, <2>2, <3>1 DEF Settled
  <2>8. CASE LandsAct(q)
    <3>1. feed'.cursor = feed.cursor /\ feed'.load = feed.load /\ crossed' = crossed /\ ~Latest(q)
      BY <2>8 DEF LandsAct, Latest, Pages
    <3>2. /\ ShowsListed(feed'.shown, feed.cursor)
          /\ Settled => ShowsPiece(feed'.shown, feed.cursor)
      BY <1>3, <2>8, ActLands
    <3> QED
      BY <3>1, <3>2 DEF Settled
  <2> QED
    BY <2>3, <2>4, <2>5, <2>6, <2>7, <2>8 DEF Lands
<1>4. ListedInv'
  <2>1. Len(listing) \in Nat
    BY DEF FeedTypeOK
  <2> QED
    BY <1>1, <1>2, <1>3, <2>1 DEF ListedInv, ShowsListed, Answered, Nil
<1>5. PieceInv'
  <2>1. SUFFICES ASSUME screen # "search" PROVE PieceInv'
    BY <1>1 DEF PieceInv
  <2>2. \A x \in sent' : Answered(x) /\ x.kind = "load" =>
          \E top \in 0..Len(listing) : PieceOf(x.reply.rows, Fit(x.ask), x.reply.next, top)
    BY <2>1 DEF PieceInv, Piece
  <2>3. \A x \in sent' : Answered(x) /\ x.kind = "more" /\ x.cursor \in Fit(x.ask) =>
          PieceOf(x.reply.rows, Fit(x.ask), x.reply.next, x.cursor - 1)
    BY <2>1 DEF PieceInv, Piece
  <2>4. Settled' => \E top \in 0..Len(listing) :
                      PieceOf(feed'.shown, Fit(feed.ask), feed'.cursor, top)
    BY <1>3, <2>1 DEF ShowsPiece, Piece
  <2> QED
    BY <1>1, <1>2, <2>2, <2>3, <2>4 DEF PieceInv, Piece, Fit, Answered
<1>6. CurrentInv'
  <2>1. SUFFICES ASSUME screen = "approvals" PROVE CurrentInv'
    BY <1>1 DEF CurrentInv
  <2>2. \A x \in sent' : Answered(x) /\ x.kind \notin Pages => x.row \notin pending
    BY <2>1 DEF CurrentInv
  <2>3. Informed =>
          /\ \A x \in sent' : x.kind \in Pages /\ x.turn = feed'.turn /\ Answered(x) =>
               Exact(x.reply.rows)
          /\ \A x \in sent' : x.kind = "load" /\ x.turn = feed'.turn /\ Answered(x) =>
               Piece(x.reply.rows, x.ask, x.reply.next, Len(listing))
          /\ Settled' => /\ Exact(feed'.shown)
                         /\ Piece(feed'.shown, feed'.ask, feed'.cursor, Len(listing))
    BY <1>2, <1>3, <2>1 DEF CurrentInv, ShowsPiece
  <2> QED
    BY <1>1, <2>2, <2>3, ListsAreCurrent
<1> QED
  BY <1>4, <1>5, <1>6

LEMMA ListsKept ==
  ASSUME FeedTypeOK, AskInv, ListInv, WaitInv, ListedInv, PieceInv, CurrentInv, FeedNext
  PROVE  FeedTypeOK' /\ AskInv' /\ ListInv' /\ WaitInv' /\ ListedInv' /\ PieceInv' /\ CurrentInv'
<1>1. CASE \E q : AsksAnew(q)
  BY <1>1, AnewKeeps, AnewKeepsLists
<1>2. CASE \E q : Sends(q)
  BY <1>2, SendsKeeps, SendsKeepsLists
<1>3. CASE ClearTerm
  <2>1. screen' = "search"
    BY <1>3 DEF ClearTerm, feedTables
  <2> QED
    BY <1>3, <2>1, ClearKeeps DEF ListedInv, PieceInv, CurrentInv
<1>4. CASE \E q, p : Replies(q, p) /\ (WithPage(q, p) \/ WithSettled(q, p) \/ WithFailure(p))
  BY <1>4, RepliesKeeps, RepliesKeepsLists
<1>5. CASE Changes /\ Grows
  BY <1>5, TablesKeep, GrowsKeepsLists
<1>6. CASE SettledByOther
  BY <1>6, TablesKeep, SettledKeepsLists
<1>7. CASE Rematch
  <2>1. screen' = "search"
    BY <1>7 DEF Rematch, Change
  <2> QED
    BY <1>7, <2>1, TablesKeep DEF ListedInv, PieceInv, CurrentInv
<1>8. CASE \E q \in sent : Land(q)
  BY <1>8, LandKeeps, LandKeepsLists
<1>9. CASE Turns
  BY <1>9, TurnsKeeps, TurnsKeepsLists
<1> QED
  BY <1>1, <1>2, <1>3, <1>4, <1>5, <1>6, <1>7, <1>8, <1>9, StepsAre

LEMMA FeedStays == FInv /\ [FeedNext]_feedVars => FInv'
<1> SUFFICES ASSUME FInv, [FeedNext]_feedVars PROVE FInv'
  OBVIOUS
<1>1. CASE FeedNext
  BY <1>1, ListsKept, AskedKept DEF FInv
<1>2. CASE UNCHANGED feedVars
  <2>1. UNCHANGED <<screen, listing, fits, pending, feed, sent, live, told, spent, missed, crossed>>
    BY <1>2 DEF feedVars, feedTables
  <2>2. FeedTypeOK' /\ AskInv' /\ ListInv' /\ WaitInv'
    BY <2>1 DEF FInv, FeedTypeOK, AskInv, ListInv, WaitInv, WaitsForSomething, Answered,
                Expected, Says, SearchLoad
  <2>3. ShownIsAsked'
    BY <2>1 DEF FInv, ShownIsAsked, Expected, Says, SearchLoad
  <2>4. ListedInv'
    BY <2>1 DEF FInv, ListedInv, Answered
  <2>5. PieceInv'
    BY <2>1 DEF FInv, PieceInv, Piece, Fit, Answered, Settled, Expected
  <2>6. CurrentInv'
    BY <2>1 DEF FInv, CurrentInv, Informed, Exact, Piece, Fit, Answered, Settled, Expected
  <2> QED
    BY <2>2, <2>3, <2>4, <2>5, <2>6 DEF FInv
<1> QED
  BY <1>1, <1>2

-----------------------------------------------------------------------------
(* What follows from it.                                                    *)

LEMMA ShownJoins == FInv => PagesJoin
<1> SUFFICES ASSUME FInv, screen # "search", Says = "ready", ~Expected, ~crossed
             PROVE  \E i \in 0..(Len(Fitting(feed.ask)) - Len(feed.shown)) :
                      /\ ShownRows = SubSeq(Fitting(feed.ask), i + 1, i + Len(feed.shown))
                      /\ feed.cursor = Nil => i + Len(feed.shown) = Len(Fitting(feed.ask))
  BY DEF PagesJoin
<1>1. Settled
  BY DEF Settled, Says
<1>2. PICK top \in 0..Len(listing) : Piece(feed.shown, feed.ask, feed.cursor, top)
  BY <1>1 DEF FInv, PieceInv
<1>3. /\ feed.shown \in Seq(ShownRow) /\ feed.cursor \in Nat /\ Len(listing) \in Nat
      /\ DOMAIN feed.shown = 1..Len(feed.shown)
  BY DEF FInv, FeedTypeOK, Feed
<1>4. PICK s \in Seq(Nat) : s = Fitting(feed.ask) /\ Descending(s) /\ Values(s) = Fit(feed.ask)
  BY FittingDescends DEF FInv
<1>5. PICK t : t = RowsOf(feed.shown)
  OBVIOUS
<1>6. t \in Seq(Nat) /\ Len(t) = Len(feed.shown)
  <2>1. \A i \in 1..Len(feed.shown) : feed.shown[i] \in ShownRow
    BY <1>3
  <2>2. \A i \in 1..Len(feed.shown) : feed.shown[i].row \in Nat
    BY <2>1 DEF ShownRow, FeedRows
  <2> QED
    BY <1>3, <1>5, <2>2 DEF RowsOf
<1>7. ShownRows = t
  BY <1>3, <1>5 DEF ShownRows, RowsOf
<1>8. PICK lo \in Nat, hi \in Nat : lo = feed.cursor /\ hi = top
  BY <1>3
<1>9. Descending(t) /\ Between(t, s, lo, hi)
  BY <1>2, <1>4, <1>5, <1>8 DEF Piece, PieceOf, Between
<1>10. \E i \in 0..(Len(s) - Len(t)) : /\ t = SubSeq(s, i + 1, i + Len(t))
                                       /\ lo = 0 => i + Len(t) = Len(s)
  BY <1>4, <1>6, <1>9, StretchIsPiece
<1> QED
  BY <1>4, <1>6, <1>7, <1>8, <1>10 DEF Nil

LEMMA QueueIsTable == FInv => QueueCurrent
<1> SUFFICES ASSUME FInv, screen = "approvals", Says = "ready", sent = {}, told = 0, ~missed,
                    ~crossed
             PROVE  /\ ShownRows = SubSeq(Fitting(feed.ask), 1, Len(feed.shown))
                    /\ \A i \in DOMAIN feed.shown :
                         feed.shown[i].open <=> feed.shown[i].row \in pending
  BY DEF QueueCurrent
<1>1. Settled
  BY DEF Settled, Says, Expected
<1>2. Exact(feed.shown) /\ Piece(feed.shown, feed.ask, feed.cursor, Len(listing))
  BY <1>1 DEF FInv, CurrentInv, Informed
<1>3. /\ feed.shown \in Seq(ShownRow) /\ feed.cursor \in Nat /\ Len(listing) \in Nat
      /\ DOMAIN feed.shown = 1..Len(feed.shown)
  BY DEF FInv, FeedTypeOK, Feed
<1>4. PICK s \in Seq(Nat) : s = Fitting(feed.ask) /\ Descending(s) /\ Values(s) = Fit(feed.ask)
  BY FittingDescends DEF FInv
<1>5. PICK t : t = RowsOf(feed.shown)
  OBVIOUS
<1>6. t \in Seq(Nat) /\ Len(t) = Len(feed.shown)
  <2>1. \A i \in 1..Len(feed.shown) : feed.shown[i] \in ShownRow
    BY <1>3
  <2>2. \A i \in 1..Len(feed.shown) : feed.shown[i].row \in Nat
    BY <2>1 DEF ShownRow, FeedRows
  <2> QED
    BY <1>3, <1>5, <2>2 DEF RowsOf
<1>7. ShownRows = t
  BY <1>3, <1>5 DEF ShownRows, RowsOf
<1>8. PICK lo \in Nat, hi \in Nat : lo = feed.cursor /\ hi = Len(listing)
  BY <1>3
<1>9. Descending(t) /\ Between(t, s, lo, hi)
  BY <1>2, <1>4, <1>5, <1>8 DEF Piece, PieceOf, Between
<1>10. \A r \in Values(s) : r <= hi
  BY <1>3, <1>4, <1>8 DEF Fit
<1>11. t = SubSeq(s, 1, Len(t))
  BY <1>4, <1>6, <1>9, <1>10, StretchIsPiece
<1> QED
  BY <1>2, <1>3, <1>4, <1>6, <1>7, <1>11 DEF Exact

LEMMA FeedInvariant == FeedSpec => []FInv
  BY FeedStart, FeedStays, PTL DEF FeedSpec

\* The three lists keep to their types, whatever overtakes what.
THEOREM FeedsAreTyped == FeedSpec => []FeedTypeOK
<1>1. FInv => FeedTypeOK
  BY DEF FInv
<1> QED
  BY <1>1, FeedInvariant, PTL

\* A sign of work is shown only while an answer is to come: every dimmed queue,
\* spinner and disabled button waits for a request that is under way, and the
\* skeleton of the search too, unless a failed "load more" of an earlier search
\* took it back (ApprovalsView, ActivityView, SearchView.loadMore).
THEOREM WorkIsUnderWay == FeedSpec => []WaitsForSomething
<1>1. FInv => WaitsForSomething
  BY DEF FInv, WaitInv
<1> QED
  BY <1>1, FeedInvariant, PTL

\* However many asks and answers overtake each other, once the answer that is
\* waited for is there the rows on the screen are those of the latest ask.
THEOREM LatestAskIsShown == FeedSpec => []ShownIsAsked
<1>1. FInv => ShownIsAsked
  BY DEF FInv
<1> QED
  BY <1>1, FeedInvariant, PTL

\* Keyset pages join for any page size, any number of rows and any number of
\* new ones above them: what is shown is a stretch of the list without a gap or
\* a double (ApprovalsService.list, AuditQueryService.list, loadMore).
THEOREM PagesJoinUp == FeedSpec => []PagesJoin
<1> QED
  BY ShownJoins, FeedInvariant, PTL

\* When nothing is under way, no event is to be heard and none was lost since the
\* list was last asked for, the queue shows the newest requests, each settled
\* exactly when it is, however often the stream was lost before (useLiveEvent,
\* submitDecision, withdraw, LiveProvider).
THEOREM QueueShowsTheTable == FeedSpec => []QueueCurrent
<1> QED
  BY QueueIsTable, FeedInvariant, PTL

-----------------------------------------------------------------------------
(* The pages: one document.                                                 *)

\* Alike but for the tags.
Same(d, e) == d.status = e.status /\ d.versions = e.versions /\ d.star = e.star

\* No reading is newer than the run whose answer will be shown.
TurnsInv == \A q \in asked : q.kind = "load" => q.turn <= here.turn

\* Two requests under way together know it.
MetInv == \A p, q \in asked : p # q /\ Spoilt(p, q) => p.met

\* Before the first answer nothing can be pressed.
FirstInv == here.load = "loading" => \A q \in asked : ~Own(q)

\* A run is going to end, or its end has not been heard yet.
RunEnding == doc.status = "PROCESSING" \/ events > 0

LastRead == \E q \in asked : q.kind = "load" /\ q.turn = here.turn

\* The answer that will be shown, if nothing of the reader's was under way with
\* it, is the document as it is, or one whose run is still to be heard of.
ReadInv == \A q \in asked : q.kind = "load" /\ q.turn = here.turn /\ q.at = "answered" /\ ~q.met
                              => Same(q.got, doc) \/ RunEnding

\* The page need not show the document as it is.
Behind == adrift \/ ~Ready \/ LastRead \/ RunEnding

NoStar == \A q \in asked : q.kind # "star"

\* One star at a time, shown before it is given.
StarShown ==
  /\ NoStar => here.detail.star = doc.star
  /\ \A p, q \in asked : p.kind = "star" /\ q.kind = "star" => p = q
  /\ \A q \in asked : q.kind = "star" =>
       /\ here.starring
       /\ here.detail.star = ~q.was.star
       /\ (q.at = "answered") => doc.star = ~q.was.star
       /\ (q.at # "answered") => doc.star = q.was.star

Filed(q) == q.kind \in {"archive", "unarchive"} /\ q.at = "answered"

\* The status is shown, or the answer that brings it is on its way.
StatusShown ==
  /\ (\A q \in asked : ~Filed(q)) => here.detail.status = doc.status
  /\ \A q \in asked : Filed(q) /\ ~q.met => q.got.status = doc.status
  /\ \A q \in asked : q.kind \in {"reprocess", "version"} => q.at # "answered"

ShownInv == ~Behind => /\ here.detail.versions = doc.versions
                       /\ StarShown
                       /\ StatusShown

PageInv == TurnsInv /\ MetInv /\ FirstInv /\ ReadInv /\ ShownInv

\* What the document carried is chosen still, or was taken off.
ChosenInv == editor.open /\ ~editor.raced =>
               /\ editor.known \subseteq editor.selected \cup editor.takenOff
               /\ \A q \in asked : q.kind = "create" => editor.known \subseteq q.tags \cup editor.takenOff

\* What a save leaves out is what its reader knows to be going.
SavedInv == \A q \in asked : q.kind = "tags" => AllTags \ q.tags \subseteq q.may

TagsInv == ChosenInv /\ SavedInv

Marked(p, q) == [p EXCEPT !.met = @ \/ Spoilt(p, q)]

Joining(q, qs) == [q EXCEPT !.met = \E p \in qs : Spoilt(q, p)]

Alike(p, r) == /\ r.id = p.id /\ r.kind = p.kind /\ r.at = p.at /\ r.turn = p.turn
               /\ r.was = p.was /\ r.tags = p.tags /\ r.got = p.got /\ r.may = p.may

\* What marking does to a request.
LEMMA MarkedAsk ==
  ASSUME NEW p \in Ask, NEW q
  PROVE  /\ Marked(p, q) \in Ask
         /\ Alike(p, Marked(p, q))
         /\ Marked(p, q).met <=> p.met \/ Spoilt(p, q)
  <1>1. PICK b \in BOOLEAN : b <=> p.met \/ Spoilt(p, q)
    OBVIOUS
  <1>2. p.met \in BOOLEAN
    BY DEF Ask
  <1>3. (p.met \/ Spoilt(p, q)) \in BOOLEAN
    OBVIOUS
  <1>4. (p.met \/ Spoilt(p, q)) = b
    BY <1>1, <1>2, <1>3
  <1>5. Marked(p, q) = [p EXCEPT !.met = b]
    BY <1>4 DEF Marked
  <1>6. QED
    BY <1>1, <1>5 DEF Ask, Alike

LEMMA JoiningAsk ==
  ASSUME NEW q \in Ask, NEW qs
  PROVE  /\ Joining(q, qs) \in Ask
         /\ Alike(q, Joining(q, qs))
         /\ Joining(q, qs).met <=> \E p \in qs : Spoilt(q, p)
  <1>1. PICK b \in BOOLEAN : b <=> \E p \in qs : Spoilt(q, p)
    OBVIOUS
  <1>4. (\E p \in qs : Spoilt(q, p)) = b
    BY <1>1
  <1>5. Joining(q, qs) = [q EXCEPT !.met = b]
    BY <1>4 DEF Joining
  <1>6. QED
    BY <1>1, <1>5 DEF Ask, Alike

LEMMA MeetIs ==
  \A q, qs : Meet(q, qs) = {Marked(p, q) : p \in qs} \cup {Joining(q, qs)}
  BY DEF Meet, Marked, Joining

\* What the set of requests is after one more was sent.
LEMMA Sent ==
  ASSUME NEW qs \in SUBSET Ask, NEW q \in Ask
  PROVE  /\ Meet(q, qs) \subseteq Ask
         /\ \A r \in Meet(q, qs) : r = Joining(q, qs) \/ \E p \in qs : r = Marked(p, q)
         /\ \A p \in qs : Marked(p, q) \in Meet(q, qs)
         /\ Joining(q, qs) \in Meet(q, qs)
  BY MeetIs, MarkedAsk, JoiningAsk

LEMMA SentAlike ==
  ASSUME NEW qs \in SUBSET Ask, NEW q \in Ask
  PROVE  \A r \in Meet(q, qs) : Alike(q, r) \/ \E p \in qs : Alike(p, r)
  <1>1. TAKE r \in Meet(q, qs)
  <1>2. CASE r = Joining(q, qs)
    BY <1>2, JoiningAsk
  <1>3. ASSUME NEW p \in qs, r = Marked(p, q) PROVE Alike(p, r)
    BY <1>3, MarkedAsk
  <1>4. QED
    BY <1>2, <1>3, Sent

\* The document that a change leaves is a document.
LEMMA ChangedIsDocument ==
  ASSUME doc \in Document, NEW q \in Ask
  PROVE  Changed(q) \in Document
  <1>1. /\ q.kind \in AskKinds
        /\ q.was \in Document
        /\ q.tags \subseteq AllTags
    BY DEF Ask
  <1>2. q.was.star \in BOOLEAN
    BY <1>1 DEF Document
  <1>3. PICK b \in BOOLEAN : b = ~q.was.star
    BY <1>2
  <1>4. Changed(q) =
          CASE q.kind = "archive" -> [doc EXCEPT !.status = "ARCHIVED"]
            [] q.kind = "unarchive" -> [doc EXCEPT !.status = "READY"]
            [] q.kind = "reprocess" -> [doc EXCEPT !.status = "PROCESSING"]
            [] q.kind = "version" -> [doc EXCEPT !.status = "PROCESSING", !.versions = @ + 1]
            [] q.kind = "star" -> [doc EXCEPT !.star = b]
            [] q.kind = "tags" -> [doc EXCEPT !.tags = q.tags]
            [] OTHER -> doc
    BY <1>3, Zenon DEF Changed
  <1>5. [doc EXCEPT !.status = "PROCESSING", !.versions = @ + 1] \in Document
    <2>1. PICK n \in Nat : n = doc.versions + 1
      BY DEF Document
    <2>2. [doc EXCEPT !.status = "PROCESSING", !.versions = n] \in Document
      BY DEF Document
    <2>3. QED
      BY <2>1, <2>2
  <1>6. /\ \A s \in {"READY", "PROCESSING", "ARCHIVED"} : [doc EXCEPT !.status = s] \in Document
        /\ [doc EXCEPT !.star = b] \in Document
        /\ [doc EXCEPT !.tags = q.tags] \in Document
    BY <1>1, <1>3 DEF Document
  <1>7. q.kind \in {"archive", "unarchive", "reprocess", "version", "star", "tags"}
          \/ Changed(q) = doc
    BY <1>1, <1>4
  <1>8. QED
    BY <1>4, <1>5, <1>6, <1>7

\* What a change of one kind does to the fields of the document.
LEMMA OtherChangesKeepTags ==
  ASSUME doc \in Document, NEW q \in Ask, q.kind # "tags"
  PROVE  Changed(q).tags = doc.tags
  <1>1. q.was.star \in BOOLEAN
    BY DEF Ask, Document
  <1>2. PICK b \in BOOLEAN : b = ~q.was.star
    BY <1>1
  <1>3. Changed(q) \in {[doc EXCEPT !.status = "ARCHIVED"], [doc EXCEPT !.status = "READY"],
                        [doc EXCEPT !.status = "PROCESSING"], [doc EXCEPT !.star = b], doc}
          \/ Changed(q) = [doc EXCEPT !.status = "PROCESSING", !.versions = doc.versions + 1]
    BY <1>2 DEF Changed
  <1>4. doc.versions + 1 \in Nat
    BY DEF Document
  <1>5. PICK n \in Nat : n = doc.versions + 1
    BY <1>4
  <1>6. [doc EXCEPT !.status = "PROCESSING", !.versions = n].tags = doc.tags
    BY DEF Document
  <1>7. QED
    BY <1>3, <1>5, <1>6 DEF Document

LEMMA MayGoIsTags ==
  ASSUME editor \in Editor
  PROVE  MayGo \subseteq AllTags
  BY DEF MayGo, Editor

Spent == [asks : 0..MaxAsks, alterations : 0..MaxAlterations, refused : 0..MaxRefused]

LEMMA BoundsAreNat == MaxAsks \in Nat /\ MaxAlterations \in Nat /\ MaxRefused \in Nat
  BY DetailBoundsAssumption

LEMMA AskOneMore ==
  ASSUME used \in Spent, used.asks < MaxAsks
  PROVE  [used EXCEPT !.asks = @ + 1] \in Spent /\ used.asks + 1 \in Nat
  <1>1. PICK n \in 0..MaxAsks : n = used.asks + 1
    BY BoundsAreNat DEF Spent
  <1>2. [used EXCEPT !.asks = n] \in Spent
    BY DEF Spent
  <1>3. QED
    BY <1>1, <1>2, BoundsAreNat

\* What SendAsk adds: one typed request, sent and unanswered.
LEMMA SendAskIs ==
  ASSUME DetailTypeOK, NEW kind \in AskKinds, NEW tags \in SUBSET AllTags, NEW turn \in Nat,
         SendAsk(kind, tags, turn)
  PROVE  /\ used' \in Spent
         /\ \E q \in Ask : /\ asked' = Meet(q, asked)
                           /\ q.kind = kind /\ q.at = "sent" /\ q.turn = turn
                           /\ q.was = here.detail /\ q.tags = tags
                           /\ kind = "tags" => q.may = MayGo
  <1>1. used' = [used EXCEPT !.asks = @ + 1] /\ used.asks < MaxAsks
    BY DEF SendAsk
  <1>2. used' \in Spent /\ used.asks + 1 \in Nat
    BY <1>1, AskOneMore DEF DetailTypeOK, Spent
  <1>3. PICK m \in SUBSET AllTags : m = IF kind = "tags" THEN MayGo ELSE {}
    BY MayGoIsTags DEF DetailTypeOK
  <1>4. PICK n \in Nat : n = used.asks + 1
    BY <1>2
  <1>5. here.detail \in Document
    BY DEF DetailTypeOK, Here
  <1>6. PICK q : q = [id |-> n, kind |-> kind, at |-> "sent", turn |-> turn,
                      was |-> here.detail, tags |-> tags, got |-> here.detail, met |-> FALSE,
                      may |-> m]
    OBVIOUS
  <1>7. q \in Ask
    BY <1>5, <1>6 DEF Ask
  <1>8. asked' = Meet(q, asked)
    BY <1>3, <1>4, <1>6, Zenon DEF SendAsk
  <1>9. QED
    BY <1>2, <1>3, <1>6, <1>7, <1>8

\* What an answer of the server does to a request.
Served(q, at, got) == [q EXCEPT !.at = at, !.got = got]

LEMMA ServedAsk ==
  ASSUME NEW q \in Ask, NEW at \in {"sent", "answered", "refused"}, NEW got \in Document
  PROVE  /\ Served(q, at, got) \in Ask
         /\ Served(q, at, got).at = at
         /\ Served(q, at, got).got = got
         /\ Served(q, at, got).id = q.id
         /\ Served(q, at, got).kind = q.kind
         /\ Served(q, at, got).turn = q.turn
         /\ Served(q, at, got).was = q.was
         /\ Served(q, at, got).tags = q.tags
         /\ Served(q, at, got).met = q.met
         /\ Served(q, at, got).may = q.may
  <1>1. PICK r \in Ask : r = [q EXCEPT !.at = at] /\ r.at = at /\ r.id = q.id /\ r.kind = q.kind
           /\ r.turn = q.turn /\ r.was = q.was /\ r.tags = q.tags /\ r.met = q.met /\ r.may = q.may
    <2>1. PICK r : r = [q EXCEPT !.at = at]
      OBVIOUS
    <2>2. /\ r \in Ask /\ r.at = at /\ r.id = q.id /\ r.kind = q.kind
          /\ r.turn = q.turn /\ r.was = q.was /\ r.tags = q.tags /\ r.met = q.met /\ r.may = q.may
      BY <2>1 DEF Ask
    <2>3. QED
      BY <2>1, <2>2
  <1>2. Served(q, at, got) = [r EXCEPT !.got = got]
    BY <1>1 DEF Served, Ask
  <1>3. QED
    BY <1>1, <1>2 DEF Ask

\* One step of the server: the request that it answers, and the document it leaves.
LEMMA ServeAskIs ==
  ASSUME DetailTypeOK, ServeAsk
  PROVE  /\ UNCHANGED <<chore, here, editor, events, adrift>>
         /\ used' \in Spent
         /\ \E q \in asked :
              /\ q.at = "sent"
              /\ \E at \in {"answered", "refused"}, got \in Document :
                   /\ asked' = (asked \ {q}) \cup {Served(q, at, got)}
                   /\ \/ /\ at = "answered" /\ Allowed(q.kind)
                         /\ doc' = Changed(q) /\ got = Changed(q)
                      \/ at = "refused" /\ doc' = doc
                      \/ at = "refused" /\ q.kind = "reprocess" /\ doc' = Changed(q)
  <1>1. UNCHANGED <<chore, here, editor, events, adrift>>
    BY DEF ServeAsk
  <1>2. PICK q \in asked : q.at = "sent" /\ (Perform(q) \/ Decline(q) \/ Break(q))
    BY DEF ServeAsk
  <1>3. q \in Ask /\ q.was \in Document /\ Changed(q) \in Document
    BY ChangedIsDocument DEF DetailTypeOK, Ask
  <1>4. CASE Perform(q)
    <2>1. asked' = (asked \ {q}) \cup {Served(q, "answered", Changed(q))}
      BY <1>4 DEF Perform, AnswerAsk, Served
    <2>2. used' \in Spent
      BY <1>4 DEF Perform, DetailTypeOK, Spent
    <2>3. Allowed(q.kind) /\ doc' = Changed(q)
      BY <1>4 DEF Perform
    <2>4. QED
      BY <1>1, <1>2, <1>3, <2>1, <2>2, <2>3
  <1>5. CASE Decline(q)
    <2>1. asked' = (asked \ {q}) \cup {Served(q, "refused", q.was)} /\ doc' = doc
      BY <1>5 DEF Decline, AnswerAsk, Served
    <2>2. used' \in Spent
      BY <1>5 DEF Decline, DetailTypeOK, Spent
    <2>3. QED
      BY <1>1, <1>2, <1>3, <2>1, <2>2
  <1>6. CASE Break(q)
    <2>1. asked' = (asked \ {q}) \cup {Served(q, "refused", q.was)}
      BY <1>6 DEF Break, AnswerAsk, Served
    <2>2. used' \in Spent
      <3>1. PICK n \in 0..MaxRefused : n = used.refused + 1
        BY <1>6, BoundsAreNat DEF Break, DetailTypeOK
      <3>2. [used EXCEPT !.refused = n] \in Spent
        BY DEF Spent, DetailTypeOK
      <3>3. QED
        BY <1>6, <3>1, <3>2 DEF Break
    <2>3. doc' = doc \/ (q.kind = "reprocess" /\ doc' = Changed(q))
      BY <1>6 DEF Break
    <2>4. QED
      BY <1>1, <1>2, <1>3, <2>1, <2>2, <2>3
  <1>7. QED
    BY <1>2, <1>4, <1>5, <1>6

PatchKinds == {"archive", "unarchive", "reprocess", "star", "tags"}

LEMMA PatchedIsDocument ==
  ASSUME NEW q \in Ask
  PROVE  Patched(q) \in Document
  <1>1. q.was \in Document /\ q.got.tags \subseteq AllTags
        /\ q.got.status \in {"READY", "PROCESSING", "ARCHIVED"}
    BY DEF Ask, Document
  <1>2. /\ [q.was EXCEPT !.tags = q.got.tags] \in Document
        /\ [q.was EXCEPT !.status = q.got.status] \in Document
    BY <1>1 DEF Document
  <1>3. QED
    BY <1>1, <1>2 DEF Patched

\* What every answer leaves alone.
LEMMA ArriveFrame ==
  ASSUME DetailTypeOK, NEW q \in asked, ArriveAsk(q)
  PROVE  /\ UNCHANGED <<chore, doc, events>>
         /\ q \in Ask
         /\ q.at \in {"answered", "refused"}
         /\ q.kind # "version" => asked' = asked \ {q} /\ used' = used
  <1>1. q \in Ask
    BY DEF DetailTypeOK
  <1>2. QED
    BY <1>1 DEF ArriveAsk, detailServer, Ask

\* The answer of a reading.
LEMMA ArriveLoad ==
  ASSUME DetailTypeOK, NEW q \in asked, ArriveAsk(q), q.kind = "load"
  PROVE  /\ here' \in Here /\ here'.turn = here.turn
         /\ q.turn # here.turn => UNCHANGED <<here, editor, adrift>>
         /\ q.turn = here.turn /\ q.at = "answered" =>
              /\ here'.load = "ready" /\ here'.detail = q.got
              /\ here'.starring = here.starring
              /\ adrift' = q.met /\ editor' = editor
         /\ q.turn = here.turn /\ q.at = "refused" =>
              /\ here'.load = "error" /\ here'.detail = here.detail
              /\ adrift' = adrift
              /\ editor' = [ClosedEditor EXCEPT !.mount = editor.mount + 1]
  <1>1. q \in Ask /\ q.got \in Document /\ here \in Here
    BY DEF DetailTypeOK, Ask
  <1>2. q.at = "answered" => ShowRead(q)
    BY DEF ArriveAsk
  <1>3. q.at # "answered" => ShowFailure(q)
    BY DEF ArriveAsk
  <1>4. CASE q.turn # here.turn
    <2>1. here' = here /\ editor' = editor /\ adrift' = adrift
      BY <1>2, <1>3, <1>4 DEF ShowRead, ShowFailure, ThisRun
    <2>2. QED
      BY <1>1, <1>4, <2>1
  <1>5. CASE q.turn = here.turn /\ q.at = "answered"
    <2>1. /\ here' = [here EXCEPT !.load = "ready", !.detail = q.got]
          /\ adrift' = q.met
          /\ editor' = editor
      BY <1>2, <1>5 DEF ShowRead, ThisRun
    <2>2. PICK h : h = [here EXCEPT !.load = "ready"]
      OBVIOUS
    <2>3. h \in Here /\ h.turn = here.turn /\ h.starring = here.starring /\ h.load = "ready"
      BY <1>1, <2>2 DEF Here
    <2>4. here' = [h EXCEPT !.detail = q.got]
      BY <2>1, <2>2
    <2>5. /\ here' \in Here /\ here'.turn = here.turn /\ here'.starring = here.starring
          /\ here'.load = "ready" /\ here'.detail = q.got
      BY <1>1, <2>3, <2>4 DEF Here
    <2>6. QED
      BY <1>5, <2>1, <2>5
  <1>6. CASE q.turn = here.turn /\ q.at # "answered"
    <2>1. /\ here' = [here EXCEPT !.load = "error", !.busy = 0, !.starring = FALSE]
          /\ editor' = [ClosedEditor EXCEPT !.mount = editor.mount + 1]
          /\ adrift' = adrift
      BY <1>3, <1>6 DEF ShowFailure, ThisRun
    <2>2. PICK g : g = [here EXCEPT !.load = "error"]
      OBVIOUS
    <2>3. g \in Here /\ g.load = "error" /\ g.detail = here.detail /\ g.turn = here.turn
      BY <1>1, <2>2 DEF Here
    <2>4. PICK h : h = [g EXCEPT !.busy = 0]
      OBVIOUS
    <2>5. h \in Here /\ h.load = "error" /\ h.detail = here.detail /\ h.turn = here.turn
      BY <2>3, <2>4 DEF Here
    <2>6. here' = [h EXCEPT !.starring = FALSE]
      BY <2>1, <2>2, <2>4
    <2>7. here' \in Here /\ here'.load = "error" /\ here'.detail = here.detail
          /\ here'.turn = here.turn
      BY <2>5, <2>6 DEF Here
    <2>8. QED
      BY <1>6, <2>1, <2>7
  <1>7. QED
    BY <1>4, <1>5, <1>6

\* The answer of a new version: the document is read again when it was made.
LEMMA ArriveVersion ==
  ASSUME DetailTypeOK, NEW q \in asked, ArriveAsk(q), q.kind = "version"
  PROVE  /\ here' \in Here /\ here'.detail = here.detail /\ here'.load = here.load
         /\ here'.starring = here.starring
         /\ adrift' = adrift /\ editor' = editor
         /\ used' \in Spent
         /\ q.at = "answered" =>
              /\ here'.turn = here.turn + 1
              /\ \E r \in Ask : /\ asked' = Meet(r, asked \ {q})
                                /\ r.kind = "load" /\ r.at = "sent" /\ r.turn = here.turn + 1
         /\ q.at = "refused" => here'.turn = here.turn /\ asked' = asked \ {q}
  <1>1. q \in Ask /\ here \in Here /\ here.turn \in Nat
    BY DEF DetailTypeOK, Here
  <1>2. EndVersion(q) /\ adrift' = adrift /\ editor' = editor
    BY DEF ArriveAsk
  <1>5. PICK h : h = [here EXCEPT !.busy = IF @ = q.id THEN 0 ELSE @]
    OBVIOUS
  <1>6. /\ h \in Here /\ h.detail = here.detail /\ h.load = here.load
        /\ h.starring = here.starring /\ h.turn = here.turn
    BY <1>1, <1>5 DEF Here
  <1>3. CASE q.at = "answered"
    <2>1. used.asks < MaxAsks /\ used' = [used EXCEPT !.asks = @ + 1]
      BY <1>2, <1>3 DEF EndVersion
    <2>2. used' \in Spent /\ used.asks + 1 \in Nat
      BY <2>1, AskOneMore DEF DetailTypeOK, Spent
    <2>3. PICK n \in Nat, m \in Nat : n = used.asks + 1 /\ m = here.turn + 1
      BY <1>1, <2>2
    <2>4. PICK r : r = [q EXCEPT !.id = n, !.kind = "load", !.at = "sent", !.turn = m]
      OBVIOUS
    <2>5. r \in Ask /\ r.kind = "load" /\ r.at = "sent" /\ r.turn = m
      <3>1. PICK a : a = [q EXCEPT !.id = n]
        OBVIOUS
      <3>2. a \in Ask
        BY <1>1, <3>1 DEF Ask
      <3>3. PICK b : b = [a EXCEPT !.kind = "load"]
        OBVIOUS
      <3>4. b \in Ask /\ b.kind = "load"
        BY <3>2, <3>3 DEF Ask, AskKinds
      <3>5. PICK c : c = [b EXCEPT !.at = "sent"]
        OBVIOUS
      <3>6. c \in Ask /\ c.kind = "load" /\ c.at = "sent"
        BY <3>4, <3>5 DEF Ask
      <3>7. r = [c EXCEPT !.turn = m]
        BY <2>4, <3>1, <3>3, <3>5
      <3>8. QED
        BY <3>6, <3>7 DEF Ask
    <2>6. asked' = Meet(r, asked \ {q})
      BY <1>2, <1>3, <2>3, <2>4, Zenon DEF EndVersion
    <2>7. here' = [h EXCEPT !.turn = m]
      BY <1>2, <1>3, <1>5, <1>6, <2>3 DEF EndVersion
    <2>8. here' \in Here /\ here'.detail = here.detail /\ here'.load = here.load
          /\ here'.starring = here.starring /\ here'.turn = m
      BY <1>6, <2>3, <2>7 DEF Here
    <2>9. QED
      BY <1>2, <1>3, <2>2, <2>3, <2>5, <2>6, <2>8
  <1>4. CASE q.at # "answered"
    <2>1. here' = h /\ asked' = asked \ {q} /\ used' = used
      BY <1>2, <1>4, <1>5 DEF EndVersion
    <2>2. QED
      BY <1>2, <1>4, <1>6, <2>1 DEF DetailTypeOK, Spent
  <1>7. QED
    BY <1>3, <1>4

\* The answer of another change: the document of its own render, with what is new.
LEMMA ArrivePatch ==
  ASSUME DetailTypeOK, NEW q \in asked, ArriveAsk(q), q.kind \in PatchKinds
  PROVE  /\ here' \in Here /\ here'.turn = here.turn
         /\ here'.starring <=> (here.starring /\ q.kind # "star")
         /\ Writes(q) => /\ here'.load = "ready" /\ here'.detail = Patched(q)
                         /\ adrift' = (adrift \/ q.met \/ Undoes(q) \/ here.load = "error")
         /\ ~Writes(q) => /\ here'.load = here.load /\ here'.detail = here.detail
                          /\ adrift' = (adrift \/ q.met)
  <1>1. q \in Ask /\ here \in Here /\ Patched(q) \in Document
    BY PatchedIsDocument DEF DetailTypeOK
  <1>2. ShowPatch(q)
    BY DEF ArriveAsk, PatchKinds
  <1>3. PICK b \in BOOLEAN : b <=> (here.starring /\ q.kind # "star")
    OBVIOUS
  <1>4. b = (here.starring /\ q.kind # "star")
    BY <1>1, <1>3 DEF Here
  <1>5. PICK h : h = [here EXCEPT !.starring = b]
    OBVIOUS
  <1>6. /\ h \in Here /\ h.starring = b /\ h.turn = here.turn /\ h.load = here.load
        /\ h.detail = here.detail
    BY <1>1, <1>5 DEF Here
  <1>7. h = [here EXCEPT !.starring = @ /\ q.kind # "star"]
    BY <1>4, <1>5, Zenon
  <1>8. CASE Writes(q)
    <2>1. /\ here' = [h EXCEPT !.detail = Patched(q), !.load = "ready"]
          /\ adrift' = (adrift \/ q.met \/ Undoes(q) \/ here.load = "error")
      BY <1>2, <1>7, <1>8, Zenon DEF ShowPatch
    <2>2. PICK g : g = [h EXCEPT !.detail = Patched(q)]
      OBVIOUS
    <2>3. g \in Here /\ g.turn = here.turn /\ g.starring = b /\ g.detail = Patched(q)
      BY <1>1, <1>6, <2>2 DEF Here
    <2>4. here' = [g EXCEPT !.load = "ready"]
      BY <2>1, <2>2
    <2>5. here' \in Here /\ here'.turn = here.turn /\ here'.starring = b /\ here'.load = "ready"
          /\ here'.detail = Patched(q)
      BY <2>3, <2>4 DEF Here
    <2>6. QED
      BY <1>3, <1>8, <2>1, <2>5
  <1>9. CASE ~Writes(q)
    <2>1. here' = h /\ adrift' = (adrift \/ q.met)
      BY <1>2, <1>7, <1>9, Zenon DEF ShowPatch
    <2>2. QED
      BY <1>3, <1>6, <1>9, <2>1
  <1>10. QED
    BY <1>8, <1>9

\* The answers that the tag editor waits for.
LEMMA ArriveInEditor ==
  ASSUME DetailTypeOK, NEW q \in asked, ArriveAsk(q)
  PROVE  /\ editor' \in Editor
         /\ \/ editor' = editor
            \/ ~editor'.open
            \/ /\ editor'.open = editor.open /\ editor'.raced = editor.raced
               /\ editor'.known = editor.known /\ editor'.takenOff = editor.takenOff
               /\ \/ editor'.selected = editor.selected
                  \/ q.kind = "create" /\ editor'.selected = q.tags \cup {NewTag}
            \/ /\ q.kind = "list" /\ editor'.selected = editor'.known
               /\ editor'.raced <=> BeingCreated
  <1>1. /\ q \in Ask /\ editor \in Editor /\ q.was.tags \subseteq AllTags
        /\ q.tags \cup {NewTag} \subseteq AllTags
    BY DEF DetailTypeOK, Ask, Document, AllTags
  <1>2. CASE q.kind = "load"
    <2>1. editor' = editor \/ editor' = [ClosedEditor EXCEPT !.mount = editor.mount + 1]
      BY <1>1, <1>2, ArriveLoad, ArriveFrame
    <2>2. editor.mount + 1 \in Nat
      BY <1>1 DEF Editor
    <2>3. ClosedEditor \in Editor /\ ~ClosedEditor.open
      BY DEF ClosedEditor, Editor
    <2>4. PICK n \in Nat : n = editor.mount + 1
      BY <2>2
    <2>5. PICK e : e = [ClosedEditor EXCEPT !.mount = n]
      OBVIOUS
    <2>6. e \in Editor /\ ~e.open
      BY <2>3, <2>4, <2>5 DEF Editor
    <2>7. QED
      BY <1>1, <2>1, <2>4, <2>5, <2>6
  <1>3. CASE q.kind = "list" /\ Mounted(q) /\ q.at = "answered"
    <2>1. editor' = [editor EXCEPT !.loading = FALSE, !.open = TRUE, !.selected = q.was.tags,
                                   !.known = q.was.tags, !.takenOff = {}, !.raced = BeingCreated]
      BY <1>3 DEF ArriveAsk, OpenEditor, TagsOf
    <2>2. PICK b \in BOOLEAN : b = BeingCreated
      BY DEF BeingCreated
    <2>3. PICK t \in SUBSET AllTags : t = q.was.tags
      BY <1>1
    <2>4. PICK a : a = [editor EXCEPT !.loading = FALSE, !.open = TRUE]
      OBVIOUS
    <2>5. a \in Editor
      BY <1>1, <2>4 DEF Editor
    <2>6. PICK c : c = [a EXCEPT !.selected = t]
      OBVIOUS
    <2>7. c \in Editor /\ c.selected = t
      BY <2>5, <2>6 DEF Editor
    <2>8. PICK d : d = [c EXCEPT !.known = t]
      OBVIOUS
    <2>9. d \in Editor /\ d.selected = t /\ d.known = t
      BY <2>7, <2>8 DEF Editor
    <2>10. PICK e : e = [d EXCEPT !.takenOff = {}]
      OBVIOUS
    <2>11. e \in Editor /\ e.selected = t /\ e.known = t
      BY <2>9, <2>10 DEF Editor
    <2>12. editor' = [e EXCEPT !.raced = b]
      BY <2>1, <2>2, <2>3, <2>4, <2>6, <2>8, <2>10
    <2>13. editor' \in Editor /\ editor'.selected = t /\ editor'.known = t /\ editor'.raced = b
      BY <2>11, <2>12 DEF Editor
    <2>14. QED
      BY <1>3, <2>2, <2>13
  <1>4. CASE q.kind = "list" /\ Mounted(q) /\ q.at # "answered"
    <2>1. editor' = [editor EXCEPT !.loading = FALSE]
      BY <1>4 DEF ArriveAsk, OpenEditor
    <2>2. QED
      BY <1>1, <2>1 DEF Editor
  <1>5. CASE q.kind = "create" /\ Mounted(q)
    <2>1. editor' = [editor EXCEPT !.creating = IF @ = q.id THEN 0 ELSE @,
                                   !.selected = IF q.at = "answered" THEN q.tags \cup {NewTag} ELSE @]
      BY <1>5 DEF ArriveAsk, AddCreated
    <2>2. PICK n \in Nat : n = IF editor.creating = q.id THEN 0 ELSE editor.creating
      BY <1>1 DEF Editor
    <2>3. PICK s \in SUBSET AllTags :
            /\ s = IF q.at = "answered" THEN q.tags \cup {NewTag} ELSE editor.selected
      BY <1>1 DEF Editor
    <2>4. PICK a : a = [editor EXCEPT !.creating = n]
      OBVIOUS
    <2>5. a \in Editor /\ a.open = editor.open /\ a.raced = editor.raced /\ a.known = editor.known
          /\ a.takenOff = editor.takenOff
      BY <1>1, <2>4 DEF Editor
    <2>6. editor' = [a EXCEPT !.selected = s]
      BY <2>1, <2>2, <2>3, <2>4, Zenon
    <2>7. /\ editor' \in Editor /\ editor'.open = editor.open /\ editor'.raced = editor.raced
          /\ editor'.known = editor.known /\ editor'.takenOff = editor.takenOff
          /\ editor'.selected = s
      BY <2>5, <2>6 DEF Editor
    <2>8. s = editor.selected \/ s = q.tags \cup {NewTag}
      BY <2>3
    <2>9. QED
      BY <1>5, <2>7, <2>8
  <1>6. CASE q.kind = "tags" /\ Mounted(q)
    <2>1. EndSave(q)
      BY <1>6 DEF ArriveAsk
    <2>2. CASE q.at = "refused"
      <3>1. editor' = [editor EXCEPT !.saving = FALSE]
        BY <2>1, <2>2 DEF EndSave
      <3>2. QED
        BY <1>1, <3>1 DEF Editor
    <2>3. CASE q.at # "refused"
      <3>1. editor' = [editor EXCEPT !.saving = FALSE, !.open = FALSE, !.creating = 0]
        BY <2>1, <2>3 DEF EndSave
      <3>2. PICK a : a = [editor EXCEPT !.saving = FALSE]
        OBVIOUS
      <3>3. a \in Editor
        BY <1>1, <3>2 DEF Editor
      <3>4. PICK b : b = [a EXCEPT !.open = FALSE]
        OBVIOUS
      <3>5. b \in Editor /\ ~b.open
        BY <3>3, <3>4 DEF Editor
      <3>6. editor' = [b EXCEPT !.creating = 0]
        BY <3>1, <3>2, <3>4
      <3>7. editor' \in Editor /\ ~editor'.open
        BY <3>5, <3>6 DEF Editor
      <3>8. QED
        BY <3>7
    <2>4. QED
      BY <2>2, <2>3
  <1>7. CASE /\ q.kind # "load"
             /\ ~(q.kind = "list" /\ Mounted(q))
             /\ ~(q.kind = "create" /\ Mounted(q))
             /\ ~(q.kind = "tags" /\ Mounted(q))
    <2>1. editor' = editor
      BY <1>7 DEF ArriveAsk
    <2>2. QED
      BY <1>1, <2>1
  <1>8. QED
    BY <1>2, <1>3, <1>4, <1>5, <1>6, <1>7

\* The editor but for its pending calls.
SameChoice ==
  /\ editor'.open = editor.open /\ editor'.raced = editor.raced
  /\ editor'.known = editor.known /\ editor'.takenOff = editor.takenOff
  /\ editor'.selected = editor.selected

Sending ==
  \/ RetryRead \/ HearStatus \/ ToggleStar \/ AskForEditor \/ CreateTag \/ SaveTags
  \/ \E kind \in OwnKinds : Press(kind)

\* What a request q that is sent is, and what the page does with it.
SendingForm(q) ==
  \/ /\ q.kind = "load" /\ q.turn = here.turn + 1 /\ here'.turn = here.turn + 1
     /\ here'.load = here.load /\ here'.detail = here.detail /\ here'.starring = here.starring
     /\ editor' = editor /\ events' \in Nat
  \/ /\ q.kind \in {"archive", "unarchive", "reprocess", "version"}
     /\ Ready /\ here'.turn = here.turn
     /\ here'.load = here.load /\ here'.detail = here.detail /\ here'.starring = here.starring
     /\ editor' = editor /\ events' = events
  \/ /\ q.kind = "star" /\ Ready /\ ~here.starring
     /\ here'.turn = here.turn /\ here'.load = here.load /\ here'.starring = TRUE
     /\ here'.detail.star = ~here.detail.star
     /\ here'.detail.status = here.detail.status
     /\ here'.detail.versions = here.detail.versions
     /\ editor' = editor /\ events' = events
  \/ /\ q.kind \in {"list", "create", "tags"}
     /\ here' = here /\ Ready /\ SameChoice /\ events' = events
     /\ q.kind # "list" => q.tags = editor.selected /\ editor.open

LEMMA ReadAgainIs ==
  ASSUME DetailTypeOK, ReadAgain
  PROVE  /\ here' \in Here /\ used' \in Spent /\ here'.turn = here.turn + 1
         /\ here'.load = here.load /\ here'.detail = here.detail /\ here'.starring = here.starring
         /\ \E q \in Ask : /\ asked' = Meet(q, asked) /\ q.kind = "load" /\ q.at = "sent"
                           /\ q.turn = here.turn + 1 /\ q.was = here.detail
  <1>1. here \in Here /\ here.turn + 1 \in Nat /\ "load" \in AskKinds
    BY DEF DetailTypeOK, Here, AskKinds
  <1>2. SendAsk("load", {}, here.turn + 1) /\ here' = [here EXCEPT !.turn = @ + 1]
    BY DEF ReadAgain
  <1>3. PICK n \in Nat : n = here.turn + 1
    BY <1>1
  <1>4. here' \in Here /\ here'.turn = n
        /\ here'.load = here.load /\ here'.detail = here.detail /\ here'.starring = here.starring
    BY <1>1, <1>2, <1>3 DEF Here
  <1>5. QED
    BY <1>1, <1>2, <1>3, <1>4, SendAskIs

LEMMA SendingIs ==
  ASSUME DetailTypeOK, Sending
  PROVE  /\ UNCHANGED <<chore, doc, adrift>>
         /\ here' \in Here /\ editor' \in Editor /\ used' \in Spent
         /\ \E q \in Ask : /\ asked' = Meet(q, asked) /\ q.at = "sent" /\ q.was = here.detail
                           /\ SendingForm(q)
                           /\ q.kind = "tags" => q.may = MayGo
  <1>1. /\ here \in Here /\ here.detail \in Document /\ here.turn \in Nat /\ editor \in Editor
        /\ editor.mount \in Nat /\ editor.selected \subseteq AllTags /\ events \in Nat
    BY DEF DetailTypeOK, Here, Editor
  <1>2. OwnKinds \subseteq AskKinds /\ {"list", "create", "load"} \subseteq AskKinds
        /\ {"star", "tags", "archive", "unarchive", "reprocess", "version"} \subseteq AskKinds
    BY DEF AskKinds, OwnKinds
  <1>3. CASE RetryRead \/ HearStatus
    <2>1. ReadAgain /\ events' \in Nat /\ editor' = editor /\ UNCHANGED <<chore, doc, adrift>>
      BY <1>1, <1>3 DEF RetryRead, HearStatus, detailServer
    <2>2. PICK q \in Ask : /\ asked' = Meet(q, asked) /\ q.kind = "load" /\ q.at = "sent"
                           /\ q.turn = here.turn + 1 /\ q.was = here.detail
      BY <2>1, ReadAgainIs
    <2>3. SendingForm(q)
      BY <2>1, <2>2, ReadAgainIs DEF SendingForm
    <2>4. QED
      BY <1>1, <2>1, <2>2, <2>3, ReadAgainIs
  <1>4. ASSUME NEW kind \in OwnKinds, Press(kind)
        PROVE  /\ UNCHANGED <<chore, doc, adrift>>
               /\ here' \in Here /\ editor' \in Editor /\ used' \in Spent
               /\ \E q \in Ask : /\ asked' = Meet(q, asked) /\ q.at = "sent" /\ q.was = here.detail
                                 /\ SendingForm(q)
                                 /\ q.kind = "tags" => q.may = MayGo
    <2>1. kind \in {"archive", "unarchive", "reprocess", "version"}
      BY <1>4 DEF Press, MenuOffers, OwnKinds
    <2>2. /\ Ready /\ SendAsk(kind, {}, here.turn) /\ editor' = editor /\ events' = events
          /\ UNCHANGED <<chore, doc, adrift>>
          /\ here' = [here EXCEPT !.busy = IF kind = "version" THEN used.asks + 1 ELSE @]
      BY <1>4 DEF Press, detailServer
    <2>3. used.asks + 1 \in Nat
      BY BoundsAreNat DEF DetailTypeOK
    <2>4. PICK b \in Nat : b = IF kind = "version" THEN used.asks + 1 ELSE here.busy
      BY <1>1, <2>3 DEF Here
    <2>5. here' = [here EXCEPT !.busy = b]
      BY <2>2, <2>4
    <2>6. /\ here' \in Here /\ here'.turn = here.turn /\ here'.load = here.load
          /\ here'.detail = here.detail /\ here'.starring = here.starring
      BY <1>1, <2>5 DEF Here
    <2>7. {} \in SUBSET AllTags /\ kind \in AskKinds
      BY <1>2
    <2>8. used' \in Spent
      BY <1>1, <2>2, <2>7, SendAskIs
    <2>9. PICK q \in Ask : asked' = Meet(q, asked) /\ q.kind = kind /\ q.at = "sent"
                           /\ q.was = here.detail
      BY <1>1, <2>2, <2>7, SendAskIs
    <2>10. SendingForm(q)
      BY <2>1, <2>2, <2>6, <2>9 DEF SendingForm
    <2>11. QED
      BY <1>1, <2>1, <2>2, <2>6, <2>8, <2>9, <2>10
  <1>5. CASE ToggleStar
    <2>1. /\ Ready /\ ~here.starring /\ SendAsk("star", {}, here.turn) /\ editor' = editor
          /\ events' = events /\ UNCHANGED <<chore, doc, adrift>>
          /\ here' = [here EXCEPT !.starring = TRUE, !.detail.star = ~@]
      BY <1>5 DEF ToggleStar, detailServer
    <2>2. PICK b \in BOOLEAN : b = ~here.detail.star
      BY <1>1 DEF Document
    <2>3. PICK d : d = [here.detail EXCEPT !.star = b]
      OBVIOUS
    <2>4. /\ d \in Document /\ d.star = b /\ d.status = here.detail.status
          /\ d.versions = here.detail.versions
      BY <1>1, <2>3 DEF Document
    <2>5. PICK h : h = [here EXCEPT !.starring = TRUE]
      OBVIOUS
    <2>6. h \in Here /\ h.starring = TRUE /\ h.turn = here.turn /\ h.load = here.load
          /\ h.detail = here.detail
      BY <1>1, <2>5 DEF Here
    <2>7. here' = [h EXCEPT !.detail = d]
      <3>1. here' = [h EXCEPT !.detail = [h.detail EXCEPT !.star = ~h.detail.star]]
        BY <2>1, <2>5
      <3>2. QED
        BY <2>2, <2>3, <2>6, <3>1
    <2>8. here' \in Here /\ here'.starring = TRUE /\ here'.turn = here.turn
          /\ here'.load = here.load /\ here'.detail = d
      BY <2>4, <2>6, <2>7 DEF Here
    <2>9. {} \in SUBSET AllTags
      OBVIOUS
    <2>10. used' \in Spent
      BY <1>1, <1>2, <2>1, <2>9, SendAskIs
    <2>11. PICK q \in Ask : asked' = Meet(q, asked) /\ q.kind = "star" /\ q.at = "sent"
                           /\ q.was = here.detail
      BY <1>1, <1>2, <2>1, <2>9, SendAskIs
    <2>12. SendingForm(q)
      BY <2>1, <2>2, <2>4, <2>8, <2>11 DEF SendingForm
    <2>13. QED
      BY <1>1, <2>1, <2>8, <2>10, <2>11, <2>12
  <1>6. CASE AskForEditor \/ CreateTag \/ SaveTags
    <2>1. PICK kind \in {"list", "create", "tags"}, tags \in {{}, editor.selected} :
            /\ SendAsk(kind, tags, editor.mount) /\ (kind # "list" => tags = editor.selected /\ editor.open)
            /\ \/ editor' = [editor EXCEPT !.loading = TRUE]
               \/ editor' = [editor EXCEPT !.creating = used.asks + 1]
               \/ editor' = [editor EXCEPT !.saving = TRUE]
      BY <1>6 DEF AskForEditor, CreateTag, SaveTags, InEditor
    <2>2. Ready /\ here' = here /\ events' = events /\ UNCHANGED <<chore, doc, adrift>>
      BY <1>6 DEF AskForEditor, CreateTag, SaveTags, detailServer, InEditor
    <2>3. kind \in AskKinds /\ tags \in SUBSET AllTags
      BY <1>1, <1>2
    <2>4. used' \in Spent
      BY <1>1, <2>1, <2>3, SendAskIs
    <2>5. PICK n \in Nat : n = used.asks + 1
      BY BoundsAreNat DEF DetailTypeOK
    <2>6. editor' \in Editor /\ SameChoice
      BY <1>1, <2>1, <2>5 DEF Editor, SameChoice
    <2>7. PICK q \in Ask : asked' = Meet(q, asked) /\ q.kind = kind /\ q.at = "sent"
                           /\ q.was = here.detail /\ q.tags = tags
                           /\ (kind = "tags" => q.may = MayGo)
      BY <1>1, <2>1, <2>3, SendAskIs
    <2>8. SendingForm(q)
      BY <2>1, <2>2, <2>6, <2>7 DEF SendingForm
    <2>9. QED
      BY <1>1, <2>2, <2>4, <2>6, <2>7, <2>8
  <1>7. QED
    BY <1>3, <1>4, <1>5, <1>6 DEF Sending

Choosing == CancelEditor \/ \E t \in AllTags : Pick(t) \/ Unpick(t)

\* What the reader does in the open editor.
LEMMA ChoosingIs ==
  ASSUME DetailTypeOK, Choosing
  PROVE  /\ UNCHANGED <<chore, doc, here, asked, events, used, adrift>>
         /\ editor' \in Editor
         /\ \/ ~editor'.open
            \/ /\ editor'.open = editor.open /\ editor'.known = editor.known
               /\ editor'.raced <=> (editor.raced \/ BeingCreated)
               /\ \A t \in AllTags : t \in editor.selected \cup editor.takenOff
                                       => t \in editor'.selected \cup editor'.takenOff
  <1>1. editor \in Editor
    BY DEF DetailTypeOK
  <1>2. CASE CancelEditor
    <2>1. editor' = [editor EXCEPT !.open = FALSE, !.creating = 0]
      BY <1>2 DEF CancelEditor
    <2>2. PICK e : e = [editor EXCEPT !.open = FALSE]
      OBVIOUS
    <2>3. e \in Editor /\ ~e.open
      BY <1>1, <2>2 DEF Editor
    <2>4. editor' = [e EXCEPT !.creating = 0]
      BY <2>1, <2>2
    <2>5. editor' \in Editor /\ ~editor'.open
      BY <2>3, <2>4 DEF Editor
    <2>6. QED
      BY <1>2, <2>5 DEF CancelEditor, detailServer
  <1>3. ASSUME NEW t \in AllTags, Pick(t) \/ Unpick(t)
        PROVE  /\ UNCHANGED <<chore, doc, here, asked, events, used, adrift>>
               /\ editor' \in Editor
               /\ editor'.open = editor.open /\ editor'.known = editor.known
               /\ editor'.raced <=> (editor.raced \/ BeingCreated)
               /\ \A u \in AllTags : u \in editor.selected \cup editor.takenOff
                                       => u \in editor'.selected \cup editor'.takenOff
    <2>1. UNCHANGED <<chore, doc, here, asked, events, used, adrift>>
      BY <1>3 DEF Pick, Unpick, detailServer
    <2>2. PICK b \in BOOLEAN : b <=> (editor.raced \/ BeingCreated)
      OBVIOUS
    <2>3. b = (editor.raced \/ BeingCreated)
      BY <1>1, <2>2 DEF Editor
    <2>4. PICK s \in SUBSET AllTags, o \in SUBSET AllTags :
            /\ editor' = [editor EXCEPT !.selected = s, !.takenOff = o,
                                        !.raced = editor.raced \/ BeingCreated]
            /\ \A u \in AllTags : u \in editor.selected \cup editor.takenOff => u \in s \cup o
      <3>1. CASE Pick(t)
        <4>1. editor' = [editor EXCEPT !.selected = editor.selected \cup {t},
                                       !.takenOff = editor.takenOff \ {t},
                                       !.raced = editor.raced \/ BeingCreated]
          BY <3>1 DEF Pick
        <4>2. editor.selected \cup {t} \in SUBSET AllTags /\ editor.takenOff \ {t} \in SUBSET AllTags
          BY <1>1 DEF Editor
        <4>3. QED
          BY <4>1, <4>2
      <3>2. CASE Unpick(t)
        <4>1. editor' = [editor EXCEPT !.selected = editor.selected \ {t},
                                       !.takenOff = editor.takenOff \cup {t},
                                       !.raced = editor.raced \/ BeingCreated]
          BY <3>2 DEF Unpick
        <4>2. editor.selected \ {t} \in SUBSET AllTags /\ editor.takenOff \cup {t} \in SUBSET AllTags
          BY <1>1 DEF Editor
        <4>3. QED
          BY <4>1, <4>2
      <3>3. QED
        BY <1>3, <3>1, <3>2
    <2>5. editor' = [editor EXCEPT !.selected = s, !.takenOff = o, !.raced = b]
      BY <2>3, <2>4, Zenon
    <2>6. PICK a : a = [editor EXCEPT !.selected = s]
      OBVIOUS
    <2>7. a \in Editor /\ a.selected = s /\ a.open = editor.open /\ a.known = editor.known
      BY <1>1, <2>6 DEF Editor
    <2>8. PICK c : c = [a EXCEPT !.takenOff = o]
      OBVIOUS
    <2>9. c \in Editor /\ c.selected = s /\ c.takenOff = o /\ c.open = editor.open
          /\ c.known = editor.known
      BY <2>7, <2>8 DEF Editor
    <2>10. editor' = [c EXCEPT !.raced = b]
      BY <2>5, <2>6, <2>8
    <2>11. /\ editor' \in Editor /\ editor'.selected = s /\ editor'.takenOff = o
           /\ editor'.open = editor.open /\ editor'.known = editor.known /\ editor'.raced = b
      BY <2>9, <2>10 DEF Editor
    <2>12. QED
      BY <2>1, <2>2, <2>4, <2>11
  <1>4. QED
    BY <1>2, <1>3 DEF Choosing

\* Whether two requests spoil one another is a matter of their kinds.
LEMMA SpoiltByKind ==
  ASSUME NEW p, NEW q, NEW r, NEW s, p.kind = r.kind, q.kind = s.kind, Spoilt(p, q)
  PROVE  Spoilt(r, s)
  BY DEF Spoilt, Own

\* What the loss of an event does to a request.
Missed(q) == [q EXCEPT !.met = @ \/ (q.kind = "load" /\ q.at = "answered")]

LEMMA MissedAsk ==
  ASSUME NEW q \in Ask
  PROVE  /\ Missed(q) \in Ask
         /\ Alike(q, Missed(q))
         /\ Missed(q).met <=> q.met \/ (q.kind = "load" /\ q.at = "answered")
  <1>1. PICK b \in BOOLEAN : b <=> q.met \/ (q.kind = "load" /\ q.at = "answered")
    OBVIOUS
  <1>2. q.met \in BOOLEAN
    BY DEF Ask
  <1>3. (q.met \/ (q.kind = "load" /\ q.at = "answered")) = b
    BY <1>1, <1>2
  <1>4. Missed(q) = [q EXCEPT !.met = b]
    BY <1>3 DEF Missed
  <1>5. QED
    BY <1>1, <1>4 DEF Ask, Alike

\* What the loss of an event does to the requests: an answered reading is told.
LEMMA MissIs ==
  ASSUME DetailTypeOK, Miss
  PROVE  /\ adrift' = TRUE
         /\ asked' \subseteq Ask
         /\ \A r \in asked' : \E p \in asked : Alike(p, r)
         /\ \A r \in asked' : r.kind = "load" /\ r.at = "answered" => r.met
         /\ MetInv => MetInv'
  <1>1. asked' = {Missed(q) : q \in asked} /\ adrift' = TRUE /\ asked \in SUBSET Ask
    BY DEF Miss, Missed, DetailTypeOK
  <1>2. \A r \in asked' : \E p \in asked : Alike(p, r)
    BY <1>1, MissedAsk
  <1>3. asked' \subseteq Ask
    BY <1>1, MissedAsk
  <1>4. ASSUME NEW r \in asked', r.kind = "load", r.at = "answered" PROVE r.met
    <2>1. PICK p \in asked : r = Missed(p)
      BY <1>1
    <2>2. p.kind = "load" /\ p.at = "answered"
      BY <1>1, <1>4, <2>1, MissedAsk DEF Alike
    <2>3. QED
      BY <1>1, <2>1, <2>2, MissedAsk
  <1>5. ASSUME MetInv, NEW r \in asked', NEW s \in asked', r # s, Spoilt(r, s)
        PROVE  r.met
    <2>1. PICK p \in asked, o \in asked : r = Missed(p) /\ s = Missed(o)
      BY <1>1
    <2>2. p # o
      BY <1>5, <2>1
    <2>3. r.kind = p.kind /\ s.kind = o.kind
      BY <1>1, <2>1, MissedAsk DEF Alike
    <2>4. Spoilt(p, o)
      BY <1>5, <2>3, SpoiltByKind
    <2>5. p.met
      BY <1>5, <2>2, <2>4 DEF MetInv
    <2>6. QED
      BY <1>1, <2>1, <2>5, MissedAsk
  <1>6. QED
    BY <1>1, <1>2, <1>3, <1>4, <1>5 DEF MetInv

Outside == EndRun \/ Colleague \/ Disconnect

\* The colleague's and the worker's steps, and the loss of the stream.
LEMMA OutsideIs ==
  ASSUME DetailTypeOK, Outside
  PROVE  /\ UNCHANGED <<chore, here, editor>>
         /\ doc' \in Document /\ events' \in Nat /\ used' \in Spent
         /\ \/ Miss
            \/ /\ UNCHANGED <<asked, adrift>>
               /\ \/ doc.status = "PROCESSING" /\ events' > 0
                  \/ doc'.status = "PROCESSING" /\ events' = events
                  \/ Same(doc', doc) /\ events' = events
         /\ doc.tags \subseteq doc'.tags
  <1>1. doc \in Document /\ events \in Nat /\ used \in Spent
    BY DEF DetailTypeOK, Spent
  <1>2. CASE EndRun
    <2>1. /\ doc' = [doc EXCEPT !.status = "READY"] /\ used' = used
          /\ doc.status = "PROCESSING" /\ UNCHANGED <<chore, here, editor>>
          /\ \/ events' = events + 1 /\ UNCHANGED <<asked, adrift>>
             \/ Miss /\ events' = events
      BY <1>2 DEF EndRun
    <2>2. doc' \in Document /\ doc'.tags = doc.tags
      BY <1>1, <2>1 DEF Document
    <2>3. CASE events' = events + 1 /\ UNCHANGED <<asked, adrift>>
      BY <1>1, <2>1, <2>2, <2>3
    <2>4. CASE Miss /\ events' = events
      BY <1>1, <2>1, <2>2, <2>4
    <2>5. QED
      BY <2>1, <2>3, <2>4
  <1>3. CASE Colleague
    <2>1. used' \in Spent
      <3>1. PICK n \in 0..MaxAlterations : n = used.alterations + 1
        BY <1>1, <1>3, BoundsAreNat DEF Colleague, Spent
      <3>2. [used EXCEPT !.alterations = n] \in Spent
        BY <1>1 DEF Spent
      <3>3. QED
        BY <1>3, <3>1, <3>2 DEF Colleague
    <2>2. events' = events /\ UNCHANGED <<chore, here, editor, asked, adrift>>
      BY <1>3 DEF Colleague
    <2>3. CASE doc' = Changed([kind |-> "version"])
      <3>1. doc' = [doc EXCEPT !.status = "PROCESSING", !.versions = @ + 1]
        BY <2>3 DEF Changed
      <3>2. PICK n \in Nat : n = doc.versions + 1
        BY <1>1 DEF Document
      <3>3. PICK d : d = [doc EXCEPT !.status = "PROCESSING"]
        OBVIOUS
      <3>4. d \in Document /\ d.tags = doc.tags /\ d.status = "PROCESSING"
        BY <1>1, <3>3 DEF Document
      <3>5. doc' = [d EXCEPT !.versions = n]
        BY <3>1, <3>2, <3>3
      <3>6. doc' \in Document /\ doc'.status = "PROCESSING" /\ doc'.tags = doc.tags
        BY <3>4, <3>5 DEF Document
      <3>7. QED
        BY <1>1, <2>1, <2>2, <3>6
    <2>4. ASSUME NEW t \in TagNames, doc' = [doc EXCEPT !.tags = @ \cup {t}]
          PROVE  doc' \in Document /\ Same(doc', doc) /\ doc.tags \subseteq doc'.tags
      <3>1. doc.tags \cup {t} \subseteq AllTags
        BY <1>1 DEF Document, AllTags
      <3>2. QED
        BY <1>1, <2>4, <3>1 DEF Document, Same
    <2>5. QED
      BY <1>1, <1>3, <2>1, <2>2, <2>3, <2>4 DEF Colleague
  <1>4. CASE Disconnect
    <2>1. UNCHANGED <<chore, doc, here, editor, used>> /\ events' = 0
      BY <1>4 DEF Disconnect, detailServer
    <2>2. Same(doc', doc) /\ doc.tags \subseteq doc'.tags
      BY <2>1 DEF Same
    <2>3. CASE events > 0
      BY <1>1, <1>4, <2>1, <2>2, <2>3 DEF Disconnect
    <2>4. CASE ~(events > 0)
      <3>1. events' = events
        BY <1>1, <2>1, <2>4
      <3>2. UNCHANGED <<asked, adrift>>
        BY <1>4, <2>4 DEF Disconnect
      <3>3. QED
        BY <1>1, <2>1, <2>2, <3>1, <3>2
    <2>5. QED
      BY <2>3, <2>4
  <1>5. QED
    BY <1>2, <1>3, <1>4 DEF Outside

Aside == Reconnect \/ LeaveVersions

\* The stream that is open again, and another tab of the page.
LEMMA AsideIs ==
  ASSUME DetailTypeOK, Aside
  PROVE  /\ UNCHANGED <<chore, doc, editor, asked, events, used, adrift>>
         /\ here' \in Here /\ here'.load = here.load /\ here'.detail = here.detail
         /\ here'.turn = here.turn /\ here'.starring = here.starring
  <1>1. here \in Here
    BY DEF DetailTypeOK
  <1>2. UNCHANGED <<chore, doc, editor, asked, events, used, adrift>>
    BY DEF Aside, Reconnect, LeaveVersions, detailServer
  <1>3. here' = here \/ here' = [here EXCEPT !.busy = 0]
    BY DEF Aside, Reconnect, LeaveVersions
  <1>4. QED
    BY <1>1, <1>2, <1>3 DEF Here

\* Only the stream's own steps open or close it.
LEMMA StreamIsTyped ==
  ASSUME DetailTypeOK, DetailNext
  PROVE  streaming' \in BOOLEAN
  <1>1. streaming \in BOOLEAN
    BY DEF DetailTypeOK
  <1>2. CASE Reconnect \/ Disconnect
    BY <1>2 DEF Reconnect, Disconnect
  <1>3. CASE LeaveVersions \/ ServeAsk \/ EndRun \/ Colleague \/ Choosing
    BY <1>1, <1>3 DEF LeaveVersions, ServeAsk, EndRun, Colleague, Choosing, Pick, Unpick,
                      CancelEditor
  <1>4. CASE Sending
    BY <1>1, <1>4 DEF Sending, RetryRead, HearStatus, ToggleStar, AskForEditor, CreateTag,
                      SaveTags, Press
  <1>5. ASSUME NEW q \in asked, ArriveAsk(q) PROVE streaming' \in BOOLEAN
    BY <1>1, <1>5 DEF ArriveAsk
  <1>6. QED
    BY <1>2, <1>3, <1>4, <1>5 DEF DetailNext, Sending, Choosing

\* The disjuncts of the next-state relation, gathered.
LEMMA StepKinds ==
  ASSUME DetailNext
  PROVE  \/ Sending \/ Choosing \/ Aside \/ ServeAsk \/ Outside
         \/ \E q \in asked : ArriveAsk(q)
  BY DEF DetailNext, Sending, Choosing, Aside, Outside

LEMMA ArriveTyped ==
  ASSUME DetailTypeOK, NEW q \in asked, ArriveAsk(q)
  PROVE  here' \in Here /\ used' \in Spent /\ asked' \subseteq Ask
         /\ (adrift \in BOOLEAN => adrift' \in BOOLEAN)
  <1>1. /\ q \in Ask /\ asked \subseteq Ask /\ asked \ {q} \in SUBSET Ask /\ here \in Here
        /\ used \in Spent /\ q.met \in BOOLEAN /\ adrift \in BOOLEAN
    BY DEF DetailTypeOK, Spent, Ask
  <1>2. CASE q.kind = "load"
    <2>1. asked' = asked \ {q} /\ used' = used
      BY <1>2, ArriveFrame
    <2>2. adrift' \in {adrift, q.met} /\ here' \in Here
      BY <1>2, ArriveLoad, ArriveFrame
    <2>3. QED
      BY <1>1, <2>1, <2>2
  <1>3. CASE q.kind = "version"
    <2>1. used' \in Spent /\ here' \in Here /\ adrift' = adrift
      BY <1>3, ArriveVersion
    <2>2. asked' = asked \ {q} \/ \E r \in Ask : asked' = Meet(r, asked \ {q})
      BY <1>3, ArriveVersion, ArriveFrame
    <2>3. QED
      BY <1>1, <2>1, <2>2, Sent
  <1>4. CASE q.kind \in PatchKinds
    <2>1. asked' = asked \ {q} /\ used' = used
      BY <1>4, ArriveFrame DEF PatchKinds
    <2>2. here' \in Here
      BY <1>4, ArrivePatch
    <2>3. adrift' \in BOOLEAN
      BY <1>4, ArrivePatch
    <2>4. QED
      BY <1>1, <2>1, <2>2, <2>3
  <1>5. CASE q.kind \in {"list", "create"}
    <2>1. asked' = asked \ {q} /\ used' = used
      BY <1>5, ArriveFrame
    <2>2. here' = here /\ adrift' = adrift
      BY <1>5 DEF ArriveAsk
    <2>3. QED
      BY <1>1, <2>1, <2>2
  <1>6. QED
    BY <1>1, <1>2, <1>3, <1>4, <1>5 DEF Ask, AskKinds, OwnKinds, PatchKinds

\* The page, its editor, the requests under way and the document on the server are
\* always what the types of document-detail-view.tsx say.
THEOREM DetailIsTyped == DetailSpec => []DetailTypeOK
  <1>1. DetailInit => DetailTypeOK
    <2>1. SUFFICES ASSUME DetailInit PROVE DetailTypeOK
      OBVIOUS
    <2>2. chore \in Chores /\ events = 0 /\ adrift = FALSE /\ streaming \in BOOLEAN
      BY <2>1 DEF DetailInit
    <2>3. doc \in Document
      <3>1. (IF "tags" \in chore THEN SUBSET TagNames ELSE {{}}) \subseteq SUBSET AllTags
        BY DEF AllTags
      <3>2. doc \in [status : {"READY", "PROCESSING", "ARCHIVED"}, versions : {1}, star : {FALSE},
                     tags : IF "tags" \in chore THEN SUBSET TagNames ELSE {{}}]
        BY <2>1 DEF DetailInit
      <3>3. PICK ts : ts = IF "tags" \in chore THEN SUBSET TagNames ELSE {{}}
        OBVIOUS
      <3>4. doc \in [status : {"READY", "PROCESSING", "ARCHIVED"}, versions : {1}, star : {FALSE},
                     tags : ts]
        BY <3>2, <3>3, Zenon
      <3>5. ts \subseteq SUBSET AllTags
        BY <3>1, <3>3
      <3>6. PICK s \in {"READY", "PROCESSING", "ARCHIVED"}, t \in ts :
              doc = [status |-> s, versions |-> 1, star |-> FALSE, tags |-> t]
        BY <3>4
      <3>7. t \in SUBSET AllTags
        BY <3>5
      <3>8. QED
        BY <3>6, <3>7 DEF Document
    <2>4. here \in Here
      BY <2>1, <2>3 DEF DetailInit, Here
    <2>5. editor \in Editor
      BY <2>1 DEF DetailInit, ClosedEditor, Editor
    <2>6. asked \subseteq Ask
      <3>1. "load" \in AskKinds /\ {} \in SUBSET AllTags
        BY DEF AskKinds
      <3>2. FirstLoad(doc) \in Ask
        BY <2>3, <3>1 DEF FirstLoad, Ask
      <3>3. QED
        BY <2>1, <3>2 DEF DetailInit
    <2>7. used \in Spent
      <3>1. 1 \in 0..MaxAsks /\ 0 \in 0..MaxAlterations /\ 0 \in 0..MaxRefused
        BY BoundsAreNat, DetailBoundsAssumption
      <3>2. QED
        BY <2>1, <3>1 DEF DetailInit, Spent
    <2>8. QED
      BY <2>2, <2>3, <2>4, <2>5, <2>6, <2>7 DEF DetailTypeOK, Spent
  <1>2. DetailTypeOK /\ [DetailNext]_detailVars => DetailTypeOK'
    <2>0. CASE UNCHANGED detailVars
      BY <2>0 DEF detailVars, detailServer, DetailTypeOK
    <2>1. SUFFICES ASSUME DetailTypeOK, DetailNext PROVE DetailTypeOK'
      BY <2>0
    <2>2. /\ chore \in Chores /\ doc \in Document /\ here \in Here /\ editor \in Editor
          /\ asked \in SUBSET Ask /\ events \in Nat /\ used \in Spent /\ adrift \in BOOLEAN
      BY <2>1 DEF DetailTypeOK, Spent
    <2>3. streaming' \in BOOLEAN
      BY <2>1, StreamIsTyped
    <2>4. CASE Sending
      <3>1. /\ UNCHANGED <<chore, doc, adrift>>
            /\ here' \in Here /\ editor' \in Editor /\ used' \in Spent
        BY <2>1, <2>4, SendingIs
      <3>2. PICK q \in Ask : asked' = Meet(q, asked) /\ SendingForm(q)
        BY <2>1, <2>4, SendingIs
      <3>3. asked' \subseteq Ask /\ events' \in Nat
        BY <2>2, <3>2, Sent DEF SendingForm
      <3>4. QED
        BY <2>2, <2>3, <3>1, <3>3 DEF DetailTypeOK, Spent
    <2>5. CASE Choosing
      <3>1. UNCHANGED <<chore, doc, here, asked, events, used, adrift>> /\ editor' \in Editor
        BY <2>1, <2>5, ChoosingIs
      <3>2. QED
        BY <2>2, <2>3, <3>1 DEF DetailTypeOK, Spent
    <2>6. CASE ServeAsk
      <3>1. UNCHANGED <<chore, here, editor, events, adrift>> /\ used' \in Spent
        BY <2>1, <2>6, ServeAskIs
      <3>2. PICK q \in asked, at \in {"answered", "refused"}, got \in Document :
              /\ asked' = (asked \ {q}) \cup {Served(q, at, got)}
              /\ doc' = doc \/ doc' = Changed(q)
        BY <2>1, <2>6, ServeAskIs
      <3>3. q \in Ask
        BY <2>2
      <3>4. doc' \in Document
        BY <2>2, <3>2, <3>3, ChangedIsDocument
      <3>5. Served(q, at, got) \in Ask
        BY <3>3, ServedAsk
      <3>6. QED
        BY <2>2, <2>3, <3>1, <3>2, <3>4, <3>5 DEF DetailTypeOK, Spent
    <2>7. CASE Outside
      <3>1. /\ UNCHANGED <<chore, here, editor>>
            /\ doc' \in Document /\ events' \in Nat /\ used' \in Spent
            /\ Miss \/ UNCHANGED <<asked, adrift>>
        BY <2>1, <2>7, OutsideIs
      <3>2. asked' \in SUBSET Ask /\ adrift' \in BOOLEAN
        BY <2>1, <2>2, <3>1, MissIs
      <3>3. QED
        BY <2>2, <2>3, <3>1, <3>2 DEF DetailTypeOK, Spent
    <2>9. CASE Aside
      BY <2>1, <2>2, <2>3, <2>9, AsideIs DEF DetailTypeOK, Spent
    <2>8. ASSUME NEW q \in asked, ArriveAsk(q) PROVE DetailTypeOK'
      BY <2>1, <2>2, <2>3, <2>8, ArriveTyped, ArriveInEditor, ArriveFrame DEF DetailTypeOK, Spent
    <2>10. QED
      BY <2>1, <2>4, <2>5, <2>6, <2>7, <2>8, <2>9, StepKinds
  <1>3. QED
    BY <1>1, <1>2, PTL DEF DetailSpec

\* A save leaves out what its reader knows to be going.
LEMMA SendingChosen ==
  ASSUME DetailTypeOK, TagsInv, Sending
  PROVE  TagsInv'
  <1>1. PICK q \in Ask : /\ asked' = Meet(q, asked) /\ SendingForm(q)
                         /\ q.kind = "tags" => q.may = MayGo
    BY SendingIs
  <1>2. asked \in SUBSET Ask /\ editor \in Editor
    BY DEF DetailTypeOK
  <1>3. SameChoice
    BY <1>1 DEF SendingForm, SameChoice
  <1>4. \A r \in asked' : Alike(q, r) \/ \E p \in asked : Alike(p, r)
    BY <1>1, <1>2, SentAlike
  <1>5. (q.kind = "create" \/ q.kind = "tags") => q.tags = editor.selected /\ editor.open
    BY <1>1 DEF SendingForm
  <1>6. ChosenInv'
    <2>1. SUFFICES ASSUME editor'.open, ~editor'.raced
                   PROVE  /\ editor'.known \subseteq editor'.selected \cup editor'.takenOff
                          /\ \A r \in asked' : r.kind = "create"
                               => editor'.known \subseteq r.tags \cup editor'.takenOff
      BY DEF ChosenInv
    <2>2. /\ editor.known \subseteq editor.selected \cup editor.takenOff
          /\ \A p \in asked : p.kind = "create"
               => editor.known \subseteq p.tags \cup editor.takenOff
      BY <1>3, <2>1 DEF TagsInv, ChosenInv, SameChoice
    <2>3. \A r \in asked' : r.kind = "create" => \/ r.tags = editor.selected
                                                 \/ \E p \in asked : p.kind = "create" /\ r.tags = p.tags
      BY <1>4, <1>5 DEF Alike
    <2>4. QED
      BY <1>3, <2>2, <2>3 DEF SameChoice
  <1>7. q.kind = "tags" => AllTags \ q.tags \subseteq q.may
    <2>1. SUFFICES ASSUME q.kind = "tags" PROVE AllTags \ q.tags \subseteq q.may
      OBVIOUS
    <2>2. q.tags = editor.selected /\ q.may = MayGo
      BY <1>1, <1>5, <2>1
    <2>3. ~editor.raced => editor.known \subseteq editor.selected \cup editor.takenOff
      BY <1>5, <2>1 DEF TagsInv, ChosenInv
    <2>4. QED
      BY <2>2, <2>3 DEF MayGo
  <1>8. SavedInv'
    BY <1>4, <1>7 DEF TagsInv, SavedInv, Alike
  <1>9. QED
    BY <1>6, <1>8 DEF TagsInv

\* An answer leaves the other requests as they are, but for one more reading.
LEMMA ArriveAsked ==
  ASSUME DetailTypeOK, NEW q \in asked, ArriveAsk(q)
  PROVE  \A r \in asked' : r.kind = "load" \/ \E p \in asked : Alike(p, r)
  <1>1. q \in Ask /\ asked \ {q} \in SUBSET Ask /\ q.at \in {"answered", "refused"}
    BY ArriveFrame DEF DetailTypeOK
  <1>2. CASE asked' = asked \ {q}
    BY <1>2 DEF Alike
  <1>3. ASSUME NEW l \in Ask, asked' = Meet(l, asked \ {q}), l.kind = "load"
        PROVE  \A r \in asked' : r.kind = "load" \/ \E p \in asked : Alike(p, r)
    <2>1. \A r \in asked' : Alike(l, r) \/ \E p \in asked \ {q} : Alike(p, r)
      BY <1>1, <1>3, SentAlike
    <2>2. QED
      BY <1>3, <2>1 DEF Alike
  <1>4. q.kind = "version" => \/ asked' = asked \ {q}
                              \/ \E l \in Ask : asked' = Meet(l, asked \ {q}) /\ l.kind = "load"
    BY <1>1, ArriveVersion
  <1>5. QED
    BY <1>2, <1>3, <1>4, ArriveFrame

LEMMA ServeChosen ==
  ASSUME DetailTypeOK, TagsInv, ServeAsk
  PROVE  TagsInv'
  <1>1. editor' = editor
    BY ServeAskIs
  <1>2. PICK q \in asked, at \in {"answered", "refused"}, got \in Document :
          asked' = (asked \ {q}) \cup {Served(q, at, got)}
    BY ServeAskIs
  <1>3. q \in Ask
    BY DEF DetailTypeOK
  <1>4. \A r \in asked' : \E p \in asked : r.kind = p.kind /\ r.tags = p.tags /\ r.may = p.may
    BY <1>2, <1>3, ServedAsk
  <1>5. ChosenInv'
    BY <1>1, <1>4 DEF TagsInv, ChosenInv
  <1>6. SavedInv'
    BY <1>4 DEF TagsInv, SavedInv
  <1>7. QED
    BY <1>5, <1>6 DEF TagsInv

LEMMA ArriveChosen ==
  ASSUME DetailTypeOK, TagsInv, NEW q \in asked, ArriveAsk(q)
  PROVE  TagsInv'
  <1>1. \A r \in asked' : r.kind = "load" \/ \E p \in asked : Alike(p, r)
    BY ArriveAsked
  <1>2. SavedInv'
    BY <1>1 DEF TagsInv, SavedInv, Alike
  <1>3. ChosenInv'
    <2>1. CASE editor' = editor
      BY <1>1, <2>1 DEF TagsInv, ChosenInv, Alike
    <2>2. CASE ~editor'.open
      BY <2>2 DEF ChosenInv
    <2>3. CASE /\ editor'.open = editor.open /\ editor'.raced = editor.raced
               /\ editor'.known = editor.known /\ editor'.takenOff = editor.takenOff
               /\ \/ editor'.selected = editor.selected
                  \/ q.kind = "create" /\ editor'.selected = q.tags \cup {NewTag}
      <3>1. SUFFICES ASSUME editor.open, ~editor.raced
                     PROVE  /\ editor.known \subseteq editor'.selected \cup editor.takenOff
                            /\ \A r \in asked' : r.kind = "create"
                                 => editor.known \subseteq r.tags \cup editor.takenOff
        BY <2>3 DEF ChosenInv
      <3>2. /\ editor.known \subseteq editor.selected \cup editor.takenOff
            /\ \A p \in asked : p.kind = "create"
                 => editor.known \subseteq p.tags \cup editor.takenOff
        BY <3>1 DEF TagsInv, ChosenInv
      <3>3. \A r \in asked' : r.kind = "create" => \E p \in asked : p.kind = "create" /\ p.tags = r.tags
        BY <1>1 DEF Alike
      <3>4. QED
        BY <2>3, <3>2, <3>3
    <2>4. CASE /\ q.kind = "list" /\ editor'.selected = editor'.known
               /\ editor'.raced <=> BeingCreated
      <3>1. ~editor'.raced => \A r \in asked' : r.kind # "create"
        BY <1>1, <2>4 DEF BeingCreated, Alike
      <3>2. QED
        BY <2>4, <3>1 DEF ChosenInv
    <2>5. QED
      BY <2>1, <2>2, <2>3, <2>4, ArriveInEditor
  <1>4. QED
    BY <1>2, <1>3 DEF TagsInv

\* While the editor is open and no creation was overtaken, what the document
\* carried is chosen still or was taken off; and a save on its way leaves out only
\* what its reader knew to be going.
THEOREM ChoiceIsKept == DetailSpec => []TagsInv
  <1>1. DetailInit => TagsInv
    <2>1. SUFFICES ASSUME DetailInit PROVE TagsInv
      OBVIOUS
    <2>2. editor.open = FALSE /\ asked = {FirstLoad(doc)} /\ FirstLoad(doc).kind = "load"
      BY <2>1 DEF DetailInit, ClosedEditor, FirstLoad
    <2>3. QED
      BY <2>2 DEF TagsInv, ChosenInv, SavedInv
  <1>2. DetailTypeOK /\ TagsInv /\ [DetailNext]_detailVars => TagsInv'
    <2>1. SUFFICES ASSUME DetailTypeOK, TagsInv, [DetailNext]_detailVars PROVE TagsInv'
      OBVIOUS
    <2>2. CASE UNCHANGED detailVars
      BY <2>1, <2>2 DEF detailVars, TagsInv, ChosenInv, SavedInv
    <2>3. CASE Choosing
      <3>1. asked' = asked
        BY <2>1, <2>3, ChoosingIs
      <3>2. SavedInv'
        BY <2>1, <3>1 DEF TagsInv, SavedInv
      <3>3. CASE ~editor'.open
        BY <3>3, <3>2 DEF TagsInv, ChosenInv
      <3>4. CASE /\ editor'.open = editor.open /\ editor'.known = editor.known
                 /\ editor'.raced <=> (editor.raced \/ BeingCreated)
                 /\ \A t \in AllTags : t \in editor.selected \cup editor.takenOff
                                         => t \in editor'.selected \cup editor'.takenOff
        <4>1. SUFFICES ASSUME editor.open, ~editor.raced, ~BeingCreated
                       PROVE  /\ editor.known \subseteq editor'.selected \cup editor'.takenOff
                              /\ \A r \in asked : r.kind = "create"
                                   => editor.known \subseteq r.tags \cup editor'.takenOff
          BY <3>1, <3>2, <3>4 DEF TagsInv, ChosenInv
        <4>2. editor.known \subseteq editor.selected \cup editor.takenOff
              /\ editor.known \subseteq AllTags
          BY <2>1, <4>1 DEF TagsInv, ChosenInv, DetailTypeOK, Editor
        <4>3. QED
          BY <3>4, <4>1, <4>2 DEF BeingCreated
      <3>5. QED
        BY <2>1, <2>3, <3>3, <3>4, ChoosingIs
    <2>4. CASE Outside \/ Aside
      <3>1. editor' = editor
        BY <2>1, <2>4, OutsideIs, AsideIs
      <3>2. asked' = asked \/ \A r \in asked' : \E p \in asked : Alike(p, r)
        BY <2>1, <2>4, OutsideIs, AsideIs, MissIs
      <3>3. \A r \in asked' : \E p \in asked : r.kind = p.kind /\ r.tags = p.tags /\ r.may = p.may
        BY <3>2 DEF Alike
      <3>4. QED
        BY <2>1, <3>1, <3>3 DEF TagsInv, ChosenInv, SavedInv
    <2>5. QED
      BY <2>1, <2>2, <2>3, <2>4, StepKinds, SendingChosen, ServeChosen, ArriveChosen
  <1>3. QED
    BY <1>1, <1>2, DetailIsTyped, PTL DEF DetailSpec

\* A save replaces all tags of the document, and takes off only those that its
\* reader took off, or that came on after the page was read.
THEOREM SavesOnlyWhatWasChosen == DetailSpec => SavesWhatWasChosen
  <1>1. DetailTypeOK /\ TagsInv /\ [DetailNext]_detailVars
          => [doc.tags \ doc'.tags \subseteq UNION {q.may : q \in {p \in asked : p.kind = "tags"}}]_detailVars
    <2>1. SUFFICES ASSUME DetailTypeOK, TagsInv, DetailNext
                   PROVE  doc.tags \ doc'.tags
                            \subseteq UNION {q.may : q \in {p \in asked : p.kind = "tags"}}
      OBVIOUS
    <2>2. doc.tags \subseteq AllTags /\ doc \in Document
      BY <2>1 DEF DetailTypeOK, Document
    <2>3. CASE Sending \/ Choosing \/ Aside \/ Outside
      BY <2>1, <2>2, <2>3, SendingIs, ChoosingIs, AsideIs, OutsideIs
    <2>4. ASSUME NEW q \in asked, ArriveAsk(q) PROVE doc' = doc
      BY <2>1, <2>4, ArriveFrame
    <2>5. CASE ServeAsk
      <3>1. PICK q \in asked : doc' = doc \/ doc' = Changed(q)
        BY <2>1, <2>5, ServeAskIs
      <3>2. q \in Ask
        BY <2>1 DEF DetailTypeOK
      <3>3. CASE q.kind = "tags" /\ doc' = Changed(q)
        <4>1. doc' = [doc EXCEPT !.tags = q.tags]
          BY <3>3 DEF Changed
        <4>2. doc'.tags = q.tags
          BY <2>2, <4>1 DEF Document
        <4>3. AllTags \ q.tags \subseteq q.may
          BY <2>1, <3>3 DEF TagsInv, SavedInv
        <4>4. QED
          BY <2>2, <3>3, <4>2, <4>3
      <3>4. CASE q.kind # "tags" /\ doc' = Changed(q)
        <4>1. doc'.tags = doc.tags
          BY <2>2, <3>2, <3>4, OtherChangesKeepTags
        <4>2. QED
          BY <4>1
      <3>5. QED
        BY <3>1, <3>3, <3>4
    <2>6. QED
      BY <2>1, <2>3, <2>4, <2>5, StepKinds
  <1>2. QED
    BY <1>1, DetailIsTyped, ChoiceIsKept, PTL DEF DetailSpec, SavesWhatWasChosen

LEMMA ChangesAre ==
  ASSUME doc \in Document, NEW q \in Ask
  PROVE  /\ q.kind = "archive" =>
              /\ Changed(q).status = "ARCHIVED" /\ Changed(q).star = doc.star
              /\ Changed(q).versions = doc.versions
         /\ q.kind = "unarchive" =>
              /\ Changed(q).status = "READY" /\ Changed(q).star = doc.star
              /\ Changed(q).versions = doc.versions
         /\ q.kind \in {"reprocess", "version"} => Changed(q).status = "PROCESSING"
         /\ q.kind = "star" =>
              /\ Changed(q).star = ~q.was.star /\ Changed(q).status = doc.status
              /\ Changed(q).versions = doc.versions
         /\ q.kind = "tags" => Same(Changed(q), doc)
         /\ ~Own(q) => Changed(q) = doc
  <1>1. q.kind = "archive" => Changed(q) = [doc EXCEPT !.status = "ARCHIVED"]
    BY DEF Changed
  <1>2. q.kind = "unarchive" => Changed(q) = [doc EXCEPT !.status = "READY"]
    BY DEF Changed
  <1>3. q.kind = "reprocess" => Changed(q) = [doc EXCEPT !.status = "PROCESSING"]
    BY DEF Changed
  <1>4. q.kind = "version" => Changed(q).status = "PROCESSING"
    <2>1. PICK n : n = doc.versions + 1
      OBVIOUS
    <2>2. q.kind = "version" => Changed(q) = [doc EXCEPT !.status = "PROCESSING", !.versions = n]
      BY <2>1 DEF Changed
    <2>3. QED
      BY <2>2 DEF Document
  <1>5. q.kind = "star" => /\ Changed(q).star = ~q.was.star /\ Changed(q).status = doc.status
                           /\ Changed(q).versions = doc.versions
    <2>1. q.was.star \in BOOLEAN
      BY DEF Ask, Document
    <2>2. PICK b \in BOOLEAN : b = ~q.was.star
      BY <2>1
    <2>3. q.kind = "star" => Changed(q) = [doc EXCEPT !.star = b]
      BY <2>2 DEF Changed
    <2>4. QED
      BY <2>2, <2>3 DEF Document
  <1>6. q.kind = "tags" => Changed(q) = [doc EXCEPT !.tags = q.tags]
    BY DEF Changed
  <1>7. ~Own(q) => Changed(q) = doc
    BY DEF Changed, Own, OwnKinds
  <1>8. QED
    BY <1>1, <1>2, <1>3, <1>4, <1>5, <1>6, <1>7 DEF Document, Same

\* Sending makes two requests that spoil one another know it.
LEMMA MeetMarks ==
  ASSUME NEW qs \in SUBSET Ask, NEW q \in Ask,
         \A p, r \in qs : p # r /\ Spoilt(p, r) => p.met
  PROVE  \A p, r \in Meet(q, qs) : p # r /\ Spoilt(p, r) => p.met
  <1>1. SUFFICES ASSUME NEW p \in Meet(q, qs), NEW r \in Meet(q, qs), p # r, Spoilt(p, r)
                 PROVE  p.met
    OBVIOUS
  <1>2. CASE p = Joining(q, qs)
    <2>1. PICK o \in qs : r = Marked(o, q)
      BY <1>1, <1>2, Sent
    <2>2. p.kind = q.kind /\ r.kind = o.kind
      BY <1>2, <2>1, MarkedAsk, JoiningAsk DEF Alike
    <2>3. Spoilt(q, o)
      BY <1>1, <2>2, SpoiltByKind
    <2>4. QED
      BY <1>2, <2>3, JoiningAsk
  <1>3. ASSUME NEW o \in qs, p = Marked(o, q), r = Joining(q, qs)
        PROVE  p.met
    <2>1. p.kind = o.kind /\ r.kind = q.kind
      BY <1>3, MarkedAsk, JoiningAsk DEF Alike
    <2>2. Spoilt(o, q)
      BY <1>1, <2>1, SpoiltByKind
    <2>3. QED
      BY <1>3, <2>2, MarkedAsk
  <1>4. ASSUME NEW o \in qs, NEW u \in qs, p = Marked(o, q), r = Marked(u, q)
        PROVE  p.met
    <2>1. o # u
      BY <1>1, <1>4
    <2>2. p.kind = o.kind /\ r.kind = u.kind
      BY <1>4, MarkedAsk DEF Alike
    <2>3. Spoilt(o, u)
      BY <1>1, <2>2, SpoiltByKind
    <2>4. QED
      BY <1>4, <2>1, <2>3, MarkedAsk
  <1>5. QED
    BY <1>2, <1>3, <1>4, Sent

\* What is asked after one more request was sent, request by request.
LEMMA SentAre ==
  ASSUME NEW qs \in SUBSET Ask, NEW q \in Ask
  PROVE  /\ \A r \in Meet(q, qs) : \/ Alike(q, r)
                                   \/ \E p \in qs : Alike(p, r) /\ (p.met => r.met)
         /\ \A p \in qs : \E r \in Meet(q, qs) : Alike(p, r)
         /\ \E r \in Meet(q, qs) : Alike(q, r)
  <1>1. ASSUME NEW r \in Meet(q, qs)
        PROVE  Alike(q, r) \/ \E p \in qs : Alike(p, r) /\ (p.met => r.met)
    <2>1. CASE r = Joining(q, qs)
      BY <2>1, JoiningAsk
    <2>2. ASSUME NEW p \in qs, r = Marked(p, q) PROVE Alike(p, r) /\ (p.met => r.met)
      BY <2>2, MarkedAsk
    <2>3. QED
      BY <2>1, <2>2, Sent
  <1>2. \A p \in qs : \E r \in Meet(q, qs) : Alike(p, r)
    BY Sent, MarkedAsk
  <1>3. \E r \in Meet(q, qs) : Alike(q, r)
    BY Sent, JoiningAsk
  <1>4. QED
    BY <1>1, <1>2, <1>3

\* Two stars stay one.
LEMMA SentStars ==
  ASSUME NEW qs \in SUBSET Ask, NEW q \in Ask,
         \A p, r \in qs : p.kind = "star" /\ r.kind = "star" => p = r,
         q.kind = "star" => \A p \in qs : p.kind # "star"
  PROVE  \A p, r \in Meet(q, qs) : p.kind = "star" /\ r.kind = "star" => p = r
  <1>1. SUFFICES ASSUME NEW p \in Meet(q, qs), NEW r \in Meet(q, qs),
                        p.kind = "star", r.kind = "star"
                 PROVE  p = r
    OBVIOUS
  <1>2. CASE q.kind = "star"
    <2>1. \A o \in qs : Marked(o, q).kind # "star"
      BY <1>2, MarkedAsk DEF Alike
    <2>2. \A o \in Meet(q, qs) : o.kind = "star" => o = Joining(q, qs)
      BY <2>1, Sent
    <2>3. QED
      BY <1>1, <2>2
  <1>3. CASE q.kind # "star"
    <2>1. Joining(q, qs).kind # "star"
      BY <1>3, JoiningAsk DEF Alike
    <2>2. PICK o \in qs, u \in qs : p = Marked(o, q) /\ r = Marked(u, q)
      <3>1. \A m \in Meet(q, qs) : m.kind = "star" => \E o \in qs : m = Marked(o, q)
        BY <2>1, Sent
      <3>2. QED
        BY <1>1, <3>1
    <2>3. o.kind = "star" /\ u.kind = "star"
      BY <1>1, <2>2, MarkedAsk DEF Alike
    <2>4. QED
      BY <2>2, <2>3
  <1>4. QED
    BY <1>2, <1>3

LEMMA SendingShown ==
  ASSUME DetailTypeOK, PageInv, Sending
  PROVE  PageInv'
  <1>1. PICK q \in Ask : /\ asked' = Meet(q, asked) /\ q.at = "sent" /\ q.was = here.detail
                         /\ SendingForm(q)
    BY SendingIs
  <1>2. /\ UNCHANGED <<doc, adrift>> /\ asked \in SUBSET Ask /\ here.turn \in Nat
        /\ doc.star \in BOOLEAN /\ here.detail.star \in BOOLEAN
    BY SendingIs DEF DetailTypeOK, Here, Document
  <1>3. /\ \A r \in asked' : \/ Alike(q, r)
                             \/ \E p \in asked : Alike(p, r) /\ (p.met => r.met)
        /\ \A p \in asked : \E r \in asked' : Alike(p, r)
        /\ \E r \in asked' : Alike(q, r)
    BY <1>1, <1>2, SentAre
  <1>4. /\ here'.load = here.load
        /\ here'.turn = here.turn \/ (q.kind = "load" /\ q.turn = here.turn + 1 /\ here'.turn = here.turn + 1)
        /\ q.kind = "load" => q.turn = here.turn + 1 /\ here'.turn = here.turn + 1
        /\ q.kind # "load" => events' = events /\ here'.turn = here.turn
        /\ Own(q) => Ready
    BY <1>1 DEF SendingForm, Own, OwnKinds
  <1>5. TurnsInv'
    <2>1. \A p \in asked : p.kind = "load" => p.turn <= here.turn /\ p.turn \in Nat
      BY <1>2 DEF PageInv, TurnsInv, Ask
    <2>2. \A r \in asked' : r.kind = "load" =>
            r.turn = here'.turn \/ \E p \in asked : p.kind = "load" /\ p.turn = r.turn
      BY <1>3, <1>4 DEF Alike
    <2>3. here'.turn = here.turn \/ here'.turn = here.turn + 1
      BY <1>4
    <2>4. QED
      BY <1>2, <2>1, <2>2, <2>3 DEF TurnsInv
  <1>6. MetInv'
    BY <1>1, <1>2, MeetMarks DEF PageInv, MetInv
  <1>7. FirstInv'
    BY <1>3, <1>4 DEF PageInv, FirstInv, Ready, Own, Alike
  <1>8. ReadInv'
    <2>1. SUFFICES ASSUME NEW r \in asked', r.kind = "load", r.turn = here'.turn,
                          r.at = "answered", ~r.met
                   PROVE  Same(r.got, doc) \/ RunEnding'
      BY <1>2 DEF ReadInv
    <2>2. PICK p \in asked : Alike(p, r) /\ ~p.met
      BY <1>1, <1>3, <2>1 DEF Alike
    <2>3. p.turn <= here.turn /\ p.turn \in Nat
      BY <1>2, <2>1, <2>2 DEF PageInv, TurnsInv, Alike, Ask
    <2>4. q.kind # "load" /\ p.turn = here.turn
      BY <1>2, <1>4, <2>1, <2>2, <2>3 DEF Alike
    <2>5. RunEnding' <=> RunEnding
      BY <1>2, <1>4, <2>4 DEF RunEnding
    <2>6. QED
      BY <2>1, <2>2, <2>4, <2>5 DEF PageInv, ReadInv, Alike
  <1>9. ShownInv'
    <2>1. SUFFICES ASSUME ~Behind'
                   PROVE  (here.detail.versions = doc.versions /\ StarShown /\ StatusShown)'
      BY DEF ShownInv
    <2>2. q.kind # "load"
      BY <1>3, <1>4, <2>1 DEF Behind, LastRead, Alike
    <2>3. ~Behind
      <3>1. LastRead => LastRead'
        BY <1>3, <1>4, <2>2 DEF LastRead, Alike
      <3>2. QED
        BY <1>2, <1>4, <2>1, <2>2, <3>1 DEF Behind, Ready, RunEnding
    <2>4. here.detail.versions = doc.versions /\ StarShown /\ StatusShown
      BY <2>3 DEF PageInv, ShownInv
    <2>5. here'.detail.versions = here.detail.versions /\ here'.detail.status = here.detail.status
      BY <1>1, <2>2 DEF SendingForm
    <2>6. StatusShown'
      <3>1. \A r \in asked' : \/ r.at = "sent"
                              \/ \E p \in asked : Alike(p, r) /\ (p.met => r.met)
        BY <1>1, <1>3 DEF Alike
      <3>2. (\A r \in asked' : ~Filed(r)) => \A p \in asked : ~Filed(p)
        BY <1>3 DEF Filed, Alike
      <3>3. \A r \in asked' : Filed(r) /\ ~r.met => r.got.status = doc.status
        BY <2>4, <3>1 DEF StatusShown, Filed, Alike
      <3>4. \A r \in asked' : r.kind \in {"reprocess", "version"} => r.at # "answered"
        BY <2>4, <3>1 DEF StatusShown, Alike
      <3>5. QED
        BY <1>2, <2>4, <2>5, <3>2, <3>3, <3>4 DEF StatusShown, Filed
    <2>7. StarShown'
      <3>1. CASE q.kind # "star"
        <4>1. here'.starring = here.starring /\ here'.detail.star = here.detail.star
          BY <1>1, <3>1 DEF SendingForm
        <4>2. \A r \in asked' : r.kind = "star" => \E p \in asked : Alike(p, r)
          BY <1>3, <3>1 DEF Alike
        <4>3. \A p \in asked : \E r \in asked' : Alike(p, r)
          BY <1>3
        <4>4. \A p, r \in asked' : p.kind = "star" /\ r.kind = "star" => p = r
          BY <1>1, <1>2, <2>4, <3>1, SentStars DEF StarShown
        <4>5. NoStar' => NoStar
          BY <4>3 DEF NoStar, Alike
        <4>6. QED
          BY <1>2, <2>4, <4>1, <4>2, <4>4, <4>5 DEF StarShown, Alike
      <3>2. CASE q.kind = "star"
        <4>1. ~here.starring /\ here'.starring = TRUE /\ here'.detail.star = ~here.detail.star
          BY <1>1, <3>2 DEF SendingForm
        <4>2. NoStar
          BY <2>4, <4>1 DEF StarShown, NoStar
        <4>3. here.detail.star = doc.star
          BY <2>4, <4>2 DEF StarShown
        <4>4. \A r \in asked' : r.kind = "star" => r.was = here.detail /\ r.at = "sent"
          BY <1>1, <1>3, <4>2 DEF NoStar, Alike
        <4>5. \A p, r \in asked' : p.kind = "star" /\ r.kind = "star" => p = r
          BY <1>1, <1>2, <2>4, <4>2, SentStars DEF StarShown, NoStar
        <4>6. ~NoStar'
          BY <1>3, <3>2 DEF NoStar, Alike
        <4>7. QED
          BY <1>2, <4>1, <4>3, <4>4, <4>5, <4>6 DEF StarShown
      <3>3. QED
        BY <3>1, <3>2
    <2>8. QED
      BY <1>2, <2>4, <2>5, <2>6, <2>7
  <1>10. QED
    BY <1>5, <1>6, <1>7, <1>8, <1>9 DEF PageInv

LEMMA ServeShown ==
  ASSUME DetailTypeOK, PageInv, ServeAsk
  PROVE  PageInv'
  <1>1. UNCHANGED <<here, events, adrift>>
    BY ServeAskIs
  <1>2. PICK q \in asked, at \in {"answered", "refused"}, got \in Document :
          /\ q.at = "sent"
          /\ asked' = (asked \ {q}) \cup {Served(q, at, got)}
          /\ \/ /\ at = "answered" /\ Allowed(q.kind)
                /\ doc' = Changed(q) /\ got = Changed(q)
             \/ at = "refused" /\ doc' = doc
             \/ at = "refused" /\ q.kind = "reprocess" /\ doc' = Changed(q)
    BY ServeAskIs
  <1>3. /\ q \in Ask /\ asked \in SUBSET Ask /\ doc \in Document /\ doc.star \in BOOLEAN
        /\ here.detail.star \in BOOLEAN /\ q.was.star \in BOOLEAN
    BY DEF DetailTypeOK, Here, Document, Ask
  <1>4. PICK s \in asked' : /\ s = Served(q, at, got)
                            /\ s.at = at /\ s.got = got /\ s.kind = q.kind /\ s.turn = q.turn
                            /\ s.was = q.was /\ s.met = q.met
    <2>1. Served(q, at, got) \in asked'
      BY <1>2
    <2>2. /\ Served(q, at, got).at = at /\ Served(q, at, got).got = got
          /\ Served(q, at, got).kind = q.kind /\ Served(q, at, got).turn = q.turn
          /\ Served(q, at, got).was = q.was /\ Served(q, at, got).met = q.met
      <3>1. at \in {"sent", "answered", "refused"} /\ got \in Document /\ q \in Ask
        BY <1>3
      <3>2. QED
        BY <3>1, ServedAsk
    <2>3. QED
      BY <2>1, <2>2
  <1>5. asked' = (asked \ {q}) \cup {s}
    BY <1>2, <1>4
  <1>6. TurnsInv'
    BY <1>1, <1>4, <1>5 DEF PageInv, TurnsInv
  <1>7. MetInv'
    <2>1. SUFFICES ASSUME NEW p \in asked', NEW r \in asked', p # r, Spoilt(p, r) PROVE p.met
      BY DEF MetInv
    <2>2. CASE p = s
      <3>1. r \in asked /\ r # q
        BY <1>5, <2>1, <2>2
      <3>2. Spoilt(q, r)
        BY <1>4, <2>1, <2>2, SpoiltByKind
      <3>3. QED
        BY <1>4, <2>2, <3>1, <3>2 DEF PageInv, MetInv
    <2>3. CASE r = s
      <3>1. p \in asked /\ p # q
        BY <1>5, <2>1, <2>3
      <3>2. Spoilt(p, q)
        BY <1>4, <2>1, <2>3, SpoiltByKind
      <3>3. QED
        BY <3>1, <3>2 DEF PageInv, MetInv
    <2>4. CASE p # s /\ r # s
      BY <1>5, <2>1, <2>4 DEF PageInv, MetInv
    <2>5. QED
      BY <2>2, <2>3, <2>4
  <1>8. FirstInv'
    BY <1>1, <1>4, <1>5 DEF PageInv, FirstInv, Own
  <1>9. RunEnding => RunEnding'
    <2>1. CASE events > 0
      BY <1>1, <2>1 DEF RunEnding
    <2>2. CASE doc.status = "PROCESSING" /\ doc' = Changed(q) /\ Allowed(q.kind)
      <3>1. q.kind \notin {"archive", "unarchive", "reprocess", "version"}
        BY <2>2 DEF Allowed
      <3>2. Changed(q).status = doc.status
        BY <1>3, <3>1, ChangesAre DEF Own, OwnKinds, Same
      <3>3. QED
        BY <2>2, <3>2 DEF RunEnding
    <2>3. CASE doc' = Changed(q) /\ q.kind = "reprocess"
      BY <1>3, <2>3, ChangesAre DEF RunEnding
    <2>4. QED
      BY <1>1, <1>2, <2>1, <2>2, <2>3 DEF RunEnding
  <1>10. doc' = doc \/ (doc' = Changed(q) /\ Own(q))
    BY <1>2, <1>3, ChangesAre
  <1>11. ReadInv'
    <2>1. SUFFICES ASSUME NEW r \in asked', r.kind = "load", r.turn = here.turn,
                          r.at = "answered", ~r.met
                   PROVE  Same(r.got, doc') \/ RunEnding'
      BY <1>1 DEF ReadInv
    <2>2. CASE r = s
      <3>1. doc' = got
        BY <1>2, <1>4, <2>1, <2>2
      <3>2. QED
        BY <1>4, <2>2, <3>1 DEF Same
    <2>3. CASE r # s
      <3>1. r \in asked /\ r # q
        BY <1>5, <2>3
      <3>2. ~Own(q)
        BY <2>1, <3>1 DEF PageInv, MetInv, Spoilt
      <3>3. doc' = doc
        BY <1>10, <3>2
      <3>4. Same(r.got, doc) \/ RunEnding
        BY <2>1, <3>1 DEF PageInv, ReadInv
      <3>5. QED
        BY <1>9, <3>3, <3>4
    <2>4. QED
      BY <2>2, <2>3
  <1>12. ShownInv'
    <2>1. SUFFICES ASSUME ~Behind'
                   PROVE  (here.detail.versions = doc.versions /\ StarShown /\ StatusShown)'
      BY DEF ShownInv
    <2>2. LastRead => LastRead'
      BY <1>1, <1>4, <1>5 DEF LastRead
    <2>3. ~Behind
      BY <1>1, <1>9, <2>1, <2>2 DEF Behind, Ready
    <2>4. here.detail.versions = doc.versions /\ StarShown /\ StatusShown
      BY <2>3 DEF PageInv, ShownInv
    <2>5. doc'.status # "PROCESSING"
      BY <2>1 DEF Behind, RunEnding
    <2>6. ~(q.kind \in {"reprocess", "version"} /\ doc' = Changed(q))
      BY <1>3, <2>5, ChangesAre
    <2>7. \/ at = "refused" /\ doc' = doc
          \/ /\ at = "answered" /\ doc' = Changed(q) /\ got = Changed(q)
             /\ q.kind \notin {"reprocess", "version"}
      BY <1>2, <2>6
    <2>8. doc'.versions = doc.versions
      BY <1>3, <2>7, ChangesAre DEF Own, OwnKinds, Same
    <2>9. StarShown'
      <3>1. NoStar' => NoStar
        BY <1>4, <1>5 DEF NoStar
      <3>2. \A p, r \in asked' : p.kind = "star" /\ r.kind = "star" => p = r
        BY <1>4, <1>5, <2>4 DEF StarShown
      <3>3. CASE q.kind = "star"
        <4>1. here.starring /\ here.detail.star = ~q.was.star /\ doc.star = q.was.star
          BY <1>2, <2>4, <3>3 DEF StarShown
        <4>2. \A r \in asked' : r.kind = "star" => r = s
          BY <1>4, <3>2, <3>3
        <4>3. (at = "answered") => doc'.star = ~q.was.star
          BY <1>3, <2>7, <3>3, ChangesAre
        <4>4. (at # "answered") => doc'.star = q.was.star
          BY <2>7, <4>1
        <4>5. ~NoStar'
          BY <1>4, <3>3 DEF NoStar
        <4>6. QED
          BY <1>1, <1>4, <3>2, <4>1, <4>2, <4>3, <4>4, <4>5 DEF StarShown
      <3>4. CASE q.kind # "star"
        <4>1. doc'.star = doc.star
          BY <1>3, <2>7, <3>4, ChangesAre DEF Own, OwnKinds, Same
        <4>2. \A r \in asked' : r.kind = "star" => r \in asked
          BY <1>4, <1>5, <3>4
        <4>3. QED
          BY <1>1, <2>4, <3>1, <3>2, <4>1, <4>2 DEF StarShown
      <3>5. QED
        BY <3>3, <3>4
    <2>10. StatusShown'
      <3>1. \A r \in asked' : r.kind \in {"reprocess", "version"} => r.at # "answered"
        BY <1>4, <1>5, <2>4, <2>7 DEF StatusShown
      <3>2. (\A r \in asked' : ~Filed(r)) => \A p \in asked : ~Filed(p)
        BY <1>2, <1>5 DEF Filed
      <3>3. CASE doc'.status = doc.status /\ ~Filed(s)
        <4>1. \A r \in asked' : Filed(r) => r \in asked
          BY <1>5, <3>3
        <4>2. QED
          BY <1>1, <2>4, <3>1, <3>2, <3>3, <4>1 DEF StatusShown
      <3>4. CASE Filed(s)
        <4>1. doc' = got /\ s.got = doc'
          BY <1>4, <2>7, <3>4 DEF Filed
        <4>2. ASSUME NEW r \in asked', Filed(r), ~r.met PROVE r.got.status = doc'.status
          <5>1. CASE r = s
            BY <4>1, <5>1
          <5>2. CASE r # s
            <6>1. r \in asked /\ r # q
              BY <1>5, <5>2
            <6>2. Spoilt(r, q)
              BY <1>4, <3>4, <4>2 DEF Filed, Spoilt
            <6>3. QED
              BY <4>2, <6>1, <6>2 DEF PageInv, MetInv
          <5>3. QED
            BY <5>1, <5>2
        <4>3. QED
          BY <1>4, <3>1, <3>4, <4>2 DEF StatusShown
      <3>5. doc'.status = doc.status \/ Filed(s)
        <4>1. CASE at = "refused" /\ doc' = doc
          BY <4>1
        <4>2. CASE at = "answered" /\ doc' = Changed(q) /\ q.kind \in {"archive", "unarchive"}
          BY <1>4, <4>2 DEF Filed
        <4>3. CASE /\ doc' = Changed(q)
                   /\ q.kind \notin {"archive", "unarchive", "reprocess", "version"}
          BY <1>3, <4>3, ChangesAre DEF Own, OwnKinds, Same
        <4>4. QED
          BY <2>7, <4>1, <4>2, <4>3
      <3>6. QED
        BY <3>3, <3>4, <3>5
    <2>11. QED
      BY <1>1, <2>4, <2>8, <2>9, <2>10
  <1>13. QED
    BY <1>6, <1>7, <1>8, <1>11, <1>12 DEF PageInv

\* Nothing of the page changes: the document stays as Same allows, or a run is
\* ending, or what was answered before an event was lost is known to be behind.
LEMMA OutsideShown ==
  ASSUME DetailTypeOK, PageInv, Outside
  PROVE  PageInv'
  <1>1. here' = here
    BY OutsideIs
  <1>2. CASE Miss
    <2>1. Behind'
      BY <1>2, MissIs DEF Behind
    <2>2. \A r \in asked' : \E p \in asked : Alike(p, r)
      BY <1>2, MissIs
    <2>3. TurnsInv' /\ FirstInv'
      BY <1>1, <2>2 DEF PageInv, TurnsInv, FirstInv, Own, Alike
    <2>4. MetInv'
      BY <1>2, MissIs DEF PageInv
    <2>5. ReadInv'
      BY <1>2, MissIs DEF ReadInv
    <2>6. QED
      BY <2>1, <2>3, <2>4, <2>5 DEF PageInv, ShownInv
  <1>3. CASE UNCHANGED <<asked, adrift>> /\ RunEnding'
    <2>1. Behind'
      BY <1>3 DEF Behind
    <2>2. QED
      BY <1>1, <1>3, <2>1 DEF PageInv, TurnsInv, MetInv, FirstInv, ReadInv, ShownInv
  <1>4. CASE UNCHANGED <<asked, adrift>> /\ Same(doc', doc) /\ events' = events
    <2>1. (RunEnding' <=> RunEnding) /\ (LastRead' <=> LastRead) /\ (Behind' <=> Behind)
      BY <1>1, <1>4 DEF RunEnding, Same, LastRead, Behind, Ready
    <2>2. ReadInv'
      BY <1>1, <1>4, <2>1 DEF PageInv, ReadInv, Same
    <2>3. StarShown => StarShown'
      BY <1>1, <1>4 DEF StarShown, NoStar, Same
    <2>4. StatusShown => StatusShown'
      BY <1>1, <1>4 DEF StatusShown, Filed, Same
    <2>5. ShownInv'
      BY <1>1, <1>4, <2>1, <2>3, <2>4 DEF PageInv, ShownInv, Same
    <2>6. QED
      BY <1>1, <1>4, <2>2, <2>5 DEF PageInv, TurnsInv, MetInv, FirstInv
  <1>5. QED
    BY <1>2, <1>3, <1>4, OutsideIs DEF RunEnding

\* Requests that only go away: what is said of each of them stays said.
LEMMA AnsweredAway ==
  ASSUME PageInv, NEW q \in asked, asked' = asked \ {q}, UNCHANGED <<doc, events>>,
         here'.turn = here.turn,
         here'.load # "loading" \/ here'.load = here.load
  PROVE  TurnsInv' /\ MetInv' /\ FirstInv' /\ ReadInv'
  <1>1. TurnsInv' /\ MetInv'
    BY DEF PageInv, TurnsInv, MetInv
  <1>2. FirstInv'
    BY DEF PageInv, FirstInv
  <1>3. ReadInv'
    BY DEF PageInv, ReadInv, RunEnding
  <1>4. QED
    BY <1>1, <1>2, <1>3

LEMMA ArriveLoadShown ==
  ASSUME DetailTypeOK, PageInv, NEW q \in asked, ArriveAsk(q), q.kind = "load"
  PROVE  PageInv'
  <1>1. /\ UNCHANGED <<doc, events>> /\ asked' = asked \ {q} /\ here'.turn = here.turn
        /\ q.at \in {"answered", "refused"}
    BY ArriveFrame, ArriveLoad
  <1>2. here'.load \in {"ready", "error", here.load}
    BY <1>1, ArriveLoad
  <1>3. TurnsInv' /\ MetInv' /\ FirstInv' /\ ReadInv'
    BY <1>1, <1>2, AnsweredAway
  <1>4. ShownInv'
    <2>1. CASE q.turn # here.turn
      <3>1. here' = here /\ adrift' = adrift
        BY <2>1, ArriveLoad
      <3>2. LastRead => LastRead'
        BY <1>1, <2>1 DEF LastRead
      <3>3. Behind => Behind'
        BY <1>1, <3>1, <3>2 DEF Behind, Ready, RunEnding
      <3>4. StarShown => StarShown'
        BY <1>1, <3>1 DEF StarShown, NoStar
      <3>5. StatusShown => StatusShown'
        BY <1>1, <3>1 DEF StatusShown, Filed
      <3>6. QED
        BY <1>1, <3>1, <3>3, <3>4, <3>5 DEF PageInv, ShownInv
    <2>2. CASE q.turn = here.turn /\ q.at = "refused"
      BY <2>2, ArriveLoad DEF ShownInv, Behind, Ready
    <2>3. CASE q.turn = here.turn /\ q.at = "answered"
      <3>1. here'.load = "ready" /\ here'.detail = q.got /\ adrift' = q.met
        BY <2>3, ArriveLoad
      <3>2. SUFFICES ASSUME ~Behind'
                     PROVE  (here.detail.versions = doc.versions /\ StarShown /\ StatusShown)'
        BY DEF ShownInv
      <3>3. ~q.met /\ ~RunEnding
        BY <1>1, <3>1, <3>2 DEF Behind, RunEnding
      <3>4. Same(q.got, doc)
        BY <2>3, <3>3 DEF PageInv, ReadInv
      <3>5. \A p \in asked : ~Own(p)
        BY <3>3 DEF PageInv, MetInv, Spoilt, Own, OwnKinds
      <3>6. \A p \in asked' : p.kind \notin OwnKinds
        BY <1>1, <3>5 DEF Own
      <3>7. QED
        BY <1>1, <3>1, <3>4, <3>6 DEF Same, StarShown, StatusShown, NoStar, Filed, OwnKinds
    <2>4. QED
      BY <1>1, <2>1, <2>2, <2>3
  <1>5. QED
    BY <1>3, <1>4 DEF PageInv

LEMMA ArriveVersionShown ==
  ASSUME DetailTypeOK, PageInv, NEW q \in asked, ArriveAsk(q), q.kind = "version"
  PROVE  PageInv'
  <1>1. /\ UNCHANGED <<doc, events>> /\ q.at \in {"answered", "refused"}
        /\ here'.detail = here.detail /\ here'.load = here.load /\ here'.starring = here.starring
        /\ adrift' = adrift
    BY ArriveFrame, ArriveVersion
  <1>2. asked \in SUBSET Ask /\ here.turn \in Nat
    BY DEF DetailTypeOK, Here
  <1>3. CASE q.at = "refused"
    <2>1. here'.turn = here.turn /\ asked' = asked \ {q}
      BY <1>3, ArriveVersion
    <2>2. TurnsInv' /\ MetInv' /\ FirstInv' /\ ReadInv'
      BY <1>1, <2>1, AnsweredAway
    <2>3. LastRead => LastRead'
      BY <2>1 DEF LastRead
    <2>4. Behind => Behind'
      BY <1>1, <2>1, <2>3 DEF Behind, Ready, RunEnding
    <2>5. StarShown => StarShown'
      BY <1>1, <2>1 DEF StarShown, NoStar
    <2>6. StatusShown => StatusShown'
      BY <1>1, <2>1, <1>3 DEF StatusShown, Filed
    <2>7. QED
      BY <1>1, <2>2, <2>4, <2>5, <2>6 DEF PageInv, ShownInv
  <1>4. CASE q.at = "answered"
    <2>1. here'.turn = here.turn + 1
      BY <1>4, ArriveVersion
    <2>2. PICK l \in Ask : /\ asked' = Meet(l, asked \ {q})
                           /\ l.kind = "load" /\ l.at = "sent" /\ l.turn = here.turn + 1
      BY <1>4, ArriveVersion
    <2>3. /\ \A r \in asked' : Alike(l, r) \/ \E p \in asked \ {q} : Alike(p, r)
          /\ \E r \in asked' : Alike(l, r)
      BY <1>2, <2>2, SentAre, SentAlike
    <2>4. \A p \in asked : p.kind = "load" => p.turn <= here.turn /\ p.turn \in Nat
      BY <1>2 DEF PageInv, TurnsInv, Ask
    <2>5. \A r \in asked' : r.kind = "load" =>
            \/ r.turn = here'.turn /\ r.at = "sent"
            \/ r.turn <= here.turn /\ r.turn \in Nat
      BY <2>1, <2>2, <2>3, <2>4 DEF Alike
    <2>6. TurnsInv'
      BY <1>2, <2>1, <2>5 DEF TurnsInv
    <2>7. MetInv'
      <3>1. \A p, r \in asked \ {q} : p # r /\ Spoilt(p, r) => p.met
        BY DEF PageInv, MetInv
      <3>2. asked \ {q} \in SUBSET Ask
        BY <1>2
      <3>3. QED
        BY <2>2, <3>1, <3>2, MeetMarks DEF MetInv
    <2>8. FirstInv'
      <3>1. here.load # "loading"
        BY DEF PageInv, FirstInv, Own, OwnKinds
      <3>2. QED
        BY <1>1, <3>1 DEF FirstInv
    <2>9. ReadInv'
      <3>1. \A r \in asked' : ~(r.kind = "load" /\ r.turn = here'.turn /\ r.at = "answered")
        BY <1>2, <2>1, <2>5
      <3>2. QED
        BY <3>1 DEF ReadInv
    <2>10. Behind'
      BY <2>1, <2>2, <2>3 DEF Behind, LastRead, Alike
    <2>11. QED
      BY <2>6, <2>7, <2>8, <2>9, <2>10 DEF PageInv, ShownInv
  <1>5. QED
    BY <1>1, <1>3, <1>4

\* A patch that undoes nothing is the page as it is, with what is new.
LEMMA PatchKeeps ==
  ASSUME here.detail \in Document, NEW q \in Ask, q.kind \in PatchKinds, ~Undoes(q)
  PROVE  /\ Patched(q).versions = here.detail.versions
         /\ q.kind = "star" => /\ Patched(q).star = q.was.star
                               /\ Patched(q).status = here.detail.status
         /\ q.kind = "tags" => /\ Patched(q).star = here.detail.star
                               /\ Patched(q).status = here.detail.status
         /\ q.kind \in {"archive", "unarchive", "reprocess"} =>
              /\ Patched(q).star = here.detail.star
              /\ Patched(q).status = q.got.status
  <1>1. /\ q.was \in Document /\ q.got \in Document
    BY DEF Ask
  <1>2. CASE q.kind = "star"
    <2>1. q.was = [here.detail EXCEPT !.star = q.was.star] /\ Patched(q) = q.was
      BY <1>2 DEF Undoes, Patched
    <2>2. PICK b \in BOOLEAN : b = q.was.star
      BY <1>1 DEF Document
    <2>3. q.was = [here.detail EXCEPT !.star = b]
      BY <2>1, <2>2
    <2>4. QED
      BY <1>2, <2>1, <2>3 DEF Document
  <1>3. CASE q.kind = "tags"
    <2>1. q.was = [here.detail EXCEPT !.tags = q.was.tags]
      BY <1>3 DEF Undoes
    <2>2. Patched(q) = [q.was EXCEPT !.tags = q.got.tags]
      BY <1>3 DEF Patched
    <2>3. /\ q.was.star = here.detail.star /\ q.was.status = here.detail.status
          /\ q.was.versions = here.detail.versions
      BY <1>1, <2>1 DEF Document
    <2>4. /\ Patched(q).star = q.was.star /\ Patched(q).status = q.was.status
          /\ Patched(q).versions = q.was.versions
      BY <1>1, <2>2 DEF Document
    <2>5. QED
      BY <1>3, <2>3, <2>4
  <1>4. CASE q.kind \in {"archive", "unarchive", "reprocess"}
    <2>1. q.was = [here.detail EXCEPT !.status = q.was.status]
      BY <1>4 DEF Undoes
    <2>2. Patched(q) = [q.was EXCEPT !.status = q.got.status]
      BY <1>4 DEF Patched
    <2>3. q.was.star = here.detail.star /\ q.was.versions = here.detail.versions
      BY <1>1, <2>1 DEF Document
    <2>4. /\ Patched(q).star = q.was.star /\ Patched(q).versions = q.was.versions
          /\ Patched(q).status = q.got.status
      BY <1>1, <2>2 DEF Document
    <2>5. QED
      BY <1>4, <2>3, <2>4
  <1>5. QED
    BY <1>2, <1>3, <1>4 DEF PatchKinds

\* The page after the answer of a change, when nothing excuses it.
LEMMA PatchShown ==
  ASSUME DetailTypeOK, PageInv, NEW q \in asked, ArriveAsk(q), q.kind \in PatchKinds, ~Behind'
  PROVE  /\ ~Behind /\ ~q.met
         /\ here'.detail.versions = here.detail.versions
         /\ q.kind = "star" =>
              /\ here'.detail.status = here.detail.status
              /\ here'.detail.star = IF q.at = "refused" THEN q.was.star ELSE here.detail.star
         /\ q.kind # "star" =>
              /\ here'.detail.star = here.detail.star
              /\ here'.detail.status = IF q.kind # "tags" /\ q.at = "answered" THEN q.got.status
                                       ELSE here.detail.status
  <1>1. /\ q \in Ask /\ here.detail \in Document /\ q.at \in {"answered", "refused"}
        /\ UNCHANGED <<doc, events>> /\ asked' = asked \ {q}
        /\ here.load \in {"loading", "error", "ready"}
    BY ArriveFrame DEF DetailTypeOK, Here, PatchKinds
  <1>2. here'.turn = here.turn
    BY ArrivePatch
  <1>3. LastRead => LastRead'
    BY <1>1, <1>2 DEF LastRead, PatchKinds
  <1>4. here.load # "loading"
    BY DEF PageInv, FirstInv, Own, OwnKinds, PatchKinds
  <1>5. CASE Writes(q)
    <2>1. /\ here'.load = "ready" /\ here'.detail = Patched(q)
          /\ adrift' = (adrift \/ q.met \/ Undoes(q) \/ here.load = "error")
      BY <1>5, ArrivePatch
    <2>2. ~adrift /\ ~q.met /\ ~Undoes(q) /\ here.load # "error"
      BY <2>1 DEF Behind
    <2>3. ~Behind
      BY <1>1, <1>3, <1>4, <2>2 DEF Behind, Ready, RunEnding
    <2>4. (q.kind = "star") = (q.at = "refused")
      BY <1>5 DEF Writes
    <2>5. QED
      BY <1>1, <2>1, <2>2, <2>3, <2>4, PatchKeeps DEF PatchKinds
  <1>6. CASE ~Writes(q)
    <2>1. here'.load = here.load /\ here'.detail = here.detail /\ adrift' = (adrift \/ q.met)
      BY <1>6, ArrivePatch
    <2>2. ~adrift /\ ~q.met
      BY <2>1 DEF Behind
    <2>3. ~Behind
      BY <1>1, <1>3, <2>1, <2>2 DEF Behind, Ready, RunEnding
    <2>4. (q.kind = "star") # (q.at = "refused")
      BY <1>6 DEF Writes
    <2>5. QED
      BY <1>1, <2>1, <2>2, <2>3, <2>4
  <1>7. QED
    BY <1>5, <1>6

LEMMA ArrivePatchShown ==
  ASSUME DetailTypeOK, PageInv, NEW q \in asked, ArriveAsk(q), q.kind \in PatchKinds
  PROVE  PageInv'
  <1>1. /\ UNCHANGED <<doc, events>> /\ asked' = asked \ {q} /\ here'.turn = here.turn
        /\ q.at \in {"answered", "refused"} /\ here'.load \in {here.load, "ready"}
    BY ArriveFrame, ArrivePatch DEF PatchKinds
  <1>2. TurnsInv' /\ MetInv' /\ FirstInv' /\ ReadInv'
    BY <1>1, AnsweredAway
  <1>3. ShownInv'
    <2>1. SUFFICES ASSUME ~Behind'
                   PROVE  (here.detail.versions = doc.versions /\ StarShown /\ StatusShown)'
      BY DEF ShownInv
    <2>2. ~Behind /\ ~q.met /\ here'.detail.versions = here.detail.versions
      BY <2>1, PatchShown
    <2>3. here.detail.versions = doc.versions /\ StarShown /\ StatusShown
      BY <2>2 DEF PageInv, ShownInv
    <2>4. here'.starring <=> (here.starring /\ q.kind # "star")
      BY ArrivePatch
    <2>5. StarShown'
      <3>1. CASE q.kind = "star"
        <4>1. here'.detail.star = IF q.at = "refused" THEN q.was.star ELSE here.detail.star
          BY <2>1, <3>1, PatchShown
        <4>2. /\ here.detail.star = ~q.was.star
              /\ (q.at = "answered") => doc.star = ~q.was.star
              /\ (q.at # "answered") => doc.star = q.was.star
          BY <2>3, <3>1 DEF StarShown
        <4>3. here'.detail.star = doc.star
          BY <1>1, <4>1, <4>2
        <4>4. \A r \in asked' : r.kind # "star"
          BY <1>1, <2>3, <3>1 DEF StarShown
        <4>5. QED
          BY <1>1, <4>3, <4>4 DEF StarShown
      <3>2. CASE q.kind # "star"
        <4>1. here'.detail.star = here.detail.star
          BY <2>1, <3>2, PatchShown
        <4>2. NoStar' => NoStar
          BY <1>1, <3>2 DEF NoStar
        <4>3. QED
          BY <1>1, <2>3, <2>4, <3>2, <4>1, <4>2 DEF StarShown
      <3>3. QED
        BY <3>1, <3>2
    <2>6. StatusShown'
      <3>1. CASE Filed(q)
        <4>1. here'.detail.status = q.got.status
          BY <2>1, <3>1, PatchShown DEF Filed
        <4>2. here'.detail.status = doc.status
          BY <2>2, <2>3, <3>1, <4>1 DEF StatusShown
        <4>3. QED
          BY <1>1, <2>3, <4>2 DEF StatusShown, Filed
      <3>2. CASE ~Filed(q)
        <4>1. q.kind = "reprocess" => q.at # "answered"
          BY <2>3 DEF StatusShown
        <4>2. here'.detail.status = here.detail.status
          BY <2>1, <3>2, <4>1, PatchShown DEF Filed, PatchKinds
        <4>3. (\A r \in asked' : ~Filed(r)) => \A p \in asked : ~Filed(p)
          BY <1>1, <3>2
        <4>4. \A r \in asked' : r \in asked
          BY <1>1
        <4>5. QED
          BY <1>1, <2>3, <4>2, <4>3, <4>4 DEF StatusShown, Filed
      <3>3. QED
        BY <3>1, <3>2
    <2>7. QED
      BY <1>1, <2>2, <2>3, <2>5, <2>6
  <1>4. QED
    BY <1>2, <1>3 DEF PageInv

LEMMA ArriveOtherShown ==
  ASSUME DetailTypeOK, PageInv, NEW q \in asked, ArriveAsk(q), q.kind \in {"list", "create"}
  PROVE  PageInv'
  <1>1. UNCHANGED <<doc, events>> /\ asked' = asked \ {q}
    BY ArriveFrame
  <1>2. here' = here /\ adrift' = adrift
    BY DEF ArriveAsk
  <1>3. TurnsInv' /\ MetInv' /\ FirstInv' /\ ReadInv'
    BY <1>1, <1>2, AnsweredAway
  <1>4. LastRead => LastRead'
    BY <1>1, <1>2 DEF LastRead
  <1>5. Behind => Behind'
    BY <1>1, <1>2, <1>4 DEF Behind, Ready, RunEnding
  <1>6. StarShown => StarShown'
    BY <1>1, <1>2 DEF StarShown, NoStar
  <1>7. StatusShown => StatusShown'
    BY <1>1, <1>2 DEF StatusShown, Filed
  <1>8. QED
    BY <1>1, <1>2, <1>3, <1>5, <1>6, <1>7 DEF PageInv, ShownInv

\* Unless it is behind - a reading, a run, one of the excepted races or an event
\* that was lost - the page shows the versions, the star and the status of the
\* document, or the answer that brings them is on its way.
THEOREM ShowsOrWaits == DetailSpec => []PageInv
  <1>1. DetailInit => PageInv
    <2>1. SUFFICES ASSUME DetailInit PROVE PageInv
      OBVIOUS
    <2>2. /\ here.load = "loading" /\ here.turn = 1 /\ asked = {FirstLoad(doc)}
      BY <2>1 DEF DetailInit
    <2>3. /\ FirstLoad(doc).kind = "load" /\ FirstLoad(doc).turn = 1
          /\ FirstLoad(doc).at = "sent"
      BY DEF FirstLoad
    <2>4. Behind
      BY <2>2 DEF Behind, Ready
    <2>5. QED
      BY <2>2, <2>3, <2>4
         DEF PageInv, TurnsInv, MetInv, FirstInv, ReadInv, ShownInv, Own, OwnKinds
  <1>2. DetailTypeOK /\ PageInv /\ [DetailNext]_detailVars => PageInv'
    <2>1. SUFFICES ASSUME DetailTypeOK, PageInv, [DetailNext]_detailVars PROVE PageInv'
      OBVIOUS
    <2>2. CASE /\ UNCHANGED <<doc, asked, events, adrift>>
               /\ here'.load = here.load /\ here'.detail = here.detail
               /\ here'.turn = here.turn /\ here'.starring = here.starring
      <3>1. TurnsInv' /\ MetInv' /\ FirstInv' /\ ReadInv'
        BY <2>1, <2>2 DEF PageInv, TurnsInv, MetInv, FirstInv, ReadInv, RunEnding
      <3>2. Behind => Behind'
        BY <2>2 DEF Behind, LastRead, RunEnding, Ready
      <3>3. StarShown => StarShown'
        BY <2>2 DEF StarShown, NoStar
      <3>4. StatusShown => StatusShown'
        BY <2>2 DEF StatusShown
      <3>5. QED
        BY <2>1, <2>2, <3>1, <3>2, <3>3, <3>4 DEF PageInv, ShownInv
    <2>3. CASE Choosing \/ Aside \/ UNCHANGED detailVars
      BY <2>1, <2>2, <2>3, ChoosingIs, AsideIs DEF detailVars, detailServer
    <2>4. ASSUME NEW q \in asked, ArriveAsk(q) PROVE PageInv'
      <3>1. q.kind \in PatchKinds \cup {"load", "version", "list", "create"}
        BY <2>1 DEF DetailTypeOK, Ask, AskKinds, OwnKinds, PatchKinds
      <3>2. QED
        BY <2>1, <2>4, <3>1, ArriveLoadShown, ArriveVersionShown, ArrivePatchShown, ArriveOtherShown
    <2>5. QED
      BY <2>1, <2>3, <2>4, StepKinds, SendingShown, ServeShown, OutsideShown
  <1>3. QED
    BY <1>1, <1>2, DetailIsTyped, PTL DEF DetailSpec

\* When all is at rest the page shows the document as it is, however often the
\* stream was lost before, but for a colleague's tags, an end of a run that was
\* lost since it was last read, and the three races that the code leaves open.
THEOREM CatchesUp == DetailSpec => []PageCatchesUp
  <1>1. DetailTypeOK /\ PageInv => PageCatchesUp
    <2>1. SUFFICES ASSUME DetailTypeOK, PageInv, AtRest, Ready, ~adrift
                   PROVE  here.detail = [doc EXCEPT !.tags = here.detail.tags]
      BY DEF PageCatchesUp
    <2>2. ~Behind
      BY <2>1 DEF Behind, LastRead, RunEnding, AtRest
    <2>3. /\ here.detail.versions = doc.versions /\ here.detail.star = doc.star
          /\ here.detail.status = doc.status
      BY <2>1, <2>2 DEF PageInv, ShownInv, StarShown, StatusShown, NoStar, AtRest
    <2>4. here.detail \in Document /\ doc \in Document
      BY <2>1 DEF DetailTypeOK, Here
    <2>5. QED
      BY <2>3, <2>4 DEF Document
  <1>2. QED
    BY <1>1, DetailIsTyped, ShowsOrWaits, PTL

=============================================================================
