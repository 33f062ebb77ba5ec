---------------------------- MODULE QueueLemmas ----------------------------
(***************************************************************************)
(* Facts about sequences and sets of numbers that the proofs rest on: the   *)
(* event queue's, those of the input a set-up holds, and of lists filtered. *)
(***************************************************************************)
EXTENDS Integers, SequencesExt, SeqFilter, FiniteSetTheorems, SequenceTheorems,
        WellFoundedInduction, TLAPS

\* A nonempty set of naturals has a least element: the partial an overflow
\* evicts and the first event an acknowledgement leaves queued are such.
LEMMA LeastElement ==
  ASSUME NEW S \in SUBSET Nat, S # {}
  PROVE  \E m \in S : \A k \in S : m <= k
<1>1. PICK n \in S : TRUE
  OBVIOUS
<1> DEFINE Below(k) == S \cap (0..k)
           T == {Below(k) : k \in S \cap (0..n)}
<1>2. IsFiniteSet(0..n)
  BY FS_Interval
<1>3. T \subseteq FiniteSubsetsOf(0..n) /\ T # {}
  <2>1. ASSUME NEW k \in S \cap (0..n) PROVE Below(k) \in FiniteSubsetsOf(0..n)
    <3>1. Below(k) \subseteq 0..n
      OBVIOUS
    <3>2. QED
      BY <3>1, <1>2, FS_Subset DEF FiniteSubsetsOf
  <2>2. n \in S \cap (0..n)
    OBVIOUS
  <2>3. QED
    BY <2>1, <2>2
<1>4. PICK x \in T : \A y \in T : <<y, x>> \notin StrictSubsetOrdering(0..n)
  <2> HIDE DEF T
  <2>1. QED
    BY <1>3, WFMin, FS_StrictSubsetOrderingWellFounded
<1>5. PICK m \in S \cap (0..n) : x = Below(m)
  BY <1>4
<1>6. ASSUME NEW k \in S, k < m PROVE FALSE
  <2>1. k \in S \cap (0..n) /\ Below(k) \in T
    BY <1>6
  <2>2. Below(k) \subseteq Below(m) /\ m \in Below(m) /\ m \notin Below(k)
    BY <1>6
  <2>3. Below(k) \subseteq 0..n /\ Below(m) \subseteq 0..n
    <3>1. k \in 0..n /\ m \in 0..n /\ n \in Nat
      BY <2>1
    <3>2. 0..k \subseteq 0..n /\ 0..m \subseteq 0..n
      BY <3>1
    <3>3. QED
      BY <3>2
  <2>4. <<Below(k), x>> \in StrictSubsetOrdering(0..n)
    BY <2>2, <2>3, <1>5 DEF StrictSubsetOrdering
  <2>5. QED
    BY <2>4, <2>1, <1>4
<1>7. QED
  BY <1>5, <1>6

\* Min, by which the model names those elements, is that least one.
LEMMA MinOf ==
  ASSUME NEW S \in SUBSET Nat, S # {}
  PROVE  Min(S) \in S /\ \A k \in S : Min(S) <= k
BY LeastElement DEF Min

\* What is left of a sequence when the event at i is cut from it (the splice
\* of an overflow in emit()): everything else, in its order.
LEMMA RemoveAtProperties ==
  ASSUME NEW D, NEW q \in Seq(D), NEW i \in 1..Len(q)
  PROVE  /\ RemoveAt(q, i) \in Seq(D)
         /\ Len(RemoveAt(q, i)) = Len(q) - 1
         /\ \A j \in 1..(Len(q) - 1) :
              RemoveAt(q, i)[j] = IF j < i THEN q[j] ELSE q[j + 1]
<1> DEFINE a == SubSeq(q, 1, i - 1)
           b == SubSeq(q, i + 1, Len(q))
<1>1. /\ a \in Seq(D) /\ Len(a) = i - 1
      /\ \A j \in 1..(i - 1) : a[j] = q[j]
  OBVIOUS
<1>2. /\ b \in Seq(D) /\ Len(b) = Len(q) - i
      /\ \A j \in 1..(Len(q) - i) : b[j] = q[i + j]
  OBVIOUS
<1>3. RemoveAt(q, i) = a \o b
  BY DEF RemoveAt
<1> HIDE DEF a, b
<1>4. /\ a \o b \in Seq(D) /\ Len(a \o b) = Len(q) - 1
      /\ \A j \in 1..(Len(q) - 1) :
           (a \o b)[j] = IF j < i THEN q[j] ELSE q[j + 1]
  <2>1. a \o b \in Seq(D)
    BY <1>1, <1>2
  <2>2. /\ Len(a \o b) = Len(a) + Len(b)
        /\ \A j \in 1..(Len(a) + Len(b)) :
             (a \o b)[j] = IF j <= Len(a) THEN a[j] ELSE b[j - Len(a)]
    BY <1>1, <1>2, ConcatProperties
  <2>3. ASSUME NEW j \in 1..(Len(q) - 1)
        PROVE  (a \o b)[j] = IF j < i THEN q[j] ELSE q[j + 1]
    <3>1. CASE j < i
      BY <3>1, <2>2, <1>1, <1>2
    <3>2. CASE ~(j < i)
      <4>1. (a \o b)[j] = b[j - (i - 1)]
        BY <3>2, <2>2, <1>1, <1>2
      <4>2. j - (i - 1) \in 1..(Len(q) - i)
        BY <3>2
      <4>3. b[j - (i - 1)] = q[i + (j - (i - 1))] /\ i + (j - (i - 1)) = j + 1
        BY <4>2, <1>2
      <4>4. QED
        BY <4>1, <4>3, <3>2
    <3>3. QED
      BY <3>1, <3>2
  <2>4. QED
    BY <2>1, <2>2, <2>3, <1>1, <1>2
<1>5. QED
  BY <1>3, <1>4

\* Where the elements of a concatenation come from.
LEMMA ConcatAt ==
  ASSUME NEW D, NEW a \in Seq(D), NEW b \in Seq(D)
  PROVE  /\ Len(a \o b) = Len(a) + Len(b) /\ Len(a) \in Nat /\ Len(b) \in Nat
         /\ \A j \in 1..(Len(a) + Len(b)) :
              (a \o b)[j] = IF j <= Len(a) THEN a[j] ELSE b[j - Len(a)]
BY ConcatProperties

\* Induction over the naturals, for a set instead of a predicate.
LEMMA SetInduction ==
  ASSUME NEW S, 0 \in S, \A n \in Nat : n \in S => n + 1 \in S
  PROVE  Nat \subseteq S
<1> DEFINE T == Nat \ S
<1>1. SUFFICES ASSUME T # {} PROVE FALSE
  OBVIOUS
<1>2. PICK m \in T : \A k \in T : m <= k
  BY <1>1, LeastElement
<1>3. m # 0 /\ m - 1 \in Nat /\ m - 1 \notin T
  BY <1>2
<1>4. (m - 1) + 1 \in S
  BY <1>3
<1> QED BY <1>2, <1>4

\* How Filter comes about: what is kept of each prefix of q.
Keeping(f, q, S) ==
  /\ f[0] = <<>>
  /\ \A i \in 1..Len(q) :
       f[i] = IF q[i] \in S THEN Append(f[i - 1], q[i]) ELSE f[i - 1]
  /\ Filter(q, S) = f[Len(q)]

\* The filter is built one element after the other: the recursion has a
\* solution, and what it keeps of each prefix is a sequence.
LEMMA FilterDef ==
  ASSUME NEW D, NEW q \in Seq(D), NEW S
  PROVE  \E f \in [0..Len(q) -> Seq(D)] : Keeping(f, q, S)
<1> DEFINE Step(f, i) ==
             IF i = 0 THEN <<>>
             ELSE IF q[i] \in S THEN Append(f[i - 1], q[i]) ELSE f[i - 1]
           Upto(n) == {f \in [0..n -> Seq(D)] : \A i \in 0..n : f[i] = Step(f, i)}
           Ok == {n \in Nat : n <= Len(q) => Upto(n) # {}}
<1>1. 0 \in Ok
  <2>1. [i \in 0..0 |-> <<>>] \in Upto(0)
    OBVIOUS
  <2> QED BY <2>1
<1>2. ASSUME NEW n \in Nat, n \in Ok PROVE n + 1 \in Ok
  <2>1. SUFFICES ASSUME n + 1 <= Len(q) PROVE Upto(n + 1) # {}
    OBVIOUS
  <2>2. PICK f : f \in Upto(n)
    <3>1. n <= Len(q)
      <4>1. Len(q) \in Nat
        OBVIOUS
      <4> QED BY <4>1, <2>1
    <3> HIDE DEF Upto
    <3> QED BY <1>2, <3>1
  <2>3. f[n] \in Seq(D) /\ q[n + 1] \in D
    BY <2>1, <2>2
  <2> DEFINE e == IF q[n + 1] \in S THEN Append(f[n], q[n + 1]) ELSE f[n]
             g == [i \in 0..(n + 1) |-> IF i = n + 1 THEN e ELSE f[i]]
  <2>4. e \in Seq(D)
    BY <2>3
  <2>5. g \in [0..(n + 1) -> Seq(D)]
    BY <2>4, <2>2
  <2>6. ASSUME NEW i \in 0..(n + 1) PROVE g[i] = Step(g, i)
    <3>1. CASE i = n + 1
      BY <3>1
    <3>2. CASE i # n + 1
      <4>1. i \in 0..n /\ g[i] = f[i] /\ (i # 0 => g[i - 1] = f[i - 1])
        BY <3>2
      <4>2. f[i] = Step(f, i)
        BY <4>1, <2>2
      <4> QED BY <4>1, <4>2
    <3> QED BY <3>1, <3>2
  <2>7. g \in Upto(n + 1)
    BY <2>5, <2>6
  <2> QED BY <2>7
<1>3. Upto(Len(q)) # {}
  <2> HIDE DEF Upto
  <2>1. Nat \subseteq Ok
    <3> HIDE DEF Ok
    <3> QED BY <1>1, <1>2, SetInduction
  <2> QED BY <2>1
<1>4. PICK f \in Upto(Len(q)) : TRUE
  BY <1>3
<1> DEFINE kept == CHOOSE k : k = [i \in 0..Len(q) |-> Step(k, i)]
<1>5. f = [i \in 0..Len(q) |-> Step(f, i)]
  BY <1>4
<1>6. kept = [i \in 0..Len(q) |-> Step(kept, i)]
  BY <1>5, Zenon
<1>7. Filter(q, S) = kept[Len(q)]
  BY DEF Filter
<1> HIDE DEF kept
<1>8. Len(q) \in Nat /\ \A i \in 1..Len(q) : q[i] \in D
  OBVIOUS
<1>9. \A i \in 0..Len(q) : kept[i] = Step(kept, i)
  BY <1>6
<1> DEFINE Good == {n \in Nat : n <= Len(q) => kept[n] \in Seq(D)}
<1>10. 0 \in Good
  BY <1>9, <1>8
<1>11. ASSUME NEW n \in Nat, n \in Good PROVE n + 1 \in Good
  <2>1. SUFFICES ASSUME n + 1 <= Len(q) PROVE kept[n + 1] \in Seq(D)
    OBVIOUS
  <2>2. kept[n] \in Seq(D) /\ q[n + 1] \in D /\ n + 1 \in 0..Len(q)
    BY <1>8, <1>11, <2>1
  <2>3. kept[n + 1] = Step(kept, n + 1)
    BY <1>9, <2>2
  <2>4. (n + 1) - 1 = n /\ n + 1 # 0
    OBVIOUS
  <2> QED BY <2>2, <2>3, <2>4
<1>12. Nat \subseteq Good
  <2> HIDE DEF Good
  <2> QED BY <1>10, <1>11, SetInduction
<1>13. kept \in [0..Len(q) -> Seq(D)]
  <2>1. \A i \in 0..Len(q) : kept[i] \in Seq(D)
    BY <1>12, <1>8
  <2> QED BY <2>1, <1>6
<1>14. kept[0] = <<>>
  BY <1>9, <1>8
<1>15. \A i \in 1..Len(q) :
         kept[i] = IF q[i] \in S THEN Append(kept[i - 1], q[i]) ELSE kept[i - 1]
  BY <1>9, <1>8
<1>16. Keeping(kept, q, S)
  BY <1>14, <1>15, <1>7, Zenon DEF Keeping
<1> QED BY <1>13, <1>16

\* h says where each element of the filtered q was: each is there once and in
\* its order, and none of the set is missing.
Embeds(h, q, S) ==
  /\ h \in [1..Len(Filter(q, S)) -> 1..Len(q)]
  /\ \A j \in 1..Len(Filter(q, S)) : Filter(q, S)[j] = q[h[j]] /\ q[h[j]] \in S
  /\ \A j, k \in 1..Len(Filter(q, S)) : j < k => h[j] < h[k]
  /\ \A i \in 1..Len(q) : q[i] \in S => \E j \in 1..Len(Filter(q, S)) : h[j] = i

\* What is kept of a sequence: its elements in the set, each once and in
\* their order.
LEMMA FilterProperties ==
  ASSUME NEW D, NEW q \in Seq(D), NEW S
  PROVE  Filter(q, S) \in Seq(D) /\ \E h : Embeds(h, q, S)
<1>0. PICK f \in [0..Len(q) -> Seq(D)] : Keeping(f, q, S)
  BY FilterDef
<1>1. /\ f \in [0..Len(q) -> Seq(D)] /\ f[0] = <<>>
      /\ \A i \in 1..Len(q) :
           f[i] = IF q[i] \in S THEN Append(f[i - 1], q[i]) ELSE f[i - 1]
      /\ Filter(q, S) = f[Len(q)]
  BY <1>0, Zenon DEF Keeping
<1> DEFINE Place(n, h) ==
             /\ h \in [1..Len(f[n]) -> 1..n]
             /\ \A j \in 1..Len(f[n]) : f[n][j] = q[h[j]] /\ q[h[j]] \in S
             /\ \A j, k \in 1..Len(f[n]) : j < k => h[j] < h[k]
             /\ \A i \in 1..n : q[i] \in S => \E j \in 1..Len(f[n]) : h[j] = i
           Ok == {n \in Nat : n <= Len(q) => \E h : Place(n, h)}
<1>2. Len(q) \in Nat /\ \A i \in 1..Len(q) : q[i] \in D
  OBVIOUS
<1>3. 0 \in Ok
  <2> DEFINE h0 == [i \in 1..0 |-> 0]
  <2>1. f[0] = <<>> /\ Len(f[0]) = 0
    BY <1>1
  <2>2. h0 \in [1..Len(f[0]) -> 1..0]
    BY <2>1
  <2>3. Place(0, h0)
    BY <2>1, <2>2
  <2> HIDE DEF Place
  <2> QED BY <2>3
<1>4. ASSUME NEW n \in Nat, n \in Ok PROVE n + 1 \in Ok
  <2>1. SUFFICES ASSUME n + 1 <= Len(q) PROVE \E h : Place(n + 1, h)
    <3> HIDE DEF Place
    <3> QED OBVIOUS
  <2>2. PICK h : Place(n, h)
    <3>1. n <= Len(q)
      BY <1>2, <2>1
    <3> HIDE DEF Place
    <3> QED BY <1>4, <3>1
  <2>3. /\ f[n] \in Seq(D) /\ q[n + 1] \in D /\ n + 1 \in 1..Len(q)
        /\ f[n + 1] = IF q[n + 1] \in S THEN Append(f[n], q[n + 1]) ELSE f[n]
    BY <1>1, <1>2, <2>1
  <2>4. CASE q[n + 1] \notin S
    <3>1. f[n + 1] = f[n]
      BY <2>3, <2>4
    <3>2. h \in [1..Len(f[n]) -> 1..(n + 1)]
      BY <2>2
    <3>3. ASSUME NEW i \in 1..(n + 1), q[i] \in S
          PROVE  \E j \in 1..Len(f[n]) : h[j] = i
      BY <3>3, <2>4, <2>2
    <3>4. Place(n + 1, h)
      BY <3>1, <3>2, <3>3, <2>2
    <3> QED BY <3>4
  <2>5. CASE q[n + 1] \in S
    <3> DEFINE l == Len(f[n])
               g == [j \in 1..(l + 1) |-> IF j = l + 1 THEN n + 1 ELSE h[j]]
    <3>1. /\ f[n + 1] = Append(f[n], q[n + 1]) /\ Len(f[n + 1]) = l + 1
          /\ l \in Nat /\ f[n + 1][l + 1] = q[n + 1]
          /\ \A j \in 1..l : f[n + 1][j] = f[n][j]
      BY <2>3, <2>5
    <3>2. \A j \in 1..l : h[j] \in 1..n
      BY <2>2
    <3> HIDE DEF l
    <3>3. g \in [1..(l + 1) -> 1..(n + 1)]
      BY <3>1, <3>2
    <3>4. ASSUME NEW j \in 1..(l + 1)
          PROVE  f[n + 1][j] = q[g[j]] /\ q[g[j]] \in S
      BY <2>2, <2>5, <3>1 DEF l
    <3>5. ASSUME NEW j \in 1..(l + 1), NEW k \in 1..(l + 1), j < k
          PROVE  g[j] < g[k]
      BY <2>2, <3>1, <3>2, <3>5 DEF l
    <3>6. ASSUME NEW i \in 1..(n + 1), q[i] \in S
          PROVE  \E j \in 1..(l + 1) : g[j] = i
      <4>1. CASE i = n + 1
        <5>1. l + 1 \in 1..(l + 1) /\ g[l + 1] = i
          BY <3>1, <4>1
        <5> QED BY <5>1
      <4>2. CASE i # n + 1
        <5>1. PICK j \in 1..l : h[j] = i
          BY <4>2, <3>6, <2>2 DEF l
        <5>2. j \in 1..(l + 1) /\ g[j] = i
          BY <5>1, <3>1
        <5> QED BY <5>2
      <4> QED BY <4>1, <4>2
    <3>7. Place(n + 1, g)
      BY <3>1, <3>3, <3>4, <3>5, <3>6
    <3> QED BY <3>7
  <2> QED BY <2>4, <2>5
<1>5. Nat \subseteq Ok
  <2> HIDE DEF Ok
  <2> QED BY <1>3, <1>4, SetInduction
<1>6. \E h : Place(Len(q), h)
  <2> HIDE DEF Place
  <2> QED BY <1>5, <1>2
<1>7. f[Len(q)] \in Seq(D)
  BY <1>1, <1>2
<1>8. PICK h : Place(Len(q), h)
  BY <1>6
<1>9. Embeds(h, q, S)
  BY <1>8, <1>1 DEF Embeds
<1> QED BY <1>9, <1>7, <1>1
=============================================================================
