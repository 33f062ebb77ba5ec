------------------------- MODULE EventPusherProofs -------------------------
(***************************************************************************)
(* Proofs about EventPusher for every queue size, batch size, byte budget, *)
(* payload set and set of drain() callers.  One inductive invariant, IInv, *)
(* carries the safety of the log; the theorems at the end follow from it.  *)
(***************************************************************************)
EXTENDS EventPusher, QueueLemmas

-----------------------------------------------------------------------------
(* The inductive invariant *)

Sorted(q) == \A i, j \in 1..Len(q) : i < j => q[i].seq < q[j].seq

\* Every event record the pusher, the network or the control plane holds.
Held == ToSet(queue) \union ToSet(sent) \union stored
          \union UNION {ToSet(b) : b \in late}

\* What the records say is what the histories say, and records of one event
\* agree on its kind.
HeldOK ==
  /\ \A e \in Held : /\ e.seq <= seq
                     /\ Durable(e) <=> e.seq \in written
                     /\ ~e.whole => e.seq \in truncated
  /\ \A e, f \in Held : e.seq = f.seq => e.kind = f.kind

\* A batch under way comes with, or after, every durable event below its last.
Covered(b) ==
  \A e \in ToSet(b), n \in written :
    n < e.seq => n \in StoredDurable \union Numbers(b)

BatchesCovered == Covered(sent) /\ \A b \in late : Covered(b)

\* While the pusher runs nothing durable is lost at all.
Kept == ~stopped => written \subseteq StoredDurable \union Numbers(queue)

Bounded ==
  /\ written \subseteq 0..seq
  /\ Len(sent) <= MaxBatch
  /\ ~inFlight => sent = <<>>

IInv ==
  /\ TypeOK /\ Bounded /\ Sorted(queue) /\ HeldOK
  /\ BatchesCovered /\ NoHoles /\ Kept /\ NoDurableLost

-----------------------------------------------------------------------------
(* The operators *)

\* The serialized size of a batch is a natural number.
LEMMA Sums ==
  ASSUME NEW b \in Seq(Event)
  PROVE  Bytes(b) \in Nat
<1> DEFINE N == Len(b)
           Step(f, i) == IF i = 0 THEN 0 ELSE f[i - 1] + b[i].size
           Good(n) == \E f \in [0..n -> Nat] : \A i \in 0..n : f[i] = Step(f, i)
           Bad == {n \in 0..N : ~Good(n)}
<1>1. N \in Nat /\ \A i \in 1..N : b[i].size \in Nat
  <2>1. N \in Nat /\ \A i \in 1..N : b[i] \in Event
    OBVIOUS
  <2>2. \A e \in Event : e.size \in Nat
    BY DEF Event
  <2>3. QED
    BY <2>1, <2>2
<1>2. Good(0)
  <2>1. [i \in 0..0 |-> 0] \in [0..0 -> Nat]
    OBVIOUS
  <2>2. \A i \in 0..0 : [j \in 0..0 |-> 0][i] = Step([j \in 0..0 |-> 0], i)
    OBVIOUS
  <2>3. QED
    BY <2>1, <2>2
<1>3. ASSUME NEW n \in 1..N, Good(n - 1) PROVE Good(n)
  <2>1. PICK f \in [0..(n - 1) -> Nat] : \A i \in 0..(n - 1) : f[i] = Step(f, i)
    BY <1>3
  <2> DEFINE g == [i \in 0..n |-> IF i = n THEN f[n - 1] + b[n].size ELSE f[i]]
  <2>2. g \in [0..n -> Nat]
    <3>1. n - 1 \in 0..(n - 1) /\ b[n].size \in Nat
      BY <1>1
    <3>2. ASSUME NEW i \in 0..n, i # n PROVE i \in 0..(n - 1)
      BY <3>2
    <3>3. QED
      BY <3>1, <3>2
  <2>3. ASSUME NEW i \in 0..n PROVE g[i] = Step(g, i)
    <3>1. CASE i = n
      <4>1. g[i] = f[n - 1] + b[n].size
        BY <3>1
      <4>2. n - 1 \in 0..n /\ n - 1 # n /\ g[n - 1] = f[n - 1]
        OBVIOUS
      <4>3. QED
        BY <4>1, <4>2, <3>1
    <3>2. CASE i # n /\ i # 0
      <4>1. i \in 0..(n - 1) /\ i - 1 \in 0..n /\ i - 1 # n
        BY <3>2
      <4>2. g[i] = f[i] /\ g[i - 1] = f[i - 1]
        BY <4>1, <3>2
      <4>3. QED
        BY <4>1, <4>2, <3>2, <2>1
    <3>3. CASE i # n /\ i = 0
      BY <3>3, <2>1
    <3>4. QED
      BY <3>1, <3>2, <3>3
  <2>4. QED
    BY <2>2, <2>3
<1>4. Good(N)
  <2>1. SUFFICES ASSUME Bad # {} PROVE FALSE
    <3>1. N \in 0..N
      BY <1>1
    <3> HIDE DEF Good
    <3>2. QED
      BY <3>1
  <2>2. Bad \in SUBSET Nat
    BY <1>1
  <2>3. PICK m \in Bad : \A k \in Bad : m <= k
    <3> HIDE DEF Bad
    <3>1. QED
      BY <2>1, <2>2, LeastElement
  <2>4. m \in 1..N
    <3>1. m \in 0..N /\ ~Good(m)
      BY <2>3
    <3> HIDE DEF Good
    <3>2. m # 0
      BY <3>1, <1>2
    <3>3. QED
      BY <3>1, <3>2, <1>1
  <2>5. Good(m - 1)
    <3>1. m - 1 \in 0..N /\ ~(m <= m - 1)
      BY <2>4, <1>1
    <3>2. m - 1 \notin Bad
      BY <3>1, <2>3
    <3>3. QED
      BY <3>1, <3>2
  <2>6. QED
    BY <2>4, <2>5, <1>3, <2>3
<1>5. PICK f \in [0..N -> Nat] : \A i \in 0..N : f[i] = Step(f, i)
  BY <1>4
<1>6. f = [i \in 0..N |-> IF i = 0 THEN 0 ELSE f[i - 1] + b[i].size]
  BY <1>5
<1> DEFINE T == CHOOSE g : g = [i \in 0..N |-> IF i = 0 THEN 0 ELSE g[i - 1] + b[i].size]
<1>7. T = [i \in 0..N |-> IF i = 0 THEN 0 ELSE T[i - 1] + b[i].size]
  BY <1>6
<1>8. Bytes(b) = T[N]
  BY Zenon DEF Bytes
<1> HIDE DEF T
<1>9. T[N] \in Nat
  <2> DEFINE Odd == {i \in 0..N : T[i] \notin Nat}
  <2>1. SUFFICES ASSUME Odd # {} PROVE FALSE
    BY <1>1
  <2>2. PICK m \in Odd : \A k \in Odd : m <= k
    <3>1. Odd \in SUBSET Nat
      BY <1>1
    <3> HIDE DEF Odd
    <3>2. QED
      BY <2>1, <3>1, LeastElement
  <2>3. m \in 0..N /\ T[m] = IF m = 0 THEN 0 ELSE T[m - 1] + b[m].size
    BY <1>7, <2>2
  <2>4. m # 0 /\ m - 1 \in 0..N /\ m - 1 \notin Odd
    BY <2>3, <2>2, <1>1
  <2>5. QED
    BY <2>2, <2>3, <2>4, <1>1
<1>10. QED
  BY <1>8, <1>9

\* emit() makes a well-formed event, marked cut exactly when it was shortened.
LEMMA Made ==
  /\ \A e \in Event : StubFor(e) \in Event /\ StubFor(e).seq = e.seq
                      /\ StubFor(e).kind = e.kind
  /\ \A n \in Nat, kind \in Kinds, p \in [size : Nat, json : BOOLEAN] :
       /\ NewEvent(n, kind, p) \in Event
       /\ NewEvent(n, kind, p).seq = n /\ NewEvent(n, kind, p).kind = kind
  /\ \A n \in Nat : /\ OwnEvent(n) \in Event
                    /\ OwnEvent(n).seq = n /\ OwnEvent(n).kind = "durable"
<1>1. /\ \A e \in Event : StubFor(e) \in Event /\ StubFor(e).seq = e.seq
                          /\ StubFor(e).kind = e.kind
  BY PusherAssumption DEF StubFor, Event
<1>2. ASSUME NEW n \in Nat, NEW kind \in Kinds,
             NEW p \in [size : Nat, json : BOOLEAN]
      PROVE  /\ NewEvent(n, kind, p) \in Event
             /\ NewEvent(n, kind, p).seq = n /\ NewEvent(n, kind, p).kind = kind
  <2>1. Shrinks(kind, p) \in BOOLEAN
    BY DEF Shrinks
  <2>2. (IF Shrinks(kind, p) THEN MaxPayload ELSE p.size) \in Nat
    BY PusherAssumption
  <2>3. QED
    BY <2>1, <2>2 DEF NewEvent, Event
<1>3. "durable" \in Kinds
  BY DEF Kinds
<1>4. [size |-> StubSize, json |-> TRUE] \in [size : Nat, json : BOOLEAN]
  BY PusherAssumption
<1>5. \A n \in Nat : /\ OwnEvent(n) \in Event
                     /\ OwnEvent(n).seq = n /\ OwnEvent(n).kind = "durable"
  <2> DEFINE p == [size |-> StubSize, json |-> TRUE]
  <2>1. p \in [size : Nat, json : BOOLEAN]
    BY <1>4
  <2>2. \A n \in Nat : OwnEvent(n) = NewEvent(n, "durable", p)
    BY DEF OwnEvent
  <2> HIDE DEF p
  <2>3. QED
    BY <1>2, <1>3, <2>1, <2>2
<1>6. QED
  BY <1>1, <1>2, <1>5

\* What one event's entry does to a queue numbered below it.
LEMMA Enqueued ==
  ASSUME NEW q \in Seq(Event), NEW e \in Event,
         \A x \in ToSet(q) : x.seq < e.seq, Sorted(q)
  PROVE  /\ Enqueue(q, e) \in Seq(Event) /\ Sorted(Enqueue(q, e))
         /\ ToSet(Enqueue(q, e)) \subseteq ToSet(q) \union {e}
         /\ \A x \in ToSet(q) : Durable(x) => x \in ToSet(Enqueue(q, e))
         /\ Durable(e) => e \in ToSet(Enqueue(q, e))
<1>1. ASSUME NEW r \in Seq(Event), ToSet(r) \subseteq ToSet(q), Sorted(r)
      PROVE  /\ Append(r, e) \in Seq(Event) /\ Sorted(Append(r, e))
             /\ ToSet(Append(r, e)) = ToSet(r) \union {e}
  <2>1. /\ Append(r, e) \in Seq(Event) /\ Len(Append(r, e)) = Len(r) + 1
        /\ \A i \in 1..Len(r) : Append(r, e)[i] = r[i]
        /\ Append(r, e)[Len(r) + 1] = e
    BY <1>1
  <2>2. \A i \in 1..Len(r) : r[i] \in ToSet(q)
    BY <1>1 DEF ToSet
  <2>3. \A i \in 1..Len(r) : r[i].seq < e.seq
    BY <2>2
  <2>4. Sorted(Append(r, e))
    BY <2>1, <2>3, <1>1 DEF Sorted
  <2>5. ToSet(Append(r, e)) = ToSet(r) \union {e}
    BY <2>1, <1>1 DEF ToSet
  <2>6. QED
    BY <2>1, <2>4, <2>5
<1>2. CASE Partials(q) # {}
  <2> DEFINE k == Min(Partials(q))
             r == RemoveAt(q, k)
  <2>1. k \in 1..Len(q) /\ q[k].kind = "partial"
    <3>1. Partials(q) \in SUBSET Nat
      BY DEF Partials
    <3>2. k \in Partials(q)
      BY <3>1, <1>2, MinOf
    <3>3. QED
      BY <3>2 DEF Partials
  <2> HIDE DEF k
  <2>2. /\ r \in Seq(Event) /\ Len(r) = Len(q) - 1
        /\ \A j \in 1..(Len(q) - 1) : r[j] = IF j < k THEN q[j] ELSE q[j + 1]
    BY <2>1, RemoveAtProperties
  <2> HIDE DEF r
  <2>3. ToSet(r) \subseteq ToSet(q)
    BY <2>1, <2>2 DEF ToSet
  <2>4. Sorted(r)
    <3> DEFINE at(j) == IF j < k THEN j ELSE j + 1
    <3>1. \A j \in 1..(Len(q) - 1) : at(j) \in 1..Len(q) /\ r[j] = q[at(j)]
      BY <2>1, <2>2
    <3>2. \A i, j \in 1..(Len(q) - 1) : i < j => at(i) < at(j)
      BY <2>1
    <3> HIDE DEF at
    <3>3. QED
      BY <2>2, <3>1, <3>2 DEF Sorted
  <2>5. ASSUME NEW x \in ToSet(q), Durable(x) PROVE x \in ToSet(r)
    <3>1. PICK i \in 1..Len(q) : x = q[i]
      BY DEF ToSet
    <3>2. i # k
      BY <3>1, <2>1, <2>5 DEF Durable
    <3>3. CASE i < k
      <4>1. i \in 1..(Len(q) - 1) /\ r[i] = x
        BY <3>1, <3>3, <2>1, <2>2
      <4>2. QED
        BY <4>1, <2>2 DEF ToSet
    <3>4. CASE i > k
      <4>1. i - 1 \in 1..(Len(q) - 1) /\ r[i - 1] = x
        BY <3>1, <3>4, <2>1, <2>2
      <4>2. QED
        BY <4>1, <2>2 DEF ToSet
    <3>5. QED
      BY <3>2, <3>3, <3>4, <2>1
  <2>6. Enqueue(q, e) \in {Append(q, e), q, Append(r, e)}
    BY <1>2 DEF Enqueue, r, k
  <2>7. Durable(e) => Enqueue(q, e) \in {Append(q, e), Append(r, e)}
    BY <1>2 DEF Enqueue, r, k, Durable
  <2>8. QED
    BY <2>2, <2>3, <2>4, <2>5, <2>6, <2>7, <1>1
<1>3. CASE Partials(q) = {}
  <2>1. Enqueue(q, e) \in {Append(q, e), q}
    BY <1>3 DEF Enqueue
  <2>2. Durable(e) => Enqueue(q, e) = Append(q, e)
    BY <1>3 DEF Enqueue, Durable
  <2>3. QED
    BY <2>1, <2>2, <1>1
<1>4. QED
  BY <1>2, <1>3

\* What an acknowledgement leaves of the queue.
LEMMA Acknowledged ==
  ASSUME queue \in Seq(Event), Sorted(queue), NEW last \in Nat
  PROVE  /\ AfterAck(last) \in Seq(Event) /\ Sorted(AfterAck(last))
         /\ Len(AfterAck(last)) <= Len(queue)
         /\ ToSet(AfterAck(last)) \subseteq ToSet(queue)
         /\ \A x \in ToSet(queue) : x.seq > last => x \in ToSet(AfterAck(last))
<1>1. CASE Unsent(last) = {}
  <2>1. AfterAck(last) = <<>>
    BY <1>1 DEF AfterAck
  <2>2. \A x \in ToSet(queue) : ~(x.seq > last)
    BY <1>1 DEF Unsent, ToSet
  <2>3. QED
    BY <2>1, <2>2 DEF Sorted, ToSet
<1>2. CASE Unsent(last) # {}
  <2> DEFINE k == Min(Unsent(last))
             r == SubSeq(queue, k, Len(queue))
  <2>1. k \in Unsent(last) /\ \A i \in Unsent(last) : k <= i
    <3>1. Unsent(last) \in SUBSET Nat
      BY DEF Unsent
    <3>2. QED
      BY <3>1, <1>2, MinOf
  <2>2. k \in 1..Len(queue)
    BY <2>1 DEF Unsent
  <2>3. AfterAck(last) = r
    BY <1>2 DEF AfterAck
  <2> HIDE DEF k
  <2>4. /\ r \in Seq(Event) /\ Len(r) = Len(queue) - k + 1
        /\ \A j \in 1..Len(r) : r[j] = queue[k + j - 1]
    BY <2>2
  <2> HIDE DEF r
  <2>5. Sorted(r)
    <3>1. ASSUME NEW i \in 1..Len(r), NEW j \in 1..Len(r), i < j
          PROVE  r[i].seq < r[j].seq
      <4>1. /\ k + i - 1 \in 1..Len(queue) /\ k + j - 1 \in 1..Len(queue)
            /\ k + i - 1 < k + j - 1
        BY <3>1, <2>2, <2>4
      <4>2. queue[k + i - 1].seq < queue[k + j - 1].seq
        BY <4>1 DEF Sorted
      <4>3. QED
        BY <4>2, <2>4
    <3>2. QED
      BY <3>1 DEF Sorted
  <2>6. ToSet(r) \subseteq ToSet(queue)
    BY <2>2, <2>4 DEF ToSet
  <2>7. ASSUME NEW x \in ToSet(queue), x.seq > last PROVE x \in ToSet(r)
    <3>1. PICK i \in 1..Len(queue) : x = queue[i]
      BY DEF ToSet
    <3>2. k <= i
      BY <3>1, <2>7, <2>1 DEF Unsent
    <3>3. i - k + 1 \in 1..Len(r) /\ r[i - k + 1] = x
      BY <3>1, <3>2, <2>2, <2>4
    <3>4. QED
      BY <3>3, <2>4 DEF ToSet
  <2>8. QED
    BY <2>2, <2>3, <2>4, <2>5, <2>6, <2>7
<1>3. QED
  BY <1>1, <1>2

\* What assembling a batch does to the queue: only unserializable partials
\* leave it, and the batch is its beginning.
LEMMA Batched ==
  ASSUME queue \in Seq(Event), Sorted(queue), batchLimit \in 1..MaxBatch,
         truncated \subseteq Nat, NextBatch
  PROVE  /\ queue' \in Seq(Event) /\ Sorted(queue)' /\ Len(queue') <= Len(queue)
         /\ sent' \in Seq(Event) /\ Len(sent') <= MaxBatch
         /\ Len(sent') <= Len(queue')
         /\ \A i \in 1..Len(sent') : sent'[i] = queue'[i]
         /\ truncated' \subseteq Nat /\ truncated \subseteq truncated'
         /\ \A x \in ToSet(queue') : \E e \in ToSet(queue) :
              /\ x.seq = e.seq /\ x.kind = e.kind
              /\ ~x.whole => ~e.whole \/ x.seq \in truncated'
         /\ \A e \in ToSet(queue) : Durable(e) => e.seq \in Numbers(queue')
<1> DEFINE Scan(m, at) == [j \in 1..m |-> Serialized(queue[at[j]])]
           Taken(n, m, at) ==
           /\ Range(at) = {i \in 1..n : Survives(queue[i])}
           /\ queue' = Scan(m, at) \o SubSeq(queue, n + 1, Len(queue))
           /\ truncated' = truncated \union
                SeqsOf({e \in ToSet(SubSeq(queue, 1, n)) : Durable(e) /\ ~e.json})
           /\ \/ m <= batchLimit /\ sent' = Scan(m, at)
              \/ m \in 2..batchLimit /\ sent' = SubSeq(Scan(m, at), 1, m - 1)
<1>a. \E n \in 0..Len(queue) : \E m \in 0..n : \E at \in Increasing(m, n) :
        Taken(n, m, at)
  BY DEF NextBatch
<1> HIDE DEF Taken
<1>b. PICK n \in 0..Len(queue) : \E m \in 0..n : \E at \in Increasing(m, n) :
        Taken(n, m, at)
  BY <1>a
<1>c. PICK m \in 0..n : \E at \in Increasing(m, n) : Taken(n, m, at)
  BY <1>b
<1>d. PICK at \in Increasing(m, n) : Taken(n, m, at)
  BY <1>c
<1>1. Taken(n, m, at)
  BY <1>d
<1> USE DEF Taken
<1>e. n \in Nat /\ m \in Nat /\ m <= n /\ n <= Len(queue) /\ Len(queue) \in Nat
  OBVIOUS
<1> DEFINE scan == Scan(m, at)
           rest == SubSeq(queue, n + 1, Len(queue))
<1>2. /\ at \in [1..m -> 1..n]
      /\ \A i, j \in 1..m : i < j => at[i] < at[j]
  BY <1>1 DEF Increasing
<1>3. \A i \in 1..Len(queue) : queue[i] \in Event /\ queue[i] \in ToSet(queue)
  BY DEF ToSet
<1>4. \A j \in 1..m : /\ at[j] \in 1..Len(queue)
                      /\ scan[j] = Serialized(queue[at[j]])
                      /\ Survives(queue[at[j]])
  <2>1. \A j \in 1..m : at[j] \in Range(at)
    BY <1>2 DEF Range
  <2>2. QED
    BY <1>1, <1>2, <2>1
<1>5. \A j \in 1..m : /\ scan[j] \in Event
                      /\ scan[j].seq = queue[at[j]].seq
                      /\ scan[j].kind = queue[at[j]].kind
  BY <1>3, <1>4, Made DEF Serialized
<1>6. scan \in Seq(Event) /\ Len(scan) = m
  BY <1>5
<1>7. /\ rest \in Seq(Event) /\ Len(rest) = Len(queue) - n
      /\ \A j \in 1..(Len(queue) - n) : rest[j] = queue[n + j]
  BY <1>1
<1> HIDE DEF scan, rest
<1>8. /\ queue' \in Seq(Event) /\ Len(queue') = m + (Len(queue) - n)
      /\ \A j \in 1..(m + (Len(queue) - n)) :
           queue'[j] = IF j <= m THEN scan[j] ELSE queue[n + j - m]
  <2>1. queue' = scan \o rest
    BY <1>1 DEF scan, rest
  <2>2. queue' \in Seq(Event) /\ Len(queue') = m + (Len(queue) - n)
    <3>1. /\ scan \o rest \in Seq(Event)
          /\ Len(scan \o rest) = Len(scan) + Len(rest)
      BY <1>6, <1>7, ConcatProperties
    <3>2. QED
      BY <2>1, <1>6, <1>7, <3>1
  <2>3. \A j \in 1..(m + (Len(queue) - n)) :
           queue'[j] = IF j <= m THEN scan[j] ELSE rest[j - m]
    BY <2>1, <1>6, <1>7, ConcatProperties
  <2>4. \A j \in 1..(m + (Len(queue) - n)) :
           j > m => /\ j - m \in 1..(Len(queue) - n)
                    /\ rest[j - m] = queue[n + j - m]
    <3>1. ASSUME NEW j \in 1..(m + (Len(queue) - n)), j > m
          PROVE  j - m \in 1..(Len(queue) - n) /\ n + (j - m) = n + j - m
      BY <3>1, <1>e
    <3>2. QED
      BY <3>1, <1>7
  <2>5. \A j \in 1..(m + (Len(queue) - n)) :
          queue'[j] = IF j <= m THEN scan[j] ELSE queue[n + j - m]
    <3>1. ASSUME NEW j \in 1..(m + (Len(queue) - n))
          PROVE  queue'[j] = IF j <= m THEN scan[j] ELSE queue[n + j - m]
      <4>1. j \in Int /\ (j <= m \/ j > m) /\ ~(j <= m /\ j > m)
        BY <1>e
      <4>2. CASE j <= m
        BY <4>2, <2>3
      <4>3. CASE j > m
        BY <4>1, <4>3, <2>3, <2>4
      <4>4. QED
        BY <4>1, <4>2, <4>3
    <3>2. QED
      BY <3>1
  <2>6. QED
    BY <2>2, <2>5
<1> DEFINE from(j) == IF j <= m THEN at[j] ELSE n + j - m
<1>9. ASSUME NEW j \in 1..Len(queue')
      PROVE  /\ from(j) \in 1..Len(queue)
             /\ queue'[j].seq = queue[from(j)].seq
             /\ queue'[j].kind = queue[from(j)].kind
  <2>1. CASE j <= m
    <3>1. j \in 1..m /\ queue'[j] = scan[j] /\ from(j) = at[j]
      BY <2>1, <1>8, <1>e
    <3>2. QED
      BY <3>1, <1>4, <1>5
  <2>2. CASE j > m
    <3>1. n + j - m \in 1..Len(queue) /\ queue'[j] = queue[n + j - m]
      BY <2>2, <1>8, <1>e
    <3>2. QED
      BY <3>1, <2>2, <1>8, <1>e
  <2>3. QED
    BY <2>1, <2>2, <1>8, <1>e
<1>10. \A i, j \in 1..Len(queue') : i < j => from(i) < from(j)
  BY <1>1, <1>2, <1>8
<1> HIDE DEF from
<1>11. Sorted(queue)'
  <2>1. ASSUME NEW i \in 1..Len(queue'), NEW j \in 1..Len(queue'), i < j
        PROVE  queue'[i].seq < queue'[j].seq
    <3>1. from(i) < from(j) /\ from(i) \in 1..Len(queue) /\ from(j) \in 1..Len(queue)
      BY <2>1, <1>9, <1>10
    <3>2. queue[from(i)].seq < queue[from(j)].seq
      BY <3>1 DEF Sorted
    <3>3. QED
      BY <3>2, <1>9
  <2>2. QED
    BY <2>1 DEF Sorted
<1>12. /\ sent' \in Seq(Event) /\ Len(sent') <= m /\ Len(sent') <= batchLimit
       /\ \A i \in 1..Len(sent') : sent'[i] = scan[i]
  <2>1. CASE m <= batchLimit /\ sent' = scan
    BY <2>1, <1>6
  <2>2. CASE m \in 2..batchLimit /\ sent' = SubSeq(scan, 1, m - 1)
    BY <2>2, <1>6
  <2>3. QED
    BY <1>1, <2>1, <2>2 DEF scan
<1>13. truncated' \subseteq Nat /\ truncated \subseteq truncated'
  <2> DEFINE cut == {e \in ToSet(SubSeq(queue, 1, n)) : Durable(e) /\ ~e.json}
  <2>1. SubSeq(queue, 1, n) \in Seq(Event)
    BY <1>1
  <2>2. ToSet(SubSeq(queue, 1, n)) \subseteq Event
    BY <2>1 DEF ToSet
  <2>3. SeqsOf(cut) \subseteq Nat
    BY <2>2 DEF SeqsOf, Event
  <2>4. QED
    BY <2>3, <1>1
<1>14. ASSUME NEW x \in ToSet(queue')
       PROVE  \E e \in ToSet(queue) : /\ x.seq = e.seq /\ x.kind = e.kind
                                      /\ ~x.whole => ~e.whole \/ x.seq \in truncated'
  <2>1. PICK j \in 1..Len(queue') : x = queue'[j]
    BY <1>8 DEF ToSet
  <2>2. CASE j <= m
    <3> DEFINE e == queue[at[j]]
    <3>1. j \in 1..m /\ at[j] \in 1..n /\ x = Serialized(e)
      BY <2>1, <2>2, <1>2, <1>4, <1>8
    <3>2. e \in ToSet(queue) /\ x.seq = e.seq /\ x.kind = e.kind
      BY <3>1, <1>3, <1>4, <1>5, <2>1, <1>8, <2>2
    <3>3. ASSUME ~e.json PROVE x.seq \in truncated'
      <4>1. Durable(e)
        BY <3>1, <3>3, <1>4 DEF Survives
      <4>2. e \in ToSet(SubSeq(queue, 1, n))
        <5>1. /\ SubSeq(queue, 1, n) \in Seq(Event) /\ Len(SubSeq(queue, 1, n)) = n
              /\ SubSeq(queue, 1, n)[at[j]] = e
          BY <3>1, <1>1
        <5>2. QED
          BY <5>1, <3>1 DEF ToSet
      <4>3. QED
        BY <4>1, <4>2, <3>2, <3>3, <1>1 DEF SeqsOf
    <3>4. e.json => x = e
      BY <3>1 DEF Serialized
    <3>5. QED
      BY <3>2, <3>3, <3>4
  <2>3. CASE j > m
    <3>1. x = queue[n + j - m] /\ n + j - m \in 1..Len(queue)
      BY <2>1, <2>3, <1>8
    <3>2. QED
      BY <3>1, <1>3
  <2>4. QED
    BY <2>2, <2>3, <1>8
<1>15. ASSUME NEW e \in ToSet(queue), Durable(e) PROVE e.seq \in Numbers(queue')
  <2>1. PICK i \in 1..Len(queue) : e = queue[i]
    BY DEF ToSet
  <2>2. \E j \in 1..Len(queue') : queue'[j].seq = e.seq
    <3>1. CASE i <= n
      <4>1. i \in Range(at)
        BY <3>1, <2>1, <1>15, <1>1 DEF Survives
      <4>2. PICK j \in 1..m : at[j] = i
        BY <4>1, <1>2 DEF Range
      <4>3. j \in 1..Len(queue') /\ queue'[j] = scan[j]
        BY <1>8, <1>1
      <4>4. QED
        BY <4>2, <4>3, <1>5, <2>1
    <3>2. CASE i > n
      <4> DEFINE j == i - n + m
      <4>0. j \in 1..Len(queue') /\ j > m /\ n + j - m = i
        BY <3>2, <1>8, <1>e
      <4>1. j \in 1..Len(queue') /\ queue'[j] = queue[i]
        <5> HIDE DEF j
        <5>1. QED
          BY <4>0, <1>8, <1>e
      <4>2. QED
        BY <4>1, <2>1
    <3>3. QED
      BY <3>1, <3>2, <1>e
  <2>3. QED
    BY <2>2, <1>8 DEF Numbers, SeqsOf, ToSet
<1>16. /\ Len(queue') <= Len(queue) /\ Len(sent') <= Len(queue')
       /\ Len(sent') <= MaxBatch
       /\ \A i \in 1..Len(sent') : sent'[i] = queue'[i]
  BY <1>1, <1>8, <1>12, PusherAssumption
<1>17. QED
  BY <1>8, <1>11, <1>12, <1>13, <1>14, <1>15, <1>16

\* The one or two events a single emit() may queue, as a set.
LEMMA Elements ==
  ASSUME NEW S, NEW b \in Seq(S)
  PROVE  /\ Len(b) = 1 => b[1] \in S /\ ToSet(b) = {b[1]}
         /\ Len(b) = 2 => b[1] \in S /\ b[2] \in S /\ ToSet(b) = {b[1], b[2]}
<1>1. ASSUME Len(b) = 1
      PROVE  b[1] \in S /\ ToSet(b) = {b[1]}
  <2>1. DOMAIN b = 1..1 /\ 1 \in 1..1 /\ \A i \in 1..1 : i = 1
    BY <1>1
  <2>2. QED
    BY <1>1, <2>1 DEF ToSet
<1>2. ASSUME Len(b) = 2
      PROVE  b[1] \in S /\ b[2] \in S /\ ToSet(b) = {b[1], b[2]}
  <2>1. DOMAIN b = 1..2
    BY <1>2
  <2>2. 1 \in 1..2 /\ 2 \in 1..2 /\ \A i \in 1..2 : i = 1 \/ i = 2
    OBVIOUS
  <2>3. b[1] \in S /\ b[2] \in S
    BY <1>2
  <2>4. ToSet(b) = {b[1], b[2]}
    BY <2>1, <2>2 DEF ToSet
  <2>5. QED
    BY <2>3, <2>4
<1>3. QED
  BY <1>1, <1>2

\* The larger and the smaller of two numbers.
LEMMA OfTwo ==
  ASSUME NEW a \in Int, NEW b \in Int
  PROVE  /\ Max({a, b}) \in {a, b} /\ Max({a, b}) >= a /\ Max({a, b}) >= b
         /\ Min({a, b}) \in {a, b} /\ Min({a, b}) <= a /\ Min({a, b}) <= b
<1>1. \E x \in {a, b} : \A y \in {a, b} : x >= y
  <2>1. CASE a >= b
    BY <2>1
  <2>2. CASE ~(a >= b)
    BY <2>2
  <2>3. QED
    BY <2>1, <2>2
<1>2. \E x \in {a, b} : \A y \in {a, b} : x <= y
  <2>1. CASE a <= b
    BY <2>1
  <2>2. CASE ~(a <= b)
    BY <2>2
  <2>3. QED
    BY <2>1, <2>2
<1>3. QED
  BY <1>1, <1>2 DEF Max, Min

-----------------------------------------------------------------------------
(* How the parts of the invariant carry over a step *)

\* A step that neither numbers nor writes an event keeps the records right if
\* each comes from one held before.
LEMMA Carried ==
  ASSUME HeldOK, seq' = seq, written' = written, truncated \subseteq truncated',
         \A x \in Held' : \E e \in Held :
           /\ x.seq = e.seq /\ x.kind = e.kind
           /\ ~x.whole => ~e.whole \/ x.seq \in truncated'
  PROVE  HeldOK'
<1>1. ASSUME NEW x \in Held'
      PROVE  /\ x.seq <= seq'
             /\ Durable(x) <=> x.seq \in written'
             /\ ~x.whole => x.seq \in truncated'
  <2>1. PICK e \in Held : /\ x.seq = e.seq /\ x.kind = e.kind
                          /\ ~x.whole => ~e.whole \/ x.seq \in truncated'
    OBVIOUS
  <2>2. QED
    BY <2>1 DEF HeldOK, Durable
<1>2. ASSUME NEW x \in Held', NEW y \in Held', x.seq = y.seq
      PROVE  x.kind = y.kind
  <2>1. PICK e \in Held : x.seq = e.seq /\ x.kind = e.kind
    OBVIOUS
  <2>2. PICK f \in Held : y.seq = f.seq /\ y.kind = f.kind
    OBVIOUS
  <2>3. QED
    BY <1>2, <2>1, <2>2 DEF HeldOK
<1>3. QED
  BY <1>1, <1>2 DEF HeldOK, Durable

\* A batch stays covered while the control plane and the batch keep what they
\* hold and nothing is emitted below it.
LEMMA StillCovered ==
  ASSUME BatchesCovered, written' = written, StoredDurable \subseteq StoredDurable',
         sent' \in {sent, <<>>}, late' \subseteq late \union {sent}
  PROVE  BatchesCovered'
<1>1. ASSUME NEW b, Covered(b)
      PROVE  \A e \in ToSet(b), n \in written' :
               n < e.seq => n \in StoredDurable' \union Numbers(b)
  BY <1>1 DEF Covered
<1>2. ToSet(<<>>) = {}
  BY DEF ToSet
<1>3. Covered(sent)'
  BY <1>1, <1>2 DEF Covered, BatchesCovered
<1>4. (\A b \in late : Covered(b))'
  BY <1>1 DEF Covered, BatchesCovered
<1>5. QED
  BY <1>3, <1>4 DEF BatchesCovered

\* What the arrival of a batch does to the control plane's log.
LEMMA Arrived ==
  ASSUME NEW b \in Seq(Event), ToSet(b) \subseteq Held, Covered(b),
         stored \subseteq Event, HeldOK, NoHoles, StoreBatch(b), written' = written
  PROVE  /\ stored' \subseteq Event /\ stored' \subseteq Held
         /\ stored \subseteq stored'
         /\ StoredDurable \subseteq StoredDurable'
         /\ StoredDurable' \subseteq written \union StoredDurable
         /\ \A e \in ToSet(b) : \E f \in stored' : f.seq = e.seq /\ f.kind = e.kind
         /\ \A e \in ToSet(b) : Durable(e) => e.seq \in StoredDurable'
         /\ NoHoles'
<1>1. stored \subseteq stored' /\ stored' \subseteq stored \union ToSet(b)
  BY DEF StoreBatch
<1>2. stored \subseteq Held /\ ToSet(b) \subseteq Event
  BY DEF Held, ToSet
<1>3. StoredDurable \subseteq StoredDurable'
  BY <1>1 DEF StoredDurable, SeqsOf
<1>4. ASSUME NEW e \in ToSet(b)
      PROVE  \E f \in stored' : f.seq = e.seq /\ f.kind = e.kind
  <2>1. CASE e.seq \in SeqsOf(stored)
    <3>1. PICK f \in stored : f.seq = e.seq
      BY <2>1 DEF SeqsOf
    <3>2. QED
      BY <3>1, <1>1, <1>2 DEF HeldOK
  <2>2. CASE e.seq \notin SeqsOf(stored)
    BY <2>2 DEF StoreBatch
  <2>3. QED
    BY <2>1, <2>2
<1>5. \A e \in ToSet(b) : Durable(e) => e.seq \in StoredDurable'
  BY <1>4 DEF StoredDurable, SeqsOf, Durable
<1>6. StoredDurable' \subseteq written \union StoredDurable
  BY <1>1, <1>2 DEF StoredDurable, SeqsOf, HeldOK
<1>7. ASSUME NEW e \in stored', NEW n \in written', n < e.seq
      PROVE  n \in StoredDurable'
  <2>1. CASE e \in stored
    BY <2>1, <1>3, <1>7 DEF NoHoles
  <2>2. CASE e \in ToSet(b)
    <3>1. n \in StoredDurable \union Numbers(b)
      BY <2>2, <1>7 DEF Covered
    <3>2. ASSUME n \in Numbers(b) PROVE n \in StoredDurable'
      <4>1. PICK f \in ToSet(b) : f.seq = n
        BY <3>2 DEF Numbers, SeqsOf
      <4>2. Durable(f)
        BY <4>1 DEF HeldOK
      <4>3. QED
        BY <4>1, <4>2, <1>5
    <3>3. QED
      BY <3>1, <3>2, <1>3
  <2>3. QED
    BY <2>1, <2>2, <1>1
<1>8. QED
  BY <1>1, <1>2, <1>3, <1>4, <1>5, <1>6, <1>7 DEF NoHoles

-----------------------------------------------------------------------------
(* The steps *)

\* Every record held by the queue, a request or the control plane is an event.
LEMMA HeldEvents ==
  ASSUME TypeOK
  PROVE  Held \subseteq Event /\ \A e \in Held : e.seq \in Nat
<1>1. \A b \in Seq(Event) : ToSet(b) \subseteq Event
  BY DEF ToSet
<1>2. Held \subseteq Event
  BY <1>1 DEF TypeOK, Held
<1>3. QED
  BY <1>2 DEF Event

\* emit(), of one event or of two, keeps the inductive invariant.
LEMMA EmitKeeps ==
  ASSUME IInv, ~stopped, NEW evs \in Seq(Event), Push(evs),
         \/ Len(evs) = 1 /\ evs[1].seq = seq + 1
         \/ Len(evs) = 2 /\ evs[1].seq = seq + 1 /\ evs[2].seq = seq + 2
                         /\ Durable(evs[2]),
         seq' = seq + Len(evs),
         UNCHANGED <<inFlight, batchLimit, batchBytes, stopped, sent, onStopped,
                     identity, drain, stored, late, faults>>
  PROVE  IInv'
<1>1. /\ seq \in Nat /\ queue \in Seq(Event) /\ Sorted(queue)
      /\ \A x \in ToSet(queue) : x \in Event /\ x.seq <= seq
  BY DEF IInv, TypeOK, HeldOK, Held, ToSet
<1>2. \A e \in ToSet(evs) : e \in Event /\ e.seq \in (seq + 1)..seq'
  BY <1>1 DEF ToSet
<1>3. /\ queue' \in Seq(Event) /\ Sorted(queue)'
      /\ ToSet(queue') \subseteq ToSet(queue) \union ToSet(evs)
      /\ \A x \in ToSet(queue) \union ToSet(evs) : Durable(x) => x \in ToSet(queue')
  <2>1. CASE Len(evs) = 1
    <3>1. evs[1] \in Event /\ ToSet(evs) = {evs[1]} /\ evs[1].seq = seq + 1
      BY <2>1, Elements
    <3>2. queue' = Enqueue(queue, evs[1])
      BY <2>1 DEF Push
    <3>3. \A x \in ToSet(queue) : x.seq < evs[1].seq
      BY <1>1, <3>1 DEF Event
    <3>4. QED
      BY <1>1, <3>1, <3>2, <3>3, Enqueued DEF Sorted
  <2>2. CASE Len(evs) = 2
    <3>1. /\ evs[1] \in Event /\ evs[2] \in Event /\ ToSet(evs) = {evs[1], evs[2]}
          /\ evs[1].seq = seq + 1 /\ evs[2].seq = seq + 2
      BY <2>2, Elements
    <3> DEFINE q == Enqueue(queue, evs[1])
    <3>2. queue' = Enqueue(q, evs[2])
      BY <2>2 DEF Push
    <3>3. \A x \in ToSet(queue) : x.seq < evs[1].seq
      BY <1>1, <3>1 DEF Event
    <3>4. /\ q \in Seq(Event) /\ Sorted(q)
          /\ ToSet(q) \subseteq ToSet(queue) \union {evs[1]}
          /\ \A x \in ToSet(queue) : Durable(x) => x \in ToSet(q)
          /\ Durable(evs[1]) => evs[1] \in ToSet(q)
      BY <1>1, <3>1, <3>3, Enqueued
    <3> HIDE DEF q
    <3>5. \A x \in ToSet(q) : x.seq < evs[2].seq
      <4>1. \A x \in ToSet(queue) : x.seq \in Nat /\ x.seq <= seq
        BY <1>1 DEF Event
      <4>2. QED
        BY <1>1, <3>1, <3>4, <4>1
    <3>6. /\ queue' \in Seq(Event) /\ Sorted(Enqueue(q, evs[2]))
          /\ ToSet(queue') \subseteq ToSet(q) \union {evs[2]}
          /\ \A x \in ToSet(q) : Durable(x) => x \in ToSet(queue')
          /\ Durable(evs[2]) => evs[2] \in ToSet(queue')
      BY <3>1, <3>2, <3>4, <3>5, Enqueued
    <3>7. QED
      BY <3>1, <3>2, <3>4, <3>6 DEF Sorted
  <2>3. QED
    BY <2>1, <2>2
<1> DEFINE new == {e \in ToSet(evs) : Durable(e)}
<1>4. /\ written' = written \union SeqsOf(new)
      /\ truncated' = truncated \union SeqsOf({e \in ToSet(evs) : ~e.whole})
      /\ timer' \in BOOLEAN
  BY DEF Push, Schedule, IInv, TypeOK
<1>5. written \subseteq 0..seq /\ SeqsOf(new) \subseteq (seq + 1)..seq'
  BY <1>2 DEF IInv, Bounded, SeqsOf
<1>6. Len(evs) \in Nat /\ seq' \in Nat /\ seq <= seq'
  BY <1>1
<1>7. TypeOK'
  <2>1. truncated' \subseteq Nat /\ written' \subseteq Nat
    <3>1. SeqsOf({e \in ToSet(evs) : ~e.whole}) \subseteq Nat /\ SeqsOf(new) \subseteq Nat
      BY <1>2 DEF SeqsOf, Event
    <3>2. QED
      BY <3>1, <1>4 DEF IInv, TypeOK
  <2>2. QED
    BY <2>1, <1>3, <1>4, <1>6 DEF IInv, TypeOK
<1>8. Bounded'
  <2>1. 0..seq \subseteq 0..seq' /\ (seq + 1)..seq' \subseteq 0..seq'
    BY <1>1, <1>6
  <2>2. written' \subseteq 0..seq'
    BY <2>1, <1>4, <1>5
  <2>3. QED
    BY <2>2 DEF IInv, Bounded
<1>9. Held' \subseteq Held \union ToSet(evs)
  BY <1>3 DEF Held
<1>10. HeldOK'
  <2>1. \A e \in Held : /\ e.seq <= seq
                        /\ Durable(e) <=> e.seq \in written
                        /\ ~e.whole => e.seq \in truncated
    BY DEF IInv, HeldOK
  <2>2. \A e \in Held : e.seq \in Nat
    BY HeldEvents DEF IInv
  <2>3. ASSUME NEW e \in Held
        PROVE  /\ e.seq <= seq'
               /\ Durable(e) <=> e.seq \in written'
               /\ ~e.whole => e.seq \in truncated'
               /\ e.seq <= seq
    BY <2>1, <2>2, <1>1, <1>4, <1>5, <1>6
  <2>4. \A e, f \in ToSet(evs) : e.seq = f.seq => e = f
    BY <1>1 DEF ToSet
  <2>5. ASSUME NEW e \in ToSet(evs)
        PROVE  /\ e.seq <= seq'
               /\ Durable(e) <=> e.seq \in written'
               /\ ~e.whole => e.seq \in truncated'
               /\ ~(e.seq <= seq)
    <3>1. e.seq \notin written /\ e.seq <= seq' /\ ~(e.seq <= seq)
      BY <1>1, <1>2, <1>5, <1>6
    <3>2. e.seq \in SeqsOf(new) <=> Durable(e)
      BY <2>4 DEF SeqsOf
    <3>3. ~e.whole => e.seq \in truncated'
      BY <1>4 DEF SeqsOf
    <3>4. QED
      BY <3>1, <3>2, <3>3, <1>4
  <2>6. \A e, f \in Held : e.seq = f.seq => e.kind = f.kind
    BY DEF IInv, HeldOK
  <2>7. \A e, f \in Held \union ToSet(evs) : e.seq = f.seq => e.kind = f.kind
    BY <2>3, <2>4, <2>5, <2>6
  <2>8. QED
    BY <2>3, <2>5, <2>7, <1>9 DEF HeldOK, Durable
<1>11. \A n \in written' : n \in written \/ n > seq
  BY <1>1, <1>4, <1>5, <1>6
<1>12. \A e \in Held : e.seq \in Nat /\ e.seq <= seq
  BY HeldEvents DEF IInv, HeldOK
<1>13. StoredDurable' = StoredDurable
  BY DEF StoredDurable
<1>14. ASSUME NEW b, Covered(b), ToSet(b) \subseteq Held
       PROVE  Covered(b)'
  <2>1. ASSUME NEW e \in ToSet(b), NEW n \in written', n < e.seq
        PROVE  n \in StoredDurable' \union Numbers(b)
    <3>1. e.seq \in Nat /\ e.seq <= seq
      BY <1>14, <1>12
    <3>2. n \in Nat
      BY <1>7 DEF TypeOK
    <3>3. n \in written
      BY <2>1, <3>1, <3>2, <1>1, <1>11
    <3>4. QED
      BY <2>1, <3>3, <1>13, <1>14 DEF Covered
  <2>2. QED
    BY <2>1 DEF Covered
<1>15. BatchesCovered'
  <2>1. ToSet(sent) \subseteq Held /\ \A b \in late : ToSet(b) \subseteq Held
    BY DEF Held
  <2>2. Covered(sent)' /\ (\A b \in late : Covered(b))'
    BY <2>1, <1>14 DEF BatchesCovered, IInv, Covered
  <2>3. QED
    BY <2>2 DEF BatchesCovered
<1>16. NoHoles'
  <2>1. stored \subseteq Held
    BY DEF Held
  <2>2. ASSUME NEW e \in stored', NEW n \in written', n < e.seq
        PROVE  n \in StoredDurable'
    <3>1. e \in stored /\ e.seq \in Nat /\ e.seq <= seq
      BY <2>1, <1>12
    <3>2. n \in Nat
      BY <1>7 DEF TypeOK
    <3>3. n \in written
      BY <2>2, <3>1, <3>2, <1>1, <1>11
    <3>4. QED
      BY <2>2, <3>1, <3>3, <1>13 DEF NoHoles, IInv
  <2>3. QED
    BY <2>2 DEF NoHoles
<1>17. written' \subseteq StoredDurable' \union Numbers(queue')
  <2>1. written \subseteq StoredDurable \union Numbers(queue)
    BY DEF IInv, Kept
  <2>2. ASSUME NEW n \in written, n \in Numbers(queue) PROVE n \in Numbers(queue')
    <3>1. PICK x \in ToSet(queue) : x.seq = n
      BY <2>2 DEF Numbers, SeqsOf
    <3>2. Durable(x)
      BY <3>1 DEF IInv, HeldOK, Held
    <3>3. QED
      BY <3>1, <3>2, <1>3 DEF Numbers, SeqsOf
  <2>3. SeqsOf(new) \subseteq Numbers(queue')
    BY <1>3 DEF SeqsOf, Numbers
  <2>4. QED
    BY <2>1, <2>2, <2>3, <1>4, <1>13
<1>18. QED
  BY <1>3, <1>7, <1>8, <1>10, <1>15, <1>16, <1>17 DEF IInv, Kept, NoDurableLost

\* A step that only takes partials from the queue, or puts stubs in it, loses
\* nothing.
LEMMA Thinned ==
  ASSUME IInv, UNCHANGED <<seq, written, stored, onStopped>>,
         truncated \subseteq truncated', stopped => stopped',
         ToSet(sent') \subseteq ToSet(sent) \union ToSet(queue'),
         late' \subseteq late \union {sent},
         \A x \in ToSet(queue') : \E e \in ToSet(queue) :
           /\ x.seq = e.seq /\ x.kind = e.kind
           /\ ~x.whole => ~e.whole \/ x.seq \in truncated',
         \A e \in ToSet(queue) : Durable(e) => e.seq \in Numbers(queue')
  PROVE  HeldOK' /\ NoHoles' /\ Kept' /\ NoDurableLost'
<1>1. StoredDurable' = StoredDurable
  BY DEF StoredDurable
<1>2. HeldOK'
  <2>1. ASSUME NEW x \in Held'
        PROVE  \E e \in Held :
                 /\ x.seq = e.seq /\ x.kind = e.kind
                 /\ ~x.whole => ~e.whole \/ x.seq \in truncated'
    <3>1. ToSet(queue) \subseteq Held
      BY DEF Held
    <3>2. CASE x \in ToSet(queue')
      BY <3>1, <3>2
    <3>3. CASE x \notin ToSet(queue')
      <4>1. x \in Held
        BY <3>3 DEF Held
      <4>2. QED
        BY <4>1
    <3>4. QED
      BY <3>2, <3>3
  <2>2. QED
    BY <2>1, Carried DEF IInv
<1>3. \A n \in written : n \in Numbers(queue) => n \in Numbers(queue')
  <2>1. ASSUME NEW n \in written, n \in Numbers(queue) PROVE n \in Numbers(queue')
    <3>1. PICK x \in ToSet(queue) : x.seq = n
      BY <2>1 DEF Numbers, SeqsOf
    <3>2. Durable(x)
      BY <3>1 DEF IInv, HeldOK, Held
    <3>3. QED
      BY <3>1, <3>2
  <2>2. QED
    BY <2>1
<1>4. NoHoles'
  BY <1>1 DEF NoHoles, IInv
<1>5. Kept'
  BY <1>1, <1>3 DEF Kept, IInv
<1>6. NoDurableLost'
  BY <1>1, <1>3 DEF NoDurableLost, IInv
<1>7. QED
  BY <1>2, <1>4, <1>5, <1>6

\* The batch a flush takes carries every durable event below its last that is
\* not stored: the queue held it, and the batch is the queue's beginning.
LEMMA FlushKeeps ==
  ASSUME IInv, Flush,
         UNCHANGED <<seq, batchLimit, batchBytes, stopped, onStopped, identity,
                     stored, late, faults, written>>,
         timer' \in BOOLEAN, drain' \in [Drainers -> DrainStates]
  PROVE  IInv'
<1>1. ~inFlight /\ ~stopped /\ NextBatch /\ inFlight' = TRUE
  BY DEF Flush
<1>2. /\ queue' \in Seq(Event) /\ Sorted(queue)' /\ Len(queue') <= Len(queue)
      /\ sent' \in Seq(Event) /\ Len(sent') <= MaxBatch
      /\ Len(sent') <= Len(queue')
      /\ \A i \in 1..Len(sent') : sent'[i] = queue'[i]
      /\ truncated' \subseteq Nat /\ truncated \subseteq truncated'
      /\ \A x \in ToSet(queue') : \E e \in ToSet(queue) :
           /\ x.seq = e.seq /\ x.kind = e.kind
           /\ ~x.whole => ~e.whole \/ x.seq \in truncated'
      /\ \A e \in ToSet(queue) : Durable(e) => e.seq \in Numbers(queue')
  <2>1. /\ queue \in Seq(Event) /\ Sorted(queue) /\ batchLimit \in 1..MaxBatch
        /\ truncated \subseteq Nat
    BY DEF IInv, TypeOK
  <2>2. QED
    BY <1>1, <2>1, Batched
<1>3. ToSet(sent') \subseteq ToSet(queue')
  BY <1>2 DEF ToSet
<1>4. HeldOK' /\ NoHoles' /\ Kept' /\ NoDurableLost'
  BY <1>2, <1>3, Thinned
<1>5. Covered(sent)'
  <2>1. ASSUME NEW e \in ToSet(sent'), NEW n \in written', n < e.seq,
               n \notin StoredDurable'
        PROVE  n \in Numbers(sent')
    <3>1. n \in Numbers(queue')
      BY <1>1, <1>4, <2>1 DEF Kept
    <3>2. PICK k \in 1..Len(queue') : queue'[k].seq = n
      BY <3>1, <1>2 DEF Numbers, SeqsOf, ToSet
    <3>3. PICK j \in 1..Len(sent') : e = sent'[j]
      BY <1>2 DEF ToSet
    <3>4. j \in 1..Len(queue') /\ queue'[j] = e
      BY <1>2, <3>3
    <3>5. k < j
      <4>1. /\ queue'[j].seq \in Nat /\ queue'[k].seq \in Nat
            /\ k \in Nat /\ j \in Nat
        <5>1. queue'[j] \in Event /\ queue'[k] \in Event /\ Len(queue') \in Nat
          BY <1>2, <3>2, <3>4
        <5>2. QED
          BY <5>1, <3>2, <3>4 DEF Event
      <4>2. ~(j < k) /\ j # k
        BY <4>1, <1>2, <2>1, <3>2, <3>4 DEF Sorted
      <4>3. QED
        BY <4>1, <4>2
    <3>6. k \in 1..Len(sent') /\ sent'[k].seq = n
      BY <1>2, <3>2, <3>3, <3>5
    <3>7. QED
      BY <3>6, <1>2 DEF Numbers, SeqsOf, ToSet
  <2>2. QED
    BY <2>1 DEF Covered
<1>6. BatchesCovered'
  <2>1. StoredDurable' = StoredDurable
    BY DEF StoredDurable
  <2>2. (\A b \in late : Covered(b))'
    BY <2>1 DEF IInv, BatchesCovered, Covered
  <2>3. QED
    BY <1>5, <2>2 DEF BatchesCovered
<1>7. TypeOK' /\ Bounded'
  BY <1>1, <1>2 DEF IInv, TypeOK, Bounded
<1>8. QED
  BY <1>2, <1>4, <1>6, <1>7 DEF IInv

\* The queue survives a failed request as it is.
LEMMA RetryKeeps ==
  ASSUME IInv, inFlight, Retry, FlushReturns, UNCHANGED <<seq, stored, written>>,
         late' \subseteq late \union {sent}, faults' \in Nat
  PROVE  IInv'
<1>1. /\ UNCHANGED <<queue, batchLimit, batchBytes, stopped, truncated,
                     onStopped, identity>>
      /\ timer' \in BOOLEAN /\ sent' = <<>> /\ inFlight' = FALSE
      /\ drain' \in [Drainers -> DrainStates]
  BY DEF Retry, FlushReturns, Schedule, IInv, TypeOK, DrainStates
<1>2. ToSet(sent') = {}
  BY <1>1 DEF ToSet
<1>3. \A e \in ToSet(queue) : Durable(e) => e.seq \in Numbers(queue')
  BY <1>1 DEF Numbers, SeqsOf
<1>4. HeldOK' /\ NoHoles' /\ Kept' /\ NoDurableLost'
  BY <1>1, <1>2, <1>3, Thinned
<1>5. BatchesCovered'
  BY <1>1, StillCovered DEF IInv, StoredDurable
<1>6. TypeOK'
  <2>1. sent' \in Seq(Event) /\ queue' \in Seq(Event) /\ late' \subseteq Seq(Event)
    BY <1>1 DEF IInv, TypeOK
  <2>2. QED
    BY <1>1, <2>1 DEF IInv, TypeOK
<1>7. Bounded' /\ Sorted(queue)'
  BY <1>1, PusherAssumption DEF IInv, Bounded, Sorted
<1>8. QED
  BY <1>4, <1>5, <1>6, <1>7 DEF IInv

\* giveUp() may drop the queue: the batches under way stay covered.
LEMMA GiveUpKeeps ==
  ASSUME IInv, inFlight, GiveUp, FlushReturns,
         UNCHANGED <<seq, stored, late, written, faults>>
  PROVE  IInv'
<1>1. /\ queue' = <<>> /\ sent' = <<>> /\ stopped' = TRUE /\ timer' = FALSE
      /\ inFlight' = FALSE /\ identity' = FALSE /\ onStopped' = onStopped + 1
      /\ drain' \in [Drainers -> DrainStates]
      /\ UNCHANGED <<batchLimit, batchBytes, truncated>>
  BY DEF GiveUp, FlushReturns, IInv, TypeOK, DrainStates
<1>2. Held' \subseteq Held
  BY <1>1 DEF Held, ToSet
<1>3. HeldOK'
  BY <1>1, <1>2, Carried DEF IInv
<1>4. BatchesCovered'
  BY <1>1, StillCovered DEF IInv, StoredDurable
<1>5. TypeOK'
  <2>1. sent' \in Seq(Event) /\ queue' \in Seq(Event) /\ onStopped' \in Nat
    BY <1>1 DEF IInv, TypeOK
  <2>2. /\ timer' \in BOOLEAN /\ inFlight' \in BOOLEAN /\ stopped' \in BOOLEAN
        /\ identity' \in BOOLEAN
    BY <1>1
  <2>3. QED
    BY <1>1, <2>1, <2>2 DEF IInv, TypeOK
<1>6. Bounded' /\ Sorted(queue)'
  BY <1>1, PusherAssumption DEF IInv, Bounded, Sorted
<1>7. NoHoles' /\ Kept' /\ NoDurableLost'
  BY <1>1 DEF IInv, TypeOK, NoHoles, Kept, NoDurableLost, StoredDurable
<1>8. QED
  BY <1>3, <1>4, <1>5, <1>6, <1>7 DEF IInv

\* A late batch changes the control plane's log only.
LEMMA LateArrivalKeeps == IInv /\ LateArrival => IInv'
<1> SUFFICES ASSUME IInv, LateArrival PROVE IInv'
  OBVIOUS
<1>1. PICK b \in late : /\ late' = late \ {b} /\ StoreBatch(b)
                        /\ UNCHANGED <<seq, queue, timer, inFlight, batchLimit,
                             batchBytes, stopped, truncated, sent, onStopped,
                             identity, drain, faults, written>>
  BY DEF LateArrival
<1>2. b \in Seq(Event) /\ ToSet(b) \subseteq Held /\ Covered(b)
  BY DEF IInv, TypeOK, Held, BatchesCovered
<1>3. /\ stored' \subseteq Event /\ stored' \subseteq Held /\ NoHoles'
      /\ stored \subseteq stored' /\ StoredDurable \subseteq StoredDurable'
  BY <1>1, <1>2, Arrived DEF IInv, TypeOK
<1>4. Held' \subseteq Held
  BY <1>1, <1>3 DEF Held
<1>5. HeldOK'
  BY <1>1, <1>4, Carried DEF IInv
<1>6. BatchesCovered'
  BY <1>1, <1>3, StillCovered DEF IInv
<1>7. TypeOK' /\ Bounded' /\ Sorted(queue)'
  BY <1>1, <1>3 DEF IInv, TypeOK, Bounded, Sorted
<1>8. Kept' /\ NoDurableLost'
  BY <1>1, <1>3 DEF IInv, Kept, NoDurableLost
<1>9. QED
  BY <1>3, <1>5, <1>6, <1>7, <1>8 DEF IInv

\* An acknowledged batch leaves the queue, and nothing below its last stays
\* unstored.
LEMMA AcceptedKeeps == IInv /\ Accepted => IInv'
<1> SUFFICES ASSUME IInv, Accepted PROVE IInv'
  OBVIOUS
<1>1. /\ inFlight /\ StoreBatch(sent) /\ FlushReturns
      /\ UNCHANGED <<seq, late, faults, written>>
      /\ \/ (\E e \in ToSet(sent) : e.kind = "terminal") /\ DeliveredTerminal
         \/ sent # <<>> /\ DeliveredBatch
         \/ sent = <<>> /\ Retry
  BY DEF Accepted
<1>2. /\ sent' = <<>> /\ inFlight' = FALSE /\ drain' \in [Drainers -> DrainStates]
  BY <1>1 DEF FlushReturns, IInv, TypeOK, DrainStates
<1>3. sent \in Seq(Event) /\ ToSet(sent) \subseteq Held /\ Covered(sent)
  BY DEF IInv, TypeOK, Held, BatchesCovered
<1>4. /\ stored' \subseteq Event /\ stored' \subseteq Held /\ NoHoles'
      /\ stored \subseteq stored' /\ StoredDurable \subseteq StoredDurable'
      /\ \A e \in ToSet(sent) : \E f \in stored' : f.seq = e.seq /\ f.kind = e.kind
      /\ \A e \in ToSet(sent) : Durable(e) => e.seq \in StoredDurable'
  BY <1>1, <1>3, Arrived DEF IInv, TypeOK
<1>5. BatchesCovered'
  BY <1>1, <1>2, <1>4, StillCovered DEF IInv
<1>6. ASSUME NEW n \in written, NEW e \in ToSet(sent), ~(n > e.seq)
      PROVE  n \in StoredDurable'
  <2>1. n \in Nat /\ e.seq \in Nat
    BY <1>3, HeldEvents DEF IInv, TypeOK
  <2>2. CASE n = e.seq
    <3>1. Durable(e)
      BY <2>2, <1>3 DEF IInv, HeldOK
    <3>2. QED
      BY <3>1, <2>2, <1>4
  <2>3. CASE n < e.seq
    <3>1. n \in StoredDurable \union Numbers(sent)
      BY <2>3, <1>3 DEF Covered
    <3>2. ASSUME n \in Numbers(sent) PROVE n \in StoredDurable'
      <4>1. PICK f \in ToSet(sent) : f.seq = n
        BY <3>2 DEF Numbers, SeqsOf
      <4>2. Durable(f)
        BY <4>1, <1>3 DEF IInv, HeldOK
      <4>3. QED
        BY <4>1, <4>2, <1>4
    <3>3. QED
      BY <3>1, <3>2, <1>4
  <2>4. QED
    BY <1>6, <2>1, <2>2, <2>3
<1>7. CASE (\E e \in ToSet(sent) : e.kind = "terminal") /\ DeliveredTerminal
  <2>1. /\ queue' = <<>> /\ stopped' = TRUE /\ timer' = FALSE /\ identity' = FALSE
        /\ UNCHANGED <<batchLimit, batchBytes, truncated, onStopped>>
    BY <1>7 DEF DeliveredTerminal
  <2>2. Held' \subseteq Held
    BY <1>1, <1>2, <1>4, <2>1 DEF Held, ToSet
  <2>3. HeldOK'
    BY <1>1, <2>1, <2>2, Carried DEF IInv
  <2>4. TypeOK' /\ Bounded' /\ Sorted(queue)'
    <3>1. sent' \in Seq(Event) /\ queue' \in Seq(Event)
      BY <1>2, <2>1
    <3>2. TypeOK'
      BY <1>1, <1>2, <1>4, <2>1, <3>1 DEF IInv, TypeOK
    <3>3. QED
      BY <1>1, <1>2, <2>1, <3>2, PusherAssumption DEF IInv, Bounded, Sorted
  <2>5. Kept'
    BY <2>1 DEF Kept
  <2>6. NoDurableLost'
    <3>1. PICK e \in ToSet(sent) : e.kind = "terminal"
      BY <1>7
    <3>2. PICK f \in stored' : f.seq = e.seq /\ f.kind = "terminal"
      BY <1>4, <3>1
    <3>3. \A n \in written : n \in StoredDurable' \/ n > e.seq
      BY <1>6
    <3>4. \A n \in written : n \in Nat /\ e.seq \in Nat
      BY <1>3, HeldEvents DEF IInv, TypeOK
    <3>5. QED
      BY <1>1, <3>2, <3>3, <3>4 DEF NoDurableLost
  <2>7. QED
    BY <1>4, <1>5, <2>3, <2>4, <2>5, <2>6 DEF IInv
<1>8. CASE sent # <<>> /\ DeliveredBatch
  <2> DEFINE last == sent[Len(sent)].seq
  <2>1. sent[Len(sent)] \in ToSet(sent) /\ last \in Nat
    <3>1. sent[Len(sent)] \in ToSet(sent)
      BY <1>3, <1>8 DEF ToSet
    <3>2. QED
      BY <3>1, <1>3, HeldEvents DEF IInv
  <2>2. /\ queue' = AfterAck(last) /\ batchLimit' = MaxBatch /\ timer' \in BOOLEAN
        /\ UNCHANGED <<batchBytes, stopped, truncated, onStopped, identity>>
    BY <1>8 DEF DeliveredBatch, Last, Schedule, IInv, TypeOK
  <2> HIDE DEF last
  <2>3. /\ queue' \in Seq(Event) /\ Sorted(queue)' /\ Len(queue') <= Len(queue)
        /\ ToSet(queue') \subseteq ToSet(queue)
        /\ \A x \in ToSet(queue) : x.seq > last => x \in ToSet(queue')
    <3>1. queue \in Seq(Event) /\ Sorted(queue)
      BY DEF IInv, TypeOK
    <3>2. QED
      BY <2>1, <2>2, <3>1, Acknowledged DEF Sorted
  <2>4. Held' \subseteq Held
    <3>1. ToSet(sent') = {}
      BY <1>2 DEF ToSet
    <3>2. QED
      BY <1>1, <1>4, <2>3, <3>1 DEF Held
  <2>5. HeldOK'
    BY <1>1, <2>2, <2>4, Carried DEF IInv
  <2>6. TypeOK' /\ Bounded'
    <3>1. sent' \in Seq(Event) /\ batchLimit' \in 1..MaxBatch
      BY <1>2, <2>2, PusherAssumption
    <3>2. TypeOK'
      BY <1>1, <1>2, <1>4, <2>2, <2>3, <3>1 DEF IInv, TypeOK
    <3>3. QED
      BY <1>1, <1>2, <3>2, PusherAssumption DEF IInv, Bounded
  <2>7. ASSUME NEW n \in written, n \in StoredDurable \union Numbers(queue)
        PROVE  n \in StoredDurable' \union Numbers(queue')
    <3>1. CASE n > last
      BY <3>1, <2>3, <2>7, <1>4 DEF Numbers, SeqsOf
    <3>2. CASE ~(n > last)
      BY <3>2, <2>1, <1>6 DEF last
    <3>3. QED
      BY <3>1, <3>2
  <2>8. Kept' /\ NoDurableLost'
    BY <1>1, <1>4, <2>2, <2>7 DEF IInv, Kept, NoDurableLost
  <2>9. QED
    BY <1>4, <1>5, <2>3, <2>5, <2>6, <2>8 DEF IInv
<1>9. CASE sent = <<>> /\ Retry
  <2>1. stored' = stored
    BY <1>1, <1>9 DEF StoreBatch, ToSet
  <2>2. late' \subseteq late \union {sent} /\ faults' \in Nat
    BY <1>1 DEF IInv, TypeOK
  <2>3. QED
    BY <1>1, <1>9, <2>1, <2>2, RetryKeeps
<1>10. QED
  BY <1>1, <1>7, <1>8, <1>9

\* What replacing a refused event does to the queue.
LEMMA Replaced ==
  ASSUME IInv, Replace
  PROVE  /\ queue' \in Seq(Event) /\ Sorted(queue)' /\ Len(queue') <= Len(queue)
         /\ UNCHANGED <<batchLimit, batchBytes>>
         /\ truncated' \subseteq Nat /\ truncated \subseteq truncated'
         /\ \A x \in ToSet(queue') : \E e \in ToSet(queue) :
              /\ x.seq = e.seq /\ x.kind = e.kind
              /\ ~x.whole => ~e.whole \/ x.seq \in truncated'
         /\ \A e \in ToSet(queue) : Durable(e) => e.seq \in Numbers(queue')
<1>1. queue \in Seq(Event) /\ Sorted(queue) /\ truncated \subseteq Nat
  BY DEF IInv, TypeOK
<1>2. /\ Len(sent) = 1 /\ UNCHANGED <<batchLimit, batchBytes>>
  BY DEF Replace
<1>3. sent[1] \in Event /\ sent[1] \in Held /\ sent[1].seq \in Nat
  <2>1. sent \in Seq(Event) /\ sent[1] \in ToSet(sent)
    BY <1>2 DEF IInv, TypeOK, ToSet
  <2>2. QED
    BY <1>2, <2>1, HeldEvents DEF Held, IInv
<1>4. CASE UNCHANGED <<queue, truncated>>
  BY <1>1, <1>2, <1>4 DEF Sorted, Numbers, SeqsOf
<1>5. ASSUME NEW i \in 1..Len(queue), queue[i].seq = sent[1].seq,
             ~Durable(sent[1]), queue' = RemoveAt(queue, i), truncated' = truncated
      PROVE  /\ queue' \in Seq(Event) /\ Sorted(queue)' /\ Len(queue') <= Len(queue)
             /\ \A x \in ToSet(queue') : \E e \in ToSet(queue) : x = e
             /\ \A e \in ToSet(queue) : Durable(e) => e.seq \in Numbers(queue')
  <2>1. /\ queue' \in Seq(Event) /\ Len(queue') = Len(queue) - 1
        /\ \A j \in 1..(Len(queue) - 1) :
             queue'[j] = IF j < i THEN queue[j] ELSE queue[j + 1]
    BY <1>1, <1>5, RemoveAtProperties
  <2>2. Sorted(queue)'
    BY <1>1, <2>1 DEF Sorted
  <2>3. ToSet(queue') \subseteq ToSet(queue)
    BY <1>1, <2>1 DEF ToSet
  <2>4. ASSUME NEW x \in ToSet(queue), Durable(x) PROVE x \in ToSet(queue')
    <3>1. PICK j \in 1..Len(queue) : x = queue[j]
      BY <1>1 DEF ToSet
    <3>2. queue[i] \in Held
      BY <1>1 DEF Held, ToSet
    <3>3. j # i
      BY <3>1, <3>2, <2>4, <1>3, <1>5 DEF IInv, HeldOK, Durable
    <3>4. CASE j < i
      <4>1. j \in 1..(Len(queue) - 1) /\ queue'[j] = x
        BY <3>1, <3>4, <1>1, <2>1
      <4>2. QED
        BY <4>1, <2>1 DEF ToSet
    <3>5. CASE j > i
      <4>1. j - 1 \in 1..(Len(queue) - 1) /\ queue'[j - 1] = x
        BY <3>1, <3>5, <1>1, <2>1
      <4>2. QED
        BY <4>1, <2>1 DEF ToSet
    <3>6. QED
      BY <3>3, <3>4, <3>5, <1>1
  <2>5. QED
    BY <1>1, <2>1, <2>2, <2>3, <2>4 DEF Numbers, SeqsOf
<1>6. ASSUME NEW i \in 1..Len(queue), queue[i].seq = sent[1].seq,
             queue' = ReplaceAt(queue, i, StubFor(sent[1])),
             truncated' = truncated \union {sent[1].seq}
      PROVE  /\ queue' \in Seq(Event) /\ Sorted(queue)' /\ Len(queue') = Len(queue)
             /\ \A x \in ToSet(queue') : \E e \in ToSet(queue) :
                  /\ x.seq = e.seq /\ x.kind = e.kind
                  /\ ~x.whole => ~e.whole \/ x.seq \in truncated'
             /\ \A e \in ToSet(queue) : e.seq \in Numbers(queue')
  <2> DEFINE stub == StubFor(sent[1])
  <2>1. stub \in Event /\ stub.seq = sent[1].seq /\ stub.kind = sent[1].kind
    BY <1>3, Made
  <2> HIDE DEF stub
  <2>2. /\ queue' \in Seq(Event) /\ Len(queue') = Len(queue)
        /\ \A j \in 1..Len(queue) : queue'[j] = IF j = i THEN stub ELSE queue[j]
    <3>1. queue' = [queue EXCEPT ![i] = stub]
      BY <1>6 DEF ReplaceAt, stub
    <3>2. QED
      BY <3>1, <2>1, <1>1
  <2>3. queue[i] \in Held
    BY <1>1 DEF Held, ToSet
  <2>4. queue[i].kind = stub.kind /\ queue[i].seq = stub.seq
    BY <2>1, <2>3, <1>3, <1>6 DEF IInv, HeldOK
  <2>5. \A j \in 1..Len(queue) : /\ queue'[j].seq = queue[j].seq
                                 /\ queue'[j].kind = queue[j].kind
                                 /\ queue'[j] = queue[j] \/ queue'[j].seq \in truncated'
    BY <2>1, <2>2, <2>4, <1>6
  <2>6. Sorted(queue)'
    BY <1>1, <2>2, <2>5 DEF Sorted
  <2>7. \A x \in ToSet(queue') : \E e \in ToSet(queue) :
                  /\ x.seq = e.seq /\ x.kind = e.kind
                  /\ ~x.whole => ~e.whole \/ x.seq \in truncated'
    BY <1>1, <2>2, <2>5 DEF ToSet
  <2>8. \A e \in ToSet(queue) : e.seq \in Numbers(queue')
    BY <1>1, <2>2, <2>5 DEF Numbers, SeqsOf, ToSet
  <2>9. QED
    BY <2>2, <2>6, <2>7, <2>8
<1>7. \/ UNCHANGED <<queue, truncated>>
      \/ \E i \in 1..Len(queue) :
           /\ queue[i].seq = sent[1].seq
           /\ \/ /\ ~Durable(sent[1]) /\ queue' = RemoveAt(queue, i)
                 /\ UNCHANGED truncated
              \/ /\ queue' = ReplaceAt(queue, i, StubFor(sent[1]))
                 /\ truncated' = truncated \union {sent[1].seq}
  BY <1>1 DEF Replace
<1>8. QED
  <2>1. CASE UNCHANGED <<queue, truncated>>
    BY <2>1, <1>4
  <2>2. ASSUME NEW i \in 1..Len(queue), queue[i].seq = sent[1].seq,
             ~Durable(sent[1]), queue' = RemoveAt(queue, i), truncated' = truncated
        PROVE  /\ queue' \in Seq(Event) /\ Sorted(queue)' /\ Len(queue') <= Len(queue)
               /\ truncated' \subseteq Nat /\ truncated \subseteq truncated'
               /\ \A x \in ToSet(queue') : \E e \in ToSet(queue) :
                    /\ x.seq = e.seq /\ x.kind = e.kind
                    /\ ~x.whole => ~e.whole \/ x.seq \in truncated'
               /\ \A e \in ToSet(queue) : Durable(e) => e.seq \in Numbers(queue')
    BY <2>2, <1>1, <1>5
  <2>3. ASSUME NEW i \in 1..Len(queue), queue[i].seq = sent[1].seq,
             queue' = ReplaceAt(queue, i, StubFor(sent[1])),
             truncated' = truncated \union {sent[1].seq}
        PROVE  /\ queue' \in Seq(Event) /\ Sorted(queue)' /\ Len(queue') <= Len(queue)
               /\ truncated' \subseteq Nat /\ truncated \subseteq truncated'
               /\ \A x \in ToSet(queue') : \E e \in ToSet(queue) :
                    /\ x.seq = e.seq /\ x.kind = e.kind
                    /\ ~x.whole => ~e.whole \/ x.seq \in truncated'
               /\ \A e \in ToSet(queue) : Durable(e) => e.seq \in Numbers(queue')
    <3>1. /\ queue' \in Seq(Event) /\ Sorted(queue)' /\ Len(queue') = Len(queue)
          /\ \A x \in ToSet(queue') : \E e \in ToSet(queue) :
               /\ x.seq = e.seq /\ x.kind = e.kind
               /\ ~x.whole => ~e.whole \/ x.seq \in truncated'
          /\ \A e \in ToSet(queue) : e.seq \in Numbers(queue')
      BY <2>3, <1>6
    <3>2. truncated' \subseteq Nat /\ truncated \subseteq truncated'
      BY <2>3, <1>1, <1>3
    <3>3. Len(queue') <= Len(queue)
      BY <3>1, <1>1
    <3>4. QED
      BY <3>1, <3>2, <3>3
  <2>4. QED
    BY <1>2, <1>7, <2>1, <2>2, <2>3

\* refusedForSize() keeps the inductive invariant: splitting leaves the queue
\* alone and a durable event is replaced, never taken out.
LEMMA SizeRefusedKeeps == IInv /\ SizeRefused => IInv'
<1> SUFFICES ASSUME IInv, SizeRefused PROVE IInv'
  OBVIOUS
<1>1. /\ inFlight /\ sent # <<>> /\ faults' \in Nat /\ FlushReturns
      /\ UNCHANGED <<seq, stored, late, written>>
      /\ \/ (Split \/ Replace) /\ Schedule(FALSE, stopped)
            /\ UNCHANGED <<stopped, onStopped, identity>>
         \/ Retry
  <2>1. faults \in Nat /\ faults' \in {faults, faults + 1}
    BY DEF SizeRefused, IInv, TypeOK
  <2>2. faults' \in Nat
    BY <2>1
  <2>3. QED
    BY <2>2 DEF SizeRefused
<1>2. /\ sent' = <<>> /\ inFlight' = FALSE /\ drain' \in [Drainers -> DrainStates]
      /\ sent' \in Seq(Event)
  BY <1>1 DEF FlushReturns, IInv, TypeOK, DrainStates
<1>3. CASE Retry
  BY <1>1, <1>3, RetryKeeps DEF IInv, TypeOK
<1>4. ASSUME Split \/ Replace, Schedule(FALSE, stopped),
             UNCHANGED <<stopped, onStopped, identity>>
      PROVE  IInv'
  <2>1. /\ queue' \in Seq(Event) /\ Sorted(queue)'
        /\ truncated' \subseteq Nat /\ truncated \subseteq truncated'
        /\ \A x \in ToSet(queue') : \E e \in ToSet(queue) :
             /\ x.seq = e.seq /\ x.kind = e.kind
             /\ ~x.whole => ~e.whole \/ x.seq \in truncated'
        /\ \A e \in ToSet(queue) : Durable(e) => e.seq \in Numbers(queue')
        /\ batchLimit' \in 1..MaxBatch /\ batchBytes' \in Nat
    <3>1. CASE Split
      <4> DEFINE half == Len(sent) \div 2
                 bytes == Bytes(sent) \div 2
      <4>1. half \in Nat /\ half <= MaxBatch /\ bytes \in Nat
        <5>1. Len(sent) \in Nat /\ Len(sent) <= MaxBatch /\ Bytes(sent) \in Nat
          BY Sums DEF IInv, TypeOK, Bounded
        <5>2. QED
          BY <5>1, PusherAssumption
      <4>2. /\ batchLimit' = Max({1, half})
            /\ batchBytes' = Min({batchBytes, Max({MinBatchBytes, bytes})})
            /\ UNCHANGED <<queue, truncated>>
        BY <3>1 DEF Split
      <4> HIDE DEF half, bytes
      <4>a. 1 \in Int /\ half \in Int /\ bytes \in Int /\ MinBatchBytes \in Int
        BY <4>1, PusherAssumption
      <4>b. Max({1, half}) \in {1, half} /\ Max({1, half}) >= 1
        BY <4>a, OfTwo, Zenon
      <4>3. batchLimit' \in 1..MaxBatch
        BY <4>1, <4>2, <4>b, PusherAssumption
      <4>c. Max({MinBatchBytes, bytes}) \in {MinBatchBytes, bytes}
        BY <4>a, OfTwo, Zenon
      <4>4. Max({MinBatchBytes, bytes}) \in Nat
        BY <4>1, <4>c, PusherAssumption
      <4> DEFINE lower == Max({MinBatchBytes, bytes})
      <4> HIDE DEF lower
      <4>d. lower \in Int /\ batchBytes \in Int /\ lower \in Nat
        BY <4>4 DEF lower, IInv, TypeOK
      <4>e. Min({batchBytes, lower}) \in {batchBytes, lower}
        BY <4>d, OfTwo, Zenon
      <4>5. batchBytes' \in Nat
        BY <4>2, <4>d, <4>e DEF IInv, TypeOK, lower
      <4>6. QED
        BY <4>2, <4>3, <4>5 DEF IInv, TypeOK, Sorted, Numbers, SeqsOf
    <3>2. CASE Replace
      BY <3>2, Replaced DEF IInv, TypeOK
    <3>3. QED
      BY <1>4, <3>1, <3>2
  <2>2. ToSet(sent') = {} /\ timer' \in BOOLEAN
    BY <1>2, <1>4 DEF ToSet, Schedule, IInv, TypeOK
  <2>3. HeldOK' /\ NoHoles' /\ Kept' /\ NoDurableLost'
    BY <1>1, <1>4, <2>1, <2>2, Thinned
  <2>4. BatchesCovered'
    BY <1>1, <1>2, StillCovered DEF IInv, StoredDurable
  <2>5. TypeOK'
    BY <1>1, <1>2, <1>4, <2>1, <2>2 DEF IInv, TypeOK
  <2>6. Bounded'
    BY <1>1, <1>2, PusherAssumption DEF IInv, Bounded
  <2>7. QED
    BY <2>1, <2>3, <2>4, <2>5, <2>6 DEF IInv
<1>5. QED
  BY <1>1, <1>3, <1>4

\* Steps of the timer and of drain() that take no batch.
LEMMA IdleKeeps ==
  ASSUME IInv, stopped => stopped', timer' \in BOOLEAN, stopped' \in BOOLEAN,
         drain' \in [Drainers -> DrainStates],
         UNCHANGED <<seq, queue, inFlight, batchLimit, batchBytes, truncated, sent,
                     onStopped, identity, stored, late, faults, written>>
  PROVE  IInv'
<1>1. \A e \in ToSet(queue) : Durable(e) => e.seq \in Numbers(queue')
  BY DEF Numbers, SeqsOf
<1>2. HeldOK' /\ NoHoles' /\ Kept' /\ NoDurableLost'
  BY <1>1, Thinned
<1>3. BatchesCovered'
  BY StillCovered DEF IInv, StoredDurable
<1>4. TypeOK' /\ Bounded' /\ Sorted(queue)'
  BY DEF IInv, TypeOK, Bounded, Sorted
<1>5. QED
  BY <1>2, <1>3, <1>4 DEF IInv

\* The flush timer, whether or not it finds anything queued.
LEMMA TimerKeeps == IInv /\ TimerFires => IInv'
<1> SUFFICES ASSUME IInv, TimerFires PROVE IInv'
  OBVIOUS
<1>1. timer' \in BOOLEAN /\ drain' \in [Drainers -> DrainStates]
  BY DEF TimerFires, IInv, TypeOK
<1>2. CASE Flush
  BY <1>1, <1>2, FlushKeeps DEF TimerFires
<1>3. CASE UNCHANGED <<queue, truncated, sent, inFlight>>
  BY <1>1, <1>3, IdleKeeps DEF TimerFires, IInv, TypeOK
<1>4. QED
  BY <1>2, <1>3 DEF TimerFires

\* Every step of a drain() call.
LEMMA DrainKeeps == ASSUME NEW d \in Drainers PROVE IInv /\ DrainStep(d) => IInv'
<1> SUFFICES ASSUME IInv, DrainStep(d) PROVE IInv'
  OBVIOUS
<1>1. UNCHANGED <<seq, batchLimit, batchBytes, onStopped, identity, stored, late,
                  faults, written>>
  BY DEF DrainStep
<1>2. timer' \in BOOLEAN /\ drain' \in [Drainers -> DrainStates]
  BY DEF DrainStep, DrainLoop, DrainStops, IInv, TypeOK, DrainStates
<1>3. CASE Flush /\ UNCHANGED stopped
  BY <1>1, <1>2, <1>3, FlushKeeps
<1>4. CASE UNCHANGED <<queue, truncated, sent, inFlight>> /\ stopped' \in {stopped, TRUE}
  BY <1>1, <1>2, <1>4, IdleKeeps DEF IInv, TypeOK
<1>5. QED
  BY <1>3, <1>4 DEF DrainStep, DrainLoop, DrainStops

\* Every outcome of a request.
LEMMA AnswerKeeps == IInv /\ Answer => IInv'
<1> SUFFICES ASSUME IInv, Answer PROVE IInv'
  OBVIOUS
<1>1. CASE Accepted
  BY <1>1, AcceptedKeeps
<1>2. CASE Refused
  BY <1>2, GiveUpKeeps DEF Refused
<1>3. CASE RenewalRefused
  <2>1. late' \subseteq late \union {sent}
    BY <1>3 DEF RenewalRefused
  <2>2. PICK n \in 1..MaxRenewalRefusals :
          IF n >= MaxRenewalRefusals THEN GiveUp /\ UNCHANGED faults
          ELSE faults < MaxFaults /\ Retry /\ faults' = faults + 1
    BY <1>3 DEF RenewalRefused
  <2>3. CASE GiveUp /\ UNCHANGED faults
    BY <1>3, <2>3, GiveUpKeeps DEF RenewalRefused
  <2>4. CASE Retry /\ faults' = faults + 1
    <3>1. faults' \in Nat
      BY <2>4 DEF IInv, TypeOK
    <3>2. QED
      BY <1>3, <2>1, <2>4, <3>1, RetryKeeps DEF RenewalRefused
  <2>5. QED
    BY <2>2, <2>3, <2>4
<1>4. CASE Failed
  <2>1. late' \subseteq late \union {sent} /\ faults' \in Nat
    BY <1>4 DEF Failed, IInv, TypeOK
  <2>2. QED
    BY <1>4, <2>1, RetryKeeps DEF Failed
<1>5. CASE SizeRefused
  BY <1>5, SizeRefusedKeeps
<1>6. QED
  BY <1>1, <1>2, <1>3, <1>4, <1>5 DEF Answer

\* Every call of emit(), stopped or not.
LEMMA EmitStepKeeps == IInv /\ Emit => IInv'
<1> SUFFICES ASSUME IInv, Emit PROVE IInv'
  OBVIOUS
<1>1. PICK p \in Payloads : \/ \E kind \in Kinds : EmitOne(kind, p)
                            \/ EmitTerminalInTurn(p)
                            \/ EmitWithFilesChanged(p)
  BY DEF Emit
<1>2. p \in [size : Nat, json : BOOLEAN] /\ seq \in Nat
  BY PusherAssumption DEF IInv, TypeOK
<1> DEFINE same == UNCHANGED <<inFlight, batchLimit, batchBytes, stopped, sent,
                       onStopped, identity, drain, stored, late, faults>>
<1>3. CASE stopped /\ same /\ seq' \in {seq + 1, seq + 2}
           /\ UNCHANGED <<queue, written, truncated, timer>>
  <2>1. seq <= seq' /\ seq' \in Nat
    BY <1>2, <1>3
  <2>2. Held' = Held /\ StoredDurable' = StoredDurable
    BY <1>3 DEF Held, StoredDurable
  <2>3. \A e \in Held : e.seq <= seq'
    BY <1>2, <2>1, HeldEvents DEF IInv, HeldOK
  <2>4. HeldOK'
    BY <1>3, <2>2, <2>3 DEF IInv, HeldOK, Durable
  <2>5. BatchesCovered' /\ NoHoles' /\ Kept' /\ NoDurableLost' /\ Sorted(queue)'
    BY <1>3, <2>2 DEF IInv, BatchesCovered, Covered, NoHoles, Kept, NoDurableLost, Sorted
  <2>6. TypeOK'
    BY <1>3, <2>1 DEF IInv, TypeOK
  <2>7. Bounded'
    <3>1. 0..seq \subseteq 0..seq'
      BY <1>2, <2>1
    <3>2. QED
      BY <1>3, <3>1 DEF IInv, Bounded
  <2>8. QED
    BY <2>4, <2>5, <2>6, <2>7 DEF IInv
<1>4. ASSUME NEW e \in Event, e.seq = seq + 1, ~stopped, same, seq' = seq + 1,
             Push(<<e>>)
      PROVE  IInv'
  <2>1. /\ <<e>> \in Seq(Event) /\ Len(<<e>>) = 1 /\ <<e>>[1] = e
        /\ seq' = seq + Len(<<e>>)
    BY <1>4
  <2>2. QED
    BY <1>4, <2>1, EmitKeeps
<1>5. ASSUME NEW e \in Event, NEW f \in Event, e.seq = seq + 1, f.seq = seq + 2,
             Durable(f), ~stopped, same, seq' = seq + 2, Push(<<e, f>>)
      PROVE  IInv'
  <2>1. /\ <<e, f>> \in Seq(Event) /\ Len(<<e, f>>) = 2 /\ <<e, f>>[1] = e
        /\ <<e, f>>[2] = f /\ seq' = seq + Len(<<e, f>>)
    BY <1>5
  <2>2. QED
    BY <1>5, <2>1, EmitKeeps
<1>6. ASSUME NEW kind \in Kinds, EmitOne(kind, p) PROVE IInv'
  <2> DEFINE e == NewEvent(seq + 1, kind, p)
  <2>1. e \in Event /\ e.seq = seq + 1
    BY <1>2, Made
  <2>2. same /\ seq' = seq + 1 /\ (~stopped => Push(<<e>>))
        /\ (stopped => UNCHANGED <<queue, written, truncated, timer>>)
    BY <1>6 DEF EmitOne
  <2> HIDE DEF e
  <2>3. QED
    BY <1>3, <1>4, <2>1, <2>2
<1>7. CASE EmitTerminalInTurn(p)
  <2> DEFINE e == OwnEvent(seq + 1)
             f == NewEvent(seq + 2, "terminal", p)
  <2>1. e \in Event /\ e.seq = seq + 1 /\ f \in Event /\ f.seq = seq + 2 /\ Durable(f)
    BY <1>2, Made DEF Durable, Kinds
  <2>2. same /\ seq' = seq + 2 /\ (~stopped => Push(<<e, f>>))
        /\ (stopped => UNCHANGED <<queue, written, truncated, timer>>)
    BY <1>7 DEF EmitTerminalInTurn
  <2> HIDE DEF e, f
  <2>3. QED
    BY <1>3, <1>5, <2>1, <2>2
<1>8. CASE EmitWithFilesChanged(p)
  <2> DEFINE e == NewEvent(seq + 1, "durable", p)
             f == OwnEvent(seq + 2)
  <2>1. e \in Event /\ e.seq = seq + 1 /\ f \in Event /\ f.seq = seq + 2 /\ Durable(f)
    BY <1>2, Made DEF Durable, Kinds
  <2>2. same /\ seq' = seq + 2 /\ ~stopped /\ Push(<<e, f>>)
    BY <1>8 DEF EmitWithFilesChanged
  <2> HIDE DEF e, f
  <2>3. QED
    BY <1>5, <2>1, <2>2
<1>9. QED
  BY <1>1, <1>6, <1>7, <1>8

\* A new pusher satisfies the inductive invariant.
LEMMA InitHolds == Init => IInv
<1> SUFFICES ASSUME Init PROVE IInv
  OBVIOUS
<1>1. TypeOK
  <2>1. queue \in Seq(Event) /\ sent \in Seq(Event)
    BY DEF Init
  <2>2. batchLimit \in 1..MaxBatch /\ batchBytes \in Nat
    BY PusherAssumption DEF Init
  <2>3. QED
    BY <2>1, <2>2 DEF Init, TypeOK, DrainStates
<1>2. Held = {}
  BY DEF Init, Held, ToSet
<1>3. Bounded /\ Sorted(queue) /\ HeldOK /\ NoHoles /\ Kept /\ NoDurableLost
  BY <1>2, PusherAssumption DEF Init, Bounded, Sorted, HeldOK, NoHoles, Kept, NoDurableLost
<1>4. BatchesCovered
  BY DEF Init, BatchesCovered, Covered
<1>5. QED
  BY <1>1, <1>3, <1>4 DEF IInv

\* Every handler of the pusher, and every move of the control plane, keeps it.
LEMMA StepKeeps == IInv /\ [Next]_vars => IInv'
<1> SUFFICES ASSUME IInv, [Next]_vars PROVE IInv'
  OBVIOUS
<1>1. CASE UNCHANGED vars
  BY <1>1, IdleKeeps DEF vars, IInv, TypeOK
<1>2. QED
  BY <1>1, EmitStepKeeps, TimerKeeps, AnswerKeeps, LateArrivalKeeps, DrainKeeps DEF Next

-----------------------------------------------------------------------------
(* The theorems *)

\* The inductive invariant holds throughout.
THEOREM Inductive == Spec => []IInv
<1>1. QED
  BY InitHolds, StepKeeps, PTL DEF Spec

\* Every variable keeps its type: batch sizes and byte budgets stay in range
\* through every refusal cascade of refusedForSize().
THEOREM TypeCorrect == Spec => []TypeOK
<1>1. IInv => TypeOK
  BY DEF IInv
<1>2. QED
  BY <1>1, Inductive, PTL

\* A reader of the control plane's log never sees a hole in the durable
\* events: flush() sends from the head of the queue and removes by seq.
THEOREM LogHasNoHoles == Spec => []NoHoles
<1>1. IInv => NoHoles
  BY DEF IInv
<1>2. QED
  BY <1>1, Inductive, PTL

\* Every durable event emit() queued is stored or still queued, unless the
\* pusher gave up or a terminal event before it is stored.
THEOREM DurableNeverLost == Spec => []NoDurableLost
<1>1. IInv => NoDurableLost
  BY DEF IInv
<1>2. QED
  BY <1>1, Inductive, PTL

\* An approval never meets a cut event it does not know of (noteTruncated).
THEOREM CutRemembered == Spec => []CutIsRemembered
<1>1. IInv => CutIsRemembered
  BY DEF IInv, HeldOK, Held, CutIsRemembered
<1>2. QED
  BY <1>1, Inductive, PTL

\* giveUp() runs onStopped once: whatever answers are still under way find a
\* pusher with no request in flight.
THEOREM StoppedOnce == Spec => []OnStoppedOnce
<1>1. Init => OnStoppedOnce
  BY DEF Init, OnStoppedOnce
<1>2. ASSUME TypeOK, OnStoppedOnce, [Next]_vars PROVE OnStoppedOnce'
  <2>1. CASE UNCHANGED vars
    BY <1>2, <2>1 DEF vars, OnStoppedOnce
  <2>2. CASE Emit
    <3>1. UNCHANGED <<stopped, inFlight, identity, onStopped>>
      BY <2>2 DEF Emit, EmitOne, EmitTerminalInTurn, EmitWithFilesChanged
    <3>2. QED
      BY <1>2, <3>1 DEF OnStoppedOnce
  <2>3. CASE TimerFires
    BY <1>2, <2>3 DEF TimerFires, Flush, OnStoppedOnce
  <2>4. CASE Answer
    <3>1. inFlight /\ onStopped = 0 /\ inFlight' = FALSE
      <4>1. inFlight /\ inFlight' = FALSE
        BY <2>4 DEF Answer, Accepted, Refused, RenewalRefused, Failed,
                    SizeRefused, FlushReturns
      <4>2. QED
        BY <1>2, <4>1 DEF OnStoppedOnce, TypeOK
    <3>2. onStopped' = onStopped \/ GiveUp
      BY <2>4 DEF Answer, Accepted, Refused, RenewalRefused, Failed, SizeRefused,
                  DeliveredTerminal, DeliveredBatch, Retry
    <3>3. QED
      BY <3>1, <3>2 DEF OnStoppedOnce, GiveUp
  <2>5. CASE LateArrival
    BY <1>2, <2>5 DEF LateArrival, OnStoppedOnce
  <2>6. ASSUME NEW d \in Drainers, DrainStep(d) PROVE OnStoppedOnce'
    BY <1>2, <2>6 DEF DrainStep, DrainLoop, DrainStops, Flush, OnStoppedOnce
  <2>7. QED
    BY <1>2, <2>1, <2>2, <2>3, <2>4, <2>5, <2>6 DEF Next
<1>3. QED
  BY <1>1, <1>2, TypeCorrect, PTL DEF Spec

\* Whatever handlers interleave, a running pusher with events queued has a
\* timer, a request or a drain() to look at them (schedule(), flush(), drain()).
THEOREM NeverForgotten == Spec => []NothingForgotten
<1>1. Init => NothingForgotten
  BY DEF Init, NothingForgotten
<1>2. ASSUME TypeOK, NothingForgotten, [Next]_vars PROVE NothingForgotten'
  <2>1. CASE UNCHANGED vars
    BY <1>2, <2>1 DEF vars, NothingForgotten
  <2>2. CASE Emit
    <3>1. UNCHANGED <<stopped, inFlight, drain>>
      BY <2>2 DEF Emit, EmitOne, EmitTerminalInTurn, EmitWithFilesChanged
    <3>2. \/ UNCHANGED <<queue, timer>>
          \/ Schedule(inFlight, stopped)
      BY <2>2 DEF Emit, EmitOne, EmitTerminalInTurn, EmitWithFilesChanged, Push
    <3>3. QED
      BY <1>2, <3>1, <3>2 DEF NothingForgotten, Schedule, TypeOK
  <2>3. CASE TimerFires
    BY <2>3 DEF TimerFires, Flush, NothingForgotten
  <2>4. CASE Answer
    <3>1. inFlight' = FALSE
      BY <2>4 DEF Answer, Accepted, Refused, RenewalRefused, Failed, SizeRefused,
                  FlushReturns
    <3>2. \/ stopped' = TRUE
          \/ stopped' = stopped /\ (queue' = <<>> \/ Schedule(FALSE, stopped))
      BY <2>4 DEF Answer, Accepted, Refused, RenewalRefused, Failed, SizeRefused,
                  DeliveredTerminal, DeliveredBatch, Retry, GiveUp
    <3>3. queue' # <<>> /\ ~stopped' => timer'
      <4>1. SUFFICES ASSUME queue' # <<>>, ~stopped' PROVE timer'
        OBVIOUS
      <4>a. stopped' # TRUE
        BY <4>1
      <4>b. stopped' = stopped
        BY <3>2, <4>a, Zenon
      <4>c. Schedule(FALSE, stopped)
        BY <3>2, <4>1, <4>a, Zenon
      <4>d. ~stopped
        BY <4>1, <4>b, Zenon
      <4>2. ~stopped /\ Schedule(FALSE, stopped)
        BY <4>c, <4>d, Zenon
      <4>3. timer' = TRUE
        BY <1>2, <4>2 DEF Schedule, TypeOK
      <4>4. QED
        BY <4>3
    <3>4. QED
      BY <3>3 DEF NothingForgotten
  <2>5. CASE LateArrival
    BY <1>2, <2>5 DEF LateArrival, NothingForgotten
  <2>6. ASSUME NEW d \in Drainers, DrainStep(d) PROVE NothingForgotten'
    <3>1. drain \in [Drainers -> DrainStates]
      BY <1>2 DEF TypeOK
    <3>2. \/ stopped' = TRUE \/ inFlight'
          \/ drain' = [drain EXCEPT ![d] = "sleeping"]
      BY <2>6 DEF DrainStep, DrainLoop, DrainStops, Flush
    <3>3. QED
      BY <3>1, <3>2 DEF NothingForgotten
  <2>7. QED
    BY <1>2, <2>1, <2>2, <2>3, <2>4, <2>5, <2>6 DEF Next
<1>3. QED
  BY <1>1, <1>2, TypeCorrect, PTL DEF Spec

-----------------------------------------------------------------------------
(* The queue's cap *)

Overfull(q) == Len(q) > MaxQueue => Partials(q) = {}

\* Overflow leaves a queue past its cap without partials if it had none there.
LEMMA OverfullEnqueue ==
  ASSUME NEW q \in Seq(Event), NEW e \in Event, Overfull(q)
  PROVE  Enqueue(q, e) \in Seq(Event) /\ Overfull(Enqueue(q, e))
<1>1. /\ Append(q, e) \in Seq(Event) /\ Len(Append(q, e)) = Len(q) + 1
      /\ \A i \in 1..Len(q) : Append(q, e)[i] = q[i]
      /\ Append(q, e)[Len(q) + 1] = e
  OBVIOUS
<1>2. MaxQueue \in Nat /\ Len(q) \in Nat
  BY PusherAssumption
<1>3. CASE Len(q) < MaxQueue
  BY <1>1, <1>2, <1>3 DEF Enqueue, Overfull
<1>4. CASE ~(Len(q) < MaxQueue) /\ e.kind = "partial"
  BY <1>4 DEF Enqueue
<1>5. CASE ~(Len(q) < MaxQueue) /\ e.kind # "partial" /\ Partials(q) # {}
  <2> DEFINE k == Min(Partials(q))
             r == RemoveAt(q, k)
  <2>1. k \in 1..Len(q)
    <3>1. Partials(q) \in SUBSET Nat
      BY DEF Partials
    <3>2. k \in Partials(q)
      BY <3>1, <1>5, MinOf
    <3>3. QED
      BY <3>2 DEF Partials
  <2> HIDE DEF k
  <2>2. r \in Seq(Event) /\ Len(r) = Len(q) - 1
    BY <2>1, RemoveAtProperties
  <2> HIDE DEF r
  <2>3. Enqueue(q, e) = Append(r, e)
    BY <1>5 DEF Enqueue, r, k
  <2>4. Append(r, e) \in Seq(Event) /\ Len(Append(r, e)) = Len(q)
    BY <2>2
  <2>5. ~(Len(q) > MaxQueue)
    BY <1>5 DEF Overfull
  <2>6. QED
    BY <2>3, <2>4, <2>5 DEF Overfull
<1>6. CASE ~(Len(q) < MaxQueue) /\ e.kind # "partial" /\ Partials(q) = {}
  <2>1. Enqueue(q, e) = Append(q, e)
    BY <1>6 DEF Enqueue
  <2>2. Partials(Append(q, e)) = {}
    <3>1. ASSUME NEW i \in 1..(Len(q) + 1) PROVE Append(q, e)[i].kind # "partial"
      <4>1. CASE i \in 1..Len(q)
        BY <4>1, <1>1, <1>6 DEF Partials
      <4>2. CASE i = Len(q) + 1
        BY <4>2, <1>1, <1>6
      <4>3. QED
        BY <4>1, <4>2, <1>2
    <3>2. QED
      BY <3>1, <1>1 DEF Partials
  <2>3. QED
    BY <1>1, <2>1, <2>2 DEF Overfull
<1>7. QED
  BY <1>3, <1>4, <1>5, <1>6

\* Overflow sheds partials first: past MAX_QUEUE only durable events wait.
THEOREM OverflowShedsPartials == Spec => []OverflowIsDurable
<1>1. Init => OverflowIsDurable
  BY PusherAssumption DEF Init, OverflowIsDurable
<1>2. ASSUME IInv, OverflowIsDurable, [Next]_vars PROVE OverflowIsDurable'
  <2>1. queue \in Seq(Event) /\ Sorted(queue) /\ Overfull(queue)
    BY <1>2 DEF IInv, TypeOK, OverflowIsDurable, Overfull
  <2> SUFFICES Overfull(queue')
    BY DEF OverflowIsDurable, Overfull, Partials
  <2>2. ASSUME queue' \in Seq(Event), Len(queue') <= Len(queue),
               \A x \in ToSet(queue') : \E e \in ToSet(queue) : x.kind = e.kind
        PROVE  Overfull(queue')
    <3>1. SUFFICES ASSUME Len(queue') > MaxQueue, NEW i \in 1..Len(queue'),
                          queue'[i].kind = "partial"
                   PROVE  FALSE
      BY <2>2 DEF Overfull, Partials
    <3>2. Partials(queue) = {}
      <4>1. Len(queue) \in Nat /\ Len(queue') \in Nat /\ MaxQueue \in Nat
        BY <2>1, <2>2, PusherAssumption
      <4>2. QED
        BY <2>1, <2>2, <3>1, <4>1 DEF Overfull
    <3>3. queue'[i] \in ToSet(queue')
      BY <2>2 DEF ToSet
    <3>4. PICK e \in ToSet(queue) : e.kind = "partial"
      BY <2>2, <3>1, <3>3
    <3>5. QED
      BY <3>2, <3>4, <2>1 DEF Partials, ToSet
  <2>3. CASE queue' = queue
    BY <2>1, <2>3
  <2>4. CASE queue' = <<>>
    BY <2>4, PusherAssumption DEF Overfull
  <2>5. CASE NextBatch
    <3>1. batchLimit \in 1..MaxBatch /\ truncated \subseteq Nat
      BY <1>2 DEF IInv, TypeOK
    <3>2. /\ queue' \in Seq(Event) /\ Len(queue') <= Len(queue)
          /\ \A x \in ToSet(queue') : \E e \in ToSet(queue) : x.kind = e.kind
      BY <2>1, <2>5, <3>1, Batched
    <3>3. QED
      BY <2>2, <3>2
  <2>6. CASE Replace
    BY <1>2, <2>2, <2>6, Replaced
  <2>7. ASSUME NEW last \in Nat, queue' = AfterAck(last) PROVE Overfull(queue')
    BY <2>1, <2>2, <2>7, Acknowledged
  <2>8. CASE Emit
    <3>1. PICK p \in Payloads : \/ \E kind \in Kinds : EmitOne(kind, p)
                                \/ EmitTerminalInTurn(p)
                                \/ EmitWithFilesChanged(p)
      BY <2>8 DEF Emit
    <3>2. p \in [size : Nat, json : BOOLEAN] /\ seq \in Nat
      BY <1>2, PusherAssumption DEF IInv, TypeOK
    <3>3. ASSUME NEW kind \in Kinds, EmitOne(kind, p) PROVE Overfull(queue')
      <4> DEFINE e == NewEvent(seq + 1, kind, p)
      <4>1. e \in Event
        BY <3>2, Made
      <4>2. queue' = queue \/ queue' = Enqueue(queue, e)
        <5>1. ~stopped => Push(<<e>>)
          BY <3>3 DEF EmitOne
        <5> HIDE DEF e
        <5>2. QED
          BY <3>3, <5>1 DEF EmitOne, Push
      <4> HIDE DEF e
      <4>3. QED
        BY <4>1, <4>2, <2>1, OverfullEnqueue
    <3>4. ASSUME NEW e \in Event, NEW f \in Event, Push(<<e, f>>)
          PROVE  Overfull(queue')
      <4>1. queue' = Enqueue(Enqueue(queue, e), f)
        BY <3>4 DEF Push
      <4>2. QED
        BY <4>1, <2>1, OverfullEnqueue
    <3>5. CASE EmitTerminalInTurn(p)
      <4>1. OwnEvent(seq + 1) \in Event /\ NewEvent(seq + 2, "terminal", p) \in Event
        BY <3>2, Made DEF Kinds
      <4>2. \/ queue' = queue
            \/ Push(<<OwnEvent(seq + 1), NewEvent(seq + 2, "terminal", p)>>)
        BY <3>5 DEF EmitTerminalInTurn
      <4>3. QED
        BY <4>1, <4>2, <2>3, <3>4
    <3>6. CASE EmitWithFilesChanged(p)
      <4>1. OwnEvent(seq + 2) \in Event /\ NewEvent(seq + 1, "durable", p) \in Event
        BY <3>2, Made DEF Kinds
      <4>2. Push(<<NewEvent(seq + 1, "durable", p), OwnEvent(seq + 2)>>)
        BY <3>6 DEF EmitWithFilesChanged
      <4>3. QED
        BY <4>1, <4>2, <3>4
    <3>7. QED
      BY <3>1, <3>3, <3>5, <3>6
  <2>9. CASE TimerFires
    BY <2>3, <2>5, <2>9 DEF TimerFires, Flush
  <2>10. CASE Answer
    <3>1. CASE Accepted
      <4>1. sent # <<>> => Last(sent).seq \in Nat
        <5>1. sent \in Seq(Event)
          BY <1>2 DEF IInv, TypeOK
        <5>2. sent # <<>> => sent[Len(sent)] \in Event
          BY <5>1
        <5>3. QED
          BY <5>2 DEF Last, Event
      <4>2. QED
        BY <2>3, <2>4, <2>7, <3>1, <4>1 DEF Accepted, DeliveredTerminal,
                                            DeliveredBatch, Retry
    <3>2. CASE Refused \/ RenewalRefused \/ Failed
      BY <2>3, <2>4, <3>2 DEF Refused, RenewalRefused, Failed, GiveUp, Retry
    <3>3. CASE SizeRefused
      BY <2>3, <2>6, <3>3 DEF SizeRefused, Split, Retry
    <3>4. QED
      BY <2>10, <3>1, <3>2, <3>3 DEF Answer
  <2>11. CASE LateArrival
    BY <2>3, <2>11 DEF LateArrival
  <2>12. ASSUME NEW d \in Drainers, DrainStep(d) PROVE Overfull(queue')
    BY <2>3, <2>5, <2>12 DEF DrainStep, DrainLoop, DrainStops, Flush
  <2>13. QED
    BY <1>2, <2>3, <2>8, <2>9, <2>10, <2>11, <2>12 DEF Next, vars
<1>3. QED
  BY <1>1, <1>2, Inductive, PTL DEF Spec

-----------------------------------------------------------------------------
(* The event contract *)

\* emit() numbers new durable events above every earlier one.
LEMMA EmitWrites ==
  ASSUME TypeOK, Emit
  PROVE  /\ stored' = stored /\ written \subseteq written'
         /\ \A n \in written' \ written : n \in {seq + 1, seq + 2}
<1>1. PICK p \in Payloads : \/ \E kind \in Kinds : EmitOne(kind, p)
                            \/ EmitTerminalInTurn(p)
                            \/ EmitWithFilesChanged(p)
  BY DEF Emit
<1>2. p \in [size : Nat, json : BOOLEAN] /\ seq \in Nat
  BY PusherAssumption DEF TypeOK
<1>3. ASSUME NEW kind \in Kinds, EmitOne(kind, p)
      PROVE  /\ stored' = stored /\ written \subseteq written'
             /\ \A n \in written' \ written : n \in {seq + 1, seq + 2}
  <2> DEFINE e == NewEvent(seq + 1, kind, p)
  <2>1. e.seq = seq + 1
    BY <1>2, Made
  <2>2. stored' = stored /\ (written' = written \/ Push(<<e>>))
    BY <1>3 DEF EmitOne
  <2> HIDE DEF e
  <2>3. ToSet(<<e>>) = {e}
    BY DEF ToSet
  <2>4. QED
    BY <2>1, <2>2, <2>3 DEF Push, SeqsOf
<1>4. ASSUME NEW e, NEW f, e.seq = seq + 1, f.seq = seq + 2, stored' = stored,
             written' = written \/ Push(<<e, f>>)
      PROVE  /\ stored' = stored /\ written \subseteq written'
             /\ \A n \in written' \ written : n \in {seq + 1, seq + 2}
  <2>1. ToSet(<<e, f>>) = {e, f}
    BY DEF ToSet
  <2>2. QED
    BY <1>4, <2>1 DEF Push, SeqsOf
<1>5. CASE EmitTerminalInTurn(p)
  <2>1. /\ OwnEvent(seq + 1).seq = seq + 1
        /\ NewEvent(seq + 2, "terminal", p).seq = seq + 2
    BY <1>2, Made DEF Kinds
  <2>2. QED
    BY <1>4, <1>5, <2>1 DEF EmitTerminalInTurn
<1>6. CASE EmitWithFilesChanged(p)
  <2>1. /\ NewEvent(seq + 1, "durable", p).seq = seq + 1
        /\ OwnEvent(seq + 2).seq = seq + 2
    BY <1>2, Made DEF Kinds
  <2>2. QED
    BY <1>4, <1>6, <2>1 DEF EmitWithFilesChanged
<1>7. QED
  BY <1>1, <1>3, <1>5, <1>6

\* The pusher and the control plane keep the event contract (EventLog): the
\* durable events stored are a gap-free beginning of those emitted, growing
\* whatever the network does.
THEOREM KeepsTheContract == Spec => ImplementsLog
<1>1. Init => Log!Init
  BY DEF Init, Log!Init, StoredDurable, SeqsOf
<1>2. ASSUME IInv, IInv', [Next]_vars PROVE [Log!Next]_(Log!vars)
  <2>1. ASSUME written' = written, StoredDurable \subseteq StoredDurable'
        PROVE  Log!Store
    <3>1. StoredDurable' \subseteq written'
      BY <1>2 DEF IInv, HeldOK, Held, StoredDurable, SeqsOf
    <3>2. ASSUME NEW n \in StoredDurable', NEW w \in written, w < n
          PROVE  w \in StoredDurable'
      <4>1. PICK e \in stored' : e.seq = n
        BY DEF StoredDurable, SeqsOf
      <4>2. QED
        BY <4>1, <3>2, <2>1, <1>2 DEF IInv, NoHoles
    <3>3. QED
      BY <2>1, <3>1, <3>2 DEF Log!Store, Log!GapFree
  <2>2. ASSUME NEW b \in Seq(Event), ToSet(b) \subseteq Held, Covered(b),
               StoreBatch(b), written' = written
        PROVE  StoredDurable \subseteq StoredDurable'
    BY <1>2, <2>2, Arrived DEF IInv, TypeOK
  <2>3. ASSUME written' = written, stored' = stored
        PROVE  StoredDurable \subseteq StoredDurable'
    BY <2>3 DEF StoredDurable
  <2>4. CASE Emit
    <3>1. /\ stored' = stored /\ written \subseteq written'
          /\ \A n \in written' \ written : n \in {seq + 1, seq + 2}
      BY <1>2, <2>4, EmitWrites DEF IInv
    <3>2. seq \in Nat /\ \A w \in written : w \in Nat /\ w <= seq
      BY <1>2 DEF IInv, TypeOK, Bounded
    <3>3. \A n \in written' \ written, w \in written : w < n
      BY <3>1, <3>2
    <3>4. StoredDurable' = StoredDurable
      BY <3>1 DEF StoredDurable
    <3>5. QED
      BY <3>1, <3>3, <3>4 DEF Log!Next, Log!Write
  <2>5. CASE Answer
    <3>1. written' = written /\ (StoreBatch(sent) \/ stored' = stored)
      BY <2>5 DEF Answer, Accepted, Refused, RenewalRefused, Failed, SizeRefused
    <3>2. sent \in Seq(Event) /\ ToSet(sent) \subseteq Held /\ Covered(sent)
      BY <1>2 DEF IInv, TypeOK, Held, BatchesCovered
    <3>3. QED
      BY <2>1, <2>2, <2>3, <3>1, <3>2 DEF Log!Next
  <2>6. CASE LateArrival
    <3>1. PICK b \in late : StoreBatch(b) /\ written' = written
      BY <2>6 DEF LateArrival
    <3>2. b \in Seq(Event) /\ ToSet(b) \subseteq Held /\ Covered(b)
      BY <1>2 DEF IInv, TypeOK, Held, BatchesCovered
    <3>3. QED
      BY <2>1, <2>2, <3>1, <3>2 DEF Log!Next
  <2>7. CASE UNCHANGED <<written, stored>>
    BY <2>1, <2>3, <2>7 DEF Log!Next
  <2>8. QED
    BY <1>2, <2>4, <2>5, <2>6, <2>7 DEF Next, vars, TimerFires, DrainStep
<1>3. QED
  BY <1>1, <1>2, Inductive, PTL DEF Spec, ImplementsLog, Log!Spec
=============================================================================
