----------------------- MODULE LatestWorkerLaneProofs -----------------------
(* That the gate keeps its limit and starts only what is wanted, that a lane  *)
(* does one thing at a time and that its last request wins, for any runtimes, *)
(* limit, lanes and numbers of workers and requests.                          *)
EXTENDS LatestWorkerLane, FiniteSetTheorems, SequenceTheorems, TLAPS

-----------------------------------------------------------------------------
(* The gate *)

Gates == [ticket : [Workers -> Tickets], thread : [Workers -> Threads],
          queue : Seq(Workers), timer : {"off", "set", "due"},
          held : [Runtimes -> Workers \cup {NoWorker}]]

Distinct(q) == \A i, j \in 1..Len(q) : q[i] = q[j] => i = j

\* What a call of the gate finds and leaves.
Ordered(g) ==
    /\ g \in Gates
    /\ Distinct(g.queue)
    /\ \A w \in Workers : g.ticket[w] = "queued" <=> w \in ToSet(g.queue)
    /\ \A w \in ToSet(g.queue) : g.thread[w] \in {"made", "deleted"}
    /\ Cardinality(active(g)) <= Limit

\* What a call of the gate does to the workers: it takes slots back and it
\* starts workers that waited, of which the deleted are given up.
Moved(g, h) ==
    /\ ToSet(h.queue) \subseteq ToSet(g.queue)
    /\ \A w \in Workers :
          \/ h.ticket[w] = g.ticket[w]
          \/ g.ticket[w] = "active" /\ h.ticket[w] = "long_running"
          \/ w \in ToSet(g.queue) /\ h.ticket[w] \in {"active", "released"}
    /\ \A w \in Workers :
          \/ h.thread[w] = g.thread[w]
          \/ w \in ToSet(g.queue) /\ g.thread[w] = "made" /\ h.thread[w] = "runs"
    /\ \A r \in Runtimes :
          \/ h.held[r] = g.held[r]
          \/ /\ g.held[r] \in ToSet(g.queue) \ ToSet(h.queue)
             /\ g.thread[g.held[r]] = "deleted" /\ h.held[r] = NoWorker

LEMMA FiniteActive ==
    ASSUME NEW g
    PROVE  IsFiniteSet(active(g)) /\ Cardinality(active(g)) \in Nat
  <1>1. IsFiniteSet(Workers)
    BY GateAssumption, FS_Interval DEF Workers
  <1>2. active(g) \in SUBSET Workers
    BY DEF active
  <1> QED
    BY <1>1, <1>2, FS_Subset, FS_CardinalityType

LEMMA InQueue ==
    ASSUME NEW q \in Seq(Workers)
    PROVE  /\ Len(q) \in Nat /\ DOMAIN q = 1..Len(q)
           /\ ToSet(q) \subseteq Workers
           /\ \A w : w \in ToSet(q) <=> \E i \in 1..Len(q) : q[i] = w
  BY LenProperties, ElementOfSeq DEF ToSet

\* The first entry of a worker goes, and no other has its number.
LEMMA Dropped ==
    ASSUME NEW q \in Seq(Workers), Distinct(q), NEW w
    PROVE  /\ RemoveFirst(q, w) \in Seq(Workers)
           /\ Distinct(RemoveFirst(q, w))
           /\ ToSet(RemoveFirst(q, w)) = ToSet(q) \ {w}
  <1> DEFINE r == RemoveFirst(q, w)
  <1>1. CASE ~ \E i \in 1..Len(q) : q[i] = w
    <2>1. r = q
      BY <1>1 DEF RemoveFirst
    <2> QED
      BY <1>1, <2>1, InQueue
  <1>2. CASE \E i \in 1..Len(q) : q[i] = w
    <2>1. PICK n \in 1..Len(q) : q[n] = w
      BY <1>2
    <2>2. {i \in 1..Len(q) : q[i] = w} = {n}
      BY <2>1 DEF Distinct
    <2>3. SelectInSeq(q, LAMBDA v : v = w) = n
      BY <2>2 DEF SelectInSeq, Min
    <2>4. r = SubSeq(q, 1, n - 1) \o SubSeq(q, n + 1, Len(q))
      BY <1>2, <2>3 DEF RemoveFirst, RemoveAt
    <2> DEFINE a == SubSeq(q, 1, n - 1)
               b == SubSeq(q, n + 1, Len(q))
    <2>5. /\ Len(q) \in Nat /\ n \in 1..Len(q)
          /\ \A i \in 1..Len(q) : q[i] \in Workers
      BY InQueue, ElementOfSeq
    <2>6. /\ a \in Seq(Workers) /\ Len(a) = n - 1
          /\ \A i \in 1..(n - 1) : a[i] = q[i]
      <3>1. \A i \in 1..(n - 1) : q[i] \in Workers
        BY <2>5
      <3> QED
        BY <2>5, <3>1, SubSeqProperties
    <2>7. /\ b \in Seq(Workers) /\ Len(b) = Len(q) - n
          /\ \A i \in 1..(Len(q) - n) : b[i] = q[n + i]
      <3>1. \A i \in (n + 1)..Len(q) : q[i] \in Workers
        BY <2>5
      <3> QED
        BY <2>5, <3>1, SubSeqProperties
    <2>8. /\ r \in Seq(Workers) /\ Len(r) = Len(q) - 1
          /\ \A i \in 1..Len(r) : r[i] = IF i < n THEN q[i] ELSE q[i + 1]
      <3> HIDE DEF a, b, r
      <3>1. /\ r \in Seq(Workers) /\ Len(r) = Len(a) + Len(b)
            /\ \A i \in 1..(Len(a) + Len(b)) : r[i] = IF i <= Len(a) THEN a[i] ELSE b[i - Len(a)]
        BY <2>4, <2>6, <2>7, ConcatProperties DEF a, b
      <3>2. Len(r) = Len(q) - 1 /\ Len(a) + Len(b) = Len(q) - 1
        BY <3>1, <2>5, <2>6, <2>7
      <3>3. ASSUME NEW i \in 1..Len(r)
            PROVE  r[i] = IF i < n THEN q[i] ELSE q[i + 1]
        <4>1. r[i] = IF i <= Len(a) THEN a[i] ELSE b[i - Len(a)]
          BY <3>1, <3>2
        <4>2. CASE i < n
          BY <4>1, <4>2, <2>5, <2>6
        <4>3. CASE ~ i < n
          <5>1. i - Len(a) = i - n + 1 /\ i - n + 1 \in 1..(Len(q) - n) /\ ~ i <= Len(a)
            BY <4>3, <3>2, <2>5, <2>6
          <5>2. b[i - n + 1] = q[n + (i - n + 1)] /\ n + (i - n + 1) = i + 1
            BY <5>1, <2>5, <2>7
          <5> QED
            BY <4>1, <4>3, <5>1, <5>2
        <4> QED
          BY <4>2, <4>3
      <3> QED
        BY <3>1, <3>2, <3>3
    <2> HIDE DEF r, a, b
    <2>9. Distinct(r)
      BY <2>8, <2>5 DEF Distinct
    <2>10. ToSet(r) = ToSet(q) \ {w}
      <3>1. ASSUME NEW v \in ToSet(r) PROVE v \in ToSet(q) \ {w}
        <4>1. PICK i \in 1..Len(r) : r[i] = v
          BY <2>8, InQueue
        <4> QED
          BY <4>1, <2>1, <2>5, <2>8, InQueue DEF Distinct
      <3>2. ASSUME NEW v \in ToSet(q), v # w PROVE v \in ToSet(r)
        <4>1. PICK i \in 1..Len(q) : q[i] = v
          BY InQueue
        <4>2. CASE i < n
          BY <4>1, <4>2, <2>5, <2>8, InQueue
        <4>3. CASE i > n
          <5>1. i - 1 \in 1..Len(r) /\ r[i - 1] = v
            BY <4>1, <4>3, <2>5, <2>8
          <5> QED
            BY <5>1, <2>8, InQueue
        <4> QED
          BY <4>1, <4>2, <4>3, <3>2, <2>1, <2>5
      <3> QED
        BY <3>1, <3>2
    <2> QED
      BY <2>8, <2>9, <2>10 DEF r
  <1> QED
    BY <1>1, <1>2

LEMMA Queues ==
    ASSUME NEW q \in Seq(Workers), Distinct(q), NEW w \in Workers, w \notin ToSet(q)
    PROVE  /\ Append(q, w) \in Seq(Workers)
           /\ Distinct(Append(q, w))
           /\ ToSet(Append(q, w)) = ToSet(q) \cup {w}
  <1>1. /\ Append(q, w) \in Seq(Workers) /\ Len(Append(q, w)) = Len(q) + 1
        /\ \A i \in 1..Len(q) : Append(q, w)[i] = q[i]
        /\ Append(q, w)[Len(q) + 1] = w
    BY InQueue
  <1> DEFINE r == Append(q, w)
  <1> HIDE DEF r
  <1>2. /\ r \in Seq(Workers) /\ Len(r) = Len(q) + 1 /\ Len(q) \in Nat
        /\ \A i \in 1..Len(q) : r[i] = q[i]
        /\ r[Len(q) + 1] = w
    BY <1>1, InQueue DEF r
  <1>3. Distinct(r)
    BY <1>2, InQueue DEF Distinct
  <1>4. ToSet(r) = ToSet(q) \cup {w}
    <2>1. \A v : v \in ToSet(r) <=> \E i \in 1..Len(r) : r[i] = v
      BY <1>2, InQueue
    <2>2. \A v : v \in ToSet(q) <=> \E i \in 1..Len(q) : q[i] = v
      BY InQueue
    <2>3. \A i \in 1..Len(r) : i \in 1..Len(q) \/ i = Len(q) + 1
      BY <1>2
    <2>4. \A i \in 1..Len(q) : i \in 1..Len(r)
      BY <1>2
    <2>5. Len(q) + 1 \in 1..Len(r)
      BY <1>2
    <2> QED
      BY <1>2, <2>1, <2>2, <2>3, <2>4, <2>5
  <1> QED
    BY <1>2, <1>3, <1>4 DEF r

\* A call first takes the stale slots back.
LEMMA Reclaimed ==
    ASSUME NEW g, Ordered(g)
    PROVE  LET r == reclaim_stale_slots(g)
           IN  /\ Ordered(r)
               /\ r.queue = g.queue /\ r.thread = g.thread /\ r.held = g.held
               /\ \A w \in Workers :
                     \/ r.ticket[w] = g.ticket[w]
                     \/ g.ticket[w] = "active" /\ r.ticket[w] = "long_running"
  <1> DEFINE r == reclaim_stale_slots(g)
  <1>1. /\ r \in Gates
        /\ r.queue = g.queue /\ r.thread = g.thread /\ r.held = g.held
        /\ \A w \in Workers : r.ticket[w] = IF w \in active(g) /\ slot_is_stale(g, w)
                                            THEN "long_running" ELSE g.ticket[w]
    BY DEF Ordered, Gates, reclaim_stale_slots, Tickets
  <1> HIDE DEF r
  <1>2. active(r) \in SUBSET active(g)
    BY <1>1 DEF active
  <1>3. Cardinality(active(r)) <= Limit
    BY <1>2, FiniteActive, FS_Subset, GateAssumption DEF Ordered
  <1>4. \A w \in Workers : r.ticket[w] = "queued" <=> g.ticket[w] = "queued"
    BY <1>1 DEF active
  <1> QED
    BY <1>1, <1>3, <1>4 DEF Ordered, active, r

\* Started from a gate in order, workers without a slot take one each, unless
\* they are deleted.
LEMMA RunStart ==
    ASSUME NEW g \in Gates, NEW ws \in SUBSET Workers
    PROVE  LET h == run_start(g, ws)
               dead == {w \in ws : g.thread[w] = "deleted"}
           IN  /\ h \in Gates /\ h.queue = g.queue
               /\ \A w \in Workers :
                     /\ h.ticket[w] = IF w \in dead THEN "released"
                                      ELSE IF w \in ws THEN "active" ELSE g.ticket[w]
                     /\ h.thread[w] = IF w \in ws \ dead THEN "runs" ELSE g.thread[w]
               /\ \A r \in Runtimes : h.held[r] = IF g.held[r] \in dead THEN NoWorker ELSE g.held[r]
               /\ active(h) = (active(g) \ dead) \cup (ws \ dead)
  <1> DEFINE h == run_start(g, ws)
             dead == {w \in ws : g.thread[w] = "deleted"}
  <1>1. /\ h \in Gates /\ h.queue = g.queue
        /\ \A w \in Workers :
              /\ h.ticket[w] = IF w \in dead THEN "released"
                               ELSE IF w \in ws THEN "active" ELSE g.ticket[w]
              /\ h.thread[w] = IF w \in ws \ dead THEN "runs" ELSE g.thread[w]
        /\ \A r \in Runtimes : h.held[r] = IF g.held[r] \in dead THEN NoWorker ELSE g.held[r]
    BY DEF Gates, run_start, Tickets, Threads
  <1>2. active(h) = (active(g) \ dead) \cup (ws \ dead)
    <2> HIDE DEF h
    <2> QED
      BY <1>1 DEF active
  <1> QED
    BY <1>1, <1>2

\* The live ones among the first n of the queue are counted one by one.
LEMMA Counted ==
    ASSUME NEW g, Ordered(g), NEW n \in 0..Len(g.queue), pops(g, n)
    PROVE  LET ws == {g.queue[i] : i \in 1..n}
               dead == {w \in ws : g.thread[w] = "deleted"}
           IN  /\ IsFiniteSet(ws \ dead)
               /\ Cardinality(active(g)) + Cardinality(ws \ dead) <= Limit
  <1> DEFINE ws == {g.queue[i] : i \in 1..n}
             dead == {w \in ws : g.thread[w] = "deleted"}
             I(k) == {i \in 1..k : g.thread[g.queue[i]] # "deleted"}
             f == [i \in I(n) |-> g.queue[i]]
             free == Limit - Cardinality(active(g))
  <1>1. \A k \in Nat : IsFiniteSet(I(k)) /\ Cardinality(I(k)) \in Nat
    <2>1. ASSUME NEW k \in Nat PROVE IsFiniteSet(I(k)) /\ Cardinality(I(k)) \in Nat
      <3>1. IsFiniteSet(1..k)
        BY FS_Interval
      <3>2. I(k) \in SUBSET (1..k)
        OBVIOUS
      <3> HIDE DEF I
      <3> QED
        BY <3>1, <3>2, FS_Subset, FS_CardinalityType
    <2> QED
      BY <2>1
  <1>2. f \in Surjection(I(n), ws \ dead)
    BY DEF Surjection
  <1>3. IsFiniteSet(ws \ dead) /\ Cardinality(ws \ dead) <= Cardinality(I(n))
    <2>1. n \in Nat
      OBVIOUS
    <2> HIDE DEF I, f, ws, dead
    <2> QED
      BY <1>1, <1>2, <2>1, FS_Surjection
  <1>4. Cardinality(I(n)) <= free
    <2>1. free \in Nat /\ Limit \in Nat /\ Cardinality(active(g)) \in Nat
      BY FiniteActive, GateAssumption DEF Ordered
    <2>2. CASE n = 0
      <3>1. I(n) = {}
        BY <2>2
      <3>2. Cardinality(I(n)) = 0
        BY <3>1, FS_EmptySet
      <3> HIDE DEF I, free
      <3> QED
        BY <2>1, <3>2
    <2>3. CASE n # 0
      <3>1. n - 1 \in Nat /\ n - 1 \in 0..(n - 1)
        BY <2>3
      <3>2. Cardinality(I(n - 1)) < free
        BY <3>1 DEF pops
      <3>3. I(n) \in SUBSET (I(n - 1) \cup {n})
        BY <3>1
      <3>4. /\ IsFiniteSet(I(n - 1)) /\ Cardinality(I(n - 1)) \in Nat
            /\ Cardinality(I(n)) \in Nat
        <4> HIDE DEF I
        <4>1. n \in Nat
          BY InQueue DEF Ordered, Gates
        <4> QED
          BY <3>1, <4>1, <1>1
      <3> HIDE DEF I, free
      <3>5. /\ IsFiniteSet(I(n - 1) \cup {n})
            /\ Cardinality(I(n - 1) \cup {n}) <= Cardinality(I(n - 1)) + 1
        <4>1. Cardinality(I(n - 1) \cup {n}) = IF n \in I(n - 1) THEN Cardinality(I(n - 1))
                                               ELSE Cardinality(I(n - 1)) + 1
          BY <3>4, FS_AddElement
        <4>2. IsFiniteSet(I(n - 1) \cup {n})
          BY <3>4, FS_AddElement
        <4> QED
          BY <3>4, <4>1, <4>2
      <3>6. Cardinality(I(n)) <= Cardinality(I(n - 1) \cup {n})
        BY <3>3, <3>5, FS_Subset
      <3>7. Cardinality(I(n - 1) \cup {n}) \in Nat
        BY <3>5, FS_CardinalityType
      <3> QED
        BY <2>1, <3>2, <3>4, <3>5, <3>6, <3>7
    <2> QED
      BY <2>2, <2>3
  <1>5. /\ Cardinality(ws \ dead) \in Nat /\ Cardinality(I(n)) \in Nat
        /\ Limit \in Nat /\ Cardinality(active(g)) \in Nat
    BY <1>1, <1>3, FS_CardinalityType, FiniteActive, GateAssumption
  <1> HIDE DEF ws, dead, I
  <1>6. Cardinality(active(g)) + Cardinality(ws \ dead) <= Limit
    BY <1>3, <1>4, <1>5
  <1> QED
    BY <1>3, <1>6 DEF ws, dead

\* What is left of a queue is a part of it.
LEMMA Rest ==
    ASSUME NEW q \in Seq(Workers), Distinct(q), NEW n \in 0..Len(q)
    PROVE  LET s == SubSeq(q, n + 1, Len(q))
           IN  /\ s \in Seq(Workers) /\ Distinct(s)
               /\ ToSet(s) = ToSet(q) \ {q[i] : i \in 1..n}
  <1> DEFINE s == SubSeq(q, n + 1, Len(q))
  <1>1. Len(q) \in Nat /\ n \in Nat /\ n <= Len(q)
    BY InQueue
  <1>2. \A i \in (n + 1)..Len(q) : q[i] \in Workers
    BY <1>1, ElementOfSeq
  <1>3. /\ s \in Seq(Workers) /\ Len(s) = Len(q) - n
        /\ \A i \in 1..(Len(q) - n) : s[i] = q[n + i]
    BY <1>1, <1>2, SubSeqProperties
  <1> HIDE DEF s
  <1>4. Distinct(s)
    BY <1>1, <1>3 DEF Distinct
  <1>5. ASSUME NEW w \in ToSet(s) PROVE w \in ToSet(q) \ {q[i] : i \in 1..n}
    <2>1. PICK i \in 1..Len(s) : s[i] = w
      BY <1>3, InQueue
    <2> QED
      BY <1>1, <1>3, <2>1, InQueue DEF Distinct
  <1>6. ASSUME NEW w \in ToSet(q), w \notin {q[i] : i \in 1..n} PROVE w \in ToSet(s)
    <2>1. PICK i \in 1..Len(q) : q[i] = w
      BY InQueue
    <2>2. i - n \in 1..Len(s) /\ s[i - n] = w
      BY <1>1, <1>3, <1>6, <2>1
    <2> QED
      BY <1>3, <2>2, InQueue
  <1> QED
    BY <1>3, <1>4, <1>5, <1>6 DEF s

\* The pump.
LEMMA Pumped ==
    ASSUME NEW g, Ordered(g), NEW h \in pumped(g)
    PROVE  Ordered(h) /\ Moved(g, h)
  <1> DEFINE r == reclaim_stale_slots(g)
  <1>1. PICK n \in 0..Len(r.queue) :
            /\ pops(r, n)
            /\ h = [run_start(r, {r.queue[i] : i \in 1..n})
                        EXCEPT !.queue = SubSeq(r.queue, n + 1, Len(r.queue))]
    BY DEF pumped
  <1> DEFINE ws == {r.queue[i] : i \in 1..n}
             dead == {w \in ws : r.thread[w] = "deleted"}
             s == run_start(r, ws)
             rest == SubSeq(r.queue, n + 1, Len(r.queue))
  <1>2. /\ Ordered(r)
        /\ r.queue = g.queue /\ r.thread = g.thread /\ r.held = g.held
        /\ \A w \in Workers :
              \/ r.ticket[w] = g.ticket[w]
              \/ g.ticket[w] = "active" /\ r.ticket[w] = "long_running"
    BY Reclaimed
  <1> HIDE DEF r
  <1>3. /\ IsFiniteSet(ws \ dead)
        /\ Cardinality(active(r)) + Cardinality(ws \ dead) <= Limit
    BY <1>1, <1>2, Counted
  <1>4. /\ rest \in Seq(Workers) /\ Distinct(rest)
        /\ ToSet(rest) = ToSet(r.queue) \ ws
    BY <1>2, Rest DEF Ordered, Gates
  <1>5. ws \subseteq ToSet(r.queue) /\ ws \in SUBSET Workers
    BY <1>2, InQueue DEF Ordered, Gates
  <1>6. /\ s \in Gates
        /\ \A w \in Workers :
              /\ s.ticket[w] = IF w \in dead THEN "released"
                               ELSE IF w \in ws THEN "active" ELSE r.ticket[w]
              /\ s.thread[w] = IF w \in ws \ dead THEN "runs" ELSE r.thread[w]
        /\ \A x \in Runtimes : s.held[x] = IF r.held[x] \in dead THEN NoWorker ELSE r.held[x]
        /\ active(s) = (active(r) \ dead) \cup (ws \ dead)
    BY <1>2, <1>5, RunStart DEF Ordered
  <1>7. /\ h \in Gates /\ h.queue = rest /\ h.ticket = s.ticket
        /\ h.thread = s.thread /\ h.held = s.held
    BY <1>1, <1>4, <1>6 DEF Gates
  <1>8. \A w \in ws : /\ w \in ToSet(r.queue) /\ w \in Workers
                      /\ r.ticket[w] = "queued"
                      /\ r.thread[w] \in {"made", "deleted"}
    BY <1>2, <1>5 DEF Ordered
  <1>9. \A w \in dead : w \in ws /\ r.thread[w] = "deleted"
    OBVIOUS
  <1>10. \A w \in ws \ dead : r.thread[w] = "made"
    BY <1>8
  <1> HIDE DEF s, rest, ws, dead
  <1>11. Cardinality(active(h)) <= Limit
    <2>1. active(h) \in SUBSET (active(r) \cup (ws \ dead))
      BY <1>6, <1>7 DEF active
    <2>2. /\ IsFiniteSet(active(r) \cup (ws \ dead))
          /\ Cardinality(active(r) \cup (ws \ dead))
                <= Cardinality(active(r)) + Cardinality(ws \ dead)
      <3>1. /\ IsFiniteSet(active(r) \cup (ws \ dead))
            /\ Cardinality(active(r) \cup (ws \ dead))
                = Cardinality(active(r)) + Cardinality(ws \ dead)
                  - Cardinality(active(r) \cap (ws \ dead))
        BY <1>3, FiniteActive, FS_Union
      <3>2. active(r) \cap (ws \ dead) = {}
        BY <1>8 DEF active
      <3> QED
        <4>1. Cardinality(active(r) \cap (ws \ dead)) = 0
          BY <3>2, FS_EmptySet
        <4>2. Cardinality(active(r)) \in Nat /\ Cardinality(ws \ dead) \in Nat
          BY <1>3, FiniteActive, FS_CardinalityType
        <4> QED
          BY <3>1, <4>1, <4>2
    <2>3. Cardinality(active(h)) <= Cardinality(active(r) \cup (ws \ dead))
      BY <2>1, <2>2, FS_Subset
    <2> QED
      BY <2>2, <2>3, <1>3, FiniteActive, FS_CardinalityType, GateAssumption
  <1>12. \A w \in ToSet(rest) : w \in ToSet(r.queue) /\ w \in Workers /\ w \notin ws /\ w \notin dead
    BY <1>2, <1>4, <1>9, InQueue DEF Ordered, Gates
  <1>13. \A w \in Workers : h.ticket[w] = "queued" <=> w \in ToSet(h.queue)
    BY <1>2, <1>4, <1>6, <1>7, <1>9 DEF Ordered
  <1>14. \A w \in ToSet(h.queue) : h.thread[w] \in {"made", "deleted"}
    BY <1>2, <1>6, <1>7, <1>12 DEF Ordered
  <1>15. Ordered(h)
    BY <1>4, <1>7, <1>11, <1>13, <1>14 DEF Ordered
  <1>16. Moved(g, h)
    <2>1. ToSet(h.queue) \subseteq ToSet(g.queue)
      BY <1>2, <1>4, <1>7
    <2>2. ASSUME NEW w \in Workers
          PROVE  \/ h.ticket[w] = g.ticket[w]
                 \/ g.ticket[w] = "active" /\ h.ticket[w] = "long_running"
                 \/ w \in ToSet(g.queue) /\ h.ticket[w] \in {"active", "released"}
      BY <1>2, <1>5, <1>6, <1>7, <1>9
    <2>3. ASSUME NEW w \in Workers
          PROVE  \/ h.thread[w] = g.thread[w]
                 \/ w \in ToSet(g.queue) /\ g.thread[w] = "made" /\ h.thread[w] = "runs"
      BY <1>2, <1>5, <1>6, <1>7, <1>10
    <2>4. ASSUME NEW x \in Runtimes
          PROVE  \/ h.held[x] = g.held[x]
                 \/ /\ g.held[x] \in ToSet(g.queue) \ ToSet(h.queue)
                    /\ g.thread[g.held[x]] = "deleted" /\ h.held[x] = NoWorker
      BY <1>2, <1>4, <1>6, <1>7, <1>8, <1>9
    <2> QED
      BY <2>1, <2>2, <2>3, <2>4 DEF Moved
  <1> QED
    BY <1>15, <1>16

\* What release and cancel do: nothing of the worker is left in the queue.
LEMMA DropWorks ==
    ASSUME NEW g, Ordered(g), NEW w \in Workers, NEW state \in {"released", "cancelled"},
           NEW h \in drop(g, w, state)
    PROVE  LET d == [g EXCEPT !.ticket[w] = state, !.queue = RemoveFirst(g.queue, w)]
           IN  Ordered(h) /\ Moved(d, h) /\ Ordered(d) /\ ToSet(d.queue) = ToSet(g.queue) \ {w}
  <1> DEFINE d == [g EXCEPT !.ticket[w] = state, !.queue = RemoveFirst(g.queue, w)]
  <1>1. /\ RemoveFirst(g.queue, w) \in Seq(Workers)
        /\ Distinct(RemoveFirst(g.queue, w))
        /\ ToSet(RemoveFirst(g.queue, w)) = ToSet(g.queue) \ {w}
    BY Dropped DEF Ordered, Gates
  <1>2. /\ d \in Gates /\ d.queue = RemoveFirst(g.queue, w)
        /\ d.thread = g.thread
        /\ \A v \in Workers : d.ticket[v] = IF v = w THEN state ELSE g.ticket[v]
    BY <1>1 DEF Ordered, Gates, Tickets
  <1>3. h \in pumped(d)
    BY DEF drop
  <1> HIDE DEF d
  <1>4. active(d) \in SUBSET active(g)
    BY <1>2 DEF active
  <1>5. Cardinality(active(d)) <= Limit
    BY <1>4, FiniteActive, FS_Subset, GateAssumption DEF Ordered
  <1>6. \A v \in Workers : d.ticket[v] = "queued" <=> v \in ToSet(d.queue)
    BY <1>1, <1>2 DEF Ordered
  <1>7. Ordered(d)
    BY <1>1, <1>2, <1>5, <1>6 DEF Ordered
  <1> QED
    BY <1>1, <1>2, <1>3, <1>7, Pumped DEF d

\* A new worker gets a slot or waits.
LEMMA SubmitWorks ==
    ASSUME NEW g, Ordered(g), NEW w \in Workers, g.ticket[w] = "new", g.thread[w] = "made"
    PROVE  LET h == submit(g, w)
           IN  /\ Ordered(h)
               /\ ToSet(h.queue) \subseteq ToSet(g.queue) \cup {w}
               /\ h.held = g.held
               /\ \A v \in Workers : v # w => h.thread[v] = g.thread[v]
               /\ h.thread[w] \in {"made", "runs"}
               /\ \A v \in Workers : v # w /\ g.ticket[v] = "new" => h.ticket[v] = "new"
  <1> DEFINE r == reclaim_stale_slots(g)
             h == submit(g, w)
  <1>1. /\ Ordered(r)
        /\ r.queue = g.queue /\ r.thread = g.thread /\ r.held = g.held
        /\ \A v \in Workers :
              \/ r.ticket[v] = g.ticket[v]
              \/ g.ticket[v] = "active" /\ r.ticket[v] = "long_running"
    BY Reclaimed
  <1>2. r.ticket[w] = "new" /\ w \notin ToSet(r.queue) /\ w \notin active(r)
    BY <1>1 DEF Ordered, active
  <1>3. CASE Cardinality(active(r)) < Limit
    <2>1. h = run_start(r, {w})
      BY <1>3 DEF submit
    <2> HIDE DEF r, h
    <2>2. {v \in {w} : r.thread[v] = "deleted"} = {}
      BY <1>1
    <2>3. /\ h \in Gates /\ h.queue = r.queue
          /\ \A v \in Workers : /\ h.ticket[v] = IF v = w THEN "active" ELSE r.ticket[v]
                                /\ h.thread[v] = IF v = w THEN "runs" ELSE r.thread[v]
          /\ \A x \in Runtimes : h.held[x] = r.held[x]
          /\ active(h) = active(r) \cup {w}
      BY <1>1, <2>1, <2>2, RunStart DEF Ordered
    <2>4. h.held = r.held
      BY <1>1, <2>3 DEF Ordered, Gates
    <2>5. Cardinality(active(h)) <= Limit
      <3>1. Cardinality(active(r) \cup {w}) = Cardinality(active(r)) + 1
        BY <1>2, FiniteActive, FS_AddElement
      <3> QED
        BY <1>3, <2>3, <3>1, FiniteActive, GateAssumption
    <2>6. Ordered(h)
      <3>1. \A v \in ToSet(h.queue) : v \in Workers /\ v # w
        BY <1>1, <1>2, <2>3, InQueue DEF Ordered, Gates
      <3>2. \A v \in Workers : h.ticket[v] = "queued" <=> v \in ToSet(h.queue)
        BY <1>1, <1>2, <2>3 DEF Ordered
      <3> QED
        BY <1>1, <2>3, <2>5, <3>1, <3>2 DEF Ordered
    <2> QED
      BY <1>1, <2>3, <2>4, <2>6 DEF h
  <1>4. CASE ~ (Cardinality(active(r)) < Limit)
    <2>1. h = [r EXCEPT !.ticket[w] = "queued", !.queue = Append(r.queue, w)]
      BY <1>4 DEF submit
    <2> HIDE DEF r, h
    <2>2. /\ Append(r.queue, w) \in Seq(Workers)
          /\ Distinct(Append(r.queue, w))
          /\ ToSet(Append(r.queue, w)) = ToSet(r.queue) \cup {w}
      BY <1>1, <1>2, Queues DEF Ordered, Gates
    <2>3. /\ h \in Gates /\ h.queue = Append(r.queue, w)
          /\ h.thread = r.thread /\ h.held = r.held
          /\ \A v \in Workers : h.ticket[v] = IF v = w THEN "queued" ELSE r.ticket[v]
      BY <1>1, <2>1, <2>2 DEF Ordered, Gates, Tickets
    <2>4. active(h) \in SUBSET active(r)
      BY <2>3 DEF active
    <2>5. Cardinality(active(h)) <= Limit
      BY <1>1, <2>4, FiniteActive, FS_Subset, GateAssumption DEF Ordered
    <2>6. \A v \in Workers : h.ticket[v] = "queued" <=> v \in ToSet(h.queue)
      BY <1>1, <2>2, <2>3 DEF Ordered
    <2>7. Ordered(h)
      BY <1>1, <2>2, <2>3, <2>5, <2>6 DEF Ordered
    <2> QED
      BY <1>1, <2>2, <2>3, <2>7 DEF h
  <1> QED
    BY <1>3, <1>4

-----------------------------------------------------------------------------
(* The inductive invariant *)

\* Who a worker is: what is made has an owner and a thread, and a runtime's
\* worker and ticket are of a worker it made.
OwnerInv ==
    /\ \A w \in Workers :
          IF w <= made THEN owner[w] \in Runtimes /\ gate.thread[w] # "none"
          ELSE gate.ticket[w] = "new" /\ gate.thread[w] = "none"
    /\ \A r \in Runtimes :
          /\ worker[r] # NoWorker => worker[r] <= made /\ owner[worker[r]] = r
          /\ gate.held[r] # NoWorker => gate.held[r] <= made /\ owner[gate.held[r]] = r

\* What waits is the worker of its runtime.
WantedInv == \A w \in ToSet(gate.queue) : worker[owner[w]] = w /\ gate.held[owner[w]] = w

GateInv == GateTypeOK /\ Ordered(gate) /\ OwnerInv /\ WantedInv

LaneTypeInv ==
    /\ pending \in [Lanes -> Requests \cup {EMPTY}]
    /\ start_scheduled \in [Lanes -> BOOLEAN] /\ closed \in [Lanes -> BOOLEAN]
    /\ payload \in [Lanes -> Requests \cup {EMPTY}]
    /\ posted \subseteq Workers
    /\ requests \in 0..MaxRequests
    /\ newest \in [Lanes -> Requests \cup {EMPTY}] /\ answered \in [Lanes -> Requests \cup {EMPTY}]

\* What runs for an open lane is its worker, and no page takes it away.
LaneWorkers ==
    \A w \in Workers :
        w <= made /\ owner[w] \in Lanes =>
            /\ gate.thread[w] # "deleted"
            /\ ~ closed[owner[w]] /\ isRunning(gate, w) => worker[owner[w]] = w

\* A lane about to start has no worker, and a closed one has none either.
LaneInv ==
    /\ \A l \in Lanes :
          /\ closed[l] => worker[l] = NoWorker /\ ~ start_scheduled[l] /\ ~ has_pending(l)
          /\ start_scheduled[l] => worker[l] = NoWorker /\ has_pending(l)
    /\ \A w \in posted : w <= made /\ owner[w] \in Lanes

Inv == GateInv /\ LaneTypeInv /\ LaneInv /\ LaneWorkers /\ OneAtATime

\* What a runtime's call of cancel leaves of the gate.
LEMMA DiscardWorks ==
    ASSUME GateInv, NEW r \in Runtimes, NEW h \in discard_queued_start(r)
    PROVE  /\ Ordered(h) /\ h.held[r] = NoWorker
           /\ ToSet(h.queue) \subseteq {w \in ToSet(gate.queue) : owner[w] # r}
           /\ \A w \in Workers :
                 \/ h.thread[w] = gate.thread[w]
                 \/ w = gate.held[r] /\ w \in ToSet(gate.queue) /\ h.thread[w] = "gone"
                 \/ /\ w \in ToSet(gate.queue) /\ owner[w] # r
                    /\ gate.thread[w] = "made" /\ h.thread[w] = "runs"
           /\ \A w \in Workers : gate.ticket[w] = "new" => h.ticket[w] = "new"
           /\ \A x \in Runtimes : h.held[x] \in {gate.held[x], NoWorker}
           /\ \A w \in ToSet(h.queue) : h.held[owner[w]] = w
  <1>1. /\ gate.held \in [Runtimes -> Workers \cup {NoWorker}]
        /\ gate.queue \in Seq(Workers)
    BY DEF GateInv, Ordered, Gates
  <1>2. \A w \in ToSet(gate.queue) :
           w \in Workers /\ owner[w] \in Runtimes /\ gate.held[owner[w]] = w
                         /\ gate.ticket[w] = "queued"
    BY <1>1, InQueue DEF GateInv, OwnerInv, WantedInv, Ordered
  <1>3. CASE is_queued(r)
    <2> DEFINE w0 == gate.held[r]
               d == [gate EXCEPT !.ticket[w0] = "cancelled", !.queue = RemoveFirst(gate.queue, w0)]
    <2>1. PICK k \in drop(gate, w0, "cancelled") : h = [k EXCEPT !.held[r] = NoWorker,
    !.thread[w0] = "gone"]
      BY <1>3 DEF discard_queued_start
    <2>2. /\ w0 \in Workers /\ gate.ticket[w0] = "queued" /\ w0 \in ToSet(gate.queue)
          /\ owner[w0] = r
      BY <1>1, <1>3 DEF is_queued, GateInv, Ordered, OwnerInv
    <2>3. /\ Ordered(k) /\ Moved(d, k) /\ ToSet(d.queue) = ToSet(gate.queue) \ {w0}
      BY <2>2, DropWorks DEF GateInv
    <2>4. /\ d.thread = gate.thread /\ d.held = gate.held
          /\ \A w \in Workers : d.ticket[w] = IF w = w0 THEN "cancelled" ELSE gate.ticket[w]
      BY <2>2 DEF GateInv, Ordered, Gates
    <2> HIDE DEF d
    <2>5. /\ h.queue = k.queue /\ h.ticket = k.ticket
          /\ h \in Gates
          /\ \A w \in Workers : h.thread[w] = IF w = w0 THEN "gone" ELSE k.thread[w]
          /\ \A x \in Runtimes : h.held[x] = IF x = r THEN NoWorker ELSE k.held[x]
      BY <2>1, <2>2, <2>3 DEF Ordered, Gates, Threads
    <2>6. ToSet(h.queue) \subseteq ToSet(gate.queue) \ {w0}
      BY <2>3, <2>5 DEF Moved
    <2>7. Ordered(h)
      <3>1. active(h) = active(k)
        BY <2>5 DEF active
      <3>2. \A w \in ToSet(h.queue) : h.thread[w] = k.thread[w]
        BY <2>5, <2>6, <1>2
      <3> QED
        BY <2>3, <2>5, <3>1, <3>2 DEF Ordered
    <2>8. \A w \in ToSet(gate.queue) : w # w0 => owner[w] # r
      BY <1>2
    <2>9. \A x \in Runtimes : h.held[x] \in {gate.held[x], NoWorker}
      BY <2>3, <2>4, <2>5 DEF Moved
    <2>10. \A w \in ToSet(h.queue) : h.held[owner[w]] = w
      <3>1. \A w \in ToSet(h.queue) : /\ w \in Workers /\ w \in ToSet(gate.queue) /\ owner[w] # r
                                      /\ owner[w] \in Runtimes /\ gate.held[owner[w]] = w
                                      /\ w \in ToSet(k.queue)
        BY <1>2, <2>5, <2>6, <2>8
      <3> QED
        BY <2>3, <2>4, <2>5, <3>1 DEF Moved
    <2>11. \A w \in Workers :
              \/ h.thread[w] = gate.thread[w]
              \/ w = gate.held[r] /\ w \in ToSet(gate.queue) /\ h.thread[w] = "gone"
              \/ /\ w \in ToSet(gate.queue) /\ owner[w] # r
                 /\ gate.thread[w] = "made" /\ h.thread[w] = "runs"
      BY <2>2, <2>3, <2>4, <2>5, <2>8 DEF Moved
    <2>12. \A w \in Workers : gate.ticket[w] = "new" => h.ticket[w] = "new"
      BY <2>2, <2>3, <2>4, <2>5 DEF Moved, GateInv, Ordered
    <2> QED
      BY <2>2, <2>5, <2>6, <2>7, <2>8, <2>9, <2>10, <2>11, <2>12
  <1>4. CASE ~ is_queued(r)
    <2>1. h = [gate EXCEPT !.held[r] = NoWorker]
      BY <1>4 DEF discard_queued_start
    <2>2. /\ h.queue = gate.queue /\ h.ticket = gate.ticket /\ h.thread = gate.thread
          /\ h \in Gates
          /\ \A x \in Runtimes : h.held[x] = IF x = r THEN NoWorker ELSE gate.held[x]
      BY <2>1 DEF GateInv, Ordered, Gates
    <2>3. Ordered(h)
      BY <2>2 DEF GateInv, Ordered, active
    <2>4. \A w \in ToSet(gate.queue) : owner[w] # r
      BY <1>2, <1>4, <1>1 DEF is_queued, Workers, NoWorker
    <2> QED
      BY <1>2, <2>2, <2>3, <2>4
  <1> QED
    BY <1>3, <1>4

-----------------------------------------------------------------------------
(* The operations of a runtime *)

\* The workers after a call of the gate: the one of runtime r that waited may
\* be gone, those that waited for others may have been started.
Shifted(r) ==
    \A w \in Workers : w <= made =>
        \/ gate'.thread[w] = gate.thread[w]
        \/ owner[w] = r /\ w \in ToSet(gate.queue) /\ gate'.thread[w] = "gone"
        \/ /\ owner[w] # r /\ w \in ToSet(gate.queue)
           /\ gate.thread[w] = "made" /\ gate'.thread[w] = "runs"

LEMMA StartWorks ==
    ASSUME GateInv, NEW r \in Runtimes, start_worker(r)
    PROVE  /\ GateInv' /\ Shifted(r)
           /\ made' \in Workers /\ made' = made + 1
           /\ worker' = [worker EXCEPT ![r] = made'] /\ owner' = [owner EXCEPT ![made'] = r]
           /\ gate'.thread[made'] \in {"made", "runs"}
  <1> DEFINE m == made'
  <1>1. /\ made < MaxWorkers /\ made \in Nat /\ MaxWorkers \in Nat /\ m = made + 1
        /\ m \in Workers /\ m \in Nat /\ ~ (m <= made)
        /\ owner' = [owner EXCEPT ![m] = r]
        /\ worker' = [worker EXCEPT ![r] = m]
        /\ old' = old \cap active(gate')
    BY GateAssumption DEF start_worker, GateInv, GateTypeOK, Workers
  <1> DEFINE f(g) == [g EXCEPT !.ticket[m] = "new", !.thread[m] = "made", !.held[r] = m]
  <1>2. PICK g \in discard_queued_start(r) : gate' = submit(f(g), m)
    BY DEF start_worker
  <1> HIDE DEF m
  <1>3. /\ gate.ticket[m] = "new" /\ gate.thread[m] = "none"
        /\ gate.held \in [Runtimes -> Workers \cup {NoWorker}]
        /\ gate.queue \in Seq(Workers) /\ gate \in Gates /\ Ordered(gate)
    BY <1>1 DEF GateInv, OwnerInv, Ordered, Gates
  <1>4. m \notin ToSet(gate.queue)
    BY <1>1, <1>3 DEF Ordered
  <1>5. /\ Ordered(g) /\ g.held[r] = NoWorker
        /\ ToSet(g.queue) \subseteq {w \in ToSet(gate.queue) : owner[w] # r}
        /\ \A w \in Workers :
              \/ g.thread[w] = gate.thread[w]
              \/ w = gate.held[r] /\ w \in ToSet(gate.queue) /\ g.thread[w] = "gone"
              \/ /\ w \in ToSet(gate.queue) /\ owner[w] # r
                 /\ gate.thread[w] = "made" /\ g.thread[w] = "runs"
        /\ \A w \in Workers : gate.ticket[w] = "new" => g.ticket[w] = "new"
        /\ \A x \in Runtimes : g.held[x] \in {gate.held[x], NoWorker}
        /\ \A w \in ToSet(g.queue) : g.held[owner[w]] = w
    BY DiscardWorks
  <1> DEFINE n == f(g)
  <1>6. /\ n \in Gates /\ n.queue = g.queue
        /\ \A w \in Workers : /\ n.ticket[w] = g.ticket[w]
                              /\ n.thread[w] = IF w = m THEN "made" ELSE g.thread[w]
        /\ n.ticket[m] = "new"
        /\ \A x \in Runtimes : n.held[x] = IF x = r THEN m ELSE g.held[x]
    <2>1. g \in Gates /\ g.ticket[m] = "new"
      BY <1>1, <1>3, <1>5 DEF Ordered
    <2>2. n = [g EXCEPT !.ticket[m] = "new", !.thread[m] = "made", !.held[r] = m]
      OBVIOUS
    <2> HIDE DEF f, n
    <2> QED
      BY <1>1, <2>1, <2>2 DEF Gates, Tickets, Threads
  <1> HIDE DEF f, n
  <1>7. Ordered(n)
    <2>1. active(n) = active(g)
      BY <1>6 DEF active
    <2>2. \A w \in ToSet(n.queue) : n.thread[w] = g.thread[w]
      BY <1>3, <1>4, <1>5, <1>6, InQueue
    <2> QED
      BY <1>5, <1>6, <2>1, <2>2 DEF Ordered
  <1>8. n.thread[m] = "made"
    BY <1>1, <1>6
  <1>9. /\ Ordered(gate')
        /\ ToSet(gate'.queue) \subseteq ToSet(n.queue) \cup {m}
        /\ gate'.held = n.held
        /\ \A v \in Workers : v # m => gate'.thread[v] = n.thread[v]
        /\ gate'.thread[m] \in {"made", "runs"}
        /\ \A v \in Workers : v # m /\ n.ticket[v] = "new" => gate'.ticket[v] = "new"
    <2>1. gate' = submit(n, m)
      BY <1>2 DEF n
    <2> QED
      BY <2>1, <1>1, <1>6, <1>7, <1>8, SubmitWorks
  <1>10. GateTypeOK'
    <2>1. /\ owner \in [Workers -> Runtimes \cup {NoWorker}]
          /\ worker \in [Runtimes -> Workers \cup {NoWorker}]
          /\ old \subseteq Workers
      BY DEF GateInv, GateTypeOK
    <2>2. made' \in 0..MaxWorkers
      BY <1>1 DEF m
    <2> QED
      BY <2>1, <2>2, <1>1, <1>9 DEF GateTypeOK, Ordered, Gates
  <1>11. OwnerInv'
    <2>1. ASSUME NEW w \in Workers
          PROVE  IF w <= m THEN owner'[w] \in Runtimes /\ gate'.thread[w] # "none"
                 ELSE gate'.ticket[w] = "new" /\ gate'.thread[w] = "none"
      <3>1. CASE w = m
        BY <3>1, <1>1, <1>9 DEF GateInv, GateTypeOK
      <3>2. CASE w # m
        <4>1. owner'[w] = owner[w] /\ gate'.thread[w] = g.thread[w]
          BY <3>2, <1>1, <1>6, <1>9 DEF GateInv, GateTypeOK
        <4>2. CASE w <= made
          BY <4>1, <4>2, <1>1, <1>5 DEF GateInv, OwnerInv, Workers
        <4>3. CASE ~ (w <= made)
          <5>1. ~ (w <= m)
            BY <4>3, <3>2, <1>1 DEF Workers
          <5>2. gate.ticket[w] = "new" /\ gate.thread[w] = "none"
            BY <4>3 DEF GateInv, OwnerInv
          <5>3. w \notin ToSet(gate.queue)
            BY <5>2, <1>3 DEF Ordered
          <5> QED
            BY <5>1, <5>2, <5>3, <4>1, <3>2, <1>5, <1>6, <1>9
        <4> QED
          BY <4>2, <4>3
      <3> QED
        BY <3>1, <3>2
    <2>2. ASSUME NEW x \in Runtimes
          PROVE  /\ worker'[x] # NoWorker => worker'[x] <= m /\ owner'[worker'[x]] = x
                 /\ gate'.held[x] # NoWorker => gate'.held[x] <= m /\ owner'[gate'.held[x]] = x
      <3>1. CASE x = r
        BY <3>1, <1>1, <1>6, <1>9 DEF GateInv, GateTypeOK
      <3>2. CASE x # r
        <4>1. worker'[x] = worker[x] /\ gate'.held[x] \in {gate.held[x], NoWorker}
          BY <3>2, <1>1, <1>5, <1>6, <1>9 DEF GateInv, GateTypeOK
        <4>2. \A w \in Workers : w <= made => w <= m /\ owner'[w] = owner[w]
          BY <1>1 DEF GateInv, GateTypeOK, Workers
        <4>3. worker[x] \in Workers \cup {NoWorker} /\ gate.held[x] \in Workers \cup {NoWorker}
          BY <1>3 DEF GateInv, GateTypeOK
        <4> QED
          BY <4>1, <4>2, <4>3 DEF GateInv, OwnerInv
      <3> QED
        BY <3>1, <3>2
    <2> QED
      BY <2>1, <2>2 DEF OwnerInv, m
  <1>12. WantedInv'
    <2>1. ASSUME NEW w \in ToSet(gate'.queue)
          PROVE  worker'[owner'[w]] = w /\ gate'.held[owner'[w]] = w
      <3>1. CASE w = m
        <4>1. owner'[m] = r
          BY <1>1 DEF GateInv, GateTypeOK
        <4> QED
          BY <4>1, <3>1, <1>1, <1>6, <1>9 DEF GateInv, GateTypeOK
      <3>2. CASE w # m
        <4>1. w \in ToSet(g.queue) /\ w \in ToSet(gate.queue) /\ owner[w] # r /\ w \in Workers
          BY <3>2, <1>3, <1>5, <1>6, <1>9, InQueue
        <4>2. worker[owner[w]] = w /\ g.held[owner[w]] = w /\ owner'[w] = owner[w]
          BY <4>1, <3>2, <1>1, <1>5 DEF GateInv, WantedInv, GateTypeOK
        <4>3. owner[w] \in Runtimes
          BY <4>1, <1>3 DEF GateInv, OwnerInv, Ordered
        <4> QED
          BY <4>1, <4>2, <4>3, <1>1, <1>6, <1>9 DEF GateInv, GateTypeOK
      <3> QED
        BY <3>1, <3>2
    <2> QED
      BY <2>1 DEF WantedInv
  <1>13. Shifted(r)
    <2>1. ASSUME NEW w \in Workers, w <= made
          PROVE  \/ gate'.thread[w] = gate.thread[w]
                 \/ owner[w] = r /\ w \in ToSet(gate.queue) /\ gate'.thread[w] = "gone"
                 \/ /\ owner[w] # r /\ w \in ToSet(gate.queue)
                    /\ gate.thread[w] = "made" /\ gate'.thread[w] = "runs"
      <3>1. w # m
        BY <2>1, <1>1
      <3>2. gate'.thread[w] = g.thread[w]
        BY <3>1, <1>6, <1>9
      <3>3. w = gate.held[r] => owner[w] = r
        BY <1>3 DEF GateInv, OwnerInv, NoWorker, Workers
      <3> QED
        BY <3>2, <3>3, <1>5
    <2> QED
      BY <2>1 DEF Shifted
  <1> QED
    BY <1>1, <1>9, <1>10, <1>11, <1>12, <1>13 DEF GateInv, m

LEMMA CancelWorks ==
    ASSUME GateInv, NEW r \in Runtimes, cancel(r)
    PROVE  GateInv' /\ Shifted(r) /\ worker' = [worker EXCEPT ![r] = NoWorker] /\ UNCHANGED <<owner,
                                                                                              made>>
  <1>1. /\ gate' \in discard_queued_start(r)
        /\ worker' = [worker EXCEPT ![r] = NoWorker]
        /\ old' = old \cap active(gate')
        /\ UNCHANGED <<owner, made>>
    BY DEF cancel
  <1>2. /\ Ordered(gate') /\ gate'.held[r] = NoWorker
        /\ ToSet(gate'.queue) \subseteq {w \in ToSet(gate.queue) : owner[w] # r}
        /\ \A w \in Workers :
              \/ gate'.thread[w] = gate.thread[w]
              \/ w = gate.held[r] /\ w \in ToSet(gate.queue) /\ gate'.thread[w] = "gone"
              \/ /\ w \in ToSet(gate.queue) /\ owner[w] # r
                 /\ gate.thread[w] = "made" /\ gate'.thread[w] = "runs"
        /\ \A w \in Workers : gate.ticket[w] = "new" => gate'.ticket[w] = "new"
        /\ \A x \in Runtimes : gate'.held[x] \in {gate.held[x], NoWorker}
        /\ \A w \in ToSet(gate'.queue) : gate'.held[owner[w]] = w
    BY <1>1, DiscardWorks
  <1>3. gate.queue \in Seq(Workers) /\ \A w \in ToSet(gate.queue) : w \in Workers /\ gate.ticket[w] = "queued"
    BY InQueue DEF GateInv, Ordered, Gates
  <1>4. GateTypeOK'
    BY <1>1, <1>2 DEF GateInv, GateTypeOK, Ordered, Gates
  <1>5. OwnerInv'
    <2>1. ASSUME NEW w \in Workers
          PROVE  IF w <= made THEN owner[w] \in Runtimes /\ gate'.thread[w] # "none"
                 ELSE gate'.ticket[w] = "new" /\ gate'.thread[w] = "none"
      BY <1>2, <1>3 DEF GateInv, OwnerInv
    <2>2. ASSUME NEW x \in Runtimes
          PROVE  /\ worker'[x] # NoWorker => worker'[x] <= made /\ owner[worker'[x]] = x
                 /\ gate'.held[x] # NoWorker => gate'.held[x] <= made /\ owner[gate'.held[x]] = x
      BY <1>1, <1>2 DEF GateInv, OwnerInv, GateTypeOK
    <2> QED
      BY <1>1, <2>1, <2>2 DEF OwnerInv
  <1>6. WantedInv'
    BY <1>1, <1>2, <1>3 DEF GateInv, WantedInv, GateTypeOK
  <1>7. Shifted(r)
    <2>1. \A w \in Workers : w = gate.held[r] => owner[w] = r
      BY DEF GateInv, OwnerInv, NoWorker, Workers
    <2> QED
      BY <1>2, <2>1 DEF Shifted
  <1> QED
    BY <1>1, <1>2, <1>4, <1>5, <1>6, <1>7 DEF GateInv

\* A step that leaves what waits, what is held and who owns whom.
LEMMA QuietStep ==
    ASSUME GateInv, gate' \in Gates, old' \subseteq Workers,
           gate'.queue = gate.queue, gate'.ticket = gate.ticket, gate'.held = gate.held,
           worker' \in [Runtimes -> Workers \cup {NoWorker}],
           \A r \in Runtimes : worker'[r] # worker[r] =>
               worker'[r] = NoWorker /\ worker[r] \notin ToSet(gate.queue),
           \A w \in Workers : gate'.thread[w] # gate.thread[w] =>
               /\ w <= made /\ gate'.thread[w] # "none"
               /\ w \notin ToSet(gate.queue) \/ gate'.thread[w] = "deleted",
           UNCHANGED <<owner, made>>
    PROVE  GateInv'
  <1>1. \A w \in ToSet(gate.queue) :
           /\ w \in Workers /\ gate.ticket[w] = "queued"
           /\ w <= made /\ owner[w] \in Runtimes
    <2>1. \A w \in ToSet(gate.queue) : w \in Workers /\ gate.ticket[w] = "queued"
      BY InQueue DEF GateInv, Ordered, Gates
    <2> QED
      BY <2>1 DEF GateInv, OwnerInv
  <1>2. GateTypeOK'
    BY DEF GateInv, GateTypeOK, Gates
  <1>3. Ordered(gate')
    <2>1. active(gate') = active(gate)
      BY DEF active
    <2>2. \A w \in ToSet(gate'.queue) : gate'.thread[w] \in {"made", "deleted"}
      BY <1>1 DEF GateInv, Ordered
    <2> QED
      BY <2>1, <2>2 DEF GateInv, Ordered
  <1>4. OwnerInv'
    <2>1. \A w \in Workers : IF w <= made THEN owner[w] \in Runtimes /\ gate'.thread[w] # "none"
                             ELSE gate'.ticket[w] = "new" /\ gate'.thread[w] = "none"
      BY DEF GateInv, OwnerInv
    <2>2. \A r \in Runtimes :
             /\ worker'[r] # NoWorker => worker'[r] <= made /\ owner[worker'[r]] = r
             /\ gate'.held[r] # NoWorker => gate'.held[r] <= made /\ owner[gate'.held[r]] = r
      BY DEF GateInv, OwnerInv
    <2> QED
      BY <2>1, <2>2 DEF OwnerInv
  <1>5. WantedInv'
    BY <1>1 DEF GateInv, WantedInv
  <1> QED
    BY <1>2, <1>3, <1>4, <1>5 DEF GateInv

LEMMA StopWorks ==
    ASSUME GateInv, NEW r \in Runtimes, stop(r)
    PROVE  GateInv' /\ Shifted(r) /\ worker' = [worker EXCEPT ![r] = NoWorker] /\ UNCHANGED <<owner,
                                                                                              made>>
  <1>1. CASE is_queued(r) /\ cancel(r)
    BY <1>1, CancelWorks
  <1>2. CASE /\ ~ is_queued(r) /\ worker[r] # NoWorker /\ ~ isRunning(gate, worker[r])
             /\ worker' = [worker EXCEPT ![r] = NoWorker]
             /\ UNCHANGED <<gate, old, owner, made>>
    <2>1. worker[r] \notin ToSet(gate.queue)
      <3>1. SUFFICES ASSUME worker[r] \in ToSet(gate.queue) PROVE FALSE
        OBVIOUS
      <3>2. worker[r] \in Workers /\ owner[worker[r]] = r /\ gate.ticket[worker[r]] = "queued"
        BY <1>2, <3>1 DEF GateInv, GateTypeOK, OwnerInv, Ordered
      <3>3. gate.held[r] = worker[r]
        BY <3>1, <3>2 DEF GateInv, WantedInv
      <3> QED
        BY <1>2, <3>2, <3>3 DEF is_queued
    <2>2. gate' \in Gates /\ old' \subseteq Workers /\ worker' \in [Runtimes -> Workers \cup {NoWorker}]
      BY <1>2 DEF GateInv, GateTypeOK, Ordered
    <2>3. GateInv'
      BY <1>2, <2>1, <2>2, QuietStep DEF GateInv, GateTypeOK
    <2> QED
      BY <1>2, <2>3 DEF Shifted
  <1> QED
    BY <1>1, <1>2 DEF stop

\* What a thread, a page that goes, and a slot of the runtime change.
LEMMA ThreadWorks ==
    ASSUME GateInv, NEW w \in Workers,
           PageDeleted(w) \/ Emits(w) \/ Ends(w) \/ finish_worker(w)
    PROVE  /\ GateInv' /\ w <= made /\ owner[w] \in Runtimes
           /\ gate'.queue = gate.queue /\ gate'.ticket = gate.ticket /\ gate'.held = gate.held
           /\ \A v \in Workers : v # w => gate'.thread[v] = gate.thread[v]
           /\ UNCHANGED <<owner, made>>
           /\ PageDeleted(w) => gate'.thread[w] = "deleted"
           /\ Emits(w) => gate'.thread[w] = "emits"
           /\ Ends(w) => gate'.thread[w] = "ended"
           /\ finish_worker(w) => gate'.thread[w] = "told"
  <1>1. /\ gate \in Gates /\ worker \in [Runtimes -> Workers \cup {NoWorker}] /\ old \subseteq Workers
        /\ gate.queue \in Seq(Workers)
    BY DEF GateInv, GateTypeOK, Ordered, Gates
  <1>2. gate.thread[w] # "none"
    BY DEF PageDeleted, Emits, Ends, finish_worker, isRunning
  <1>3. w <= made /\ owner[w] \in Runtimes
    BY <1>2 DEF GateInv, OwnerInv
  <1>4. \A v \in ToSet(gate.queue) : v \in Workers /\ gate.thread[v] \in {"made", "deleted"}
    BY <1>1, InQueue DEF GateInv, Ordered
  <1>5. \E t \in {"deleted", "emits", "ended", "told"} :
           /\ gate' = [gate EXCEPT !.thread[w] = t]
           /\ t = "deleted" \/ w \notin ToSet(gate.queue)
           /\ PageDeleted(w) => t = "deleted"
           /\ Emits(w) => t = "emits" /\ gate.thread[w] = "runs"
           /\ Ends(w) => t = "ended" /\ isRunning(gate, w)
           /\ finish_worker(w) => t = "told" /\ gate.thread[w] = "ended"
    <2>1. CASE PageDeleted(w)
      <3>1. gate' = [gate EXCEPT !.thread[w] = "deleted"] /\ gate.thread[w] = "made"
        BY <2>1 DEF PageDeleted
      <3>2. ~ Emits(w) /\ ~ Ends(w) /\ ~ finish_worker(w)
        BY <3>1 DEF Emits, Ends, finish_worker, isRunning
      <3> QED
        BY <3>1, <3>2
    <2>2. CASE Emits(w)
      <3>1. gate' = [gate EXCEPT !.thread[w] = "emits"] /\ gate.thread[w] = "runs"
        BY <2>2 DEF Emits
      <3>2. ~ PageDeleted(w) /\ ~ finish_worker(w)
        BY <3>1 DEF PageDeleted, finish_worker
      <3>3. ~ Ends(w)
        <4>1. gate'.thread[w] = "emits"
          BY <3>1, <1>1 DEF Gates
        <4>2. Ends(w) => gate'.thread[w] = "ended"
          BY <1>1 DEF Ends, Gates
        <4> QED
          BY <4>1, <4>2
      <3> QED
        BY <3>1, <3>2, <3>3, <1>4
    <2>3. CASE Ends(w) /\ ~ Emits(w)
      <3>1. gate' = [gate EXCEPT !.thread[w] = "ended"] /\ isRunning(gate, w)
        BY <2>3 DEF Ends
      <3>2. ~ PageDeleted(w) /\ ~ finish_worker(w)
        BY <3>1 DEF PageDeleted, finish_worker, isRunning
      <3> QED
        BY <2>3, <3>1, <3>2, <1>4 DEF isRunning
    <2>4. CASE finish_worker(w)
      <3>1. gate' = [gate EXCEPT !.thread[w] = "told"] /\ gate.thread[w] = "ended"
        BY <2>4 DEF finish_worker
      <3>2. ~ PageDeleted(w) /\ ~ Emits(w) /\ ~ Ends(w)
        BY <3>1 DEF PageDeleted, Emits, Ends, isRunning
      <3> QED
        BY <3>1, <3>2, <1>4
    <2> QED
      BY <2>1, <2>2, <2>3, <2>4
  <1>6. PICK t \in {"deleted", "emits", "ended", "told"} :
           /\ gate' = [gate EXCEPT !.thread[w] = t]
           /\ t = "deleted" \/ w \notin ToSet(gate.queue)
           /\ PageDeleted(w) => t = "deleted"
           /\ Emits(w) => t = "emits" /\ gate.thread[w] = "runs"
           /\ Ends(w) => t = "ended" /\ isRunning(gate, w)
           /\ finish_worker(w) => t = "told" /\ gate.thread[w] = "ended"
    BY <1>5
  <1>7. /\ gate' \in Gates
        /\ gate'.queue = gate.queue /\ gate'.ticket = gate.ticket /\ gate'.held = gate.held
        /\ \A v \in Workers : gate'.thread[v] = IF v = w THEN t ELSE gate.thread[v]
    BY <1>1, <1>6 DEF Gates, Threads
  <1>8. /\ worker' \in [Runtimes -> Workers \cup {NoWorker}]
        /\ \A r \in Runtimes : worker'[r] # worker[r] =>
               worker'[r] = NoWorker /\ worker[r] \notin ToSet(gate.queue)
    <2>1. CASE UNCHANGED worker
      BY <1>1, <2>1
    <2>2. CASE finish_worker(w)
      <3>1. worker' = IF worker[owner[w]] = w THEN [worker EXCEPT ![owner[w]] = NoWorker] ELSE worker
        BY <2>2 DEF finish_worker
      <3>2. w \notin ToSet(gate.queue)
        BY <2>2, <1>4 DEF finish_worker
      <3> QED
        BY <1>1, <1>3, <3>1, <3>2
    <2> QED
      BY <2>1, <2>2 DEF PageDeleted, Emits, Ends
  <1>9. UNCHANGED <<old, owner, made>>
    BY DEF PageDeleted, Emits, Ends, finish_worker
  <1>10. GateInv'
    <2>1. \A v \in Workers : gate'.thread[v] # gate.thread[v] =>
               /\ v <= made /\ gate'.thread[v] # "none"
               /\ v \notin ToSet(gate.queue) \/ gate'.thread[v] = "deleted"
      BY <1>3, <1>6, <1>7
    <2> QED
      BY <1>1, <1>7, <1>8, <1>9, <2>1, QuietStep
  <1> QED
    BY <1>3, <1>6, <1>7, <1>9, <1>10

\* The pump, asked for by the timer or by a release.
LEMMA PumpKeeps ==
    ASSUME GateInv, NEW d, Ordered(d), NEW h \in pumped(d),
           d.held = gate.held, ToSet(d.queue) \subseteq ToSet(gate.queue),
           NEW w0,
           w0 \in Workers => w0 <= made /\ w0 \notin ToSet(gate.queue),
           \A w \in Workers : w # w0 => d.ticket[w] = gate.ticket[w] /\ d.thread[w] = gate.thread[w],
           w0 \in Workers => d.thread[w0] # "none"
    PROVE  /\ \A w \in Workers :
                 IF w <= made THEN h.thread[w] # "none"
                 ELSE h.ticket[w] = "new" /\ h.thread[w] = "none"
           /\ \A r \in Runtimes : h.held[r] \in {gate.held[r], NoWorker}
           /\ \A w \in ToSet(h.queue) : w \in Workers /\ w \in ToSet(gate.queue) /\ h.held[owner[w]] = w
           /\ Ordered(h)
           /\ \A w \in Workers : w # w0 =>
                 \/ h.thread[w] = gate.thread[w]
                 \/ w \in ToSet(gate.queue) /\ gate.thread[w] = "made" /\ h.thread[w] = "runs"
           /\ w0 \in Workers => h.thread[w0] = d.thread[w0]
  <1>1. Ordered(h) /\ Moved(d, h)
    BY Pumped
  <1>2. \A w \in ToSet(gate.queue) :
           /\ w \in Workers /\ gate.ticket[w] = "queued" /\ w <= made
           /\ owner[w] \in Runtimes /\ gate.held[owner[w]] = w
    <2>1. \A w \in ToSet(gate.queue) : w \in Workers /\ gate.ticket[w] = "queued"
      BY InQueue DEF GateInv, Ordered, Gates
    <2> QED
      BY <2>1 DEF GateInv, OwnerInv, WantedInv
  <1>3. \A w \in ToSet(h.queue) : w \in ToSet(d.queue) /\ w \in ToSet(gate.queue)
    BY <1>1 DEF Moved
  <1>4. \A w \in Workers : w # w0 =>
           \/ h.thread[w] = gate.thread[w]
           \/ w \in ToSet(gate.queue) /\ gate.thread[w] = "made" /\ h.thread[w] = "runs"
    BY <1>1 DEF Moved
  <1>5. w0 \in Workers => h.thread[w0] = d.thread[w0]
    BY <1>1 DEF Moved
  <1>6. \A w \in Workers : IF w <= made THEN h.thread[w] # "none"
                           ELSE h.ticket[w] = "new" /\ h.thread[w] = "none"
    <2>1. ASSUME NEW w \in Workers, w <= made PROVE h.thread[w] # "none"
      BY <1>4, <1>5, <2>1 DEF GateInv, OwnerInv
    <2>2. ASSUME NEW w \in Workers, ~ (w <= made)
          PROVE  h.ticket[w] = "new" /\ h.thread[w] = "none"
      <3>1. w # w0 /\ gate.ticket[w] = "new" /\ gate.thread[w] = "none" /\ w \notin ToSet(gate.queue)
        BY <1>2, <2>2 DEF GateInv, OwnerInv
      <3>2. d.ticket[w] = "new" /\ w \notin ToSet(d.queue)
        BY <3>1
      <3> QED
        BY <1>1, <1>4, <3>1, <3>2 DEF Moved
    <2> QED
      BY <2>1, <2>2
  <1>7. \A r \in Runtimes : h.held[r] \in {gate.held[r], NoWorker}
    BY <1>1 DEF Moved
  <1>8. \A w \in ToSet(h.queue) : h.held[owner[w]] = w
    BY <1>1, <1>2, <1>3 DEF Moved
  <1> QED
    BY <1>1, <1>2, <1>3, <1>4, <1>5, <1>6, <1>7, <1>8

LEMMA PumpInv ==
    ASSUME GateInv, Ordered(gate'), old' = old \cap active(gate'), UNCHANGED <<worker, owner, made>>,
           \A w \in Workers : IF w <= made THEN gate'.thread[w] # "none"
                              ELSE gate'.ticket[w] = "new" /\ gate'.thread[w] = "none",
           \A r \in Runtimes : gate'.held[r] \in {gate.held[r], NoWorker},
           \A w \in ToSet(gate'.queue) :
               w \in Workers /\ w \in ToSet(gate.queue) /\ gate'.held[owner[w]] = w
    PROVE  GateInv'
  <1>1. GateTypeOK'
    BY DEF GateInv, GateTypeOK, Ordered, Gates
  <1>2. OwnerInv'
    BY DEF GateInv, OwnerInv
  <1>3. WantedInv'
    BY DEF GateInv, WantedInv
  <1> QED
    BY <1>1, <1>2, <1>3 DEF GateInv

\* No runtime loses its waiting worker when the slots are looked through.
LEMMA TimerWorks ==
    ASSUME GateInv, TimerDue \/ PumpTimer \/ \E w \in Workers : Ages(w)
    PROVE  GateInv' /\ UNCHANGED <<worker, owner, made>>
           /\ \A w \in Workers : w <= made /\ gate'.thread[w] # gate.thread[w] =>
                  w \in ToSet(gate.queue) /\ gate.thread[w] = "made" /\ gate'.thread[w] = "runs"
  <1>1. CASE TimerDue
    <2>1. /\ gate' \in Gates /\ gate'.queue = gate.queue /\ gate'.ticket = gate.ticket
          /\ gate'.held = gate.held /\ gate'.thread = gate.thread
          /\ UNCHANGED <<old, worker, owner, made>>
      BY <1>1 DEF TimerDue, GateInv, Ordered, Gates
    <2>2. GateInv'
      BY <2>1, QuietStep DEF GateInv, GateTypeOK
    <2> QED
      BY <2>1, <2>2
  <1>2. CASE PumpTimer
    <2> DEFINE d == [gate EXCEPT !.timer = "off"]
    <2>1. gate' \in pumped(d) /\ old' = old \cap active(gate') /\ UNCHANGED <<worker, owner, made>>
      BY <1>2 DEF PumpTimer
    <2>2. /\ d \in Gates /\ d.queue = gate.queue /\ d.ticket = gate.ticket
          /\ d.held = gate.held /\ d.thread = gate.thread
      BY DEF GateInv, Ordered, Gates
    <2> HIDE DEF d
    <2>3. Ordered(d)
      BY <2>2 DEF GateInv, Ordered, active
    <2>4. NoWorker \notin Workers
      BY DEF NoWorker, Workers
    <2>5. /\ \A w \in Workers :
                IF w <= made THEN gate'.thread[w] # "none"
                ELSE gate'.ticket[w] = "new" /\ gate'.thread[w] = "none"
          /\ \A r \in Runtimes : gate'.held[r] \in {gate.held[r], NoWorker}
          /\ \A w \in ToSet(gate'.queue) :
                w \in Workers /\ w \in ToSet(gate.queue) /\ gate'.held[owner[w]] = w
          /\ Ordered(gate')
          /\ \A w \in Workers : w # NoWorker =>
                \/ gate'.thread[w] = gate.thread[w]
                \/ w \in ToSet(gate.queue) /\ gate.thread[w] = "made" /\ gate'.thread[w] = "runs"
      BY <2>1, <2>2, <2>3, <2>4, PumpKeeps
    <2>6. GateInv'
      BY <2>1, <2>5, PumpInv
    <2> QED
      BY <2>1, <2>4, <2>5, <2>6
  <1>3. CASE \E w \in Workers : Ages(w)
    <2>1. UNCHANGED <<gate, worker, owner, made>> /\ old' \subseteq Workers
      BY <1>3 DEF Ages, GateInv, GateTypeOK
    <2>2. GateInv'
      BY <2>1, QuietStep DEF GateInv, GateTypeOK, Ordered
    <2> QED
      BY <2>1, <2>2
  <1> QED
    BY <1>1, <1>2, <1>3

LEMMA ReleaseWorks ==
    ASSUME GateInv, NEW w0 \in Workers, release_ticket(w0)
    PROVE  /\ GateInv' /\ UNCHANGED <<worker, owner, made>>
           /\ gate'.thread[w0] = "gone" /\ gate.thread[w0] = "told"
           /\ \A w \in Workers : w # w0 =>
                 \/ gate'.thread[w] = gate.thread[w]
                 \/ w \in ToSet(gate.queue) /\ gate.thread[w] = "made" /\ gate'.thread[w] = "runs"
  <1> DEFINE e == [gate EXCEPT !.thread[w0] = "gone"]
             d == [e EXCEPT !.ticket[w0] = "released", !.queue = RemoveFirst(e.queue, w0)]
  <1>1. PICK h \in drop(e, w0, "released") :
            gate' = [h EXCEPT !.held[owner[w0]] = IF h.held[owner[w0]] = w0 THEN NoWorker
                                                 ELSE h.held[owner[w0]]]
    BY DEF release_ticket
  <1>2. /\ gate.thread[w0] = "told" /\ old' = old \cap active(gate')
        /\ UNCHANGED <<worker, owner, made>>
    BY DEF release_ticket
  <1>3. /\ e \in Gates /\ e.queue = gate.queue /\ e.ticket = gate.ticket /\ e.held = gate.held
        /\ \A w \in Workers : e.thread[w] = IF w = w0 THEN "gone" ELSE gate.thread[w]
    BY DEF GateInv, Ordered, Gates, Threads
  <1> HIDE DEF e
  <1>4. w0 \notin ToSet(gate.queue)
    BY <1>2 DEF GateInv, Ordered
  <1>5. Ordered(e)
    <2>1. active(e) = active(gate)
      BY <1>3 DEF active
    <2>2. \A w \in ToSet(e.queue) : e.thread[w] \in {"made", "deleted"}
      <3>1. \A w \in ToSet(e.queue) : w \in Workers /\ w # w0
        BY <1>3, <1>4, InQueue DEF GateInv, Ordered, Gates
      <3> QED
        BY <3>1, <1>3 DEF GateInv, Ordered
    <2> QED
      BY <1>3, <2>1, <2>2 DEF GateInv, Ordered
  <1>6. /\ Ordered(h) /\ Ordered(d) /\ ToSet(d.queue) = ToSet(gate.queue) \ {w0}
        /\ h \in pumped(d)
    <2>1. h \in pumped(d)
      BY <1>1 DEF drop
    <2> QED
      BY <1>1, <1>3, <1>5, <2>1, DropWorks
  <1>7. /\ d.held = gate.held
        /\ \A w \in Workers : w # w0 => d.ticket[w] = gate.ticket[w] /\ d.thread[w] = gate.thread[w]
        /\ d.thread[w0] = "gone"
    BY <1>3 DEF Gates
  <1>8. w0 <= made /\ owner[w0] \in Runtimes
    BY <1>2 DEF GateInv, OwnerInv
  <1> HIDE DEF d
  <1>9. /\ \A w \in Workers :
              IF w <= made THEN h.thread[w] # "none"
              ELSE h.ticket[w] = "new" /\ h.thread[w] = "none"
        /\ \A r \in Runtimes : h.held[r] \in {gate.held[r], NoWorker}
        /\ \A w \in ToSet(h.queue) : w \in Workers /\ w \in ToSet(gate.queue) /\ h.held[owner[w]] = w
        /\ \A w \in Workers : w # w0 =>
              \/ h.thread[w] = gate.thread[w]
              \/ w \in ToSet(gate.queue) /\ gate.thread[w] = "made" /\ h.thread[w] = "runs"
        /\ h.thread[w0] = "gone"
    BY <1>4, <1>6, <1>7, <1>8, PumpKeeps
  <1>10. /\ gate' \in Gates /\ gate'.queue = h.queue /\ gate'.ticket = h.ticket
         /\ gate'.thread = h.thread
         /\ \A r \in Runtimes : gate'.held[r] =
               IF r = owner[w0] /\ h.held[r] = w0 THEN NoWorker ELSE h.held[r]
    BY <1>1, <1>6, <1>8 DEF Ordered, Gates
  <1>11. Ordered(gate')
    BY <1>6, <1>10 DEF Ordered, active
  <1>12. \A w \in ToSet(gate'.queue) :
            w \in Workers /\ w \in ToSet(gate.queue) /\ gate'.held[owner[w]] = w
    <2>1. ASSUME NEW w \in ToSet(h.queue) PROVE gate'.held[owner[w]] = w
      <3>1. w \in Workers /\ w \in ToSet(gate.queue) /\ h.held[owner[w]] = w /\ w # w0
        BY <1>4, <1>9
      <3>2. owner[w] \in Runtimes
        BY <3>1 DEF GateInv, Ordered, OwnerInv
      <3> QED
        BY <3>1, <3>2, <1>10
    <2> QED
      BY <2>1, <1>9, <1>10
  <1>13. GateInv'
    BY <1>2, <1>9, <1>10, <1>11, <1>12, PumpInv
  <1> QED
    BY <1>2, <1>9, <1>10, <1>13

-----------------------------------------------------------------------------
(* The lanes *)

\* What a step leaves of the other runtimes' workers.
LEMMA RuntimeStep ==
    ASSUME Inv, NEW r \in Runtimes, start_worker(r) \/ cancel(r) \/ stop(r)
    PROVE  /\ GateInv' /\ Shifted(r)
           /\ made <= made' /\ made' \in Nat
           /\ \A x \in Runtimes : x # r => worker'[x] = worker[x]
           /\ \A w \in Workers : w <= made => owner'[w] = owner[w]
           /\ \A w \in Workers : ~ (w <= made) /\ w <= made' =>
                 owner'[w] = r /\ w = worker'[r] /\ gate'.thread[w] \in {"made", "runs"}
           /\ worker'[r] # NoWorker => ~ (worker'[r] <= made)
  <1>1. made \in Nat /\ worker \in [Runtimes -> Workers \cup {NoWorker}]
        /\ owner \in [Workers -> Runtimes \cup {NoWorker}]
    BY DEF Inv, GateInv, GateTypeOK
  <1>2. CASE start_worker(r)
    <2>1. /\ GateInv' /\ Shifted(r)
          /\ made' \in Workers /\ made' = made + 1
          /\ worker' = [worker EXCEPT ![r] = made'] /\ owner' = [owner EXCEPT ![made'] = r]
          /\ gate'.thread[made'] \in {"made", "runs"}
      BY <1>2, StartWorks DEF Inv
    <2>2. \A w \in Workers : w <= made => w # made'
      BY <1>1, <2>1 DEF Workers
    <2>3. \A w \in Workers : ~ (w <= made) /\ w <= made' => w = made'
      BY <1>1, <2>1 DEF Workers
    <2>4. ~ (made' <= made) /\ made <= made' /\ made' \in Nat
      BY <1>1, <2>1
    <2> QED
      BY <1>1, <2>1, <2>2, <2>3, <2>4
  <1>3. CASE cancel(r) \/ stop(r)
    <2>1. /\ GateInv' /\ Shifted(r)
          /\ worker' = [worker EXCEPT ![r] = NoWorker] /\ UNCHANGED <<owner, made>>
      BY <1>3, CancelWorks, StopWorks DEF Inv
    <2> QED
      BY <1>1, <2>1
  <1> QED
    BY <1>2, <1>3

\* A lane starts when nothing of it runs, and a lane that cancels is closed.
LEMMA RuntimeLane ==
    ASSUME Inv, NEW r \in Runtimes, start_worker(r) \/ cancel(r) \/ stop(r),
           r \in Lanes =>
               \/ start_worker(r) /\ ~ closed[r] /\ ~ closed'[r] /\ ~ is_running(r)
               \/ cancel(r) /\ closed'[r],
           \A l \in Lanes : l # r => closed'[l] = closed[l]
    PROVE  LaneWorkers' /\ OneAtATime'
  <1>1. /\ GateInv' /\ Shifted(r)
        /\ made <= made' /\ made' \in Nat
        /\ \A x \in Runtimes : x # r => worker'[x] = worker[x]
        /\ \A w \in Workers : w <= made => owner'[w] = owner[w]
        /\ \A w \in Workers : ~ (w <= made) /\ w <= made' =>
              owner'[w] = r /\ w = worker'[r] /\ gate'.thread[w] \in {"made", "runs"}
    BY RuntimeStep
  <1>2. \A w \in ToSet(gate.queue) : w \in Workers /\ w <= made /\ owner[w] \in Runtimes /\ worker[owner[w]] = w
    <2>1. \A w \in ToSet(gate.queue) : w \in Workers /\ gate.ticket[w] = "queued"
      BY InQueue DEF Inv, GateInv, Ordered, Gates
    <2> QED
      BY <2>1 DEF Inv, GateInv, OwnerInv, WantedInv
  <1>3. ASSUME NEW w \in Workers, w <= made', owner'[w] \in Lanes
        PROVE  /\ gate'.thread[w] # "deleted"
               /\ ~ closed'[owner'[w]] /\ isRunning(gate', w) => worker'[owner'[w]] = w
    <2>1. CASE ~ (w <= made)
      BY <1>1, <1>3, <2>1
    <2>2. CASE w <= made
      <3>1. owner'[w] = owner[w] /\ owner[w] \in Lanes /\ owner[w] \in Runtimes
        BY <1>1, <1>3, <2>2, LaneAssumption
      <3>2. gate.thread[w] # "deleted" /\ (~ closed[owner[w]] /\ isRunning(gate,
      w) => worker[owner[w]] = w)
        BY <3>1, <2>2 DEF Inv, LaneWorkers
      <3>3. CASE gate'.thread[w] = gate.thread[w]
        <4>1. CASE owner[w] # r
          BY <4>1, <3>1, <3>2, <3>3, <1>1 DEF isRunning
        <4>2. CASE owner[w] = r
          <5>1. ~ closed[r] /\ ~ is_running(r) => ~ isRunning(gate, w)
            BY <3>2, <4>2 DEF is_running, NoWorker, Workers
          <5> QED
            BY <5>1, <4>2, <3>1, <3>2, <3>3 DEF isRunning
        <4> QED
          BY <4>1, <4>2
      <3>4. CASE gate'.thread[w] = "gone"
        BY <3>4 DEF isRunning
      <3>5. CASE owner[w] # r /\ w \in ToSet(gate.queue) /\ gate'.thread[w] = "runs"
        BY <3>1, <3>5, <1>1, <1>2
      <3> QED
        BY <3>3, <3>4, <3>5, <2>2, <1>1 DEF Shifted
    <2> QED
      BY <2>1, <2>2
  <1>4. LaneWorkers'
    BY <1>3 DEF LaneWorkers
  <1>5. ASSUME NEW w \in Workers, owner'[w] \in Lanes, closed'[owner'[w]], isRunning(gate', w)
        PROVE  isRunning(gate, w) /\ owner'[w] = owner[w]
    <2>1. w <= made'
      BY <1>1, <1>5 DEF GateInv, OwnerInv, isRunning
    <2>2. CASE ~ (w <= made)
      <3>1. owner'[w] = r /\ worker'[r] # NoWorker
        BY <1>1, <2>1, <2>2 DEF NoWorker, Workers
      <3>2. start_worker(r)
        <4>1. cancel(r) \/ stop(r) => worker'[r] = NoWorker
          BY CancelWorks, StopWorks DEF Inv, GateInv, GateTypeOK
        <4> QED
          BY <3>1, <4>1
      <3>3. made' = made + 1
        BY <3>2 DEF start_worker
      <3>4. ~ (cancel(r) \/ stop(r))
        <4>1. cancel(r) \/ stop(r) => made' = made
          BY DEF cancel, stop
        <4>2. made \in Nat
          BY DEF Inv, GateInv, GateTypeOK
        <4> QED
          BY <4>1, <4>2, <3>3
      <3> QED
        BY <3>1, <3>4, <1>5
    <2>3. CASE w <= made
      <3>1. owner'[w] = owner[w] /\ owner[w] \in Runtimes
        BY <1>1, <1>5, <2>3, LaneAssumption
      <3>2. ~ (owner[w] # r /\ w \in ToSet(gate.queue))
        <4>1. SUFFICES ASSUME owner[w] # r, w \in ToSet(gate.queue) PROVE FALSE
          OBVIOUS
        <4>2. closed[owner[w]] /\ worker[owner[w]] = w
          BY <4>1, <3>1, <1>2, <1>5
        <4> QED
          BY <4>2, <3>1, <1>5 DEF Inv, LaneInv, NoWorker, Workers
      <3> QED
        BY <3>1, <3>2, <2>3, <1>1, <1>5 DEF Shifted, isRunning
    <2> QED
      BY <2>2, <2>3
  <1>6. OneAtATime'
    <2>1. ASSUME NEW v \in Workers, NEW w \in Workers, v # w, owner'[v] = owner'[w],
    owner'[v] \in Lanes,
                 isRunning(gate', v), isRunning(gate', w)
          PROVE  FALSE
      <3>1. v <= made' /\ w <= made'
        BY <1>1, <2>1 DEF GateInv, OwnerInv, isRunning
      <3>2. CASE closed'[owner'[v]]
        BY <1>5, <2>1, <3>2 DEF Inv, OneAtATime
      <3>3. CASE ~ closed'[owner'[v]]
        BY <1>3, <2>1, <3>1, <3>3
      <3> QED
        BY <3>2, <3>3
    <2> QED
      BY <2>1 DEF OneAtATime
  <1> QED
    BY <1>4, <1>6

\* Threads that go on, and slots that are looked through.
LEMMA ThreadLane ==
    ASSUME Inv, GateInv', UNCHANGED <<owner, made, closed>>,
           \A w \in Workers : w <= made =>
               /\ isRunning(gate', w) => isRunning(gate, w) \/ w \in ToSet(gate.queue)
               /\ owner[w] \in Lanes => gate'.thread[w] # "deleted",
           \A l \in Lanes :
               \/ worker'[l] = worker[l]
               \/ worker'[l] = NoWorker /\ gate.thread[worker[l]] = "ended"
    PROVE  LaneWorkers' /\ OneAtATime'
  <1>1. \A w \in ToSet(gate.queue) : w \in Workers /\ w <= made /\ worker[owner[w]] = w
                                     /\ gate.thread[w] # "ended"
    <2>1. \A w \in ToSet(gate.queue) : w \in Workers /\ gate.ticket[w] = "queued" /\ gate.thread[w] # "ended"
      BY InQueue DEF Inv, GateInv, Ordered, Gates
    <2> QED
      BY <2>1 DEF Inv, GateInv, OwnerInv, WantedInv
  <1>2. ASSUME NEW w \in Workers, w <= made, owner[w] \in Lanes, ~ closed[owner[w]], isRunning(gate', w)
        PROVE  worker'[owner[w]] = w
    <2>1. isRunning(gate, w) \/ w \in ToSet(gate.queue)
      BY <1>2
    <2>2. worker[owner[w]] = w /\ gate.thread[w] # "ended"
      BY <1>1, <1>2, <2>1 DEF Inv, LaneWorkers, isRunning
    <2> QED
      BY <1>2, <2>2
  <1>3. LaneWorkers'
    BY <1>2 DEF LaneWorkers
  <1>4. ASSUME NEW w \in Workers, owner[w] \in Lanes, isRunning(gate', w)
        PROVE  w <= made /\ (closed[owner[w]] => isRunning(gate, w))
    <2>1. w <= made
      BY <1>4 DEF GateInv, OwnerInv, isRunning
    <2>2. closed[owner[w]] => w \notin ToSet(gate.queue)
      BY <1>1, <1>4 DEF Inv, LaneInv, NoWorker, Workers
    <2> QED
      BY <1>4, <2>1, <2>2
  <1>5. OneAtATime'
    <2>1. ASSUME NEW v \in Workers, NEW w \in Workers, v # w, owner[v] = owner[w], owner[v] \in Lanes,
                 isRunning(gate', v), isRunning(gate', w)
          PROVE  FALSE
      <3>1. CASE closed[owner[v]]
        BY <1>4, <2>1, <3>1 DEF Inv, OneAtATime
      <3>2. CASE ~ closed[owner[v]]
        BY <1>2, <1>4, <2>1, <3>2
      <3> QED
        BY <3>1, <3>2
    <2> QED
      BY <2>1 DEF OneAtATime
  <1> QED
    BY <1>3, <1>5

-----------------------------------------------------------------------------
(* The steps of the lanes *)

\* Everything a page without a lane and the timers do leaves the lanes.
LEMMA LaneRest ==
    ASSUME Inv, GateInv', LaneWorkers', OneAtATime', UNCHANGED laneVars,
           made <= made', \A w \in Workers : w <= made => owner'[w] = owner[w],
           \A l \in Lanes : worker'[l] = worker[l]
    PROVE  Inv'
  <1>1. LaneTypeInv'
    BY DEF Inv, LaneTypeInv, laneVars
  <1>2. \A w \in posted : w \in Workers /\ w <= made' /\ owner'[w] \in Lanes
    BY DEF Inv, LaneTypeInv, LaneInv, GateInv, GateTypeOK, Workers
  <1>3. LaneInv'
    BY <1>2 DEF Inv, LaneInv, laneVars, has_pending
  <1> QED
    BY <1>1, <1>3 DEF Inv

LEMMA PagesKeep ==
    ASSUME Inv, Pages
    PROVE  Inv'
  <1>1. PICK r \in Runtimes \ Lanes : /\ start_worker(r) \/ cancel(r) \/ stop(r)
                                      /\ UNCHANGED laneVars
    BY DEF Pages
  <1>2. /\ GateInv' /\ made <= made'
        /\ \A x \in Runtimes : x # r => worker'[x] = worker[x]
        /\ \A w \in Workers : w <= made => owner'[w] = owner[w]
    BY <1>1, RuntimeStep
  <1>3. \A l \in Lanes : l \in Runtimes /\ l # r
    BY <1>1, LaneAssumption
  <1>4. LaneWorkers' /\ OneAtATime'
    BY <1>1, <1>3, RuntimeLane DEF laneVars
  <1> QED
    BY <1>1, <1>2, <1>3, <1>4, LaneRest

LEMMA VanishesKeeps ==
    ASSUME Inv, Vanishes
    PROVE  Inv'
  <1>1. PICK w \in Workers : owner[w] \notin Lanes /\ PageDeleted(w) /\ UNCHANGED laneVars
    BY DEF Vanishes
  <1>2. /\ GateInv' /\ UNCHANGED <<owner, made>> /\ gate'.thread[w] = "deleted"
        /\ \A v \in Workers : v # w => gate'.thread[v] = gate.thread[v]
    BY <1>1, ThreadWorks DEF Inv
  <1>3. UNCHANGED worker
    BY <1>1 DEF PageDeleted
  <1>4. LaneWorkers' /\ OneAtATime'
    <2>1. UNCHANGED <<owner, made, closed>>
      BY <1>1, <1>2 DEF laneVars
    <2>2. \A v \in Workers : v <= made =>
             /\ isRunning(gate', v) => isRunning(gate, v) \/ v \in ToSet(gate.queue)
             /\ owner[v] \in Lanes => gate'.thread[v] # "deleted"
      BY <1>1, <1>2 DEF Inv, LaneWorkers, isRunning
    <2> QED
      BY <1>2, <1>3, <2>1, <2>2, ThreadLane
  <1>5. made <= made'
    BY <1>2 DEF Inv, GateInv, GateTypeOK
  <1> QED
    BY <1>1, <1>2, <1>3, <1>4, <1>5, LaneRest

LEMMA TimeKeeps ==
    ASSUME Inv, Time
    PROVE  Inv'
  <1>1. /\ GateInv' /\ UNCHANGED <<worker, owner, made>> /\ UNCHANGED laneVars
        /\ \A w \in Workers : w <= made /\ gate'.thread[w] # gate.thread[w] =>
              w \in ToSet(gate.queue) /\ gate.thread[w] = "made" /\ gate'.thread[w] = "runs"
    BY TimerWorks DEF Time, Inv
  <1>2. UNCHANGED <<owner, made, closed>>
    BY <1>1 DEF laneVars
  <1>3. \A v \in Workers : v <= made =>
           /\ isRunning(gate', v) => isRunning(gate, v) \/ v \in ToSet(gate.queue)
           /\ owner[v] \in Lanes => gate'.thread[v] # "deleted"
    BY <1>1 DEF Inv, LaneWorkers, isRunning
  <1>4. LaneWorkers' /\ OneAtATime'
    BY <1>1, <1>2, <1>3, ThreadLane
  <1>5. made <= made'
    BY <1>1 DEF Inv, GateInv, GateTypeOK
  <1> QED
    BY <1>1, <1>4, <1>5, LaneRest

LEMMA ReleaseKeeps ==
    ASSUME Inv, NEW w0 \in Workers, release_ticket(w0), UNCHANGED laneVars
    PROVE  Inv'
  <1>1. /\ GateInv' /\ UNCHANGED <<worker, owner, made>>
        /\ gate'.thread[w0] = "gone"
        /\ \A w \in Workers : w # w0 =>
              \/ gate'.thread[w] = gate.thread[w]
              \/ w \in ToSet(gate.queue) /\ gate.thread[w] = "made" /\ gate'.thread[w] = "runs"
    BY ReleaseWorks DEF Inv
  <1>2. UNCHANGED <<owner, made, closed>>
    BY <1>1 DEF laneVars
  <1>3. \A v \in Workers : v <= made =>
           /\ isRunning(gate', v) => isRunning(gate, v) \/ v \in ToSet(gate.queue)
           /\ owner[v] \in Lanes => gate'.thread[v] # "deleted"
    BY <1>1 DEF Inv, LaneWorkers, isRunning
  <1>4. LaneWorkers' /\ OneAtATime'
    BY <1>1, <1>2, <1>3, ThreadLane
  <1>5. made <= made'
    BY <1>1 DEF Inv, GateInv, GateTypeOK
  <1> QED
    BY <1>1, <1>4, <1>5, LaneRest

\* The end of a worker.
LEMMA EndsKeeps ==
    ASSUME Inv, NEW w \in Workers, Ends(w), UNCHANGED laneVars
    PROVE  Inv'
  <1>1. /\ GateInv' /\ UNCHANGED <<owner, made>> /\ gate'.thread[w] = "ended"
        /\ \A v \in Workers : v # w => gate'.thread[v] = gate.thread[v]
    BY ThreadWorks DEF Inv
  <1>2. UNCHANGED worker /\ UNCHANGED <<owner, made, closed>>
    BY <1>1 DEF Ends, laneVars
  <1>3. \A v \in Workers : v <= made =>
           /\ isRunning(gate', v) => isRunning(gate, v) \/ v \in ToSet(gate.queue)
           /\ owner[v] \in Lanes => gate'.thread[v] # "deleted"
    BY <1>1 DEF Inv, LaneWorkers, isRunning
  <1>4. LaneWorkers' /\ OneAtATime'
    BY <1>1, <1>2, <1>3, ThreadLane
  <1>5. made <= made'
    BY <1>1 DEF Inv, GateInv, GateTypeOK
  <1> QED
    BY <1>1, <1>2, <1>4, <1>5, LaneRest

LEMMA EmitsKeeps ==
    ASSUME Inv, NEW w \in Workers, emits(w)
    PROVE  Inv'
  <1>1. /\ owner[w] \in Lanes /\ Emits(w) /\ posted' = posted \cup {w}
        /\ UNCHANGED <<pending, start_scheduled, closed, payload, requests, newest, answered>>
    BY DEF emits
  <1>2. /\ GateInv' /\ UNCHANGED <<owner, made>> /\ gate'.thread[w] = "emits" /\ w <= made
        /\ \A v \in Workers : v # w => gate'.thread[v] = gate.thread[v]
    BY <1>1, ThreadWorks DEF Inv
  <1>3. UNCHANGED worker /\ UNCHANGED <<owner, made, closed>> /\ gate.thread[w] = "runs"
    BY <1>1, <1>2 DEF Emits
  <1>4. \A v \in Workers : v <= made =>
           /\ isRunning(gate', v) => isRunning(gate, v) \/ v \in ToSet(gate.queue)
           /\ owner[v] \in Lanes => gate'.thread[v] # "deleted"
    BY <1>2, <1>3 DEF Inv, LaneWorkers, isRunning
  <1>5. LaneWorkers' /\ OneAtATime'
    BY <1>2, <1>3, <1>4, ThreadLane
  <1>6. LaneTypeInv'
    BY <1>1 DEF Inv, LaneTypeInv
  <1>7. LaneInv'
    BY <1>1, <1>2, <1>3 DEF Inv, LaneInv, has_pending
  <1> QED
    BY <1>2, <1>5, <1>6, <1>7 DEF Inv

LEMMA ResultKeeps ==
    ASSUME Inv, NEW w \in Workers, handle_result(w)
    PROVE  Inv'
  <1>1. /\ w \in posted /\ posted' = posted \ {w}
        /\ answered' = IF is_fresh(w) THEN [answered EXCEPT ![owner[w]] = payload[owner[w]]] ELSE answered
        /\ UNCHANGED <<gate, old, worker, owner, made, pending, start_scheduled, closed, payload,
                       requests, newest>>
    BY DEF handle_result, gateVars
  <1>2. owner[w] \in Lanes
    BY <1>1 DEF Inv, LaneInv
  <1>3. LaneTypeInv'
    <2>1. payload[owner[w]] \in Requests \cup {EMPTY}
      BY <1>2 DEF Inv, LaneTypeInv
    <2>2. answered' \in [Lanes -> Requests \cup {EMPTY}]
      BY <1>1, <1>2, <2>1 DEF Inv, LaneTypeInv
    <2> QED
      BY <1>1, <2>2 DEF Inv, LaneTypeInv
  <1>4. LaneInv'
    BY <1>1 DEF Inv, LaneInv, has_pending
  <1>5. GateInv' /\ LaneWorkers' /\ OneAtATime'
    BY <1>1 DEF Inv, GateInv, GateTypeOK, OwnerInv, WantedInv, LaneWorkers, OneAtATime
  <1> QED
    BY <1>3, <1>4, <1>5 DEF Inv

LEMMA FinishedKeeps ==
    ASSUME Inv, NEW w \in Workers, handle_finished(w)
    PROVE  Inv'
  <1>1. /\ finish_worker(w)
        /\ start_scheduled' =
              [l \in Lanes |-> \/ start_scheduled[l]
                               \/ l = owner[w] /\ worker[l] = w /\ ~ closed[l] /\ has_pending(l)]
        /\ UNCHANGED <<pending, closed, payload, posted, requests, newest, answered>>
    BY DEF handle_finished
  <1>2. /\ GateInv' /\ UNCHANGED <<owner, made>> /\ gate'.thread[w] = "told"
        /\ w <= made /\ owner[w] \in Runtimes
        /\ \A v \in Workers : v # w => gate'.thread[v] = gate.thread[v]
    BY <1>1, ThreadWorks DEF Inv
  <1>3. /\ gate.thread[w] = "ended"
        /\ worker' = IF worker[owner[w]] = w THEN [worker EXCEPT ![owner[w]] = NoWorker] ELSE worker
        /\ worker \in [Runtimes -> Workers \cup {NoWorker}]
    BY <1>1 DEF finish_worker, Inv, GateInv, GateTypeOK
  <1>4. \A l \in Lanes : l \in Runtimes
    BY LaneAssumption
  <1>5. \A l \in Lanes : \/ worker'[l] = worker[l] /\ ~ (l = owner[w] /\ worker[l] = w)
                         \/ l = owner[w] /\ worker[l] = w /\ worker'[l] = NoWorker
    BY <1>2, <1>3, <1>4 DEF NoWorker, Workers
  <1>6. \A v \in Workers : v <= made =>
           /\ isRunning(gate', v) => isRunning(gate, v) \/ v \in ToSet(gate.queue)
           /\ owner[v] \in Lanes => gate'.thread[v] # "deleted"
    BY <1>2 DEF Inv, LaneWorkers, isRunning
  <1>7. LaneWorkers' /\ OneAtATime'
    <2>1. \A l \in Lanes : \/ worker'[l] = worker[l]
                           \/ worker'[l] = NoWorker /\ gate.thread[worker[l]] = "ended"
      BY <1>3, <1>5
    <2>2. UNCHANGED <<owner, made, closed>>
      BY <1>1, <1>2
    <2> QED
      BY <1>2, <1>6, <2>1, <2>2, ThreadLane
  <1>8. LaneTypeInv'
    <2>1. start_scheduled' \in [Lanes -> BOOLEAN]
      BY <1>1 DEF Inv, LaneTypeInv
    <2> QED
      BY <1>1, <2>1 DEF Inv, LaneTypeInv
  <1>9. LaneInv'
    <2>1. \A l \in Lanes :
             /\ closed[l] => worker'[l] = NoWorker /\ ~ start_scheduled'[l] /\ ~ has_pending(l)
             /\ start_scheduled'[l] => worker'[l] = NoWorker /\ has_pending(l)
      BY <1>1, <1>5 DEF Inv, LaneInv
    <2> QED
      BY <1>1, <1>2, <2>1 DEF Inv, LaneInv, has_pending
  <1> QED
    BY <1>2, <1>7, <1>8, <1>9 DEF Inv

\* The lane's own start of a worker for request p, which leaves nothing of it
\* scheduled.
LEMMA StartKeeps ==
    ASSUME Inv, NEW l \in Lanes, NEW p \in Requests \cup {EMPTY},
           start_worker(l), payload' = [payload EXCEPT ![l] = p], ~ closed[l], ~ is_running(l),
           UNCHANGED <<closed, posted, answered>>, requests' \in 0..MaxRequests,
           newest' \in [Lanes -> Requests \cup {EMPTY}],
           \/ UNCHANGED pending
           \/ pending' = [pending EXCEPT ![l] = EMPTY],
           start_scheduled' = [start_scheduled EXCEPT ![l] = FALSE]
    PROVE  Inv'
  <1>1. l \in Runtimes
    BY LaneAssumption
  <1>2. /\ GateInv' /\ made <= made'
        /\ \A x \in Runtimes : x # l => worker'[x] = worker[x]
        /\ \A w \in Workers : w <= made => owner'[w] = owner[w]
    BY <1>1, RuntimeStep
  <1>3. LaneWorkers' /\ OneAtATime'
    BY <1>1, RuntimeLane
  <1>4. LaneTypeInv'
    BY DEF Inv, LaneTypeInv
  <1>5. LaneInv'
    <2>1. \A k \in Lanes :
             /\ closed'[k] => worker'[k] = NoWorker /\ ~ start_scheduled'[k] /\ ~ has_pending(k)'
             /\ start_scheduled'[k] => worker'[k] = NoWorker /\ has_pending(k)'
      <3>1. ASSUME NEW k \in Lanes
            PROVE  /\ closed'[k] => worker'[k] = NoWorker /\ ~ start_scheduled'[k] /\ ~ has_pending(k)'
                   /\ start_scheduled'[k] => worker'[k] = NoWorker /\ has_pending(k)'
        <4>1. CASE k = l
          BY <4>1 DEF Inv, LaneTypeInv
        <4>2. CASE k # l
          <5>1. worker'[k] = worker[k] /\ start_scheduled'[k] = start_scheduled[k]
                                       /\ pending'[k] = pending[k]
            BY <4>2, <1>2, LaneAssumption DEF Inv, LaneTypeInv
          <5> QED
            BY <5>1 DEF Inv, LaneInv, has_pending
        <4> QED
          BY <4>1, <4>2
      <3> QED
        BY <3>1
    <2>2. \A w \in posted : w \in Workers /\ w <= made' /\ owner'[w] \in Lanes
      BY <1>2 DEF Inv, LaneTypeInv, LaneInv, GateInv, GateTypeOK, Workers
    <2> QED
      BY <2>1, <2>2 DEF LaneInv
  <1> QED
    BY <1>2, <1>3, <1>4, <1>5 DEF Inv

LEMMA RequestKeeps ==
    ASSUME Inv, NEW l \in Lanes, request(l)
    PROVE  Inv'
  <1>1. /\ ~ closed[l] /\ requests < MaxRequests /\ requests' = requests + 1
        /\ newest' = [newest EXCEPT ![l] = requests']
        /\ UNCHANGED <<start_scheduled, closed, posted, answered>>
    BY DEF request
  <1>2. /\ requests' \in Requests /\ requests' \in 0..MaxRequests
        /\ newest' \in [Lanes -> Requests \cup {EMPTY}]
    <2>1. requests \in 0..MaxRequests /\ MaxRequests \in Nat
      BY LaneAssumption, GateAssumption DEF Inv, LaneTypeInv
    <2>2. requests' \in Requests /\ requests' \in 0..MaxRequests
      BY <1>1, <2>1 DEF Requests
    <2> QED
      BY <1>1, <2>2 DEF Inv, LaneTypeInv
  <1>3. CASE /\ is_busy(l)
             /\ pending' = [pending EXCEPT ![l] = requests']
             /\ UNCHANGED <<gateVars, payload>>
    <2>1. UNCHANGED <<gate, old, worker, owner, made>>
      BY <1>3 DEF gateVars
    <2>2. GateInv' /\ LaneWorkers' /\ OneAtATime'
      BY <1>1, <2>1 DEF Inv, GateInv, GateTypeOK, OwnerInv, WantedInv, LaneWorkers, OneAtATime
    <2>3. LaneTypeInv'
      BY <1>1, <1>2, <1>3 DEF Inv, LaneTypeInv
    <2>4. \A k \in Lanes : has_pending(k)' <=> (k = l \/ has_pending(k))
      BY <1>2, <1>3 DEF Inv, LaneTypeInv, has_pending, Requests, EMPTY
    <2>5. LaneInv'
      BY <1>1, <1>3, <2>1, <2>4 DEF Inv, LaneInv
    <2> QED
      BY <2>2, <2>3, <2>5 DEF Inv
  <1>4. CASE ~ is_busy(l) /\ start(l, requests') /\ UNCHANGED pending
    <2>1. ~ start_scheduled[l] /\ ~ is_running(l)
      BY <1>4 DEF is_busy
    <2>2. start_scheduled' = [start_scheduled EXCEPT ![l] = FALSE]
      BY <1>1, <2>1 DEF Inv, LaneTypeInv
    <2>3. start_worker(l) /\ payload' = [payload EXCEPT ![l] = requests']
      BY <1>4 DEF start
    <2>4. UNCHANGED <<closed, posted, answered>>
      BY <1>1
    <2> QED
      BY <1>1, <1>2, <1>4, <2>1, <2>2, <2>3, <2>4, StartKeeps
  <1> QED
    BY <1>3, <1>4 DEF request

\* A lane with something scheduled has no worker, so nothing of it waits.
LEMMA ScheduledIsIdle ==
    ASSUME Inv, NEW l \in Lanes, start_scheduled[l]
    PROVE  ~ closed[l] /\ has_pending(l) /\ worker[l] = NoWorker /\ ~ is_running(l)
  <1>1. ~ closed[l] /\ has_pending(l) /\ worker[l] = NoWorker /\ l \in Runtimes
    BY LaneAssumption DEF Inv, LaneInv
  <1>2. ~ is_queued(l)
    <2>1. SUFFICES ASSUME is_queued(l) PROVE FALSE
      OBVIOUS
    <2>2. gate.held[l] \in Workers /\ gate.ticket[gate.held[l]] = "queued" /\ owner[gate.held[l]] = l
      BY <1>1, <2>1 DEF is_queued, Inv, GateInv, GateTypeOK, OwnerInv
    <2>3. worker[l] = gate.held[l]
      BY <2>2 DEF Inv, GateInv, Ordered, WantedInv
    <2> QED
      BY <1>1, <2>2, <2>3 DEF NoWorker, Workers
  <1> QED
    BY <1>1, <1>2 DEF is_running

LEMMA RunPendingKeeps ==
    ASSUME Inv, NEW l \in Lanes, run_pending(l)
    PROVE  Inv'
  <1>1. /\ start_scheduled[l]
        /\ start_scheduled' = [start_scheduled EXCEPT ![l] = FALSE]
        /\ pending' = [pending EXCEPT ![l] = EMPTY]
        /\ UNCHANGED <<closed, posted, requests, newest, answered>>
    BY DEF run_pending
  <1>2. ~ closed[l] /\ has_pending(l) /\ ~ is_running(l)
    BY <1>1, ScheduledIsIdle
  <1>3. start_worker(l) /\ payload' = [payload EXCEPT ![l] = pending[l]]
    BY <1>2 DEF run_pending, start
  <1>4. /\ pending[l] \in Requests \cup {EMPTY} /\ requests' \in 0..MaxRequests
        /\ newest' \in [Lanes -> Requests \cup {EMPTY}]
    BY <1>1 DEF Inv, LaneTypeInv
  <1>5. UNCHANGED <<closed, posted, answered>>
    BY <1>1
  <1> QED
    BY <1>1, <1>2, <1>3, <1>4, <1>5, StartKeeps

LEMMA CloseKeeps ==
    ASSUME Inv, NEW l \in Lanes, close(l)
    PROVE  Inv'
  <1>1. /\ closed' = [closed EXCEPT ![l] = TRUE]
        /\ payload' = [payload EXCEPT ![l] = EMPTY]
        /\ pending' = [pending EXCEPT ![l] = EMPTY]
        /\ start_scheduled' = [start_scheduled EXCEPT ![l] = FALSE]
        /\ cancel(l)
        /\ UNCHANGED <<posted, requests, newest, answered>>
    BY DEF close
  <1>2. l \in Runtimes
    BY LaneAssumption
  <1>3. /\ GateInv' /\ worker' = [worker EXCEPT ![l] = NoWorker] /\ UNCHANGED <<owner, made>>
    BY <1>1, <1>2, CancelWorks DEF Inv
  <1>4. closed'[l] /\ \A k \in Lanes : k # l => closed'[k] = closed[k]
    BY <1>1 DEF Inv, LaneTypeInv
  <1>5. LaneWorkers' /\ OneAtATime'
    BY <1>1, <1>2, <1>4, RuntimeLane
  <1>6. LaneTypeInv'
    BY <1>1 DEF Inv, LaneTypeInv
  <1>7. LaneInv'
    <2>1. ASSUME NEW k \in Lanes
          PROVE  /\ closed'[k] => worker'[k] = NoWorker /\ ~ start_scheduled'[k] /\ ~ has_pending(k)'
                 /\ start_scheduled'[k] => worker'[k] = NoWorker /\ has_pending(k)'
      <3>1. CASE k = l
        BY <3>1, <1>1, <1>2, <1>3 DEF Inv, LaneTypeInv, has_pending, GateInv, GateTypeOK
      <3>2. CASE k # l
        <4>1. /\ worker'[k] = worker[k] /\ start_scheduled'[k] = start_scheduled[k]
              /\ pending'[k] = pending[k] /\ closed'[k] = closed[k]
          BY <3>2, <1>1, <1>3, <1>4, LaneAssumption DEF Inv, LaneTypeInv, GateInv, GateTypeOK
        <4> QED
          BY <4>1 DEF Inv, LaneInv, has_pending
      <3> QED
        BY <3>1, <3>2
    <2>2. \A w \in posted : w <= made' /\ owner'[w] \in Lanes
      BY <1>3 DEF Inv, LaneInv
    <2> QED
      BY <1>1, <2>1, <2>2 DEF LaneInv
  <1> QED
    BY <1>3, <1>5, <1>6, <1>7 DEF Inv

-----------------------------------------------------------------------------
(* The invariant *)

LEMMA InvInit ==
    ASSUME Init
    PROVE  Inv
  <1>1. /\ gate = [ticket |-> [w \in Workers |-> "new"], thread |-> [w \in Workers |-> "none"],
                   queue |-> <<>>, timer |-> "off", held |-> [r \in Runtimes |-> NoWorker]]
        /\ old = {} /\ worker = [r \in Runtimes |-> NoWorker]
        /\ owner = [w \in Workers |-> NoWorker] /\ made = 0
    BY DEF Init, GateInit
  <1>2. 0 \in 0..MaxWorkers /\ \A w \in Workers : ~ (w <= 0)
    BY GateAssumption DEF Workers
  <1>3. <<>> \in Seq(Workers) /\ Len(<<>>) = 0
    BY EmptySeq
  <1>4. gate \in Gates
    BY <1>1, <1>3 DEF Gates, Tickets, Threads
  <1>5. ToSet(gate.queue) = {}
    <2>1. gate.queue = <<>> /\ gate.queue \in Seq(Workers) /\ 1..Len(gate.queue) = {}
      BY <1>1, <1>3
    <2> QED
      BY <2>1, InQueue
  <1>6. Ordered(gate)
    <2>1. active(gate) = {}
      BY <1>1 DEF active
    <2>2. Cardinality(active(gate)) <= Limit
      BY <2>1, FS_EmptySet, GateAssumption
    <2>3. Distinct(gate.queue)
      BY <1>1, <1>3 DEF Distinct
    <2> QED
      BY <1>1, <1>4, <1>5, <2>2, <2>3 DEF Ordered
  <1>7. GateTypeOK
    BY <1>1, <1>2, <1>4 DEF GateTypeOK, Gates
  <1>8. OwnerInv
    BY <1>1, <1>2 DEF OwnerInv
  <1>9. WantedInv
    BY <1>5 DEF WantedInv
  <1>10. LaneTypeInv
    BY LaneAssumption, GateAssumption DEF Init, LaneTypeInv
  <1>11. LaneInv /\ LaneWorkers /\ OneAtATime
    BY <1>1, <1>2, LaneAssumption DEF Init, LaneInv, LaneWorkers, OneAtATime, has_pending, isRunning
  <1> QED
    BY <1>6, <1>7, <1>8, <1>9, <1>10, <1>11 DEF Inv, GateInv

LEMMA Stutter ==
    ASSUME Inv, UNCHANGED vars
    PROVE  Inv'
  <1>1. UNCHANGED <<gate, old, worker, owner, made>> /\ UNCHANGED laneVars
    BY DEF vars, gateVars
  <1>2. GateInv' /\ LaneWorkers' /\ OneAtATime'
    BY <1>1 DEF laneVars, Inv, GateInv, GateTypeOK, OwnerInv, WantedInv, LaneWorkers, OneAtATime
  <1>3. made <= made'
    BY <1>1 DEF Inv, GateInv, GateTypeOK
  <1> QED
    BY <1>1, <1>2, <1>3, LaneRest

LEMMA InvKept ==
    ASSUME Inv, [Next]_vars
    PROVE  Inv'
  <1>1. CASE Program
    BY <1>1, TimeKeeps, ResultKeeps, FinishedKeeps, ReleaseKeeps, EmitsKeeps, EndsKeeps, RunPendingKeeps
       DEF Program, Delivered, Job
  <1>2. CASE Pages \/ Vanishes
    BY <1>2, PagesKeep, VanishesKeeps
  <1>3. CASE \E l \in Lanes : request(l) \/ close(l)
    BY <1>3, RequestKeeps, CloseKeeps
  <1>4. CASE \E w \in Workers : PageJob(w)
    BY <1>4, EndsKeeps DEF PageJob
  <1>5. CASE UNCHANGED vars
    BY <1>5, Stutter
  <1> QED
    BY <1>1, <1>2, <1>3, <1>4, <1>5 DEF Next

LEMMA Invariant == Spec => []Inv
  BY InvInit, InvKept, PTL DEF Spec

\* The variables of the gate and of the lanes keep their types.
THEOREM TypeCorrect == Spec => []TypeOK
  <1>1. Inv => TypeOK
    BY DEF Inv, GateInv, LaneTypeInv, TypeOK
  <1> QED
    BY <1>1, Invariant, PTL

\* BackgroundWorkerGate keeps its limit, its queue holds the tickets that wait,
\* and whatever waits is still the worker of its runtime.
THEOREM GateKeepsOrder == Spec => []GateInOrder
  <1>1. Inv => GateInOrder
    BY DEF Inv, GateInv, Ordered, WantedInv, GateInOrder
  <1> QED
    BY <1>1, Invariant, PTL

\* LatestWorkerLane: two workers of a lane never run together, after any
\* requests, dropped and restarted workers, and after the lane was closed.
THEOREM LaneOneAtATime == Spec => []OneAtATime
  <1>1. Inv => OneAtATime
    BY DEF Inv
  <1> QED
    BY <1>1, Invariant, PTL

-----------------------------------------------------------------------------
(* The last request wins *)

\* Where the last request of an open lane is: it is pending and will be
\* started, or the lane's worker has it, or its answer is on its way, or the
\* page was given it.
Owed(l) ==
    /\ has_pending(l) => pending[l] = newest[l] /\ (start_scheduled[l] \/ worker[l] # NoWorker)
    /\ ~ has_pending(l) => payload[l] = newest[l]
    /\ ~ has_pending(l) /\ worker[l] = NoWorker => answered[l] = newest[l]
    /\ worker[l] # NoWorker =>
          /\ gate.thread[worker[l]] \in {"made", "runs", "emits", "ended"}
          /\ ~ has_pending(l) /\ gate.thread[worker[l]] \in {"emits", "ended"} =>
                worker[l] \in posted \/ answered[l] = newest[l]

LastInv == \A l \in Lanes : ~ closed[l] => Owed(l)

\* A step that is none of the lane's own.
LEMMA OwedKept ==
    ASSUME Inv, NEW l \in Lanes, Owed(l), UNCHANGED <<pending[l], payload[l], newest[l], worker[l]>>,
           start_scheduled'[l] = start_scheduled[l],
           worker[l] # NoWorker =>
               \/ gate'.thread[worker[l]] = gate.thread[worker[l]]
               \/ gate'.thread[worker[l]] = "runs"
               \/ gate'.thread[worker[l]] = "emits" /\ worker[l] \in posted'
               \/ gate'.thread[worker[l]] = "ended" /\ gate.thread[worker[l]] = "emits",
           worker[l] # NoWorker /\ worker[l] \in posted => worker[l] \in posted',
           answered'[l] = answered[l]
    PROVE  Owed(l)'
  BY DEF Owed, has_pending

\* What the gate does to a worker of an open lane.
LEMMA LaneWorkerSteps ==
    ASSUME Inv, NEW l \in Lanes, worker[l] # NoWorker
    PROVE  worker[l] \in Workers /\ worker[l] <= made /\ owner[worker[l]] = l /\ l \in Runtimes
  BY LaneAssumption DEF Inv, GateInv, GateTypeOK, OwnerInv

\* A worker is the lane's until its end is handled, so the gate can only have
\* started it.
LEMMA OwedOverGate ==
    ASSUME Inv, LastInv, UNCHANGED laneVars,
           \A l \in Lanes : worker'[l] = worker[l],
           \A l \in Lanes : ~ closed[l] /\ worker[l] # NoWorker =>
               \/ gate'.thread[worker[l]] = gate.thread[worker[l]]
               \/ gate'.thread[worker[l]] = "runs"
               \/ gate'.thread[worker[l]] = "ended" /\ gate.thread[worker[l]] = "emits"
    PROVE  LastInv'
  <1>1. ASSUME NEW l \in Lanes, ~ closed[l]
        PROVE  Owed(l)'
    <2>1. Owed(l)
      BY <1>1 DEF LastInv
    <2> QED
      BY <1>1, <2>1, OwedKept DEF laneVars
  <1> QED
    BY <1>1 DEF LastInv, laneVars

LEMMA PagesOwe ==
    ASSUME Inv, LastInv, Pages
    PROVE  LastInv'
  <1>1. PICK r \in Runtimes \ Lanes : /\ start_worker(r) \/ cancel(r) \/ stop(r)
                                      /\ UNCHANGED laneVars
    BY DEF Pages
  <1>2. Shifted(r) /\ \A x \in Runtimes : x # r => worker'[x] = worker[x]
    BY <1>1, RuntimeStep
  <1>3. \A l \in Lanes : l \in Runtimes /\ l # r
    BY <1>1, LaneAssumption
  <1>4. \A l \in Lanes : worker[l] # NoWorker =>
               \/ gate'.thread[worker[l]] = gate.thread[worker[l]]
               \/ gate'.thread[worker[l]] = "runs"
    BY <1>2, <1>3, LaneWorkerSteps DEF Shifted
  <1> QED
    BY <1>1, <1>2, <1>3, <1>4, OwedOverGate

LEMMA VanishesOwes ==
    ASSUME Inv, LastInv, Vanishes
    PROVE  LastInv'
  <1>1. PICK w \in Workers : owner[w] \notin Lanes /\ PageDeleted(w) /\ UNCHANGED laneVars
    BY DEF Vanishes
  <1>2. /\ \A v \in Workers : v # w => gate'.thread[v] = gate.thread[v]
        /\ UNCHANGED worker
    BY <1>1, ThreadWorks DEF Inv, PageDeleted
  <1>3. \A l \in Lanes : worker[l] # NoWorker => gate'.thread[worker[l]] = gate.thread[worker[l]]
    BY <1>1, <1>2, LaneWorkerSteps
  <1> QED
    BY <1>1, <1>2, <1>3, OwedOverGate

LEMMA TimeOwes ==
    ASSUME Inv, LastInv, Time
    PROVE  LastInv'
  <1>1. /\ UNCHANGED worker /\ UNCHANGED laneVars
        /\ \A w \in Workers : w <= made /\ gate'.thread[w] # gate.thread[w] =>
              w \in ToSet(gate.queue) /\ gate.thread[w] = "made" /\ gate'.thread[w] = "runs"
    BY TimerWorks DEF Time, Inv
  <1>2. \A l \in Lanes : worker[l] # NoWorker =>
               \/ gate'.thread[worker[l]] = gate.thread[worker[l]]
               \/ gate'.thread[worker[l]] = "runs"
    BY <1>1, LaneWorkerSteps
  <1> QED
    BY <1>1, <1>2, OwedOverGate

LEMMA ReleaseOwes ==
    ASSUME Inv, LastInv, NEW w0 \in Workers, release_ticket(w0), UNCHANGED laneVars
    PROVE  LastInv'
  <1>1. /\ UNCHANGED worker /\ gate.thread[w0] = "told"
        /\ \A w \in Workers : w # w0 =>
              \/ gate'.thread[w] = gate.thread[w]
              \/ w \in ToSet(gate.queue) /\ gate.thread[w] = "made" /\ gate'.thread[w] = "runs"
    BY ReleaseWorks DEF Inv
  <1>2. \A l \in Lanes : ~ closed[l] /\ worker[l] # NoWorker => worker[l] # w0
    BY <1>1 DEF LastInv, Owed
  <1>3. \A l \in Lanes : ~ closed[l] /\ worker[l] # NoWorker =>
               \/ gate'.thread[worker[l]] = gate.thread[worker[l]]
               \/ gate'.thread[worker[l]] = "runs"
    BY <1>1, <1>2, LaneWorkerSteps
  <1> QED
    BY <1>1, <1>3, OwedOverGate

\* A worker of a lane ends after its answer, one of another page at any time.
LEMMA EndsOwes ==
    ASSUME Inv, LastInv, NEW w \in Workers, Ends(w), UNCHANGED laneVars,
           owner[w] \in Lanes => gate.thread[w] = "emits"
    PROVE  LastInv'
  <1>1. /\ gate'.thread[w] = "ended" /\ UNCHANGED worker
        /\ \A v \in Workers : v # w => gate'.thread[v] = gate.thread[v]
    BY ThreadWorks DEF Inv, Ends
  <1>2. \A l \in Lanes : worker[l] # NoWorker =>
               \/ gate'.thread[worker[l]] = gate.thread[worker[l]]
               \/ gate'.thread[worker[l]] = "ended" /\ gate.thread[worker[l]] = "emits"
    BY <1>1, LaneWorkerSteps
  <1> QED
    BY <1>1, <1>2, OwedOverGate

LEMMA EmitsOwes ==
    ASSUME Inv, LastInv, NEW w \in Workers, emits(w)
    PROVE  LastInv'
  <1>1. /\ Emits(w) /\ posted' = posted \cup {w} /\ UNCHANGED worker
        /\ UNCHANGED <<pending, start_scheduled, closed, payload, requests, newest, answered>>
    BY DEF emits, Emits
  <1>2. gate'.thread[w] = "emits" /\ \A v \in Workers : v # w => gate'.thread[v] = gate.thread[v]
    BY <1>1, ThreadWorks DEF Inv
  <1>3. ASSUME NEW l \in Lanes, ~ closed[l]
        PROVE  Owed(l)'
    <2>1. Owed(l)
      BY <1>3 DEF LastInv
    <2>2. worker[l] # NoWorker =>
              \/ gate'.thread[worker[l]] = gate.thread[worker[l]]
              \/ gate'.thread[worker[l]] = "emits" /\ worker[l] \in posted'
      BY <1>1, <1>2, LaneWorkerSteps
    <2> QED
      BY <1>1, <2>1, <2>2, OwedKept
  <1> QED
    BY <1>1, <1>3 DEF LastInv

\* A fresh answer is the one to the last request.
LEMMA ResultOwes ==
    ASSUME Inv, LastInv, NEW w \in Workers, handle_result(w)
    PROVE  LastInv'
  <1>1. /\ w \in posted /\ posted' = posted \ {w}
        /\ answered' = IF is_fresh(w) THEN [answered EXCEPT ![owner[w]] = payload[owner[w]]] ELSE answered
        /\ UNCHANGED <<gate, old, worker, owner, made, pending, start_scheduled, closed, payload,
                       requests, newest>>
        /\ answered \in [Lanes -> Requests \cup {EMPTY}]
    BY DEF handle_result, gateVars, Inv, LaneTypeInv
  <1>2. owner[w] \in Lanes
    BY <1>1 DEF Inv, LaneInv
  <1>3. ASSUME NEW l \in Lanes, ~ closed[l]
        PROVE  Owed(l)'
    <2>1. Owed(l)
      BY <1>3 DEF LastInv
    <2>2. CASE l = owner[w] /\ is_fresh(w)
      <3>1. ~ has_pending(l) /\ worker[l] = w /\ answered'[l] = payload[l]
        BY <1>1, <1>2, <2>2 DEF is_fresh
      <3>2. answered'[l] = newest[l]
        BY <2>1, <3>1 DEF Owed
      <3> QED
        BY <1>1, <2>1, <3>2 DEF Owed, has_pending
    <2>3. CASE ~ (l = owner[w] /\ is_fresh(w))
      <3>1. answered'[l] = answered[l]
        BY <1>1, <1>2, <2>3
      <3>2. CASE worker[l] = w
        <4>1. l = owner[w] /\ has_pending(l)
          BY <1>3, <2>3, <3>2, LaneWorkerSteps DEF is_fresh, NoWorker, Workers
        <4> QED
          BY <1>1, <2>1, <4>1 DEF Owed, has_pending
      <3>3. CASE worker[l] # w
        BY <1>1, <2>1, <3>1, <3>3, OwedKept
      <3> QED
        BY <3>2, <3>3
    <2> QED
      BY <2>2, <2>3
  <1> QED
    BY <1>1, <1>3 DEF LastInv

\* The lane's worker has ended and its answer was handled: what is pending is
\* scheduled, and if nothing is, the page has the last answer.
LEMMA FinishedOwes ==
    ASSUME Inv, LastInv, NEW w \in Workers, handle_finished(w)
    PROVE  LastInv'
  <1>1. /\ finish_worker(w) /\ w \notin posted
        /\ start_scheduled' =
              [l \in Lanes |-> \/ start_scheduled[l]
                               \/ l = owner[w] /\ worker[l] = w /\ ~ closed[l] /\ has_pending(l)]
        /\ UNCHANGED <<pending, closed, payload, posted, requests, newest, answered>>
    BY DEF handle_finished
  <1>2. /\ gate.thread[w] = "ended"
        /\ worker' = IF worker[owner[w]] = w THEN [worker EXCEPT ![owner[w]] = NoWorker] ELSE worker
        /\ worker \in [Runtimes -> Workers \cup {NoWorker}]
    BY <1>1 DEF finish_worker, Inv, GateInv, GateTypeOK
  <1>3. \A v \in Workers : v # w => gate'.thread[v] = gate.thread[v]
    BY <1>1, ThreadWorks DEF Inv
  <1>4. ASSUME NEW l \in Lanes, ~ closed[l]
        PROVE  Owed(l)'
    <2>1. Owed(l) /\ l \in Runtimes
      BY <1>4, LaneAssumption DEF LastInv
    <2>2. CASE worker[l] = w
      <3>1. owner[w] = l
        BY <2>2, LaneWorkerSteps DEF NoWorker, Workers
      <3>2. worker'[l] = NoWorker /\ (has_pending(l) => start_scheduled'[l])
        BY <1>1, <1>2, <1>4, <2>1, <2>2, <3>1
      <3>3. ~ has_pending(l) => answered[l] = newest[l]
        BY <1>1, <1>2, <2>1, <2>2 DEF Owed, NoWorker, Workers
      <3> QED
        BY <1>1, <2>1, <3>2, <3>3 DEF Owed, has_pending
    <2>3. CASE worker[l] # w
      <3>1. worker'[l] = worker[l] /\ start_scheduled'[l] = start_scheduled[l]
        BY <1>1, <1>2, <2>1, <2>3 DEF Inv, LaneTypeInv
      <3>2. worker[l] # NoWorker => gate'.thread[worker[l]] = gate.thread[worker[l]]
        BY <1>3, <2>3, LaneWorkerSteps
      <3> QED
        BY <1>1, <2>1, <3>1, <3>2, OwedKept
    <2> QED
      BY <2>2, <2>3
  <1> QED
    BY <1>1, <1>4 DEF LastInv

\* A worker is started for the last request.
LEMMA StartOwes ==
    ASSUME Inv, LastInv, NEW l \in Lanes, NEW p,
           start_worker(l), payload' = [payload EXCEPT ![l] = p], newest'[l] = p, ~ closed[l],
           \A k \in Lanes : k # l => newest'[k] = newest[k] /\ pending'[k] = pending[k]
                                     /\ start_scheduled'[k] = start_scheduled[k],
           pending'[l] = EMPTY, UNCHANGED <<closed, posted, answered>>
    PROVE  LastInv'
  <1>1. l \in Runtimes
    BY LaneAssumption
  <1>2. /\ Shifted(l)
        /\ made' \in Workers /\ made' = made + 1
        /\ worker' = [worker EXCEPT ![l] = made']
        /\ gate'.thread[made'] \in {"made", "runs"}
    BY <1>1, StartWorks DEF Inv
  <1>3. worker'[l] = made' /\ payload'[l] = p
    BY <1>1, <1>2 DEF Inv, GateInv, GateTypeOK, LaneTypeInv
  <1>4. Owed(l)'
    BY <1>2, <1>3 DEF Owed, has_pending, NoWorker, Workers
  <1>5. ASSUME NEW k \in Lanes, k # l, ~ closed[k]
        PROVE  Owed(k)'
    <2>1. Owed(k)
      BY <1>5 DEF LastInv
    <2>2. worker'[k] = worker[k] /\ payload'[k] = payload[k]
      BY <1>2, <1>5, LaneAssumption DEF Inv, GateInv, GateTypeOK, LaneTypeInv
    <2>3. worker[k] # NoWorker => \/ gate'.thread[worker[k]] = gate.thread[worker[k]]
                                  \/ gate'.thread[worker[k]] = "runs"
      BY <1>2, <1>5, LaneWorkerSteps DEF Shifted
    <2> QED
      BY <1>5, <2>1, <2>2, <2>3, OwedKept
  <1> QED
    BY <1>4, <1>5 DEF LastInv

LEMMA RequestOwes ==
    ASSUME "gap" \notin Windows, Inv, LastInv, NEW l \in Lanes, request(l)
    PROVE  LastInv'
  <1>1. /\ ~ closed[l]
        /\ newest' = [newest EXCEPT ![l] = requests'] /\ newest \in [Lanes -> Requests \cup {EMPTY}]
        /\ UNCHANGED <<start_scheduled, closed, posted, answered>>
        /\ pending \in [Lanes -> Requests \cup {EMPTY}]
    BY DEF request, Inv, LaneTypeInv
  <1>2. CASE /\ is_busy(l)
             /\ pending' = [pending EXCEPT ![l] = requests']
             /\ UNCHANGED <<gateVars, payload>>
    <2>1. UNCHANGED <<gate, old, worker, owner, made>>
      BY <1>2 DEF gateVars
    <2>2. start_scheduled[l] \/ worker[l] # NoWorker
      <3>1. CASE start_scheduled[l] \/ worker[l] # NoWorker
        BY <3>1
      <3>2. CASE is_queued(l)
        <4>1. gate.held[l] \in Workers /\ gate.ticket[gate.held[l]] = "queued"
                                       /\ owner[gate.held[l]] = l
          BY <3>2, LaneAssumption DEF is_queued, Inv, GateInv, GateTypeOK, OwnerInv
        <4>2. worker[l] = gate.held[l]
          BY <4>1 DEF Inv, GateInv, Ordered, WantedInv
        <4> QED
          BY <4>1, <4>2 DEF NoWorker, Workers
      <3> QED
        BY <3>1, <3>2, <1>2 DEF is_busy, is_running
    <2>3. ASSUME NEW k \in Lanes, ~ closed[k]
          PROVE  Owed(k)'
      <3>1. Owed(k)
        BY <2>3 DEF LastInv
      <3>2. CASE k = l
        <4>1. has_pending(l)' /\ pending'[l] = newest'[l]
          <5>1. requests' # EMPTY
            BY DEF request, Inv, LaneTypeInv, EMPTY
          <5> QED
            BY <5>1, <1>1, <1>2 DEF has_pending
        <4>2. worker[l] # NoWorker => gate.thread[worker[l]] \in {"made", "runs", "emits", "ended"}
          BY <3>1, <3>2 DEF Owed
        <4> QED
          BY <1>1, <2>1, <2>2, <3>2, <4>1, <4>2 DEF Owed, has_pending
      <3>3. CASE k # l
        <4>1. pending'[k] = pending[k] /\ newest'[k] = newest[k]
          BY <1>1, <1>2, <3>3
        <4> QED
          BY <1>1, <1>2, <2>1, <3>1, <4>1, OwedKept
      <3> QED
        BY <3>2, <3>3
    <2> QED
      BY <1>1, <2>3 DEF LastInv
  <1>3. CASE ~ is_busy(l) /\ ~ has_pending(l) /\ start(l, requests') /\ UNCHANGED pending
    <2>1. start_worker(l) /\ payload' = [payload EXCEPT ![l] = requests']
      BY <1>3 DEF start
    <2>2. newest'[l] = requests' /\ \A k \in Lanes : k # l => newest'[k] = newest[k]
      BY <1>1
    <2>3. pending'[l] = EMPTY
      BY <1>3 DEF has_pending
    <2>4. \A k \in Lanes : k # l => newest'[k] = newest[k] /\ pending'[k] = pending[k]
                                    /\ start_scheduled'[k] = start_scheduled[k]
      BY <1>1, <1>3, <2>2
    <2>5. UNCHANGED <<closed, posted, answered>>
      BY <1>1
    <2> HIDE DEF request
    <2> QED
      BY <1>1, <2>1, <2>2, <2>3, <2>4, <2>5, StartOwes
  <1> QED
    BY <1>2, <1>3 DEF request

LEMMA RunPendingOwes ==
    ASSUME Inv, LastInv, NEW l \in Lanes, run_pending(l)
    PROVE  LastInv'
  <1>1. /\ start_scheduled[l]
        /\ start_scheduled' = [start_scheduled EXCEPT ![l] = FALSE]
        /\ pending' = [pending EXCEPT ![l] = EMPTY]
        /\ UNCHANGED <<closed, posted, requests, newest, answered>>
        /\ pending \in [Lanes -> Requests \cup {EMPTY}]
        /\ start_scheduled \in [Lanes -> BOOLEAN]
    BY DEF run_pending, Inv, LaneTypeInv
  <1>2. ~ closed[l] /\ has_pending(l)
    BY <1>1, ScheduledIsIdle
  <1>3. start_worker(l) /\ payload' = [payload EXCEPT ![l] = pending[l]]
    BY <1>2 DEF run_pending, start
  <1>4. newest'[l] = pending[l]
    BY <1>1, <1>2 DEF LastInv, Owed
  <1>5. /\ pending'[l] = EMPTY
        /\ \A k \in Lanes : k # l => newest'[k] = newest[k] /\ pending'[k] = pending[k]
                                     /\ start_scheduled'[k] = start_scheduled[k]
    BY <1>1
  <1>6. UNCHANGED <<closed, posted, answered>>
    BY <1>1
  <1> QED
    BY <1>2, <1>3, <1>4, <1>5, <1>6, StartOwes

LEMMA CloseOwes ==
    ASSUME Inv, LastInv, NEW l \in Lanes, close(l)
    PROVE  LastInv'
  <1>1. /\ closed' = [closed EXCEPT ![l] = TRUE]
        /\ payload' = [payload EXCEPT ![l] = EMPTY]
        /\ pending' = [pending EXCEPT ![l] = EMPTY]
        /\ start_scheduled' = [start_scheduled EXCEPT ![l] = FALSE]
        /\ cancel(l)
        /\ UNCHANGED <<posted, requests, newest, answered>>
    BY DEF close
  <1>2. Shifted(l) /\ \A k \in Lanes : k # l => worker'[k] = worker[k]
    <2>1. Shifted(l) /\ worker' = [worker EXCEPT ![l] = NoWorker]
      BY <1>1, LaneAssumption, CancelWorks DEF Inv
    <2> QED
      BY <2>1, LaneAssumption DEF Inv, GateInv, GateTypeOK
  <1>3. ASSUME NEW k \in Lanes, ~ closed'[k]
        PROVE  Owed(k)'
    <2>1. k # l /\ ~ closed[k]
      BY <1>1, <1>3 DEF Inv, LaneTypeInv
    <2>2. Owed(k)
      BY <2>1 DEF LastInv
    <2>3. /\ pending'[k] = pending[k] /\ payload'[k] = payload[k]
          /\ start_scheduled'[k] = start_scheduled[k]
      BY <1>1, <2>1 DEF Inv, LaneTypeInv
    <2>4. worker[k] # NoWorker => \/ gate'.thread[worker[k]] = gate.thread[worker[k]]
                                  \/ gate'.thread[worker[k]] = "runs"
      BY <1>2, <2>1, LaneWorkerSteps DEF Shifted
    <2> QED
      BY <1>1, <1>2, <2>1, <2>2, <2>3, <2>4, OwedKept
  <1> QED
    BY <1>3 DEF LastInv

\* LatestWorkerLane: an open lane that has come to rest has given the page the
\* answer to the last request made to it.  No request may come between the end
\* of a thread and the handling of its finished while an older one is pending.
THEOREM LastRequestAlwaysWins ==
    ASSUME "gap" \notin Windows
    PROVE  Spec => []LastRequestWins
  <1>1. Init => LastInv
    <2>1. SUFFICES ASSUME Init PROVE LastInv
      OBVIOUS
    <2>2. \A l \in Lanes : ~ has_pending(l) /\ worker[l] = NoWorker /\ payload[l] = newest[l]
                           /\ answered[l] = newest[l]
      <3>1. \A l \in Lanes : l \in Runtimes
        BY LaneAssumption
      <3>2. /\ worker = [r \in Runtimes |-> NoWorker] /\ pending = [l \in Lanes |-> EMPTY]
            /\ payload = [l \in Lanes |-> EMPTY] /\ newest = [l \in Lanes |-> EMPTY]
            /\ answered = [l \in Lanes |-> EMPTY]
        BY <2>1 DEF Init, GateInit
      <3> QED
        BY <3>1, <3>2 DEF has_pending
    <2> QED
      BY <2>2 DEF LastInv, Owed
  <1>2. ASSUME Inv, LastInv, [Next]_vars PROVE LastInv'
    <2>1. CASE Program
      <3>1. ASSUME NEW w \in Workers, Job(w) PROVE LastInv'
        BY <1>2, <3>1, EmitsOwes, EndsOwes DEF Job
      <3> QED
        BY <1>2, <2>1, <3>1, TimeOwes, ResultOwes, FinishedOwes, ReleaseOwes, RunPendingOwes
           DEF Program, Delivered
    <2>2. CASE Pages \/ Vanishes
      BY <1>2, <2>2, PagesOwe, VanishesOwes
    <2>3. CASE \E l \in Lanes : request(l) \/ close(l)
      BY <1>2, <2>3, RequestOwes, CloseOwes
    <2>4. CASE \E w \in Workers : PageJob(w)
      BY <1>2, <2>4, EndsOwes DEF PageJob
    <2>5. CASE UNCHANGED vars
      <3>1. UNCHANGED <<gate, old, worker, owner, made>> /\ UNCHANGED laneVars
        BY <2>5 DEF vars, gateVars
      <3> QED
        BY <1>2, <3>1, OwedOverGate
    <2> QED
      BY <1>2, <2>1, <2>2, <2>3, <2>4, <2>5 DEF Next
  <1>3. LastInv => LastRequestWins
    BY DEF LastInv, Owed, LastRequestWins, AtRest
  <1> QED
    BY <1>1, <1>2, <1>3, Invariant, PTL DEF Spec
=============================================================================
