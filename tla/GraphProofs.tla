------------------------------ MODULE GraphProofs -----------------------------
(***************************************************************************)
(* Proofs about the graphs of work: the plan of a workflow (PlanBatches),  *)
(* for plans of any size and shape, and the delegation graph of a trace    *)
(* with the views made of it (TraceViews), for any messages, recorded any  *)
(* number of times in any order, and any limit of the query that a graph   *)
(* is rebuilt from.                                                        *)
(*                                                                         *)
(* Plans: what planExecutionBatches() returns are the topological levels   *)
(* of the plan, in order, and what it rejects is a cycle.  The batches so  *)
(* far and the queue that is being filled together are topological levels  *)
(* of the steps released so far at every turn of every loop (Levelled).    *)
(* That a step is released exactly when the last of its entries in         *)
(* children is gone (Released) makes the next step fit in.  No step is     *)
(* visited twice, so that the loops end (TurnsDecrease).                   *)
(*                                                                         *)
(* Traces: a graph says a set of facts (GraphSays) when its nodes and its  *)
(* edges are those of the facts, each once; to apply one more message is   *)
(* to say one more fact, live or from the memory store.  No two edges lead *)
(* to one message (WorkRelation), so that the walks, the topological order *)
(* and the depth, whose turns have invariants of their own (UpInv,         *)
(* DownInv, QueueInv, CallsInv), come to what is above, below, after, and  *)
(* how far.  The search of the agent view (DepthsInv) queues only what a   *)
(* walk of that length reaches, and takes into account whatever an agent   *)
(* hands on that is not queued; a walk with as many links as there are     *)
(* agents comes back to an agent.                                          *)
(***************************************************************************)
EXTENDS PlanBatches, TraceViews, SequenceLemmas

-------------------------------------------------------------------------------
(* Sequences of batches.                                                    *)

\* A batch appended to others changes none of them.
LEMMA Appended ==
  ASSUME NEW D, NEW b \in Seq(Seq(D)), NEW q \in Seq(D)
  PROVE  /\ Append(b, q) \in Seq(Seq(D)) /\ DOMAIN Append(b, q) = 1..Len(b) + 1
         /\ Len(Append(b, q)) = Len(b) + 1
         /\ DOMAIN b = 1..Len(b) /\ Len(b) \in Nat
         /\ \A k \in 1..Len(b) : Append(b, q)[k] = b[k]
         /\ Append(b, q)[Len(b) + 1] = q
         /\ \A k \in 0..Len(b) : InFirst(Append(b, q), k) = InFirst(b, k)
         /\ InFirst(Append(b, q), Len(b) + 1) = InFirst(b, Len(b)) \cup Listed(q)
<1>1. /\ Append(b, q) \in Seq(Seq(D)) /\ DOMAIN Append(b, q) = 1..Len(b) + 1
      /\ Len(Append(b, q)) = Len(b) + 1
      /\ DOMAIN b = 1..Len(b) /\ Len(b) \in Nat
      /\ \A k \in 1..Len(b) : Append(b, q)[k] = b[k]
      /\ Append(b, q)[Len(b) + 1] = q
  BY AppendProperties, LenProperties
<1> DEFINE L == Append(b, q)
<1>2. ASSUME NEW k \in 0..Len(b)
      PROVE  InFirst(L, k) = InFirst(b, k)
  <2>1. \A j \in 1..k : L[j] = b[j]
    BY <1>1
  <2> QED BY <2>1 DEF InFirst
<1>3. InFirst(L, Len(b) + 1) = InFirst(b, Len(b)) \cup Listed(q)
  <2>1. 1..Len(b) + 1 = (1..Len(b)) \cup {Len(b) + 1}
    BY <1>1
  <2>2. \A j \in 1..Len(b) : L[j] = b[j]
    BY <1>1
  <2>3. L[Len(b) + 1] = q
    BY <1>1
  <2> HIDE DEF L
  <2> QED BY <2>1, <2>2, <2>3 DEF InFirst
<1> QED BY <1>1, <1>2, <1>3

\* The elements of a queue that got one more.
LEMMA Pushed ==
  ASSUME NEW D, NEW q \in Seq(D), NEW s \in D
  PROVE  /\ Append(q, s) \in Seq(D) /\ DOMAIN Append(q, s) = 1..Len(q) + 1
         /\ Len(Append(q, s)) = Len(q) + 1 /\ DOMAIN q = 1..Len(q) /\ Len(q) \in Nat
         /\ \A i \in 1..Len(q) : Append(q, s)[i] = q[i]
         /\ Append(q, s)[Len(q) + 1] = s
         /\ Listed(q) \subseteq D
         /\ Listed(Append(q, s)) = Listed(q) \cup {s}
<1>1. /\ Append(q, s) \in Seq(D) /\ DOMAIN Append(q, s) = 1..Len(q) + 1
      /\ Len(Append(q, s)) = Len(q) + 1 /\ DOMAIN q = 1..Len(q) /\ Len(q) \in Nat
      /\ \A i \in 1..Len(q) : Append(q, s)[i] = q[i]
      /\ Append(q, s)[Len(q) + 1] = s
  BY AppendProperties, LenProperties
<1>2. Listed(Append(q, s)) = Listed(q) \cup {s}
  <2>1. 1..Len(q) + 1 = (1..Len(q)) \cup {Len(q) + 1}
    BY <1>1
  <2> DEFINE a == Append(q, s)
  <2>2. DOMAIN a = (DOMAIN q) \cup {Len(q) + 1} /\ a[Len(q) + 1] = s /\ \A i \in DOMAIN q : a[i] = q[i]
    BY <1>1, <2>1
  <2> HIDE DEF a
  <2>3. Listed(a) = Listed(q) \cup {s}
    BY <2>2 DEF Listed
  <2> QED BY <2>3 DEF a
<1>3. Listed(q) \subseteq D
  BY <1>1, ElementOfSeq DEF Listed
<1> QED BY <1>1, <1>2, <1>3

-------------------------------------------------------------------------------
(* What the batches so far keep when the last of them gets one more step.   *)

\* x stands before y in the batch after the batches b.
Before(p, b, x, y) ==
  IF b = <<>> THEN x < y
  ELSE \E i \in LastAmong(p, b[Len(b)], x), j \in LastAmong(p, b[Len(b)], y) :
         i < j \/ (i = j /\ x < y)

Leveled(p, b) == DependenciesEarlier(p, b) /\ NoLaterThanNeeded(p, b) /\ NoStepTwice(b)

LEMMA Widened ==
  ASSUME NEW D, NEW p, NEW b \in Seq(Seq(D)), NEW q \in Seq(D), NEW s \in D,
         Leveled(p, Append(b, q)),
         Deps(p, s) \subseteq InFirst(b, Len(b)),
         b # <<>> => \E d \in Deps(p, s) : d \in Listed(b[Len(b)]),
         s \notin InFirst(Append(b, q), Len(b) + 1)
  PROVE  Leveled(p, Append(b, Append(q, s)))
<1> DEFINE n == Len(b)
           r == Append(q, s)
           L == Append(b, q)
           M == Append(b, r)
<1>1. /\ n \in Nat /\ DOMAIN L = 1..n + 1 /\ DOMAIN M = 1..n + 1
      /\ \A k \in 1..n : M[k] = L[k] /\ L[k] = b[k]
      /\ L[n + 1] = q /\ M[n + 1] = r
      /\ \A k \in 0..n : InFirst(M, k) = InFirst(L, k) /\ InFirst(L, k) = InFirst(b, k)
  <2>1. r \in Seq(D)
    BY Pushed
  <2>2. /\ n \in Nat /\ DOMAIN L = 1..n + 1 /\ L[n + 1] = q
        /\ \A k \in 1..n : L[k] = b[k]
        /\ \A k \in 0..n : InFirst(L, k) = InFirst(b, k)
    BY Appended
  <2>3. /\ DOMAIN M = 1..n + 1 /\ M[n + 1] = r
        /\ \A k \in 1..n : M[k] = b[k]
        /\ \A k \in 0..n : InFirst(M, k) = InFirst(b, k)
    <3> HIDE DEF r
    <3> QED BY <2>1, Appended
  <2> HIDE DEF n, r, L, M
  <2> QED BY <2>2, <2>3
<1>2. Listed(r) = Listed(q) \cup {s}
  BY Pushed
<1>3. b # <<>> => n > 0
  BY EmptySeq
<1>4. /\ Len(q) \in Nat /\ DOMAIN q = 1..Len(q) /\ DOMAIN r = 1..Len(q) + 1
      /\ \A i \in 1..Len(q) : r[i] = q[i]
      /\ r[Len(q) + 1] = s
  BY Pushed
<1>5. /\ DependenciesEarlier(p, L) /\ NoLaterThanNeeded(p, L) /\ NoStepTwice(L)
      /\ Deps(p, s) \subseteq InFirst(b, n)
      /\ b # <<>> => \E d \in Deps(p, s) : d \in Listed(b[n])
      /\ s \notin InFirst(L, n + 1)
  BY DEF Leveled
<1>6. b = <<>> => n = 0
  BY EmptySeq
<1> HIDE DEF n, r, L, M
<1>7. DependenciesEarlier(p, M)
  <2> SUFFICES ASSUME NEW k \in 1..n + 1, NEW x \in Listed(M[k])
               PROVE  Deps(p, x) \subseteq InFirst(M, k - 1)
    BY <1>1 DEF DependenciesEarlier
  <2>1. InFirst(M, k - 1) = InFirst(L, k - 1) /\ InFirst(L, k - 1) = InFirst(b, k - 1)
    BY <1>1
  <2>2. CASE x \in Listed(L[k])
    BY <1>1, <1>5, <2>1, <2>2 DEF DependenciesEarlier
  <2>3. CASE x \notin Listed(L[k])
    <3>1. k = n + 1 /\ x = s
      BY <1>1, <1>2, <2>3
    <3>2. k - 1 = n
      BY <1>1, <3>1
    <3> QED BY <1>5, <2>1, <3>1, <3>2
  <2> QED BY <2>2, <2>3
<1>8. NoLaterThanNeeded(p, M)
  <2> SUFFICES ASSUME NEW k \in 1..n + 1, NEW x \in Listed(M[k]), k # 1
               PROVE  \E d \in Deps(p, x) : d \in Listed(M[k - 1])
    BY <1>1 DEF NoLaterThanNeeded
  <2>1. k - 1 \in 1..n
    BY <1>1
  <2>2. M[k - 1] = L[k - 1] /\ L[k - 1] = b[k - 1]
    BY <1>1, <2>1
  <2>3. CASE x \in Listed(L[k])
    BY <1>1, <1>5, <2>2, <2>3 DEF NoLaterThanNeeded
  <2>4. CASE x \notin Listed(L[k])
    <3>1. k = n + 1 /\ x = s
      BY <1>1, <1>2, <2>4
    <3>2. k - 1 = n /\ b # <<>>
      BY <1>1, <1>6, <2>1, <3>1
    <3> QED BY <1>5, <2>2, <3>1, <3>2
  <2> QED BY <2>3, <2>4
<1>9. NoStepTwice(M)
  <2>1. ASSUME NEW j \in 1..n + 1, NEW i \in DOMAIN M[j]
        PROVE  \/ i \in DOMAIN L[j] /\ L[j][i] = M[j][i] /\ M[j][i] # s
               \/ j = n + 1 /\ i = Len(q) + 1 /\ M[j][i] = s
    <3>1. CASE j = n + 1 /\ i = Len(q) + 1
      BY <1>1, <1>4, <3>1
    <3>2. CASE ~(j = n + 1 /\ i = Len(q) + 1)
      <4>1. i \in DOMAIN L[j] /\ L[j][i] = M[j][i]
        <5>1. CASE j = n + 1
          BY <1>1, <1>4, <2>1, <3>2, <5>1
        <5>2. CASE j # n + 1
          BY <1>1, <2>1, <5>2
        <5> QED BY <5>1, <5>2
      <4>2. L[j][i] \in InFirst(L, n + 1)
        BY <1>1, <4>1 DEF InFirst, Listed
      <4> QED BY <1>5, <4>1, <4>2
    <3> QED BY <3>1, <3>2
  <2>2. \A j, k \in 1..n + 1 : \A i \in DOMAIN L[j], l \in DOMAIN L[k] :
          L[j][i] = L[k][l] => j = k /\ i = l
    BY <1>1, <1>5 DEF NoStepTwice
  <2> SUFFICES ASSUME NEW j \in 1..n + 1, NEW k \in 1..n + 1,
                      NEW i \in DOMAIN M[j], NEW l \in DOMAIN M[k], M[j][i] = M[k][l]
               PROVE  j = k /\ i = l
    BY <1>1 DEF NoStepTwice
  <2>3. \/ i \in DOMAIN L[j] /\ L[j][i] = M[j][i] /\ M[j][i] # s
        \/ j = n + 1 /\ i = Len(q) + 1 /\ M[j][i] = s
    BY <2>1
  <2>4. \/ l \in DOMAIN L[k] /\ L[k][l] = M[k][l] /\ M[k][l] # s
        \/ k = n + 1 /\ l = Len(q) + 1 /\ M[k][l] = s
    BY <2>1
  <2> QED BY <2>2, <2>3, <2>4
<1>10. M = Append(b, Append(q, s))
  BY DEF M, r
<1> QED BY <1>7, <1>8, <1>9, <1>10 DEF Leveled

\* The order within the batches is kept by a step that comes after all of the last batch.
LEMMA OrderWidened ==
  ASSUME NEW D, NEW p, NEW b \in Seq(Seq(D)), NEW q \in Seq(D), NEW s \in D,
         InOrder(p, Append(b, q)),
         \A i \in DOMAIN q : Before(p, b, q[i], s)
  PROVE  InOrder(p, Append(b, Append(q, s)))
<1> DEFINE n == Len(b)
           r == Append(q, s)
           L == Append(b, q)
           M == Append(b, r)
<1>1. /\ n \in Nat /\ DOMAIN L = 1..n + 1 /\ L[n + 1] = q
      /\ \A k \in 1..n : L[k] = b[k]
  BY Appended
<1>2. /\ Len(q) \in Nat /\ DOMAIN q = 1..Len(q) /\ DOMAIN r = 1..Len(q) + 1
      /\ \A i \in 1..Len(q) : r[i] = q[i]
      /\ r[Len(q) + 1] = s /\ r \in Seq(D)
  BY Pushed
<1>3. DOMAIN M = 1..n + 1 /\ M[n + 1] = r /\ \A k \in 1..n : M[k] = b[k]
  <2> HIDE DEF r
  <2> QED BY <1>2, Appended
<1>4. b = <<>> <=> n = 0
  BY EmptySeq
<1> HIDE DEF n, r, L, M
<1> SUFFICES ASSUME NEW k \in 1..n + 1, NEW i \in DOMAIN M[k], NEW j \in DOMAIN M[k], i < j
             PROVE  IF k = 1 THEN M[k][i] < M[k][j]
                    ELSE \E x \in LastAmong(p, M[k - 1], M[k][i]),
                            y \in LastAmong(p, M[k - 1], M[k][j]) :
                           x < y \/ (x = y /\ M[k][i] < M[k][j])
  BY <1>3 DEF InOrder, M, r
<1>5. k # 1 => k - 1 \in 1..n /\ M[k - 1] = L[k - 1] /\ L[k - 1] = b[k - 1]
  BY <1>1, <1>3
<1>6. InOrder(p, L)
  BY DEF L
<1>7. CASE j \in DOMAIN L[k] /\ L[k][j] = M[k][j] /\ i \in DOMAIN L[k] /\ L[k][i] = M[k][i]
  <2>1. IF k = 1 THEN L[k][i] < L[k][j]
        ELSE \E x \in LastAmong(p, L[k - 1], L[k][i]), y \in LastAmong(p, L[k - 1], L[k][j]) :
               x < y \/ (x = y /\ L[k][i] < L[k][j])
    BY <1>1, <1>6, <1>7 DEF InOrder
  <2> QED BY <1>5, <1>7, <2>1
<1>8. CASE k = n + 1 /\ j = Len(q) + 1
  <2>1. M[k] = r /\ i \in DOMAIN q /\ M[k][i] = q[i] /\ M[k][j] = s
    BY <1>2, <1>3, <1>8
  <2>2. Before(p, b, q[i], s)
    BY <2>1
  <2>3. CASE k = 1
    BY <1>1, <1>4, <1>8, <2>1, <2>2, <2>3 DEF Before
  <2>4. CASE k # 1
    <3>1. b # <<>> /\ k - 1 = n /\ M[k - 1] = b[n]
      BY <1>1, <1>4, <1>5, <1>8, <2>4
    <3>2. \E x \in LastAmong(p, b[n], q[i]), y \in LastAmong(p, b[n], s) :
            x < y \/ (x = y /\ q[i] < s)
      BY <2>2, <3>1 DEF Before, n
    <3> QED BY <2>1, <2>4, <3>1, <3>2
  <2> QED BY <2>3, <2>4
<1>9. CASE ~(k = n + 1 /\ j = Len(q) + 1)
  <2>1. CASE k = n + 1
    <3>1. L[k] = q /\ M[k] = r /\ i \in 1..Len(q) /\ j \in 1..Len(q)
      BY <1>1, <1>2, <1>3, <1>9, <2>1
    <3> QED BY <1>2, <1>7, <3>1
  <2>2. CASE k # n + 1
    <3>1. L[k] = M[k]
      BY <1>1, <1>3, <2>2
    <3> QED BY <1>7, <3>1
  <2> QED BY <2>1, <2>2
<1> QED BY <1>8, <1>9

\* An empty batch at the end makes no difference.
LEMMA EmptyBatch ==
  ASSUME NEW D, NEW p, NEW b \in Seq(Seq(D))
  PROVE  /\ Leveled(p, Append(b, <<>>)) <=> Leveled(p, b)
         /\ InOrder(p, Append(b, <<>>)) <=> InOrder(p, b)
         /\ InFirst(Append(b, <<>>), Len(b) + 1) = InFirst(b, Len(b))
<1> DEFINE n == Len(b)
           L == Append(b, <<>>)
<1>1. <<>> \in Seq(D) /\ Listed(<<>>) = {}
  BY EmptySeq DEF Listed
<1>2. /\ n \in Nat /\ DOMAIN L = 1..n + 1 /\ DOMAIN b = 1..n /\ L[n + 1] = <<>>
      /\ \A k \in 1..n : L[k] = b[k]
      /\ \A k \in 0..n : InFirst(L, k) = InFirst(b, k)
      /\ InFirst(L, n + 1) = InFirst(b, n) \cup Listed(<<>>)
  <2> DEFINE e == <<>>
  <2>1. e \in Seq(D)
    BY <1>1
  <2> HIDE DEF e
  <2>2. /\ n \in Nat /\ DOMAIN Append(b, e) = 1..n + 1 /\ DOMAIN b = 1..n
        /\ Append(b, e)[n + 1] = e
        /\ \A k \in 1..n : Append(b, e)[k] = b[k]
        /\ \A k \in 0..n : InFirst(Append(b, e), k) = InFirst(b, k)
        /\ InFirst(Append(b, e), n + 1) = InFirst(b, n) \cup Listed(e)
    BY <2>1, Appended
  <2> USE DEF e
  <2> QED BY <2>2
<1>e. DOMAIN <<>> = {}
  OBVIOUS
<1> HIDE DEF n, L
<1>3. DependenciesEarlier(p, L) <=> DependenciesEarlier(p, b)
  <2>1. \A k \in 1..n : k \in 1..n + 1 /\ L[k] = b[k] /\ InFirst(L, k - 1) = InFirst(b, k - 1)
    BY <1>2
  <2>2. \A k \in 1..n + 1 : k \in 1..n \/ Listed(L[k]) = {}
    BY <1>1, <1>2
  <2> QED BY <1>2, <2>1, <2>2 DEF DependenciesEarlier
<1>4. NoLaterThanNeeded(p, L) <=> NoLaterThanNeeded(p, b)
  <2>1. \A k \in 1..n : k \in 1..n + 1 /\ L[k] = b[k] /\ (k = 1 \/ L[k - 1] = b[k - 1])
    BY <1>2
  <2>2. \A k \in 1..n + 1 : k \in 1..n \/ Listed(L[k]) = {}
    BY <1>1, <1>2
  <2> QED BY <1>2, <2>1, <2>2 DEF NoLaterThanNeeded
<1>5. NoStepTwice(L) <=> NoStepTwice(b)
  <2>1. \A k \in 1..n : k \in 1..n + 1 /\ L[k] = b[k]
    BY <1>2
  <2>2. \A k \in 1..n + 1 : k \in 1..n \/ DOMAIN L[k] = {}
    BY <1>2, <1>e
  <2>3. ASSUME NoStepTwice(L) PROVE NoStepTwice(b)
    <3> SUFFICES ASSUME NEW j \in 1..n, NEW k \in 1..n, NEW i \in DOMAIN b[j],
                        NEW l \in DOMAIN b[k], b[j][i] = b[k][l]
                 PROVE  j = k /\ i = l
      BY <1>2 DEF NoStepTwice
    <3>1. j \in DOMAIN L /\ k \in DOMAIN L /\ L[j] = b[j] /\ L[k] = b[k]
      BY <1>2, <2>1
    <3> QED BY <2>3, <3>1 DEF NoStepTwice
  <2>4. ASSUME NoStepTwice(b) PROVE NoStepTwice(L)
    <3> SUFFICES ASSUME NEW j \in 1..n + 1, NEW k \in 1..n + 1, NEW i \in DOMAIN L[j],
                        NEW l \in DOMAIN L[k], L[j][i] = L[k][l]
                 PROVE  j = k /\ i = l
      BY <1>2 DEF NoStepTwice
    <3>1. j \in 1..n /\ k \in 1..n
      BY <2>2
    <3>2. j \in DOMAIN b /\ k \in DOMAIN b /\ L[j] = b[j] /\ L[k] = b[k]
      BY <1>2, <2>1, <3>1
    <3> QED BY <2>4, <3>2 DEF NoStepTwice
  <2> QED BY <2>3, <2>4
<1>6. InOrder(p, L) <=> InOrder(p, b)
  <2> DEFINE Ord(B, k) ==
        \A i, j \in DOMAIN B[k] :
          i < j =>
            IF k = 1 THEN B[k][i] < B[k][j]
            ELSE \E x \in LastAmong(p, B[k - 1], B[k][i]), y \in LastAmong(p, B[k - 1], B[k][j]) :
                   x < y \/ (x = y /\ B[k][i] < B[k][j])
  <2>1. ASSUME NEW k \in 1..n PROVE Ord(L, k) <=> Ord(b, k)
    <3>1. L[k] = b[k] /\ (k = 1 \/ L[k - 1] = b[k - 1])
      BY <1>2
    <3>2. CASE k = 1
      BY <3>1, <3>2
    <3>3. CASE k # 1 /\ L[k - 1] = b[k - 1]
      BY <3>1, <3>3, Zenon
    <3> QED BY <3>1, <3>2, <3>3
  <2>2. Ord(L, n + 1)
    BY <1>2, <1>e
  <2>3. InOrder(p, L) <=> \A k \in 1..n + 1 : Ord(L, k)
    BY <1>2 DEF InOrder
  <2>4. InOrder(p, b) <=> \A k \in 1..n : Ord(b, k)
    BY <1>2 DEF InOrder
  <2>5. 1..n + 1 = (1..n) \cup {n + 1}
    BY <1>2
  <2> HIDE DEF Ord
  <2> QED BY <2>1, <2>2, <2>3, <2>4, <2>5
<1> QED BY <1>1, <1>2, <1>3, <1>4, <1>5, <1>6 DEF Leveled, n, L
-------------------------------------------------------------------------------
(* The inductive invariant.                                                 *)

Working == loop \in {"roots", "queue"}

\* The queue that is being filled.
Coming == IF loop = "roots" THEN queue ELSE nextQueue

Levels == Append(batches, Coming)

Placed == InFirst(batches, Len(batches)) \cup Listed(Coming)

\* The dependencies of s that have not been visited for it.
Left(s) == {i \in DOMAIN plan[s] : <<s, i>> \in children}

Behind ==
  IF loop = "roots" THEN {}
  ELSE InFirst(batches, Len(batches) - 1) \cup {queue[i] : i \in 1..index - 1}

Current == IF loop = "queue" /\ index <= Len(queue) THEN {queue[index]} ELSE {}

Position ==
  /\ loop = "roots" => batches = <<>> /\ nextQueue = <<>> /\ index <= Len(plan) + 1
  /\ loop = "queue" =>
       batches # <<>> /\ queue = batches[Len(batches)] /\ index <= Len(queue) + 1
  /\ \A k \in DOMAIN batches : batches[k] # <<>>

Degrees == \A s \in DOMAIN plan : inDegree[s] = Cardinality(Left(s))

Released ==
  Working =>
    \A s \in DOMAIN plan : s \in Placed <=> Left(s) = {} /\ (loop = "roots" => s < index)

Edges ==
  Working =>
    \A s \in DOMAIN plan : \A i \in DOMAIN plan[s] :
      IF i \in Left(s) THEN plan[s][i] \notin Behind ELSE plan[s][i] \in Behind \cup Current

Counted == Working => visited = Cardinality(Behind)

Levelled == Working => Leveled(plan, Levels)

InSourceOrder == Working => InOrder(plan, Levels)

\* The queue being filled is sorted by the position at which its steps were released, and the
\* children of the current step that are left come after those it has released already.
ReleasedAt(s, x) ==
  /\ x \in LastAmong(plan, queue, s)
  /\ x <= index
  /\ x = index => \A c \in DOMAIN plan : \A i \in Left(c) : plan[c][i] = queue[x] => s < c

Release == loop = "queue" => \A s \in Listed(nextQueue) : \E x \in DOMAIN queue : ReleasedAt(s, x)

Ending ==
  /\ loop = "returned" => IsBatching(plan, batches) /\ InOrder(plan, batches)
  /\ loop = "threw" => Cyclic(plan)

Inv ==
  /\ TypeOK /\ Position /\ Degrees /\ Released /\ Edges /\ Counted
  /\ Levelled /\ InSourceOrder /\ Release /\ Ending

-------------------------------------------------------------------------------
(* What the shape of the state says.                                        *)

LEMMA PlanFacts ==
  ASSUME TypeOK
  PROVE  /\ IsPlan(plan) /\ plan \in Seq(Seq(DOMAIN plan))
         /\ DOMAIN plan = 1..Len(plan) /\ Len(plan) \in Nat \ {0}
         /\ \A s \in DOMAIN plan :
              /\ plan[s] \in Seq(DOMAIN plan)
              /\ DOMAIN plan[s] = 1..Len(plan[s]) /\ Len(plan[s]) \in Nat
              /\ \A i \in DOMAIN plan[s] : plan[s][i] \in DOMAIN plan
<1>1. IsPlan(plan)
  BY PlanInputs DEF TypeOK
<1>2. plan \in Seq(Seq(DOMAIN plan)) /\ plan # <<>>
  BY <1>1 DEF IsPlan
<1> DEFINE D == DOMAIN plan
<1>3. plan \in Seq(Seq(D))
  BY <1>2
<1>4. DOMAIN plan = 1..Len(plan) /\ Len(plan) \in Nat \ {0}
  <2> HIDE DEF D
  <2> QED BY <1>2, <1>3, EmptySeq, LenProperties
<1>5. ASSUME NEW s \in DOMAIN plan
      PROVE  /\ plan[s] \in Seq(D)
             /\ DOMAIN plan[s] = 1..Len(plan[s]) /\ Len(plan[s]) \in Nat
             /\ \A i \in DOMAIN plan[s] : plan[s][i] \in D
  <2> HIDE DEF D
  <2>1. plan[s] \in Seq(D)
    BY <1>3, <1>4, ElementOfSeq
  <2> QED BY <2>1, LenProperties, ElementOfSeq
<1> QED BY <1>1, <1>2, <1>4, <1>5

LEMMA LeftFacts ==
  ASSUME TypeOK, NEW s \in DOMAIN plan
  PROVE  /\ Left(s) \subseteq DOMAIN plan[s]
         /\ IsFiniteSet(Left(s)) /\ Cardinality(Left(s)) \in Nat
         /\ Cardinality(Left(s)) = 0 <=> Left(s) = {}
<1>1. Left(s) \subseteq DOMAIN plan[s]
  BY DEF Left
<1>2. IsFiniteSet(DOMAIN plan[s])
  BY PlanFacts, FS_Interval
<1>3. IsFiniteSet(Left(s))
  BY <1>1, <1>2, FS_Subset
<1> QED BY <1>1, <1>3, FS_CardinalityType, FS_EmptySet

LEMMA LevelsFacts ==
  ASSUME TypeOK
  PROVE  /\ Coming \in Seq(DOMAIN plan)
         /\ Levels \in Seq(Seq(DOMAIN plan)) /\ Len(Levels) = Len(batches) + 1
         /\ Len(batches) \in Nat /\ DOMAIN batches = 1..Len(batches)
         /\ DOMAIN Levels = 1..Len(batches) + 1
         /\ \A k \in 1..Len(batches) : Levels[k] = batches[k]
         /\ Levels[Len(batches) + 1] = Coming
         /\ \A k \in 0..Len(batches) : InFirst(Levels, k) = InFirst(batches, k)
         /\ InFirst(Levels, Len(batches) + 1) = Placed
         /\ Placed \subseteq DOMAIN plan
         /\ InFirst(batches, Len(batches)) \subseteq DOMAIN plan
<1> DEFINE D == DOMAIN plan
<1>1. Coming \in Seq(D) /\ batches \in Seq(Seq(D))
  BY DEF TypeOK, Coming
<1>2. /\ Levels \in Seq(Seq(D)) /\ Len(Levels) = Len(batches) + 1
      /\ Len(batches) \in Nat /\ DOMAIN batches = 1..Len(batches)
      /\ DOMAIN Levels = 1..Len(batches) + 1
      /\ \A k \in 1..Len(batches) : Levels[k] = batches[k]
      /\ Levels[Len(batches) + 1] = Coming
      /\ \A k \in 0..Len(batches) : InFirst(Levels, k) = InFirst(batches, k)
      /\ InFirst(Levels, Len(batches) + 1) = InFirst(batches, Len(batches)) \cup Listed(Coming)
  <2> HIDE DEF D
  <2> QED BY <1>1, Appended DEF Levels
<1>3. Listed(Coming) \subseteq D
  <2> HIDE DEF D
  <2> QED BY <1>1, LenProperties, ElementOfSeq DEF Listed
<1>4. InFirst(batches, Len(batches)) \subseteq D
  <2> HIDE DEF D
  <2>1. ASSUME NEW k \in 1..Len(batches) PROVE Listed(batches[k]) \subseteq D
    <3>1. batches[k] \in Seq(D)
      BY <1>1, <1>2, ElementOfSeq
    <3> QED BY <3>1, LenProperties, ElementOfSeq DEF Listed
  <2> QED BY <2>1 DEF InFirst
<1> QED BY <1>1, <1>2, <1>3, <1>4 DEF Placed

\* In the loop over a queue the batch before the queue being filled is the current one.
LEMMA QueueFacts ==
  ASSUME TypeOK, Position, loop = "queue"
  PROVE  /\ Len(batches) \in Nat \ {0} /\ queue = batches[Len(batches)]
         /\ Len(queue) \in Nat /\ DOMAIN queue = 1..Len(queue)
         /\ index \in 1..Len(queue) + 1
         /\ InFirst(batches, Len(batches))
              = InFirst(batches, Len(batches) - 1) \cup Listed(queue)
         /\ Behind \cup Current \subseteq InFirst(batches, Len(batches))
         /\ Behind \subseteq DOMAIN plan
<1> DEFINE D == DOMAIN plan
           n == Len(batches)
<1>1. batches \in Seq(Seq(D)) /\ queue \in Seq(D) /\ index \in Nat \ {0}
  BY DEF TypeOK
<1>2. n \in Nat \ {0} /\ queue = batches[n] /\ index <= Len(queue) + 1
  BY <1>1, EmptySeq DEF Position
<1>3. Len(queue) \in Nat /\ DOMAIN queue = 1..Len(queue)
  <2> HIDE DEF D
  <2> QED BY <1>1, LenProperties
<1> HIDE DEF n
<1>4. InFirst(batches, n) = InFirst(batches, n - 1) \cup Listed(queue)
  <2>1. 1..n = (1..n - 1) \cup {n}
    BY <1>2
  <2> QED BY <1>2, <2>1 DEF InFirst
<1>5. Behind \cup Current \subseteq InFirst(batches, n)
  <2>1. \A i \in 1..index - 1 : i \in DOMAIN queue
    BY <1>1, <1>2, <1>3
  <2>2. index <= Len(queue) => index \in DOMAIN queue
    BY <1>1, <1>3
  <2> QED BY <1>4, <2>1, <2>2 DEF Behind, Current, Listed, n
<1>6. InFirst(batches, n) \subseteq D
  BY LevelsFacts DEF n
<1> QED BY <1>1, <1>2, <1>3, <1>4, <1>5, <1>6 DEF n

-------------------------------------------------------------------------------
(* The invariant holds at the start, and every turn of every loop keeps it. *)

\* The entries of a plan, one for every dependency of every step.
LEMMA EntryFacts ==
  ASSUME NEW p, NEW s, NEW i
  PROVE  <<s, i>> \in Entries(p) <=> s \in DOMAIN p /\ i \in DOMAIN p[s]
BY DEF Entries

LEMMA CountTo ==
  ASSUME NEW n \in Nat
  PROVE  IsFiniteSet(1..n) /\ Cardinality(1..n) = n
BY FS_Interval

\* The image of a finite set.
LEMMA ImageFinite ==
  ASSUME NEW S, IsFiniteSet(S), NEW f, DOMAIN f = S
  PROVE  IsFiniteSet({f[x] : x \in S})
<1> DEFINE T == {f[x] : x \in S}
           g == [x \in S |-> f[x]]
<1>1. g \in Surjection(S, T)
  BY DEF Surjection
<1> QED BY <1>1, FS_Surjection

LEMMA InitInv == Init => Inv
<1> SUFFICES ASSUME Init PROVE Inv
  OBVIOUS
<1> DEFINE D == DOMAIN plan
<1>1. /\ plan \in Inputs /\ loop = "roots" /\ children = Entries(plan)
      /\ inDegree = [s \in D |-> Len(plan[s])]
      /\ batches = <<>> /\ queue = <<>> /\ index = 1 /\ nextQueue = <<>> /\ visited = 0
  BY DEF Init
<1>2. IsPlan(plan)
  BY <1>1, PlanInputs
<1>3. TypeOK
  <2>1. \A s \in D : Len(plan[s]) \in Nat
    <3>1. plan \in Seq(Seq(D)) /\ plan # <<>>
      BY <1>2 DEF IsPlan
    <3> HIDE DEF D
    <3>2. \A s \in 1..Len(plan) : plan[s] \in Seq(D)
      BY <3>1, ElementOfSeq
    <3> QED BY <3>1, <3>2, LenProperties DEF D
  <2>2. inDegree \in [D -> Nat]
    BY <1>1, <2>1
  <2>3. <<>> \in Seq(D) /\ <<>> \in Seq(Seq(D))
    BY EmptySeq
  <2> QED BY <1>1, <2>2, <2>3 DEF TypeOK
<1>4. Position
  BY <1>1, <1>3, PlanFacts DEF Position
<1>5. \A s \in DOMAIN plan : Left(s) = DOMAIN plan[s]
  BY <1>1, EntryFacts DEF Left
<1>6. Degrees
  <2> SUFFICES ASSUME NEW s \in DOMAIN plan PROVE inDegree[s] = Cardinality(Left(s))
    BY DEF Degrees
  <2>1. Left(s) = 1..Len(plan[s]) /\ Len(plan[s]) \in Nat
    BY <1>3, <1>5, PlanFacts
  <2>2. Cardinality(1..Len(plan[s])) = Len(plan[s])
    BY <2>1, CountTo
  <2> QED BY <1>1, <2>1, <2>2
<1>7. InFirst(<<>>, 0) = {} /\ Listed(<<>>) = {} /\ Len(<<>>) = 0 /\ DOMAIN <<>> = {}
  BY DEF InFirst, Listed
<1>8. Coming = <<>> /\ Behind = {} /\ Placed = {} /\ Levels = Append(<<>>, <<>>)
  BY <1>1, <1>7 DEF Coming, Behind, Placed, Levels
<1>9. Released
  BY <1>1, <1>3, <1>8, PlanFacts DEF Released
<1>10. Edges
  BY <1>5, <1>8 DEF Edges
<1>11. Counted
  BY <1>1, <1>8, FS_EmptySet DEF Counted
<1>12. Levelled /\ InSourceOrder
  <2>1. Leveled(plan, <<>>) /\ InOrder(plan, <<>>)
    BY <1>7 DEF Leveled, DependenciesEarlier, NoLaterThanNeeded, NoStepTwice, InOrder
  <2>2. <<>> \in Seq(Seq(D))
    BY EmptySeq
  <2> HIDE DEF D
  <2>3. Leveled(plan, Append(<<>>, <<>>)) /\ InOrder(plan, Append(<<>>, <<>>))
    <3> DEFINE b == <<>>
    <3>1. b \in Seq(Seq(D)) /\ Leveled(plan, b) /\ InOrder(plan, b)
      BY <2>1, <2>2
    <3> HIDE DEF b
    <3>2. Leveled(plan, Append(b, <<>>)) /\ InOrder(plan, Append(b, <<>>))
      BY <3>1, EmptyBatch
    <3> QED BY <3>2 DEF b
  <2> QED BY <1>8, <2>3 DEF Levelled, InSourceOrder
<1>13. Release /\ Ending
  BY <1>1 DEF Release, Ending
<1> QED BY <1>3, <1>4, <1>6, <1>9, <1>10, <1>11, <1>12, <1>13 DEF Inv

\* A root joins the first queue.
LEMMA FilterKeeps ==
  ASSUME Inv, Filter
  PROVE  Inv'
<1> DEFINE D == DOMAIN plan
<1>1. /\ loop = "roots" /\ index <= Len(plan) /\ loop' = "roots" /\ index' = index + 1
      /\ queue' = IF inDegree[index] = 0 THEN Append(queue, index) ELSE queue
      /\ UNCHANGED <<plan, children, inDegree, batches, nextQueue, visited>>
  BY DEF Filter
<1>2. /\ TypeOK /\ Position /\ Degrees /\ Released /\ Edges /\ Counted /\ Levelled /\ InSourceOrder
      /\ Working /\ batches = <<>> /\ nextQueue = <<>>
  BY <1>1 DEF Inv, Position, Working
<1>3. index \in D /\ index \in Nat /\ Len(plan) \in Nat /\ queue \in Seq(D)
  BY <1>1, <1>2, PlanFacts DEF TypeOK
<1>4. queue' \in Seq(D) /\ Listed(queue') = Listed(queue) \cup (IF inDegree[index] = 0 THEN {index} ELSE {})
  <2> HIDE DEF D
  <2> QED BY <1>1, <1>3, Pushed
<1>5. TypeOK'
  BY <1>1, <1>2, <1>3, <1>4 DEF TypeOK
<1>6. Position'
  BY <1>1, <1>2, <1>3 DEF Position
<1>7. \A s : Left(s)' = Left(s)
  BY <1>1 DEF Left
<1>8. Degrees'
  BY <1>1, <1>2, <1>7 DEF Degrees
<1>9. InFirst(batches, Len(batches)) = {} /\ Placed = Listed(queue) /\ Placed' = Listed(queue')
  <2>1. InFirst(<<>>, Len(<<>>)) = {}
    BY DEF InFirst
  <2> QED BY <1>1, <1>2, <2>1 DEF Placed, Coming
<1>10. inDegree[index] = 0 <=> Left(index) = {}
  BY <1>2, <1>3, LeftFacts DEF Degrees
<1>11. \A s \in D : s \in Listed(queue) <=> Left(s) = {} /\ s < index
  BY <1>1, <1>2, <1>9 DEF Released
<1>12. Released'
  <2> SUFFICES ASSUME NEW s \in D
               PROVE  s \in Placed' <=> Left(s)' = {} /\ s < index + 1
    BY <1>1 DEF Released
  <2>1. s \in Nat
    BY <1>2, PlanFacts
  <2>2. CASE s = index
    BY <1>3, <1>4, <1>7, <1>9, <1>10, <1>11, <2>2
  <2>3. CASE s # index
    <3>1. s \in Listed(queue') <=> s \in Listed(queue)
      BY <1>4, <2>3
    <3>2. s < index <=> s < index + 1
      BY <1>3, <2>1, <2>3
    <3> QED BY <1>7, <1>9, <1>11, <3>1, <3>2
  <2> QED BY <2>2, <2>3
<1>13. Behind = {} /\ Behind' = {} /\ Current = {} /\ Current' = {}
  BY <1>1 DEF Behind, Current
<1>14. Edges'
  BY <1>1, <1>2, <1>7, <1>13 DEF Edges
<1>15. Counted'
  BY <1>1, <1>2, <1>13 DEF Counted
<1>16. Levels = Append(batches, queue) /\ Levels' = Append(batches, queue')
  BY <1>1 DEF Levels, Coming
<1>17. Levelled' /\ InSourceOrder'
  <2>1. CASE inDegree[index] # 0
    BY <1>1, <1>2, <1>16, <2>1 DEF Levelled, InSourceOrder
  <2>2. CASE inDegree[index] = 0
    <3>1. Deps(plan, index) = {}
      BY <1>2, <1>3, <1>10, <1>13, <2>2 DEF Deps, Listed, Edges
    <3>2. index \notin InFirst(Append(batches, queue), Len(batches) + 1)
      BY <1>2, <1>3, <1>9, <1>11, <1>16, LevelsFacts
    <3>3. batches \in Seq(Seq(D))
      BY <1>2 DEF TypeOK
    <3>4. Leveled(plan, Append(batches, queue)) /\ InOrder(plan, Append(batches, queue))
      BY <1>2, <1>16 DEF Levelled, InSourceOrder
    <3>5. \A i \in DOMAIN queue : Before(plan, batches, queue[i], index)
      BY <1>2, <1>3, <1>11, LenProperties, ElementOfSeq DEF Before, Listed
    <3> HIDE DEF D
    <3>6. Leveled(plan, Append(batches, Append(queue, index)))
      BY <1>2, <1>3, <3>1, <3>2, <3>3, <3>4, Widened
    <3>7. InOrder(plan, Append(batches, Append(queue, index)))
      BY <1>3, <3>3, <3>4, <3>5, OrderWidened
    <3> QED BY <1>1, <1>16, <2>2, <3>6, <3>7 DEF Levelled, InSourceOrder
  <2> QED BY <2>1, <2>2
<1>18. Release' /\ Ending'
  BY <1>1 DEF Release, Ending
<1> QED BY <1>5, <1>6, <1>8, <1>12, <1>14, <1>15, <1>17, <1>18 DEF Inv

\* The queue that has been filled becomes the next batch.
LEMMA NextBatchKeeps ==
  ASSUME Inv, NextBatch
  PROVE  Inv'
<1> DEFINE D == DOMAIN plan
           n == Len(batches)
<1>1. /\ \/ loop = "roots" /\ index > Len(plan)
         \/ loop = "queue" /\ index > Len(queue)
      /\ Coming # <<>>
      /\ batches' = Levels /\ queue' = Coming /\ nextQueue' = <<>>
      /\ index' = 1 /\ loop' = "queue"
      /\ UNCHANGED <<plan, children, inDegree, visited>>
  BY DEF NextBatch, Coming, Levels
<1>2. /\ TypeOK /\ Position /\ Degrees /\ Released /\ Edges /\ Counted /\ Levelled /\ InSourceOrder
      /\ Working
  BY <1>1 DEF Inv, Working
<1>3. /\ Coming \in Seq(D) /\ Levels \in Seq(Seq(D)) /\ Len(Levels) = n + 1 /\ n \in Nat
      /\ DOMAIN Levels = 1..n + 1 /\ DOMAIN batches = 1..n
      /\ \A k \in 1..n : Levels[k] = batches[k]
      /\ Levels[n + 1] = Coming
      /\ InFirst(Levels, n) = InFirst(batches, n)
      /\ InFirst(Levels, n + 1) = Placed
  <2> HIDE DEF D
  <2>1. n \in 0..n
    BY <1>2, LevelsFacts
  <2> QED BY <1>2, <2>1, LevelsFacts DEF D
<1> HIDE DEF n
<1>4. TypeOK'
  <2>1. <<>> \in Seq(D)
    BY EmptySeq
  <2> QED BY <1>1, <1>2, <1>3, <2>1 DEF TypeOK
<1>5. Len(Coming) \in Nat
  <2> HIDE DEF D
  <2> QED BY <1>3, LenProperties
<1>6. Position'
  <2>1. Levels # <<>> /\ Len(Levels) = n + 1 /\ Levels[Len(Levels)] = Coming
    BY <1>3, EmptySeq
  <2>2. \A k \in DOMAIN Levels : Levels[k] # <<>>
    BY <1>1, <1>2, <1>3 DEF Position
  <2> QED BY <1>1, <1>5, <2>1, <2>2 DEF Position
<1>7. \A s : Left(s)' = Left(s)
  BY <1>1 DEF Left
<1>8. Degrees'
  BY <1>1, <1>2, <1>7 DEF Degrees
<1>9. Placed' = Placed
  <2>1. Coming' = <<>> /\ Listed(<<>>) = {}
    BY <1>1 DEF Coming, Listed
  <2> QED BY <1>1, <1>3, <2>1 DEF Placed
<1>10. Released'
  <2> SUFFICES ASSUME NEW s \in D PROVE s \in Placed <=> Left(s) = {}
    BY <1>1, <1>7, <1>9 DEF Released
  <2>1. loop = "roots" => s < index
    BY <1>1, <1>2, PlanFacts DEF TypeOK
  <2> QED BY <1>2, <2>1 DEF Released
<1>11. Behind = InFirst(batches, n) /\ Current = {}
  <2>1. CASE loop = "roots"
    BY <1>2, <2>1 DEF Behind, Current, Position, InFirst, n
  <2>2. CASE loop = "queue"
    <3>1. /\ InFirst(batches, n) = InFirst(batches, n - 1) \cup Listed(queue)
          /\ Len(queue) \in Nat /\ DOMAIN queue = 1..Len(queue) /\ index = Len(queue) + 1
      BY <1>1, <1>2, <2>2, QueueFacts DEF n
    <3>2. 1..index - 1 = DOMAIN queue /\ ~(index <= Len(queue))
      BY <3>1
    <3> QED BY <2>2, <3>1, <3>2 DEF Behind, Current, Listed, n
  <2> QED BY <1>1, <2>1, <2>2
<1>12. Behind' = Behind
  <2>1. Behind' = InFirst(Levels, (n + 1) - 1) \cup {queue'[i] : i \in 1..1 - 1}
    BY <1>1, <1>3 DEF Behind
  <2>2. (n + 1) - 1 = n /\ 1..1 - 1 = {}
    BY <1>3
  <2> QED BY <1>3, <1>11, <2>1, <2>2
<1>13. Edges'
  BY <1>1, <1>2, <1>7, <1>11, <1>12 DEF Edges, Working
<1>14. Counted'
  BY <1>1, <1>2, <1>12 DEF Counted, Working
<1>15. Levelled' /\ InSourceOrder'
  <2>1. Levels' = Append(Levels, <<>>)
    BY <1>1 DEF Levels, Coming
  <2>2. Leveled(plan, Levels) /\ InOrder(plan, Levels)
    BY <1>2 DEF Levelled, InSourceOrder
  <2>3. Leveled(plan, Append(Levels, <<>>)) /\ InOrder(plan, Append(Levels, <<>>))
    <3> HIDE DEF D
    <3> QED BY <1>3, <2>2, EmptyBatch
  <2> QED BY <1>1, <2>1, <2>3 DEF Levelled, InSourceOrder
<1>16. Release' /\ Ending'
  BY <1>1 DEF Release, Ending, Listed
<1> QED BY <1>4, <1>6, <1>8, <1>10, <1>13, <1>14, <1>15, <1>16 DEF Inv

\* The children of the current step are done.
LEMMA NextCurrentKeeps ==
  ASSUME Inv, NextCurrent
  PROVE  Inv'
<1> DEFINE c == queue[index]
<1>1. /\ loop = "queue" /\ index <= Len(queue) /\ ChildrenOf(c) = {}
      /\ index' = index + 1 /\ visited' = visited + 1
      /\ UNCHANGED <<plan, loop, children, inDegree, batches, queue, nextQueue>>
  BY DEF NextCurrent
<1>2. /\ TypeOK /\ Position /\ Degrees /\ Released /\ Edges /\ Counted /\ Levelled /\ InSourceOrder
      /\ Release /\ Working
  BY <1>1 DEF Inv, Working
<1>3. /\ Len(queue) \in Nat /\ DOMAIN queue = 1..Len(queue) /\ index \in 1..Len(queue)
      /\ index \in Nat /\ Len(batches) \in Nat \ {0} /\ queue = batches[Len(batches)]
      /\ Behind \subseteq DOMAIN plan
  BY <1>1, <1>2, QueueFacts DEF TypeOK
<1>4. TypeOK'
  BY <1>1, <1>2, <1>3 DEF TypeOK
<1>5. Position'
  BY <1>1, <1>2, <1>3 DEF Position
<1>6. (\A s : Left(s)' = Left(s)) /\ Coming' = Coming /\ Levels' = Levels /\ Placed' = Placed
  BY <1>1 DEF Left, Coming, Levels, Placed
<1>7. Degrees' /\ Released' /\ Levelled' /\ InSourceOrder'
  BY <1>1, <1>2, <1>6 DEF Degrees, Released, Levelled, InSourceOrder, Working
<1>8. Current = {c} /\ Behind' = Behind \cup {c}
  <2>1. 1..(index + 1) - 1 = (1..index - 1) \cup {index}
    BY <1>3
  <2> QED BY <1>1, <2>1 DEF Current, Behind
<1>9. c \notin Behind
  <2> DEFINE n == Len(batches)
  <2>1. /\ n \in 1..n /\ n - 1 \in 0..n /\ n \in DOMAIN Levels /\ Levels[n] = queue
        /\ DOMAIN Levels = 1..n + 1
        /\ \A k \in 1..n - 1 : k \in DOMAIN Levels /\ Levels[k] = batches[k]
    BY <1>2, <1>3, LevelsFacts
  <2>2. NoStepTwice(Levels)
    BY <1>2 DEF Levelled, Leveled
  <2> HIDE DEF n
  <2>3. \A i \in 1..index - 1 : queue[i] # c
    <3>1. \A i \in 1..index - 1 : i \in DOMAIN queue /\ i # index
      BY <1>3
    <3> QED BY <1>3, <2>1, <2>2, <3>1 DEF NoStepTwice
  <2>4. \A k \in 1..n - 1 : c \notin Listed(batches[k])
    <3> SUFFICES ASSUME NEW k \in 1..n - 1, NEW i \in DOMAIN batches[k], batches[k][i] = c
                 PROVE  FALSE
      BY DEF Listed
    <3>1. k # n /\ k \in DOMAIN Levels /\ Levels[k] = batches[k]
      BY <1>3, <2>1 DEF n
    <3>2. n \in DOMAIN Levels /\ index \in DOMAIN Levels[n] /\ Levels[n][index] = c
      BY <1>3, <2>1
    <3> QED BY <2>2, <3>1, <3>2 DEF NoStepTwice
  <2>5. c \notin InFirst(batches, n - 1)
    BY <2>4 DEF InFirst
  <2> QED BY <1>1, <2>3, <2>5 DEF Behind, n
<1>10. Edges'
  <2> SUFFICES ASSUME NEW s \in DOMAIN plan, NEW i \in DOMAIN plan[s]
               PROVE  IF i \in Left(s) THEN plan[s][i] \notin Behind' ELSE plan[s][i] \in Behind'
    BY <1>1, <1>6 DEF Edges
  <2>1. i \in Left(s) => plan[s][i] # c
    BY <1>1 DEF Left, ChildrenOf
  <2>2. IF i \in Left(s) THEN plan[s][i] \notin Behind ELSE plan[s][i] \in Behind \cup Current
    BY <1>2 DEF Edges
  <2> QED BY <1>8, <2>1, <2>2
<1>11. Counted'
  <2>1. IsFiniteSet(Behind)
    <3>1. IsFiniteSet(DOMAIN plan)
      BY <1>2, PlanFacts, CountTo
    <3> QED BY <1>3, <3>1, FS_Subset
  <2>2. Cardinality(Behind \cup {c}) = Cardinality(Behind) + 1
    BY <1>9, <2>1, FS_AddElement
  <2> QED BY <1>1, <1>2, <1>8, <2>2 DEF Counted
<1>12. Release'
  <2> SUFFICES ASSUME NEW s \in Listed(nextQueue)
               PROVE  \E x \in DOMAIN queue : ReleasedAt(s, x)'
    BY <1>1 DEF Release
  <2>1. PICK x \in DOMAIN queue : ReleasedAt(s, x)
    BY <1>1, <1>2 DEF Release
  <2>2. x \in LastAmong(plan, queue, s) /\ x <= index /\ x \in Nat
    BY <1>3, <2>1 DEF ReleasedAt
  <2>3. x <= index + 1 /\ x # index + 1
    BY <1>3, <2>2
  <2>4. ReleasedAt(s, x)'
    BY <1>1, <2>2, <2>3 DEF ReleasedAt
  <2> QED BY <2>4
<1>13. Ending'
  BY <1>1 DEF Ending
<1> QED BY <1>4, <1>5, <1>7, <1>10, <1>11, <1>12, <1>13 DEF Inv

\* A dependency of child s is done, and s joins the queue being filled if it was the last.
LEMMA VisitChildKeeps ==
  ASSUME Inv, VisitChild
  PROVE  Inv'
<1> DEFINE D == DOMAIN plan
           c == queue[index]
           n == Len(batches)
<1>1. PICK e \in FirstOf(ChildrenOf(c)) :
        /\ children' = children \ {e}
        /\ inDegree' = [inDegree EXCEPT ![e[1]] = @ - 1]
        /\ nextQueue' = IF inDegree[e[1]] = 1 THEN Append(nextQueue, e[1]) ELSE nextQueue
  BY DEF VisitChild
<1>2. /\ loop = "queue" /\ index <= Len(queue)
      /\ UNCHANGED <<plan, loop, batches, queue, index, visited>>
  BY DEF VisitChild
<1>3. /\ TypeOK /\ Position /\ Degrees /\ Released /\ Edges /\ Counted /\ Levelled /\ InSourceOrder
      /\ Release /\ Working
  BY <1>2 DEF Inv, Working
<1>4. PICK s \in D : \E i \in DOMAIN plan[s] : e = <<s, i>>
  <2>1. e \in Entries(plan)
    BY <1>1, <1>3 DEF FirstOf, ChildrenOf, TypeOK
  <2> QED BY <2>1 DEF Entries
<1>5. PICK i \in DOMAIN plan[s] : e = <<s, i>>
  BY <1>4
<1>6. /\ e[1] = s /\ e[2] = i /\ e \in children /\ plan[s][i] = c /\ i \in Left(s)
      /\ \A f \in ChildrenOf(c) : s < f[1] \/ (s = f[1] /\ i <= f[2])
  BY <1>1, <1>5 DEF FirstOf, ChildrenOf, Left
<1>7. /\ Len(queue) \in Nat /\ DOMAIN queue = 1..Len(queue) /\ index \in 1..Len(queue)
      /\ n \in Nat \ {0} /\ queue = batches[n]
      /\ InFirst(batches, n) = InFirst(batches, n - 1) \cup Listed(queue)
      /\ Behind \cup Current \subseteq InFirst(batches, n)
      /\ Current = {c} /\ c \in Listed(queue)
  BY <1>2, <1>3, QueueFacts DEF TypeOK, Current, Listed
<1>8. Left(s)' = Left(s) \ {i} /\ \A x \in D \ {s} : Left(x)' = Left(x)
  BY <1>1, <1>2, <1>5 DEF Left
<1>9. /\ inDegree \in [D -> Nat] /\ nextQueue \in Seq(D)
      /\ inDegree[s] = Cardinality(Left(s)) /\ IsFiniteSet(Left(s))
      /\ inDegree[s] \in Nat \ {0}
  BY <1>3, <1>6, LeftFacts DEF TypeOK, Degrees
<1>10. /\ inDegree'[s] = inDegree[s] - 1 /\ \A x \in D \ {s} : inDegree'[x] = inDegree[x]
       /\ inDegree' \in [D -> Nat]
  BY <1>1, <1>6, <1>9
<1>11. IsFiniteSet(Left(s)') /\ Cardinality(Left(s)') = inDegree'[s]
  BY <1>6, <1>8, <1>9, <1>10, FS_RemoveElement
<1>12. inDegree[s] = 1 <=> Left(s)' = {}
  <2> DEFINE T == Left(s) \ {i}
  <2>1. IsFiniteSet(T) /\ Cardinality(T) = inDegree[s] - 1
    BY <1>8, <1>10, <1>11
  <2>2. Cardinality(T) = 0 <=> T = {}
    BY <2>1, FS_EmptySet
  <2> QED BY <1>8, <1>9, <2>1, <2>2
<1>13. nextQueue' \in Seq(D) /\ Listed(nextQueue') = Listed(nextQueue) \cup (IF inDegree[s] = 1 THEN {s} ELSE {})
  <2> HIDE DEF D
  <2> QED BY <1>1, <1>6, <1>9, Pushed
<1>14. TypeOK'
  BY <1>1, <1>2, <1>3, <1>10, <1>13 DEF TypeOK
<1>15. Position'
  BY <1>2, <1>3 DEF Position
<1>16. Degrees'
  <2>1. ASSUME NEW x \in D, x # s PROVE inDegree'[x] = Cardinality(Left(x)')
    BY <1>3, <1>8, <1>10, <2>1 DEF Degrees
  <2> QED BY <1>2, <1>11, <2>1 DEF Degrees
<1>17. Placed' = Placed \cup (IF inDegree[s] = 1 THEN {s} ELSE {})
  BY <1>2, <1>13 DEF Placed, Coming
<1>18. \A x \in D : x \in Placed <=> Left(x) = {}
  BY <1>2, <1>3 DEF Released
<1>19. Released'
  <2> SUFFICES ASSUME NEW x \in D PROVE x \in Placed' <=> Left(x)' = {}
    BY <1>2 DEF Released
  <2>1. CASE x = s
    BY <1>6, <1>12, <1>17, <1>18, <2>1
  <2>2. CASE x # s
    BY <1>8, <1>17, <1>18, <2>2
  <2> QED BY <2>1, <2>2
<1>20. Behind' = Behind /\ Current' = Current
  BY <1>2 DEF Behind, Current
<1>21. \A x \in D : \A j \in DOMAIN plan[x] :
         IF j \in Left(x)' THEN plan[x][j] \notin Behind ELSE plan[x][j] \in Behind \cup Current
  <2> SUFFICES ASSUME NEW x \in D, NEW j \in DOMAIN plan[x]
               PROVE  IF j \in Left(x)' THEN plan[x][j] \notin Behind
                      ELSE plan[x][j] \in Behind \cup Current
    OBVIOUS
  <2>1. IF j \in Left(x) THEN plan[x][j] \notin Behind ELSE plan[x][j] \in Behind \cup Current
    BY <1>3 DEF Edges
  <2>2. CASE x = s /\ j = i
    BY <1>6, <1>7, <1>8, <2>2
  <2>3. CASE ~(x = s /\ j = i)
    <3>1. j \in Left(x)' <=> j \in Left(x)
      BY <1>8, <2>3
    <3> QED BY <2>1, <3>1
  <2> QED BY <2>2, <2>3
<1>22. Edges'
  BY <1>2, <1>20, <1>21 DEF Edges
<1>23. Counted'
  BY <1>2, <1>3, <1>20 DEF Counted, Working
<1>24. Levels = Append(batches, nextQueue) /\ Levels' = Append(batches, nextQueue')
  BY <1>2 DEF Levels, Coming
<1>25. \A x \in Listed(nextQueue) : \E y \in DOMAIN queue : ReleasedAt(x, y)
  BY <1>2, <1>3 DEF Release
<1>26. ASSUME inDegree[s] = 1
       PROVE  /\ Deps(plan, s) \subseteq Behind \cup Current
              /\ c \in Deps(plan, s)
              /\ index \in LastAmong(plan, queue, s)
  <2>1. \A j \in DOMAIN plan[s] : plan[s][j] \in Behind \cup Current
    BY <1>12, <1>21, <1>26
  <2>2. Deps(plan, s) \subseteq Behind \cup Current /\ c \in Deps(plan, s)
    BY <1>6, <2>1 DEF Deps, Listed
  <2>3. NoStepTwice(Levels) /\ n \in DOMAIN Levels /\ Levels[n] = queue
          /\ \A k \in 1..n - 1 : k \in DOMAIN Levels /\ Levels[k] = batches[k] /\ k # n
    <3>1. DOMAIN Levels = 1..n + 1 /\ \A k \in 1..n : Levels[k] = batches[k]
      BY <1>3, LevelsFacts
    <3>2. NoStepTwice(Levels)
      BY <1>3 DEF Levelled, Leveled
    <3> HIDE DEF n
    <3> QED BY <1>7, <3>1, <3>2
  <2>4. ASSUME NEW j \in DOMAIN queue, queue[j] \in Behind \cup Current
        PROVE  j <= index
    <3>1. CASE queue[j] \in Current
      BY <1>7, <2>3, <3>1 DEF NoStepTwice
    <3>2. CASE queue[j] \in InFirst(batches, n - 1)
      <4>1. PICK k \in 1..n - 1 : queue[j] \in Listed(batches[k])
        BY <3>2 DEF InFirst
      <4>2. PICK l \in DOMAIN batches[k] : batches[k][l] = queue[j]
        BY <4>1 DEF Listed
      <4> HIDE DEF n
      <4> QED BY <2>3, <4>2 DEF NoStepTwice
    <3>3. CASE \E l \in 1..index - 1 : queue[j] = queue[l]
      <4>1. PICK l \in 1..index - 1 : queue[j] = queue[l]
        BY <3>3
      <4>2. l \in DOMAIN queue /\ l <= index
        BY <1>7
      <4>3. j = l
        BY <2>3, <4>1, <4>2 DEF NoStepTwice
      <4> QED BY <4>2, <4>3
    <3> QED BY <1>2, <2>4, <3>1, <3>2, <3>3 DEF Behind
  <2> QED BY <1>7, <2>2, <2>4 DEF LastAmong
<1>27. Levelled' /\ InSourceOrder'
  <2>1. CASE inDegree[s] # 1
    BY <1>1, <1>2, <1>3, <1>6, <1>24, <2>1 DEF Levelled, InSourceOrder, Working
  <2>2. CASE inDegree[s] = 1
    <3>1. batches \in Seq(Seq(D))
      BY <1>3 DEF TypeOK
    <3>2. Leveled(plan, Append(batches, nextQueue)) /\ InOrder(plan, Append(batches, nextQueue))
      BY <1>3, <1>24 DEF Levelled, InSourceOrder
    <3>3. Deps(plan, s) \subseteq InFirst(batches, Len(batches))
      BY <1>7, <1>26, <2>2
    <3>4. \E d \in Deps(plan, s) : d \in Listed(batches[Len(batches)])
      BY <1>7, <1>26, <2>2
    <3>5. s \notin InFirst(Append(batches, nextQueue), Len(batches) + 1)
      BY <1>3, <1>6, <1>18, <1>24, LevelsFacts
    <3>6. ASSUME NEW j \in DOMAIN nextQueue
          PROVE  Before(plan, batches, nextQueue[j], s)
      <4>1. PICK y \in DOMAIN queue : ReleasedAt(nextQueue[j], y)
        BY <1>25 DEF Listed
      <4>2. y \in LastAmong(plan, queue, nextQueue[j]) /\ y <= index /\ y \in Nat
        BY <1>7, <4>1 DEF ReleasedAt
      <4>3. y = index => nextQueue[j] < s
        BY <1>6, <4>1 DEF ReleasedAt
      <4>4. y < index \/ (y = index /\ nextQueue[j] < s)
        BY <1>7, <4>2, <4>3
      <4>5. batches # <<>>
        BY <1>2, <1>3 DEF Position
      <4> QED BY <1>7, <1>26, <2>2, <4>2, <4>4, <4>5 DEF Before
    <3> HIDE DEF D
    <3>7. Leveled(plan, Append(batches, Append(nextQueue, s)))
      BY <1>4, <1>9, <3>1, <3>2, <3>3, <3>4, <3>5, Widened
    <3>8. InOrder(plan, Append(batches, Append(nextQueue, s)))
      BY <1>4, <1>9, <3>1, <3>2, <3>6, OrderWidened
    <3> QED BY <1>1, <1>2, <1>6, <1>24, <2>2, <3>7, <3>8 DEF Levelled, InSourceOrder
  <2> QED BY <2>1, <2>2
<1>28. Release'
  <2> SUFFICES ASSUME NEW x \in Listed(nextQueue')
               PROVE  \E y \in DOMAIN queue : ReleasedAt(x, y)'
    BY <1>2 DEF Release
  <2>1. \A b \in D : Left(b)' \subseteq Left(b)
    BY <1>8
  <2>2. CASE x \in Listed(nextQueue)
    <3>1. PICK y \in DOMAIN queue : ReleasedAt(x, y)
      BY <1>25, <2>2
    <3>2. ReleasedAt(x, y)'
      BY <1>2, <2>1, <3>1 DEF ReleasedAt
    <3> QED BY <3>2
  <2>3. CASE x \notin Listed(nextQueue)
    <3>1. x = s /\ inDegree[s] = 1
      BY <1>13, <2>3
    <3>2. ASSUME NEW b \in D, NEW j \in Left(b)', plan[b][j] = c PROVE s < b
      <4>1. b # s
        BY <1>12, <3>1, <3>2
      <4>2. j \in Left(b) /\ <<b, j>> \in ChildrenOf(c)
        BY <2>1, <3>2 DEF Left, ChildrenOf
      <4> QED BY <1>6, <4>1, <4>2
    <3>3. PICK y \in DOMAIN queue : y = index
      BY <1>7
    <3>4. ReleasedAt(x, y)'
      BY <1>2, <1>7, <1>26, <3>1, <3>2, <3>3 DEF ReleasedAt
    <3> QED BY <3>4
  <2> QED BY <2>2, <2>3
<1>29. Ending'
  BY <1>2 DEF Ending
<1> QED BY <1>14, <1>15, <1>16, <1>19, <1>22, <1>23, <1>27, <1>28, <1>29 DEF Inv

\* The function returns the batches of the whole plan, or has found a cycle.
LEMMA ReturnKeeps ==
  ASSUME Inv, Return
  PROVE  Inv'
<1> DEFINE D == DOMAIN plan
           n == Len(batches)
<1>1. /\ \/ loop = "roots" /\ index > Len(plan)
         \/ loop = "queue" /\ index > Len(queue)
      /\ Coming = <<>>
      /\ loop' = IF visited = Len(plan) THEN "returned" ELSE "threw"
      /\ UNCHANGED <<plan, children, inDegree, batches, queue, index, nextQueue, visited>>
  BY DEF Return, Coming
<1>2. /\ TypeOK /\ Position /\ Degrees /\ Released /\ Edges /\ Counted /\ Levelled /\ InSourceOrder
      /\ Working
  BY <1>1 DEF Inv, Working
<1>3. /\ D = 1..Len(plan) /\ Len(plan) \in Nat \ {0} /\ IsFiniteSet(D)
      /\ Cardinality(D) = Len(plan)
  BY <1>2, PlanFacts, CountTo
<1>4. InFirst(batches, n) \subseteq D /\ Listed(<<>>) = {}
  BY <1>2, LevelsFacts DEF Listed
<1>5. Behind = InFirst(batches, n) /\ Current = {}
  <2>1. CASE loop = "roots"
    BY <1>2, <2>1 DEF Behind, Current, Position, InFirst
  <2>2. CASE loop = "queue"
    <3>1. /\ InFirst(batches, n) = InFirst(batches, n - 1) \cup Listed(queue)
          /\ Len(queue) \in Nat /\ DOMAIN queue = 1..Len(queue) /\ index = Len(queue) + 1
      BY <1>1, <1>2, <2>2, QueueFacts
    <3>2. 1..index - 1 = DOMAIN queue /\ ~(index <= Len(queue))
      BY <3>1
    <3> QED BY <2>2, <3>1, <3>2 DEF Behind, Current, Listed
  <2> QED BY <1>1, <2>1, <2>2
<1>6. TypeOK' /\ Position'
  BY <1>1, <1>2 DEF TypeOK, Position
<1>7. Degrees'
  BY <1>1, <1>2 DEF Degrees, Left
<1>8. Placed = Behind
  BY <1>1, <1>4, <1>5 DEF Placed
<1>9. \A s \in D : s \in Behind <=> Left(s) = {}
  <2>1. ASSUME NEW s \in D, loop = "roots" PROVE s < index
    <3>1. index \in Nat /\ index > Len(plan)
      BY <1>1, <1>2, <2>1 DEF TypeOK
    <3> HIDE DEF D
    <3> QED BY <1>3, <3>1
  <2> QED BY <1>2, <1>8, <2>1 DEF Released
<1>10. ASSUME visited = Len(plan)
       PROVE  IsBatching(plan, batches) /\ InOrder(plan, batches)
  <2>1. Behind = D
    BY <1>2, <1>3, <1>4, <1>5, <1>10, FS_Subset DEF Counted
  <2>2. batches \in Seq(Seq(D)) /\ \A k \in DOMAIN batches : batches[k] # <<>>
    BY <1>2 DEF TypeOK, Position
  <2>3. Leveled(plan, Append(batches, <<>>)) /\ InOrder(plan, Append(batches, <<>>))
    BY <1>1, <1>2 DEF Levelled, InSourceOrder, Levels
  <2>4. Leveled(plan, batches) /\ InOrder(plan, batches)
    <3> HIDE DEF D
    <3> QED BY <2>2, <2>3, EmptyBatch
  <2> QED BY <1>5, <2>1, <2>2, <2>4 DEF IsBatching, Leveled
<1>11. ASSUME visited # Len(plan)
       PROVE  Cyclic(plan)
  <2> DEFINE S == D \ Behind
  <2>1. S # {}
    <3>1. SUFFICES ASSUME D \subseteq Behind PROVE FALSE
      OBVIOUS
    <3>2. Behind = D
      BY <1>4, <1>5, <3>1
    <3> QED BY <1>2, <1>3, <1>11, <3>2 DEF Counted
  <2>2. ASSUME NEW s \in S PROVE Deps(plan, s) \cap S # {}
    <3>1. PICK i \in Left(s) : TRUE
      BY <1>9
    <3>2. i \in DOMAIN plan[s] /\ plan[s][i] \notin Behind
      BY <1>2, <3>1, LeftFacts DEF Edges
    <3>3. plan[s][i] \in D
      BY <1>2, <3>2, PlanFacts
    <3> QED BY <3>2, <3>3 DEF Deps, Listed
  <2> QED BY <2>1, <2>2 DEF Cyclic
<1>12. Ending'
  BY <1>1, <1>10, <1>11 DEF Ending
<1>13. Released' /\ Edges' /\ Counted' /\ Levelled' /\ InSourceOrder' /\ Release'
  BY <1>1 DEF Released, Edges, Counted, Levelled, InSourceOrder, Release, Working
<1> QED BY <1>6, <1>7, <1>12, <1>13 DEF Inv

-------------------------------------------------------------------------------
LEMMA NextInv == Inv /\ [Next]_vars => Inv'
<1> SUFFICES ASSUME Inv, [Next]_vars PROVE Inv'
  OBVIOUS
<1>1. CASE UNCHANGED vars
  <2>1. UNCHANGED <<plan, loop, children, inDegree, batches, queue, index, nextQueue, visited>>
    BY <1>1 DEF vars
  <2>2. TypeOK' /\ Position' /\ Ending'
    BY <2>1 DEF Inv, TypeOK, Position, Ending
  <2>3. /\ Working' = Working /\ Levels' = Levels /\ Placed' = Placed /\ Behind' = Behind
        /\ Current' = Current /\ \A s : Left(s)' = Left(s)
    BY <2>1 DEF Working, Coming, Levels, Placed, Left, Behind, Current
  <2>4. Degrees' /\ Released' /\ Edges' /\ Counted' /\ Levelled' /\ InSourceOrder'
    BY <2>1, <2>3 DEF Inv, Degrees, Released, Edges, Counted, Levelled, InSourceOrder
  <2>5. Release'
    BY <2>1, <2>3 DEF Inv, Release, ReleasedAt
  <2> QED BY <2>2, <2>4, <2>5 DEF Inv
<1> QED BY <1>1, FilterKeeps, NextBatchKeeps, VisitChildKeeps, NextCurrentKeeps, ReturnKeeps
        DEF Next

LEMMA Invariance == Spec => []Inv
<1> QED BY InitInv, NextInv, PTL DEF Spec

\* Every variable keeps its shape, for plans of any size.
THEOREM TypeCorrect == Spec => []TypeOK
<1>1. Inv => TypeOK
  BY DEF Inv
<1> QED BY <1>1, Invariance, PTL

\* The batches that planExecutionBatches() returns are the topological levels of the plan.
LEMMA BatchesAreLevels == Spec => []BatchesCorrect
<1>1. Inv => BatchesCorrect
  BY DEF Inv, Ending, BatchesCorrect
<1> QED BY <1>1, Invariance, PTL

\* The steps of a batch stand in the order in which the batch before releases them.
LEMMA BatchesAreOrdered == Spec => []BatchesOrdered
<1>1. Inv => BatchesOrdered
  BY DEF Inv, Ending, BatchesOrdered
<1> QED BY <1>1, Invariance, PTL

\* The batches are right, each step in its own and at its place in it.
THEOREM BatchesAreExact == Spec => []BatchesExact
<1> QED BY BatchesAreLevels, BatchesAreOrdered, PTL DEF BatchesExact

\* A plan that planExecutionBatches() rejects has a cycle.
THEOREM OnlyCyclesAreRejected == Spec => []RejectsOnlyCycles
<1>1. Inv => RejectsOnlyCycles
  BY DEF Inv, Ending, RejectsOnlyCycles
<1> QED BY <1>1, Invariance, PTL

-------------------------------------------------------------------------------
(* The function ends.                                                        *)
\* The entries of a plan are finitely many.
LEMMA ChildrenFinite ==
  ASSUME TypeOK
  PROVE  IsFiniteSet(children) /\ Cardinality(children) \in Nat
<1> DEFINE D == DOMAIN plan
           f == [s \in D |-> DOMAIN plan[s]]
           T == {f[s] : s \in D}
<1>1. /\ D = 1..Len(plan) /\ Len(plan) \in Nat
      /\ \A s \in D : DOMAIN plan[s] = 1..Len(plan[s]) /\ Len(plan[s]) \in Nat
  BY PlanFacts
<1>2. IsFiniteSet(D) /\ \A s \in D : IsFiniteSet(f[s])
  BY <1>1, CountTo
<1>3. DOMAIN f = D
  OBVIOUS
<1>4. Entries(plan) \subseteq D \X UNION T
  BY DEF Entries
<1>5. children \subseteq Entries(plan)
  BY DEF TypeOK
<1> HIDE DEF D, f
<1>6. IsFiniteSet(T) /\ \A t \in T : IsFiniteSet(t)
  BY <1>2, <1>3, ImageFinite
<1> HIDE DEF T
<1>7. IsFiniteSet(UNION T)
  BY <1>6, FS_UNION
<1>8. IsFiniteSet(D \X UNION T)
  BY <1>2, <1>7, FS_Product
<1>9. IsFiniteSet(children)
  BY <1>4, <1>5, <1>8, FS_Subset
<1> QED BY <1>9, FS_CardinalityType

\* No step is visited twice.
LEMMA VisitedBounded ==
  Inv /\ Working => visited \in Nat /\ Len(plan) \in Nat /\ visited <= Len(plan)
<1> SUFFICES ASSUME Inv, Working
             PROVE  visited \in Nat /\ Len(plan) \in Nat /\ visited <= Len(plan)
  OBVIOUS
<1>1. TypeOK /\ Position /\ visited = Cardinality(Behind)
  BY DEF Inv, Counted
<1>2. DOMAIN plan = 1..Len(plan) /\ Len(plan) \in Nat
  BY <1>1, PlanFacts
<1>3. Behind \subseteq DOMAIN plan
  <2>1. CASE loop = "roots"
    BY <2>1 DEF Behind
  <2>2. CASE loop = "queue"
    BY <1>1, <2>2, QueueFacts
  <2> QED BY <2>1, <2>2 DEF Working
<1>4. IsFiniteSet(1..Len(plan)) /\ Cardinality(1..Len(plan)) = Len(plan)
  BY <1>2, CountTo
<1>5. IsFiniteSet(Behind) /\ Cardinality(Behind) <= Cardinality(1..Len(plan))
  BY <1>2, <1>3, <1>4, FS_Subset
<1>6. Cardinality(Behind) \in Nat
  BY <1>5, FS_CardinalityType
<1> QED BY <1>1, <1>2, <1>4, <1>5, <1>6

\* Every turn brings the end nearer.
LEMMA TurnsDecrease ==
  ASSUME Inv, Next
  PROVE  TurnsLeft' >= 0 /\ TurnsLeft' < TurnsLeft
<1> DEFINE n == Len(plan)
           c == Cardinality(children)
<1>1. Working
  BY DEF Next, Filter, NextBatch, VisitChild, NextCurrent, Return, Working
<1>2. Inv'
  BY NextInv
<1>3. /\ TypeOK /\ Position /\ visited \in Nat /\ Len(plan) \in Nat /\ visited <= Len(plan)
      /\ IsFiniteSet(children) /\ Cardinality(children) \in Nat
  BY <1>1, ChildrenFinite, VisitedBounded DEF Inv
<1>4. index \in Nat /\ (loop = "roots" => index <= Len(plan) + 1)
  BY <1>3 DEF TypeOK, Position
<1>5. Len(queue) \in Nat
  BY <1>3, LenProperties DEF TypeOK
<1>6. /\ n \in Nat /\ c \in Nat /\ visited \in Nat /\ visited <= n /\ index \in Nat
      /\ loop = "roots" => index <= n + 1
  BY <1>3, <1>4
<1>7. CASE Filter
  <2>1. /\ loop = "roots" /\ loop' = "roots" /\ index <= Len(plan) /\ index' = index + 1
        /\ UNCHANGED <<plan, children, visited>>
    BY <1>7 DEF Filter
  <2>2. TurnsLeft = (n + 2 - index) + c + 2 * (n - visited) + 1
    BY <2>1, <1>3, <1>4 DEF TurnsLeft
  <2>3. TurnsLeft' = (n + 2 - (index + 1)) + c + 2 * (n - visited) + 1
    BY <2>1, <1>3, <1>4 DEF TurnsLeft
  <2>4. index <= n
    BY <2>1
  <2> HIDE DEF n, c
  <2> QED BY <1>6, <2>2, <2>3, <2>4
<1>8. CASE NextBatch
  <2>1. /\ \/ loop = "roots" /\ index > Len(plan)
           \/ loop = "queue" /\ index > Len(queue)
        /\ index' = 1 /\ loop' = "queue" /\ queue' # <<>>
        /\ UNCHANGED <<plan, children, visited>>
    BY <1>8 DEF NextBatch
  <2>2. Len(queue') \in Nat /\ ~(index' > Len(queue'))
    <3>1. queue' \in Seq(DOMAIN plan')
      BY <1>2 DEF Inv, TypeOK
    <3>2. Len(queue') \in Nat /\ Len(queue') # 0
      BY <2>1, <3>1, EmptySeq, LenProperties
    <3> QED BY <2>1, <3>2
  <2>3. TurnsLeft' = c + 2 * (n - visited) + 1
    BY <2>1, <2>2, <1>3 DEF TurnsLeft
  <2>4. CASE loop = "roots"
    <3>1. TurnsLeft = (n + 2 - index) + c + 2 * (n - visited) + 1
      BY <2>4, <1>3, <1>4 DEF TurnsLeft
    <3> HIDE DEF n, c
    <3> QED BY <1>6, <2>3, <2>4, <3>1
  <2>5. CASE loop = "queue" /\ index > Len(queue)
    <3>1. TurnsLeft = c + 2 * (n - visited) + 2
      BY <2>5, <1>3 DEF TurnsLeft
    <3> HIDE DEF n, c
    <3> QED BY <1>6, <2>3, <3>1
  <2> QED BY <2>1, <2>4, <2>5
<1>9. CASE VisitChild
  <2>1. PICK e \in FirstOf(ChildrenOf(queue[index])) :
          children' = children \ {e}
    BY <1>9 DEF VisitChild
  <2>2. e \in children
    BY <2>1 DEF FirstOf, ChildrenOf
  <2>3. Cardinality(children') = c - 1
    BY <1>3, <2>1, <2>2, FS_RemoveElement
  <2>4. Cardinality(children') \in Nat
    BY <1>3, <2>1, FS_RemoveElement, FS_CardinalityType
  <2>5. /\ loop = "queue" /\ index <= Len(queue)
        /\ UNCHANGED <<plan, loop, queue, index, visited>>
    BY <1>9 DEF VisitChild
  <2>6. TurnsLeft = c + 2 * (n - visited) + 1
    BY <2>5, <1>3, <1>4, <1>5 DEF TurnsLeft
  <2>7. TurnsLeft' = Cardinality(children') + 2 * (n - visited) + 1
    BY <2>4, <2>5, <1>3, <1>4, <1>5 DEF TurnsLeft
  <2> HIDE DEF n, c
  <2> QED BY <1>6, <2>3, <2>4, <2>6, <2>7
<1>10. CASE NextCurrent
  <2>1. /\ loop = "queue" /\ index <= Len(queue)
        /\ index' = index + 1 /\ visited' = visited + 1
        /\ UNCHANGED <<plan, loop, children, queue>>
    BY <1>10 DEF NextCurrent
  <2>2. (Inv /\ Working => visited \in Nat /\ Len(plan) \in Nat /\ visited <= Len(plan))'
    BY VisitedBounded, PTL
  <2>3. visited' <= Len(plan)
    BY <1>1, <1>2, <2>1, <2>2 DEF Working
  <2> DEFINE more == IF index + 1 > Len(queue) THEN 1 ELSE 0
  <2>4. TurnsLeft = c + 2 * (n - visited) + 1
    BY <2>1, <1>3, <1>4, <1>5 DEF TurnsLeft
  <2>5. TurnsLeft' = c + 2 * (n - (visited + 1)) + more + 1
    BY <2>1, <1>3, <1>4, <1>5 DEF TurnsLeft
  <2>6. visited + 1 <= n /\ more \in 0..1
    BY <2>1, <2>3
  <2> HIDE DEF n, c, more
  <2> QED BY <1>6, <2>4, <2>5, <2>6
<1>11. CASE Return
  <2>1. /\ \/ loop = "roots" /\ index > Len(plan)
           \/ loop = "queue" /\ index > Len(queue)
        /\ loop' \in {"returned", "threw"}
        /\ UNCHANGED <<plan, children, queue, index, visited>>
    BY <1>11 DEF Return
  <2>2. TurnsLeft' = c + 2 * (n - visited)
    BY <2>1, <1>3, <1>5 DEF TurnsLeft
  <2>3. CASE loop = "roots"
    <3>1. TurnsLeft = (n + 2 - index) + c + 2 * (n - visited) + 1
      BY <2>3, <1>3, <1>4 DEF TurnsLeft
    <3> HIDE DEF n, c
    <3> QED BY <1>6, <2>2, <2>3, <3>1
  <2>4. CASE loop = "queue" /\ index > Len(queue)
    <3>1. TurnsLeft = c + 2 * (n - visited) + 2
      BY <2>4, <1>3 DEF TurnsLeft
    <3> HIDE DEF n, c
    <3> QED BY <1>6, <2>2, <3>1
  <2> QED BY <2>1, <2>3, <2>4
<1> QED BY <1>7, <1>8, <1>9, <1>10, <1>11 DEF Next

\* planExecutionBatches() ends on every plan: each turn of its loops brings the end nearer.
THEOREM ThePlannerEnds == Spec => PlannerEnds
<1>1. Inv /\ [Next]_vars => [TurnsLeft' >= 0 /\ TurnsLeft' < TurnsLeft]_vars
  BY TurnsDecrease
<1> QED BY <1>1, Invariance, PTL DEF Spec, PlannerEnds

-------------------------------------------------------------------------------
(* The depths of the agents.                                                 *)
\* A walk of d links that ends with agent a.
Walk(R, A, a, d) ==
  \E f \in [0..d -> A] : f[d] = a /\ \A j \in 1..d : <<f[j - 1], f[j]>> \in R

\* The queue holds agents whose depth is no better than the best known, and that a walk of
\* that length reaches.
Queued(v) ==
  \A e \in ToSet(v.queue) : /\ e.agent \in DOMAIN v.best /\ ~Improves(v.by, e.depth, v.best[e.agent])
                            /\ Walk(v.adjacency, v.agents, e.agent, e.depth)

\* What an agent hands on is taken into account, or the agent is in the queue.
HandedOn(v) ==
  \A p \in v.adjacency : p[1] \in DOMAIN v.best /\ p[2] \in v.agents =>
    \/ [agent |-> p[1], depth |-> v.best[p[1]]] \in ToSet(v.queue)
    \/ p[2] \in DOMAIN v.best /\ ~Improves(v.by, v.best[p[1]] + 1, v.best[p[2]])

\* A depth comes of being a start, or of an agent that hands on and is as good.
Backed(v) ==
  \A a \in DOMAIN v.best :
    \/ a \in Starts(v.agents, v.adjacency) /\ v.best[a] = 0
    \/ \E p \in v.adjacency : /\ p[2] = a /\ p[1] \in DOMAIN v.best
                              /\ ~Improves(v.by, v.best[a], v.best[p[1]] + 1)

SearchTypes(v) ==
  /\ DOMAIN v = {"by", "agents", "adjacency", "queue", "best"}
  /\ v.by \in {"server", "console"} /\ IsFiniteSet(v.agents)
  /\ \A p \in v.adjacency : p = <<p[1], p[2]>>
  /\ v.queue \in Seq([agent : v.agents, depth : Nat])
  /\ v.best \in [DOMAIN v.best -> Nat] /\ DOMAIN v.best \subseteq v.agents
  /\ Starts(v.agents, v.adjacency) \subseteq DOMAIN v.best
  /\ v.by = "console" => \A a \in Starts(v.agents, v.adjacency) : v.best[a] = 0

DepthsOf(v) == SearchTypes(v) /\ Queued(v) /\ HandedOn(v) /\ Backed(v)

DepthsInv == IsFiniteSet(live) /\ IsSeq(stored) /\ (view # None => DepthsOf(view))

\* A set as a sequence.
LEMMA SetToSeqOK ==
  ASSUME NEW S, IsFiniteSet(S)
  PROVE  SetToSeq(S) \in Seq(S) /\ ToSet(SetToSeq(S)) = S
<1> DEFINE n == Cardinality(S)
           q == SetToSeq(S)
<1>1. n \in Nat /\ ExistsBijection(1..n, S)
  BY FS_CardinalityType
<1>2. \E f \in [1..n -> S] : IsInjective(f)
  BY <1>1 DEF ExistsBijection, Bijection, Injection
<1>3. q \in [1..n -> S] /\ IsInjective(q)
  BY <1>2 DEF SetToSeq
<1> HIDE DEF q
<1>4. q \in Injection(1..n, S)
  BY <1>3 DEF Injection, IsInjective
<1>5. IsFiniteSet(1..n) /\ Cardinality(1..n) = n
  BY <1>1, FS_Interval
<1>6. q \in Surjection(1..n, S)
  BY <1>4, <1>5, FS_Injection
<1>7. q \in Seq(S)
  BY <1>1, <1>3
<1>8. ToSet(q) = S
  BY <1>3, <1>6 DEF ToSet, Surjection
<1> QED BY <1>7, <1>8 DEF q

\* Two sequences, one after the other.
LEMMA ToSetConcat ==
  ASSUME NEW S, NEW q \in Seq(S), NEW r \in Seq(S)
  PROVE  q \o r \in Seq(S) /\ ToSet(q \o r) = ToSet(q) \cup ToSet(r)
<1>1. /\ q \o r \in Seq(S) /\ DOMAIN q = 1..Len(q) /\ DOMAIN r = 1..Len(r)
      /\ DOMAIN (q \o r) = 1..(Len(q) + Len(r)) /\ Len(q) \in Nat /\ Len(r) \in Nat
      /\ \A i \in 1..(Len(q) + Len(r)) : (q \o r)[i] = IF i <= Len(q) THEN q[i] ELSE r[i - Len(q)]
  OBVIOUS
<1>2. ToSet(q \o r) \subseteq ToSet(q) \cup ToSet(r)
  <2>1. ASSUME NEW i \in 1..(Len(q) + Len(r)) PROVE (q \o r)[i] \in ToSet(q) \cup ToSet(r)
    <3>1. CASE i <= Len(q)
      BY <1>1, <3>1 DEF ToSet
    <3>2. CASE ~(i <= Len(q))
      <4>1. i - Len(q) \in 1..Len(r)
        BY <1>1, <3>2
      <4> QED BY <1>1, <3>2, <4>1 DEF ToSet
    <3> QED BY <3>1, <3>2
  <2> QED BY <1>1, <2>1 DEF ToSet
<1>3. ToSet(q) \subseteq ToSet(q \o r)
  BY <1>1 DEF ToSet
<1>4. ToSet(r) \subseteq ToSet(q \o r)
  <2>1. ASSUME NEW i \in 1..Len(r) PROVE r[i] \in ToSet(q \o r)
    <3>1. Len(q) + i \in 1..(Len(q) + Len(r)) /\ ~(Len(q) + i <= Len(q)) /\ (Len(q) + i) - Len(q) = i
      BY <1>1
    <3>2. (q \o r)[Len(q) + i] = r[i]
      BY <1>1, <3>1
    <3> QED BY <1>1, <3>1, <3>2 DEF ToSet
  <2> QED BY <1>1, <2>1 DEF ToSet
<1> QED BY <1>1, <1>2, <1>3, <1>4

LEMMA SeqOfMore ==
  ASSUME NEW S, NEW T, S \subseteq T, NEW q \in Seq(S)
  PROVE  q \in Seq(T)
  OBVIOUS

LEMMA EntriesFinite ==
  ASSUME NEW A, IsFiniteSet(A), NEW d
  PROVE  IsFiniteSet([agent : A, depth : {d}])
<1> DEFINE f == [a \in A |-> [agent |-> a, depth |-> d]]
           T == [agent : A, depth : {d}]
<1>1. \A a \in A : f[a] \in T
  OBVIOUS
<1>2. ASSUME NEW e \in T PROVE e.agent \in A /\ e = f[e.agent]
  <2>1. e = [agent |-> e.agent, depth |-> e.depth] /\ e.agent \in A /\ e.depth = d
    OBVIOUS
  <2> QED BY <2>1
<1>3. DOMAIN f = A
  OBVIOUS
<1> HIDE DEF f, T
<1>4. {f[a] : a \in A} = T
  BY <1>1, <1>2
<1>5. IsFiniteSet({f[a] : a \in A})
  BY <1>3, ImageFinite
<1> QED BY <1>4, <1>5 DEF T

\* Who walks further than there are agents comes back.
LEMMA WalksReturn ==
  ASSUME NEW R, NEW A, IsFiniteSet(A), NEW a, NEW d \in Nat, d >= Cardinality(A), Walk(R, A, a, d)
  PROVE  \E b \in A : b \in Below(R, b)
<1>1. PICK f \in [0..d -> A] : \A j \in 1..d : <<f[j - 1], f[j]>> \in R
  BY DEF Walk
<1>2. IsFiniteSet(0..d) /\ Cardinality(0..d) = d + 1 /\ Cardinality(A) \in Nat
  BY FS_Interval, FS_CardinalityType
<1>3. PICK x \in 0..d, y \in 0..d : x < y /\ f[x] = f[y]
  <2>1. Cardinality(A) < Cardinality(0..d)
    BY <1>2
  <2>2. PICK x \in 0..d, y \in 0..d : x # y /\ f[x] = f[y]
    BY <1>2, <2>1, FS_PigeonHole
  <2>3. x < y \/ y < x
    BY <2>2
  <2> QED BY <2>2, <2>3
<1> DEFINE seconds == {p[2] : p \in R}
           b == f[y]
<1>4. b \in A /\ y - 1 \in 0..d /\ y \in 1..d
  BY <1>3
<1>5. b \in seconds
  <2>1. <<f[y - 1], f[y]>> \in R
    BY <1>1, <1>4
  <2> QED BY <2>1
<1>6. ASSUME NEW S \in SUBSET seconds, \A p \in R : p[1] \in S \cup {b} => p[2] \in S
      PROVE  b \in S
  <2> DEFINE outside == {j \in (x + 1)..y : f[j] \notin S}
  <2>1. SUFFICES outside = {}
    <3>1. y \in (x + 1)..y
      BY <1>3
    <3> QED BY <2>1, <3>1
  <2>2. SUFFICES ASSUME outside # {} PROVE FALSE
    OBVIOUS
  <2>3. PICK j \in outside : \A k \in outside : j <= k
    <3>1. outside \subseteq Nat
      BY <1>3
    <3> HIDE DEF outside
    <3> QED BY <2>2, <3>1, LeastNat
  <2>4. j \in 1..d /\ f[j] \notin S /\ j \in (x + 1)..y
    BY <1>3, <2>3
  <2>5. <<f[j - 1], f[j]>> \in R
    BY <1>1, <2>4
  <2>6. f[j - 1] \in S \cup {b}
    <3>1. CASE j = x + 1
      BY <1>3, <3>1
    <3>2. CASE j # x + 1
      <4>1. j - 1 \in (x + 1)..y /\ ~(j <= j - 1)
        BY <1>3, <2>4, <3>2
      <4>2. j - 1 \notin outside
        BY <2>3, <4>1
      <4> QED BY <4>1, <4>2
    <3> QED BY <3>1, <3>2
  <2>7. f[j] \in S
    <3> DEFINE p == <<f[j - 1], f[j]>>
    <3>1. p[1] = f[j - 1] /\ p[2] = f[j]
      OBVIOUS
    <3> HIDE DEF p
    <3> QED BY <1>6, <2>5, <2>6, <3>1 DEF p
  <2> QED BY <2>4, <2>7
<1>7. b \in Below(R, b)
  BY <1>5, <1>6 DEF Below
<1> QED BY <1>4, <1>7

\* A search begins.
LEMMA SearchBegins ==
  ASSUME NEW by \in {"server", "console"}, NEW agents, IsFiniteSet(agents),
         NEW adjacency, \A p \in adjacency : p = <<p[1], p[2]>>
  PROVE  DepthsOf(Search(by, agents, adjacency))
<1> DEFINE starts == Starts(agents, adjacency)
           first == [agent : starts, depth : {0}]
           v == Search(by, agents, adjacency)
<1>1. starts \subseteq agents
  BY DEF Starts
<1>2. IsFiniteSet(starts)
  BY <1>1, FS_Subset
<1>3. IsFiniteSet(first)
  BY <1>2, EntriesFinite
<1> HIDE DEF starts
<1>4. SetToSeq(first) \in Seq(first) /\ ToSet(SetToSeq(first)) = first
  BY <1>3, SetToSeqOK
<1>5. first \subseteq [agent : agents, depth : Nat]
  BY <1>1
<1>6. SetToSeq(first) \in Seq([agent : agents, depth : Nat])
  <2> HIDE DEF first
  <2> QED BY <1>4, <1>5, SeqOfMore
<1>7. /\ DOMAIN v = {"by", "agents", "adjacency", "queue", "best"}
      /\ v.by = by /\ v.agents = agents /\ v.adjacency = adjacency
      /\ v.queue = SetToSeq(first) /\ v.best = [a \in starts |-> 0]
  BY DEF Search, starts
<1>8. ToSet(v.queue) = first
  BY <1>4, <1>7
<1> HIDE DEF v, first
<1>9. DOMAIN v.best = starts /\ \A a \in starts : v.best[a] = 0
  BY <1>7
<1>10. SearchTypes(v)
  <2>1. v.best \in [DOMAIN v.best -> Nat]
    BY <1>7
  <2> QED BY <1>1, <1>6, <1>7, <1>9, <2>1 DEF SearchTypes, starts
<1>11. Queued(v)
  <2>1. ASSUME NEW e \in first PROVE /\ e.agent \in starts /\ e.depth = 0 /\ Walk(adjacency, agents, e.agent, e.depth)
    <3>1. e.agent \in starts /\ e.depth = 0
      BY DEF first
    <3> DEFINE f == [j \in 0..0 |-> e.agent]
    <3>2. f \in [0..e.depth -> agents] /\ f[e.depth] = e.agent /\ 1..e.depth = {}
      BY <1>1, <3>1
    <3> HIDE DEF f
    <3>3. Walk(adjacency, agents, e.agent, e.depth)
      BY <3>2 DEF Walk
    <3> QED BY <3>1, <3>3
  <2>2. ~Improves(by, 0, 0)
    BY DEF Improves
  <2> QED BY <1>7, <1>8, <1>9, <2>1, <2>2 DEF Queued
<1>12. HandedOn(v)
  <2>1. \A a \in starts : [agent |-> a, depth |-> 0] \in first
    BY DEF first
  <2> QED BY <1>8, <1>9, <2>1 DEF HandedOn
<1>13. Backed(v)
  BY <1>7, <1>9 DEF Backed, starts
<1> QED BY <1>10, <1>11, <1>12, <1>13 DEF DepthsOf, v

\* A walk goes on.
LEMMA WalkOn ==
  ASSUME NEW R, NEW A, NEW a, NEW d \in Nat, Walk(R, A, a, d), NEW b \in A, <<a, b>> \in R
  PROVE  Walk(R, A, b, d + 1)
<1>1. PICK f \in [0..d -> A] : f[d] = a /\ \A j \in 1..d : <<f[j - 1], f[j]>> \in R
  BY DEF Walk
<1> DEFINE g == [j \in 0..(d + 1) |-> IF j = d + 1 THEN b ELSE f[j]]
<1>2. g \in [0..(d + 1) -> A] /\ g[d + 1] = b
  OBVIOUS
<1>3. ASSUME NEW j \in 1..(d + 1) PROVE <<g[j - 1], g[j]>> \in R
  <2>1. j - 1 \in 0..(d + 1) /\ j - 1 # d + 1 /\ g[j - 1] = f[j - 1]
    OBVIOUS
  <2>2. CASE j = d + 1
    BY <1>1, <1>2, <2>1, <2>2
  <2>3. CASE j # d + 1
    <3>1. j \in 1..d /\ g[j] = f[j]
      BY <2>3
    <3> QED BY <1>1, <2>1, <3>1
  <2> QED BY <2>2, <2>3
<1> HIDE DEF g
<1> QED BY <1>2, <1>3 DEF Walk

LEMMA VisitDepths ==
  ASSUME DepthsOf(view), VisitAgent
  PROVE  DepthsOf(view')
<1> DEFINE head == Head(view.queue)
           h == head.agent
           e == head.depth + 1
           A == view.agents
           R == view.adjacency
           old == view.best
           new == view'.best
           more == {a \in A : <<h, a>> \in R /\ (a \in DOMAIN old => Improves(view.by, e, old[a]))}
           fresh == [agent : more, depth : {e}]
<1>1. SearchTypes(view) /\ Queued(view) /\ HandedOn(view) /\ Backed(view)
  BY DEF DepthsOf
<1>2. /\ head \in [agent : A, depth : Nat] /\ Tail(view.queue) \in Seq([agent : A, depth : Nat])
      /\ ToSet(view.queue) = ToSet(Tail(view.queue)) \cup {head}
  <2>1. view.queue # <<>> /\ view.queue \in Seq([agent : A, depth : Nat])
    BY <1>1 DEF VisitAgent, SearchTypes
  <2> QED BY <2>1, ToSetTail
<1>3. h \in A /\ head.depth \in Nat /\ e \in Nat /\ head = [agent |-> h, depth |-> e - 1]
  BY <1>2
<1>4. IsFiniteSet(more) /\ more \subseteq A
  BY <1>1, FS_Subset DEF SearchTypes
<1>5. view' = [view EXCEPT
                 !.queue = Tail(@) \o SetToSeq([agent : more, depth : {e}]),
                 !.best = [a \in DOMAIN @ \cup more |-> IF a \in more THEN e ELSE @[a]]]
  BY DEF VisitAgent
<1> HIDE DEF more
<1>6. SetToSeq(fresh) \in Seq(fresh) /\ ToSet(SetToSeq(fresh)) = fresh
  BY <1>4, EntriesFinite, SetToSeqOK
<1>7. fresh \subseteq [agent : A, depth : Nat]
  BY <1>3, <1>4
<1>8. /\ view'.by = view.by /\ view'.agents = A /\ view'.adjacency = R
      /\ view'.queue = Tail(view.queue) \o SetToSeq(fresh)
      /\ new = [a \in DOMAIN old \cup more |-> IF a \in more THEN e ELSE old[a]]
      /\ DOMAIN view' = {"by", "agents", "adjacency", "queue", "best"}
  BY <1>1, <1>5 DEF SearchTypes
<1> HIDE DEF fresh, head, h, e
<1>9. /\ view'.queue \in Seq([agent : A, depth : Nat])
      /\ ToSet(view'.queue) = ToSet(Tail(view.queue)) \cup fresh
  <2>1. SetToSeq(fresh) \in Seq([agent : A, depth : Nat])
    BY <1>6, <1>7, SeqOfMore
  <2> DEFINE S == [agent : A, depth : Nat]
             q == Tail(view.queue)
             r == SetToSeq(fresh)
  <2>2. q \in Seq(S) /\ r \in Seq(S)
    BY <1>2, <2>1
  <2> HIDE DEF S, q, r
  <2>3. q \o r \in Seq(S) /\ ToSet(q \o r) = ToSet(q) \cup ToSet(r)
    BY <2>2, ToSetConcat
  <2> QED BY <1>6, <1>8, <2>3 DEF S, q, r
<1>10. /\ \A a \in more : [agent |-> a, depth |-> e] \in fresh
       /\ \A x \in fresh : x.agent \in more /\ x.depth = e
  BY DEF fresh
<1>11. /\ DOMAIN new = DOMAIN old \cup more
       /\ \A a \in more : new[a] = e
       /\ \A a \in DOMAIN old \ more : new[a] = old[a]
  BY <1>8
<1>12. \A a \in DOMAIN old : old[a] \in Nat
  BY <1>1 DEF SearchTypes
<1>13. \A a \in more : <<h, a>> \in R /\ (a \in DOMAIN old => Improves(view.by, e, old[a]))
  BY DEF more
<1>14. view.by \in {"server", "console"}
  BY <1>1 DEF SearchTypes
<1>15. \A a \in DOMAIN old : IF view.by = "server" THEN new[a] >= old[a] ELSE new[a] <= old[a]
  <2> SUFFICES ASSUME NEW a \in DOMAIN old
               PROVE  IF view.by = "server" THEN new[a] >= old[a] ELSE new[a] <= old[a]
    OBVIOUS
  <2>1. CASE a \in more
    <3>1. new[a] = e /\ Improves(view.by, e, old[a]) /\ old[a] \in Nat
      BY <1>11, <1>12, <1>13, <2>1
    <3> QED BY <1>3, <3>1 DEF Improves
  <2>2. CASE a \notin more
    BY <1>11, <1>12, <2>2
  <2> QED BY <2>1, <2>2
<1>16. h \in DOMAIN old /\ ~Improves(view.by, e - 1, old[h]) /\ Walk(R, A, h, e - 1)
  <2>1. head \in ToSet(view.queue) /\ head.agent = h /\ head.depth = e - 1
    BY <1>2, <1>3 DEF h, e
  <2> QED BY <1>1, <2>1 DEF Queued
<1>17. SearchTypes(view')
  <2>1. new \in [DOMAIN new -> Nat] /\ DOMAIN new \subseteq A
    BY <1>1, <1>3, <1>4, <1>8, <1>12 DEF SearchTypes
  <2>2. ASSUME view.by = "console", NEW a \in Starts(A, R) PROVE new[a] = 0
    <3>1. a \in DOMAIN old /\ old[a] = 0
      BY <1>1, <2>2 DEF SearchTypes
    <3>2. new[a] <= 0 /\ new[a] \in Nat
      BY <1>3, <1>11, <1>12, <1>15, <2>2, <3>1
    <3> QED BY <3>2
  <2>3. Starts(A, R) \subseteq DOMAIN new
    BY <1>1, <1>11 DEF SearchTypes
  <2> QED BY <1>1, <1>8, <1>9, <2>1, <2>2, <2>3 DEF SearchTypes
<1>18. Queued(view')
  <2> SUFFICES ASSUME NEW x \in ToSet(view'.queue)
               PROVE  /\ x.agent \in DOMAIN new /\ ~Improves(view.by, x.depth, new[x.agent])
                      /\ Walk(R, A, x.agent, x.depth)
    BY <1>8 DEF Queued
  <2>1. CASE x \in fresh
    <3>1. x.agent \in more /\ x.depth = e /\ new[x.agent] = e /\ <<h, x.agent>> \in R /\ x.agent \in A
      BY <1>4, <1>10, <1>11, <1>13, <2>1
    <3>2. ~Improves(view.by, e, e)
      BY <1>3 DEF Improves
    <3>3. Walk(R, A, x.agent, (e - 1) + 1)
      BY <1>3, <1>16, <3>1, WalkOn DEF e
    <3>4. (e - 1) + 1 = e
      BY <1>3
    <3> QED BY <1>11, <3>1, <3>2, <3>3, <3>4
  <2>2. CASE x \in ToSet(Tail(view.queue))
    <3>1. /\ x.agent \in DOMAIN old /\ ~Improves(view.by, x.depth, old[x.agent])
          /\ Walk(R, A, x.agent, x.depth)
      BY <1>1, <1>2, <2>2 DEF Queued
    <3>2. x.depth \in Nat
      <4>1. ToSet(Tail(view.queue)) \subseteq [agent : A, depth : Nat]
        BY <1>2, ToSetFinite
      <4> QED BY <2>2, <4>1
    <3>3. new[x.agent] \in Nat
      BY <1>3, <1>11, <1>12, <3>1
    <3> QED BY <1>11, <1>12, <1>15, <3>1, <3>2, <3>3 DEF Improves
  <2> QED BY <1>9, <2>1, <2>2
<1>19. HandedOn(view')
  <2> SUFFICES ASSUME NEW p \in R, p[1] \in DOMAIN new, p[2] \in A
               PROVE  \/ [agent |-> p[1], depth |-> new[p[1]]] \in ToSet(view'.queue)
                      \/ p[2] \in DOMAIN new /\ ~Improves(view.by, new[p[1]] + 1, new[p[2]])
    BY <1>8 DEF HandedOn
  <2>1. CASE p[1] \in more
    BY <1>9, <1>10, <1>11, <2>1
  <2>2. CASE p[1] \notin more
    <3>1. p[1] \in DOMAIN old /\ new[p[1]] = old[p[1]]
      BY <1>11, <2>2
    <3>2. CASE p[1] = h /\ old[h] = e - 1
      <4>1. p = <<h, p[2]>> /\ old[p[1]] + 1 = e
        BY <1>1, <1>3, <3>2 DEF SearchTypes
      <4>2. CASE p[2] \in more
        BY <1>3, <1>11, <3>1, <4>1, <4>2 DEF Improves
      <4>3. CASE p[2] \notin more
        <5>1. p[2] \in DOMAIN old /\ ~Improves(view.by, e, old[p[2]])
          BY <4>1, <4>3 DEF more
        <5> QED BY <1>11, <3>1, <4>1, <4>3, <5>1
      <4> QED BY <4>2, <4>3
    <3>3. CASE ~(p[1] = h /\ old[h] = e - 1)
      <4>1. [agent |-> p[1], depth |-> old[p[1]]] # head
        BY <1>3, <3>3
      <4>2. \/ [agent |-> p[1], depth |-> old[p[1]]] \in ToSet(Tail(view.queue))
            \/ p[2] \in DOMAIN old /\ ~Improves(view.by, old[p[1]] + 1, old[p[2]])
        BY <1>1, <1>2, <3>1, <4>1 DEF HandedOn
      <4>3. CASE p[2] \in DOMAIN old /\ ~Improves(view.by, old[p[1]] + 1, old[p[2]])
        <5>1. new[p[2]] \in Nat /\ old[p[1]] \in Nat /\ old[p[2]] \in Nat
          BY <1>3, <1>11, <1>12, <3>1, <4>3
        <5> QED BY <1>11, <1>15, <3>1, <4>3, <5>1 DEF Improves
      <4> QED BY <1>9, <3>1, <4>2, <4>3
    <3> QED BY <3>2, <3>3
  <2> QED BY <2>1, <2>2
<1>20. Backed(view')
  <2> SUFFICES ASSUME NEW a \in DOMAIN new
               PROVE  \/ a \in Starts(A, R) /\ new[a] = 0
                      \/ \E p \in R : /\ p[2] = a /\ p[1] \in DOMAIN new
                                      /\ ~Improves(view.by, new[a], new[p[1]] + 1)
    BY <1>8 DEF Backed
  <2>1. CASE a \in more
    <3> DEFINE p == <<h, a>>
    <3>1. p \in R /\ p[1] = h /\ p[2] = a
      BY <1>13, <2>1
    <3>2. new[a] = e /\ h \in DOMAIN new /\ new[h] \in Nat /\ old[h] \in Nat
      BY <1>3, <1>11, <1>12, <1>16, <2>1
    <3>3. ~Improves(view.by, e, new[h] + 1)
      <4>1. CASE view.by = "server"
        BY <1>3, <1>15, <1>16, <3>2, <4>1 DEF Improves
      <4>2. CASE view.by = "console"
        <5>1. e - 1 >= old[h] /\ new[h] <= old[h]
          BY <1>3, <1>15, <1>16, <3>2, <4>2 DEF Improves
        <5> QED BY <1>3, <3>2, <4>2, <5>1 DEF Improves
      <4> QED BY <1>14, <4>1, <4>2
    <3> HIDE DEF p
    <3> QED BY <3>1, <3>2, <3>3
  <2>2. CASE a \notin more
    <3>1. a \in DOMAIN old /\ new[a] = old[a]
      BY <1>11, <2>2
    <3>2. CASE a \in Starts(A, R) /\ old[a] = 0
      BY <3>1, <3>2
    <3>3. CASE \E p \in R : /\ p[2] = a /\ p[1] \in DOMAIN old
                            /\ ~Improves(view.by, old[a], old[p[1]] + 1)
      <4>1. PICK p \in R : /\ p[2] = a /\ p[1] \in DOMAIN old
                           /\ ~Improves(view.by, old[a], old[p[1]] + 1)
        BY <3>3
      <4>2. new[p[1]] \in Nat /\ old[p[1]] \in Nat /\ old[a] \in Nat /\ p[1] \in DOMAIN new
        BY <1>3, <1>11, <1>12, <3>1, <4>1
      <4>3. ~Improves(view.by, new[a], new[p[1]] + 1)
        BY <1>15, <3>1, <4>1, <4>2 DEF Improves
      <4> QED BY <4>1, <4>2, <4>3
    <3> QED BY <1>1, <3>1, <3>2, <3>3 DEF Backed
  <2> QED BY <2>1, <2>2
<1> QED BY <1>17, <1>18, <1>19, <1>20 DEF DepthsOf

\* What is handed on, and to whom, are pairs of finitely many agents.
LEMMA AgentsFinite ==
  ASSUME IsFiniteSet(live), IsSeq(stored)
  PROVE  IsFiniteSet(TraceAgents)
<1> DEFINE facts == live \cup ToSet(stored)
           first == [f \in facts |-> f[1]]
           from == [id \in Timeline |-> messages[id].from]
           to == [id \in Timeline |-> messages[id].to]
<1>1. IsFiniteSet(facts)
  BY ToSetFinite, FS_Union DEF IsSeq
<1>2. {first[f] : f \in facts} = Timeline
  BY DEF Timeline
<1>3. DOMAIN first = facts /\ DOMAIN from = Timeline /\ DOMAIN to = Timeline
  OBVIOUS
<1> DEFINE senders == {from[id] : id \in Timeline}
           receivers == {to[id] : id \in Timeline}
<1>4. TraceAgents \subseteq senders \cup receivers
  BY DEF TraceAgents
<1> HIDE DEF facts, first, from, to
<1>5. IsFiniteSet(Timeline)
  BY <1>1, <1>2, <1>3, ImageFinite
<1>6. IsFiniteSet(senders) /\ IsFiniteSet(receivers)
  BY <1>3, <1>5, ImageFinite
<1> HIDE DEF senders, receivers
<1>7. IsFiniteSet(senders \cup receivers)
  BY <1>6, FS_Union
<1> QED BY <1>4, <1>7, FS_Subset

LEMMA InitDepths == ViewsInit => DepthsInv
<1> SUFFICES ASSUME ViewsInit PROVE DepthsInv
  OBVIOUS
<1>1. stored \in Seq({}) /\ live = {} /\ view = None
  BY DEF ViewsInit
<1> QED BY <1>1, FS_EmptySet DEF DepthsInv, IsSeq

LEMMA NextDepths == DepthsInv /\ [ViewsNext]_viewVars => DepthsInv'
<1> SUFFICES ASSUME DepthsInv, [ViewsNext]_viewVars PROVE DepthsInv'
  OBVIOUS
<1>1. CASE UNCHANGED viewVars
  BY <1>1 DEF viewVars, DepthsInv
<1>2. ASSUME NEW id \in DOMAIN messages, ReceiveTask(id) \/ PersistMessage(id) PROVE DepthsInv'
  <2>1. view = None /\ view' = view /\ (stored' = stored \/ \E x : stored' = Append(stored, x))
        /\ \E x : live' = live \cup {x}
    BY <1>2 DEF ReceiveTask, PersistMessage, Record
  <2>2. IsSeq(stored')
    <3>1. IsSeq(stored)
      BY DEF DepthsInv
    <3>2. CASE stored' = stored
      BY <3>1, <3>2
    <3>3. ASSUME NEW x, stored' = Append(stored, x) PROVE IsSeq(stored')
      <4>1. IsSeq(Append(stored, x))
        BY <3>1, AppendFacts
      <4> QED BY <3>3, <4>1
    <3> QED BY <2>1, <3>2, <3>3
  <2>3. (IsFiniteSet(live))'
    BY <2>1, FS_AddElement DEF DepthsInv
  <2> QED BY <2>1, <2>2, <2>3 DEF DepthsInv, IsSeq
<1>3. CASE RestartServer
  BY <1>3, FS_EmptySet DEF RestartServer, DepthsInv
<1>4. CASE OpenAgentView
  <2>1. /\ view' = Search("server", TraceAgents, Adjacency(AgentLinks(Served)))
        /\ UNCHANGED <<live, stored>>
    BY <1>4 DEF OpenAgentView
  <2>2. IsFiniteSet(TraceAgents)
    BY AgentsFinite DEF DepthsInv
  <2>3. \A p \in Adjacency(AgentLinks(Served)) : p = <<p[1], p[2]>>
    BY DEF Adjacency
  <2>4. DepthsOf(view')
    BY <2>1, <2>2, <2>3, SearchBegins
  <2> QED BY <2>1, <2>4 DEF DepthsInv
<1>5. CASE VisitAgent
  <2>1. view # None /\ UNCHANGED <<live, stored>>
    BY <1>5 DEF VisitAgent
  <2> QED BY <1>5, <2>1, VisitDepths DEF DepthsInv
<1>6. CASE LayOut
  <2>1. view # None /\ view' = Search("console", view.agents, view.adjacency)
        /\ UNCHANGED <<live, stored>>
    BY <1>6 DEF LayOut, Searched
  <2>2. IsFiniteSet(view.agents) /\ \A p \in view.adjacency : p = <<p[1], p[2]>>
    BY <2>1 DEF DepthsInv, DepthsOf, SearchTypes
  <2>3. DepthsOf(view')
    BY <2>1, <2>2, SearchBegins
  <2> QED BY <2>1, <2>3 DEF DepthsInv
<1> QED BY <1>1, <1>2, <1>3, <1>4, <1>5, <1>6 DEF ViewsNext

LEMMA DepthsExact == DepthsInv => AgentDepthsExact
<1> SUFFICES ASSUME DepthsInv, view # None PROVE AgentDepthsExact
  BY DEF AgentDepthsExact
<1> DEFINE A == view.agents
           R == view.adjacency
           best == view.best
           before(a) == {best[p[1]] + 1 : p \in {x \in R : x[2] = a /\ x[1] \in DOMAIN best}}
<1>1. SearchTypes(view) /\ Queued(view) /\ HandedOn(view) /\ Backed(view)
  BY DEF DepthsInv, DepthsOf
<1>2. \A a \in DOMAIN best : best[a] \in Nat /\ a \in A
  BY <1>1 DEF SearchTypes
<1>3. ASSUME view.queue = <<>>, NEW p \in R, p[1] \in DOMAIN best, p[2] \in A
      PROVE  p[2] \in DOMAIN best /\ ~Improves(view.by, best[p[1]] + 1, best[p[2]])
  BY <1>1, <1>3, EmptyToSet DEF HandedOn
<1>4. ASSUME Searched("server"), NEW a \in DOMAIN best PROVE best[a] = LongestOf(before(a))
  <2>1. view.queue = <<>> /\ view.by = "server"
    BY <1>4 DEF Searched
  <2>2. \A d \in before(a) : d \in Nat /\ d >= 1 /\ d <= best[a]
    BY <1>2, <1>3, <2>1 DEF Improves
  <2>3. best[a] \in before(a) \/ best[a] = 0
    <3>1. ASSUME NEW p \in R, p[2] = a, p[1] \in DOMAIN best,
                 ~Improves(view.by, best[a], best[p[1]] + 1)
          PROVE  best[a] \in before(a)
      <4>1. best[p[1]] + 1 \in before(a)
        BY <3>1
      <4>2. best[a] <= best[p[1]] + 1
        BY <1>2, <2>1, <3>1 DEF Improves
      <4>3. best[a] = best[p[1]] + 1
        BY <1>2, <2>2, <3>1, <4>1, <4>2
      <4> QED BY <4>1, <4>3
    <3> QED BY <1>1, <3>1 DEF Backed
  <2> HIDE DEF before
  <2>4. best[a] \in before(a) \cup {0} /\ best[a] \in Nat /\ \A x \in before(a) : best[a] >= x
    BY <1>2, <2>2, <2>3
  <2>5. ASSUME NEW d \in before(a) \cup {0}, \A x \in before(a) : d >= x PROVE d = best[a]
    <3>1. d \in Nat /\ d <= best[a]
      BY <2>2, <2>4
    <3>2. best[a] <= d
      BY <2>3, <2>4, <2>5, <3>1
    <3> QED BY <2>4, <3>1, <3>2
  <2> QED BY <2>4, <2>5 DEF LongestOf
<1>5. ASSUME Searched("console"), NEW a \in DOMAIN best
      PROVE  IF a \in Starts(A, R) THEN best[a] = 0
             ELSE best[a] \in before(a) /\ \A d \in before(a) : best[a] <= d
  <2>1. view.queue = <<>> /\ view.by = "console"
    BY <1>5 DEF Searched
  <2>2. CASE a \in Starts(A, R)
    BY <1>1, <2>1, <2>2 DEF SearchTypes
  <2>3. CASE a \notin Starts(A, R)
    <3>1. \A d \in before(a) : d \in Nat /\ best[a] <= d
      BY <1>2, <1>3, <2>1 DEF Improves
    <3>2. PICK p \in R : p[2] = a /\ p[1] \in DOMAIN best /\ ~Improves(view.by, best[a], best[p[1]] + 1)
      BY <1>1, <2>3 DEF Backed
    <3>3. best[p[1]] + 1 \in before(a)
      BY <3>2
    <3>4. best[a] >= best[p[1]] + 1
      BY <1>2, <2>1, <3>2 DEF Improves
    <3>5. best[a] = best[p[1]] + 1
      BY <1>2, <3>1, <3>2, <3>3, <3>4
    <3> QED BY <2>3, <3>1, <3>3, <3>5
  <2> QED BY <2>2, <2>3
<1>6. ASSUME NEW i \in DOMAIN view.queue, view.queue[i].depth >= Cardinality(A)
      PROVE  \E a \in A : a \in Below(R, a)
  <2>1. view.queue[i] \in [agent : A, depth : Nat] /\ view.queue[i] \in ToSet(view.queue)
    <3>1. view.queue \in Seq([agent : A, depth : Nat])
      BY <1>1 DEF SearchTypes
    <3>2. ToSet(view.queue) \subseteq [agent : A, depth : Nat]
      BY <3>1, ToSetFinite
    <3>3. view.queue[i] \in ToSet(view.queue)
      BY DEF ToSet
    <3> QED BY <3>2, <3>3
  <2>2. IsFiniteSet(A) /\ Walk(R, A, view.queue[i].agent, view.queue[i].depth)
    BY <1>1, <2>1 DEF SearchTypes, Queued
  <2>3. view.queue[i].depth \in Nat
    BY <2>1
  <2> QED BY <1>6, <2>2, <2>3, WalksReturn
<1> QED BY <1>4, <1>5, <1>6 DEF AgentDepthsExact

\* Where an agent stands in the Ops view says how work reached it: what computeAgentDepths()
\* comes to on the server is one more than the deepest of those that hand it work,
\* what computeOpsGraphAgentDepths() comes to in the console one more than the least deep
\* of them, and a search that does not end is on a cycle; for any traces, agents and links,
\* any order of recording and whether the process has restarted or not.
THEOREM AgentDepthsAreExact == ViewsSpec => []AgentDepthsExact
BY InitDepths, NextDepths, DepthsExact, PTL DEF ViewsSpec

-------------------------------------------------------------------------------
(* What the served graph says.                                               *)
\* Facts: ids of messages, each with its parent or without.
IsFacts(F) ==
  \A f \in F : /\ f = <<f[1], f[2]>> /\ f[1] \in DOMAIN messages /\ IsMessage(messages[f[1]])
               /\ f[2] \in {None, messages[f[1]].parent}

\* What the nodes and the edges say of facts.
SaysNode(n, F) ==
  /\ \E f \in F : f[1] = n.id
  /\ n.agent = messages[n.id].from /\ n.kind = messages[n.id].type
  /\ n.kind \in WorkKinds => n.to = messages[n.id].to
  /\ n.parent # None <=> \E f \in F : f[1] = n.id /\ f[2] # None

NodesSay(q, F) ==
  /\ \A i \in DOMAIN q : SaysNode(q[i], F)
  /\ \A f \in F : \E i \in DOMAIN q : q[i].id = f[1]
  /\ \A i, j \in DOMAIN q : q[i].id = q[j].id => i = j

SaysEdge(e, F) ==
  <<e.to, e.from>> \in F /\ e.from # None /\ e.kind = EdgeKind[messages[e.to].type]

EdgesSay(q, F) ==
  /\ \A i \in DOMAIN q : SaysEdge(q[i], F)
  /\ \A f \in F : f[2] # None => \E i \in DOMAIN q : q[i].to = f[1] /\ q[i].from = f[2]
  /\ \A i, j \in DOMAIN q : q[i].to = q[j].to /\ q[i].from = q[j].from => i = j

\* The nodes and the edges there may be.
Mentioned == {None} \cup {messages[id].from : id \in DOMAIN messages}
               \cup {messages[id].to : id \in DOMAIN messages}
               \cup {messages[id].parent : id \in DOMAIN messages}
NodeSet == [id : DOMAIN messages, agent : Mentioned,
            kind : {"task_request", "delegation", "task_response"}, to : Mentioned,
            parent : Mentioned]
EdgeSet == [from : Mentioned, to : DOMAIN messages,
            kind : {"delegates", "subtask", "responds_to"},
            fromAgent : Mentioned, toAgent : Mentioned]
GraphSet == [nodes : Seq(NodeSet), edges : Seq(EdgeSet)]

GraphSays(g, F) == g \in GraphSet /\ NodesSay(g.nodes, F) /\ EdgesSay(g.edges, F)

\* A node is added, or brought up to date.
LEMMA UpsertTyped ==
  ASSUME NEW q \in Seq(NodeSet), NEW n \in NodeSet
  PROVE  Upsert(q, n) \in Seq(NodeSet)
<1>1. CASE \E i \in DOMAIN q : q[i].id = n.id
  <2> DEFINE r == Upsert(q, n)
             up(x) == [x EXCEPT !.kind = n.kind, !.to = Given(n.to, @), !.parent = Given(n.parent, @)]
  <2>1. r = [i \in DOMAIN q |-> IF q[i].id # n.id THEN q[i] ELSE up(q[i])]
    BY <1>1 DEF Upsert
  <2>2. \A x \in NodeSet : up(x) \in NodeSet
    BY DEF NodeSet, Given
  <2> HIDE DEF r, up
  <2>3. Len(q) \in Nat /\ DOMAIN q = 1..Len(q) /\ \A i \in 1..Len(q) : q[i] \in NodeSet
    OBVIOUS
  <2>4. r \in [1..Len(q) -> NodeSet]
    BY <2>1, <2>2, <2>3
  <2> QED BY <2>3, <2>4 DEF r
<1>2. CASE ~ \E i \in DOMAIN q : q[i].id = n.id
  BY <1>2 DEF Upsert
<1> QED BY <1>1, <1>2

LEMMA UpsertSays ==
  ASSUME NEW q \in Seq(NodeSet), NEW F, IsFacts(F), NodesSay(q, F),
         NEW id \in DOMAIN messages, NEW parent, IsMessage(messages[id]),
         NEW n \in NodeSet, n.id = id, n.agent = messages[id].from, n.kind = messages[id].type,
         n.kind \in WorkKinds => n.to = messages[id].to, n.parent = parent
  PROVE  NodesSay(Upsert(q, n), F \cup {<<id, parent>>})
<1> DEFINE G == F \cup {<<id, parent>>}
           r == Upsert(q, n)
           up(x) == [x EXCEPT !.kind = n.kind, !.to = Given(n.to, @), !.parent = Given(n.parent, @)]
<1>1. /\ \A f \in F : f \in G
      /\ <<id, parent>> \in G /\ <<id, parent>>[1] = id /\ <<id, parent>>[2] = parent
      /\ \A f \in G : f \in F \/ (f[1] = id /\ f[2] = parent)
  OBVIOUS
<1> HIDE DEF G
<1>2. ASSUME NEW x \in NodeSet, SaysNode(x, F), x.id # id PROVE SaysNode(x, G)
  <2>1. \A f \in G : f[1] = x.id => f \in F
    BY <1>1, <1>2
  <2> QED BY <1>1, <1>2, <2>1 DEF SaysNode
<1>3. CASE \E i \in DOMAIN q : q[i].id = id
  <2>1. r = [i \in DOMAIN q |-> IF q[i].id # id THEN q[i] ELSE up(q[i])]
    BY <1>3 DEF Upsert
  <2>2. ASSUME NEW x \in NodeSet, SaysNode(x, F), x.id = id
        PROVE  up(x).id = id /\ SaysNode(up(x), G)
    <3> DEFINE y == up(x)
    <3>1. /\ y.id = id /\ y.agent = x.agent /\ y.kind = n.kind
          /\ y.to = (IF n.to # None THEN n.to ELSE x.to)
          /\ y.parent = (IF n.parent # None THEN n.parent ELSE x.parent)
      BY <2>2 DEF NodeSet, Given
    <3> HIDE DEF y, up
    <3>2. x.agent = messages[id].from /\ x.kind = messages[id].type
          /\ (x.kind \in WorkKinds => x.to = messages[id].to)
          /\ (x.parent # None <=> \E f \in F : f[1] = id /\ f[2] # None)
      BY <2>2 DEF SaysNode
    <3>3. \E f \in G : f[1] = id
      BY <1>1
    <3>4. y.kind \in WorkKinds => y.to = messages[id].to
      BY <3>1, <3>2
    <3>5. y.parent # None <=> \E f \in G : f[1] = id /\ f[2] # None
      <4>1. CASE parent # None
        BY <1>1, <3>1, <4>1
      <4>2. CASE parent = None
        <5>1. y.parent = x.parent
          BY <3>1, <4>2
        <5>2. (\E f \in G : f[1] = id /\ f[2] # None) <=> \E f \in F : f[1] = id /\ f[2] # None
          BY <1>1, <4>2
        <5> QED BY <3>2, <5>1, <5>2
      <4> QED BY <4>1, <4>2
    <3>6. SaysNode(y, G)
      BY <3>1, <3>2, <3>3, <3>4, <3>5 DEF SaysNode
    <3> QED BY <3>1, <3>6 DEF y
  <2> HIDE DEF r, up
  <2>3. \A i \in DOMAIN q : q[i] \in NodeSet /\ SaysNode(q[i], F)
    BY DEF NodesSay
  <2>4. DOMAIN r = DOMAIN q /\ \A i \in DOMAIN q : r[i].id = q[i].id /\ SaysNode(r[i], G)
    BY <1>2, <2>1, <2>2, <2>3
  <2>5. \A f \in G : \E i \in DOMAIN r : r[i].id = f[1]
    BY <1>1, <1>3, <2>4 DEF NodesSay
  <2>6. NodesSay(r, G)
    BY <2>4, <2>5 DEF NodesSay
  <2> QED BY <2>6 DEF r, G
<1>4. CASE ~ \E i \in DOMAIN q : q[i].id = id
  <2>1. r = Append(q, n)
    BY <1>4 DEF Upsert
  <2>2. /\ DOMAIN r = DOMAIN q \cup {Len(q) + 1} /\ r[Len(q) + 1] = n
        /\ \A i \in DOMAIN q : r[i] = q[i] /\ q[i] \in NodeSet
    BY <2>1, ToSetAppend
  <2> HIDE DEF r
  <2>3. \A i \in DOMAIN q : SaysNode(r[i], G)
    BY <1>2, <1>4, <2>2 DEF NodesSay
  <2>4. SaysNode(n, G)
    <3>1. \A f \in F : f[1] # id
      BY <1>4 DEF NodesSay
    <3> QED BY <1>1, <3>1 DEF SaysNode
  <2>5. \A f \in G : \E i \in DOMAIN r : r[i].id = f[1]
    BY <1>1, <2>2 DEF NodesSay
  <2>6. \A i, j \in DOMAIN r : r[i].id = r[j].id => i = j
    BY <1>4, <2>2 DEF NodesSay
  <2>7. NodesSay(r, G)
    BY <2>2, <2>3, <2>4, <2>5, <2>6 DEF NodesSay
  <2> QED BY <2>7 DEF r, G
<1> QED BY <1>3, <1>4

\* An edge is added unless it is there.
LEMMA AddEdgeSays ==
  ASSUME NEW q \in Seq(EdgeSet), NEW F, IsFacts(F), EdgesSay(q, F),
         NEW id \in DOMAIN messages, NEW parent, parent # None,
         NEW e \in EdgeSet, e.from = parent, e.to = id, e.kind = EdgeKind[messages[id].type]
  PROVE  AddEdge(q, e) \in Seq(EdgeSet) /\ EdgesSay(AddEdge(q, e), F \cup {<<id, parent>>})
<1> DEFINE G == F \cup {<<id, parent>>}
<1>1. /\ \A f \in F : f \in G
      /\ <<id, parent>> \in G
      /\ \A f \in G : f \in F \/ (f[1] = id /\ f[2] = parent)
  OBVIOUS
<1> HIDE DEF G
<1>2. \A i \in DOMAIN q : SaysEdge(q[i], G) /\ q[i].kind = EdgeKind[messages[q[i].to].type]
  BY <1>1 DEF EdgesSay, SaysEdge
<1>3. CASE \E i \in DOMAIN q : q[i].from = e.from /\ q[i].to = e.to /\ q[i].kind = e.kind
  <2>1. AddEdge(q, e) = q
    BY <1>3 DEF AddEdge
  <2>2. EdgesSay(q, G)
    BY <1>1, <1>2, <1>3 DEF EdgesSay
  <2> QED BY <2>1, <2>2 DEF G
<1>4. CASE ~ \E i \in DOMAIN q : q[i].from = e.from /\ q[i].to = e.to /\ q[i].kind = e.kind
  <2> DEFINE r == Append(q, e)
  <2>1. AddEdge(q, e) = r
    BY <1>4 DEF AddEdge
  <2>2. /\ DOMAIN r = DOMAIN q \cup {Len(q) + 1} /\ r[Len(q) + 1] = e /\ r \in Seq(EdgeSet)
        /\ \A i \in DOMAIN q : r[i] = q[i]
    BY ToSetAppend
  <2> HIDE DEF r
  <2>3. SaysEdge(e, G)
    BY <1>1 DEF SaysEdge
  <2>4. \A i \in DOMAIN q : ~(q[i].from = parent /\ q[i].to = id)
    BY <1>2, <1>4
  <2>5. \A f \in G : f[2] # None => \E i \in DOMAIN r : r[i].to = f[1] /\ r[i].from = f[2]
    BY <1>1, <2>2 DEF EdgesSay
  <2>6. \A i, j \in DOMAIN r : r[i].to = r[j].to /\ r[i].from = r[j].from => i = j
    BY SMTT(30), <2>2, <2>4 DEF EdgesSay
  <2>7. EdgesSay(r, G)
    BY <1>2, <2>2, <2>3, <2>5, <2>6 DEF EdgesSay
  <2> QED BY <2>1, <2>2, <2>7 DEF G
<1> QED BY <1>3, <1>4

\* A message is applied.
LEMMA ApplySays ==
  ASSUME NEW g, NEW F, IsFacts(F), GraphSays(g, F),
         NEW id \in DOMAIN messages, IsMessage(messages[id]),
         NEW m, m.type = messages[id].type, m.from = messages[id].from, m.to = messages[id].to,
         NEW parent, parent \in {None, messages[id].parent}
  PROVE  GraphSays(ApplyMessage(g, id, m, parent), F \cup {<<id, parent>>})
<1> DEFINE G == F \cup {<<id, parent>>}
           to == IF m.type = "task_response" THEN None ELSE m.to
           n == [id |-> id, agent |-> m.from, kind |-> m.type, to |-> to, parent |-> parent]
           nodes == Upsert(g.nodes, n)
           from == AgentForMessage(nodes, parent, m.from)
           e == [from |-> parent, to |-> id, kind |-> EdgeKind[m.type], fromAgent |-> from,
                 toAgent |-> IF m.type = "task_response" THEN m.from ELSE m.to]
           edges == IF parent = None THEN g.edges ELSE AddEdge(g.edges, e)
<1>1. ApplyMessage(g, id, m, parent) = [nodes |-> nodes, edges |-> edges]
  BY DEF ApplyMessage
<1>2. /\ g.nodes \in Seq(NodeSet) /\ g.edges \in Seq(EdgeSet)
      /\ NodesSay(g.nodes, F) /\ EdgesSay(g.edges, F)
  BY DEF GraphSays, GraphSet
<1>3. /\ m.type \in {"task_request", "delegation", "task_response"}
      /\ m.from \in Mentioned /\ m.to \in Mentioned /\ parent \in Mentioned /\ None \in Mentioned
  BY DEF IsMessage, Mentioned
<1>4. n \in NodeSet
  BY <1>3 DEF NodeSet
<1>5. n.id = id /\ n.agent = messages[id].from /\ n.kind = messages[id].type /\ n.parent = parent
      /\ (n.kind \in WorkKinds => n.to = messages[id].to)
  BY DEF WorkKinds
<1> HIDE DEF n
<1>6. nodes \in Seq(NodeSet)
  BY <1>2, <1>4, UpsertTyped
<1>7. NodesSay(nodes, G)
  BY <1>2, <1>4, <1>5, UpsertSays
<1> HIDE DEF nodes
<1>8. from \in Mentioned
  <2>1. CASE \E i \in DOMAIN nodes : nodes[i].id = parent
    <3> DEFINE k == CHOOSE i \in DOMAIN nodes : nodes[i].id = parent
    <3>1. k \in DOMAIN nodes
      BY <2>1
    <3> HIDE DEF k
    <3>2. nodes[k] \in NodeSet
      BY <1>6, <3>1
    <3>3. nodes[k].agent \in Mentioned
      BY <3>2 DEF NodeSet
    <3> QED BY <2>1, <3>3 DEF AgentForMessage, k
  <2>2. CASE ~ \E i \in DOMAIN nodes : nodes[i].id = parent
    BY <1>3, <2>2 DEF AgentForMessage
  <2> QED BY <2>1, <2>2
<1> HIDE DEF from
<1>9. e \in EdgeSet
  <2>1. EdgeKind[m.type] \in {"delegates", "subtask", "responds_to"}
    BY <1>3 DEF EdgeKind
  <2> QED BY <1>3, <1>8, <2>1 DEF EdgeSet
<1>10. e.from = parent /\ e.to = id /\ e.kind = EdgeKind[messages[id].type]
  OBVIOUS
<1> HIDE DEF e
<1>11. edges \in Seq(EdgeSet) /\ EdgesSay(edges, G)
  <2>1. CASE parent = None
    <3>1. edges = g.edges
      BY <2>1
    <3>2. \A f \in G : f \in F \/ f[2] = None
      BY <2>1
    <3>3. F \subseteq G
      OBVIOUS
    <3> HIDE DEF edges, G
    <3>4. EdgesSay(g.edges, G)
      BY <1>2, <3>2, <3>3 DEF EdgesSay, SaysEdge
    <3> QED BY <1>2, <3>1, <3>4
  <2>2. CASE parent # None
    BY <1>2, <1>9, <1>10, <2>2, AddEdgeSays
  <2> QED BY <2>1, <2>2
<1> HIDE DEF edges, G
<1>12. [nodes |-> nodes, edges |-> edges] \in GraphSet
  BY <1>6, <1>11 DEF GraphSet
<1> QED BY <1>1, <1>7, <1>11, <1>12 DEF GraphSays, G

\* Nothing recorded.
LEMMA NothingSaid == GraphSays(NoGraph, {})
<1>1. NoGraph \in GraphSet
  BY DEF NoGraph, GraphSet
<1> QED BY <1>1 DEF GraphSays, NodesSay, EdgesSay, NoGraph

-------------------------------------------------------------------------------
(* The graph rebuilt from memory.                                            *)
EntryFor(e, id) == id \in DOMAIN messages /\ e = EntryOf(id, messages[id], messages[id].parent)

EntriesOK ==
  /\ \A id \in DOMAIN messages : IsMessage(messages[id])
  /\ Len(entries) \in Nat /\ DOMAIN entries = 1..Len(entries)
  /\ \A i \in 1..Len(entries) : \E id \in DOMAIN messages : EntryFor(entries[i], id)

StoredUpTo(n) == {<<entries[i].message_id, entries[i].parent>> : i \in 1..n}

LEMMA StoredFacts ==
  ASSUME EntriesOK, NEW n \in 0..Len(entries)
  PROVE  IsFacts(StoredUpTo(n))
<1> SUFFICES ASSUME NEW i \in 1..n
             PROVE  /\ entries[i].message_id \in DOMAIN messages
                    /\ IsMessage(messages[entries[i].message_id])
                    /\ entries[i].parent = messages[entries[i].message_id].parent
  BY DEF IsFacts, StoredUpTo
<1>1. i \in 1..Len(entries)
  BY DEF EntriesOK
<1>2. PICK id \in DOMAIN messages : EntryFor(entries[i], id)
  BY <1>1 DEF EntriesOK
<1>3. entries[i].message_id = id /\ entries[i].parent = messages[id].parent
  BY <1>2 DEF EntryFor, EntryOf
<1> QED BY <1>3 DEF EntriesOK

\* An entry is applied.
LEMMA ApplyEntrySays ==
  ASSUME EntriesOK, NEW n \in 1..Len(entries), NEW g, NEW F, IsFacts(F), GraphSays(g, F)
  PROVE  GraphSays(ApplyEntry(g, entries[n]), F \cup {<<entries[n].message_id, entries[n].parent>>})
<1>1. PICK id \in DOMAIN messages : EntryFor(entries[n], id)
  BY DEF EntriesOK
<1> DEFINE e == entries[n]
           m == [type |-> e.kind, from |-> e.agent_id, to |-> e.to]
<1>2. /\ e.message_id = id /\ e.parent = messages[id].parent /\ e.kind = messages[id].type
      /\ m.type = messages[id].type /\ m.from = messages[id].from /\ m.to = messages[id].to
  BY <1>1 DEF EntryFor, EntryOf
<1>3. IsMessage(messages[id])
  BY DEF EntriesOK
<1>4. ApplyEntry(g, e) = ApplyMessage(g, e.message_id, m, e.parent)
  BY <1>2, <1>3 DEF ApplyEntry, IsMessage
<1> HIDE DEF e, m
<1>5. GraphSays(ApplyMessage(g, id, m, e.parent), F \cup {<<id, e.parent>>})
  BY <1>2, <1>3, ApplySays
<1> QED BY <1>2, <1>4, <1>5 DEF e

\* The rebuilt graph says what the entries say that the query returns.
LEMMA RebuiltSays ==
  ASSUME EntriesOK
  PROVE  Queried \in 0..Len(entries) /\ GraphSays(Rebuilt, StoredUpTo(Queried))
<1> DEFINE N == Queried
           upTo[n \in 0..N] == IF n = 0 THEN NoGraph ELSE ApplyEntry(upTo[n - 1], entries[n])
           S == {g \in GraphSet : \E F : IsFacts(F) /\ GraphSays(g, F)}
           step == [p \in (1..N) \X S |-> ApplyEntry(p[2], entries[p[1]])]
<1>1. Rebuilt = upTo[N]
  BY DEF Rebuilt
<1>2. N \in Nat /\ N \in 0..Len(entries) /\ Len(entries) \in Nat
  BY ViewBounds DEF EntriesOK, Queried
<1>3. NoGraph \in S
  <2>1. IsFacts({})
    BY DEF IsFacts
  <2> QED BY <2>1, NothingSaid DEF GraphSays
<1>4. ASSUME NEW n \in 1..N, NEW g \in S PROVE ApplyEntry(g, entries[n]) \in S
  <2>0. n \in 1..Len(entries)
    BY <1>2
  <2>1. PICK F : IsFacts(F) /\ GraphSays(g, F)
    OBVIOUS
  <2> DEFINE G == F \cup {<<entries[n].message_id, entries[n].parent>>}
  <2>2. GraphSays(ApplyEntry(g, entries[n]), G)
    BY <2>0, <2>1, ApplyEntrySays
  <2>3. IsFacts(G)
    <3>1. PICK id \in DOMAIN messages : EntryFor(entries[n], id)
      BY <2>0 DEF EntriesOK
    <3>2. /\ entries[n].message_id \in DOMAIN messages
          /\ IsMessage(messages[entries[n].message_id])
          /\ entries[n].parent = messages[entries[n].message_id].parent
      BY <3>1 DEF EntryFor, EntryOf, EntriesOK
    <3> QED BY <2>1, <3>2 DEF IsFacts
  <2> HIDE DEF G
  <2> QED BY <2>2, <2>3 DEF GraphSays
<1> HIDE DEF S
<1>5. step \in [(1..N) \X S -> S]
  BY <1>4
<1>6. PICK f \in [0..N -> S] : Recursively(f, N, NoGraph, step)
  <2> HIDE DEF step, N
  <2> QED BY <1>2, <1>3, <1>5, RecursionIs
<1>7. f = [n \in 0..N |-> IF n = 0 THEN NoGraph ELSE ApplyEntry(f[n - 1], entries[n])]
  <2>1. ASSUME NEW n \in 0..N, n # 0 PROVE step[<<n, f[n - 1]>>] = ApplyEntry(f[n - 1], entries[n])
    <3>1. n \in 1..N /\ n - 1 \in 0..N /\ f[n - 1] \in S
      BY <1>2, <2>1
    <3> QED BY <3>1
  <2> HIDE DEF step
  <2> QED BY <1>6, <2>1 DEF Recursively
<1>8. upTo = [n \in 0..N |-> IF n = 0 THEN NoGraph ELSE ApplyEntry(upTo[n - 1], entries[n])]
  BY <1>7
<1> HIDE DEF upTo
<1>9. \A n \in 0..N : GraphSays(upTo[n], StoredUpTo(n))
  <2> DEFINE bad == {n \in 0..N : ~GraphSays(upTo[n], StoredUpTo(n))}
  <2>1. SUFFICES ASSUME bad # {} PROVE FALSE
    OBVIOUS
  <2>2. PICK n \in bad : \A k \in bad : n <= k
    <3>1. bad \subseteq Nat
      OBVIOUS
    <3> HIDE DEF bad
    <3> QED BY <2>1, <3>1, LeastNat
  <2>3. n # 0
    <3>1. upTo[0] = NoGraph /\ StoredUpTo(0) = {}
      BY <1>2, <1>8 DEF StoredUpTo
    <3> QED BY <2>2, <3>1, NothingSaid
  <2>4. /\ n - 1 \in 0..N /\ n \in 1..N /\ ~(n <= n - 1)
        /\ n - 1 \in 0..Len(entries) /\ n \in 1..Len(entries)
    BY <1>2, <2>3
  <2>5. GraphSays(upTo[n - 1], StoredUpTo(n - 1)) /\ IsFacts(StoredUpTo(n - 1))
    BY <2>2, <2>4, StoredFacts
  <2>6. upTo[n] = ApplyEntry(upTo[n - 1], entries[n])
    BY <1>8, <2>3
  <2>7. StoredUpTo(n) = StoredUpTo(n - 1) \cup {<<entries[n].message_id, entries[n].parent>>}
    <3>1. \A i : i \in 1..n <=> (i \in 1..(n - 1) \/ i = n)
      BY <2>4
    <3> QED BY <3>1 DEF StoredUpTo
  <2>8. GraphSays(upTo[n], StoredUpTo(n))
    BY <2>4, <2>5, <2>6, <2>7, ApplyEntrySays
  <2> QED BY <2>2, <2>8
<1>10. N \in 0..N
  BY <1>2
<1> QED BY <1>1, <1>2, <1>9, <1>10

\* What was stored is what the entries say, in their order.
StoredOK ==
  /\ IsSeq(stored) /\ Len(stored) = Len(entries)
  /\ \A i \in 1..Len(entries) : stored[i] = <<entries[i].message_id, entries[i].parent>>

GraphInv ==
  /\ EntriesOK /\ IsSeq(entries) /\ StoredOK
  /\ IsFacts(live) /\ GraphSays(graph, live)

LEMMA InitGraph == ViewsInit => GraphInv
<1> SUFFICES ASSUME ViewsInit PROVE GraphInv
  OBVIOUS
<1>1. entries = <<>> /\ live = {} /\ graph = NoGraph /\ stored = <<>> /\ messages \in Traces
  BY DEF ViewsInit
<1>2. Len(entries) = 0 /\ DOMAIN entries = 1..Len(entries) /\ entries \in Seq({})
  BY <1>1
<1>3. StoredOK
  BY <1>1, <1>2 DEF StoredOK, IsSeq
<1>4. IsFacts({})
  BY DEF IsFacts
<1>5. EntriesOK
  BY <1>1, <1>2, TracesAssumption DEF EntriesOK
<1> QED BY <1>1, <1>2, <1>3, <1>4, <1>5, NothingSaid DEF GraphInv, IsSeq

\* A message is recorded; what the memory store takes of it, or not.
LEMMA RecordSays ==
  ASSUME GraphInv, NEW id \in DOMAIN messages, NEW parent, parent \in {None, messages[id].parent},
         Record(id, parent)
  PROVE  messages' = messages /\ (IsFacts(live) /\ GraphSays(graph, live))'
<1>1. /\ messages' = messages /\ graph' = ApplyMessage(graph, id, messages[id], parent)
      /\ live' = live \cup {<<id, parent>>}
  BY DEF Record
<1>2. IsMessage(messages[id])
  BY DEF GraphInv, EntriesOK
<1>3. GraphSays(ApplyMessage(graph, id, messages[id], parent), live \cup {<<id, parent>>})
  <2> DEFINE m == messages[id]
  <2>1. m.type = messages[id].type /\ m.from = messages[id].from /\ m.to = messages[id].to
    OBVIOUS
  <2> HIDE DEF m
  <2>2. GraphSays(ApplyMessage(graph, id, m, parent), live \cup {<<id, parent>>})
    BY <1>2, <2>1, ApplySays DEF GraphInv
  <2> QED BY <2>2 DEF m
<1>4. IsFacts(live \cup {<<id, parent>>})
  BY <1>2 DEF GraphInv, IsFacts
<1>5. (IsFacts(live))'
  BY <1>1, <1>4 DEF IsFacts
<1>6. (GraphSays(graph, live))'
  <2> DEFINE g == ApplyMessage(graph, id, messages[id], parent)
             F == live \cup {<<id, parent>>}
  <2> HIDE DEF g, F
  <2>1. g = graph' /\ F = live' /\ GraphSays(g, F) /\ messages' = messages
    BY <1>1, <1>3 DEF g, F
  <2>2. /\ (graph \in GraphSet)' /\ (NodesSay(graph.nodes, live))'
        /\ (EdgesSay(graph.edges, live))'
    BY <2>1 DEF GraphSays, GraphSet, NodeSet, EdgeSet, Mentioned, NodesSay, EdgesSay, SaysNode, SaysEdge
  <2> QED BY <2>2 DEF GraphSays
<1> QED BY <1>1, <1>5, <1>6

\* An entry is stored.
LEMMA EntryIsStored ==
  ASSUME GraphInv, NEW id \in DOMAIN messages, messages' = messages,
         entries' = Append(entries, EntryOf(id, messages[id], messages[id].parent)),
         stored' = Append(stored, <<id, messages[id].parent>>)
  PROVE  (EntriesOK /\ IsSeq(entries) /\ StoredOK)'
<1> DEFINE e == EntryOf(id, messages[id], messages[id].parent)
           n == Len(entries)
<1>0. IsSeq(entries) /\ EntriesOK /\ StoredOK
  BY DEF GraphInv
<1>1. e.message_id = id /\ e.parent = messages[id].parent /\ EntryFor(e, id)
  BY DEF EntryOf, EntryFor
<1> HIDE DEF e
<1>2. /\ IsSeq(Append(entries, e)) /\ Len(Append(entries, e)) = n + 1
      /\ Append(entries, e)[n + 1] = e
      /\ \A i \in 1..n : Append(entries, e)[i] = entries[i]
  BY <1>0, AppendFacts
<1>3. entries' = Append(entries, e)
  BY DEF e
<1>4. /\ (IsSeq(entries))' /\ Len(entries') = n + 1 /\ entries'[n + 1] = e
      /\ \A i \in 1..n : entries'[i] = entries[i]
  BY <1>2, <1>3 DEF IsSeq
<1>5. n \in Nat /\ Len(entries') \in Nat /\ DOMAIN entries' = 1..Len(entries')
  <2>1. n \in Nat
    BY <1>0, SeqFacts
  <2>2. PICK S : entries' \in Seq(S)
    BY <1>4 DEF IsSeq
  <2> QED BY <2>1, <2>2
<1> HIDE DEF n
<1>6. \A i \in 1..(n + 1) : i \in 1..n \/ i = n + 1
  BY <1>5
<1>7. (EntriesOK)'
  <2>1. \A i \in 1..(n + 1) : \E x \in DOMAIN messages : EntryFor(entries'[i], x)
    BY <1>0, <1>1, <1>4, <1>6 DEF EntriesOK, n
  <2>2. \A i \in 1..Len(entries') : \E x \in DOMAIN messages' : (EntryFor(entries[i], x))'
    BY <1>4, <2>1 DEF EntryFor
  <2> QED BY <1>0, <1>5, <2>2 DEF EntriesOK
<1>8. (StoredOK)'
  <2> DEFINE f == <<id, messages[id].parent>>
  <2>1. /\ IsSeq(stored) /\ Len(stored) = n
        /\ \A i \in 1..n : stored[i] = <<entries[i].message_id, entries[i].parent>>
    BY <1>0 DEF StoredOK, n
  <2>2. stored' = Append(stored, f) /\ f = <<e.message_id, e.parent>>
    BY <1>1
  <2> HIDE DEF f
  <2>3. /\ IsSeq(stored') /\ Len(stored') = n + 1 /\ stored'[n + 1] = f
        /\ \A i \in 1..n : stored'[i] = stored[i]
    BY <2>1, <2>2, AppendFacts
  <2>4. \A i \in 1..(n + 1) : stored'[i] = <<entries'[i].message_id, entries'[i].parent>>
    BY <1>4, <1>6, <2>1, <2>2, <2>3
  <2> QED BY <1>4, <2>3, <2>4 DEF StoredOK, IsSeq
<1> QED BY <1>4, <1>7, <1>8

LEMMA EntriesKept ==
  ASSUME GraphInv, UNCHANGED <<messages, entries, stored>>
  PROVE  (EntriesOK /\ IsSeq(entries) /\ StoredOK)'
BY DEF GraphInv, EntriesOK, EntryFor, IsSeq, StoredOK

LEMMA GraphKept ==
  ASSUME GraphInv, UNCHANGED <<messages, graph, live>>
  PROVE  (IsFacts(live) /\ GraphSays(graph, live))'
<1>1. IsFacts(live) /\ GraphSays(graph, live)
  BY DEF GraphInv
<1>2. (IsFacts(live))'
  BY <1>1 DEF IsFacts
<1>3. (GraphSays(graph, live))'
  BY <1>1 DEF GraphSays, GraphSet, NodeSet, EdgeSet, Mentioned, NodesSay, EdgesSay, SaysNode, SaysEdge
<1> QED BY <1>2, <1>3

LEMMA NextGraph == GraphInv /\ [ViewsNext]_viewVars => GraphInv'
<1> SUFFICES ASSUME GraphInv, [ViewsNext]_viewVars PROVE GraphInv'
  OBVIOUS
<1>1. ASSUME UNCHANGED <<messages, graph, entries, live, stored>> PROVE GraphInv'
  BY <1>1, EntriesKept, GraphKept DEF GraphInv
<1>2. CASE UNCHANGED viewVars \/ OpenAgentView \/ VisitAgent \/ LayOut
  BY <1>1, <1>2 DEF viewVars, OpenAgentView, VisitAgent, LayOut
<1>3. ASSUME NEW id \in DOMAIN messages, ReceiveTask(id) PROVE GraphInv'
  <2> DEFINE parent == IF messages[id].type = "task_request" THEN None ELSE messages[id].parent
  <2>1. Record(id, parent) /\ UNCHANGED <<entries, stored>>
    BY <1>3 DEF ReceiveTask
  <2>2. parent \in {None, messages[id].parent}
    OBVIOUS
  <2> HIDE DEF parent
  <2>3. messages' = messages /\ (IsFacts(live) /\ GraphSays(graph, live))'
    BY <2>1, <2>2, RecordSays
  <2> QED BY <2>1, <2>3, EntriesKept DEF GraphInv
<1>4. ASSUME NEW id \in DOMAIN messages, PersistMessage(id) PROVE GraphInv'
  <2> DEFINE parent == messages[id].parent
  <2>1. Record(id, parent) /\ parent \in {None, messages[id].parent}
    BY <1>4 DEF PersistMessage
  <2>2. messages' = messages /\ (IsFacts(live) /\ GraphSays(graph, live))'
    BY <2>1, RecordSays
  <2>3. CASE UNCHANGED <<entries, stored>>
    BY <2>2, <2>3, EntriesKept DEF GraphInv
  <2>4. CASE /\ entries' = Append(entries, EntryOf(id, messages[id], messages[id].parent))
             /\ stored' = Append(stored, <<id, messages[id].parent>>)
    BY <2>2, <2>4, EntryIsStored DEF GraphInv
  <2> QED BY <1>4, <2>3, <2>4 DEF PersistMessage
<1>5. CASE RestartServer
  <2>1. graph' = NoGraph /\ live' = {} /\ UNCHANGED <<messages, entries, stored>>
    BY <1>5 DEF RestartServer
  <2>2. (IsFacts(live))'
    BY <2>1 DEF IsFacts
  <2>3. (GraphSays(graph, live))'
    <3>1. (graph.nodes = <<>> /\ graph.edges = <<>>)' /\ NoGraph \in (GraphSet)'
      BY <2>1 DEF NoGraph, GraphSet
    <3> QED BY <2>1, <3>1 DEF GraphSays, NodesSay, EdgesSay
  <2> QED BY <2>1, <2>2, <2>3, EntriesKept DEF GraphInv
<1> QED BY <1>2, <1>3, <1>4, <1>5 DEF ViewsNext

\* Whichever graph is served, it says the facts.
LEMMA ServedSays ==
  ASSUME GraphInv
  PROVE  IsFacts(Facts) /\ GraphSays(Served, Facts)
<1>1. graph.nodes # <<>> <=> live # {}
  <2>1. graph.nodes \in Seq(NodeSet) /\ NodesSay(graph.nodes, live)
    BY DEF GraphInv, GraphSays, GraphSet
  <2>2. CASE live # {}
    <3>1. PICK i : i \in DOMAIN graph.nodes
      BY <2>1, <2>2 DEF NodesSay
    <3> QED BY <2>1, <2>2, <3>1
  <2>3. CASE graph.nodes # <<>>
    <3>1. 1 \in DOMAIN graph.nodes
      BY <2>1, <2>3
    <3> QED BY <2>1, <2>3, <3>1 DEF NodesSay, SaysNode
  <2> QED BY <2>2, <2>3
<1>2. CASE live # {}
  BY <1>1, <1>2 DEF Served, Facts, GraphInv
<1>3. CASE live = {}
  <2>1. Queried \in 0..Len(entries) /\ GraphSays(Rebuilt, StoredUpTo(Queried))
    BY RebuiltSays DEF GraphInv
  <2>2. IsFacts(StoredUpTo(Queried))
    BY <2>1, StoredFacts DEF GraphInv
  <2>3. Facts = StoredUpTo(Queried)
    <3>1. /\ DOMAIN stored = 1..Len(entries) /\ Len(entries) \in Nat
          /\ \A i \in 1..Len(entries) : stored[i] = <<entries[i].message_id, entries[i].parent>>
      BY SeqFacts DEF GraphInv, StoredOK
    <3>2. {k \in DOMAIN stored : k <= MemoryLimit} = 1..Queried
      BY <3>1, ViewBounds DEF Queried
    <3>3. \A i \in 1..Queried : i \in 1..Len(entries)
      BY <2>1, <3>1
    <3> QED BY <1>3, <3>1, <3>2, <3>3 DEF Facts, StoredUpTo
  <2> QED BY <1>1, <1>3, <2>1, <2>2, <2>3 DEF Served
<1> QED BY <1>2, <1>3

\* A sequence without repetitions in some sense is as long as there are values.
LEMMA AsLong ==
  ASSUME NEW q, IsSeq(q), NEW f, f \in [1..Len(q) -> {f[i] : i \in 1..Len(q)}],
         \A i, j \in 1..Len(q) : f[i] = f[j] => i = j
  PROVE  Len(q) = Cardinality({f[i] : i \in 1..Len(q)})
<1> DEFINE n == Len(q)
           T == {f[i] : i \in 1..n}
<1>1. n \in Nat
  BY SeqFacts
<1>2. IsFiniteSet(1..n) /\ Cardinality(1..n) = n
  BY <1>1, CountedUpTo
<1>3. f \in Surjection(1..n, T) /\ f \in Injection(1..n, T)
  <2>1. f \in [1..n -> T] /\ \A i, j \in 1..n : f[i] = f[j] => i = j
    OBVIOUS
  <2>2. \A t \in T : \E i \in 1..n : f[i] = t
    OBVIOUS
  <2> HIDE DEF n, T
  <2> QED BY <2>1, <2>2 DEF Surjection, Injection, IsInjective
<1> HIDE DEF n, T
<1>4. Cardinality(T) = Cardinality(1..n)
  BY <1>2, <1>3, FS_Surjection
<1> QED BY <1>2, <1>4 DEF n, T

\* The edges that count are those to the tasks.
LEMMA ParentEdgesSay ==
  ASSUME NEW g, NEW F, IsFacts(F), GraphSays(g, F)
  PROVE  /\ \A e \in ToSet(ParentEdges(g)) :
              SaysEdge(e, F) /\ messages[e.to].type \in WorkKinds
         /\ \A f \in F : f[2] # None /\ messages[f[1]].type \in WorkKinds =>
              \E e \in ToSet(ParentEdges(g)) : e.to = f[1] /\ e.from = f[2]
<1> DEFINE q == g.edges
           places == {i \in DOMAIN q : q[i].kind \in ParentKinds}
           r == AtPlaces(q, places)
<1>1. q \in Seq(EdgeSet) /\ EdgesSay(q, F) /\ places \subseteq DOMAIN q /\ ParentEdges(g) = r
  BY DEF GraphSays, GraphSet, ParentEdges
<1>2. \A i \in DOMAIN q : /\ SaysEdge(q[i], F)
                          /\ q[i].kind \in ParentKinds <=> messages[q[i].to].type \in WorkKinds
  <2> SUFFICES ASSUME NEW i \in DOMAIN q
               PROVE  /\ SaysEdge(q[i], F)
                      /\ q[i].kind \in ParentKinds <=> messages[q[i].to].type \in WorkKinds
    OBVIOUS
  <2>1. SaysEdge(q[i], F)
    BY <1>1 DEF EdgesSay
  <2> DEFINE type == messages[q[i].to].type
  <2>2. type \in {"task_request", "delegation", "task_response"} /\ q[i].kind = EdgeKind[type]
    <3>1. <<q[i].to, q[i].from>> \in F
      BY <2>1 DEF SaysEdge
    <3>2. <<q[i].to, q[i].from>>[1] = q[i].to
      OBVIOUS
    <3>3. IsMessage(messages[q[i].to])
      BY <3>1, <3>2 DEF IsFacts
    <3> QED BY <2>1, <3>3 DEF SaysEdge, IsMessage
  <2> HIDE DEF type
  <2>3. q[i].kind \in ParentKinds <=> type \in WorkKinds
    BY <2>2 DEF EdgeKind, ParentKinds, WorkKinds
  <2> QED BY <2>1, <2>3 DEF type
<1>3. /\ \A i \in places : \E k \in DOMAIN r : r[k] = q[i]
      /\ \A k \in DOMAIN r : \E i \in places : r[k] = q[i]
  <2> HIDE DEF places, q
  <2> QED BY <1>1, AtPlacesOK
<1> HIDE DEF r
<1>4. \A e \in ToSet(r) : SaysEdge(e, F) /\ messages[e.to].type \in WorkKinds
  BY <1>2, <1>3 DEF ToSet
<1>5. ASSUME NEW f \in F, f[2] # None, messages[f[1]].type \in WorkKinds
      PROVE  \E e \in ToSet(r) : e.to = f[1] /\ e.from = f[2]
  <2>1. PICK i \in DOMAIN q : q[i].to = f[1] /\ q[i].from = f[2]
    BY <1>1, <1>5 DEF EdgesSay
  <2>2. i \in places
    BY <1>2, <1>5, <2>1
  <2> QED BY <1>3, <2>1, <2>2 DEF ToSet
<1> QED BY <1>1, <1>4, <1>5

\* The nodes, one for each message that is told of.
LEMMA NodesExact ==
  ASSUME NEW g, NEW F, IsFacts(F), GraphSays(g, F)
  PROVE  /\ IdsOf(g.nodes) = {f[1] : f \in F}
         /\ Len(g.nodes) = Cardinality({f[1] : f \in F})
         /\ \A x \in ToSet(g.nodes) : SaysNode(x, F)
         /\ \A x, y \in ToSet(g.nodes) : x.id = y.id => x = y
         /\ \A f \in F : \E x \in ToSet(g.nodes) : x.id = f[1]
<1> DEFINE q == g.nodes
           h == [i \in 1..Len(q) |-> q[i].id]
<1>1. q \in Seq(NodeSet) /\ NodesSay(q, F)
  BY DEF GraphSays, GraphSet
<1> HIDE DEF q
<1>2. DOMAIN q = 1..Len(q) /\ Len(q) \in Nat /\ IsSeq(q)
  BY <1>1 DEF IsSeq
<1>3. IdsOf(q) = {h[i] : i \in 1..Len(q)}
  BY <1>2 DEF IdsOf
<1>4. IdsOf(q) = {f[1] : f \in F}
  BY <1>1, <1>2 DEF IdsOf, NodesSay, SaysNode
<1>5. h \in [1..Len(q) -> {h[i] : i \in 1..Len(q)}] /\ \A i, j \in 1..Len(q) : h[i] = h[j] => i = j
  BY <1>1, <1>2 DEF NodesSay
<1> HIDE DEF h
<1>6. Len(q) = Cardinality({h[i] : i \in 1..Len(q)})
  BY <1>2, <1>5, AsLong
<1>7. /\ \A x \in ToSet(q) : SaysNode(x, F)
      /\ \A x, y \in ToSet(q) : x.id = y.id => x = y
      /\ \A f \in F : \E x \in ToSet(q) : x.id = f[1]
  BY <1>1 DEF NodesSay, ToSet
<1> QED BY <1>3, <1>4, <1>6, <1>7 DEF q

\* The edges, one for each relation.
LEMMA EdgesExact ==
  ASSUME NEW g, NEW F, IsFacts(F), GraphSays(g, F),
         NEW P, P = {<<f[2], f[1]>> : f \in {x \in F : x[2] # None}}
  PROVE  /\ {<<e.from, e.to>> : e \in ToSet(g.edges)} = P
         /\ Len(g.edges) = Cardinality(P)
<1> DEFINE q == g.edges
           h == [i \in 1..Len(q) |-> <<q[i].from, q[i].to>>]
<1>1. q \in Seq(EdgeSet) /\ EdgesSay(q, F)
  BY DEF GraphSays, GraphSet
<1> HIDE DEF q
<1>2. DOMAIN q = 1..Len(q) /\ Len(q) \in Nat /\ IsSeq(q)
  BY <1>1 DEF IsSeq
<1>3. {<<e.from, e.to>> : e \in ToSet(q)} = {h[i] : i \in 1..Len(q)}
  BY <1>2 DEF ToSet
<1>4. {h[i] : i \in 1..Len(q)} = P
  <2>1. ASSUME NEW i \in 1..Len(q) PROVE h[i] \in P
    <3>1. <<q[i].to, q[i].from>> \in F /\ q[i].from # None
      BY <1>1, <1>2 DEF EdgesSay, SaysEdge
    <3> DEFINE f == <<q[i].to, q[i].from>>
    <3>2. f \in F /\ f[2] # None /\ h[i] = <<f[2], f[1]>>
      BY <3>1
    <3> HIDE DEF f, h
    <3> QED BY <3>2
  <2>2. ASSUME NEW f \in F, f[2] # None PROVE \E i \in 1..Len(q) : h[i] = <<f[2], f[1]>>
    BY <1>1, <1>2, <2>2 DEF EdgesSay
  <2> HIDE DEF h
  <2> QED BY <2>1, <2>2
<1>5. /\ h \in [1..Len(q) -> {h[i] : i \in 1..Len(q)}]
      /\ \A i, j \in 1..Len(q) : h[i] = h[j] => i = j
  <2>1. \A i, j \in 1..Len(q) : h[i] = h[j] => q[i].from = q[j].from /\ q[i].to = q[j].to
    OBVIOUS
  <2> QED BY <1>1, <1>2, <2>1 DEF EdgesSay
<1> HIDE DEF h
<1>6. Len(q) = Cardinality({h[i] : i \in 1..Len(q)})
  BY <1>2, <1>5, AsLong
<1> QED BY <1>3, <1>4, <1>6 DEF q

\* The relation that is served is the one that was recorded.
LEMMA RelationSaid ==
  ASSUME GraphInv
  PROVE  /\ \A p : p \in ParentOf <=> p = <<p[1], p[2]>> /\ <<p[2], p[1]>> \in Facts /\ p[1] # None
         /\ \A e \in ToSet(ParentEdges(Served)) : <<e.from, e.to>> \in WorkParentOf
         /\ \A p \in WorkParentOf : \E e \in ToSet(ParentEdges(Served)) : e.from = p[1] /\ e.to = p[2]
<1> DEFINE E == ToSet(ParentEdges(Served))
<1>1. IsFacts(Facts) /\ GraphSays(Served, Facts)
  BY ServedSays
<1>2. /\ \A e \in E : SaysEdge(e, Facts) /\ messages[e.to].type \in WorkKinds
      /\ \A f \in Facts : f[2] # None /\ messages[f[1]].type \in WorkKinds =>
           \E e \in E : e.to = f[1] /\ e.from = f[2]
  BY <1>1, ParentEdgesSay
<1>3. \A p : p \in ParentOf <=> p = <<p[1], p[2]>> /\ <<p[2], p[1]>> \in Facts /\ p[1] # None
  <2>1. \A f \in Facts : f = <<f[1], f[2]>>
    BY <1>1 DEF IsFacts
  <2> SUFFICES ASSUME NEW p
               PROVE  p \in ParentOf <=> p = <<p[1], p[2]>> /\ <<p[2], p[1]>> \in Facts /\ p[1] # None
    OBVIOUS
  <2>2. ASSUME p \in ParentOf PROVE p = <<p[1], p[2]>> /\ <<p[2], p[1]>> \in Facts /\ p[1] # None
    <3>1. PICK f \in Facts : f[2] # None /\ p = <<f[2], f[1]>>
      BY <2>2 DEF ParentOf
    <3>2. p[1] = f[2] /\ p[2] = f[1]
      BY <3>1
    <3> QED BY <2>1, <3>1, <3>2
  <2>3. ASSUME p = <<p[1], p[2]>>, <<p[2], p[1]>> \in Facts, p[1] # None PROVE p \in ParentOf
    <3> DEFINE f == <<p[2], p[1]>>
    <3>1. f \in Facts /\ f[2] # None /\ p = <<f[2], f[1]>>
      BY <2>3
    <3> HIDE DEF f
    <3> QED BY <3>1 DEF ParentOf
  <2> QED BY <2>2, <2>3
<1>4. /\ \A e \in E : <<e.from, e.to>> \in WorkParentOf
      /\ \A p \in WorkParentOf : \E e \in E : e.from = p[1] /\ e.to = p[2]
  <2>1. ASSUME NEW e \in E PROVE <<e.from, e.to>> \in WorkParentOf
    <3> DEFINE p == <<e.from, e.to>>
    <3>1. p = <<p[1], p[2]>> /\ <<p[2], p[1]>> \in Facts /\ p[1] # None /\ p[2] = e.to
      BY <1>2 DEF SaysEdge
    <3> HIDE DEF p
    <3>2. p \in ParentOf
      BY <1>3, <3>1
    <3>3. p \in WorkParentOf
      BY <1>2, <3>1, <3>2 DEF WorkParentOf
    <3> QED BY <3>3 DEF p
  <2>2. ASSUME NEW p \in WorkParentOf PROVE \E e \in E : e.from = p[1] /\ e.to = p[2]
    <3> DEFINE f == <<p[2], p[1]>>
    <3>1. f \in Facts /\ f[2] # None /\ messages[f[1]].type \in WorkKinds /\ f[1] = p[2] /\ f[2] = p[1]
      BY <1>3 DEF WorkParentOf
    <3> HIDE DEF f
    <3> QED BY <1>2, <3>1
  <2> QED BY <2>1, <2>2
<1> QED BY <1>3, <1>4

LEMMA WhatIsServed == GraphInv => ServedExact
<1> SUFFICES ASSUME GraphInv PROVE ServedExact
  OBVIOUS
<1> DEFINE ids == {f[1] : f \in Facts}
           work == {id \in ids : messages[id].type \in WorkKinds}
           node(id) == CHOOSE n \in ToSet(Served.nodes) : n.id = id
           E == ToSet(ParentEdges(Served))
<1>1. IsFacts(Facts) /\ GraphSays(Served, Facts)
  BY ServedSays
<1>2. /\ IdsOf(Served.nodes) = ids /\ Len(Served.nodes) = Cardinality(ids)
      /\ \A x \in ToSet(Served.nodes) : SaysNode(x, Facts)
      /\ \A x, y \in ToSet(Served.nodes) : x.id = y.id => x = y
      /\ \A f \in Facts : \E x \in ToSet(Served.nodes) : x.id = f[1]
  BY <1>1, NodesExact
<1>3. /\ {<<e.from, e.to>> : e \in ToSet(Served.edges)} = ParentOf
      /\ Len(Served.edges) = Cardinality(ParentOf)
  BY <1>1, EdgesExact DEF ParentOf
<1>4. \A p : p \in ParentOf <=> p = <<p[1], p[2]>> /\ <<p[2], p[1]>> \in Facts /\ p[1] # None
  BY RelationSaid
<1>5. WorkIds(Served) = work
  <2>1. \A x \in ToSet(Served.nodes) : x.id \in ids /\ x.kind = messages[x.id].type
    BY <1>2 DEF SaysNode
  <2> QED BY <1>2, <2>1 DEF WorkIds
<1>6. ASSUME NEW id \in ids
      PROVE  /\ node(id).agent = messages[id].from
             /\ id \in work => node(id).to = messages[id].to
             /\ node(id).parent # None <=> \E p \in ParentOf : p[2] = id
  <2> DEFINE n == node(id)
  <2>1. \E x \in ToSet(Served.nodes) : x.id = id
    BY <1>2
  <2>2. n \in ToSet(Served.nodes) /\ n.id = id
    BY <2>1
  <2> HIDE DEF n
  <2>3. SaysNode(n, Facts)
    BY <1>2, <2>2
  <2>4. n.agent = messages[id].from /\ (id \in work => n.to = messages[id].to)
    BY <2>2, <2>3 DEF SaysNode
  <2>5. (\E f \in Facts : f[1] = id /\ f[2] # None) <=> \E p \in ParentOf : p[2] = id
    <3>1. ASSUME NEW f \in Facts, f[1] = id, f[2] # None PROVE \E p \in ParentOf : p[2] = id
      <4>1. <<f[2], f[1]>> \in ParentOf /\ <<f[2], f[1]>>[2] = f[1]
        BY <3>1 DEF ParentOf
      <4> QED BY <3>1, <4>1
    <3>2. ASSUME NEW p \in ParentOf, p[2] = id PROVE \E f \in Facts : f[1] = id /\ f[2] # None
      <4>1. <<p[2], p[1]>> \in Facts /\ <<p[2], p[1]>>[1] = id /\ <<p[2], p[1]>>[2] # None
        BY <1>4, <3>2
      <4> QED BY <4>1
    <3> QED BY <3>1, <3>2
  <2>6. n.parent # None <=> \E p \in ParentOf : p[2] = id
    BY <2>2, <2>3, <2>5 DEF SaysNode
  <2> QED BY <2>4, <2>6 DEF n
<1>7. /\ \A e \in E : <<e.from, e.to>> \in WorkParentOf
      /\ \A p \in WorkParentOf : \E e \in E : e.from = p[1] /\ e.to = p[2]
  BY RelationSaid
<1>8. Roots(Served) = {id \in work : \A p \in WorkParentOf : p[2] # id}
  <2>1. \A e \in E : <<e.from, e.to>>[2] = e.to /\ <<e.from, e.to>> \in WorkParentOf
    BY <1>7
  <2> HIDE DEF E
  <2>2. {e.to : e \in E} = {p[2] : p \in WorkParentOf}
    BY <1>7, <2>1
  <2>3. Roots(Served) = work \ {e.to : e \in E}
    BY <1>5 DEF Roots, E
  <2> QED BY <2>2, <2>3
<1>9. Leaves(Served) = {id \in work : \A p \in WorkParentOf : p[1] # id}
  <2>1. \A e \in E : <<e.from, e.to>>[1] = e.from /\ <<e.from, e.to>> \in WorkParentOf
    BY <1>7
  <2> HIDE DEF E
  <2>2. {e.from : e \in E} = {p[1] : p \in WorkParentOf}
    BY <1>7, <2>1
  <2>3. Leaves(Served) = work \ {e.from : e \in E}
    BY <1>5 DEF Leaves, E
  <2> QED BY <2>2, <2>3
<1> QED BY <1>2, <1>3, <1>6, <1>8, <1>9 DEF ServedExact

-------------------------------------------------------------------------------
(* The ways through the graph.                                               *)
\* What is below something is in every set that has what follows.
LEMMA BelowLeast ==
  ASSUME NEW R, NEW n, NEW T, \A p \in R : p[1] \in T \/ p[1] = n => p[2] \in T
  PROVE  Below(R, n) \subseteq T
<1> DEFINE S == T \cap {p[2] : p \in R}
<1>1. S \in SUBSET {p[2] : p \in R} /\ \A p \in R : p[1] \in S \cup {n} => p[2] \in S
  OBVIOUS
<1>2. \A m \in Below(R, n) : m \in S
  <2> HIDE DEF S
  <2> QED BY <1>1 DEF Below
<1> QED BY <1>2

LEMMA BelowStep ==
  ASSUME NEW R, NEW n, NEW p \in R, p[1] = n \/ p[1] \in Below(R, n)
  PROVE  p[2] \in Below(R, n)
BY DEF Below

LEMMA BelowOnward ==
  ASSUME NEW R, NEW a, NEW m \in Below(R, a)
  PROVE  Below(R, m) \subseteq Below(R, a)
<1>1. \A p \in R : p[1] \in Below(R, a) \/ p[1] = m => p[2] \in Below(R, a)
  BY BelowStep
<1> QED BY <1>1, BelowLeast

\* The relation of a sequence of edges.
RelationOf(q) == {<<q[i].from, q[i].to>> : i \in DOMAIN q}
OneAbove(q) == \A i, j \in DOMAIN q : q[i].to = q[j].to => q[i].from = q[j].from

LEMMA RelationPairs ==
  ASSUME NEW q
  PROVE  /\ \A i \in DOMAIN q : <<q[i].from, q[i].to>> \in RelationOf(q)
         /\ \A p \in RelationOf(q) : \E i \in DOMAIN q : p[1] = q[i].from /\ p[2] = q[i].to
BY DEF RelationOf

\* Finitely many of them.
LEMMA EndsFinite ==
  ASSUME NEW q, IsSeq(q), NEW f, f \in [1..Len(q) -> {f[i] : i \in 1..Len(q)}]
  PROVE  /\ IsFiniteSet({f[i] : i \in 1..Len(q)})
         /\ Cardinality({f[i] : i \in 1..Len(q)}) <= Len(q)
         /\ Cardinality({f[i] : i \in 1..Len(q)}) \in Nat
<1> DEFINE n == Len(q)
           T == {f[i] : i \in 1..n}
<1>1. n \in Nat
  BY SeqFacts
<1>2. IsFiniteSet(1..n) /\ Cardinality(1..n) = n
  BY <1>1, CountedUpTo
<1>3. f \in Surjection(1..n, T)
  <2>1. \A t \in T : \E i \in 1..n : f[i] = t
    OBVIOUS
  <2>2. f \in [1..n -> T]
    OBVIOUS
  <2> HIDE DEF n, T
  <2> QED BY <2>1, <2>2 DEF Surjection
<1> HIDE DEF n, T
<1>4. IsFiniteSet(T) /\ Cardinality(T) <= Cardinality(1..n) /\ Cardinality(T) \in Nat
  BY <1>2, <1>3, FS_Surjection, FS_CardinalityType
<1> QED BY <1>2, <1>4 DEF n, T

\* A turn of the walk up, on a sequence of edges with at most one edge to a message.
LEMMA WalkUpOK ==
  ASSUME NEW q, IsSeq(q), OneAbove(q), NEW at
  PROVE  LET u == WalkUp(q, at)
         IN \/ u = at /\ \A p \in RelationOf(q) : p[2] = at.id => p[1] \in at.visited
            \/ \E v : /\ u = [id |-> v, visited |-> at.visited \cup {v}]
                      /\ v \notin at.visited /\ <<v, at.id>> \in RelationOf(q)
                      /\ \A p \in RelationOf(q) : p[2] = at.id => p[1] = v
<1> DEFINE to == {i \in DOMAIN q : q[i].to = at.id}
           first == CHOOSE i \in to : \A j \in to : i <= j
           v == q[first].from
<1>1. WalkUp(q, at) = IF to = {} \/ v \in at.visited THEN at
                      ELSE [id |-> v, visited |-> at.visited \cup {v}]
  BY DEF WalkUp
<1>2. CASE to = {}
  <2>1. \A p \in RelationOf(q) : p[2] # at.id
    BY <1>2, RelationPairs
  <2> QED BY <1>1, <1>2, <2>1
<1>3. CASE to # {}
  <2>1. to \subseteq Nat
    BY SeqFacts
  <2>2. first \in to
    <3>1. \E i \in to : \A j \in to : i <= j
      <4> HIDE DEF to
      <4> QED BY <1>3, <2>1, LeastNat
    <3> HIDE DEF to
    <3> QED BY <3>1
  <2> HIDE DEF first
  <2>3. <<v, at.id>> \in RelationOf(q)
    BY <2>2, RelationPairs
  <2>4. \A p \in RelationOf(q) : p[2] = at.id => p[1] = v
    BY <2>2, RelationPairs DEF OneAbove
  <2> HIDE DEF to, v
  <2> QED BY <1>1, <1>3, <2>3, <2>4
<1> QED BY <1>2, <1>3

\* Where the walk up from id is after n turns.
UpInv(q, id, u, n) ==
  /\ u.visited \subseteq {q[i].from : i \in DOMAIN q} /\ IsFiniteSet(u.visited)
  /\ u.id = id \/ u.id \in u.visited
  /\ \A v \in u.visited : id \in Below(RelationOf(q), v)
  /\ \A p \in RelationOf(q) : (p[2] = id \/ p[2] \in u.visited) /\ p[2] # u.id => p[1] \in u.visited
  /\ \/ Cardinality(u.visited) = n
     \/ \A p \in RelationOf(q) : p[2] = u.id => p[1] \in u.visited

LEMMA UpTurn ==
  ASSUME NEW q, IsSeq(q), OneAbove(q), NEW id, NEW at, NEW n \in Nat, UpInv(q, id, at, n)
  PROVE  UpInv(q, id, WalkUp(q, at), n + 1)
<1> DEFINE R == RelationOf(q)
           u == WalkUp(q, at)
<1>1. ASSUME u = at, \A p \in R : p[2] = at.id => p[1] \in at.visited
      PROVE  UpInv(q, id, u, n + 1)
  BY <1>1 DEF UpInv
<1>2. ASSUME NEW v, u = [id |-> v, visited |-> at.visited \cup {v}],
             v \notin at.visited, <<v, at.id>> \in R, \A p \in R : p[2] = at.id => p[1] = v
      PROVE  UpInv(q, id, u, n + 1)
  <2>1. u.id = v /\ u.visited = at.visited \cup {v}
    BY <1>2
  <2> HIDE DEF u
  <2>2. <<v, at.id>>[1] = v /\ <<v, at.id>>[2] = at.id
    OBVIOUS
  <2>3. id \in Below(R, v)
    <3>1. at.id \in Below(R, v)
      BY <1>2, <2>2, BelowStep
    <3>2. CASE at.id = id
      BY <3>1, <3>2
    <3>3. CASE at.id \in at.visited
      <4>1. id \in Below(R, at.id)
        BY <3>3 DEF UpInv
      <4>2. Below(R, at.id) \subseteq Below(R, v)
        BY <3>1, BelowOnward
      <4> QED BY <4>1, <4>2
    <3> QED BY <3>2, <3>3 DEF UpInv
  <2>4. u.visited \subseteq {q[i].from : i \in DOMAIN q}
    <3>1. \E i \in DOMAIN q : v = q[i].from
      BY <1>2, <2>2, RelationPairs
    <3> QED BY <2>1, <3>1 DEF UpInv
  <2>5. IsFiniteSet(u.visited)
    BY <2>1, FS_AddElement DEF UpInv
  <2>6. \A p \in R : (p[2] = id \/ p[2] \in u.visited) /\ p[2] # u.id => p[1] \in u.visited
    <3> SUFFICES ASSUME NEW p \in R, p[2] = id \/ p[2] \in u.visited, p[2] # u.id
                 PROVE  p[1] \in u.visited
      OBVIOUS
    <3>1. CASE p[2] = at.id
      BY <1>2, <2>1, <3>1
    <3>2. CASE p[2] # at.id
      BY <2>1, <3>2 DEF UpInv
    <3> QED BY <3>1, <3>2
  <2>7. \/ Cardinality(u.visited) = n + 1
        \/ \A p \in R : p[2] = u.id => p[1] \in u.visited
    <3>1. CASE Cardinality(at.visited) = n
      BY <1>2, <2>1, <3>1, FS_AddElement DEF UpInv
    <3>2. CASE \A p \in R : p[2] = at.id => p[1] \in at.visited
      BY <1>2, <2>2, <3>2
    <3> QED BY <3>1, <3>2 DEF UpInv
  <2>8. \A w \in u.visited : id \in Below(R, w)
    BY <2>1, <2>3 DEF UpInv
  <2> QED BY <2>1, <2>4, <2>5, <2>6, <2>7, <2>8 DEF UpInv
<1>3. \/ u = at /\ \A p \in R : p[2] = at.id => p[1] \in at.visited
      \/ \E v : /\ u = [id |-> v, visited |-> at.visited \cup {v}]
                /\ v \notin at.visited /\ <<v, at.id>> \in R
                /\ \A p \in R : p[2] = at.id => p[1] = v
  BY WalkUpOK
<1> HIDE DEF R
<1>4. UpInv(q, id, u, n + 1)
  <2> HIDE DEF u
  <2> QED BY <1>1, <1>2, <1>3
<1> QED BY <1>4

\* The walk up ends, with those above id.
LEMMA WalkUpEnds ==
  ASSUME NEW q, IsSeq(q), OneAbove(q), NEW id,
         NEW up, up = CHOOSE f : f = [n \in 0..Len(q) |->
                                        IF n = 0 THEN [id |-> id, visited |-> {}] ELSE WalkUp(q, f[n - 1])]
  PROVE  \A a : a \in up[Len(q)].visited <=> id \in Below(RelationOf(q), a)
<1> DEFINE N == Len(q)
           R == RelationOf(q)
           base == [id |-> id, visited |-> {}]
           S == {u \in [id : {id} \cup {q[i].from : i \in DOMAIN q}, visited : SUBSET {q[i].from : i \in DOMAIN q}] :
                   \E n \in Nat : UpInv(q, id, u, n)}
           step == [p \in (1..N) \X S |-> WalkUp(q, p[2])]
<1>1. N \in Nat
  BY SeqFacts
<1>2. UpInv(q, id, base, 0)
  BY FS_EmptySet DEF UpInv
<1>3. base \in S
  BY <1>2
<1>4. ASSUME NEW u \in S PROVE WalkUp(q, u) \in S
  <2>1. PICK n \in Nat : UpInv(q, id, u, n)
    OBVIOUS
  <2> DEFINE w == WalkUp(q, u)
  <2>2. UpInv(q, id, w, n + 1) /\ n + 1 \in Nat
    BY <2>1, UpTurn
  <2>3. w.visited \subseteq {q[i].from : i \in DOMAIN q} /\ (w.id = id \/ w.id \in w.visited)
    BY <2>2 DEF UpInv
  <2>4. w = [id |-> w.id, visited |-> w.visited]
    <3>1. w = u \/ \E v : w = [id |-> v, visited |-> u.visited \cup {v}]
      BY DEF WalkUp
    <3> QED BY <3>1
  <2> HIDE DEF w
  <2>5. w \in [id : {id} \cup {q[i].from : i \in DOMAIN q}, visited : SUBSET {q[i].from : i \in DOMAIN q}]
    BY <2>3, <2>4
  <2> QED BY <2>2, <2>5 DEF w
<1>5. step \in [(1..N) \X S -> S]
  BY <1>4
<1> HIDE DEF S
<1>6. PICK f \in [0..N -> S] : Recursively(f, N, base, step)
  <2> HIDE DEF step, N, base
  <2> QED BY <1>1, <1>3, <1>5, RecursionIs
<1>7. f = [n \in 0..N |-> IF n = 0 THEN base ELSE WalkUp(q, f[n - 1])]
  <2>1. ASSUME NEW n \in 0..N, n # 0 PROVE step[<<n, f[n - 1]>>] = WalkUp(q, f[n - 1])
    <3>1. n \in 1..N /\ n - 1 \in 0..N /\ f[n - 1] \in S
      BY <1>1, <2>1
    <3> QED BY <3>1
  <2> HIDE DEF step
  <2> QED BY <1>6, <2>1 DEF Recursively
<1>8. up = [n \in 0..N |-> IF n = 0 THEN base ELSE WalkUp(q, up[n - 1])]
  BY <1>7
<1>9. \A n \in 0..N : UpInv(q, id, up[n], n)
  <2> DEFINE bad == {n \in 0..N : ~UpInv(q, id, up[n], n)}
  <2>1. SUFFICES ASSUME bad # {} PROVE FALSE
    OBVIOUS
  <2>2. PICK n \in bad : \A k \in bad : n <= k
    <3>1. bad \subseteq Nat
      OBVIOUS
    <3> HIDE DEF bad
    <3> QED BY <2>1, <3>1, LeastNat
  <2>3. n # 0
    BY <1>2, <1>8, <2>2
  <2>4. n - 1 \in Nat /\ n - 1 \in 0..N /\ (n - 1) + 1 = n /\ ~(n <= n - 1)
    BY <1>1, <2>3
  <2>5. UpInv(q, id, up[n - 1], n - 1) /\ up[n] = WalkUp(q, up[n - 1])
    BY <1>8, <2>2, <2>3, <2>4
  <2>6. UpInv(q, id, up[n], n)
    <3> DEFINE at == up[n - 1]
               k == n - 1
    <3> HIDE DEF at, k
    <3>1. UpInv(q, id, WalkUp(q, at), k + 1)
      BY <2>4, <2>5, UpTurn DEF at, k
    <3> QED BY <2>4, <2>5, <3>1 DEF at, k
  <2> QED BY <2>2, <2>6
<1> DEFINE u == up[N]
<1>10. UpInv(q, id, u, N)
  BY <1>1, <1>9
<1> HIDE DEF u
<1>11. \A p \in R : p[2] = u.id => p[1] \in u.visited
  <2>1. CASE Cardinality(u.visited) = N
    <3> DEFINE h == [i \in 1..N |-> q[i].from]
               T == {h[i] : i \in 1..N}
    <3>1. DOMAIN q = 1..N
      BY SeqFacts
    <3>2. T = {q[i].from : i \in DOMAIN q}
      BY <3>1
    <3>3. h \in [1..N -> T]
      OBVIOUS
    <3> HIDE DEF h
    <3>4. IsFiniteSet(T) /\ Cardinality(T) <= N /\ Cardinality(T) \in Nat
      BY <3>3, EndsFinite
    <3> HIDE DEF T
    <3>5. u.visited \subseteq T
      BY <1>10, <3>2 DEF UpInv
    <3>6. u.visited = T
      <4>1. Cardinality(u.visited) <= Cardinality(T) /\ (Cardinality(u.visited) = Cardinality(T) => u.visited = T)
        BY <3>4, <3>5, FS_Subset
      <4> QED BY <1>1, <2>1, <3>4, <4>1
    <3> QED BY <3>2, <3>6, RelationPairs
  <2> QED BY <1>10, <2>1 DEF UpInv
<1>12. \A p \in R : p[2] = id \/ p[2] \in u.visited => p[1] \in u.visited
  BY <1>10, <1>11 DEF UpInv
<1>13. ASSUME NEW a, id \in Below(R, a), a \notin u.visited PROVE FALSE
  <2> DEFINE T == {p[2] : p \in R} \ ({id} \cup u.visited)
  <2>1. \A p \in R : p[1] \in T \/ p[1] = a => p[2] \in T
    BY <1>12, <1>13
  <2>2. Below(R, a) \subseteq T
    <3> HIDE DEF T
    <3> QED BY <2>1, BelowLeast
  <2> QED BY <1>13, <2>2
<1>14. \A a \in u.visited : id \in Below(R, a)
  BY <1>10 DEF UpInv
<1> QED BY <1>13, <1>14 DEF u

\* A turn of the walk down adds what is next below.
LEMMA WalkDownOK ==
  ASSUME NEW q, NEW V
  PROVE  \A x : x \in WalkDown(q, V) <=> x \in V \/ \E p \in RelationOf(q) : p[1] \in V /\ p[2] = x
<1>1. ASSUME NEW x, x \in WalkDown(q, V), x \notin V
      PROVE  \E p \in RelationOf(q) : p[1] \in V /\ p[2] = x
  <2>1. PICK i \in DOMAIN q : q[i].from \in V /\ q[i].to = x
    BY <1>1 DEF WalkDown, ToSet
  <2>2. <<q[i].from, q[i].to>> \in RelationOf(q)
    BY RelationPairs
  <2> QED BY <2>1, <2>2
<1>2. ASSUME NEW x, NEW p \in RelationOf(q), p[1] \in V, p[2] = x PROVE x \in WalkDown(q, V)
  <2>1. PICK i \in DOMAIN q : p[1] = q[i].from /\ p[2] = q[i].to
    BY RelationPairs
  <2> QED BY <1>2, <2>1 DEF WalkDown, ToSet
<1>3. V \subseteq WalkDown(q, V)
  BY DEF WalkDown
<1> QED BY <1>1, <1>2, <1>3

\* What the walk down from id has visited after n turns.
DownInv(q, id, V, n) ==
  /\ id \in V /\ V \subseteq {id} \cup {q[i].to : i \in DOMAIN q} /\ IsFiniteSet(V)
  /\ \A v \in V : v = id \/ v \in Below(RelationOf(q), id)
  /\ Cardinality(V) > n \/ \A p \in RelationOf(q) : p[1] \in V => p[2] \in V

LEMMA EndsAreFinite ==
  ASSUME NEW q, IsSeq(q)
  PROVE  /\ IsFiniteSet({q[i].to : i \in DOMAIN q})
         /\ Cardinality({q[i].to : i \in DOMAIN q}) <= Len(q)
         /\ Cardinality({q[i].to : i \in DOMAIN q}) \in Nat
<1> DEFINE h == [i \in 1..Len(q) |-> q[i].to]
<1>1. {h[i] : i \in 1..Len(q)} = {q[i].to : i \in DOMAIN q}
  BY SeqFacts
<1>2. h \in [1..Len(q) -> {h[i] : i \in 1..Len(q)}]
  OBVIOUS
<1> HIDE DEF h
<1> DEFINE T == {h[i] : i \in 1..Len(q)}
<1>3. IsFiniteSet(T) /\ Cardinality(T) <= Len(q) /\ Cardinality(T) \in Nat
  BY <1>2, EndsFinite
<1> QED BY <1>1, <1>3

LEMMA DownTurn ==
  ASSUME NEW q, IsSeq(q), NEW id, NEW V, NEW n \in Nat, DownInv(q, id, V, n)
  PROVE  DownInv(q, id, WalkDown(q, V), n + 1)
<1> DEFINE R == RelationOf(q)
           W == WalkDown(q, V)
           Y == {id} \cup {q[i].to : i \in DOMAIN q}
<1>1. \A x : x \in W <=> x \in V \/ \E p \in R : p[1] \in V /\ p[2] = x
  BY WalkDownOK
<1> HIDE DEF W
<1>2. id \in W
  BY <1>1 DEF DownInv
<1>3. W \subseteq Y
  <2>1. \A p \in R : p[2] \in Y
    BY RelationPairs
  <2> HIDE DEF Y
  <2>2. V \subseteq Y
    BY DEF DownInv, Y
  <2> QED BY <1>1, <2>1, <2>2
<1>4. IsFiniteSet(W)
  <2>1. IsFiniteSet({q[i].to : i \in DOMAIN q})
    BY EndsAreFinite
  <2>2. IsFiniteSet(Y)
    BY <2>1, FS_AddElement
  <2> HIDE DEF Y
  <2> QED BY <1>3, <2>2, FS_Subset
<1>5. \A v \in W : v = id \/ v \in Below(R, id)
  <2> SUFFICES ASSUME NEW p \in R, p[1] \in V PROVE p[2] \in Below(R, id)
    BY <1>1 DEF DownInv
  <2>1. p[1] = id \/ p[1] \in Below(R, id)
    BY DEF DownInv
  <2> QED BY <2>1, BelowStep
<1>6. Cardinality(W) > n + 1 \/ \A p \in R : p[1] \in W => p[2] \in W
  <2>1. CASE \A p \in R : p[1] \in V => p[2] \in V
    BY <1>1, <2>1
  <2>2. ASSUME NEW p \in R, p[1] \in V, p[2] \notin V, Cardinality(V) > n
        PROVE  Cardinality(W) > n + 1
    <3>1. p[2] \in W /\ V \subseteq W
      BY <1>1, <2>2
    <3>2. Cardinality(V) \in Nat /\ Cardinality(W) \in Nat
      BY <1>4, FS_CardinalityType DEF DownInv
    <3>3. Cardinality(V) <= Cardinality(W) /\ Cardinality(V) # Cardinality(W)
      BY <1>4, <2>2, <3>1, FS_Subset
    <3> QED BY <2>2, <3>2, <3>3
  <2> QED BY <2>1, <2>2 DEF DownInv
<1> QED BY <1>2, <1>3, <1>4, <1>5, <1>6 DEF DownInv, W

\* The walk down ends, with those below id, and id.
LEMMA WalkDownEnds ==
  ASSUME NEW q, IsSeq(q), NEW id,
         NEW down, down = CHOOSE f : f = [n \in 0..Len(q) |-> IF n = 0 THEN {id} ELSE WalkDown(q, f[n - 1])]
  PROVE  \A a : a # id => (a \in down[Len(q)] <=> a \in Below(RelationOf(q), id))
<1> DEFINE N == Len(q)
           R == RelationOf(q)
           S == {V \in SUBSET ({id} \cup {q[i].to : i \in DOMAIN q}) : \E n \in Nat : DownInv(q, id, V, n)}
           step == [p \in (1..N) \X S |-> WalkDown(q, p[2])]
           base == {id}
<1>1. N \in Nat
  BY SeqFacts
<1>2. DownInv(q, id, base, 0)
  <2>1. IsFiniteSet(base) /\ Cardinality(base) = 1
    BY FS_Singleton
  <2> QED BY <2>1 DEF DownInv
<1>3. base \in S
  BY <1>2 DEF DownInv
<1>4. ASSUME NEW V \in S PROVE WalkDown(q, V) \in S
  <2>1. PICK n \in Nat : DownInv(q, id, V, n)
    OBVIOUS
  <2> DEFINE W == WalkDown(q, V)
  <2>2. DownInv(q, id, W, n + 1) /\ n + 1 \in Nat
    BY <2>1, DownTurn
  <2> HIDE DEF W
  <2>3. W \subseteq {id} \cup {q[i].to : i \in DOMAIN q}
    BY <2>2 DEF DownInv
  <2> QED BY <2>2, <2>3 DEF W
<1>5. step \in [(1..N) \X S -> S]
  BY <1>4
<1> HIDE DEF S
<1>6. PICK f \in [0..N -> S] : Recursively(f, N, base, step)
  <2> HIDE DEF step, N, base
  <2> QED BY <1>1, <1>3, <1>5, RecursionIs
<1>7. f = [n \in 0..N |-> IF n = 0 THEN base ELSE WalkDown(q, f[n - 1])]
  <2>1. ASSUME NEW n \in 0..N, n # 0 PROVE step[<<n, f[n - 1]>>] = WalkDown(q, f[n - 1])
    <3>1. n \in 1..N /\ n - 1 \in 0..N /\ f[n - 1] \in S
      BY <1>1, <2>1
    <3> QED BY <3>1
  <2> HIDE DEF step
  <2> QED BY <1>6, <2>1 DEF Recursively
<1>8. down = [n \in 0..N |-> IF n = 0 THEN base ELSE WalkDown(q, down[n - 1])]
  BY <1>7
<1>9. \A n \in 0..N : DownInv(q, id, down[n], n)
  <2> DEFINE bad == {n \in 0..N : ~DownInv(q, id, down[n], n)}
  <2>1. SUFFICES ASSUME bad # {} PROVE FALSE
    OBVIOUS
  <2>2. PICK n \in bad : \A k \in bad : n <= k
    <3>1. bad \subseteq Nat
      OBVIOUS
    <3> HIDE DEF bad
    <3> QED BY <2>1, <3>1, LeastNat
  <2>3. n # 0
    BY <1>2, <1>8, <2>2
  <2>4. n - 1 \in Nat /\ n - 1 \in 0..N /\ (n - 1) + 1 = n /\ ~(n <= n - 1)
    BY <1>1, <2>3
  <2>5. DownInv(q, id, down[n - 1], n - 1) /\ down[n] = WalkDown(q, down[n - 1])
    BY <1>8, <2>2, <2>3, <2>4
  <2>6. DownInv(q, id, down[n], n)
    <3> DEFINE V == down[n - 1]
               k == n - 1
    <3> HIDE DEF V, k
    <3>1. DownInv(q, id, WalkDown(q, V), k + 1)
      BY <2>4, <2>5, DownTurn DEF V, k
    <3> QED BY <2>4, <2>5, <3>1 DEF V, k
  <2> QED BY <2>2, <2>6
<1> DEFINE V == down[N]
<1>10. DownInv(q, id, V, N)
  BY <1>1, <1>9
<1> HIDE DEF V
<1>11. \A p \in R : p[1] \in V => p[2] \in V
  <2>1. CASE Cardinality(V) > N
    <3> DEFINE T == {q[i].to : i \in DOMAIN q}
    <3>1. IsFiniteSet(T) /\ Cardinality(T) <= N /\ Cardinality(T) \in Nat
      BY EndsAreFinite
    <3>2. \A p \in R : p[2] \in T
      BY RelationPairs
    <3> HIDE DEF T
    <3>3. V \subseteq T \cup {id}
      BY <1>10 DEF DownInv, T
    <3>4. IsFiniteSet(T \cup {id}) /\ Cardinality(T \cup {id}) <= N + 1 /\ Cardinality(T \cup {id}) \in Nat
      BY <1>1, <3>1, FS_AddElement
    <3>5. Cardinality(V) <= Cardinality(T \cup {id}) /\ (Cardinality(V) = Cardinality(T \cup {id}) => V = T \cup {id})
      BY <3>3, <3>4, FS_Subset
    <3>6. Cardinality(V) \in Nat
      BY <1>10, FS_CardinalityType DEF DownInv
    <3>7. V = T \cup {id}
      BY <1>1, <2>1, <3>4, <3>5, <3>6
    <3> QED BY <3>2, <3>7
  <2> QED BY <1>10, <2>1 DEF DownInv
<1>12. Below(R, id) \subseteq V
  <2>1. \A p \in R : p[1] \in V \/ p[1] = id => p[2] \in V
    BY <1>10, <1>11 DEF DownInv
  <2> QED BY <2>1, BelowLeast
<1> QED BY <1>10, <1>12 DEF DownInv, V

\* The edges that count are the recorded relation, and no two of them lead to one message.
LEMMA WorkRelation ==
  ASSUME GraphInv
  PROVE  /\ ParentEdges(Served) \in Seq(EdgeSet) /\ RelationOf(ParentEdges(Served)) = WorkParentOf
         /\ \A i, j \in DOMAIN ParentEdges(Served) :
              ParentEdges(Served)[i].to = ParentEdges(Served)[j].to => i = j
<1> DEFINE g == Served
           q == g.edges
           places == {i \in DOMAIN q : q[i].kind \in ParentKinds}
           r == AtPlaces(q, places)
<1>1. IsFacts(Facts) /\ GraphSays(g, Facts)
  BY ServedSays
<1>2. q \in Seq(EdgeSet) /\ EdgesSay(q, Facts) /\ places \subseteq DOMAIN q /\ ParentEdges(g) = r
  BY <1>1 DEF GraphSays, GraphSet, ParentEdges
<1>3. \A i, j \in DOMAIN q : q[i].to = q[j].to => i = j
  <2> SUFFICES ASSUME NEW i \in DOMAIN q, NEW j \in DOMAIN q, q[i].to = q[j].to
               PROVE  q[i].from = q[j].from
    BY <1>2 DEF EdgesSay
  <2> DEFINE Says(e) == e.from = messages[e.to].parent
  <2>1. ASSUME NEW e, SaysEdge(e, Facts) PROVE Says(e)
    <3> DEFINE f == <<e.to, e.from>>
    <3>1. f \in Facts /\ f[1] = e.to /\ f[2] = e.from /\ e.from # None
      BY <2>1 DEF SaysEdge
    <3> HIDE DEF f
    <3> QED BY <1>1, <3>1 DEF IsFacts
  <2>2. Says(q[i]) /\ Says(q[j])
    BY <1>2, <2>1 DEF EdgesSay
  <2> QED BY <2>2
<1>4. /\ r \in Seq(EdgeSet)
      /\ \A k, l \in DOMAIN r : k < l => \E i, j \in places : i < j /\ r[k] = q[i] /\ r[l] = q[j]
  <2> HIDE DEF places, q
  <2> QED BY <1>2, AtPlacesOK
<1> HIDE DEF r, q
<1>5. \A k, l \in DOMAIN r : r[k].to = r[l].to => k = l
  <2>1. DOMAIN r \subseteq Nat /\ DOMAIN q \subseteq Nat
    BY <1>2, <1>4
  <2>2. \A k, l \in DOMAIN r : k < l => r[k].to # r[l].to
    BY <1>2, <1>3, <1>4, <2>1
  <2>3. \A k, l \in DOMAIN r : k < l \/ l < k \/ k = l
    BY <2>1
  <2> QED BY <2>2, <2>3
<1>6. RelationOf(r) = WorkParentOf
  <2>1. \A k \in DOMAIN r : <<r[k].from, r[k].to>> \in WorkParentOf
    BY <1>2, RelationSaid DEF ToSet
  <2>2. \A p \in WorkParentOf : \E k \in DOMAIN r : r[k].from = p[1] /\ r[k].to = p[2]
    BY <1>2, RelationSaid DEF ToSet
  <2>3. \A p \in WorkParentOf : p = <<p[1], p[2]>>
    BY RelationSaid DEF WorkParentOf
  <2>4. \A k \in DOMAIN r : <<r[k].from, r[k].to>>[1] = r[k].from
    OBVIOUS
  <2> QED BY <2>1, <2>2, <2>3 DEF RelationOf
<1> QED BY <1>2, <1>4, <1>5, <1>6 DEF r

LEMMA WalksServed == GraphInv => WalksExact
<1> SUFFICES ASSUME GraphInv, NEW a \in IdsOf(Served.nodes), NEW d \in IdsOf(Served.nodes), a # d
             PROVE  /\ d \in Below(WorkParentOf, a) <=> a \in Ancestors(Served, d)
                    /\ d \in Below(WorkParentOf, a) <=> d \in Descendants(Served, a)
  BY DEF WalksExact
<1> DEFINE q == ParentEdges(Served)
           up == CHOOSE f : f = [n \in 0..Len(q) |->
                                   IF n = 0 THEN [id |-> d, visited |-> {}] ELSE WalkUp(q, f[n - 1])]
           down == CHOOSE f : f = [n \in 0..Len(q) |-> IF n = 0 THEN {a} ELSE WalkDown(q, f[n - 1])]
<1>1. IsSeq(q) /\ OneAbove(q) /\ RelationOf(q) = WorkParentOf
  BY WorkRelation DEF IsSeq, OneAbove
<1>2. Ancestors(Served, d) = up[Len(q)].visited \cap IdsOf(Served.nodes)
  BY DEF Ancestors
<1>3. Descendants(Served, a) = (down[Len(q)] \ {a}) \cap IdsOf(Served.nodes)
  BY DEF Descendants
<1> HIDE DEF q
<1>4. \A x : x \in up[Len(q)].visited <=> d \in Below(RelationOf(q), x)
  BY <1>1, WalkUpEnds
<1>5. \A x : x # a => (x \in down[Len(q)] <=> x \in Below(RelationOf(q), a))
  BY <1>1, WalkDownEnds
<1> HIDE DEF up, down
<1> QED BY <1>1, <1>2, <1>3, <1>4, <1>5

-------------------------------------------------------------------------------
(* The topological order.                                                    *)
\* What is kept of a sequence stays in its order, and apart.
LEMMA PlacesApart ==
  ASSUME NEW S, NEW q \in Seq(S), NEW places, places \subseteq DOMAIN q,
         NEW r, r = AtPlaces(q, places)
  PROVE  /\ r \in Seq(S) /\ DOMAIN r = 1..Len(r) /\ Len(r) \in Nat
         /\ \A i \in places : \E k \in DOMAIN r : r[k] = q[i]
         /\ \A k \in DOMAIN r : \E i \in places : r[k] = q[i]
         /\ \A k, l \in DOMAIN r : k # l => \E i, j \in places : i # j /\ r[k] = q[i] /\ r[l] = q[j]
<1>1. /\ r \in Seq(S)
      /\ \A i \in places : \E k \in DOMAIN r : r[k] = q[i]
      /\ \A k \in DOMAIN r : \E i \in places : r[k] = q[i]
      /\ \A k, l \in DOMAIN r : k < l => \E i, j \in places : i < j /\ r[k] = q[i] /\ r[l] = q[j]
  BY AtPlacesOK
<1>2. DOMAIN r = 1..Len(r) /\ Len(r) \in Nat /\ places \subseteq Nat
  BY <1>1
<1>3. ASSUME NEW k \in DOMAIN r, NEW l \in DOMAIN r, k # l
      PROVE  \E i, j \in places : i # j /\ r[k] = q[i] /\ r[l] = q[j]
  <2>1. CASE k < l
    <3>1. PICK i \in places, j \in places : i < j /\ r[k] = q[i] /\ r[l] = q[j]
      BY <1>1, <2>1
    <3>2. i # j
      BY <1>2, <3>1
    <3> QED BY <3>1, <3>2
  <2>2. CASE l < k
    <3>1. PICK i \in places, j \in places : i < j /\ r[l] = q[i] /\ r[k] = q[j]
      BY <1>1, <2>2
    <3>2. j # i
      BY <1>2, <3>1
    <3> QED BY <3>1, <3>2
  <2> QED BY <1>2, <1>3, <2>1, <2>2
<1> QED BY <1>1, <1>2, <1>3

LEMMA AmongIdsOK ==
  ASSUME NEW X, NEW q \in Seq(X), IsInjective(q), NEW S
  PROVE  /\ AmongIds(q, S) \in Seq(X) /\ IsInjective(AmongIds(q, S))
         /\ \A x : x \in ToSet(AmongIds(q, S)) <=> x \in ToSet(q) /\ x \in S
<1> DEFINE places == {i \in DOMAIN q : q[i] \in S}
           r == AtPlaces(q, places)
<1>1. AmongIds(q, S) = r /\ places \subseteq DOMAIN q
  BY DEF AmongIds
<1>2. /\ r \in Seq(X)
      /\ \A i \in places : \E k \in DOMAIN r : r[k] = q[i]
      /\ \A k \in DOMAIN r : \E i \in places : r[k] = q[i]
      /\ \A k, l \in DOMAIN r : k # l => \E i, j \in places : i # j /\ r[k] = q[i] /\ r[l] = q[j]
  <2> HIDE DEF places
  <2> QED BY <1>1, PlacesApart
<1> HIDE DEF r
<1>3. IsInjective(r)
  BY <1>2 DEF IsInjective
<1>4. \A x : x \in ToSet(r) <=> x \in ToSet(q) /\ x \in S
  BY <1>2 DEF ToSet
<1> QED BY <1>1, <1>2, <1>3, <1>4

\* No two edges lead to one message, so that no message is twice among the children.
OneEdgeTo(q) == \A i, j \in DOMAIN q : q[i].to = q[j].to => i = j

LEMMA ChildrenOK ==
  ASSUME NEW E, NEW q \in Seq(E), OneEdgeTo(q), NEW id
  PROVE  /\ IsSeq(Children(q, id)) /\ IsInjective(Children(q, id))
         /\ \A x : x \in ToSet(Children(q, id)) <=> \E p \in RelationOf(q) : p[1] = id /\ p[2] = x
<1> DEFINE places == {i \in DOMAIN q : q[i].from = id}
           r == AtPlaces(q, places)
           c == [i \in DOMAIN r |-> r[i].to]
<1>1. Children(q, id) = c /\ places \subseteq DOMAIN q
  BY DEF Children
<1>2. /\ r \in Seq(E) /\ DOMAIN r = 1..Len(r) /\ Len(r) \in Nat
      /\ \A i \in places : \E k \in DOMAIN r : r[k] = q[i]
      /\ \A k \in DOMAIN r : \E i \in places : r[k] = q[i]
      /\ \A k, l \in DOMAIN r : k # l => \E i, j \in places : i # j /\ r[k] = q[i] /\ r[l] = q[j]
  <2>1. r = AtPlaces(q, places)
    OBVIOUS
  <2> HIDE DEF places, r
  <2> QED BY <1>1, <2>1, PlacesApart
<1> HIDE DEF r
<1>3. DOMAIN c = DOMAIN r /\ \A k \in DOMAIN r : c[k] = r[k].to
  OBVIOUS
<1>4. IsSeq(c)
  <2> DEFINE T == {c[k] : k \in 1..Len(r)}
  <2>1. c \in [1..Len(r) -> T]
    BY <1>2
  <2> HIDE DEF c, T
  <2>2. c \in Seq(T)
    BY <1>2, <2>1
  <2> QED BY <2>2 DEF IsSeq
<1> HIDE DEF c
<1>5. IsInjective(c)
  <2> SUFFICES ASSUME NEW k \in DOMAIN c, NEW l \in DOMAIN c, c[k] = c[l], k # l PROVE FALSE
    BY DEF IsInjective
  <2>1. PICK i \in places, j \in places : i # j /\ r[k] = q[i] /\ r[l] = q[j]
    BY <1>2, <1>3
  <2> QED BY <1>3, <2>1 DEF OneEdgeTo
<1>6. ASSUME NEW x, x \in ToSet(c) PROVE \E p \in RelationOf(q) : p[1] = id /\ p[2] = x
  <2>1. PICK k \in DOMAIN r : x = r[k].to
    BY <1>3, <1>6 DEF ToSet
  <2>2. PICK i \in places : x = q[i].to
    BY <1>2, <2>1
  <2>3. <<q[i].from, q[i].to>> \in RelationOf(q) /\ <<q[i].from, q[i].to>>[1] = id
    BY RelationPairs
  <2> QED BY <2>2, <2>3
<1>7. ASSUME NEW p \in RelationOf(q), p[1] = id PROVE p[2] \in ToSet(c)
  <2>1. PICK i \in DOMAIN q : p[1] = q[i].from /\ p[2] = q[i].to
    BY RelationPairs
  <2>2. i \in places
    BY <1>7, <2>1
  <2> QED BY <1>2, <1>3, <2>1, <2>2 DEF ToSet
<1> QED BY <1>1, <1>4, <1>5, <1>6, <1>7

\* Two sequences that have nothing twice and nothing in common.
LEMMA JoinedApart ==
  ASSUME NEW X, NEW t \in Seq(X), IsInjective(t), NEW c \in Seq(X), IsInjective(c),
         ToSet(t) \cap ToSet(c) = {}, NEW r, r = t \o c
  PROVE  /\ r \in Seq(X) /\ IsInjective(r) /\ ToSet(r) = ToSet(t) \cup ToSet(c)
         /\ DOMAIN t \subseteq DOMAIN r /\ \A k \in DOMAIN t : r[k] = t[k]
         /\ \A k \in DOMAIN r \ DOMAIN t : k > Len(t) /\ r[k] \in ToSet(c)
<1>1. /\ r \in Seq(X) /\ DOMAIN t = 1..Len(t) /\ DOMAIN c = 1..Len(c) /\ Len(t) \in Nat
      /\ DOMAIN r = 1..(Len(t) + Len(c)) /\ Len(c) \in Nat
      /\ \A i \in 1..(Len(t) + Len(c)) : r[i] = IF i <= Len(t) THEN t[i] ELSE c[i - Len(t)]
  OBVIOUS
<1>2. DOMAIN t \subseteq DOMAIN r /\ \A k \in DOMAIN t : r[k] = t[k]
  BY <1>1
<1>3. \A k \in DOMAIN r \ DOMAIN t : /\ k > Len(t) /\ k - Len(t) \in DOMAIN c
                                     /\ r[k] = c[k - Len(t)]
  BY <1>1
<1>4. \A k \in DOMAIN r \ DOMAIN t : k > Len(t) /\ r[k] \in ToSet(c)
  BY <1>3 DEF ToSet
<1>5. ToSet(r) = ToSet(t) \cup ToSet(c)
  BY ToSetConcat
<1>6. IsInjective(r)
  <2> SUFFICES ASSUME NEW k \in DOMAIN r, NEW l \in DOMAIN r, r[k] = r[l] PROVE k = l
    BY DEF IsInjective
  <2>1. CASE k \in DOMAIN t /\ l \in DOMAIN t
    BY <1>2, <2>1 DEF IsInjective
  <2>2. CASE k \in DOMAIN t /\ l \notin DOMAIN t
    <3>1. r[k] \in ToSet(t) /\ r[l] \in ToSet(c)
      BY <1>2, <1>4, <2>2 DEF ToSet
    <3> QED BY <3>1
  <2>3. CASE k \notin DOMAIN t /\ l \in DOMAIN t
    <3>1. r[l] \in ToSet(t) /\ r[k] \in ToSet(c)
      BY <1>2, <1>4, <2>3 DEF ToSet
    <3> QED BY <3>1
  <2>4. CASE k \notin DOMAIN t /\ l \notin DOMAIN t
    <3>1. k - Len(t) = l - Len(t)
      BY <1>3, <2>4 DEF IsInjective
    <3> QED BY <1>1, <3>1
  <2> QED BY <2>1, <2>2, <2>3, <2>4
<1> QED BY <1>1, <1>2, <1>4, <1>5, <1>6

\* The queue after n turns, from the roots s: nothing is in it twice, what is not a root
\* comes after what is above it, and what is below those taken so far is in it.
QueueInv(R, s, X, t, n) ==
  /\ t \in Seq(X) /\ IsInjective(t) /\ ToSet(s) \subseteq ToSet(t)
  /\ \A k \in DOMAIN t :
       t[k] \in ToSet(s) \/ \E j \in DOMAIN t : j < k /\ j <= n /\ <<t[j], t[k]>> \in R
  /\ \A j \in DOMAIN t : j <= n => \A p \in R : p[1] = t[j] => p[2] \in ToSet(t)

\* A relation among the tasks in X, in which a task follows at most one.
Forest(R, X) ==
  /\ \A p \in R : p = <<p[1], p[2]>> /\ p[1] \in X /\ p[2] \in X
  /\ \A p, w \in R : p[2] = w[2] => p[1] = w[1]

LEMMA QueueTurn ==
  ASSUME NEW E, NEW q \in Seq(E), OneEdgeTo(q), NEW X, Forest(RelationOf(q), X),
         NEW s, \A p \in RelationOf(q) : p[2] \notin ToSet(s),
         NEW t, NEW n \in Nat, QueueInv(RelationOf(q), s, X, t, n)
  PROVE  QueueInv(RelationOf(q), s, X, TakeNext(q, t, n + 1), n + 1)
<1> DEFINE R == RelationOf(q)
           c == Children(q, t[n + 1])
           r == t \o c
<1>1. t \in Seq(X) /\ IsInjective(t) /\ DOMAIN t = 1..Len(t) /\ Len(t) \in Nat
  BY DEF QueueInv
<1>2. CASE n + 1 > Len(t)
  <2>1. TakeNext(q, t, n + 1) = t
    BY <1>2 DEF TakeNext
  <2>2. \A j \in DOMAIN t : j <= n
    BY <1>1, <1>2
  <2>3. \A j \in DOMAIN t : j <= n => j <= n + 1
    BY <1>1
  <2>4. \A k \in DOMAIN t :
          t[k] \in ToSet(s) \/ \E j \in DOMAIN t : j < k /\ j <= n + 1 /\ <<t[j], t[k]>> \in R
    BY <2>3 DEF QueueInv
  <2>5. \A j \in DOMAIN t : \A p \in R : p[1] = t[j] => p[2] \in ToSet(t)
    BY <2>2 DEF QueueInv
  <2>6. QueueInv(R, s, X, t, n + 1)
    BY <2>4, <2>5 DEF QueueInv
  <2> QED BY <2>1, <2>6
<1>3. CASE ~(n + 1 > Len(t))
  <2>1. TakeNext(q, t, n + 1) = r
    BY <1>3 DEF TakeNext
  <2>2. n + 1 \in DOMAIN t
    BY <1>1, <1>3
  <2>3. /\ IsSeq(c) /\ IsInjective(c)
        /\ \A x : x \in ToSet(c) <=> \E p \in R : p[1] = t[n + 1] /\ p[2] = x
    BY ChildrenOK
  <2> HIDE DEF c
  <2>4. c \in Seq(X)
    <3>1. \A k \in DOMAIN c : c[k] \in X
      BY <2>3 DEF ToSet, Forest
    <3>2. DOMAIN c = 1..Len(c) /\ Len(c) \in Nat /\ \E S : c \in Seq(S)
      BY <2>3, SeqFacts DEF IsSeq
    <3> QED BY <3>1, <3>2
  <2>5. ToSet(t) \cap ToSet(c) = {}
    <3> SUFFICES ASSUME NEW k \in DOMAIN t, NEW p \in R, p[1] = t[n + 1], p[2] = t[k] PROVE FALSE
      BY <2>3 DEF ToSet
    <3>1. t[k] \notin ToSet(s)
      OBVIOUS
    <3>2. PICK j \in DOMAIN t : j <= n /\ <<t[j], t[k]>> \in R
      BY <3>1 DEF QueueInv
    <3>3. t[j] = t[n + 1]
      <4>1. <<t[j], t[k]>>[1] = t[j] /\ <<t[j], t[k]>>[2] = t[k]
        OBVIOUS
      <4> QED BY <3>2, <4>1 DEF Forest
    <3>4. j = n + 1
      BY <1>1, <2>2, <3>3 DEF IsInjective
    <3> QED BY <3>2, <3>4
  <2>6. /\ r \in Seq(X) /\ IsInjective(r) /\ ToSet(r) = ToSet(t) \cup ToSet(c)
        /\ DOMAIN t \subseteq DOMAIN r /\ \A k \in DOMAIN t : r[k] = t[k]
        /\ \A k \in DOMAIN r \ DOMAIN t : k > Len(t) /\ r[k] \in ToSet(c)
    BY <1>1, <2>3, <2>4, <2>5, JoinedApart
  <2> HIDE DEF r
  <2>7. \A k \in DOMAIN r :
          r[k] \in ToSet(s) \/ \E j \in DOMAIN r : j < k /\ j <= n + 1 /\ <<r[j], r[k]>> \in R
    <3> SUFFICES ASSUME NEW k \in DOMAIN r, r[k] \notin ToSet(s)
                 PROVE  \E j \in DOMAIN r : j < k /\ j <= n + 1 /\ <<r[j], r[k]>> \in R
      OBVIOUS
    <3>1. CASE k \in DOMAIN t
      <4>1. PICK j \in DOMAIN t : j < k /\ j <= n /\ <<t[j], t[k]>> \in R
        BY <2>6, <3>1 DEF QueueInv
      <4>2. j \in DOMAIN r /\ j <= n + 1 /\ r[j] = t[j] /\ r[k] = t[k]
        BY <1>1, <2>6, <3>1, <4>1
      <4> QED BY <4>1, <4>2
    <3>2. CASE k \notin DOMAIN t
      <4>1. k > Len(t) /\ r[k] \in ToSet(c)
        BY <2>6, <3>2
      <4>2. PICK p \in R : p[1] = t[n + 1] /\ p[2] = r[k]
        BY <2>3, <4>1
      <4>3. <<t[n + 1], r[k]>> \in R
        BY <4>2 DEF Forest
      <4>4. k \in Nat /\ n + 1 < k /\ n + 1 \in DOMAIN r /\ r[n + 1] = t[n + 1]
        BY <1>1, <2>2, <2>6, <4>1
      <4> QED BY <4>3, <4>4
    <3> QED BY <3>1, <3>2
  <2>8. ASSUME NEW j \in DOMAIN r, j <= n + 1, NEW p \in R, p[1] = r[j] PROVE p[2] \in ToSet(r)
    <3>1. j \in DOMAIN t /\ r[j] = t[j]
      BY <1>1, <1>3, <2>6, <2>8
    <3>2. CASE j = n + 1
      BY <2>3, <2>6, <2>8, <3>1, <3>2
    <3>3. CASE j # n + 1
      <4>1. j <= n
        BY <1>1, <2>8, <3>1, <3>3
      <4> QED BY <2>6, <2>8, <3>1, <4>1 DEF QueueInv
    <3> QED BY <3>2, <3>3
  <2>9. ToSet(s) \subseteq ToSet(r)
    BY <2>6 DEF QueueInv
  <2>10. QueueInv(R, s, X, r, n + 1)
    BY <2>6, <2>7, <2>8, <2>9 DEF QueueInv
  <2> QED BY <2>1, <2>10
<1> QED BY <1>2, <1>3

LEMMA TakeNextTyped ==
  ASSUME NEW E, NEW q \in Seq(E), OneEdgeTo(q), NEW X, Forest(RelationOf(q), X),
         NEW t \in Seq(X), NEW n
  PROVE  TakeNext(q, t, n) \in Seq(X)
<1> DEFINE c == Children(q, t[n])
<1>1. /\ IsSeq(c)
      /\ \A x : x \in ToSet(c) <=> \E p \in RelationOf(q) : p[1] = t[n] /\ p[2] = x
  BY ChildrenOK
<1>2. TakeNext(q, t, n) = IF n > Len(t) THEN t ELSE t \o c
  BY DEF TakeNext
<1> HIDE DEF c
<1>3. \A k \in DOMAIN c : c[k] \in X
  BY <1>1 DEF ToSet, Forest
<1>4. DOMAIN c = 1..Len(c) /\ Len(c) \in Nat /\ \E S : c \in Seq(S)
  BY <1>1, SeqFacts DEF IsSeq
<1>5. c \in Seq(X)
  BY <1>3, <1>4
<1> QED BY <1>2, <1>5

\* When the loop ends, all that is below the roots was in the queue.
LEMMA QueueEnds ==
  ASSUME NEW E, NEW q \in Seq(E), OneEdgeTo(q), NEW X, Forest(RelationOf(q), X), IsFiniteSet(X),
         NEW s \in Seq(X), IsInjective(s), \A p \in RelationOf(q) : p[2] \notin ToSet(s),
         NEW N \in Nat, Cardinality(X) <= N,
         NEW taken, taken = CHOOSE f : f = [n \in 0..N |-> IF n = 0 THEN s ELSE TakeNext(q, f[n - 1], n)]
  PROVE  /\ QueueInv(RelationOf(q), s, X, taken[N], N)
         /\ \A p \in RelationOf(q) : p[1] \in ToSet(taken[N]) => p[2] \in ToSet(taken[N])
<1> DEFINE R == RelationOf(q)
           S == Seq(X)
           step == [p \in (1..N) \X S |-> TakeNext(q, p[2], p[1])]
<1>1. ASSUME NEW n \in 1..N, NEW t \in S PROVE TakeNext(q, t, n) \in S
  BY TakeNextTyped
<1> HIDE DEF S
<1>2. step \in [(1..N) \X S -> S]
  BY <1>1
<1>3. s \in S
  BY DEF S
<1>4. PICK f \in [0..N -> S] : Recursively(f, N, s, step)
  <2> HIDE DEF step
  <2> QED BY <1>2, <1>3, RecursionIs
<1>5. f = [n \in 0..N |-> IF n = 0 THEN s ELSE TakeNext(q, f[n - 1], n)]
  <2>1. ASSUME NEW n \in 0..N, n # 0 PROVE step[<<n, f[n - 1]>>] = TakeNext(q, f[n - 1], n)
    <3>1. n \in 1..N /\ n - 1 \in 0..N /\ f[n - 1] \in S
      BY <2>1
    <3> QED BY <3>1
  <2> HIDE DEF step
  <2> QED BY <1>4, <2>1 DEF Recursively
<1>6. taken = [n \in 0..N |-> IF n = 0 THEN s ELSE TakeNext(q, taken[n - 1], n)]
  BY <1>5
<1>7. \A n \in 0..N : QueueInv(R, s, X, taken[n], n)
  <2> DEFINE bad == {n \in 0..N : ~QueueInv(R, s, X, taken[n], n)}
  <2>1. SUFFICES ASSUME bad # {} PROVE FALSE
    OBVIOUS
  <2>2. PICK n \in bad : \A k \in bad : n <= k
    <3>1. bad \subseteq Nat
      OBVIOUS
    <3> HIDE DEF bad
    <3> QED BY <2>1, <3>1, LeastNat
  <2>3. n # 0
    <3>1. taken[0] = s
      <4>1. 0 \in 0..N
        OBVIOUS
      <4> QED BY <1>6, <4>1
    <3>2. DOMAIN s \subseteq Nat \ {0} /\ \A k \in DOMAIN s : s[k] \in ToSet(s) /\ ~(k <= 0)
      BY DEF ToSet
    <3>3. QueueInv(R, s, X, s, 0)
      BY <3>2 DEF QueueInv
    <3> QED BY <2>2, <3>1, <3>3
  <2>4. n - 1 \in Nat /\ n - 1 \in 0..N /\ (n - 1) + 1 = n /\ ~(n <= n - 1)
    BY <2>3
  <2>5. QueueInv(R, s, X, taken[n - 1], n - 1) /\ taken[n] = TakeNext(q, taken[n - 1], n)
    BY <1>6, <2>2, <2>3, <2>4
  <2>6. QueueInv(R, s, X, taken[n], n)
    <3> DEFINE t == taken[n - 1]
               k == n - 1
    <3> HIDE DEF t, k
    <3>1. QueueInv(R, s, X, TakeNext(q, t, k + 1), k + 1)
      BY <2>4, <2>5, QueueTurn DEF t, k
    <3> QED BY <2>4, <2>5, <3>1 DEF t, k
  <2> QED BY <2>2, <2>6
<1> DEFINE t == taken[N]
<1>8. QueueInv(R, s, X, t, N)
  BY <1>7
<1> HIDE DEF t
<1>9. t \in Seq(X) /\ DOMAIN t = 1..Len(t) /\ Len(t) \in Nat
  BY <1>8 DEF QueueInv
<1>10. Len(t) <= N
  <2>1. t \in Injection(1..Len(t), X)
    BY <1>8, <1>9 DEF Injection, QueueInv
  <2>2. IsFiniteSet(1..Len(t)) /\ Cardinality(1..Len(t)) = Len(t)
    BY <1>9, CountedUpTo
  <2>3. Cardinality(1..Len(t)) <= Cardinality(X) /\ Cardinality(X) \in Nat
    BY <2>1, FS_Injection, FS_CardinalityType
  <2> QED BY <1>9, <2>2, <2>3
<1>11. \A p \in R : p[1] \in ToSet(t) => p[2] \in ToSet(t)
  <2> SUFFICES ASSUME NEW j \in DOMAIN t, NEW p \in R, p[1] = t[j] PROVE p[2] \in ToSet(t)
    BY DEF ToSet
  <2>1. j <= N
    BY <1>9, <1>10
  <2> QED BY <1>8, <2>1 DEF QueueInv
<1> QED BY <1>8, <1>11 DEF t

LEMMA WorkSeqOK ==
  ASSUME NEW g, NEW F, IsFacts(F), GraphSays(g, F)
  PROVE  /\ WorkSeq(g) \in Seq(WorkIds(g)) /\ IsInjective(WorkSeq(g))
         /\ ToSet(WorkSeq(g)) = WorkIds(g)
         /\ IsFiniteSet(WorkIds(g)) /\ Len(g.nodes) \in Nat
         /\ Cardinality(WorkIds(g)) <= Len(g.nodes)
<1> DEFINE q == g.nodes
           places == {i \in DOMAIN q : q[i].kind \in WorkKinds}
           r == AtPlaces(q, places)
           w == [i \in DOMAIN r |-> r[i].id]
<1>1. q \in Seq(NodeSet) /\ NodesSay(q, F) /\ WorkSeq(g) = w
  BY DEF GraphSays, GraphSet, WorkSeq
<1> HIDE DEF q
<1>2. DOMAIN q = 1..Len(q) /\ Len(q) \in Nat /\ IsSeq(q) /\ places \subseteq DOMAIN q
  BY <1>1 DEF IsSeq
<1>3. /\ r \in Seq(NodeSet) /\ DOMAIN r = 1..Len(r) /\ Len(r) \in Nat
      /\ \A i \in places : \E k \in DOMAIN r : r[k] = q[i]
      /\ \A k \in DOMAIN r : \E i \in places : r[k] = q[i]
      /\ \A k, l \in DOMAIN r : k # l => \E i, j \in places : i # j /\ r[k] = q[i] /\ r[l] = q[j]
  <2>1. r = AtPlaces(q, places) /\ q \in Seq(NodeSet) /\ places \subseteq DOMAIN q
    BY <1>1
  <2> HIDE DEF places, r
  <2> QED BY <2>1, PlacesApart
<1> HIDE DEF r
<1>4. DOMAIN w = DOMAIN r /\ \A k \in DOMAIN r : w[k] = r[k].id
  OBVIOUS
<1>5. \A k \in DOMAIN r : r[k].id \in WorkIds(g)
  <2> SUFFICES ASSUME NEW k \in DOMAIN r PROVE r[k].id \in WorkIds(g)
    OBVIOUS
  <2>1. PICK i \in places : r[k] = q[i]
    BY <1>3
  <2>2. q[i] \in ToSet(g.nodes) /\ q[i].kind \in WorkKinds
    BY DEF ToSet, q
  <2> QED BY <2>1, <2>2 DEF WorkIds
<1>6. \A x \in WorkIds(g) : \E k \in DOMAIN r : r[k].id = x
  <2> SUFFICES ASSUME NEW i \in DOMAIN q, q[i].kind \in WorkKinds
               PROVE  \E k \in DOMAIN r : r[k].id = q[i].id
    BY DEF WorkIds, ToSet, q
  <2> QED BY <1>3
<1>7. w \in Seq(WorkIds(g))
  <2>1. w \in [1..Len(r) -> WorkIds(g)]
    BY <1>3, <1>5
  <2> HIDE DEF w
  <2> QED BY <1>3, <2>1
<1> HIDE DEF w
<1>8. IsInjective(w)
  <2> SUFFICES ASSUME NEW k \in DOMAIN r, NEW l \in DOMAIN r, w[k] = w[l], k # l PROVE FALSE
    BY <1>4 DEF IsInjective
  <2>1. PICK i \in places, j \in places : i # j /\ r[k] = q[i] /\ r[l] = q[j]
    BY <1>3
  <2>2. q[i].id = q[j].id
    BY <1>4, <2>1
  <2> QED BY <1>1, <2>1, <2>2 DEF NodesSay
<1>9. ToSet(w) = WorkIds(g)
  BY <1>4, <1>5, <1>6 DEF ToSet
<1>10. IsFiniteSet(WorkIds(g)) /\ Cardinality(WorkIds(g)) <= Len(q)
  <2> DEFINE h == [i \in 1..Len(q) |-> q[i].id]
             T == {h[i] : i \in 1..Len(q)}
  <2>1. h \in [1..Len(q) -> T]
    OBVIOUS
  <2>2. WorkIds(g) \subseteq T
    BY <1>2 DEF WorkIds, ToSet, q
  <2> HIDE DEF h
  <2>3. IsFiniteSet(T) /\ Cardinality(T) <= Len(q) /\ Cardinality(T) \in Nat
    BY <1>2, <2>1, EndsFinite
  <2> HIDE DEF T
  <2>4. IsFiniteSet(WorkIds(g)) /\ Cardinality(WorkIds(g)) <= Cardinality(T)
    BY <2>2, <2>3, FS_Subset
  <2>5. Cardinality(WorkIds(g)) \in Nat
    BY <2>4, FS_CardinalityType
  <2> QED BY <1>2, <2>3, <2>4, <2>5
<1> QED BY <1>1, <1>2, <1>7, <1>8, <1>9, <1>10 DEF q

LEMMA WorkEdgesOK ==
  ASSUME GraphInv
  PROVE  /\ WorkEdges(Served) \in Seq(EdgeSet) /\ OneEdgeTo(WorkEdges(Served))
         /\ RelationOf(WorkEdges(Served)) =
              {p \in WorkParentOf : p[1] \in WorkIds(Served) /\ p[2] \in WorkIds(Served)}
         /\ Forest(RelationOf(WorkEdges(Served)), WorkIds(Served))
         /\ \A p \in RelationOf(WorkEdges(Served)) : p[2] \notin Roots(Served)
<1> DEFINE q == ParentEdges(Served)
           X == WorkIds(Served)
           places == {i \in DOMAIN q : {q[i].from, q[i].to} \subseteq X}
           r == AtPlaces(q, places)
           P == {p \in WorkParentOf : p[1] \in X /\ p[2] \in X}
<1>1. /\ q \in Seq(EdgeSet) /\ RelationOf(q) = WorkParentOf
      /\ \A i, j \in DOMAIN q : q[i].to = q[j].to => i = j
      /\ WorkEdges(Served) = r /\ places \subseteq DOMAIN q
  BY WorkRelation DEF WorkEdges
<1>2. \A i \in DOMAIN q : q[i].to \notin Roots(Served)
  BY DEF Roots, ToSet
<1> HIDE DEF q, X
<1>3. /\ r \in Seq(EdgeSet)
      /\ \A i \in places : \E k \in DOMAIN r : r[k] = q[i]
      /\ \A k \in DOMAIN r : \E i \in places : r[k] = q[i]
      /\ \A k, l \in DOMAIN r : k # l => \E i, j \in places : i # j /\ r[k] = q[i] /\ r[l] = q[j]
  <2>1. r = AtPlaces(q, places)
    OBVIOUS
  <2> HIDE DEF places, r
  <2> QED BY <1>1, <2>1, PlacesApart
<1> HIDE DEF r
<1>4. OneEdgeTo(r)
  <2> SUFFICES ASSUME NEW k \in DOMAIN r, NEW l \in DOMAIN r, r[k].to = r[l].to, k # l PROVE FALSE
    BY DEF OneEdgeTo
  <2>1. PICK i \in places, j \in places : i # j /\ r[k] = q[i] /\ r[l] = q[j]
    BY <1>3
  <2> QED BY <1>1, <2>1
<1>5. \A p \in WorkParentOf : p = <<p[1], p[2]>>
  BY RelationSaid DEF WorkParentOf
<1>6. ASSUME NEW k \in DOMAIN r PROVE <<r[k].from, r[k].to>> \in P
  <2>1. PICK i \in places : r[k] = q[i]
    BY <1>3
  <2>2. <<q[i].from, q[i].to>> \in WorkParentOf
    BY <1>1, RelationPairs
  <2>3. <<q[i].from, q[i].to>>[1] = q[i].from /\ <<q[i].from, q[i].to>>[2] = q[i].to
    OBVIOUS
  <2> QED BY <2>1, <2>2, <2>3
<1>7. ASSUME NEW p \in P PROVE \E k \in DOMAIN r : p = <<r[k].from, r[k].to>>
  <2>1. PICK i \in DOMAIN q : p[1] = q[i].from /\ p[2] = q[i].to
    BY <1>1, RelationPairs
  <2>2. i \in places
    BY <2>1
  <2>3. PICK k \in DOMAIN r : r[k] = q[i]
    BY <1>3, <2>2
  <2> QED BY <1>5, <2>1, <2>3
<1>8. RelationOf(r) = P
  <2> HIDE DEF P
  <2> QED BY <1>6, <1>7 DEF RelationOf
<1>9. \A p, w \in P : p[2] = w[2] => p[1] = w[1]
  <2> SUFFICES ASSUME NEW p \in P, NEW w \in P, p[2] = w[2] PROVE p[1] = w[1]
    OBVIOUS
  <2>1. PICK i \in DOMAIN q : p[1] = q[i].from /\ p[2] = q[i].to
    BY <1>1, RelationPairs
  <2>2. PICK j \in DOMAIN q : w[1] = q[j].from /\ w[2] = q[j].to
    BY <1>1, RelationPairs
  <2> QED BY <1>1, <2>1, <2>2
<1>10. Forest(P, X)
  BY <1>5, <1>9 DEF Forest
<1>11. \A p \in P : p[2] \notin Roots(Served)
  <2> SUFFICES ASSUME NEW p \in P PROVE p[2] \notin Roots(Served)
    OBVIOUS
  <2>1. PICK i \in DOMAIN q : p[2] = q[i].to
    BY <1>1, RelationPairs
  <2> QED BY <1>2, <2>1
<1> QED BY <1>1, <1>3, <1>4, <1>8, <1>10, <1>11 DEF X

LEMMA OrderServed == GraphInv => OrderExact
<1> SUFFICES ASSUME GraphInv PROVE OrderExact
  OBVIOUS
<1> DEFINE g == Served
           X == WorkIds(g)
           ws == WorkSeq(g)
           q == WorkEdges(g)
           R == {p \in WorkParentOf : p[1] \in X /\ p[2] \in X}
           s == AmongIds(ws, Roots(g))
           N == Len(g.nodes)
           taken == CHOOSE f : f = [n \in 0..N |-> IF n = 0 THEN s ELSE TakeNext(q, f[n - 1], n)]
           t == taken[N]
           rest == AmongIds(ws, X \ ToSet(t))
           order == TopologicalOrder(g)
           place(id) == CHOOSE i \in DOMAIN order : order[i] = id
<1>1. order = t \o rest
  BY DEF TopologicalOrder
<1>2. /\ ws \in Seq(X) /\ IsInjective(ws) /\ ToSet(ws) = X
      /\ IsFiniteSet(X) /\ N \in Nat /\ Cardinality(X) <= N
  BY ServedSays, WorkSeqOK
<1>3. /\ q \in Seq(EdgeSet) /\ OneEdgeTo(q) /\ RelationOf(q) = R
      /\ Forest(R, X) /\ \A p \in R : p[2] \notin Roots(g)
  BY WorkEdgesOK
<1>4. Roots(g) \subseteq X
  BY DEF Roots
<1> HIDE DEF q, X, ws, R
<1>5. s \in Seq(X) /\ IsInjective(s) /\ ToSet(s) = Roots(g)
  <2>1. /\ s \in Seq(X) /\ IsInjective(s)
        /\ \A x : x \in ToSet(s) <=> x \in ToSet(ws) /\ x \in Roots(g)
    BY <1>2, AmongIdsOK
  <2> HIDE DEF s
  <2> QED BY <1>2, <1>4, <2>1
<1> HIDE DEF s, N
<1>6. /\ QueueInv(R, s, X, t, N)
      /\ \A p \in R : p[1] \in ToSet(t) => p[2] \in ToSet(t)
  <2>1. /\ q \in Seq(EdgeSet) /\ OneEdgeTo(q) /\ Forest(RelationOf(q), X) /\ s \in Seq(X)
        /\ IsInjective(s) /\ \A p \in RelationOf(q) : p[2] \notin ToSet(s)
    BY <1>3, <1>5
  <2>2. taken = CHOOSE f : f = [n \in 0..N |-> IF n = 0 THEN s ELSE TakeNext(q, f[n - 1], n)]
    OBVIOUS
  <2> HIDE DEF taken
  <2>3. /\ QueueInv(RelationOf(q), s, X, taken[N], N)
        /\ \A p \in RelationOf(q) : p[1] \in ToSet(taken[N]) => p[2] \in ToSet(taken[N])
    BY <1>2, <2>1, <2>2, QueueEnds
  <2> QED BY <1>3, <2>3
<1> HIDE DEF taken, t
<1>7. rest \in Seq(X) /\ IsInjective(rest) /\ \A x : x \in ToSet(rest) <=> x \in X /\ x \notin ToSet(t)
  <2>1. /\ rest \in Seq(X) /\ IsInjective(rest)
        /\ \A x : x \in ToSet(rest) <=> x \in ToSet(ws) /\ x \in X \ ToSet(t)
    BY <1>2, AmongIdsOK
  <2> HIDE DEF rest
  <2> QED BY <1>2, <2>1
<1>8. t \in Seq(X) /\ IsInjective(t) /\ ToSet(t) \subseteq X
  BY <1>6, ToSetFinite DEF QueueInv
<1> HIDE DEF rest, order
<1>9. /\ order \in Seq(X) /\ IsInjective(order) /\ ToSet(order) = ToSet(t) \cup ToSet(rest)
      /\ DOMAIN t \subseteq DOMAIN order /\ \A k \in DOMAIN t : order[k] = t[k]
  <2>1. ToSet(t) \cap ToSet(rest) = {}
    BY <1>7
  <2>2. t \in Seq(X) /\ IsInjective(t) /\ rest \in Seq(X) /\ IsInjective(rest)
    BY <1>7, <1>8
  <2>3. order = t \o rest
    BY <1>1
  <2> HIDE DEF X
  <2>4. order \in Seq(X) /\ IsInjective(order) /\ ToSet(order) = ToSet(t) \cup ToSet(rest)
    BY ZenonT(60), <2>1, <2>2, <2>3, JoinedApart
  <2>5. DOMAIN t \subseteq DOMAIN order /\ \A k \in DOMAIN t : order[k] = t[k]
    BY <2>1, <2>2, <2>3, JoinedApart
  <2> QED BY <2>4, <2>5
<1>10. ToSet(order) = X
  BY <1>7, <1>8, <1>9
<1>11. Len(order) = Cardinality(X)
  <2>1. DOMAIN order = 1..Len(order) /\ IsSeq(order)
    BY <1>9 DEF IsSeq
  <2>2. {order[i] : i \in 1..Len(order)} = X
    BY <1>10, <2>1 DEF ToSet
  <2>3. /\ order \in [1..Len(order) -> {order[i] : i \in 1..Len(order)}]
        /\ \A i, j \in 1..Len(order) : order[i] = order[j] => i = j
    BY <1>9, <2>1, <2>2 DEF IsInjective
  <2>4. Len(order) = Cardinality({order[i] : i \in 1..Len(order)})
    BY <2>1, <2>3, AsLong
  <2> QED BY <2>2, <2>4
<1>12. ASSUME NEW r \in Roots(g), NEW p \in R, p[2] \in Below(R, r)
       PROVE  place(p[1]) < place(p[2])
  <2>1. Below(R, r) \subseteq ToSet(t)
    <3>1. r \in ToSet(t)
      BY <1>5, <1>6 DEF QueueInv
    <3>2. \A w \in R : w[1] \in ToSet(t) \/ w[1] = r => w[2] \in ToSet(t)
      BY <1>6, <3>1
    <3> QED BY <3>2, BelowLeast
  <2>2. PICK k \in DOMAIN t : t[k] = p[2]
    BY <1>12, <2>1 DEF ToSet
  <2>3. PICK j \in DOMAIN t : j < k /\ <<t[j], t[k]>> \in R
    BY <1>3, <1>5, <1>6, <2>2 DEF QueueInv
  <2>4. t[j] = p[1]
    <3>1. <<t[j], t[k]>>[1] = t[j] /\ <<t[j], t[k]>>[2] = t[k]
      OBVIOUS
    <3> QED BY <1>3, <2>2, <2>3, <3>1 DEF Forest
  <2>5. order[j] = p[1] /\ order[k] = p[2] /\ j \in DOMAIN order /\ k \in DOMAIN order
    BY <1>9, <2>2, <2>4
  <2>6. place(p[1]) = j
    BY <1>9, <2>5 DEF IsInjective
  <2>7. place(p[2]) = k
    BY <1>9, <2>5 DEF IsInjective
  <2> QED BY <2>3, <2>6, <2>7
<1> QED BY <1>10, <1>11, <1>12 DEF OrderExact, X, R, order

-------------------------------------------------------------------------------
(* The depth: every call of depthFrom() and its return.                      *)
\* What follows n does so directly.
LEMMA BelowParent ==
  ASSUME NEW R, NEW n, NEW x \in Below(R, n)
  PROVE  \E w \in R : w[2] = x /\ (w[1] = n \/ w[1] \in Below(R, n))
<1> DEFINE T == {y \in Below(R, n) : \E w \in R : w[2] = y /\ (w[1] = n \/ w[1] \in Below(R, n))}
<1>1. \A p \in R : p[1] \in T \/ p[1] = n => p[2] \in T
  BY BelowStep
<1>2. Below(R, n) \subseteq T
  <2> HIDE DEF T
  <2> QED BY <1>1, BelowLeast
<1> QED BY <1>2

\* The way down to a message from a root, and how deep that is.
Path(R, r, x) == {m \in Below(R, r) : m = x \/ x \in Below(R, m)}
LevelOf(R, r, x) == 1 + Cardinality(Path(R, r, x))

\* A relation in which a message follows at most one, and none leads to r.
Rooted(R, r) ==
  /\ \A p, w \in R : p[2] = w[2] => p[1] = w[1]
  /\ \A p \in R : p[2] # r

LEMMA PathOfRoot ==
  ASSUME NEW R, NEW r, Rooted(R, r)
  PROVE  r \notin Below(R, r) /\ Path(R, r, r) = {} /\ LevelOf(R, r, r) = 1
<1>1. \A n : r \notin Below(R, n)
  BY BelowParent DEF Rooted
<1>2. Path(R, r, r) = {}
  BY <1>1 DEF Path
<1>3. Cardinality({}) = 0
  BY FS_EmptySet
<1> QED BY <1>1, <1>2, <1>3 DEF LevelOf

LEMMA PathStep ==
  ASSUME NEW R, NEW r, Rooted(R, r), NEW p \in R, p[1] = r \/ p[1] \in Below(R, r)
  PROVE  Path(R, r, p[2]) = Path(R, r, p[1]) \cup {p[2]}
<1>1. p[2] \in Path(R, r, p[2])
  BY BelowStep DEF Path
<1>2. ASSUME NEW m \in Path(R, r, p[1]) PROVE m \in Path(R, r, p[2])
  BY BelowStep DEF Path
<1>3. ASSUME NEW m \in Path(R, r, p[2]), m # p[2] PROVE m \in Path(R, r, p[1])
  <2>1. m \in Below(R, r) /\ p[2] \in Below(R, m)
    BY <1>3 DEF Path
  <2>2. PICK w \in R : w[2] = p[2] /\ (w[1] = m \/ w[1] \in Below(R, m))
    BY <2>1, BelowParent
  <2>3. w[1] = p[1]
    BY <2>2 DEF Rooted
  <2> QED BY <2>1, <2>2, <2>3 DEF Path
<1> QED BY <1>1, <1>2, <1>3

\* Where the calls are after n turns from the root r.
Calls(R, r) == [id : Below(R, r) \cup {r}, below : Nat]

\* The visited messages come with what is above them, and what is below one is visited
\* unless its call is under way.
Visits(R, r, s) ==
  /\ s.visited \subseteq Below(R, r) \cup {r} /\ IsFiniteSet(s.visited) /\ r \in s.visited
  /\ \A v \in s.visited : Path(R, r, v) \subseteq s.visited
  /\ \A v \in s.visited : \/ \E k \in DOMAIN s.calls : s.calls[k].id = v
                          \/ \A p \in R : p[1] = v => p[2] \in s.visited

\* The calls under way are as many as the way down to the last one is long.  The visited
\* messages are as deep as one of the calls has found, and no call has found more.
CallsInv(R, r, s, n) ==
  /\ s.calls \in Seq(Calls(R, r)) /\ s.depth \in Nat
  /\ Visits(R, r, s)
  /\ \A k \in DOMAIN s.calls :
       /\ s.calls[k].id \in s.visited /\ LevelOf(R, r, s.calls[k].id) = k
       /\ \E v \in s.visited : LevelOf(R, r, v) = k + s.calls[k].below
  /\ IF s.calls = <<>>
     THEN /\ \A v \in s.visited : LevelOf(R, r, v) <= s.depth
          /\ \E v \in s.visited : LevelOf(R, r, v) = s.depth
     ELSE /\ \A v \in s.visited : \E k \in DOMAIN s.calls :
               LevelOf(R, r, v) <= k + s.calls[k].below
          /\ 2 * Cardinality(s.visited) = Len(s.calls) + n + 1

\* What a call or a return does.
CallsOn(R, s, u) ==
  LET k == Len(s.calls)
  IN k # 0 /\ \E p \in R :
       /\ p[1] = s.calls[k].id /\ p[2] \notin s.visited
       /\ u.calls = Append(s.calls, [id |-> p[2], below |-> 0])
       /\ u.visited = s.visited \cup {p[2]} /\ u.depth = s.depth

Returns(R, s, u) ==
  LET k == Len(s.calls)
  IN /\ k # 0 /\ \A p \in R : p[1] = s.calls[k].id => p[2] \in s.visited
     /\ u.calls = [i \in 1..k - 1 |->
                     [id |-> s.calls[i].id,
                      below |-> IF i = k - 1
                                THEN Larger(s.calls[i].below, 1 + s.calls[k].below)
                                ELSE s.calls[i].below]]
     /\ u.visited = s.visited /\ u.depth = 1 + s.calls[k].below

LEMMA CallOrReturnOK ==
  ASSUME NEW E, NEW q \in Seq(E), OneEdgeTo(q), NEW s, NEW u, u = CallOrReturn(q, s)
  PROVE  \/ Len(s.calls) = 0 /\ u = s
         \/ CallsOn(RelationOf(q), s, u) \/ Returns(RelationOf(q), s, u)
<1> DEFINE k == Len(s.calls)
           kids == Children(q, s.calls[k].id)
           new == {i \in DOMAIN kids : kids[i] \notin s.visited}
           first == CHOOSE i \in new : \A j \in new : i <= j
           value == 1 + s.calls[k].below
           above == [i \in 1..k - 1 |-> [id |-> s.calls[i].id,
                                    below |-> IF i = k - 1 THEN Larger(s.calls[i].below, value)
                                              ELSE s.calls[i].below]]
<1>1. u = IF k = 0 THEN s
          ELSE IF new # {}
          THEN [calls |-> Append(s.calls, [id |-> kids[first], below |-> 0]),
                visited |-> s.visited \cup {kids[first]}, depth |-> s.depth]
          ELSE [calls |-> above, visited |-> s.visited, depth |-> value]
  BY DEF CallOrReturn
<1>2. /\ IsSeq(kids)
      /\ \A x : x \in ToSet(kids) <=> \E p \in RelationOf(q) : p[1] = s.calls[k].id /\ p[2] = x
  BY ChildrenOK
<1>3. CASE k = 0
  BY <1>1, <1>3
<1>4. CASE k # 0 /\ new # {}
  <2>1. first \in new
    <3>1. new \subseteq Nat
      BY <1>2, SeqFacts
    <3>2. \E i \in new : \A j \in new : i <= j
      <4> HIDE DEF new
      <4> QED BY <1>4, <3>1, LeastNat
    <3> HIDE DEF new
    <3> QED BY <3>2
  <2> HIDE DEF first
  <2>2. kids[first] \in ToSet(kids) /\ kids[first] \notin s.visited
    BY <2>1 DEF ToSet
  <2>3. PICK p \in RelationOf(q) : p[1] = s.calls[k].id /\ p[2] = kids[first]
    BY <1>2, <2>2
  <2>4. u = [calls |-> Append(s.calls, [id |-> p[2], below |-> 0]),
             visited |-> s.visited \cup {p[2]}, depth |-> s.depth]
    BY <1>1, <1>4, <2>3
  <2>5. /\ p[2] \notin s.visited /\ u.calls = Append(s.calls, [id |-> p[2], below |-> 0])
        /\ u.visited = s.visited \cup {p[2]} /\ u.depth = s.depth
    BY <2>2, <2>3, <2>4
  <2>6. Len(s.calls) # 0 /\ p[1] = s.calls[Len(s.calls)].id
    BY <1>4, <2>3
  <2> HIDE DEF k, kids, new
  <2>7. CallsOn(RelationOf(q), s, u)
    BY <2>5, <2>6 DEF CallsOn
  <2> QED BY <2>7
<1>5. CASE k # 0 /\ new = {}
  <2>1. \A x \in ToSet(kids) : x \in s.visited
    BY <1>5 DEF ToSet
  <2>2. \A p \in RelationOf(q) : p[1] = s.calls[k].id => p[2] \in s.visited
    BY SMTT(30), <1>2, <2>1
  <2>3. u = [calls |-> above, visited |-> s.visited, depth |-> value]
    BY <1>1, <1>5
  <2> HIDE DEF kids, new
  <2> QED BY <1>5, <2>2, <2>3 DEF Returns
<1> QED BY <1>3, <1>4, <1>5

LEMMA LevelStep ==
  ASSUME NEW R, NEW r, Rooted(R, r), NEW p \in R, p[1] = r \/ p[1] \in Below(R, r),
         IsFiniteSet(Path(R, r, p[1])), p[2] \notin Path(R, r, p[1])
  PROVE  LevelOf(R, r, p[2]) = LevelOf(R, r, p[1]) + 1 /\ LevelOf(R, r, p[2]) \in Nat
<1>1. Path(R, r, p[2]) = Path(R, r, p[1]) \cup {p[2]}
  BY PathStep
<1>2. Cardinality(Path(R, r, p[1])) \in Nat
  BY FS_CardinalityType
<1>3. Cardinality(Path(R, r, p[2])) = Cardinality(Path(R, r, p[1])) + 1
  BY <1>1, FS_AddElement
<1> QED BY <1>2, <1>3 DEF LevelOf

LEMMA LevelsAreNumbers ==
  ASSUME NEW R, NEW r, NEW s, Visits(R, r, s), NEW v \in s.visited
  PROVE  IsFiniteSet(Path(R, r, v)) /\ LevelOf(R, r, v) \in Nat \ {0}
<1>1. IsFiniteSet(Path(R, r, v))
  BY FS_Subset DEF Visits
<1>2. Cardinality(Path(R, r, v)) \in Nat
  BY <1>1, FS_CardinalityType
<1> QED BY <1>1, <1>2 DEF LevelOf

LEMMA CallInvKept ==
  ASSUME NEW R, NEW r, Rooted(R, r), NEW s, NEW n \in Nat, CallsInv(R, r, s, n),
         NEW u, CallsOn(R, s, u)
  PROVE  CallsInv(R, r, u, n + 1)
<1> DEFINE k == Len(s.calls)
           L(x) == LevelOf(R, r, x)
<1>1. PICK p \in R :
        /\ p[1] = s.calls[k].id /\ p[2] \notin s.visited
        /\ u.calls = Append(s.calls, [id |-> p[2], below |-> 0])
        /\ u.visited = s.visited \cup {p[2]} /\ u.depth = s.depth
  BY DEF CallsOn
<1>2. /\ s.calls \in Seq(Calls(R, r)) /\ k \in Nat /\ k # 0 /\ DOMAIN s.calls = 1..k
      /\ k \in DOMAIN s.calls /\ s.calls # <<>> /\ s.depth \in Nat /\ Visits(R, r, s)
      /\ p[1] \in s.visited /\ L(p[1]) = k
      /\ 2 * Cardinality(s.visited) = k + n + 1
  <2>1. s.calls \in Seq(Calls(R, r)) /\ s.depth \in Nat /\ Visits(R, r, s) /\ k # 0
    BY DEF CallsInv, CallsOn
  <2>2. k \in Nat /\ DOMAIN s.calls = 1..k /\ k \in DOMAIN s.calls /\ s.calls # <<>>
    BY <2>1
  <2>3. s.calls[k].id \in s.visited /\ L(s.calls[k].id) = k
    BY <2>2 DEF CallsInv
  <2>4. 2 * Cardinality(s.visited) = k + n + 1
    BY <2>2 DEF CallsInv
  <2> HIDE DEF k
  <2> QED BY <1>1, <2>1, <2>2, <2>3, <2>4
<1>3. p[1] = r \/ p[1] \in Below(R, r)
  BY <1>2 DEF Visits
<1>4. p[2] \in Below(R, r)
  BY <1>3, BelowStep
<1>5. Path(R, r, p[2]) = Path(R, r, p[1]) \cup {p[2]}
  BY <1>3, PathStep
<1>6. p[2] \notin Path(R, r, p[1]) /\ IsFiniteSet(Path(R, r, p[1]))
  BY <1>1, <1>2, LevelsAreNumbers DEF Visits
<1>7. L(p[2]) = k + 1
  BY <1>2, <1>3, <1>6, LevelStep
<1>8. /\ u.calls \in Seq(Calls(R, r)) /\ Len(u.calls) = k + 1 /\ DOMAIN u.calls = 1..(k + 1)
      /\ \A i \in 1..k : u.calls[i] = s.calls[i]
      /\ u.calls[k + 1].id = p[2] /\ u.calls[k + 1].below = 0 /\ u.calls # <<>>
  <2>1. [id |-> p[2], below |-> 0] \in Calls(R, r)
    BY <1>4 DEF Calls
  <2> DEFINE e == [id |-> p[2], below |-> 0]
  <2>2. e.id = p[2] /\ e.below = 0 /\ e \in Calls(R, r) /\ u.calls = Append(s.calls, e)
    BY <1>1, <2>1
  <2> HIDE DEF e
  <2> QED BY <1>2, <2>2
<1>9. /\ IsFiniteSet(u.visited) /\ Cardinality(u.visited) = Cardinality(s.visited) + 1
      /\ Cardinality(s.visited) \in Nat
  <2>1. IsFiniteSet(s.visited) /\ p[2] \notin s.visited
    BY <1>1, <1>2 DEF Visits
  <2>2. /\ IsFiniteSet(s.visited \cup {p[2]})
        /\ Cardinality(s.visited \cup {p[2]}) = Cardinality(s.visited) + 1
        /\ Cardinality(s.visited) \in Nat
    BY <2>1, FS_AddElement, FS_CardinalityType
  <2> QED BY <1>1, <2>2
<1>10. \A v \in s.visited : \/ \E i \in DOMAIN u.calls : u.calls[i].id = v
                            \/ \A w \in R : w[1] = v => w[2] \in u.visited
  <2>1. \A i \in DOMAIN s.calls : i \in DOMAIN u.calls /\ u.calls[i] = s.calls[i]
    BY <1>2, <1>8
  <2> QED BY <1>1, <1>2, <2>1 DEF Visits
<1>11. Visits(R, r, u)
  <2>1. k + 1 \in DOMAIN u.calls /\ u.calls[k + 1].id = p[2]
    BY <1>2, <1>8
  <2> QED BY <1>1, <1>2, <1>4, <1>5, <1>9, <1>10, <2>1 DEF Visits
<1>12. ASSUME NEW i \in DOMAIN u.calls
       PROVE  /\ u.calls[i].id \in u.visited /\ L(u.calls[i].id) = i
              /\ \E v \in u.visited : L(v) = i + u.calls[i].below
  <2>1. CASE i = k + 1
    <3>1. u.calls[i].id = p[2] /\ u.calls[i].below = 0 /\ p[2] \in u.visited
      BY <1>1, <1>8, <2>1
    <3>2. L(p[2]) = i /\ L(p[2]) = i + 0
      BY <1>2, <1>7, <2>1
    <3> HIDE DEF k, L
    <3> QED BY <3>1, <3>2
  <2>2. CASE i # k + 1
    <3>1. i \in 1..k /\ u.calls[i] = s.calls[i]
      BY <1>2, <1>8, <2>2
    <3> QED BY <1>1, <1>2, <3>1 DEF CallsInv
  <2> QED BY <2>1, <2>2
<1>13. ASSUME NEW v \in u.visited
       PROVE  \E i \in DOMAIN u.calls : L(v) <= i + u.calls[i].below
  <2>1. CASE v = p[2]
    <3>1. k + 1 \in DOMAIN u.calls /\ u.calls[k + 1].below = 0
      BY <1>2, <1>8
    <3>2. L(v) = k + 1 /\ k + 1 <= (k + 1) + 0
      BY <1>2, <1>7, <2>1
    <3> HIDE DEF k, L
    <3> QED BY <3>1, <3>2
  <2>2. CASE v \in s.visited
    <3>1. PICK i \in DOMAIN s.calls : L(v) <= i + s.calls[i].below
      BY <1>2, <2>2 DEF CallsInv
    <3>2. i \in DOMAIN u.calls /\ u.calls[i] = s.calls[i]
      BY <1>2, <1>8
    <3> QED BY <3>1, <3>2
  <2> QED BY <1>1, <2>1, <2>2
<1>14. 2 * Cardinality(u.visited) = Len(u.calls) + (n + 1) + 1
  <2> DEFINE a == Cardinality(s.visited)
             b == Cardinality(u.visited)
             l == Len(u.calls)
  <2>1. a \in Nat /\ b = a + 1 /\ l = k + 1 /\ 2 * a = k + n + 1 /\ k \in Nat
    BY <1>2, <1>8, <1>9
  <2> HIDE DEF a, b, l, k
  <2>2. 2 * b = l + (n + 1) + 1
    BY <2>1
  <2> QED BY <2>2 DEF b, l
<1>15. u.depth \in Nat
  BY <1>1, <1>2
<1> HIDE DEF k
<1> QED BY <1>8, <1>11, <1>12, <1>13, <1>14, <1>15 DEF CallsInv

LEMMA ReturnInvKept ==
  ASSUME NEW R, NEW r, Rooted(R, r), NEW s, NEW n \in Nat, CallsInv(R, r, s, n),
         NEW u, Returns(R, s, u)
  PROVE  CallsInv(R, r, u, n + 1)
<1> DEFINE k == Len(s.calls)
           L(x) == LevelOf(R, r, x)
           value == 1 + s.calls[k].below
<1>1. /\ k # 0 /\ \A p \in R : p[1] = s.calls[k].id => p[2] \in s.visited
      /\ u.calls = [i \in 1..k - 1 |->
                     [id |-> s.calls[i].id,
                      below |-> IF i = k - 1 THEN Larger(s.calls[i].below, value)
                                ELSE s.calls[i].below]]
      /\ u.visited = s.visited /\ u.depth = value
  BY DEF Returns
<1>2. /\ s.calls \in Seq(Calls(R, r)) /\ k \in Nat /\ DOMAIN s.calls = 1..k
      /\ k \in DOMAIN s.calls /\ s.calls # <<>> /\ Visits(R, r, s)
      /\ 2 * Cardinality(s.visited) = k + n + 1
  <2>1. s.calls \in Seq(Calls(R, r)) /\ Visits(R, r, s) /\ k # 0
    BY <1>1 DEF CallsInv
  <2>2. k \in Nat /\ DOMAIN s.calls = 1..k /\ k \in DOMAIN s.calls /\ s.calls # <<>>
    BY <2>1
  <2>3. 2 * Cardinality(s.visited) = k + n + 1
    BY <2>2 DEF CallsInv
  <2> HIDE DEF k
  <2> QED BY <2>1, <2>2, <2>3
<1>3. \A i \in DOMAIN s.calls : s.calls[i].below \in Nat /\ s.calls[i].id \in Below(R, r) \cup {r}
  <2> SUFFICES ASSUME NEW i \in DOMAIN s.calls PROVE s.calls[i] \in Calls(R, r)
    BY DEF Calls
  <2> QED BY <1>2
<1>4. value \in Nat /\ k - 1 \in Nat /\ 1..k - 1 \subseteq DOMAIN s.calls
  BY <1>1, <1>2, <1>3
<1> HIDE DEF value
<1>5. /\ DOMAIN u.calls = 1..k - 1 /\ Len(u.calls) = k - 1 /\ u.calls \in Seq(Calls(R, r))
      /\ \A i \in 1..k - 1 : /\ u.calls[i].id = s.calls[i].id
                             /\ u.calls[i].below \in {s.calls[i].below, value}
                             /\ s.calls[i].below <= u.calls[i].below
                             /\ u.calls[i].below = value => i = k - 1 \/ value = s.calls[i].below
                             /\ i = k - 1 => value <= u.calls[i].below
  <2> DEFINE B(i) == IF i = k - 1 THEN Larger(s.calls[i].below, value) ELSE s.calls[i].below
             c == [i \in 1..k - 1 |-> [id |-> s.calls[i].id, below |-> B(i)]]
  <2>1. ASSUME NEW i \in 1..k - 1
        PROVE  /\ B(i) \in {s.calls[i].below, value} /\ s.calls[i].below <= B(i)
               /\ B(i) = value => i = k - 1 \/ value = s.calls[i].below
               /\ i = k - 1 => value <= B(i)
    BY <1>3, <1>4 DEF Larger
  <2>2. \A i \in 1..k - 1 : B(i) \in Nat
    BY <1>3, <1>4, <2>1
  <2> HIDE DEF B
  <2>3. ASSUME NEW i \in 1..k - 1
        PROVE  [id |-> s.calls[i].id, below |-> B(i)] \in Calls(R, r)
    BY <1>3, <1>4, <2>2 DEF Calls
  <2>4. c \in [1..k - 1 -> Calls(R, r)]
    BY <2>3
  <2>5. u.calls = c
    BY <1>1 DEF B
  <2>6. \A i \in 1..k - 1 : c[i].id = s.calls[i].id /\ c[i].below = B(i)
    OBVIOUS
  <2> HIDE DEF c
  <2>7. c \in Seq(Calls(R, r)) /\ Len(c) = k - 1 /\ DOMAIN c = 1..k - 1
    BY <1>4, <2>4
  <2> QED BY <2>1, <2>5, <2>6, <2>7
<1>6. PICK w \in s.visited : L(w) = k + s.calls[k].below
  BY <1>2 DEF CallsInv
<1>7. L(w) = (k - 1) + value
  BY <1>2, <1>3, <1>6 DEF value
<1>8. Visits(R, r, u)
  <2>1. ASSUME NEW v \in s.visited
        PROVE  \/ \E i \in DOMAIN u.calls : u.calls[i].id = v
               \/ \A p \in R : p[1] = v => p[2] \in s.visited
    <3>1. CASE \A p \in R : p[1] = v => p[2] \in s.visited
      BY <3>1
    <3>2. CASE \E i \in DOMAIN s.calls : s.calls[i].id = v
      <4>1. PICK i \in DOMAIN s.calls : s.calls[i].id = v
        BY <3>2
      <4>2. CASE i = k
        BY <1>1, <4>1, <4>2
      <4>3. CASE i # k
        <5>1. i \in 1..k - 1
          BY <1>2, <4>3
        <5> QED BY <1>5, <4>1, <5>1
      <4> QED BY <4>2, <4>3
    <3> QED BY <1>2, <3>1, <3>2 DEF Visits
  <2> QED BY <1>1, <1>2, <2>1 DEF Visits
<1>9. ASSUME NEW i \in DOMAIN u.calls
      PROVE  /\ u.calls[i].id \in u.visited /\ L(u.calls[i].id) = i
             /\ \E v \in u.visited : L(v) = i + u.calls[i].below
  <2>1. i \in 1..k - 1 /\ i \in DOMAIN s.calls
    BY <1>4, <1>5
  <2>2. /\ s.calls[i].id \in s.visited /\ L(s.calls[i].id) = i
        /\ \E v \in s.visited : L(v) = i + s.calls[i].below
    BY <2>1 DEF CallsInv
  <2>3. \E v \in s.visited : L(v) = i + u.calls[i].below
    <3>1. CASE u.calls[i].below = s.calls[i].below
      BY <2>2, <3>1
    <3>2. CASE u.calls[i].below = value /\ i = k - 1
      BY <1>7, <3>2
    <3> QED BY <1>5, <2>1, <3>1, <3>2
  <2> QED BY <1>1, <1>5, <2>1, <2>2, <2>3
<1>10. \A v \in s.visited : \E i \in DOMAIN s.calls : L(v) <= i + s.calls[i].below
  BY <1>2 DEF CallsInv
<1>11. \A v \in s.visited : L(v) \in Nat
  BY <1>2, LevelsAreNumbers
<1>12. CASE k = 1
  <2>1. u.calls = <<>>
    BY <1>5, <1>12
  <2>2. \A v \in s.visited : L(v) <= value
    BY <1>2, <1>3, <1>10, <1>12 DEF value
  <2>3. L(w) = value
    BY <1>4, <1>7, <1>12
  <2> HIDE DEF k, L
  <2>4. u.depth \in Nat /\ (\A v \in u.visited : L(v) <= u.depth) /\ \E v \in u.visited : L(v) = u.depth
    BY <1>1, <1>4, <2>2, <2>3
  <2> QED BY <1>5, <1>8, <1>9, <2>1, <2>4 DEF CallsInv, L
<1>13. CASE k # 1
  <2>1. k - 1 \in 1..k - 1 /\ k - 1 \in DOMAIN u.calls /\ u.calls # <<>>
    <3>1. k \in Nat /\ k # 0 /\ k # 1
      BY <1>1, <1>2, <1>13
    <3>2. k - 1 \in 1..k - 1
      <4> HIDE DEF k
      <4> QED BY <3>1
    <3> QED BY <1>5, <3>2
  <2>2. ASSUME NEW v \in s.visited
        PROVE  \E i \in DOMAIN u.calls : L(v) <= i + u.calls[i].below
    <3>1. PICK i \in DOMAIN s.calls : L(v) <= i + s.calls[i].below
      BY <1>10
    <3>2. CASE i = k
      <4>1. L(v) <= (k - 1) + value
        BY <1>2, <1>3, <3>1, <3>2 DEF value
      <4>2. value <= u.calls[k - 1].below /\ u.calls[k - 1].below \in Nat
        BY <1>3, <1>4, <1>5, <2>1
      <4>3. L(v) <= (k - 1) + u.calls[k - 1].below
        <5> DEFINE l == L(v)
        <5>1. l \in Nat /\ l <= (k - 1) + value
          BY <1>11, <4>1
        <5> HIDE DEF l
        <5>2. l <= (k - 1) + u.calls[k - 1].below
          BY SMTT(30), <1>4, <4>2, <5>1
        <5> QED BY <5>2 DEF l
      <4> QED BY <2>1, <4>3
    <3>3. CASE i # k
      <4>1. i \in 1..k - 1 /\ i \in DOMAIN u.calls
        BY <1>2, <1>5, <3>3
      <4>2. s.calls[i].below <= u.calls[i].below /\ u.calls[i].below \in Nat /\ s.calls[i].below \in Nat
        BY <1>3, <1>4, <1>5, <4>1
      <4>3. L(v) <= i + u.calls[i].below
        <5> DEFINE l == L(v)
        <5>1. l \in Nat /\ l <= i + s.calls[i].below
          BY <1>11, <3>1
        <5> HIDE DEF l
        <5>2. l <= i + u.calls[i].below
          BY <4>1, <4>2, <5>1
        <5> QED BY <5>2 DEF l
      <4> QED BY <4>1, <4>3
    <3> QED BY <3>2, <3>3
  <2>3. 2 * Cardinality(u.visited) = Len(u.calls) + (n + 1) + 1
    BY <1>1, <1>2, <1>5
  <2>4. u.depth \in Nat
    BY <1>1, <1>4
  <2> HIDE DEF k
  <2> QED BY <1>1, <1>5, <1>8, <1>9, <2>1, <2>2, <2>3, <2>4 DEF CallsInv
<1> QED BY <1>12, <1>13

LEMMA CallTurn ==
  ASSUME NEW E, NEW q \in Seq(E), OneEdgeTo(q), NEW r, Rooted(RelationOf(q), r),
         NEW s, NEW n \in Nat, CallsInv(RelationOf(q), r, s, n)
  PROVE  CallsInv(RelationOf(q), r, CallOrReturn(q, s), n + 1)
<1> DEFINE R == RelationOf(q)
           u == CallOrReturn(q, s)
<1>1. \/ Len(s.calls) = 0 /\ u = s
      \/ CallsOn(R, s, u) \/ Returns(R, s, u)
  BY CallOrReturnOK
<1> HIDE DEF R, u
<1>2. CASE CallsOn(R, s, u)
  BY <1>2, CallInvKept DEF R, u
<1>3. CASE Returns(R, s, u)
  BY <1>3, ReturnInvKept DEF R, u
<1>4. CASE Len(s.calls) = 0 /\ u = s
  <2>1. s.calls \in Seq(Calls(R, r))
    BY DEF CallsInv, R
  <2>2. s.calls = <<>>
    BY <1>4, <2>1
  <2>3. CallsInv(R, r, s, n + 1)
    BY <2>2 DEF CallsInv, R
  <2> QED BY <1>4, <2>3 DEF R, u
<1> QED BY <1>1, <1>2, <1>3, <1>4

\* From the call for the root alone.
LEMMA FirstCall ==
  ASSUME NEW R, NEW r, Rooted(R, r)
  PROVE  CallsInv(R, r, [calls |-> <<[id |-> r, below |-> 0]>>, visited |-> {r}, depth |-> 0], 0)
<1> DEFINE c == <<[id |-> r, below |-> 0]>>
           s == [calls |-> c, visited |-> {r}, depth |-> 0]
<1>1. Path(R, r, r) = {} /\ LevelOf(R, r, r) = 1
  BY PathOfRoot
<1>2. [id |-> r, below |-> 0] \in Calls(R, r)
  BY DEF Calls
<1>3. /\ c \in Seq(Calls(R, r)) /\ DOMAIN c = {1} /\ Len(c) = 1 /\ c # <<>>
      /\ c[1].id = r /\ c[1].below = 0
  BY <1>2
<1>4. IsFiniteSet({r}) /\ Cardinality({r}) = 1
  BY FS_Singleton
<1>5. s.calls = c /\ s.visited = {r} /\ s.depth = 0
  OBVIOUS
<1> HIDE DEF c, s
<1>6. Visits(R, r, s)
  BY <1>1, <1>3, <1>4, <1>5 DEF Visits
<1>7. /\ s.calls \in Seq(Calls(R, r)) /\ s.depth \in Nat /\ s.calls # <<>>
      /\ 2 * Cardinality(s.visited) = Len(s.calls) + 0 + 1
      /\ DOMAIN s.calls = {1} /\ s.calls[1].id = r /\ s.calls[1].below = 0
      /\ s.visited = {r} /\ LevelOf(R, r, r) = 1
  <2>1. Cardinality(s.visited) = 1 /\ Len(s.calls) = 1
    BY <1>3, <1>4, <1>5
  <2>2. 2 * Cardinality(s.visited) = Len(s.calls) + 0 + 1
    BY <2>1
  <2> QED BY <1>1, <1>3, <1>5, <2>2
<1>8. \A k \in DOMAIN s.calls :
        /\ s.calls[k].id \in s.visited /\ LevelOf(R, r, s.calls[k].id) = k
        /\ \E v \in s.visited : LevelOf(R, r, v) = k + s.calls[k].below
  BY <1>7
<1>9. \A v \in s.visited : \E k \in DOMAIN s.calls : LevelOf(R, r, v) <= k + s.calls[k].below
  BY <1>7
<1>10. CallsInv(R, r, s, 0)
  BY SMTT(30), <1>6, <1>7, <1>8, <1>9 DEF CallsInv
<1> QED BY <1>10 DEF s, c

\* Calls, visited messages and a depth.
LEMMA CallOrReturnTyped ==
  ASSUME NEW q, NEW s
  PROVE  \/ CallOrReturn(q, s) = s
         \/ CallOrReturn(q, s) = [calls |-> CallOrReturn(q, s).calls,
                                  visited |-> CallOrReturn(q, s).visited,
                                  depth |-> CallOrReturn(q, s).depth]
BY DEF CallOrReturn

\* Every call returns, with the greatest level of what was visited, which is all below the
\* root.
LEMMA DepthFromOK ==
  ASSUME NEW E, NEW q \in Seq(E), OneEdgeTo(q), NEW r, Rooted(RelationOf(q), r)
  PROVE  /\ DepthFrom(q, r) \in Nat
         /\ \A v \in Below(RelationOf(q), r) \cup {r} :
              LevelOf(RelationOf(q), r, v) \in Nat /\ LevelOf(RelationOf(q), r, v) <= DepthFrom(q, r)
         /\ \E v \in Below(RelationOf(q), r) \cup {r} :
              LevelOf(RelationOf(q), r, v) = DepthFrom(q, r)
         /\ DepthFrom(q, r) <= Len(q) + 2
<1> DEFINE N == 2 * Len(q) + 1
           R == RelationOf(q)
           X == Below(R, r) \cup {r}
           U == [calls : Seq(Calls(R, r)), visited : SUBSET X, depth : Nat]
           S == {s \in U : \E n \in Nat : CallsInv(R, r, s, n)}
           step == [p \in (1..N) \X S |-> CallOrReturn(q, p[2])]
           base == [calls |-> <<[id |-> r, below |-> 0]>>, visited |-> {r}, depth |-> 0]
           turn == CHOOSE f : f = [n \in 0..N |-> IF n = 0 THEN base ELSE CallOrReturn(q, f[n - 1])]
<1>1. Len(q) \in Nat /\ N \in Nat
  OBVIOUS
<1>2. CallsInv(R, r, base, 0)
  BY FirstCall
<1>3. base \in S
  <2>1. [id |-> r, below |-> 0] \in Calls(R, r)
    BY DEF Calls
  <2>2. base \in U
    BY <2>1
  <2> HIDE DEF base, U
  <2> QED BY <1>2, <2>2
<1>4. ASSUME NEW s \in S PROVE CallOrReturn(q, s) \in S
  <2> DEFINE u == CallOrReturn(q, s)
  <2>1. PICK n \in Nat : CallsInv(R, r, s, n)
    OBVIOUS
  <2>2. CallsInv(R, r, u, n + 1) /\ n + 1 \in Nat
    BY <2>1, CallTurn
  <2>3. u = s \/ u = [calls |-> u.calls, visited |-> u.visited, depth |-> u.depth]
    BY CallOrReturnTyped
  <2> HIDE DEF u
  <2>4. u.calls \in Seq(Calls(R, r)) /\ u.visited \in SUBSET X /\ u.depth \in Nat
    BY <2>2 DEF CallsInv, Visits
  <2>5. u \in U
    <3> HIDE DEF X, R
    <3> QED BY <2>3, <2>4
  <2> QED BY <2>2, <2>5 DEF u
<1>5. step \in [(1..N) \X S -> S]
  BY <1>4
<1> HIDE DEF S
<1>6. PICK f \in [0..N -> S] : Recursively(f, N, base, step)
  <2> HIDE DEF step, N, base
  <2> QED BY <1>1, <1>3, <1>5, RecursionIs
<1>7. f = [n \in 0..N |-> IF n = 0 THEN base ELSE CallOrReturn(q, f[n - 1])]
  <2>1. ASSUME NEW n \in 0..N, n # 0 PROVE step[<<n, f[n - 1]>>] = CallOrReturn(q, f[n - 1])
    <3>1. n \in 1..N /\ n - 1 \in 0..N /\ f[n - 1] \in S
      <4> HIDE DEF N
      <4> QED BY <1>1, <2>1
    <3> QED BY <3>1
  <2> HIDE DEF step, N, base
  <2> QED BY <1>6, <2>1 DEF Recursively
<1>8. turn = [n \in 0..N |-> IF n = 0 THEN base ELSE CallOrReturn(q, turn[n - 1])]
  <2> HIDE DEF base, N
  <2> QED BY <1>7
<1> DEFINE s == turn[N]
<1>9. DepthFrom(q, r) = s.depth
  BY DEF DepthFrom
<1> HIDE DEF N, turn, base
<1>10. \A n \in 0..N : CallsInv(R, r, turn[n], n)
  <2> DEFINE bad == {n \in 0..N : ~CallsInv(R, r, turn[n], n)}
  <2>1. SUFFICES ASSUME bad # {} PROVE FALSE
    OBVIOUS
  <2>2. PICK n \in bad : \A k \in bad : n <= k
    <3>1. bad \subseteq Nat
      OBVIOUS
    <3> HIDE DEF bad
    <3> QED BY <2>1, <3>1, LeastNat
  <2>3. n # 0
    BY <1>2, <1>8, <2>2
  <2>4. n - 1 \in Nat /\ n - 1 \in 0..N /\ (n - 1) + 1 = n /\ ~(n <= n - 1)
    BY <1>1, <2>3
  <2>5. CallsInv(R, r, turn[n - 1], n - 1) /\ turn[n] = CallOrReturn(q, turn[n - 1])
    BY <1>8, <2>2, <2>3, <2>4
  <2>6. CallsInv(R, r, turn[n], n)
    <3> DEFINE t == turn[n - 1]
               k == n - 1
    <3> HIDE DEF t, k
    <3>1. CallsInv(R, r, CallOrReturn(q, t), k + 1)
      BY <2>4, <2>5, CallTurn DEF t, k
    <3> QED BY <2>4, <2>5, <3>1 DEF t, k
  <2> QED BY <2>2, <2>6
<1>11. CallsInv(R, r, s, N)
  BY <1>1, <1>10
<1> HIDE DEF s
<1>12. IsFiniteSet(s.visited) /\ Cardinality(s.visited) \in Nat /\ Cardinality(s.visited) <= Len(q) + 1
  <2> DEFINE T == {q[i].to : i \in DOMAIN q}
  <2>1. IsFiniteSet(T) /\ Cardinality(T) <= Len(q) /\ Cardinality(T) \in Nat
    BY EndsAreFinite DEF IsSeq
  <2>2. Below(R, r) \subseteq T
    <3>1. \A p \in R : p[2] \in T
      BY RelationPairs
    <3> HIDE DEF T
    <3> QED BY <3>1 DEF Below
  <2> HIDE DEF T
  <2>3. s.visited \subseteq T \cup {r} /\ IsFiniteSet(s.visited)
    BY <1>11, <2>2 DEF CallsInv, Visits
  <2>4. IsFiniteSet(T \cup {r}) /\ Cardinality(T \cup {r}) <= Len(q) + 1 /\ Cardinality(T \cup {r}) \in Nat
    <3>1. /\ IsFiniteSet(T \cup {r}) /\ Cardinality(T \cup {r}) \in Nat
          /\ Cardinality(T \cup {r}) \in {Cardinality(T), Cardinality(T) + 1}
      BY <2>1, FS_AddElement, FS_CardinalityType
    <3> QED BY <1>1, <2>1, <3>1
  <2>5. Cardinality(s.visited) <= Cardinality(T \cup {r}) /\ Cardinality(s.visited) \in Nat
    BY <2>3, <2>4, FS_Subset, FS_CardinalityType
  <2> QED BY <1>1, <2>3, <2>4, <2>5
<1>13. s.calls = <<>>
  <2> SUFFICES ASSUME s.calls # <<>> PROVE FALSE
    OBVIOUS
  <2>1. 2 * Cardinality(s.visited) = Len(s.calls) + N + 1
    BY <1>11 DEF CallsInv
  <2>2. s.calls \in Seq(Calls(R, r))
    BY <1>11 DEF CallsInv
  <2>3. Len(s.calls) \in Nat \ {0}
    BY <2>2
  <2> DEFINE c == Cardinality(s.visited)
             l == Len(s.calls)
             m == Len(q)
  <2>4. 2 * c = l + (2 * m + 1) + 1 /\ l \in Nat \ {0} /\ c \in Nat /\ c <= m + 1 /\ m \in Nat
    BY <1>1, <1>12, <2>1, <2>3 DEF N
  <2> HIDE DEF c, l, m
  <2> QED BY <2>4
<1>14. X = s.visited
  <2>1. DOMAIN s.calls = {}
    BY <1>13
  <2>2. s.visited \subseteq X /\ r \in s.visited
    BY <1>11 DEF CallsInv, Visits
  <2>3. \A p \in R : p[1] \in s.visited => p[2] \in s.visited
    BY <1>11, <2>1 DEF CallsInv, Visits
  <2>4. Below(R, r) \subseteq s.visited
    BY <2>2, <2>3, BelowLeast
  <2> QED BY <2>2, <2>4
<1>15. Visits(R, r, s)
  BY <1>11 DEF CallsInv
<1>16. /\ s.depth \in Nat /\ \A v \in s.visited : LevelOf(R, r, v) <= s.depth
       /\ \E v \in s.visited : LevelOf(R, r, v) = s.depth
  BY <1>11, <1>13 DEF CallsInv
<1>17. \A v \in s.visited : LevelOf(R, r, v) \in Nat /\ LevelOf(R, r, v) <= Len(q) + 2
  <2> SUFFICES ASSUME NEW v \in s.visited
               PROVE  LevelOf(R, r, v) \in Nat /\ LevelOf(R, r, v) <= Len(q) + 2
    OBVIOUS
  <2>1. Path(R, r, v) \subseteq s.visited
    BY <1>15 DEF Visits
  <2>2. Cardinality(Path(R, r, v)) <= Cardinality(s.visited) /\ Cardinality(Path(R, r, v)) \in Nat
    BY <1>12, <2>1, FS_Subset, FS_CardinalityType
  <2> QED BY <1>1, <1>12, <2>2 DEF LevelOf
<1>18. /\ s.depth \in Nat
       /\ \A v \in X : LevelOf(R, r, v) \in Nat /\ LevelOf(R, r, v) <= s.depth
       /\ \E v \in X : LevelOf(R, r, v) = s.depth
       /\ s.depth <= Len(q) + 2
  BY <1>14, <1>16, <1>17
<1> QED BY <1>9, <1>18 DEF R

\* The greatest of a set of numbers is that of any part with one as great as each of them.
LEMMA LongestSame ==
  ASSUME NEW D \in SUBSET Nat, NEW C \in SUBSET D, NEW b \in Nat, \A d \in D : d <= b,
         \A d \in D : \E c \in C : d <= c
  PROVE  LongestOf(C) = LongestOf(D)
<1> DEFINE above == {n \in Nat : \A d \in D : d <= n}
<1>1. PICK m \in above : \A n \in above : m <= n
  <2>1. above \subseteq Nat /\ above # {}
    OBVIOUS
  <2> HIDE DEF above
  <2> QED BY <2>1, LeastNat
<1>2. m \in D \cup {0}
  <2> SUFFICES ASSUME m # 0, m \notin D PROVE FALSE
    OBVIOUS
  <2>1. m - 1 \in Nat /\ ~(m <= m - 1)
    OBVIOUS
  <2>2. \A d \in D : d <= m - 1
    BY <2>1
  <2> QED BY <1>1, <2>1, <2>2
<1>3. m \in C \cup {0}
  BY <1>1, <1>2
<1>4. \A n \in D \cup {0} : (\A d \in D : n >= d) => n = m
  <2> SUFFICES ASSUME NEW n \in D \cup {0}, \A d \in D : n >= d PROVE n = m
    OBVIOUS
  <2>1. n \in Nat /\ n <= m
    BY <1>1
  <2>2. n \in above
    BY <2>1
  <2> QED BY <1>1, <2>1, <2>2
<1>5. \A n \in C \cup {0} : (\A c \in C : n >= c) => n = m
  <2> SUFFICES ASSUME NEW n \in C \cup {0}, \A c \in C : n >= c PROVE n = m
    OBVIOUS
  <2>1. n \in D \cup {0} /\ n \in Nat
    OBVIOUS
  <2>2. \A d \in D : n >= d
    OBVIOUS
  <2> QED BY <1>4, <2>1, <2>2
<1>6. /\ m \in D \cup {0} /\ \A d \in D : m >= d
      /\ \A c \in C : m >= c
  BY <1>1, <1>2
<1>7. LongestOf(D) = m
  <2> HIDE DEF above
  <2> QED BY <1>4, <1>6 DEF LongestOf
<1>8. LongestOf(C) = m
  <2> HIDE DEF above
  <2> QED BY <1>3, <1>5, <1>6 DEF LongestOf
<1> QED BY <1>7, <1>8

LEMMA DepthServed == GraphInv => DepthExact
<1> SUFFICES ASSUME GraphInv PROVE DepthExact
  OBVIOUS
<1> DEFINE q == ParentEdges(Served)
           R == WorkParentOf
           roots == Roots(Served)
           chain(r, id) == 1 + Cardinality({m \in Below(R, r) : m = id \/ id \in Below(R, m)})
           C == {DepthFrom(q, r) : r \in roots}
           D == {1 : r \in roots} \cup UNION {{chain(r, id) : id \in Below(R, r)} : r \in roots}
<1>1. q \in Seq(EdgeSet) /\ RelationOf(q) = R /\ OneEdgeTo(q)
  BY WorkRelation DEF OneEdgeTo
<1>2. \A r \in roots : Rooted(R, r)
  <2>1. \A p, w \in R : p[2] = w[2] => p[1] = w[1]
    BY <1>1, RelationPairs DEF OneEdgeTo
  <2>2. ASSUME NEW r \in roots, NEW p \in R PROVE p[2] # r
    <3>1. PICK i \in DOMAIN q : p[2] = q[i].to
      BY <1>1, RelationPairs
    <3>2. q[i] \in ToSet(q)
      BY DEF ToSet
    <3> QED BY <3>1, <3>2 DEF Roots
  <2> HIDE DEF R, roots
  <2> QED BY <2>1, <2>2 DEF Rooted
<1>3. Depth(Served) = LongestOf(C)
  BY DEF Depth
<1>4. DepthExact <=> LongestOf(C) = LongestOf(D)
  BY <1>3 DEF DepthExact
<1>5. \A r \in roots : chain(r, r) = LevelOf(R, r, r) /\ \A id \in Below(R, r) : chain(r, id) = LevelOf(R, r, id)
  BY DEF LevelOf, Path
<1>6. \A r \in roots : LevelOf(R, r, r) = 1
  BY <1>2, PathOfRoot
<1> HIDE DEF q, R, roots, chain
<1>7. \A d : d \in D <=> \E r \in roots : \E v \in Below(R, r) \cup {r} : d = LevelOf(R, r, v)
  BY <1>5, <1>6
<1>8. \A r \in roots :
        /\ DepthFrom(q, r) \in Nat
        /\ \A v \in Below(R, r) \cup {r} : LevelOf(R, r, v) \in Nat /\ LevelOf(R, r, v) <= DepthFrom(q, r)
        /\ \E v \in Below(R, r) \cup {r} : LevelOf(R, r, v) = DepthFrom(q, r)
        /\ DepthFrom(q, r) <= Len(q) + 2
  BY <1>1, <1>2, DepthFromOK
<1> HIDE DEF D
<1>9. D \in SUBSET Nat /\ C \in SUBSET D
  BY <1>7, <1>8
<1>10. Len(q) + 2 \in Nat /\ \A d \in D : d <= Len(q) + 2
  BY <1>1, <1>7, <1>8
<1>11. \A d \in D : \E c \in C : d <= c
  BY <1>7, <1>8
<1> HIDE DEF C
<1>12. LongestOf(C) = LongestOf(D)
  BY <1>9, <1>10, <1>11, LongestSame
<1> QED BY <1>4, <1>12 DEF C, D, q, R, roots, chain

\* The served graph and every query of it are exact: it says what was recorded, or after a
\* restart what the entries within the limit of the query say, and the walks, the topological
\* order and the depth are those of that graph (GraphExact).
THEOREM GraphIsExact == ViewsSpec => []GraphExact
<1>1. ViewsSpec => []GraphInv
  BY InitGraph, NextGraph, PTL DEF ViewsSpec
<1>2. GraphInv => GraphExact
  BY WhatIsServed, WalksServed, OrderServed, DepthServed DEF GraphExact
<1> QED BY <1>1, <1>2, PTL

===============================================================================
