---------------------------- MODULE SequenceLemmas ----------------------------
(*****************************************************************************)
(* What the proofs about this system need of numbers and sequences and the   *)
(* libraries do not give: that a set of numbers has a least element, stated  *)
(* without an operator as a parameter; that what is defined by recursion over *)
(* an interval exists; how a set of numbers is enumerated and what a sequence *)
(* has at some of its places; and what a sequence's elements are.            *)
(*****************************************************************************)
EXTENDS Ordered, Sequences, SequencesExt, FiniteSetTheorems, SequenceTheorems, TLAPS

-------------------------------------------------------------------------------
(* Numbers.                                                                  *)
\* A nonempty set of naturals has a least element: the intervals below its elements do.
LEMMA LeastNat ==
  ASSUME NEW T, T \subseteq Nat, T # {}
  PROVE  \E x \in T : \A y \in T : x <= y
<1> DEFINE Below(x) == 1..x
           intervals == {Below(x) : x \in T}
<1>1. intervals \subseteq FiniteSubsetsOf(Nat)
  <2>1. ASSUME NEW x \in T PROVE Below(x) \in FiniteSubsetsOf(Nat)
    <3>1. IsFiniteSet(1..x)
      BY FS_Interval
    <3>2. 1..x \subseteq Nat
      OBVIOUS
    <3> QED BY <3>1, <3>2 DEF FiniteSubsetsOf
  <2> QED BY <2>1
<1>2. PICK i \in intervals : \A j \in intervals : <<j, i>> \notin StrictSubsetOrdering(Nat)
  <2>1. IsWellFoundedOn(StrictSubsetOrdering(Nat), FiniteSubsetsOf(Nat))
    BY FS_StrictSubsetOrderingWellFounded
  <2>2. intervals # {}
    OBVIOUS
  <2> HIDE DEF intervals
  <2> QED BY <1>1, <2>1, <2>2, WFMin
<1>3. PICK x \in T : i = Below(x)
  OBVIOUS
<1>4. ASSUME NEW y \in T, y < x PROVE FALSE
  <2>1. Below(y) \subseteq Below(x) /\ Below(y) # Below(x)
    <3>1. x \in Nat /\ y \in Nat
      OBVIOUS
    <3> QED BY <1>4, <3>1
  <2>2. Below(y) \in SUBSET Nat /\ Below(x) \in SUBSET Nat
    OBVIOUS
  <2>3. <<Below(y), Below(x)>> \in StrictSubsetOrdering(Nat)
    BY <2>1, <2>2 DEF StrictSubsetOrdering
  <2> QED BY <1>2, <1>3, <2>3
<1> QED BY <1>4

\* How many numbers there are up to n.
LEMMA CountedUpTo ==
  ASSUME NEW n \in Nat
  PROVE  IsFiniteSet(1..n) /\ Cardinality(1..n) = n
BY FS_Interval

\* A finite set of numbers can be enumerated in their order.
LEMMA Enumeration ==
  ASSUME NEW S, S \subseteq Nat, IsFiniteSet(S)
  PROVE  \E q \in [1..Cardinality(S) -> S] :
           \A i, j \in 1..Cardinality(S) : i < j => q[i] < q[j]
<1> DEFINE Orders(q, T, n) == /\ q \in [1..n -> T]
                              /\ \A i, j \in 1..n : i < j => q[i] < q[j]
           Bad(n, T) == /\ T \subseteq Nat /\ IsFiniteSet(T) /\ Cardinality(T) = n
                        /\ \A q : ~Orders(q, T, n)
           bad == {n \in Nat : \E T : Bad(n, T)}
<1>1. SUFFICES bad = {}
  <2>1. Cardinality(S) \in Nat
    BY FS_CardinalityType
  <2>2. \E q : Orders(q, S, Cardinality(S))
    BY <1>1, <2>1
  <2> QED BY <2>2
<1>2. SUFFICES ASSUME bad # {} PROVE FALSE
  OBVIOUS
<1>3. PICK n \in bad : \A m \in bad : n <= m
  <2>1. bad \subseteq Nat
    OBVIOUS
  <2> HIDE DEF bad
  <2> QED BY <1>2, <2>1, LeastNat
<1>4. PICK T : Bad(n, T)
  OBVIOUS
<1>5. n \in Nat /\ n # 0
  <2>1. CASE n = 0
    <3>1. Orders([i \in 1..0 |-> 0], T, 0)
      OBVIOUS
    <3> QED BY <1>4, <2>1, <3>1
  <2> QED BY <2>1
<1>6. PICK x \in T : \A y \in T : x <= y
  <2>1. T # {}
    BY <1>4, <1>5, FS_EmptySet
  <2> QED BY <1>4, <2>1, LeastNat
<1>7. T \ {x} \subseteq Nat /\ IsFiniteSet(T \ {x}) /\ Cardinality(T \ {x}) = n - 1
  BY <1>4, <1>5, <1>6, FS_RemoveElement
<1>8. PICK p : Orders(p, T \ {x}, n - 1)
  <2>1. n - 1 \in Nat /\ ~(n <= n - 1)
    BY <1>5
  <2>2. n - 1 \notin bad
    BY <1>3, <2>1
  <2> QED BY <1>7, <2>1, <2>2
<1> DEFINE q == [i \in 1..n |-> IF i = 1 THEN x ELSE p[i - 1]]
<1>9. \A i \in 1..n : i = 1 \/ (i - 1 \in 1..(n - 1) /\ q[i] = p[i - 1] /\ p[i - 1] \in T \ {x})
  BY <1>5, <1>8
<1>10. q[1] = x /\ 1 \in 1..n
  BY <1>5
<1>11. q \in [1..n -> T]
  BY <1>6, <1>9, <1>10
<1>12. ASSUME NEW i \in 1..n, NEW j \in 1..n, i < j PROVE q[i] < q[j]
  <2>1. j # 1 /\ j - 1 \in 1..(n - 1) /\ q[j] = p[j - 1] /\ p[j - 1] \in T \ {x}
    BY <1>5, <1>9, <1>12
  <2>2. CASE i = 1
    <3>1. q[i] = x /\ x \in Nat /\ p[j - 1] \in Nat /\ x <= p[j - 1] /\ x # p[j - 1]
      BY <1>4, <1>6, <1>10, <2>1, <2>2
    <3> QED BY <2>1, <3>1
  <2>3. CASE i # 1
    <3>1. i - 1 \in 1..(n - 1) /\ q[i] = p[i - 1] /\ i - 1 < j - 1
      BY <1>5, <1>9, <1>12, <2>3
    <3> QED BY <1>8, <2>1, <3>1
  <2> QED BY <2>2, <2>3
<1> HIDE DEF q
<1>13. Orders(q, T, n)
  BY <1>11, <1>12
<1> QED BY <1>4, <1>13

\* A set of numbers, sorted.
LEMMA SortedOK ==
  ASSUME NEW S, S \subseteq Nat, IsFiniteSet(S)
  PROVE  /\ Cardinality(S) \in Nat /\ Sorted(S) \in [1..Cardinality(S) -> S]
         /\ \A i, j \in 1..Cardinality(S) : i < j => Sorted(S)[i] < Sorted(S)[j]
         /\ \A e \in S : \E i \in 1..Cardinality(S) : Sorted(S)[i] = e
<1> DEFINE n == Cardinality(S)
           q == Sorted(S)
<1>1. n \in Nat
  BY FS_CardinalityType
<1>2. q \in [1..n -> S] /\ \A i, j \in 1..n : i < j => q[i] < q[j]
  <2>1. \E p \in [1..n -> S] : \A i, j \in DOMAIN p : i < j => p[i] < p[j]
    BY Enumeration
  <2>2. q \in [1..n -> S] /\ \A i, j \in DOMAIN q : i < j => q[i] < q[j]
    BY <2>1 DEF Sorted
  <2> QED BY <2>2
<1> HIDE DEF q
<1>3. q \in Injection(1..n, S)
  <2>1. ASSUME NEW i \in 1..n, NEW j \in 1..n, q[i] = q[j] PROVE i = j
    <3>1. q[i] \in S /\ q[j] \in S /\ i \in Nat /\ j \in Nat
      BY <1>1, <1>2
    <3>2. q[i] \in Nat /\ q[j] \in Nat
      BY <3>1
    <3>3. ~(i < j) /\ ~(j < i)
      BY <1>2, <2>1, <3>2
    <3> QED BY <3>1, <3>3
  <2>2. q \in [1..n -> S]
    BY <1>2
  <2> QED BY <2>1, <2>2 DEF Injection, IsInjective
<1>4. IsFiniteSet(1..n) /\ Cardinality(1..n) = n
  BY <1>1, FS_Interval
<1>5. q \in Surjection(1..n, S)
  BY <1>3, <1>4, FS_Injection
<1> QED BY <1>1, <1>2, <1>5 DEF Surjection, q

-------------------------------------------------------------------------------
(* Recursion.                                                                *)
\* f is what is defined by recursion over 0..N: from base, by a step with each number.
Recursive(f, N, S, base, step) ==
  f \in [0..N -> S] /\ f[0] = base /\ \A n \in 1..N : f[n] = step[<<n, f[n - 1]>>]

\* What is defined by recursion over 0..N exists.
LEMMA Recursion ==
  ASSUME NEW N \in Nat, NEW S, NEW base \in S, NEW step \in [(1..N) \X S -> S]
  PROVE  \E f : Recursive(f, N, S, base, step)
<1> DEFINE Good(m, f) == /\ f \in [0..m -> S] /\ f[0] = base
                         /\ \A n \in 1..m : f[n] = step[<<n, f[n - 1]>>]
           bad == {m \in 0..N : ~ \E f : Good(m, f)}
<1>1. bad = {}
  <2>1. SUFFICES ASSUME bad # {} PROVE FALSE
    OBVIOUS
  <2>2. PICK m \in bad : \A k \in bad : m <= k
    <3>1. bad \subseteq Nat
      OBVIOUS
    <3> HIDE DEF bad
    <3> QED BY <2>1, <3>1, LeastNat
  <2>3. CASE m = 0
    <3>1. Good(0, [n \in 0..0 |-> base])
      OBVIOUS
    <3> QED BY <2>3, <3>1
  <2>4. CASE m > 0
    <3>1. m \in Nat /\ m <= N /\ m - 1 \in 0..N /\ ~(m <= m - 1)
      BY <2>4
    <3>2. PICK f : Good(m - 1, f)
      BY <2>2, <3>1
    <3> DEFINE g == [n \in 0..m |-> IF n = m THEN step[<<m, f[m - 1]>>] ELSE f[n]]
    <3>3. f[m - 1] \in S /\ step[<<m, f[m - 1]>>] \in S
      BY <2>4, <3>1, <3>2
    <3>4. g \in [0..m -> S] /\ g[0] = base
      BY <2>4, <3>1, <3>2, <3>3
    <3>5. ASSUME NEW n \in 1..m PROVE g[n] = step[<<n, g[n - 1]>>]
      <4>1. n - 1 \in 0..m /\ n - 1 # m /\ g[n - 1] = f[n - 1]
        BY <3>1
      <4>2. CASE n = m
        BY <4>1, <4>2
      <4>3. CASE n # m
        BY <3>1, <3>2, <4>1, <4>3
      <4> QED BY <4>2, <4>3
    <3>6. Good(m, g)
      BY <3>4, <3>5
    <3> QED BY <3>6
  <2> QED BY <2>3, <2>4
<1>2. PICK f : Good(N, f)
  <2>1. N \in 0..N
    OBVIOUS
  <2> HIDE DEF Good
  <2> QED BY <1>1, <2>1
<1> QED BY <1>2 DEF Recursive

\* What is defined by recursion over 0..N, in the form it is written in.
Recursively(f, N, base, step) ==
  f = [n \in 0..N |-> IF n = 0 THEN base ELSE step[<<n, f[n - 1]>>]]

LEMMA RecursionIs ==
  ASSUME NEW N \in Nat, NEW S, NEW base \in S, NEW step \in [(1..N) \X S -> S]
  PROVE  \E f \in [0..N -> S] : Recursively(f, N, base, step)
<1>1. PICK f : Recursive(f, N, S, base, step)
  BY Recursion
<1>2. f \in [0..N -> S]
  BY <1>1 DEF Recursive
<1>3. ASSUME NEW n \in 0..N PROVE f[n] = IF n = 0 THEN base ELSE step[<<n, f[n - 1]>>]
  BY <1>1 DEF Recursive
<1>4. Recursively(f, N, base, step)
  BY <1>2, <1>3 DEF Recursively
<1> QED BY <1>2, <1>4

-------------------------------------------------------------------------------
(* Sequences as sets.                                                        *)
\* An element appended comes last and joins the others.
LEMMA ToSetAppend ==
  ASSUME NEW S, NEW s \in Seq(S), NEW x \in S
  PROVE  /\ Append(s, x) \in Seq(S) /\ Append(s, x) # <<>> /\ Len(Append(s, x)) = Len(s) + 1
         /\ DOMAIN Append(s, x) = DOMAIN s \cup {Len(s) + 1}
         /\ \A i \in DOMAIN s : Append(s, x)[i] = s[i]
         /\ Append(s, x)[Len(s) + 1] = x
         /\ ToSet(Append(s, x)) = ToSet(s) \cup {x}
<1> DEFINE t == Append(s, x)
<1>1. t \in Seq(S) /\ t # <<>> /\ Len(t) = Len(s) + 1 /\ DOMAIN t = DOMAIN s \cup {Len(s) + 1}
        /\ t[Len(s) + 1] = x /\ (\A i \in DOMAIN s : t[i] = s[i])
  OBVIOUS
<1> HIDE DEF t
<1>2. ToSet(t) = ToSet(s) \cup {x}
  BY <1>1 DEF ToSet
<1> QED BY <1>1, <1>2 DEF t

\* A sequence is its head before its tail.
LEMMA ToSetTail ==
  ASSUME NEW S, NEW s \in Seq(S), s # <<>>
  PROVE  Head(s) \in S /\ Tail(s) \in Seq(S) /\ ToSet(s) = ToSet(Tail(s)) \cup {Head(s)}
<1>1. Head(s) = s[1] /\ Tail(s) \in Seq(S) /\ Len(s) >= 1 /\ s[1] \in S
  OBVIOUS
<1>2. DOMAIN Tail(s) = 1..(Len(s) - 1) /\ \A i \in 1..(Len(s) - 1) : Tail(s)[i] = s[i + 1]
  OBVIOUS
<1>3. \A i \in 1..Len(s) : i = 1 \/ (i - 1 \in 1..(Len(s) - 1) /\ (i - 1) + 1 = i)
  OBVIOUS
<1>4. ToSet(s) \subseteq ToSet(Tail(s)) \cup {Head(s)}
  <2>1. ASSUME NEW i \in 1..Len(s) PROVE s[i] \in ToSet(Tail(s)) \cup {Head(s)}
    <3>1. CASE i = 1
      BY <1>1, <3>1
    <3>2. CASE i # 1
      <4>1. i - 1 \in DOMAIN Tail(s) /\ Tail(s)[i - 1] = s[i]
        BY <1>2, <1>3, <3>2
      <4> QED BY <4>1 DEF ToSet
    <3> QED BY <3>1, <3>2
  <2> QED BY <2>1 DEF ToSet
<1>5. ToSet(Tail(s)) \subseteq ToSet(s)
  <2>1. ASSUME NEW i \in 1..(Len(s) - 1) PROVE Tail(s)[i] \in ToSet(s)
    <3>1. i + 1 \in DOMAIN s /\ Tail(s)[i] = s[i + 1]
      BY <1>1, <1>2
    <3> QED BY <3>1 DEF ToSet
  <2> QED BY <1>2, <2>1 DEF ToSet
<1>6. Head(s) \in ToSet(s)
  <2>1. 1 \in DOMAIN s
    BY <1>1
  <2> QED BY <1>1, <2>1 DEF ToSet
<1> QED BY <1>1, <1>4, <1>5, <1>6

\* A sequence has finitely many elements.
LEMMA ToSetFinite ==
  ASSUME NEW S, NEW s \in Seq(S)
  PROVE  IsFiniteSet(ToSet(s)) /\ ToSet(s) \subseteq S
<1>1. IsFiniteSet(1..Len(s)) /\ DOMAIN s = 1..Len(s)
  BY FS_Interval
<1>2. s \in Surjection(1..Len(s), ToSet(s))
  BY <1>1 DEF Surjection, ToSet
<1>3. IsFiniteSet(ToSet(s))
  BY <1>1, <1>2, FS_Surjection
<1> QED BY <1>1, <1>3 DEF ToSet

LEMMA EmptyToSet == ToSet(<<>>) = {}
  BY DEF ToSet

\* A sequence, of whatever.
IsSeq(q) == \E S : q \in Seq(S)

LEMMA SeqFacts ==
  ASSUME NEW q, IsSeq(q)
  PROVE  Len(q) \in Nat /\ DOMAIN q = 1..Len(q) /\ (q # <<>> => Len(q) \in 1..Len(q))
<1>1. PICK S : q \in Seq(S)
  BY DEF IsSeq
<1> QED BY <1>1

LEMMA AppendFacts ==
  ASSUME NEW q, IsSeq(q), NEW e
  PROVE  /\ IsSeq(Append(q, e)) /\ Append(q, e) # <<>>
         /\ Len(Append(q, e)) = Len(q) + 1
         /\ Append(q, e)[Len(q) + 1] = e
         /\ \A i \in 1..Len(q) : Append(q, e)[i] = q[i]
<1>1. PICK S : q \in Seq(S)
  BY DEF IsSeq
<1>2. q \in Seq(S \cup {e})
  BY <1>1
<1>3. Append(q, e) \in Seq(S \cup {e})
  BY <1>2
<1> QED BY <1>2, <1>3 DEF IsSeq

\* A function on the positions of a sequence is a sequence of the same length.
LEMMA SameLength ==
  ASSUME NEW q, IsSeq(q), NEW f, f = [k \in DOMAIN q |-> f[k]]
  PROVE  IsSeq(f) /\ Len(f) = Len(q) /\ DOMAIN f = DOMAIN q
<1>1. Len(q) \in Nat /\ DOMAIN q = 1..Len(q)
  BY SeqFacts
<1>2. f \in [1..Len(q) -> {f[k] : k \in 1..Len(q)}]
  BY <1>1
<1>3. f \in Seq({f[k] : k \in 1..Len(q)})
  BY <1>1, <1>2
<1>4. Len(f) \in Nat /\ DOMAIN f = 1..Len(f) /\ DOMAIN f = 1..Len(q)
  BY <1>2, <1>3, LenProperties
<1>5. Len(f) <= Len(q) /\ Len(q) <= Len(f)
  <2>1. Len(f) = 0 \/ Len(f) \in 1..Len(q)
    BY <1>4
  <2>2. Len(q) = 0 \/ Len(q) \in 1..Len(f)
    BY <1>1, <1>4
  <2> QED BY <1>1, <1>4, <2>1, <2>2
<1>6. Len(f) = Len(q)
  BY <1>1, <1>4, <1>5
<1> QED BY <1>1, <1>3, <1>4, <1>6 DEF IsSeq

\* The elements at some places of a sequence, each once and in their order.
LEMMA AtPlacesOK ==
  ASSUME NEW S, NEW q \in Seq(S), NEW places, places \subseteq DOMAIN q
  PROVE  /\ AtPlaces(q, places) \in Seq(S)
         /\ \A i \in places : \E k \in DOMAIN AtPlaces(q, places) : AtPlaces(q, places)[k] = q[i]
         /\ \A k \in DOMAIN AtPlaces(q, places) : \E i \in places : AtPlaces(q, places)[k] = q[i]
         /\ \A k, l \in DOMAIN AtPlaces(q, places) : k < l =>
              \E i, j \in places :
                i < j /\ AtPlaces(q, places)[k] = q[i] /\ AtPlaces(q, places)[l] = q[j]
<1> DEFINE n == Cardinality(places)
           p == Sorted(places)
           r == AtPlaces(q, places)
<1>1. places \subseteq Nat /\ IsFiniteSet(places)
  <2>1. IsFiniteSet(1..Len(q)) /\ DOMAIN q = 1..Len(q)
    BY FS_Interval
  <2> QED BY <2>1, FS_Subset
<1>2. /\ n \in Nat /\ p \in [1..n -> places]
      /\ \A i, j \in 1..n : i < j => p[i] < p[j]
      /\ \A e \in places : \E i \in 1..n : p[i] = e
  BY <1>1, SortedOK
<1>3. r = [k \in 1..n |-> q[p[k]]]
  BY DEF AtPlaces
<1> HIDE DEF n, p, r
<1>4. \A k \in 1..n : p[k] \in places /\ q[p[k]] \in S
  BY <1>2
<1>5. r \in Seq(S) /\ DOMAIN r = 1..n
  <2>1. r \in [1..n -> S]
    BY <1>3, <1>4
  <2> QED BY <1>2, <2>1
<1>6. \A k \in 1..n : r[k] = q[p[k]]
  BY <1>3
<1>7. \A i \in places : \E k \in DOMAIN r : r[k] = q[i]
  BY <1>2, <1>5, <1>6
<1>8. \A k \in DOMAIN r : \E i \in places : r[k] = q[i]
  BY <1>4, <1>5, <1>6
<1>9. \A k, l \in DOMAIN r : k < l => \E i, j \in places : i < j /\ r[k] = q[i] /\ r[l] = q[j]
  <2> SUFFICES ASSUME NEW k \in 1..n, NEW l \in 1..n, k < l
               PROVE  \E i, j \in places : i < j /\ r[k] = q[i] /\ r[l] = q[j]
    BY <1>5
  <2>1. p[k] < p[l] /\ p[k] \in places /\ p[l] \in places
    BY <1>2, <1>4
  <2> QED BY <1>6, <2>1
<1> QED BY <1>5, <1>7, <1>8, <1>9 DEF r

===============================================================================
