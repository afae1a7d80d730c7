----------------------------- MODULE ClientProofs -----------------------------
(*****************************************************************************)
(* Proofs about the clients of a server: remote calls over a network that    *)
(* loses and delays (RemoteCalls), and the message feed of the console       *)
(* (Console); for any calls, attempts, traces, messages and bounds.          *)
(*****************************************************************************)
EXTENDS RemoteCalls, Console, SequenceLemmas

-------------------------------------------------------------------------------
(* Remote calls.                                                             *)
\* Requests and answers on the network.
Statuses == {"ok", "404", "5xx"}
Requests == [call : Calls, n : Nat, poll : BOOLEAN]
Answers == [call : Calls, n : Nat, body : Calls \cup {NoMessage} \cup Statuses]

\* The types.
RemoteTypeOK ==
  /\ stage \in [Calls -> {"new", "posting", "polling", "waiting"} \cup Over]
  /\ attempt \in [Calls -> Nat] /\ request \in [Calls -> Nat]
  /\ upstream \in SUBSET Requests /\ IsFiniteSet(upstream)
  /\ answers \in SUBSET Answers /\ IsFiniteSet(answers)
  /\ mailbox \in Seq(Calls) /\ waiters \in Seq(Requests)
  /\ routed \in [Calls -> Nat] /\ responses \in [Calls -> Nat] /\ missed \in [Calls -> Nat]

\* The copies of a task that are still to reach the server.
Posts(u, c) == {r \in u : r.call = c /\ ~r.poll}

\* What an attempt can still have routed is counted with what has been; a POST is answered
\* with a status of its own once a copy of the task was routed.
Counted ==
  /\ \A c \in Calls :
       /\ routed[c] + Cardinality(Posts(upstream, c)) <= Attempts[c]
       /\ stage[c] \in {"new", "posting"} =>
            attempt[c] <= Attempts[c] /\ routed[c] + Cardinality(Posts(upstream, c)) <= attempt[c]
       /\ stage[c] = "new" => attempt[c] = 0
       /\ stage[c] \in {"polling", "waiting", "answered", "timed out"} => routed[c] >= 1
  /\ \A a \in answers : a.body = "ok" => routed[a.call] >= 1

\* A request is on its way, waits at the mailbox or has its answer on the way, and only once.
Apart(u, w, as) ==
  /\ \A r, s \in u : r.call = s.call /\ r.n = s.n => r = s
  /\ \A i, j \in DOMAIN w : w[i].call = w[j].call /\ w[i].n = w[j].n => i = j
  /\ \A r \in u : /\ \A i \in DOMAIN w : r.call = w[i].call => r.n # w[i].n
                  /\ \A a \in as : r.call = a.call => r.n # a.n
  /\ \A i \in DOMAIN w, a \in as : w[i].call = a.call => w[i].n # a.n

\* No request has a number that is not given out.
Numbered(u, w, as) ==
  /\ \A r \in u : r.n <= request[r.call]
  /\ \A i \in DOMAIN w : w[i].n <= request[w[i].call]
  /\ \A a \in as : a.n <= request[a.call]

\* A call that has not begun to poll has no poll anywhere.
NoPollYet ==
  \A c \in Calls : stage[c] \in {"new", "posting"} =>
    /\ \A r \in upstream : r.call = c => ~r.poll
    /\ \A i \in DOMAIN waiters : waiters[i].call # c
    /\ \A a \in answers : a.call = c => a.body \in Statuses

\* Where a response is kept: at places of the mailbox, or in answers.
Places(s, c) == {i \in DOMAIN s : s[i] = c}
Holding(as, c) == {a \in as : a.body = c}

\* The inductive invariant of the calls.
RemoteInv ==
  /\ RemoteTypeOK /\ Counted /\ NoPollYet
  /\ Apart(upstream, waiters, answers) /\ Numbered(upstream, waiters, answers)
  /\ ResponsesAccounted

-------------------------------------------------------------------------------
\* Nothing was sent at first.
LEMMA RemoteInitInv == RemoteInit => RemoteInv
<1> SUFFICES ASSUME RemoteInit PROVE RemoteInv
  OBVIOUS
<1>1. \A c : Posts(upstream, c) = {} /\ Places(mailbox, c) = {} /\ Holding(answers, c) = {}
  BY DEF RemoteInit, Posts, Places, Holding
<1>2. Cardinality({}) = 0 /\ IsFiniteSet({})
  BY FS_EmptySet
<1>3. RemoteTypeOK
  BY <1>2 DEF RemoteInit, RemoteTypeOK
<1>4. Counted
  <2>1. ASSUME NEW c \in Calls
        PROVE  /\ routed[c] = 0 /\ attempt[c] = 0 /\ stage[c] = "new"
               /\ Cardinality(Posts(upstream, c)) = 0 /\ Attempts[c] \in Nat /\ answers = {}
    BY <1>1, <1>2, RemoteConstants DEF RemoteInit
  <2> QED BY <2>1 DEF Counted, RemoteInit
<1>5. NoPollYet /\ Apart(upstream, waiters, answers) /\ Numbered(upstream, waiters, answers)
  BY DEF RemoteInit, NoPollYet, Apart, Numbered
<1>6. ResponsesAccounted
  BY <1>1, <1>2 DEF RemoteInit, ResponsesAccounted, Places, Holding
<1> QED BY <1>3, <1>4, <1>5, <1>6 DEF RemoteInv

-------------------------------------------------------------------------------
(* Counting.                                                                *)

\* Places of a sequence are finitely many.
LEMMA PlacesFinite ==
  ASSUME NEW S, NEW s \in Seq(S), NEW c
  PROVE  IsFiniteSet(Places(s, c)) /\ Cardinality(Places(s, c)) \in Nat
<1>1. IsFiniteSet(1..Len(s))
  BY FS_Interval
<1>2. Places(s, c) \in SUBSET (1..Len(s))
  BY DEF Places
<1>3. IsFiniteSet(Places(s, c))
  BY <1>1, <1>2, FS_Subset
<1> QED BY <1>3, FS_CardinalityType

\* One that is appended has one more place.
LEMMA PlacesAppend ==
  ASSUME NEW S, NEW s \in Seq(S), NEW x \in S, NEW c
  PROVE  Cardinality(Places(Append(s, x), c)) =
           Cardinality(Places(s, c)) + (IF x = c THEN 1 ELSE 0)
<1>1. IsFiniteSet(Places(s, c)) /\ Cardinality(Places(s, c)) \in Nat
  BY PlacesFinite
<1>2. Len(s) + 1 \notin Places(s, c)
  BY DEF Places
<1>3. Places(Append(s, x), c) = IF x = c THEN Places(s, c) \cup {Len(s) + 1} ELSE Places(s, c)
  BY DEF Places
<1>4. Cardinality(Places(s, c) \cup {Len(s) + 1}) = Cardinality(Places(s, c)) + 1
  BY <1>1, <1>2, FS_AddElement
<1> QED BY <1>1, <1>3, <1>4

\* The head has one place more than in the tail.
LEMMA PlacesTail ==
  ASSUME NEW S, NEW s \in Seq(S), s # <<>>, NEW c
  PROVE  Cardinality(Places(s, c)) =
           Cardinality(Places(Tail(s), c)) + (IF Head(s) = c THEN 1 ELSE 0)
<1> DEFINE P == Places(s, c)
           Q == Places(Tail(s), c)
           f == [i \in P \ {1} |-> i - 1]
<1>1. IsFiniteSet(P) /\ Cardinality(P) \in Nat
  BY PlacesFinite
<1>2. f \in Bijection(P \ {1}, Q)
  <2>1. P \subseteq 1..Len(s) /\ Q \subseteq 1..(Len(s) - 1)
    BY DEF Places
  <2>2. \A i \in 1..(Len(s) - 1) : i \in Q <=> i + 1 \in P
    BY DEF Places
  <2> HIDE DEF P, Q
  <2>3. \A i \in P \ {1} : i - 1 \in 1..(Len(s) - 1) /\ (i - 1) + 1 = i
    BY <2>1
  <2>4. f \in [P \ {1} -> Q]
    BY <2>2, <2>3
  <2>5. \A i, j \in P \ {1} : f[i] = f[j] => i = j
    BY <2>3
  <2>6. \A j \in Q : j + 1 \in P \ {1} /\ f[j + 1] = j
    BY <2>1, <2>2
  <2> QED BY <2>4, <2>5, <2>6 DEF Bijection, Injection, Surjection, IsInjective
<1>3. /\ IsFiniteSet(P \ {1})
      /\ Cardinality(P \ {1}) = IF 1 \in P THEN Cardinality(P) - 1 ELSE Cardinality(P)
  BY <1>1, FS_RemoveElement
<1>4. Cardinality(Q) = Cardinality(P \ {1})
  BY <1>2, <1>3, FS_Bijection DEF ExistsBijection
<1>5. 1 \in P <=> Head(s) = c
  BY DEF Places
<1> HIDE DEF P, Q
<1>6. Cardinality(P) = Cardinality(Q) + (IF Head(s) = c THEN 1 ELSE 0)
  BY <1>1, <1>3, <1>4, <1>5
<1> QED BY <1>6 DEF P, Q

LEMMA HoldingFinite ==
  ASSUME NEW as, IsFiniteSet(as), NEW c
  PROVE  IsFiniteSet(Holding(as, c)) /\ Cardinality(Holding(as, c)) \in Nat
<1>1. Holding(as, c) \in SUBSET as
  BY DEF Holding
<1>2. IsFiniteSet(Holding(as, c))
  BY <1>1, FS_Subset
<1> QED BY <1>2, FS_CardinalityType

LEMMA HoldingAdd ==
  ASSUME NEW as, IsFiniteSet(as), NEW a, a \notin as, NEW c
  PROVE  /\ a.body = c => Cardinality(Holding(as \cup {a}, c)) = Cardinality(Holding(as, c)) + 1
         /\ a.body # c => Holding(as \cup {a}, c) = Holding(as, c)
<1>1. IsFiniteSet(Holding(as, c)) /\ Cardinality(Holding(as, c)) \in Nat
  BY HoldingFinite
<1>2. ASSUME a.body = c PROVE Cardinality(Holding(as \cup {a}, c)) = Cardinality(Holding(as, c)) + 1
  <2>1. Holding(as \cup {a}, c) = Holding(as, c) \cup {a} /\ a \notin Holding(as, c)
    BY <1>2 DEF Holding
  <2>2. Cardinality(Holding(as, c) \cup {a}) = Cardinality(Holding(as, c)) + 1
    BY <1>1, <2>1, FS_AddElement
  <2> QED BY <2>1, <2>2, Zenon
<1>3. ASSUME a.body # c PROVE Holding(as \cup {a}, c) = Holding(as, c)
  BY <1>3 DEF Holding
<1> QED BY <1>2, <1>3

LEMMA HoldingTake ==
  ASSUME NEW as, IsFiniteSet(as), NEW a \in as, NEW c
  PROVE  /\ a.body = c => Cardinality(Holding(as \ {a}, c)) = Cardinality(Holding(as, c)) - 1
         /\ a.body # c => Holding(as \ {a}, c) = Holding(as, c)
<1>1. IsFiniteSet(Holding(as, c)) /\ Cardinality(Holding(as, c)) \in Nat
  BY HoldingFinite
<1>2. ASSUME a.body = c PROVE Cardinality(Holding(as \ {a}, c)) = Cardinality(Holding(as, c)) - 1
  <2>1. Holding(as \ {a}, c) = Holding(as, c) \ {a} /\ a \in Holding(as, c)
    BY <1>2 DEF Holding
  <2>2. Cardinality(Holding(as, c) \ {a}) = Cardinality(Holding(as, c)) - 1
    BY <1>1, <2>1, FS_RemoveElement
  <2> QED BY <2>1, <2>2, Zenon
<1>3. ASSUME a.body # c PROVE Holding(as \ {a}, c) = Holding(as, c)
  <2>1. ASSUME NEW x \in as, x.body = c PROVE x # a
    BY <1>3, <2>1, Zenon
  <2>2. Holding(as, c) \subseteq Holding(as \ {a}, c)
    BY <2>1 DEF Holding
  <2>3. Holding(as \ {a}, c) \subseteq Holding(as, c)
    BY DEF Holding
  <2> QED BY <2>2, <2>3
<1> QED BY <1>2, <1>3

-------------------------------------------------------------------------------
(* Where a request is.                                                      *)

LEMMA Removed ==
  ASSUME NEW S, NEW s \in Seq(S), NEW i \in 1..Len(s)
  PROVE  /\ RemoveAt(s, i) \in Seq(S) /\ Len(RemoveAt(s, i)) = Len(s) - 1
         /\ \A k \in 1..(Len(s) - 1) : RemoveAt(s, i)[k] = IF k < i THEN s[k] ELSE s[k + 1]
<1> DEFINE front == SubSeq(s, 1, i - 1)
           back == SubSeq(s, i + 1, Len(s))
<1>1. /\ front \in Seq(S) /\ Len(front) = i - 1 /\ \A k \in 1..(i - 1) : front[k] = s[k]
      /\ back \in Seq(S) /\ Len(back) = Len(s) - i
      /\ \A k \in 1..(Len(s) - i) : back[k] = s[i + k]
  OBVIOUS
<1>2. RemoveAt(s, i) = front \o back
  BY DEF RemoveAt
<1> HIDE DEF front, back
<1>3. RemoveAt(s, i) \in Seq(S) /\ Len(RemoveAt(s, i)) = Len(s) - 1
  BY <1>1, <1>2
<1>4. ASSUME NEW k \in 1..(Len(s) - 1)
      PROVE  RemoveAt(s, i)[k] = IF k < i THEN s[k] ELSE s[k + 1]
  <2>1. CASE k < i
    BY <1>1, <1>2, <2>1
  <2>2. CASE ~(k < i)
    <3>1. k - (i - 1) \in 1..(Len(s) - i) /\ i + (k - (i - 1)) = k + 1
      BY <2>2
    <3>2. RemoveAt(s, i)[k] = back[k - (i - 1)]
      BY SMTT(30), <1>1, <1>2, <2>2
    <3> QED BY <1>1, <2>2, <3>1, <3>2
  <2> QED BY <2>1, <2>2
<1> QED BY <1>3, <1>4

LEMMA ApartFetch ==
  ASSUME NEW u, NEW w, NEW as, Apart(u, w, as), Numbered(u, w, as), RemoteTypeOK,
         u \subseteq Requests, w \in Seq(Requests), as \subseteq Answers,
         NEW c \in Calls, NEW p \in BOOLEAN
  PROVE  Apart(u \cup {[call |-> c, n |-> request[c] + 1, poll |-> p]}, w, as)
<1> DEFINE new == [call |-> c, n |-> request[c] + 1, poll |-> p]
<1>1. request[c] \in Nat
  BY DEF RemoteTypeOK
<1>2. \A r \in u : r.call = c => r.n # new.n
  BY <1>1 DEF Numbered, Requests
<1>3. \A i \in DOMAIN w : w[i].call = c => w[i].n # new.n
  <2>1. ASSUME NEW i \in DOMAIN w, w[i].call = c PROVE w[i].n # new.n
    <3>1. w[i] \in Requests /\ w[i].n <= request[w[i].call]
      BY DEF Numbered
    <3>2. w[i].n <= request[c] /\ w[i].n \in Nat
      BY <2>1, <3>1 DEF Requests
    <3> QED BY <1>1, <3>2
  <2> QED BY <2>1
<1>4. \A a \in as : a.call = c => a.n # new.n
  <2>1. ASSUME NEW a \in as, a.call = c PROVE a.n # new.n
    <3>1. a \in Answers /\ a.n <= request[a.call]
      BY DEF Numbered
    <3>2. a.n <= request[c] /\ a.n \in Nat
      BY <2>1, <3>1 DEF Answers
    <3> QED BY <1>1, <3>2
  <2> QED BY <2>1
<1>5. new.call = c
  OBVIOUS
<1> HIDE DEF new
<1>6. Apart(u \cup {new}, w, as)
  BY <1>2, <1>3, <1>4, <1>5 DEF Apart
<1> QED BY <1>6 DEF new

\* A request that arrives is answered or waits.
LEMMA ApartAnswer ==
  ASSUME NEW u, NEW w, NEW as, Apart(u, w, as), NEW r \in u, NEW b
  PROVE  Apart(u \ {r}, w, as \cup {[call |-> r.call, n |-> r.n, body |-> b]})
<1> DEFINE new == [call |-> r.call, n |-> r.n, body |-> b]
<1>1. new.call = r.call /\ new.n = r.n
  OBVIOUS
<1> HIDE DEF new
<1>2. Apart(u \ {r}, w, as \cup {new})
  BY ZenonT(30), <1>1 DEF Apart
<1> QED BY <1>2 DEF new

LEMMA ApartWait ==
  ASSUME NEW u, NEW w \in Seq(Requests), NEW as, Apart(u, w, as), NEW r \in u, r \in Requests
  PROVE  Apart(u \ {r}, Append(w, r), as)
<1> DEFINE v == Append(w, r)
<1>1. DOMAIN v = DOMAIN w \cup {Len(w) + 1} /\ v[Len(w) + 1] = r /\ \A i \in DOMAIN w : v[i] = w[i]
  OBVIOUS
<1> HIDE DEF v
<1>a. Len(w) + 1 \notin DOMAIN w
  OBVIOUS
<1>2. Apart(u \ {r}, v, as)
  <2>1. \A q, s \in u \ {r} : q.call = s.call /\ q.n = s.n => q = s
    BY DEF Apart
  <2>2. \A j, k \in DOMAIN v : v[j].call = v[k].call /\ v[j].n = v[k].n => j = k
    <3>1. \A i \in DOMAIN w : r.call = w[i].call => r.n # w[i].n
      BY DEF Apart
    <3>2. \A i, j \in DOMAIN w : w[i].call = w[j].call /\ w[i].n = w[j].n => i = j
      BY DEF Apart
    <3> QED BY <1>1, <1>a, <3>1, <3>2
  <2>3. \A q \in u \ {r} : \A k \in DOMAIN v : q.call = v[k].call => q.n # v[k].n
    <3>1. \A q \in u : \A i \in DOMAIN w : q.call = w[i].call => q.n # w[i].n
      BY DEF Apart
    <3>2. \A q \in u \ {r} : q.call = r.call => q.n # r.n
      BY DEF Apart
    <3> QED BY <1>1, <3>1, <3>2
  <2>4. \A q \in u : \A a \in as : q.call = a.call => q.n # a.n
    BY DEF Apart
  <2>5. \A k \in DOMAIN v, a \in as : v[k].call = a.call => v[k].n # a.n
    <3>1. \A k \in DOMAIN w, a \in as : w[k].call = a.call => w[k].n # a.n
      BY DEF Apart
    <3> QED BY <1>1, <2>4, <3>1
  <2> QED BY <2>1, <2>2, <2>3, <2>4, <2>5 DEF Apart
<1> QED BY <1>2 DEF v

\* A request that waits is answered.
LEMMA ApartServe ==
  ASSUME NEW u, NEW w \in Seq(Requests), NEW as, Apart(u, w, as), NEW i \in 1..Len(w), NEW b
  PROVE  Apart(u, RemoveAt(w, i), as \cup {[call |-> w[i].call, n |-> w[i].n, body |-> b]})
<1> DEFINE new == [call |-> w[i].call, n |-> w[i].n, body |-> b]
           v == RemoveAt(w, i)
           from(k) == IF k < i THEN k ELSE k + 1
<1>1. new.call = w[i].call /\ new.n = w[i].n
  OBVIOUS
<1>2. v \in Seq(Requests) /\ Len(v) = Len(w) - 1
        /\ \A k \in 1..(Len(w) - 1) : v[k] = IF k < i THEN w[k] ELSE w[k + 1]
  BY Removed
<1>3. DOMAIN v = 1..(Len(w) - 1)
  BY <1>2
<1>4. \A k \in DOMAIN v : from(k) \in DOMAIN w /\ v[k] = w[from(k)] /\ from(k) # i
  BY <1>2, <1>3
<1>5. \A j, k \in DOMAIN v : from(j) = from(k) => j = k
  BY <1>3
<1>6. i \in DOMAIN w
  OBVIOUS
<1> HIDE DEF new, v, from
<1>7. Apart(u, v, as \cup {new})
  <2>1. \A r, s \in u : r.call = s.call /\ r.n = s.n => r = s
    BY DEF Apart
  <2>2. \A j, k \in DOMAIN v : v[j].call = v[k].call /\ v[j].n = v[k].n => j = k
    BY <1>4, <1>5 DEF Apart
  <2>3. \A r \in u : \A k \in DOMAIN v : r.call = v[k].call => r.n # v[k].n
    <3>1. \A r \in u : \A k \in DOMAIN w : r.call = w[k].call => r.n # w[k].n
      BY DEF Apart
    <3> QED BY <1>4, <3>1
  <2>4. \A r \in u : \A a \in as \cup {new} : r.call = a.call => r.n # a.n
    BY ZenonT(30), <1>1, <1>6 DEF Apart
  <2>5. \A k \in DOMAIN v, a \in as \cup {new} : v[k].call = a.call => v[k].n # a.n
    <3>1. \A k \in DOMAIN w, a \in as : w[k].call = a.call => w[k].n # a.n
      BY DEF Apart
    <3>2. \A k \in DOMAIN w : w[k].call = new.call /\ w[k].n = new.n => k = i
      BY <1>1, <1>6 DEF Apart
    <3> QED BY <1>4, <3>1, <3>2
  <2> QED BY <2>1, <2>2, <2>3, <2>4, <2>5 DEF Apart
<1> QED BY <1>7 DEF new, v

LEMMA HeadRemoved ==
  ASSUME NEW S, NEW s \in Seq(S), s # <<>>
  PROVE  Tail(s) = RemoveAt(s, 1) /\ Head(s) = s[1] /\ 1 \in 1..Len(s)
<1>1. Len(s) > 0
  OBVIOUS
<1>2. SubSeq(s, 1, 0) = <<>> /\ SubSeq(s, 2, Len(s)) = Tail(s)
  BY <1>1
<1>3. RemoveAt(s, 1) = SubSeq(s, 1, 0) \o SubSeq(s, 2, Len(s))
  BY DEF RemoveAt
<1>4. <<>> \o Tail(s) = Tail(s)
  BY <1>1
<1> QED BY <1>1, <1>2, <1>3, <1>4

LEMMA ApartFewer ==
  ASSUME NEW u, NEW w, NEW as, Apart(u, w, as), NEW bs, bs \subseteq as
  PROVE  Apart(u, w, bs)
  BY DEF Apart

-------------------------------------------------------------------------------
(* The copies on their way.                                                 *)

LEMMA PostsFinite ==
  ASSUME NEW u, IsFiniteSet(u), NEW c
  PROVE  IsFiniteSet(Posts(u, c)) /\ Cardinality(Posts(u, c)) \in Nat
<1>1. Posts(u, c) \in SUBSET u
  BY DEF Posts
<1>2. IsFiniteSet(Posts(u, c))
  BY <1>1, FS_Subset
<1> QED BY <1>2, FS_CardinalityType

LEMMA PostsFetch ==
  ASSUME NEW u, IsFiniteSet(u), NEW r, NEW c
  PROVE  /\ Cardinality(Posts(u \cup {r}, c)) <= Cardinality(Posts(u, c)) + 1
         /\ r.call # c \/ r.poll => Posts(u \cup {r}, c) = Posts(u, c)
<1>1. IsFiniteSet(Posts(u, c)) /\ Cardinality(Posts(u, c)) \in Nat
  BY PostsFinite
<1>2. IsFiniteSet(Posts(u, c) \cup {r})
        /\ Cardinality(Posts(u, c) \cup {r}) <= Cardinality(Posts(u, c)) + 1
  <2> DEFINE P == Posts(u, c)
  <2> HIDE DEF P
  <2>1. IsFiniteSet(P) /\ Cardinality(P) \in Nat
    BY <1>1 DEF P
  <2>2. /\ IsFiniteSet(P \cup {r})
        /\ Cardinality(P \cup {r}) = IF r \in P THEN Cardinality(P) ELSE Cardinality(P) + 1
    BY <2>1, FS_AddElement
  <2>3. Cardinality(P \cup {r}) <= Cardinality(P) + 1
    BY <2>1, <2>2
  <2> QED BY <2>2, <2>3 DEF P
<1>3. CASE r.call # c \/ r.poll
  <2>1. Posts(u \cup {r}, c) = Posts(u, c)
    BY <1>3, Zenon DEF Posts
  <2>2. Cardinality(Posts(u, c)) <= Cardinality(Posts(u, c)) + 1
    BY <1>1
  <2> QED BY <2>1, <2>2, Zenon
<1>4. CASE ~(r.call # c \/ r.poll)
  <2>1. Posts(u \cup {r}, c) = Posts(u, c) \cup {r}
    BY <1>4, Zenon DEF Posts
  <2> QED BY <1>2, <1>4, <2>1, Zenon
<1> QED BY <1>3, <1>4, Zenon

LEMMA PostsTake ==
  ASSUME NEW u, IsFiniteSet(u), NEW r \in u, NEW c
  PROVE  /\ Cardinality(Posts(u \ {r}, c)) <= Cardinality(Posts(u, c))
         /\ r.call = c /\ ~r.poll =>
              Cardinality(Posts(u \ {r}, c)) = Cardinality(Posts(u, c)) - 1
<1>1. IsFiniteSet(Posts(u, c)) /\ Cardinality(Posts(u, c)) \in Nat
  BY PostsFinite
<1>2. Posts(u \ {r}, c) = Posts(u, c) \ {r}
  BY DEF Posts
<1>3. r.call = c /\ ~r.poll => r \in Posts(u, c)
  BY Zenon DEF Posts
<1>4. Cardinality(Posts(u, c) \ {r}) =
        IF r \in Posts(u, c) THEN Cardinality(Posts(u, c)) - 1 ELSE Cardinality(Posts(u, c))
  BY <1>1, FS_RemoveElement
<1>5. /\ Cardinality(Posts(u, c) \ {r}) <= Cardinality(Posts(u, c))
      /\ r \in Posts(u, c) => Cardinality(Posts(u, c) \ {r}) = Cardinality(Posts(u, c)) - 1
  BY <1>1, <1>4
<1> QED BY <1>2, <1>3, <1>5, Zenon

-------------------------------------------------------------------------------
(* Steps of a call.                                                         *)

\* What a step of call c does, but for the responses it reads: it moves to a stage, with or
\* without a request, and may take an answer.
CallMoves(c, s) ==
  /\ stage' = [stage EXCEPT ![c] = s]
  /\ \/ /\ s = "posting" /\ stage[c] \in {"new", "posting"} /\ attempt[c] < Attempts[c]
        /\ Fetch(c, attempt[c] + 1)
     \/ s = "waiting" /\ routed[c] >= 1 /\ \E n \in Nat : Fetch(c, n)
     \/ s \in {"polling", "answered", "timed out"} /\ routed[c] >= 1 /\ NoFetch
     \/ s = "failed" /\ NoFetch
  /\ answers' \subseteq answers
  /\ missed' \in [Calls -> Nat]
  /\ UNCHANGED <<mailbox, waiters, routed, responses>>

LEMMA FetchOK ==
  ASSUME RemoteInv, NEW c \in Calls, NEW n \in Nat, Fetch(c, n),
         answers' \subseteq answers, UNCHANGED waiters
  PROVE  /\ (attempt \in [Calls -> Nat])' /\ (request \in [Calls -> Nat])'
         /\ upstream' \in SUBSET Requests /\ IsFiniteSet(upstream')
         /\ Apart(upstream, waiters, answers)' /\ Numbered(upstream, waiters, answers)'
<1> DEFINE p == stage'[c] = "waiting"
           new == [call |-> c, n |-> request[c] + 1, poll |-> p]
<1>1. /\ attempt' = [attempt EXCEPT ![c] = n] /\ request' = [request EXCEPT ![c] = @ + 1]
      /\ upstream' = upstream \cup {new}
  BY DEF Fetch
<1>2. /\ RemoteTypeOK /\ Apart(upstream, waiters, answers) /\ Numbered(upstream, waiters, answers)
      /\ upstream \subseteq Requests /\ waiters \in Seq(Requests) /\ answers \subseteq Answers
      /\ IsFiniteSet(upstream) /\ request \in [Calls -> Nat] /\ attempt \in [Calls -> Nat]
  BY DEF RemoteInv, RemoteTypeOK
<1>3. p \in BOOLEAN /\ request[c] + 1 \in Nat
  BY <1>2
<1> HIDE DEF p
<1>4. new \in Requests
  BY <1>3 DEF Requests
<1>5. IsFiniteSet(upstream')
  BY <1>1, <1>2, FS_AddElement
<1>6. Apart(upstream \cup {new}, waiters, answers)
  BY <1>2, <1>3, ApartFetch
<1>7. Apart(upstream', waiters', answers')
  BY <1>1, <1>6, ApartFewer
<1>8. \A d \in Calls : request'[d] \in Nat /\ request[d] <= request'[d]
  BY <1>1, <1>2
<1>9. Numbered(upstream, waiters, answers)'
  <2>1. \A r \in upstream' : r.n <= request'[r.call]
    <3>1. new.n = request'[new.call]
      BY <1>1, <1>2
    <3>2. new.n \in Nat
      BY <1>3
    <3> HIDE DEF new
    <3>3. ASSUME NEW r \in upstream PROVE r.n <= request'[r.call]
      <4>1. r \in Requests /\ r.n <= request[r.call]
        BY <1>2 DEF Numbered
      <4> QED BY <1>2, <1>8, <4>1 DEF Requests
    <3>4. new.n <= request'[new.call]
      BY <3>1, <3>2
    <3> QED BY <1>1, <3>3, <3>4
  <2>2. \A i \in DOMAIN waiters' : waiters'[i].n <= request'[waiters'[i].call]
    <3>1. ASSUME NEW i \in DOMAIN waiters PROVE waiters[i].n <= request'[waiters[i].call]
      <4>1. waiters[i] \in Requests /\ waiters[i].n <= request[waiters[i].call]
        BY <1>2 DEF Numbered
      <4> QED BY SMTT(30), <1>2, <1>8, <4>1 DEF Requests
    <3> QED BY <3>1
  <2>3. \A a \in answers' : a.n <= request'[a.call]
    <3>1. ASSUME NEW a \in answers PROVE a.n <= request'[a.call]
      <4>1. a \in Answers /\ a.n <= request[a.call]
        BY <1>2 DEF Numbered
      <4> QED BY <1>2, <1>8, <4>1 DEF Answers
    <3> QED BY <3>1
  <2> QED BY <2>1, <2>2, <2>3 DEF Numbered
<1>10. (attempt \in [Calls -> Nat])' /\ (request \in [Calls -> Nat])'
  BY <1>1, <1>2
<1>11. upstream' \in SUBSET Requests
  BY <1>1, <1>2, <1>4
<1> QED BY <1>5, <1>7, <1>9, <1>10, <1>11

\* Everything but the account of the responses.
CallsOK ==
  /\ RemoteTypeOK /\ Counted /\ NoPollYet
  /\ Apart(upstream, waiters, answers) /\ Numbered(upstream, waiters, answers)

LEMMA FewerAnswers ==
  ASSUME RemoteInv, answers' \subseteq answers, NoFetch, UNCHANGED waiters
  PROVE  /\ Apart(upstream, waiters, answers)' /\ Numbered(upstream, waiters, answers)'
         /\ (attempt \in [Calls -> Nat])' /\ (request \in [Calls -> Nat])'
         /\ upstream' \in SUBSET Requests /\ IsFiniteSet(upstream')
<1>1. Apart(upstream, waiters, answers')
  BY ApartFewer DEF RemoteInv
<1>2. Numbered(upstream, waiters, answers)'
  BY DEF NoFetch, RemoteInv, Numbered
<1> QED BY <1>1, <1>2 DEF NoFetch, RemoteInv, RemoteTypeOK

LEMMA CallMovesOK ==
  ASSUME RemoteInv, NEW c \in Calls, NEW s, CallMoves(c, s)
  PROVE  CallsOK'
<1>1. /\ stage' = [stage EXCEPT ![c] = s] /\ stage \in [Calls -> {"new", "posting", "polling", "waiting"} \cup Over]
      /\ s \in {"posting", "polling", "waiting"} \cup Over
  BY DEF CallMoves, RemoteInv, RemoteTypeOK, Over
<1>2. stage'[c] = s /\ \A d \in Calls : d # c => stage'[d] = stage[d]
  BY <1>1
<1>3. /\ answers' \subseteq answers /\ missed' \in [Calls -> Nat]
      /\ UNCHANGED <<mailbox, waiters, routed, responses>>
  BY DEF CallMoves
<1>4. /\ (attempt \in [Calls -> Nat])' /\ (request \in [Calls -> Nat])'
      /\ upstream' \in SUBSET Requests /\ IsFiniteSet(upstream')
      /\ Apart(upstream, waiters, answers)' /\ Numbered(upstream, waiters, answers)'
  <2>1. CASE NoFetch
    BY <1>3, <2>1, FewerAnswers
  <2>2. CASE \E n \in Nat : Fetch(c, n)
    BY <1>3, <2>2, FetchOK
  <2>3. attempt[c] + 1 \in Nat
    BY DEF RemoteInv, RemoteTypeOK
  <2> QED BY <2>1, <2>2, <2>3 DEF CallMoves
<1>5. IsFiniteSet(answers')
  BY <1>3, FS_Subset DEF RemoteInv, RemoteTypeOK
<1>6. RemoteTypeOK'
  <2>1. stage' \in [Calls -> {"new", "posting", "polling", "waiting"} \cup Over]
    BY <1>1
  <2>2. /\ mailbox' \in Seq(Calls) /\ waiters' \in Seq(Requests) /\ answers' \in SUBSET Answers
        /\ routed' \in [Calls -> Nat] /\ responses' \in [Calls -> Nat]
    BY <1>3 DEF RemoteInv, RemoteTypeOK
  <2> QED BY <1>3, <1>4, <1>5, <2>1, <2>2 DEF RemoteTypeOK
<1>7. /\ IsFiniteSet(upstream) /\ Counted /\ routed \in [Calls -> Nat] /\ attempt \in [Calls -> Nat]
      /\ Attempts \in [Calls -> Nat \ {0}]
  BY RemoteConstants DEF RemoteInv, RemoteTypeOK
<1>8. /\ stage[c] \in {"new", "posting"} \/ routed[c] >= 1 \/ s = "failed"
  BY DEF CallMoves, Fetch
<1>9. \A d \in Calls : Cardinality(Posts(upstream, d)) \in Nat
  BY <1>7, PostsFinite
<1>10. \A a \in answers' : a.body = "ok" => routed'[a.call] >= 1
  BY <1>3, <1>7 DEF Counted
<1>11. CASE NoFetch
  <2>1. UNCHANGED <<upstream, attempt>>
    BY <1>11 DEF NoFetch
  <2>3. s # "posting" \/ (stage[c] \in {"new", "posting"} /\ Fetch(c, attempt[c] + 1))
    BY DEF CallMoves
  <2>4. s = "posting" => request' # request
    BY <2>3 DEF Fetch, RemoteInv, RemoteTypeOK
  <2>5. s # "posting"
    BY <1>11, <2>4 DEF NoFetch
  <2>6. s \notin {"new", "posting"} /\ (s # "failed" => routed[c] >= 1)
    BY <1>1, <2>5 DEF CallMoves, Over
  <2>7. Counted'
    BY <1>2, <1>3, <1>7, <1>10, <2>1, <2>6 DEF Counted
  <2>8. NoPollYet'
    BY <1>2, <1>3, <2>1, <2>6 DEF RemoteInv, NoPollYet
  <2> QED BY <1>4, <1>6, <2>7, <2>8 DEF CallsOK
<1>12. CASE s = "posting"
  <2>1. stage[c] \in {"new", "posting"} /\ attempt[c] < Attempts[c] /\ Fetch(c, attempt[c] + 1)
    BY <1>12 DEF CallMoves
  <2> DEFINE new == [call |-> c, n |-> request[c] + 1, poll |-> stage'[c] = "waiting"]
  <2>2. attempt' = [attempt EXCEPT ![c] = attempt[c] + 1] /\ upstream' = upstream \cup {new}
    BY <2>1 DEF Fetch
  <2>3. new.call = c /\ ~new.poll
    BY <1>2, <1>12
  <2> HIDE DEF new
  <2>4. /\ Cardinality(Posts(upstream', c)) <= Cardinality(Posts(upstream, c)) + 1
        /\ Cardinality(Posts(upstream', c)) \in Nat
    BY <1>4, <1>7, <2>2, PostsFetch, PostsFinite
  <2>5. \A d \in Calls : d # c => Posts(upstream', d) = Posts(upstream, d)
    BY <1>7, <2>2, <2>3, PostsFetch
  <2>6. attempt'[c] = attempt[c] + 1 /\ \A d \in Calls : d # c => attempt'[d] = attempt[d]
    BY <1>7, <2>2
  <2>7. ASSUME NEW d \in Calls
        PROVE  /\ routed'[d] + Cardinality(Posts(upstream', d)) <= Attempts[d]
               /\ stage'[d] \in {"new", "posting"} =>
                    /\ attempt'[d] <= Attempts[d]
                    /\ routed'[d] + Cardinality(Posts(upstream', d)) <= attempt'[d]
               /\ stage'[d] = "new" => attempt'[d] = 0
               /\ stage'[d] \in {"polling", "waiting", "answered", "timed out"} => routed'[d] >= 1
    <3>1. CASE d # c
      BY <1>2, <1>3, <1>7, <2>5, <2>6, <3>1 DEF Counted
    <3>2. CASE d = c
      <4>1. routed[c] + Cardinality(Posts(upstream, c)) <= attempt[c] /\ attempt[c] < Attempts[c]
        BY <1>7, <2>1 DEF Counted
      <4>2. /\ routed[c] \in Nat /\ attempt[c] \in Nat /\ Attempts[c] \in Nat
            /\ Cardinality(Posts(upstream, c)) \in Nat
        BY <1>7, <1>9
      <4>3. routed[c] + Cardinality(Posts(upstream', c)) <= attempt[c] + 1 /\ attempt[c] + 1 <= Attempts[c]
        BY <2>4, <4>1, <4>2
      <4>4. routed[c] + Cardinality(Posts(upstream', c)) <= Attempts[c]
        BY <2>4, <4>2, <4>3
      <4> QED BY <1>2, <1>3, <1>12, <2>6, <3>2, <4>3, <4>4
    <3> QED BY <3>1, <3>2
  <2>8. Counted'
    BY <1>10, <2>7 DEF Counted
  <2>9. NoPollYet'
    <3>1. ASSUME NEW d \in Calls, stage'[d] \in {"new", "posting"}
          PROVE  /\ \A r \in upstream' : r.call = d => ~r.poll
                 /\ \A i \in DOMAIN waiters' : waiters'[i].call # d
                 /\ \A a \in answers' : a.call = d => a.body \in Statuses
      <4>1. stage[d] \in {"new", "posting"}
        BY <1>2, <2>1, <3>1
      <4>2. \A r \in upstream' : r.call = d => ~r.poll
        BY <2>2, <2>3, <4>1, Zenon DEF RemoteInv, NoPollYet
      <4> QED BY <1>3, <4>1, <4>2 DEF RemoteInv, NoPollYet
    <3> QED BY <3>1 DEF NoPollYet
  <2> QED BY <1>4, <1>6, <2>8, <2>9 DEF CallsOK
<1>13. CASE s = "waiting"
  <2>1. PICK n \in Nat : Fetch(c, n)
    BY <1>13 DEF CallMoves
  <2> DEFINE new == [call |-> c, n |-> request[c] + 1, poll |-> stage'[c] = "waiting"]
  <2>2. attempt' = [attempt EXCEPT ![c] = n] /\ upstream' = upstream \cup {new}
    BY <2>1 DEF Fetch
  <2>3. new.call = c /\ new.poll
    BY <1>2, <1>13
  <2> HIDE DEF new
  <2>4. \A d \in Calls : Posts(upstream', d) = Posts(upstream, d)
    BY <1>7, <2>2, <2>3, PostsFetch
  <2>5. \A d \in Calls : d # c => attempt'[d] = attempt[d]
    BY <1>7, <2>2
  <2>6. routed[c] >= 1
    BY <1>13 DEF CallMoves
  <2>7. Counted'
    BY <1>2, <1>3, <1>7, <1>10, <1>13, <2>4, <2>5, <2>6 DEF Counted
  <2>8. NoPollYet'
    <3>1. ASSUME NEW d \in Calls, stage'[d] \in {"new", "posting"}
          PROVE  /\ \A r \in upstream' : r.call = d => ~r.poll
                 /\ \A i \in DOMAIN waiters' : waiters'[i].call # d
                 /\ \A a \in answers' : a.call = d => a.body \in Statuses
      <4>1. stage[d] \in {"new", "posting"} /\ d # c
        BY <1>2, <1>13, <3>1
      <4>2. \A r \in upstream' : r.call = d => ~r.poll
        BY <2>2, <2>3, <4>1, Zenon DEF RemoteInv, NoPollYet
      <4> QED BY <1>3, <4>1, <4>2 DEF RemoteInv, NoPollYet
    <3> QED BY <3>1 DEF NoPollYet
  <2> QED BY <1>4, <1>6, <2>7, <2>8 DEF CallsOK
<1> QED BY <1>11, <1>12, <1>13 DEF CallMoves

\* The responses are accounted for as before where no answer of a message, no response and
\* no read one comes or goes.
LEMMA SameAccount ==
  ASSUME RemoteInv,
         \A d \in Calls : /\ Holding(answers', d) = Holding(answers, d)
                          /\ stage'[d] = "answered" <=> stage[d] = "answered"
                          /\ missed'[d] = missed[d],
         UNCHANGED <<mailbox, responses>>
  PROVE  ResponsesAccounted'
<1>1. \A d \in Calls : Holding(answers', d) = {a \in answers' : a.body = d}
                         /\ Holding(answers, d) = {a \in answers : a.body = d}
  BY DEF Holding
<1> QED BY <1>1 DEF RemoteInv, ResponsesAccounted

LEMMA RetryMoves ==
  ASSUME RemoteInv, NEW c \in Calls, NEW retryable, RetryOrFail(c, retryable),
         stage[c] \in {"posting", "waiting"},
         answers' \subseteq answers, UNCHANGED <<mailbox, waiters, routed, responses, missed>>
  PROVE  CallMoves(c, "failed") \/ CallMoves(c, "posting") \/ CallMoves(c, "waiting")
<1>1. missed' \in [Calls -> Nat] /\ stage = [stage EXCEPT ![c] = stage[c]]
  BY DEF RemoteInv, RemoteTypeOK
<1>2. attempt[c] + 1 \in Nat /\ (stage[c] = "waiting" => routed[c] >= 1)
  <2>1. attempt[c] + 1 \in Nat
    BY DEF RemoteInv, RemoteTypeOK
  <2>2. stage[c] = "waiting" => routed[c] >= 1
    BY DEF RemoteInv, Counted
  <2> QED BY <2>1, <2>2
<1>3. CASE stage' = [stage EXCEPT ![c] = "failed"] /\ NoFetch
  BY <1>1, <1>3 DEF CallMoves
<1>4. CASE UNCHANGED stage /\ attempt[c] < Attempts[c] /\ Fetch(c, attempt[c] + 1)
  BY <1>1, <1>2, <1>4 DEF CallMoves
<1> QED BY <1>3, <1>4 DEF RetryOrFail

LEMMA SendTaskInv ==
  ASSUME RemoteInv, NEW c \in Calls, SendTask(c)
  PROVE  RemoteInv'
<1>1. stage[c] = "new" /\ Attempts[c] \in Nat \ {0} /\ attempt[c] \in Nat
  BY RemoteConstants DEF SendTask, RemoteInv, RemoteTypeOK
<1>2. attempt[c] = 0
  BY <1>1 DEF RemoteInv, Counted
<1>3. CallMoves(c, "posting")
  BY <1>1, <1>2 DEF SendTask, CallMoves, RemoteInv, RemoteTypeOK
<1>4. CallsOK'
  BY <1>3, CallMovesOK
<1>5. ResponsesAccounted'
  BY <1>1, SameAccount DEF SendTask, RemoteInv, RemoteTypeOK
<1> QED BY <1>4, <1>5 DEF RemoteInv, CallsOK

LEMMA AttemptFailsInv ==
  ASSUME RemoteInv, NEW c \in Calls, AttemptFails(c)
  PROVE  RemoteInv'
<1>1. /\ stage[c] \in {"posting", "waiting"} /\ RetryOrFail(c, TRUE)
      /\ UNCHANGED <<answers, mailbox, waiters, routed, responses, missed>>
  BY DEF AttemptFails
<1>2. CallsOK'
  BY <1>1, RetryMoves, CallMovesOK
<1>3. \A d \in Calls : stage'[d] = "answered" <=> stage[d] = "answered"
  BY <1>1 DEF RetryOrFail, RemoteInv, RemoteTypeOK
<1>4. ResponsesAccounted'
  BY <1>1, <1>3, SameAccount
<1> QED BY <1>2, <1>4 DEF RemoteInv, CallsOK

LEMMA ExpireInv ==
  ASSUME RemoteInv, NEW c \in Calls, Expire(c)
  PROVE  RemoteInv'
<1>1. UNCHANGED <<stage, attempt, request, upstream, answers, mailbox, waiters, routed, responses,
                  missed>>
  BY DEF Expire
<1>2. RemoteTypeOK' /\ Counted' /\ NoPollYet'
  BY <1>1 DEF RemoteInv, RemoteTypeOK, Counted, NoPollYet
<1>3. Apart(upstream, waiters, answers)' /\ Numbered(upstream, waiters, answers)'
  BY <1>1 DEF RemoteInv, Numbered
<1>4. ResponsesAccounted'
  BY <1>1 DEF RemoteInv, ResponsesAccounted
<1> QED BY <1>2, <1>3, <1>4 DEF RemoteInv

LEMMA PollInv ==
  ASSUME RemoteInv, NEW c \in Calls, Poll(c)
  PROVE  RemoteInv'
<1>1. stage[c] = "polling" /\ routed[c] >= 1
  BY DEF Poll, RemoteInv, Counted
<1>2. CallMoves(c, "waiting")
  BY <1>1 DEF Poll, CallMoves, RemoteInv, RemoteTypeOK
<1>3. CallsOK'
  BY <1>2, CallMovesOK
<1>4. \A d \in Calls : stage'[d] = "answered" <=> stage[d] = "answered"
  BY <1>1 DEF Poll, RemoteInv, RemoteTypeOK
<1>5. ResponsesAccounted'
  BY <1>4, SameAccount DEF Poll
<1> QED BY <1>3, <1>5 DEF RemoteInv, CallsOK

LEMMA TimeOutInv ==
  ASSUME RemoteInv, NEW c \in Calls, TimeOut(c)
  PROVE  RemoteInv'
<1>1. stage[c] = "polling" /\ routed[c] >= 1
  BY DEF TimeOut, RemoteInv, Counted
<1>2. CallMoves(c, "timed out")
  BY <1>1 DEF TimeOut, CallMoves, NoFetch, RemoteInv, RemoteTypeOK
<1>3. CallsOK'
  BY <1>2, CallMovesOK
<1>4. \A d \in Calls : stage'[d] = "answered" <=> stage[d] = "answered"
  BY <1>1 DEF TimeOut, RemoteInv, RemoteTypeOK
<1>5. ResponsesAccounted'
  BY <1>4, SameAccount DEF TimeOut
<1> QED BY <1>3, <1>5 DEF RemoteInv, CallsOK

LEMMA PostAnsweredInv ==
  ASSUME RemoteInv, NEW a \in answers, PostAnswered(a)
  PROVE  RemoteInv'
<1> DEFINE c == a.call
<1>1. /\ stage[c] = "posting" /\ answers' = answers \ {a}
      /\ UNCHANGED <<mailbox, waiters, routed, responses, missed>>
  BY DEF PostAnswered
<1>2. c \in Calls /\ a.body \in Statuses
  BY <1>1 DEF RemoteInv, RemoteTypeOK, Answers, NoPollYet
<1>3. CallsOK' /\ \A d \in Calls : stage'[d] = "answered" <=> stage[d] = "answered"
  <2>1. CASE a.body = "ok"
    <3>1. stage' = [stage EXCEPT ![c] = "polling"] /\ NoFetch
      BY <2>1 DEF PostAnswered
    <3>2. routed[c] >= 1 /\ missed \in [Calls -> Nat]
      BY <2>1 DEF RemoteInv, RemoteTypeOK, Counted
    <3>3. CallMoves(c, "polling")
      BY <1>1, <3>1, <3>2 DEF CallMoves
    <3>4. \A d \in Calls : stage'[d] = "answered" <=> stage[d] = "answered"
      BY <1>1, <3>1 DEF RemoteInv, RemoteTypeOK
    <3> QED BY <1>2, <3>3, <3>4, CallMovesOK
  <2>2. CASE a.body # "ok"
    <3>1. RetryOrFail(c, a.body = "5xx" /\ c \in RetriesHttp)
      BY <2>2 DEF PostAnswered
    <3>2. CallMoves(c, "failed") \/ CallMoves(c, "posting") \/ CallMoves(c, "waiting")
      BY <1>1, <1>2, <3>1, RetryMoves
    <3>3. \A d \in Calls : stage'[d] = "answered" <=> stage[d] = "answered"
      BY <1>1, <3>1 DEF RetryOrFail, RemoteInv, RemoteTypeOK
    <3> QED BY <1>2, <3>2, <3>3, CallMovesOK
  <2> QED BY <2>1, <2>2
<1>4. \A d \in Calls : Holding(answers', d) = Holding(answers, d)
  <2>1. \A d \in Calls : a.body # d
    BY <1>2, RemoteConstants DEF Statuses
  <2> QED BY <1>1, <2>1, HoldingTake DEF RemoteInv, RemoteTypeOK
<1>5. ResponsesAccounted'
  BY <1>1, <1>3, <1>4, SameAccount
<1> QED BY <1>3, <1>5 DEF RemoteInv, CallsOK

LEMMA PollAnsweredInv ==
  ASSUME RemoteInv, NEW a \in answers, PollAnswered(a)
  PROVE  RemoteInv'
<1> DEFINE c == a.call
           s == IF a.body = c THEN "answered" ELSE "polling"
<1>1. /\ stage[c] = "waiting" /\ answers' = answers \ {a} /\ NoFetch
      /\ stage' = [stage EXCEPT ![c] = s]
      /\ missed' = IF a.body \in {c, NoMessage} THEN missed
                   ELSE [missed EXCEPT ![a.body] = @ + 1]
      /\ UNCHANGED <<mailbox, waiters, routed, responses>>
  BY DEF PollAnswered
<1>2. /\ c \in Calls /\ a.body \in Calls \cup {NoMessage} \cup Statuses
      /\ missed \in [Calls -> Nat] /\ responses \in [Calls -> Nat] /\ routed[c] >= 1
      /\ IsFiniteSet(answers)
      /\ stage \in [Calls -> {"new", "posting", "polling", "waiting"} \cup Over]
  BY <1>1 DEF RemoteInv, RemoteTypeOK, Answers, Counted
<1>3. CallMoves(c, s)
  <2>1. ASSUME NEW x PROVE [missed EXCEPT ![x] = @ + 1] \in [Calls -> Nat]
    <3>1. CASE x \in Calls
      BY <1>2, <3>1
    <3>2. CASE x \notin Calls
      BY <1>2, <3>2
    <3> QED BY <3>1, <3>2
  <2>2. missed' \in [Calls -> Nat]
    BY <1>1, <1>2, <2>1
  <2> QED BY <1>1, <1>2, <2>2 DEF CallMoves
<1>4. CallsOK'
  BY <1>2, <1>3, CallMovesOK
<1>5. ASSUME NEW d \in Calls
      PROVE  responses[d] = Cardinality(Places(mailbox, d)) + Cardinality(Holding(answers', d))
               + missed'[d] + (IF stage'[d] = "answered" THEN 1 ELSE 0)
  <2>1. responses[d] = Cardinality(Places(mailbox, d)) + Cardinality(Holding(answers, d))
               + missed[d] + (IF stage[d] = "answered" THEN 1 ELSE 0)
    BY DEF RemoteInv, ResponsesAccounted, Places, Holding
  <2>2. /\ Cardinality(Places(mailbox, d)) \in Nat /\ Cardinality(Holding(answers, d)) \in Nat
        /\ missed[d] \in Nat
    BY <1>2, PlacesFinite, HoldingFinite DEF RemoteInv, RemoteTypeOK
  <2>3. /\ a.body = d => Cardinality(Holding(answers', d)) = Cardinality(Holding(answers, d)) - 1
        /\ a.body # d => Holding(answers', d) = Holding(answers, d)
    BY <1>1, <1>2, HoldingTake
  <2>4. CASE a.body # d
    <3>1. missed'[d] = missed[d]
      BY <1>1, <1>2, <2>4
    <3>2. stage'[d] = "answered" <=> stage[d] = "answered"
      BY <1>1, <1>2, <2>4
    <3> QED BY <2>1, <2>3, <2>4, <3>1, <3>2
  <2>5. CASE a.body = d /\ d = c
    <3>1. missed'[d] = missed[d] /\ stage'[d] = "answered" /\ stage[d] # "answered"
      BY <1>1, <1>2, <2>5
    <3> QED BY <2>1, <2>2, <2>3, <2>5, <3>1
  <2>6. CASE a.body = d /\ d # c
    <3>1. missed'[d] = missed[d] + 1 /\ stage'[d] = stage[d]
      BY <1>1, <1>2, <2>6, RemoteConstants
    <3>2. Cardinality(Holding(answers', d)) = Cardinality(Holding(answers, d)) - 1
      BY <2>3, <2>6
    <3>3. CASE stage[d] = "answered"
      BY <2>1, <2>2, <3>1, <3>2, <3>3
    <3>4. CASE stage[d] # "answered"
      BY <2>1, <2>2, <3>1, <3>2, <3>4
    <3> QED BY <3>3, <3>4
  <2> QED BY <2>4, <2>5, <2>6
<1>6. ResponsesAccounted'
  BY <1>1, <1>5 DEF ResponsesAccounted, Places, Holding
<1> QED BY <1>4, <1>6 DEF RemoteInv, CallsOK

-------------------------------------------------------------------------------
(* Steps of the server.                                                     *)

\* An answer that is new is counted once.
LEMMA NewAnswer ==
  ASSUME RemoteInv, NEW r \in Requests, NEW b \in Calls \cup {NoMessage} \cup Statuses,
         answers' = Answered(r, b), [call |-> r.call, n |-> r.n, body |-> b] \notin answers
  PROVE  /\ answers' \in SUBSET Answers /\ IsFiniteSet(answers')
         /\ \A d : /\ b = d => Cardinality(Holding(answers', d)) = Cardinality(Holding(answers, d)) + 1
                   /\ b # d => Holding(answers', d) = Holding(answers, d)
<1> DEFINE new == [call |-> r.call, n |-> r.n, body |-> b]
<1>1. answers \in SUBSET Answers /\ IsFiniteSet(answers)
  BY DEF RemoteInv, RemoteTypeOK
<1>2. answers' = answers \cup {new} /\ new \notin answers
  BY DEF Answered
<1>3. new \in Answers /\ new.body = b
  BY DEF Requests, Answers
<1> HIDE DEF new
<1>4. IsFiniteSet(answers')
  BY <1>1, <1>2, FS_AddElement
<1>5. ASSUME NEW d
      PROVE  /\ b = d => Cardinality(Holding(answers', d)) = Cardinality(Holding(answers, d)) + 1
             /\ b # d => Holding(answers', d) = Holding(answers, d)
  BY <1>1, <1>2, <1>3, HoldingAdd
<1> QED BY <1>1, <1>2, <1>3, <1>4, <1>5

\* A request that is taken from the network: what follows for the requests.
LEMMA TakeOK ==
  ASSUME RemoteInv, NEW r \in upstream, upstream' = upstream \ {r}
  PROVE  /\ r \in Requests /\ upstream' \in SUBSET Requests /\ IsFiniteSet(upstream')
         /\ \A d \in Calls :
              /\ Cardinality(Posts(upstream', d)) <= Cardinality(Posts(upstream, d))
              /\ Cardinality(Posts(upstream', d)) \in Nat /\ Cardinality(Posts(upstream, d)) \in Nat
              /\ r.call = d /\ ~r.poll =>
                   Cardinality(Posts(upstream', d)) = Cardinality(Posts(upstream, d)) - 1
<1>1. upstream \in SUBSET Requests /\ IsFiniteSet(upstream)
  BY DEF RemoteInv, RemoteTypeOK
<1>2. IsFiniteSet(upstream')
  BY <1>1, FS_RemoveElement
<1>3. ASSUME NEW d \in Calls
      PROVE  /\ Cardinality(Posts(upstream', d)) <= Cardinality(Posts(upstream, d))
             /\ Cardinality(Posts(upstream', d)) \in Nat /\ Cardinality(Posts(upstream, d)) \in Nat
             /\ r.call = d /\ ~r.poll =>
                  Cardinality(Posts(upstream', d)) = Cardinality(Posts(upstream, d)) - 1
  BY <1>1, <1>2, PostsTake, PostsFinite
<1> QED BY <1>1, <1>2, <1>3

\* A request that is answered is nowhere else.
LEMMA AnswerOK ==
  ASSUME RemoteInv, NEW r \in upstream, NEW b \in Calls \cup {NoMessage} \cup Statuses,
         upstream' = upstream \ {r}, answers' = Answered(r, b), UNCHANGED <<waiters, request>>
  PROVE  /\ Apart(upstream, waiters, answers)' /\ Numbered(upstream, waiters, answers)'
         /\ answers' \in SUBSET Answers /\ IsFiniteSet(answers')
         /\ \A d : /\ b = d => Cardinality(Holding(answers', d)) = Cardinality(Holding(answers, d)) + 1
                   /\ b # d => Holding(answers', d) = Holding(answers, d)
<1> DEFINE new == [call |-> r.call, n |-> r.n, body |-> b]
<1>1. r \in Requests /\ Apart(upstream, waiters, answers) /\ Numbered(upstream, waiters, answers)
  BY DEF RemoteInv, RemoteTypeOK
<1>2. new \notin answers
  BY <1>1 DEF Apart
<1>3. Apart(upstream \ {r}, waiters, answers \cup {new})
  BY <1>1, ApartAnswer
<1>4. \A q \in upstream' : q.n <= request'[q.call]
  BY <1>1 DEF Numbered
<1>5. \A i \in DOMAIN waiters' : waiters'[i].n <= request'[waiters'[i].call]
  BY <1>1 DEF Numbered
<1>6. \A a \in answers' : a.n <= request'[a.call]
  <2>1. new.n <= request'[new.call]
    BY <1>1 DEF Numbered
  <2>2. answers' = answers \cup {new}
    BY DEF Answered
  <2> HIDE DEF new
  <2> QED BY <1>1, <2>1, <2>2 DEF Numbered
<1>7. Apart(upstream', waiters', answers')
  BY <1>3 DEF Answered
<1> QED BY <1>1, <1>2, <1>4, <1>5, <1>6, <1>7, NewAnswer DEF Numbered

\* What the server keeps when it routes nothing.
LEMMA NotRoutedOK ==
  ASSUME RemoteInv, UNCHANGED <<stage, attempt, routed>>,
         \A d \in Calls : /\ Cardinality(Posts(upstream', d)) <= Cardinality(Posts(upstream, d))
                          /\ Cardinality(Posts(upstream', d)) \in Nat
                          /\ Cardinality(Posts(upstream, d)) \in Nat,
         \A a \in answers' : a \in answers \/ a.body # "ok"
  PROVE  Counted'
<1>1. ASSUME NEW d \in Calls
      PROVE  /\ routed[d] + Cardinality(Posts(upstream', d)) <= Attempts[d]
             /\ stage[d] \in {"new", "posting"} =>
                  routed[d] + Cardinality(Posts(upstream', d)) <= attempt[d]
  <2>1. /\ routed[d] + Cardinality(Posts(upstream, d)) <= Attempts[d]
        /\ stage[d] \in {"new", "posting"} =>
             routed[d] + Cardinality(Posts(upstream, d)) <= attempt[d]
    BY DEF RemoteInv, Counted
  <2>2. routed[d] \in Nat /\ attempt[d] \in Nat /\ Attempts[d] \in Nat
    BY RemoteConstants DEF RemoteInv, RemoteTypeOK
  <2> QED BY <2>1, <2>2
<1>2. \A a \in answers' : a.body = "ok" => routed[a.call] >= 1
  BY DEF RemoteInv, Counted
<1> QED BY <1>1, <1>2 DEF RemoteInv, Counted

\* An answer for a call that has begun to poll, or one that no poll gets.
LEMMA AnswerNoPollYet ==
  ASSUME RemoteInv, NEW r, NEW b, answers' = Answered(r, b),
         b \in Statuses \/ r.call \notin Calls \/ stage[r.call] \notin {"new", "posting"},
         upstream' \subseteq upstream, UNCHANGED stage,
         \A i \in DOMAIN waiters' : \E j \in DOMAIN waiters : waiters'[i] = waiters[j]
  PROVE  NoPollYet'
<1>1. ASSUME NEW d \in Calls, stage[d] \in {"new", "posting"}
      PROVE  /\ \A q \in upstream' : q.call = d => ~q.poll
             /\ \A i \in DOMAIN waiters' : waiters'[i].call # d
             /\ \A a \in answers' : a.call = d => a.body \in Statuses
  <2>1. /\ \A q \in upstream : q.call = d => ~q.poll
        /\ \A i \in DOMAIN waiters : waiters[i].call # d
        /\ \A a \in answers : a.call = d => a.body \in Statuses
    BY <1>1 DEF RemoteInv, NoPollYet
  <2>2. \A a \in answers' : a.call = d => a.body \in Statuses
    <3>1. answers' = answers \cup {[call |-> r.call, n |-> r.n, body |-> b]}
      BY DEF Answered
    <3>2. r.call = d => b \in Statuses
      BY <1>1
    <3> QED BY <2>1, <3>1, <3>2
  <2>3. \A q \in upstream' : q.call = d => ~q.poll
    BY <2>1
  <2> QED BY <2>1, <2>2, <2>3
<1> QED BY <1>1 DEF NoPollYet

LEMMA RouteTaskInv ==
  ASSUME RemoteInv, NEW r \in upstream, RouteTask(r)
  PROVE  RemoteInv'
<1> DEFINE c == r.call
<1>1. /\ upstream' = upstream \ {r} /\ routed' = [routed EXCEPT ![c] = @ + 1]
      /\ answers' = Answered(r, "ok") /\ ~r.poll
      /\ UNCHANGED <<stage, attempt, request, mailbox, waiters, responses, missed>>
  BY DEF RouteTask
<1>2. /\ r \in Requests /\ upstream' \in SUBSET Requests /\ IsFiniteSet(upstream')
      /\ \A d \in Calls :
              /\ Cardinality(Posts(upstream', d)) <= Cardinality(Posts(upstream, d))
              /\ Cardinality(Posts(upstream', d)) \in Nat /\ Cardinality(Posts(upstream, d)) \in Nat
              /\ r.call = d /\ ~r.poll =>
                   Cardinality(Posts(upstream', d)) = Cardinality(Posts(upstream, d)) - 1
  BY <1>1, TakeOK
<1>3. c \in Calls
  BY <1>2 DEF Requests
<1>4. /\ Apart(upstream, waiters, answers)' /\ Numbered(upstream, waiters, answers)'
      /\ answers' \in SUBSET Answers /\ IsFiniteSet(answers')
      /\ \A d : "ok" # d => Holding(answers', d) = Holding(answers, d)
  BY <1>1, AnswerOK DEF Statuses
<1>5. /\ routed \in [Calls -> Nat] /\ attempt \in [Calls -> Nat] /\ Attempts \in [Calls -> Nat \ {0}]
      /\ Counted
  BY RemoteConstants DEF RemoteInv, RemoteTypeOK
<1>6. routed'[c] = routed[c] + 1 /\ \A d \in Calls : d # c => routed'[d] = routed[d]
  BY <1>1, <1>3, <1>5
<1>7. RemoteTypeOK'
  <2>1. routed' \in [Calls -> Nat]
    BY <1>1, <1>3, <1>5
  <2> QED BY <1>1, <1>2, <1>4, <2>1 DEF RemoteInv, RemoteTypeOK
<1>8. Counted'
  <2>1. ASSUME NEW d \in Calls
        PROVE  /\ routed'[d] + Cardinality(Posts(upstream', d)) <= Attempts[d]
               /\ stage[d] \in {"new", "posting"} =>
                    routed'[d] + Cardinality(Posts(upstream', d)) <= attempt[d]
               /\ routed'[d] >= routed[d]
    <3>1. /\ routed[d] + Cardinality(Posts(upstream, d)) <= Attempts[d]
          /\ stage[d] \in {"new", "posting"} =>
               routed[d] + Cardinality(Posts(upstream, d)) <= attempt[d]
      BY <1>5 DEF Counted
    <3>2. routed[d] \in Nat /\ attempt[d] \in Nat /\ Attempts[d] \in Nat
      BY <1>5
    <3>3. /\ Cardinality(Posts(upstream', d)) \in Nat /\ Cardinality(Posts(upstream, d)) \in Nat
          /\ Cardinality(Posts(upstream', d)) <= Cardinality(Posts(upstream, d))
      BY <1>2
    <3>4. CASE d = c
      <4>1. Cardinality(Posts(upstream', d)) = Cardinality(Posts(upstream, d)) - 1
        BY <1>1, <1>2, <3>4
      <4>2. routed'[d] = routed[d] + 1
        BY <1>6, <3>4
      <4> QED BY <3>1, <3>2, <3>3, <4>1, <4>2
    <3>5. CASE d # c
      <4>1. routed'[d] = routed[d]
        BY <1>6, <3>5
      <4> QED BY <3>1, <3>2, <3>3, <4>1
    <3> QED BY <3>4, <3>5
  <2>2. \A a \in answers' : a.body = "ok" => routed'[a.call] >= 1
    <3>1. ASSUME NEW a \in answers, a.body = "ok" PROVE routed'[a.call] >= 1
      <4>1. a.call \in Calls /\ routed[a.call] >= 1
        BY <1>5, <3>1 DEF RemoteInv, RemoteTypeOK, Answers, Counted
      <4>2. routed'[a.call] >= routed[a.call] /\ routed[a.call] \in Nat /\ routed'[a.call] \in Nat
        BY <1>5, <1>7, <2>1, <4>1 DEF RemoteTypeOK
      <4> QED BY <4>1, <4>2
    <3>2. routed'[c] >= 1
      BY <1>3, <1>5, <1>6
    <3>3. answers' = answers \cup {[call |-> c, n |-> r.n, body |-> "ok"]}
      BY <1>1 DEF Answered
    <3> QED BY <3>1, <3>2, <3>3
  <2>3. ASSUME NEW d \in Calls, stage[d] \in {"polling", "waiting", "answered", "timed out"}
        PROVE  routed'[d] >= 1
    <3>1. routed[d] >= 1 /\ routed'[d] >= routed[d]
      BY <1>5, <2>1, <2>3 DEF Counted
    <3>2. routed[d] \in Nat /\ routed'[d] \in Nat
      BY <1>5, <1>7 DEF RemoteTypeOK
    <3> QED BY <3>1, <3>2
  <2>4. \A d \in Calls : /\ stage[d] \in {"new", "posting"} => attempt[d] <= Attempts[d]
                         /\ stage[d] = "new" => attempt[d] = 0
    BY <1>5 DEF Counted
  <2> QED BY <1>1, <2>1, <2>2, <2>3, <2>4 DEF Counted
<1>9. NoPollYet'
  BY <1>1, AnswerNoPollYet DEF Statuses
<1>10. ResponsesAccounted'
  <2>1. \A d \in Calls : d # "ok"
    BY RemoteConstants
  <2> QED BY <1>1, <1>4, <2>1, SameAccount
<1> QED BY <1>4, <1>7, <1>8, <1>9, <1>10 DEF RemoteInv

LEMMA RefuseTaskInv ==
  ASSUME RemoteInv, NEW r \in upstream, NEW status \in {"404", "5xx"}, RefuseTask(r, status)
  PROVE  RemoteInv'
<1>1. /\ upstream' = upstream \ {r} /\ answers' = Answered(r, status)
      /\ UNCHANGED <<stage, attempt, request, mailbox, waiters, routed, responses, missed>>
  BY DEF RefuseTask
<1>2. /\ r \in Requests /\ upstream' \in SUBSET Requests /\ IsFiniteSet(upstream')
      /\ \A d \in Calls :
              /\ Cardinality(Posts(upstream', d)) <= Cardinality(Posts(upstream, d))
              /\ Cardinality(Posts(upstream', d)) \in Nat /\ Cardinality(Posts(upstream, d)) \in Nat
  BY <1>1, TakeOK
<1>3. /\ Apart(upstream, waiters, answers)' /\ Numbered(upstream, waiters, answers)'
      /\ answers' \in SUBSET Answers /\ IsFiniteSet(answers')
      /\ \A d : status # d => Holding(answers', d) = Holding(answers, d)
  BY <1>1, AnswerOK DEF Statuses
<1>4. RemoteTypeOK'
  BY <1>1, <1>2, <1>3 DEF RemoteInv, RemoteTypeOK
<1>5. Counted'
  <2>1. \A a \in answers' : a \in answers \/ a.body # "ok"
    BY <1>1 DEF Answered
  <2> QED BY <1>1, <1>2, <2>1, NotRoutedOK
<1>6. NoPollYet'
  BY <1>1, AnswerNoPollYet DEF Statuses
<1>7. ResponsesAccounted'
  <2>1. \A d \in Calls : d # status
    BY RemoteConstants
  <2> QED BY <1>1, <1>3, <2>1, SameAccount
<1> QED BY <1>3, <1>4, <1>5, <1>6, <1>7 DEF RemoteInv

\* A request that waits is answered.
LEMMA ServeOK ==
  ASSUME RemoteInv, NEW i \in 1..Len(waiters), NEW b \in Calls \cup {NoMessage},
         waiters' = RemoveAt(waiters, i), answers' = Answered(waiters[i], b),
         UNCHANGED <<upstream, request, stage>>
  PROVE  /\ Apart(upstream, waiters, answers)' /\ Numbered(upstream, waiters, answers)'
         /\ waiters' \in Seq(Requests) /\ answers' \in SUBSET Answers /\ IsFiniteSet(answers')
         /\ NoPollYet'
         /\ \A d : /\ b = d => Cardinality(Holding(answers', d)) = Cardinality(Holding(answers, d)) + 1
                   /\ b # d => Holding(answers', d) = Holding(answers, d)
<1> DEFINE r == waiters[i]
           new == [call |-> r.call, n |-> r.n, body |-> b]
<1>1. /\ Apart(upstream, waiters, answers) /\ Numbered(upstream, waiters, answers)
      /\ waiters \in Seq(Requests) /\ NoPollYet
  BY DEF RemoteInv, RemoteTypeOK
<1>2. r \in Requests /\ i \in DOMAIN waiters
  BY <1>1
<1>3. new \notin answers
  BY <1>1, <1>2 DEF Apart
<1>4. Apart(upstream, RemoveAt(waiters, i), answers \cup {new})
  BY <1>1, ApartServe
<1>5. answers' = answers \cup {new}
  BY DEF Answered
<1>6. /\ waiters' \in Seq(Requests) /\ Len(waiters') = Len(waiters) - 1
      /\ \A k \in 1..(Len(waiters) - 1) :
           waiters'[k] = IF k < i THEN waiters[k] ELSE waiters[k + 1]
  BY <1>1, Removed
<1>7. \A k \in DOMAIN waiters' : \E j \in DOMAIN waiters : waiters'[k] = waiters[j]
  <2>1. ASSUME NEW k \in DOMAIN waiters' PROVE \E j \in DOMAIN waiters : waiters'[k] = waiters[j]
    <3>1. k \in 1..(Len(waiters) - 1) /\ k \in DOMAIN waiters /\ k + 1 \in DOMAIN waiters
      BY <1>1, <1>6
    <3> QED BY <1>6, <3>1
  <2> QED BY <2>1
<1>8. Numbered(upstream, waiters, answers)'
  <2>1. \A k \in DOMAIN waiters' : waiters'[k].n <= request[waiters'[k].call]
    BY <1>1, <1>7 DEF Numbered
  <2>2. new.n <= request[new.call]
    BY <1>1, <1>2 DEF Numbered
  <2> HIDE DEF new
  <2>3. \A a \in answers' : a.n <= request[a.call]
    BY <1>1, <1>5, <2>2 DEF Numbered
  <2> QED BY <1>1, <2>1, <2>3 DEF Numbered
<1>9. NoPollYet'
  <2>1. r.call \notin Calls \/ stage[r.call] \notin {"new", "posting"}
    BY <1>1, <1>2 DEF NoPollYet
  <2> QED BY <1>7, <2>1, AnswerNoPollYet
<1> QED BY ZenonT(30), <1>2, <1>3, <1>4, <1>5, <1>6, <1>8, <1>9, NewAnswer

LEMMA WaitEndsInv ==
  ASSUME RemoteInv, NEW i \in DOMAIN waiters, WaitEnds(i)
  PROVE  RemoteInv'
<1>1. /\ answers' = Answered(waiters[i], NoMessage) /\ waiters' = RemoveAt(waiters, i)
      /\ UNCHANGED <<stage, attempt, request, upstream, mailbox, routed, responses, missed>>
  BY DEF WaitEnds
<1>2. i \in 1..Len(waiters)
  BY DEF RemoteInv, RemoteTypeOK
<1>3. /\ Apart(upstream, waiters, answers)' /\ Numbered(upstream, waiters, answers)'
      /\ waiters' \in Seq(Requests) /\ answers' \in SUBSET Answers /\ IsFiniteSet(answers')
      /\ NoPollYet' /\ \A d : NoMessage # d => Holding(answers', d) = Holding(answers, d)
  BY <1>1, <1>2, ServeOK
<1>4. RemoteTypeOK'
  BY <1>1, <1>3 DEF RemoteInv, RemoteTypeOK
<1>5. Counted'
  <2>1. \A a \in answers' : a \in answers \/ a.body # "ok"
    BY <1>1, RemoteConstants DEF Answered
  <2>2. \A d \in Calls : Cardinality(Posts(upstream, d)) \in Nat
    BY PostsFinite DEF RemoteInv, RemoteTypeOK
  <2> QED BY <1>1, <2>1, <2>2, NotRoutedOK
<1>6. ResponsesAccounted'
  <2>1. \A d \in Calls : d # NoMessage
    BY RemoteConstants
  <2> QED BY <1>1, <1>3, <2>1, SameAccount
<1> QED BY <1>3, <1>4, <1>5, <1>6 DEF RemoteInv

\* A response that comes to the mailbox, or goes from it, or passes it.
LEMMA Account ==
  ASSUME RemoteInv, UNCHANGED <<stage, missed>>,
         \A d \in Calls :
           responses'[d] - responses[d] =
             (Cardinality(Places(mailbox', d)) - Cardinality(Places(mailbox, d)))
               + (Cardinality(Holding(answers', d)) - Cardinality(Holding(answers, d))),
         \A d \in Calls : /\ Cardinality(Places(mailbox', d)) \in Nat /\ responses'[d] \in Nat
                          /\ Cardinality(Holding(answers', d)) \in Nat
  PROVE  ResponsesAccounted'
<1>1. ASSUME NEW d \in Calls
      PROVE  responses'[d] = Cardinality(Places(mailbox', d)) + Cardinality(Holding(answers', d))
               + missed[d] + (IF stage[d] = "answered" THEN 1 ELSE 0)
  <2>1. responses[d] = Cardinality(Places(mailbox, d)) + Cardinality(Holding(answers, d))
               + missed[d] + (IF stage[d] = "answered" THEN 1 ELSE 0)
    BY DEF RemoteInv, ResponsesAccounted, Places, Holding
  <2>2. /\ Cardinality(Places(mailbox, d)) \in Nat /\ Cardinality(Holding(answers, d)) \in Nat
        /\ missed[d] \in Nat /\ responses[d] \in Nat
    BY PlacesFinite, HoldingFinite DEF RemoteInv, RemoteTypeOK
  <2>3. /\ Cardinality(Places(mailbox', d)) \in Nat /\ Cardinality(Holding(answers', d)) \in Nat
        /\ responses'[d] \in Nat
        /\ responses'[d] - responses[d] =
             (Cardinality(Places(mailbox', d)) - Cardinality(Places(mailbox, d)))
               + (Cardinality(Holding(answers', d)) - Cardinality(Holding(answers, d)))
    OBVIOUS
  <2> QED BY <2>1, <2>2, <2>3
<1> QED BY <1>1 DEF ResponsesAccounted, Places, Holding

LEMMA RespondInv ==
  ASSUME RemoteInv, NEW c \in Calls, Respond(c)
  PROVE  RemoteInv'
<1>1. /\ responses' = [responses EXCEPT ![c] = @ + 1]
      /\ UNCHANGED <<stage, attempt, request, upstream, routed, missed>>
  BY DEF Respond
<1>2. /\ responses \in [Calls -> Nat] /\ waiters \in Seq(Requests) /\ mailbox \in Seq(Calls)
      /\ answers \in SUBSET Answers /\ IsFiniteSet(answers)
  BY DEF RemoteInv, RemoteTypeOK
<1>3. responses'[c] = responses[c] + 1 /\ \A d \in Calls : d # c => responses'[d] = responses[d]
  BY <1>1, <1>2
<1>4. responses' \in [Calls -> Nat]
  BY <1>1, <1>2
<1>5. \A d \in Calls : /\ Cardinality(Places(mailbox, d)) \in Nat
                       /\ Cardinality(Holding(answers, d)) \in Nat
                       /\ Cardinality(Posts(upstream, d)) \in Nat
  BY <1>2, PlacesFinite, HoldingFinite, PostsFinite DEF RemoteInv, RemoteTypeOK
<1>6. CASE waiters # <<>>
  <2>1. /\ answers' = Answered(waiters[1], c) /\ waiters' = RemoveAt(waiters, 1)
        /\ UNCHANGED mailbox /\ 1 \in 1..Len(waiters)
    BY <1>2, <1>6, HeadRemoved DEF Respond
  <2>2. /\ Apart(upstream, waiters, answers)' /\ Numbered(upstream, waiters, answers)'
        /\ waiters' \in Seq(Requests) /\ answers' \in SUBSET Answers /\ IsFiniteSet(answers')
        /\ NoPollYet'
        /\ \A d : /\ c = d => Cardinality(Holding(answers', d)) = Cardinality(Holding(answers, d)) + 1
                  /\ c # d => Holding(answers', d) = Holding(answers, d)
    BY <1>1, <2>1, ServeOK
  <2>3. RemoteTypeOK'
    BY <1>1, <1>4, <2>1, <2>2 DEF RemoteInv, RemoteTypeOK
  <2>4. Counted'
    <3>1. \A a \in answers' : a \in answers \/ a.body # "ok"
      BY <2>1, RemoteConstants DEF Answered
    <3> QED BY <1>1, <1>5, <3>1, NotRoutedOK
  <2>5. ASSUME NEW d \in Calls
        PROVE  /\ responses'[d] - responses[d] =
                    (Cardinality(Places(mailbox', d)) - Cardinality(Places(mailbox, d)))
                      + (Cardinality(Holding(answers', d)) - Cardinality(Holding(answers, d)))
               /\ Cardinality(Places(mailbox', d)) \in Nat /\ responses'[d] \in Nat
               /\ Cardinality(Holding(answers', d)) \in Nat
    <3>1. /\ Cardinality(Places(mailbox, d)) \in Nat /\ Cardinality(Holding(answers, d)) \in Nat
          /\ responses[d] \in Nat
      BY <1>2, <1>5
    <3>2. CASE d = c
      BY <1>3, <2>1, <2>2, <3>1, <3>2
    <3>3. CASE d # c
      BY <1>3, <2>1, <2>2, <3>1, <3>3
    <3> QED BY <3>2, <3>3
  <2>6. ResponsesAccounted'
    BY <1>1, <2>5, Account
  <2> QED BY <2>2, <2>3, <2>4, <2>6 DEF RemoteInv
<1>7. CASE waiters = <<>>
  <2>1. mailbox' = Append(mailbox, c) /\ UNCHANGED <<answers, waiters>>
    BY <1>7 DEF Respond
  <2>2. RemoteTypeOK'
    BY <1>1, <1>2, <1>4, <2>1 DEF RemoteInv, RemoteTypeOK
  <2>3. Counted' /\ NoPollYet'
    BY <1>1, <2>1 DEF RemoteInv, Counted, NoPollYet
  <2>4. Apart(upstream, waiters, answers)' /\ Numbered(upstream, waiters, answers)'
    BY <1>1, <2>1 DEF RemoteInv, Numbered
  <2>5. ASSUME NEW d \in Calls
        PROVE  /\ responses'[d] - responses[d] =
                    (Cardinality(Places(mailbox', d)) - Cardinality(Places(mailbox, d)))
                      + (Cardinality(Holding(answers', d)) - Cardinality(Holding(answers, d)))
               /\ Cardinality(Places(mailbox', d)) \in Nat /\ responses'[d] \in Nat
               /\ Cardinality(Holding(answers', d)) \in Nat
    <3>1. /\ Cardinality(Places(mailbox, d)) \in Nat /\ Cardinality(Holding(answers, d)) \in Nat
          /\ responses[d] \in Nat
      BY <1>2, <1>5
    <3>2. Cardinality(Places(mailbox', d)) = Cardinality(Places(mailbox, d)) + (IF c = d THEN 1 ELSE 0)
      BY <1>2, <2>1, PlacesAppend
    <3>3. CASE d = c
      BY <1>3, <2>1, <3>1, <3>2, <3>3
    <3>4. CASE d # c
      BY <1>3, <2>1, <3>1, <3>2, <3>4
    <3> QED BY <3>3, <3>4
  <2>6. ResponsesAccounted'
    BY <1>1, <2>5, Account
  <2> QED BY <2>2, <2>3, <2>4, <2>6 DEF RemoteInv
<1> QED BY <1>6, <1>7

LEMMA ServePollInv ==
  ASSUME RemoteInv, NEW r \in upstream, ServePoll(r)
  PROVE  RemoteInv'
<1>1. /\ upstream' = upstream \ {r} /\ r.poll
      /\ UNCHANGED <<stage, attempt, request, routed, responses, missed>>
  BY DEF ServePoll
<1>2. /\ responses \in [Calls -> Nat] /\ waiters \in Seq(Requests) /\ mailbox \in Seq(Calls)
      /\ answers \in SUBSET Answers /\ IsFiniteSet(answers)
  BY DEF RemoteInv, RemoteTypeOK
<1>3. /\ r \in Requests /\ upstream' \in SUBSET Requests /\ IsFiniteSet(upstream')
      /\ \A d \in Calls :
              /\ Cardinality(Posts(upstream', d)) <= Cardinality(Posts(upstream, d))
              /\ Cardinality(Posts(upstream', d)) \in Nat /\ Cardinality(Posts(upstream, d)) \in Nat
  BY <1>1, TakeOK
<1>4. r.call \notin Calls \/ stage[r.call] \notin {"new", "posting"}
  BY <1>1, Zenon DEF RemoteInv, NoPollYet
<1>5. CASE mailbox # <<>>
  <2> DEFINE c == Head(mailbox)
  <2>1. /\ answers' = Answered(r, c) /\ mailbox' = Tail(mailbox) /\ UNCHANGED waiters
        /\ c \in Calls /\ mailbox' \in Seq(Calls)
    <3>1. answers' = Answered(r, c) /\ mailbox' = Tail(mailbox) /\ UNCHANGED waiters
      BY <1>5 DEF ServePoll
    <3>2. c \in Calls /\ Tail(mailbox) \in Seq(Calls)
      BY <1>2, <1>5
    <3> QED BY <3>1, <3>2
  <2> HIDE DEF c
  <2>2. /\ Apart(upstream, waiters, answers)' /\ Numbered(upstream, waiters, answers)'
        /\ answers' \in SUBSET Answers /\ IsFiniteSet(answers')
        /\ \A d : /\ c = d => Cardinality(Holding(answers', d)) = Cardinality(Holding(answers, d)) + 1
                  /\ c # d => Holding(answers', d) = Holding(answers, d)
    BY <1>1, <2>1, AnswerOK
  <2>3. RemoteTypeOK'
    BY <1>1, <1>3, <2>1, <2>2 DEF RemoteInv, RemoteTypeOK
  <2>4. Counted'
    <3>1. \A a \in answers' : a \in answers \/ a.body # "ok"
      BY <2>1, RemoteConstants DEF Answered
    <3> QED BY <1>1, <1>3, <3>1, NotRoutedOK
  <2>5. NoPollYet'
    BY <1>1, <1>4, <2>1, AnswerNoPollYet
  <2>6. ASSUME NEW d \in Calls
        PROVE  /\ responses'[d] - responses[d] =
                    (Cardinality(Places(mailbox', d)) - Cardinality(Places(mailbox, d)))
                      + (Cardinality(Holding(answers', d)) - Cardinality(Holding(answers, d)))
               /\ Cardinality(Places(mailbox', d)) \in Nat /\ responses'[d] \in Nat
               /\ Cardinality(Holding(answers', d)) \in Nat
    <3>1. /\ Cardinality(Places(mailbox, d)) \in Nat /\ Cardinality(Holding(answers, d)) \in Nat
          /\ Cardinality(Places(mailbox', d)) \in Nat /\ responses[d] \in Nat
      BY <1>2, <2>1, PlacesFinite, HoldingFinite
    <3>2. Cardinality(Places(mailbox, d)) = Cardinality(Places(mailbox', d)) + (IF c = d THEN 1 ELSE 0)
      BY <1>2, <1>5, <2>1, PlacesTail DEF c
    <3>3. CASE d = c
      BY <1>1, <2>2, <3>1, <3>2, <3>3
    <3>4. CASE d # c
      BY <1>1, <2>2, <3>1, <3>2, <3>4
    <3> QED BY <3>3, <3>4
  <2>7. ResponsesAccounted'
    BY <1>1, <2>6, Account
  <2> QED BY <2>2, <2>3, <2>4, <2>5, <2>7 DEF RemoteInv
<1>6. CASE mailbox = <<>>
  <2>1. waiters' = Append(waiters, r) /\ UNCHANGED <<answers, mailbox>>
    BY <1>6 DEF ServePoll
  <2>2. Apart(upstream, waiters, answers)'
    BY <1>1, <1>2, <1>3, <2>1, ApartWait DEF RemoteInv
  <2>3. /\ waiters' \in Seq(Requests)
        /\ \A k \in DOMAIN waiters' : waiters'[k] = r \/ \E j \in DOMAIN waiters : waiters'[k] = waiters[j]
    <3>1. ASSUME NEW k \in DOMAIN waiters'
          PROVE  waiters'[k] = r \/ \E j \in DOMAIN waiters : waiters'[k] = waiters[j]
      <4>1. k \in 1..(Len(waiters) + 1)
        BY <1>2, <2>1
      <4>2. CASE k = Len(waiters) + 1
        BY <1>2, <2>1, <4>2
      <4>3. CASE k # Len(waiters) + 1
        <5>1. k \in DOMAIN waiters /\ waiters'[k] = waiters[k]
          BY <1>2, <2>1, <4>1, <4>3
        <5> QED BY <5>1
      <4> QED BY <4>2, <4>3
    <3> QED BY <1>2, <1>3, <2>1, <3>1
  <2>4. Numbered(upstream, waiters, answers)'
    BY <1>1, <2>1, <2>3 DEF RemoteInv, Numbered
  <2>5. RemoteTypeOK'
    BY <1>1, <1>3, <2>1, <2>3 DEF RemoteInv, RemoteTypeOK
  <2>6. Counted'
    BY <1>1, <1>3, <2>1, NotRoutedOK
  <2>7. NoPollYet'
    <3>1. ASSUME NEW d \in Calls, stage[d] \in {"new", "posting"}
          PROVE  /\ \A q \in upstream' : q.call = d => ~q.poll
                 /\ \A i \in DOMAIN waiters' : waiters'[i].call # d
                 /\ \A a \in answers' : a.call = d => a.body \in Statuses
      <4>1. /\ \A q \in upstream : q.call = d => ~q.poll
            /\ \A i \in DOMAIN waiters : waiters[i].call # d
            /\ \A a \in answers : a.call = d => a.body \in Statuses
        BY <3>1 DEF RemoteInv, NoPollYet
      <4>2. r.call # d
        BY <1>4, <3>1
      <4>3. \A q \in upstream' : q.call = d => ~q.poll
        BY <1>1, <4>1
      <4> QED BY <2>1, <2>3, <4>1, <4>2, <4>3
    <3> QED BY <1>1, <3>1 DEF NoPollYet
  <2>8. ResponsesAccounted'
    BY <1>1, <2>1 DEF RemoteInv, ResponsesAccounted
  <2> QED BY <2>2, <2>4, <2>5, <2>6, <2>7, <2>8 DEF RemoteInv
<1> QED BY <1>5, <1>6

\* The invariant holds throughout.
LEMMA RemoteInvariant == RemoteSpec => []RemoteInv
<1>1. RemoteInv /\ [RemoteNext]_remoteVars => RemoteInv'
  <2> SUFFICES ASSUME RemoteInv, [RemoteNext]_remoteVars PROVE RemoteInv'
    OBVIOUS
  <2>1. CASE UNCHANGED remoteVars
    <3>1. RemoteTypeOK' /\ Counted' /\ NoPollYet'
      BY <2>1 DEF remoteVars, RemoteInv, RemoteTypeOK, Counted, NoPollYet
    <3>2. Apart(upstream, waiters, answers)' /\ Numbered(upstream, waiters, answers)'
      BY <2>1 DEF remoteVars, RemoteInv, Numbered
    <3>3. ResponsesAccounted'
      BY <2>1 DEF remoteVars, RemoteInv, ResponsesAccounted
    <3> QED BY <3>1, <3>2, <3>3 DEF RemoteInv
  <2> QED BY <2>1, SendTaskInv, RespondInv, PollInv, AttemptFailsInv, ExpireInv, TimeOutInv,
             RouteTaskInv, ServePollInv, RefuseTaskInv, WaitEndsInv, PostAnsweredInv,
             PollAnsweredInv DEF RemoteNext, Timers
<1> QED BY <1>1, RemoteInitInv, PTL DEF RemoteSpec

\* A task reaches the bus at most as often as the client makes attempts, and at least once when
\* the call polls for its answer: every attempt sends one POST, which is routed at most once,
\* however late, and a POST answered with its own status was routed.
THEOREM GuaranteeIsKept == RemoteSpec => []GuaranteeKept
<1>1. RemoteInv => GuaranteeKept
  <2> SUFFICES ASSUME RemoteInv, NEW c \in Calls
               PROVE  /\ routed[c] <= Attempts[c]
                      /\ stage[c] \in {"polling", "waiting", "answered", "timed out"} => routed[c] >= 1
    BY DEF GuaranteeKept
  <2>1. /\ routed[c] + Cardinality(Posts(upstream, c)) <= Attempts[c]
        /\ stage[c] \in {"polling", "waiting", "answered", "timed out"} => routed[c] >= 1
    BY DEF RemoteInv, Counted
  <2>2. Cardinality(Posts(upstream, c)) \in Nat /\ routed[c] \in Nat /\ Attempts[c] \in Nat
    BY PostsFinite, RemoteConstants DEF RemoteInv, RemoteTypeOK
  <2>3. routed[c] <= Attempts[c]
    <3> DEFINE n == Cardinality(Posts(upstream, c))
    <3>1. routed[c] + n <= Attempts[c] /\ n \in Nat
      BY <2>1, <2>2
    <3> HIDE DEF n
    <3> QED BY <2>2, <3>1
  <2> QED BY <2>1, <2>3
<1> QED BY <1>1, RemoteInvariant, PTL

\* Every response is in the mailbox, on its way to a client, was returned by a call or was taken by
\* a poll whose client had given up: a poll takes a response out of the mailbox before it is known
\* whether anyone receives it, and takes it once.
THEOREM ResponsesAreAccounted == RemoteSpec => []ResponsesAccounted
<1>1. RemoteInv => ResponsesAccounted
  BY DEF RemoteInv
<1> QED BY <1>1, RemoteInvariant, PTL

-------------------------------------------------------------------------------
(* The message feed.                                                         *)
-------------------------------------------------------------------------------
(* Merging.                                                                 *)

\* A sequence without repetitions.
Distinct(s) == \A i, j \in DOMAIN s : s[i] = s[j] => i = j

\* What was appended of what is new.
Appended(r, held, seen, new) ==
  /\ ToSet(r) = ToSet(held) \cup (new \ seen)
  /\ Distinct(held) => Distinct(r)

\* Appending one that is not there keeps it so.
LEMMA AppendOne ==
  ASSUME NEW S, NEW s \in Seq(S), NEW x \in S
  PROVE  /\ Append(s, x) \in Seq(S) /\ ToSet(Append(s, x)) = ToSet(s) \cup {x}
         /\ (Distinct(s) /\ x \notin ToSet(s) => Distinct(Append(s, x)))
<1> DEFINE t == Append(s, x)
<1>1. t \in Seq(S) /\ DOMAIN t = DOMAIN s \cup {Len(s) + 1} /\ t[Len(s) + 1] = x
        /\ (\A i \in DOMAIN s : t[i] = s[i])
  OBVIOUS
<1> HIDE DEF t
<1>2. ToSet(t) = ToSet(s) \cup {x}
  BY <1>1 DEF ToSet
<1>3. ASSUME Distinct(s), x \notin ToSet(s) PROVE Distinct(t)
  BY <1>1, <1>3 DEF Distinct, ToSet
<1> QED BY <1>1, <1>2, <1>3 DEF t

\* Appending what has not been seen, by recursion over what is new.
LEMMA AppendUnseenOK ==
  ASSUME NEW S, NEW held \in Seq(S), NEW seen, NEW new \in Seq(S)
  PROVE  /\ AppendUnseen(held, seen, new) \in Seq(S)
         /\ Appended(AppendUnseen(held, seen, new), held, seen, ToSet(new))
<1> DEFINE N == Len(new)
           T == Seq(S)
           one(r, x) == IF x \in seen \cup ToSet(r) THEN r ELSE Append(r, x)
           upTo[n \in 0..N] ==
             IF n = 0 THEN held
             ELSE IF new[n] \in seen \cup ToSet(upTo[n - 1]) THEN upTo[n - 1]
             ELSE Append(upTo[n - 1], new[n])
           step == [p \in (1..N) \X T |-> one(p[2], new[p[1]])]
<1>1. AppendUnseen(held, seen, new) = upTo[N]
  BY DEF AppendUnseen
<1>2. N \in Nat /\ held \in T /\ \A n \in 1..N : new[n] \in S
  OBVIOUS
<1>3. ASSUME NEW r \in T, NEW x \in S
      PROVE  one(r, x) \in T /\ ToSet(one(r, x)) = ToSet(r) \cup ({x} \ seen)
               /\ (Distinct(r) => Distinct(one(r, x)))
  <2>1. CASE x \in seen \cup ToSet(r)
    BY <2>1
  <2>2. CASE x \notin seen \cup ToSet(r)
    BY <2>2, AppendOne
  <2> QED BY <2>1, <2>2
<1> HIDE DEF T, one
<1>4. step \in [(1..N) \X T -> T]
  BY <1>2, <1>3
<1>5. PICK f : Recursive(f, N, T, held, step)
  <2> HIDE DEF step, N
  <2> QED BY <1>2, <1>4, Recursion
<1>6. ASSUME NEW n \in 1..N PROVE f[n] = one(f[n - 1], new[n])
  <2>1. n - 1 \in 0..N /\ f[n - 1] \in T
    BY <1>5 DEF Recursive
  <2> QED BY <1>5, <2>1 DEF Recursive
<1>7. f = [n \in 0..N |-> IF n = 0 THEN held
                          ELSE IF new[n] \in seen \cup ToSet(f[n - 1]) THEN f[n - 1]
                          ELSE Append(f[n - 1], new[n])]
  <2>1. ASSUME NEW n \in 0..N
        PROVE  f[n] = IF n = 0 THEN held
                      ELSE IF new[n] \in seen \cup ToSet(f[n - 1]) THEN f[n - 1]
                      ELSE Append(f[n - 1], new[n])
    <3>1. n = 0 \/ n \in 1..N
      OBVIOUS
    <3> QED BY <1>5, <1>6, <3>1 DEF Recursive, one
  <2> QED BY <1>5, <2>1 DEF Recursive
<1>8. upTo = [n \in 0..N |-> IF n = 0 THEN held
                             ELSE IF new[n] \in seen \cup ToSet(upTo[n - 1]) THEN upTo[n - 1]
                             ELSE Append(upTo[n - 1], new[n])]
  BY <1>7
<1>9. upTo[0] = held /\ \A n \in 1..N : n - 1 \in 0..N /\ upTo[n] = one(upTo[n - 1], new[n])
  <2> HIDE DEF upTo
  <2>1. ASSUME NEW n \in 1..N PROVE n - 1 \in 0..N /\ upTo[n] = one(upTo[n - 1], new[n])
    <3>1. n \in 0..N /\ n # 0 /\ n - 1 \in 0..N
      OBVIOUS
    <3> QED BY <1>8, <3>1 DEF one
  <2>2. upTo[0] = held
    <3>1. 0 \in 0..N
      BY <1>2
    <3> QED BY <1>8, <3>1
  <2> QED BY <2>1, <2>2
<1> DEFINE First(n) == {new[i] : i \in 1..n}
           Good(n) == upTo[n] \in T /\ Appended(upTo[n], held, seen, First(n))
<1>10. \A n \in 0..N : Good(n)
  <2> HIDE DEF upTo
  <2> DEFINE bad == {n \in 0..N : ~Good(n)}
  <2>1. SUFFICES ASSUME bad # {} PROVE FALSE
    OBVIOUS
  <2>2. PICK n \in bad : \A k \in bad : n <= k
    <3>1. bad \subseteq Nat
      OBVIOUS
    <3> HIDE DEF bad
    <3> QED BY <2>1, <3>1, LeastNat
  <2>3. n # 0
    <3>1. First(0) = {}
      OBVIOUS
    <3>2. Good(0)
      BY <1>2, <1>9, <3>1 DEF Appended
    <3> QED BY <2>2, <3>2
  <2>4. n - 1 \in 0..N /\ n \in 1..N /\ ~(n <= n - 1)
    BY <2>3
  <2>5. upTo[n - 1] \in T /\ Appended(upTo[n - 1], held, seen, First(n - 1))
    BY <2>2, <2>4
  <2>6. upTo[n] = one(upTo[n - 1], new[n]) /\ new[n] \in S
    BY <1>2, <1>9, <2>4
  <2>7. First(n) = First(n - 1) \cup {new[n]}
    <3>1. 1..n = (1..(n - 1)) \cup {n}
      BY <2>4
    <3> QED BY <3>1
  <2> HIDE DEF First
  <2>8. Good(n)
    BY <1>3, <2>5, <2>6, <2>7 DEF Appended
  <2> QED BY <2>2, <2>8
<1>11. First(N) = ToSet(new) /\ N \in 0..N
  BY DEF ToSet
<1> QED BY <1>1, <1>10, <1>11 DEF T

-------------------------------------------------------------------------------
(* The snapshot.                                                            *)

\* A snapshot is of a part of its timeline.
SnapshotOK(a) == \A t \in Traces : a[t] \in Nat /\ a[t] <= Len(timeline[t])

\* What is cached and fetched.
CacheInv ==
  /\ timeline \in [Traces -> Seq(Messages)]
  /\ selected \in Traces
  /\ DOMAIN cache = Traces
  /\ \A t \in Traces : cache[t] = Undefined \/ SnapshotOK(cache[t])
  /\ lastShown = Undefined \/ (lastShown \in Traces /\ SnapshotOK(cache[lastShown]))
  /\ fetching = "answered" => SnapshotOK(answer)

\* What the feed shows and what it holds back.
FeedInv ==
  /\ rows \in Seq(Messages) /\ buffer \in Seq(Messages)
  /\ Distinct(rows) /\ Distinct(buffer) /\ ToSet(rows) \cap ToSet(buffer) = {}
  /\ taken \subseteq ToSet(rows) \cup ToSet(buffer)
  /\ buffer # <<>> => Held

\* A feed shows what it is given, unless its fetch has failed.
Given == selected \notin failed => ToSet(Incoming) \subseteq ToSet(rows) \cup ToSet(buffer)

\* The inductive invariant of the console.
ConsoleInv == CacheInv /\ FeedInv /\ Given

\* What is given are messages.
LEMMA IncomingTyped == CacheInv => Incoming \in Seq(Messages)
<1> SUFFICES ASSUME CacheInv PROVE Incoming \in Seq(Messages)
  OBVIOUS
<1>1. CASE Data = Undefined
  BY <1>1 DEF Incoming
<1>2. CASE Data # Undefined
  <2>1. PICK t \in Traces : /\ Data.of = t /\ SnapshotOK(Data.seen)
    <3>1. CASE cache[selected] # Undefined
      BY <3>1 DEF Data, CacheInv
    <3>2. CASE cache[selected] = Undefined /\ ~(selected \in failed \/ lastShown = Undefined)
      BY <3>2 DEF Data, CacheInv
    <3> QED BY <1>2, <3>1, <3>2 DEF Data
  <2> DEFINE n == Data.seen[Data.of]
             q == timeline[Data.of]
  <2>2. n \in Nat /\ n <= Len(q) /\ q \in Seq(Messages)
    BY <2>1 DEF SnapshotOK, CacheInv
  <2>3. Incoming = SubSeq(q, 1, n)
    BY <1>2 DEF Incoming
  <2> HIDE DEF n, q
  <2> QED BY <2>2, <2>3
<1> QED BY <1>1, <1>2

\* An empty feed.
LEMMA EmptySets == ToSet(<<>>) = {} /\ Distinct(<<>>)
  BY DEF ToSet, Distinct

\* The effects of the feed, whatever they are given.
LEMMA RenderOK ==
  ASSUME FeedInv, Incoming' \in Seq(Messages), Render
  PROVE  FeedInv' /\ Given'
<1>1. CASE selected' \in failed'
  <2>1. ASSUME UNCHANGED feedVars, Held' = Held PROVE FeedInv'
    BY <2>1 DEF FeedInv, feedVars
  <2>2. ASSUME rows' = <<>>, buffer' = <<>>, taken' = {} PROVE FeedInv'
    <3>1. <<>> \in Seq(Messages)
      OBVIOUS
    <3> QED BY <2>2, <3>1, EmptySets DEF FeedInv
  <2>3. \/ UNCHANGED feedVars /\ Held' = Held
        \/ rows' = <<>> /\ buffer' = <<>> /\ taken' = {}
    BY <1>1 DEF Render, ClearOffline
  <2>4. FeedInv'
    BY <2>1, <2>2, <2>3
  <2>5. Given'
    BY <1>1 DEF Given
  <2> QED BY <2>4, <2>5
<1>2. CASE selected' \notin failed'
  <2> DEFINE stays == selected' = selected
             current == IF stays THEN rows ELSE <<>>
             waiting == IF stays THEN buffer ELSE <<>>
             was == IF stays THEN taken ELSE {}
  <2>1. /\ current \in Seq(Messages) /\ waiting \in Seq(Messages)
        /\ Distinct(current) /\ Distinct(waiting) /\ ToSet(current) \cap ToSet(waiting) = {}
        /\ was \subseteq ToSet(current) \cup ToSet(waiting)
    <3>1. <<>> \in Seq(Messages)
      OBVIOUS
    <3>2. CASE stays
      BY <3>2 DEF FeedInv
    <3>3. CASE ~stays
      BY <3>1, <3>3, EmptySets
    <3> QED BY <3>2, <3>3
  <2>2. taken' = was \cup ToSet(Incoming')
    BY <1>2 DEF Render
  <2>3. CASE Held'
    <3>1. rows' = current /\ buffer' = AppendUnseen(waiting, ToSet(current), Incoming')
      BY <1>2, <2>3 DEF Render, Buffered
    <3> HIDE DEF current, waiting, was
    <3>2. buffer' \in Seq(Messages) /\ Appended(buffer', waiting, ToSet(current), ToSet(Incoming'))
      BY <2>1, <3>1, AppendUnseenOK
    <3>3. ToSet(buffer') = ToSet(waiting) \cup (ToSet(Incoming') \ ToSet(current)) /\ Distinct(buffer')
      BY <2>1, <3>2 DEF Appended
    <3>4. FeedInv'
      BY <2>1, <2>2, <2>3, <3>1, <3>2, <3>3 DEF FeedInv
    <3>5. ToSet(Incoming') \subseteq ToSet(rows') \cup ToSet(buffer')
      BY <3>1, <3>3
    <3> QED BY <3>4, <3>5 DEF Given
  <2>4. CASE ~Held'
    <3> DEFINE first == Merge(current, Incoming')
    <3>1. rows' = Merge(first, waiting) /\ buffer' = <<>>
      BY <1>2, <2>4 DEF Render
    <3> HIDE DEF current, waiting, was
    <3>2. first \in Seq(Messages) /\ Appended(first, current, {}, ToSet(Incoming'))
      BY <2>1, AppendUnseenOK DEF Merge
    <3> HIDE DEF first
    <3>3. rows' \in Seq(Messages) /\ Appended(rows', first, {}, ToSet(waiting))
      BY <2>1, <3>1, <3>2, AppendUnseenOK DEF Merge
    <3>4. ToSet(rows') = ToSet(current) \cup ToSet(Incoming') \cup ToSet(waiting) /\ Distinct(rows')
      BY <2>1, <3>2, <3>3 DEF Appended
    <3>5. <<>> \in Seq(Messages)
      OBVIOUS
    <3>6. FeedInv'
      BY <2>1, <2>2, <3>1, <3>3, <3>4, <3>5, EmptySets DEF FeedInv
    <3>7. ToSet(Incoming') \subseteq ToSet(rows') \cup ToSet(buffer')
      BY <3>4
    <3> QED BY <3>6, <3>7 DEF Given
  <2> QED BY <2>3, <2>4
<1> QED BY <1>1, <1>2

\* A live event adds its message to the snapshot that is cached.
LEMMA AppendLiveOK ==
  ASSUME FeedInv, NEW m \in Messages, AppendLive(m), UNCHANGED <<liveEnabled, paused>>
  PROVE  FeedInv' /\ ToSet(rows) \cup ToSet(buffer) \subseteq ToSet(rows') \cup ToSet(buffer')
<1>1. taken' = taken \cup {m} /\ (Held' <=> Held)
  BY DEF AppendLive, Held
<1>2. <<m>> \in Seq(Messages) /\ ToSet(<<m>>) = {m}
  <2>1. <<m>> \in Seq(Messages) /\ DOMAIN <<m>> = {1} /\ <<m>>[1] = m
    OBVIOUS
  <2> DEFINE one == <<m>>
  <2>2. one \in Seq(Messages) /\ DOMAIN one = {1} /\ one[1] = m
    BY <2>1
  <2> HIDE DEF one
  <2>3. ToSet(one) = {m}
    BY <2>2 DEF ToSet
  <2> QED BY <2>2, <2>3 DEF one
<1> DEFINE one == <<m>>
<1>3. CASE Held
  <2>1. rows' = rows /\ buffer' = AppendUnseen(buffer, ToSet(rows), one)
    BY <1>3 DEF AppendLive, Buffered
  <2>2. one \in Seq(Messages) /\ ToSet(one) = {m}
    BY <1>2
  <2> HIDE DEF one
  <2>3. buffer' \in Seq(Messages) /\ Appended(buffer', buffer, ToSet(rows), ToSet(one))
    BY <2>1, <2>2, AppendUnseenOK DEF FeedInv
  <2>4. ToSet(buffer') = ToSet(buffer) \cup ({m} \ ToSet(rows)) /\ Distinct(buffer')
    BY <2>2, <2>3 DEF Appended, FeedInv
  <2> QED BY <1>1, <1>3, <2>1, <2>3, <2>4 DEF FeedInv
<1>4. CASE ~Held
  <2>1. rows' = AppendUnseen(rows, {}, one) /\ buffer' = buffer /\ buffer = <<>>
    BY <1>4 DEF AppendLive, Merge, FeedInv
  <2>2. one \in Seq(Messages) /\ ToSet(one) = {m}
    BY <1>2
  <2> HIDE DEF one
  <2>3. rows' \in Seq(Messages) /\ Appended(rows', rows, {}, ToSet(one))
    BY <2>1, <2>2, AppendUnseenOK DEF FeedInv
  <2>4. ToSet(rows') = ToSet(rows) \cup {m} /\ Distinct(rows')
    BY <2>2, <2>3 DEF Appended, FeedInv
  <2> QED BY <1>1, <2>1, <2>3, <2>4, EmptySets DEF FeedInv
<1> QED BY <1>3, <1>4

-------------------------------------------------------------------------------
(* The steps.                                                               *)

\* An empty console.
LEMMA ConsoleInitInv == ConsoleInit => ConsoleInv
<1> SUFFICES ASSUME ConsoleInit PROVE ConsoleInv
  OBVIOUS
<1>1. CacheInv
  <2>1. timeline \in [Traces -> Seq(Messages)]
    BY ConsoleConstants DEF ConsoleInit
  <2>2. cache = [t \in Traces |-> Undefined] /\ lastShown = Undefined /\ fetching # "answered"
          /\ selected \in Traces
    BY DEF ConsoleInit
  <2>3. DOMAIN cache = Traces /\ \A t \in Traces : cache[t] = Undefined
    BY <2>2
  <2> QED BY <2>1, <2>2, <2>3 DEF CacheInv
<1>2. <<>> \in Seq(Messages)
  OBVIOUS
<1>3. FeedInv
  BY <1>2, EmptySets DEF ConsoleInit, FeedInv
<1>4. Given
  <2>1. Data = Undefined
    BY DEF ConsoleInit, Data
  <2> QED BY <2>1, EmptySets DEF Given, Incoming
<1> QED BY <1>1, <1>3, <1>4 DEF ConsoleInv

\* A step with the effects of the feed.
LEMMA Rendered ==
  ASSUME ConsoleInv, CacheInv', Incoming' \in Seq(Messages), Render
  PROVE  ConsoleInv'
  BY RenderOK DEF ConsoleInv

\* What leaves alone what is shown.
LEMMA FeedStays ==
  ASSUME ConsoleInv, CacheInv', UNCHANGED <<feedVars, selected, liveEnabled, paused, failed>>,
         Incoming' = Incoming
  PROVE  ConsoleInv'
<1>1. FeedInv'
  BY DEF ConsoleInv, FeedInv, feedVars, Held
<1>2. Given'
  BY DEF ConsoleInv, Given, feedVars
<1> QED BY <1>1, <1>2 DEF ConsoleInv

\* The steps, one by one.
LEMMA RecordTracedInv ==
  ASSUME ConsoleInv, NEW m \in Messages, RecordTraced(m)
  PROVE  ConsoleInv'
<1> DEFINE u == TraceOf[m]
<1>1. /\ timeline' = [timeline EXCEPT ![u] = Append(@, m)]
      /\ UNCHANGED <<userVars, queryVars, feedVars>>
  BY DEF RecordTraced
<1>2. timeline \in [Traces -> Seq(Messages)] /\ u \in Traces
  BY ConsoleConstants DEF ConsoleInv, CacheInv
<1> HIDE DEF u
<1>3. ASSUME NEW t \in Traces
      PROVE  /\ timeline'[t] \in Seq(Messages) /\ Len(timeline[t]) \in Nat
             /\ Len(timeline[t]) <= Len(timeline'[t])
             /\ \A n \in 0..Len(timeline[t]) : SubSeq(timeline'[t], 1, n) = SubSeq(timeline[t], 1, n)
  <2> DEFINE q == timeline[t]
  <2>1. q \in Seq(Messages)
    BY <1>2
  <2>2. timeline'[t] = q \/ timeline'[t] = Append(q, m)
    BY <1>1, <1>2
  <2> HIDE DEF q
  <2>3. \A n \in 0..Len(q) : SubSeq(Append(q, m), 1, n) = SubSeq(q, 1, n)
    BY <2>1
  <2>4. Append(q, m) \in Seq(Messages) /\ Len(q) \in Nat /\ Len(Append(q, m)) = Len(q) + 1
    BY <2>1
  <2>5. Len(q) <= Len(q) + 1 /\ Len(q) <= Len(q)
    BY <2>4
  <2> QED BY <2>1, <2>2, <2>3, <2>4, <2>5 DEF q
<1>4. timeline' \in [Traces -> Seq(Messages)]
  <2>1. timeline' = [t \in Traces |-> timeline'[t]]
    BY <1>1, <1>2
  <2> QED BY <1>3, <2>1
<1>5. ASSUME NEW a, SnapshotOK(a) PROVE SnapshotOK(a)'
  BY <1>2, <1>3, <1>5 DEF SnapshotOK
<1>6. CacheInv'
  BY <1>1, <1>4, <1>5 DEF ConsoleInv, CacheInv, userVars, queryVars
<1>7. Data' = Data
  BY <1>1 DEF Data, userVars, queryVars
<1>8. Incoming' = Incoming
  <2>1. CASE Data = Undefined
    BY <1>7, <2>1 DEF Incoming
  <2>2. CASE Data # Undefined
    <3>1. Data.of \in Traces /\ SnapshotOK(Data.seen)
      <4>1. CASE cache[selected] # Undefined
        BY <4>1 DEF Data, ConsoleInv, CacheInv
      <4>2. CASE cache[selected] = Undefined /\ ~(selected \in failed \/ lastShown = Undefined)
        BY <4>2 DEF Data, ConsoleInv, CacheInv
      <4> QED BY <2>2, <4>1, <4>2 DEF Data
    <3> DEFINE t == Data.of
               n == Data.seen[t]
    <3>2. t \in Traces /\ n \in 0..Len(timeline[t])
      BY <1>3, <3>1 DEF SnapshotOK
    <3>3. Incoming = SubSeq(timeline[t], 1, n) /\ Incoming' = SubSeq(timeline'[t], 1, n)
      BY <1>7, <2>2 DEF Incoming
    <3> HIDE DEF t, n
    <3> QED BY <1>3, <3>2, <3>3
  <2> QED BY <2>1, <2>2
<1> QED BY <1>1, <1>6, <1>8, FeedStays DEF userVars, queryVars

\* Steps that change nothing of what the invariant is about.
LEMMA OtherSteps ==
  ASSUME ConsoleInv, UNCHANGED <<timeline, selected, liveEnabled, paused, feedVars>>,
         UNCHANGED <<cache, lastShown, failed>>, fetching' = "answered" => SnapshotOK(answer')
  PROVE  ConsoleInv'
<1>1. \A a : SnapshotOK(a)' <=> SnapshotOK(a)
  BY DEF SnapshotOK
<1>2. CacheInv'
  BY <1>1 DEF ConsoleInv, CacheInv
<1>3. Incoming' = Incoming
  BY DEF Incoming, Data
<1> QED BY <1>2, <1>3, FeedStays

LEMMA OnMessageInv ==
  ASSUME ConsoleInv, OnMessage
  PROVE  ConsoleInv'
<1>1. UNCHANGED <<serverVars, userVars, queryVars>> /\ Delivered \in Messages
  BY DEF OnMessage, TakeEvent
<1>2. \A a : SnapshotOK(a)' <=> SnapshotOK(a)
  BY <1>1 DEF SnapshotOK, serverVars
<1>3. CacheInv'
  BY <1>1, <1>2 DEF ConsoleInv, CacheInv, serverVars, userVars, queryVars
<1>4. Incoming' = Incoming
  BY <1>1 DEF Incoming, Data, serverVars, userVars, queryVars
<1>5. CASE UNCHANGED feedVars
  BY <1>1, <1>3, <1>4, <1>5, FeedStays DEF userVars, queryVars
<1>6. CASE AppendLive(Delivered)
  <2>1. FeedInv' /\ ToSet(rows) \cup ToSet(buffer) \subseteq ToSet(rows') \cup ToSet(buffer')
    BY <1>1, <1>6, AppendLiveOK DEF ConsoleInv, userVars
  <2>2. Given'
    BY <1>1, <1>4, <2>1 DEF ConsoleInv, Given, userVars, queryVars
  <2> QED BY <1>3, <2>1, <2>2 DEF ConsoleInv
<1> QED BY <1>5, <1>6 DEF OnMessage

LEMMA RefetchOK ==
  ASSUME ConsoleInv, Refetch, UNCHANGED <<timeline, selected>>
  PROVE  CacheInv'
<1>1. \A a : SnapshotOK(a)' <=> SnapshotOK(a)
  BY DEF SnapshotOK
<1>2. fetching' = "answered" => fetching = "answered" /\ answer' = answer
  BY DEF Refetch
<1> QED BY <1>1, <1>2 DEF ConsoleInv, CacheInv, Refetch

\* The steps with the effects of the feed.
RenderSteps ==
  \/ ResyncFires \/ ReceiveSnapshot \/ FetchFails \/ \E t \in Traces : SelectTrace(t)
  \/ ToggleLive \/ TogglePause \/ Refresh

LEMMA RenderStepsCache ==
  ASSUME ConsoleInv, RenderSteps
  PROVE  CacheInv' /\ Render
<1>1. timeline' = timeline /\ Render
  BY DEF RenderSteps, ResyncFires, ReceiveSnapshot, FetchFails, SelectTrace, ToggleLive,
         TogglePause, Refresh, serverVars
<1>2. \A a : SnapshotOK(a)' <=> SnapshotOK(a)
  BY <1>1 DEF SnapshotOK
<1>3. CASE ResyncFires \/ Refresh
  BY <1>1, <1>3, RefetchOK DEF ResyncFires, Refresh, userVars
<1>4. CASE ReceiveSnapshot
  <2>1. /\ fetching = "answered" /\ fetching' = "no" /\ cache' = [cache EXCEPT ![selected] = answer]
        /\ lastShown' = selected /\ selected' = selected
    BY <1>4 DEF ReceiveSnapshot, userVars
  <2>2. SnapshotOK(answer) /\ selected \in Traces /\ DOMAIN cache = Traces
    BY <2>1 DEF ConsoleInv, CacheInv
  <2>3. cache'[selected] = answer /\ DOMAIN cache' = Traces
          /\ \A t \in Traces : t # selected => cache'[t] = cache[t]
    BY <2>1, <2>2
  <2> QED BY <1>1, <1>2, <2>1, <2>2, <2>3 DEF ConsoleInv, CacheInv
<1>5. CASE FetchFails
  BY <1>1, <1>2, <1>5 DEF FetchFails, userVars, ConsoleInv, CacheInv
<1>6. CASE \E t \in Traces : SelectTrace(t)
  <2>1. PICK t \in Traces : SelectTrace(t)
    BY <1>6
  <2>2. /\ selected' = t /\ cache' = cache /\ fetching' # "answered"
        /\ lastShown' = IF cache[t] = Undefined THEN lastShown ELSE t
    BY <2>1 DEF SelectTrace
  <2> QED BY <1>1, <1>2, <2>2 DEF ConsoleInv, CacheInv
<1>7. CASE ToggleLive \/ TogglePause
  BY <1>1, <1>2, <1>7 DEF ToggleLive, TogglePause, queryVars, ConsoleInv, CacheInv
<1> QED BY <1>1, <1>3, <1>4, <1>5, <1>6, <1>7 DEF RenderSteps

LEMMA MiscSteps ==
  ASSUME ConsoleInv,
         \/ \E m \in Messages : PublishTraced(m)
         \/ \E type \in {"agents", "resync"} : PublishNotice(type)
         \/ Mount \/ Connect \/ Disconnect \/ FinishReplayBurst \/ FinishCatchUp
         \/ OnAgents \/ OnResync \/ PollSnapshot \/ ServeSnapshot
  PROVE  ConsoleInv'
<1>1. UNCHANGED <<timeline, selected, liveEnabled, paused, feedVars>> /\ UNCHANGED <<cache, lastShown, failed>>
  BY DEF PublishTraced, PublishNotice, Mount, Connect, Disconnect, FinishReplayBurst, FinishCatchUp,
         OnAgents, OnResync, TakeEvent, PollSnapshot, ServeSnapshot, serverVars, userVars, queryVars,
         linkVars
<1>2. CASE ServeSnapshot
  <2>1. answer' = [t \in Traces |-> Len(timeline[t])]
    BY <1>2 DEF ServeSnapshot
  <2>2. \A t \in Traces : Len(timeline[t]) \in Nat
    BY DEF ConsoleInv, CacheInv
  <2>3. SnapshotOK(answer')
    BY <2>1, <2>2 DEF SnapshotOK
  <2> QED BY <1>1, <2>3, OtherSteps
<1>3. CASE fetching' = "answered" => fetching = "answered" /\ answer' = answer
  BY <1>1, <1>3, OtherSteps DEF ConsoleInv, CacheInv
<1>4. ~ServeSnapshot => (fetching' = "answered" => fetching = "answered" /\ answer' = answer)
  BY DEF PublishTraced, PublishNotice, Mount, Connect, Disconnect, FinishReplayBurst, FinishCatchUp,
         OnAgents, OnResync, TakeEvent, PollSnapshot, queryVars
<1> QED BY <1>2, <1>3, <1>4

\* The invariant holds throughout.
LEMMA ConsoleInvariant == ConsoleSpec => []ConsoleInv
<1>1. ASSUME ConsoleInv, UNCHANGED consoleVars PROVE ConsoleInv'
  BY <1>1, OtherSteps DEF consoleVars, serverVars, userVars, queryVars, ConsoleInv, CacheInv
<1>2. (CacheInv => Incoming \in Seq(Messages))'
  BY IncomingTyped, PTL
<1>3. ConsoleInv /\ [ConsoleNext]_consoleVars => ConsoleInv'
  <2> SUFFICES ASSUME ConsoleInv, [ConsoleNext]_consoleVars PROVE ConsoleInv'
    OBVIOUS
  <2>1. CASE RenderSteps
    BY <1>2, <2>1, RenderStepsCache, Rendered
  <2> QED BY <1>1, <2>1, RecordTracedInv, MiscSteps, OnMessageInv DEF ConsoleNext, RenderSteps
<1> QED BY <1>3, ConsoleInitInv, PTL DEF ConsoleSpec

\* The message feed of the selected trace, with what a pause holds back, holds no message twice and
\* every message it was given: merging appends only what is not there and takes nothing away,
\* whatever the stream, the polls, pauses and switches of the trace do in between.  That nothing
\* of another trace is among what it was given is not said, and not so (FeedOfSelectedTrace).
THEOREM FeedIsExact == ConsoleSpec => []FeedExact
<1>1. ConsoleInv => FeedExact
  <2> SUFFICES ASSUME ConsoleInv PROVE FeedExact
    OBVIOUS
  <2>1. /\ rows \in Seq(Messages) /\ buffer \in Seq(Messages)
        /\ Distinct(rows) /\ Distinct(buffer) /\ ToSet(rows) \cap ToSet(buffer) = {}
    BY DEF ConsoleInv, FeedInv
  <2> DEFINE all == rows \o buffer
  <2>2. /\ DOMAIN all = 1..(Len(rows) + Len(buffer)) /\ DOMAIN rows = 1..Len(rows)
        /\ DOMAIN buffer = 1..Len(buffer) /\ Len(rows) \in Nat /\ Len(buffer) \in Nat
        /\ \A i \in DOMAIN all : all[i] = IF i <= Len(rows) THEN rows[i] ELSE buffer[i - Len(rows)]
    BY <2>1
  <2> HIDE DEF all
  <2>3. ASSUME NEW i \in DOMAIN all
        PROVE  \/ i \in DOMAIN rows /\ all[i] = rows[i] /\ all[i] \in ToSet(rows)
               \/ i - Len(rows) \in DOMAIN buffer /\ all[i] = buffer[i - Len(rows)] /\ all[i] \in ToSet(buffer)
    <3>1. CASE i <= Len(rows)
      BY <2>2, <3>1 DEF ToSet
    <3>2. CASE ~(i <= Len(rows))
      <4>1. i - Len(rows) \in DOMAIN buffer
        BY <2>2, <3>2
      <4> QED BY <2>2, <3>2, <4>1 DEF ToSet
    <3> QED BY <3>1, <3>2
  <2>4. \A i, j \in DOMAIN all : all[i] = all[j] => i = j
    <3>1. SUFFICES ASSUME NEW i \in DOMAIN all, NEW j \in DOMAIN all, all[i] = all[j] PROVE i = j
      OBVIOUS
    <3>2. CASE i \in DOMAIN rows /\ all[i] = rows[i] /\ all[i] \in ToSet(rows)
      BY <2>1, <2>3, <3>1, <3>2 DEF Distinct
    <3>3. CASE i - Len(rows) \in DOMAIN buffer /\ all[i] = buffer[i - Len(rows)] /\ all[i] \in ToSet(buffer)
      <4>1. j - Len(rows) \in DOMAIN buffer /\ all[j] = buffer[j - Len(rows)]
        BY <2>1, <2>3, <3>1, <3>3
      <4>2. i - Len(rows) = j - Len(rows)
        BY <2>1, <3>1, <3>3, <4>1 DEF Distinct
      <4> QED BY <2>2, <4>2
    <3> QED BY <2>3, <3>2, <3>3
  <2>5. ToSet(rows) \cup ToSet(buffer) \subseteq ToSet(all)
    <3>1. ASSUME NEW i \in DOMAIN rows PROVE rows[i] \in ToSet(all)
      <4>1. i \in DOMAIN all /\ all[i] = rows[i]
        BY <2>2
      <4> QED BY <4>1 DEF ToSet
    <3>2. ASSUME NEW i \in DOMAIN buffer PROVE buffer[i] \in ToSet(all)
      <4>1. i + Len(rows) \in DOMAIN all /\ ~(i + Len(rows) <= Len(rows)) /\ (i + Len(rows)) - Len(rows) = i
        BY <2>2
      <4>2. all[i + Len(rows)] = buffer[i]
        BY <2>2, <4>1
      <4> QED BY <4>1, <4>2 DEF ToSet
    <3> QED BY <3>1, <3>2 DEF ToSet
  <2>6. taken \subseteq ToSet(all) /\ (selected \notin failed => ToSet(Incoming) \subseteq ToSet(all))
    BY <2>5 DEF ConsoleInv, FeedInv, Given
  <2> QED BY <2>4, <2>6 DEF FeedExact, ConsoleInv, FeedInv, all
<1> QED BY <1>1, ConsoleInvariant, PTL

===============================================================================
