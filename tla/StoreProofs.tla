----------------------------- MODULE StoreProofs ------------------------------
(*****************************************************************************)
(* Proofs about what is kept of traces and of what is looked at: the store   *)
(* of messages and the events of their sends (Emission), the memory entries  *)
(* that are read page by page (TaskMemory), and the selection of the         *)
(* console, which an address keeps (Selection); for any messages, traces,    *)
(* page sizes, clocks and bounds.                                            *)
(*****************************************************************************)
EXTENDS Emission, TaskMemory, Selection, SequenceLemmas

-------------------------------------------------------------------------------
(* The store of messages.                                                    *)
\* The sends that wait for their handler.
Awaiting == {s \in DOMAIN sends : sends[s].stage = "awaiting"}

\* The types.
EmissionTypeOK ==
  /\ server \in {"down", "syncing", "serving"}
  /\ recorded \in Seq(Ids) /\ db \in Seq(Ids)
  /\ sends \in Seq([id : Ids \cup {Undefined}, by : Nat, before : Nat,
                    stage : {"awaiting", "ok", "failed", "past"}])
  /\ importing \in Seq(Ids) \cup {Undefined}
  /\ answered \subseteq Ids /\ cut \in BOOLEAN
  /\ synced \in {"no", "skipped", "imported"}

\* What a send awaits is recorded, and no process means no send and no import.
Awaited ==
  /\ \A s \in Awaiting : sends[s].id \in ToSet(recorded)
  /\ server = "down" => Awaiting = {} /\ importing = Undefined

\* What of the export is not stored is still to be imported, and whatever is stored without
\* all of the export came of a send or of an import that goes on or was cut off.
Imported ==
  /\ importing # Undefined => ToSet(Exported) \subseteq ToSet(db) \cup ToSet(importing)
  /\ \/ db = <<>> \/ importing # Undefined \/ ToSet(Exported) \subseteq ToSet(db)
     \/ cut \/ answered # {}
  /\ importing # Undefined => ToSet(importing) \subseteq ToSet(Exported)
  /\ synced = "imported" => ToSet(Exported) \subseteq ToSet(db)
  /\ synced = "skipped" => ToSet(Exported) \subseteq ToSet(db) \/ cut \/ answered # {}

\* The inductive invariant of the store.
StoreInv == EmissionTypeOK /\ Awaited /\ Imported /\ StoreExact

-------------------------------------------------------------------------------
(* Sequences as sets.                                                       *)

\* What is stored once more is stored once.
LEMMA AppendMessageOK ==
  ASSUME StoreInv, NEW id \in Ids
  PROVE  /\ AppendMessage(id) \in Seq(Ids) /\ AppendMessage(id) # <<>>
         /\ ToSet(AppendMessage(id)) = ToSet(db) \cup {id}
         /\ Len(AppendMessage(id)) = Cardinality(ToSet(AppendMessage(id)))
<1>1. db \in Seq(Ids) /\ Len(db) = Cardinality(ToSet(db)) /\ Len(db) \in Nat
  BY DEF StoreInv, EmissionTypeOK, StoreExact
<1>2. CASE id \in ToSet(db)
  <2>1. db # <<>>
    BY <1>2, EmptyToSet
  <2> QED BY <1>1, <1>2, <2>1 DEF AppendMessage
<1>3. CASE id \notin ToSet(db)
  <2>1. ToSet(Append(db, id)) = ToSet(db) \cup {id} /\ Append(db, id) # <<>>
    BY <1>1, ToSetAppend
  <2>2. IsFiniteSet(ToSet(db))
    BY <1>1, ToSetFinite
  <2>3. Cardinality(ToSet(db) \cup {id}) = Cardinality(ToSet(db)) + 1
    BY <1>3, <2>2, FS_AddElement
  <2>4. Len(Append(db, id)) = Len(db) + 1
    BY <1>1
  <2>5. AppendMessage(id) = Append(db, id) /\ Append(db, id) \in Seq(Ids)
    BY <1>1, <1>3 DEF AppendMessage
  <2>6. Len(Append(db, id)) = Cardinality(ToSet(Append(db, id)))
    BY <1>1, <2>1, <2>3, <2>4
  <2> QED BY <2>1, <2>5, <2>6
<1> QED BY <1>2, <1>3

\* What hydration records are messages.
LEMMA ReplayedOK ==
  ASSUME StoreInv, NEW id \in Ids
  PROVE  Replayed(id) \in Seq(Ids) /\ ToSet(Replayed(id)) = ToSet(recorded) \cup {id}
<1>1. recorded \in Seq(Ids)
  BY DEF StoreInv, EmissionTypeOK
<1>2. CASE id \in ToSet(recorded)
  BY <1>1, <1>2 DEF Replayed
<1>3. CASE id \notin ToSet(recorded)
  BY <1>1, <1>3, ToSetAppend DEF Replayed
<1> QED BY <1>2, <1>3

-------------------------------------------------------------------------------
\* Nothing is stored before the first start.
LEMMA EmissionInitInv == EmissionInit => StoreInv
<1> SUFFICES ASSUME EmissionInit PROVE StoreInv
  OBVIOUS
<1>1. EmissionTypeOK
  <2>1. \A S : <<>> \in Seq(S)
    OBVIOUS
  <2> QED BY <2>1 DEF EmissionInit, EmissionTypeOK
<1>2. Awaited /\ Imported
  BY EmptyToSet DEF EmissionInit, Awaited, Awaiting, Imported
<1>3. StoreExact
  <2>1. Cardinality({}) = 0 /\ Len(<<>>) = 0
    BY FS_EmptySet
  <2> QED BY <2>1, EmptyToSet DEF EmissionInit, StoreExact
<1> QED BY <1>1, <1>2, <1>3 DEF StoreInv

\* The steps, one by one: what becomes of the store and of the export.
LEMMA BeginSendStored ==
  ASSUME StoreInv, NEW id \in Ids, NEW p \in 0..Len(sends), BeginSend(id, p)
  PROVE  StoreInv'
<1> DEFINE new == [id |-> id, by |-> p, before |-> Len(BusTrace), stage |-> "awaiting"]
<1>1. /\ sends' = Append(sends, new) /\ recorded' = Append(recorded, id) /\ server = "serving"
      /\ UNCHANGED <<server, db, importing, log, starts, answered, cut, synced>>
  BY DEF BeginSend
<1>2. /\ recorded \in Seq(Ids) /\ EmissionTypeOK
      /\ sends \in Seq([id : Ids \cup {Undefined}, by : Nat, before : Nat,
                        stage : {"awaiting", "ok", "failed", "past"}])
  BY DEF StoreInv, EmissionTypeOK
<1>3. recorded' \in Seq(Ids) /\ ToSet(recorded') = ToSet(recorded) \cup {id}
  BY <1>1, <1>2, ToSetAppend
<1>4. new \in [id : Ids \cup {Undefined}, by : Nat, before : Nat,
               stage : {"awaiting", "ok", "failed", "past"}]
  <2>1. BusTrace \in Seq(Ids)
    BY <1>2, EmissionConstants DEF BusTrace
  <2> QED BY <1>2, <2>1
<1>5. EmissionTypeOK'
  <2> HIDE DEF new
  <2> QED BY <1>1, <1>2, <1>3, <1>4 DEF EmissionTypeOK
<1>6. Awaited'
  <2>1. ASSUME NEW s \in Awaiting' PROVE sends'[s].id \in ToSet(recorded')
    <3>1. new.id = id
      OBVIOUS
    <3> HIDE DEF new
    <3>2. s \in 1..(Len(sends) + 1) /\ sends'[s].stage = "awaiting"
      BY <1>1, <1>2 DEF Awaiting
    <3>3. CASE s = Len(sends) + 1
      BY <1>1, <1>2, <1>3, <3>1, <3>3
    <3>4. CASE s # Len(sends) + 1
      <4>1. s \in DOMAIN sends /\ sends'[s] = sends[s]
        BY <1>1, <1>2, <3>2, <3>4
      <4> QED BY <1>3, <3>2, <4>1 DEF StoreInv, Awaited, Awaiting
    <3> QED BY <3>3, <3>4
  <2> QED BY <1>1, <2>1 DEF Awaited
<1>7. Imported' /\ StoreExact'
  BY <1>1, <1>3 DEF StoreInv, Imported, StoreExact
<1> QED BY <1>5, <1>6, <1>7 DEF StoreInv

LEMMA EndSendStored ==
  ASSUME StoreInv, NEW s \in DOMAIN sends, NEW ok \in BOOLEAN, EndSend(s, ok)
  PROVE  StoreInv'
<1> DEFINE Call == [id : Ids \cup {Undefined}, by : Nat, before : Nat,
                    stage : {"awaiting", "ok", "failed", "past"}]
           id == sends[s].id
<1>1. /\ sends[s].stage = "awaiting"
      /\ sends' = [sends EXCEPT ![s].stage = IF ok THEN "ok" ELSE "failed"]
      /\ UNCHANGED <<server, recorded, importing, starts, cut, synced>>
  BY DEF EndSend
<1>2. sends \in Seq(Call) /\ recorded \in Seq(Ids) /\ answered \subseteq Ids /\ EmissionTypeOK
  BY DEF StoreInv, EmissionTypeOK
<1>3. id \in ToSet(recorded) /\ id \in Ids
  <2>1. id \in ToSet(recorded)
    BY <1>1 DEF StoreInv, Awaited, Awaiting
  <2> QED BY <1>2, <2>1, ToSetFinite
<1>4. /\ sends' \in Seq(Call) /\ DOMAIN sends' = DOMAIN sends
      /\ sends'[s].stage # "awaiting" /\ \A t \in DOMAIN sends : t # s => sends'[t] = sends[t]
  <2> DEFINE call == [sends[s] EXCEPT !.stage = IF ok THEN "ok" ELSE "failed"]
  <2>1. sends[s] \in Call
    <3> HIDE DEF Call
    <3> QED BY <1>2
  <2>2. call \in Call /\ call.stage # "awaiting"
    BY <2>1
  <2>3. sends' = [sends EXCEPT ![s] = call]
    BY <1>1
  <2> HIDE DEF Call, call
  <2> QED BY <1>2, <2>2, <2>3
<1> HIDE DEF Call, id
<1>5. Awaited'
  BY <1>1, <1>4 DEF StoreInv, Awaited, Awaiting
<1>6. CASE ok
  <2>1. db' = AppendMessage(id) /\ answered' = answered \cup {id}
    BY <1>6 DEF EndSend, id
  <2>2. /\ db' \in Seq(Ids) /\ db' # <<>> /\ ToSet(db') = ToSet(db) \cup {id}
        /\ Len(db') = Cardinality(ToSet(db'))
    BY <1>3, <2>1, AppendMessageOK
  <2>3. EmissionTypeOK'
    BY <1>1, <1>2, <1>3, <1>4, <2>1, <2>2 DEF EmissionTypeOK, Call
  <2>4. Imported'
    BY <1>1, <2>1, <2>2 DEF StoreInv, Imported
  <2>5. StoreExact'
    BY <1>1, <1>3, <2>1, <2>2 DEF StoreInv, StoreExact
  <2> QED BY <1>5, <2>3, <2>4, <2>5 DEF StoreInv
<1>7. CASE ~ok
  <2>1. UNCHANGED <<db, log, answered>>
    BY <1>7 DEF EndSend
  <2>2. EmissionTypeOK'
    BY <1>1, <1>2, <1>4, <2>1 DEF EmissionTypeOK, Call
  <2>3. Imported' /\ StoreExact'
    BY <1>1, <2>1 DEF StoreInv, Imported, StoreExact
  <2> QED BY <1>5, <2>2, <2>3 DEF StoreInv
<1> QED BY <1>6, <1>7

LEMMA ImportStored ==
  ASSUME StoreInv, StartupSync \/ NoSync \/ PostImport \/ EndImport
  PROVE  StoreInv'
<1>1. Exported \in Seq(Ids) /\ Exported # Undefined /\ <<>> # Undefined
  <2>1. <<>> \in Seq(Ids) /\ Undefined \notin Seq(Ids) /\ Exported \in Seq(Ids)
    BY EmissionConstants
  <2> QED BY <2>1
<1>2. UNCHANGED <<recorded, db, sends, answered, cut>> /\ server # "down"
  <2>1. ASSUME EndImport PROVE server # "down"
    BY <1>1, <2>1 DEF EndImport, StoreInv, Awaited
  <2> QED BY <2>1 DEF StartupSync, NoSync, PostImport, EndImport
<1>3. EmissionTypeOK'
  <2>1. /\ server' \in {"down", "syncing", "serving"} /\ importing' \in Seq(Ids) \cup {Undefined}
        /\ synced' \in {"no", "skipped", "imported"}
    BY <1>1 DEF StartupSync, NoSync, PostImport, EndImport, StoreInv, EmissionTypeOK
  <2> QED BY <1>2, <2>1 DEF StoreInv, EmissionTypeOK
<1>4. server' # "down"
  BY <1>2 DEF StartupSync, NoSync, PostImport, EndImport
<1>5. Awaited'
  BY <1>2, <1>4 DEF StoreInv, Awaited, Awaiting
<1>6. StoreExact'
  BY <1>2, <1>4 DEF StoreInv, StoreExact
<1>7. Imported'
  <2>1. CASE StartupSync
    BY <1>2, <1>1, <2>1 DEF StartupSync, StoreInv, Imported
  <2>2. CASE NoSync
    BY <1>2, <2>2 DEF NoSync, StoreInv, Imported
  <2>3. CASE PostImport
    BY <1>2, <1>1, <2>3 DEF PostImport, StoreInv, Imported
  <2>4. CASE EndImport
    BY <1>2, <1>1, <2>4, EmptyToSet DEF EndImport, StoreInv, Imported
  <2> QED BY <2>1, <2>2, <2>3, <2>4
<1> QED BY <1>3, <1>5, <1>6, <1>7 DEF StoreInv

LEMMA ImportMessageStored ==
  ASSUME StoreInv, ImportMessage
  PROVE  StoreInv'
<1> DEFINE id == Head(importing)
<1>1. /\ importing \in Seq(Ids) /\ importing # <<>> /\ importing # Undefined
      /\ importing' = Tail(importing) /\ db' = AppendMessage(id) /\ recorded' = Replayed(id)
      /\ UNCHANGED <<server, sends, log, starts, answered, cut, synced>>
  BY DEF ImportMessage, StoreInv, EmissionTypeOK
<1>2. id \in Ids /\ importing' \in Seq(Ids) /\ ToSet(importing) = ToSet(importing') \cup {id}
  BY <1>1, ToSetTail
<1> HIDE DEF id
<1>3. /\ db' \in Seq(Ids) /\ db' # <<>> /\ ToSet(db') = ToSet(db) \cup {id}
      /\ Len(db') = Cardinality(ToSet(db'))
      /\ recorded' \in Seq(Ids) /\ ToSet(recorded') = ToSet(recorded) \cup {id}
  BY <1>1, <1>2, AppendMessageOK, ReplayedOK
<1>4. EmissionTypeOK'
  BY <1>1, <1>2, <1>3 DEF StoreInv, EmissionTypeOK
<1>5. Awaited'
  <2>1. server # "down"
    BY <1>1 DEF StoreInv, Awaited
  <2>2. \A s \in Awaiting' : sends'[s].id \in ToSet(recorded')
    BY <1>1, <1>3 DEF StoreInv, Awaited, Awaiting
  <2> QED BY <1>1, <2>1, <2>2 DEF Awaited
<1>6. importing' # Undefined
  BY <1>2, EmissionConstants
<1>7. Imported'
  BY <1>1, <1>2, <1>3, <1>6 DEF StoreInv, Imported
<1>8. StoreExact'
  BY <1>1, <1>2, <1>3 DEF StoreInv, StoreExact, Imported
<1> QED BY <1>4, <1>5, <1>7, <1>8 DEF StoreInv

LEMMA StartServerStored ==
  ASSUME StoreInv, StartServer
  PROVE  StoreInv'
<1>1. /\ server = "down" /\ server' = "syncing" /\ recorded' = db
      /\ UNCHANGED <<db, sends, importing, log, answered, cut, synced>>
  BY DEF StartServer
<1>2. EmissionTypeOK' /\ Imported' /\ StoreExact'
  BY <1>1 DEF StoreInv, EmissionTypeOK, Imported, StoreExact
<1>3. Awaited'
  BY <1>1 DEF StoreInv, Awaited, Awaiting
<1> QED BY <1>2, <1>3 DEF StoreInv

LEMMA KillServerStored ==
  ASSUME StoreInv, KillServer
  PROVE  StoreInv'
<1>1. /\ server' = "down" /\ recorded' = <<>> /\ importing' = Undefined
      /\ sends' = [s \in DOMAIN sends |-> [id |-> Undefined, by |-> 0, before |-> 0, stage |-> "past"]]
      /\ cut' = (cut \/ importing # Undefined) /\ synced' = "no" /\ UNCHANGED <<db, starts, answered>>
  BY DEF KillServer
<1>2. sends' \in Seq([id : Ids \cup {Undefined}, by : Nat, before : Nat,
                      stage : {"awaiting", "ok", "failed", "past"}])
  <2> DEFINE Call == [id : Ids \cup {Undefined}, by : Nat, before : Nat,
                      stage : {"awaiting", "ok", "failed", "past"}]
             past == [id |-> Undefined, by |-> 0, before |-> 0, stage |-> "past"]
  <2>1. past \in Call
    OBVIOUS
  <2>2. sends \in Seq(Call)
    BY DEF StoreInv, EmissionTypeOK
  <2> HIDE DEF Call, past
  <2>3. [t \in 1..Len(sends) |-> past] \in Seq(Call)
    BY <2>1, <2>2
  <2>4. sends' = [t \in 1..Len(sends) |-> past]
    BY <1>1, <2>2 DEF past
  <2> QED BY <2>3, <2>4 DEF Call
<1>3. EmissionTypeOK'
  BY <1>1, <1>2 DEF StoreInv, EmissionTypeOK
<1>4. Awaited'
  BY <1>1 DEF Awaited, Awaiting
<1>5. Imported' /\ StoreExact'
  BY <1>1 DEF StoreInv, Imported, StoreExact
<1> QED BY <1>3, <1>4, <1>5 DEF StoreInv

\* The invariant holds throughout.
LEMMA StoreInvariant == EmissionSpec => []StoreInv
<1>1. StoreInv /\ [EmissionNext]_emissionVars => StoreInv'
  <2> SUFFICES ASSUME StoreInv, [EmissionNext]_emissionVars PROVE StoreInv'
    OBVIOUS
  <2>1. CASE UNCHANGED emissionVars
    BY <2>1 DEF emissionVars, StoreInv, EmissionTypeOK, Awaited, Awaiting, Imported, StoreExact
  <2> QED BY <2>1, BeginSendStored, EndSendStored, ImportStored, ImportMessageStored,
             StartServerStored, KillServerStored DEF EmissionNext
<1> QED BY <1>1, EmissionInitInv, PTL DEF EmissionSpec

\* Once the sends and imports are over, the store holds what was answered for, each message
\* once, and all of the export unless a failure explains what is missing: the tap writes a
\* message before its send returns, an import appends only what is not there, and a restart
\* loses nothing that was written.
THEOREM StoreIsComplete == EmissionSpec => []StoreComplete
<1>1. StoreInv => StoreComplete
  BY DEF StoreInv, EmissionTypeOK, Imported, StoreComplete, MissingExplained
<1> QED BY <1>1, StoreInvariant, PTL

-------------------------------------------------------------------------------
(* The events.                                                              *)

\* What a synthesized event is.
PastEvents(ids) == [type : {"trace.started", "message.appended", "trace.completed"},
                    id : ToSet(ids) \cup {ids[1]}, live : {FALSE}]

\* A single event.
LEMMA Singly ==
  ASSUME NEW E, NEW e \in E
  PROVE  <<e>> \in Seq(E)
  OBVIOUS

\* Synthesized events are of the past, by recursion over the messages they are made of.
LEMMA SynthesizedPast ==
  ASSUME NEW ids, Len(ids) \in Nat, DOMAIN ids = 1..Len(ids)
  PROVE  SynthesizedEvents(ids) \in Seq(PastEvents(ids))
<1> DEFINE N == Len(ids)
           S == Seq(PastEvents(ids))
           of(id) == <<Event("message.appended", id, FALSE)>>
                       \o IF IsRootTraceCompletion(id, ids[1])
                          THEN <<Event("trace.completed", id, FALSE)>> ELSE <<>>
           base == <<Event("trace.started", ids[1], FALSE)>>
           upTo[n \in 0..N] == IF n = 0 THEN base ELSE upTo[n - 1] \o of(ids[n])
           step == [p \in (1..N) \X S |-> p[2] \o of(ids[p[1]])]
<1>1. SynthesizedEvents(ids) = upTo[N]
  BY DEF SynthesizedEvents
<1>2. base \in S
  <2>1. Event("trace.started", ids[1], FALSE) \in PastEvents(ids)
    BY DEF Event, PastEvents
  <2> QED BY <2>1, Singly
<1>3. ASSUME NEW n \in 1..N PROVE of(ids[n]) \in S
  <2>1. ids[n] \in ToSet(ids)
    BY DEF ToSet
  <2>2. /\ Event("message.appended", ids[n], FALSE) \in PastEvents(ids)
        /\ Event("trace.completed", ids[n], FALSE) \in PastEvents(ids)
    BY <2>1 DEF Event, PastEvents
  <2> DEFINE e1 == Event("message.appended", ids[n], FALSE)
             e2 == Event("trace.completed", ids[n], FALSE)
             p == IsRootTraceCompletion(ids[n], ids[1])
  <2>9. e1 \in PastEvents(ids) /\ e2 \in PastEvents(ids)
    BY <2>2
  <2> HIDE DEF e1, e2
  <2>3. <<e1>> \in Seq(PastEvents(ids)) /\ <<e2>> \in Seq(PastEvents(ids)) /\ <<>> \in Seq(PastEvents(ids))
    BY <2>9, Singly
  <2>4. of(ids[n]) = <<e1>> \o IF p THEN <<e2>> ELSE <<>>
    BY DEF e1, e2
  <2> HIDE DEF p, of
  <2>5. (<<e1>> \o IF p THEN <<e2>> ELSE <<>>) \in Seq(PastEvents(ids))
    BY <2>3
  <2> QED BY <2>4, <2>5
<1>4. \A x, y \in S : x \o y \in S
  OBVIOUS
<1> HIDE DEF S, of, base
<1>5. step \in [(1..N) \X S -> S]
  BY <1>3, <1>4
<1>6. PICK f : Recursive(f, N, S, base, step)
  <2>1. N \in Nat
    OBVIOUS
  <2> HIDE DEF step, N
  <2> QED BY <1>2, <1>5, <2>1, Recursion
<1>7. ASSUME NEW n \in 1..N PROVE f[n] = f[n - 1] \o of(ids[n])
  <2>1. n - 1 \in 0..N /\ f[n - 1] \in S
    BY <1>6 DEF Recursive
  <2> QED BY <1>6, <2>1 DEF Recursive
<1>8. f = [n \in 0..N |-> IF n = 0 THEN base ELSE f[n - 1] \o of(ids[n])]
  <2>1. ASSUME NEW n \in 0..N
        PROVE  f[n] = IF n = 0 THEN base ELSE f[n - 1] \o of(ids[n])
    <3>1. n = 0 \/ n \in 1..N
      OBVIOUS
    <3> QED BY <1>6, <1>7, <3>1 DEF Recursive
  <2> QED BY <1>6, <2>1 DEF Recursive
<1>9. upTo = [n \in 0..N |-> IF n = 0 THEN base ELSE upTo[n - 1] \o of(ids[n])]
  BY <1>8
<1>10. \A n \in 0..N : upTo[n] \in S
  <2> HIDE DEF upTo
  <2> DEFINE bad == {n \in 0..N : upTo[n] \notin S}
  <2>1. SUFFICES ASSUME bad # {} PROVE FALSE
    OBVIOUS
  <2>2. PICK n \in bad : \A k \in bad : n <= k
    <3>1. bad \subseteq Nat
      OBVIOUS
    <3> HIDE DEF bad
    <3> QED BY <2>1, <3>1, LeastNat
  <2>3. n # 0
    BY <1>2, <1>9
  <2>4. n - 1 \in 0..N /\ n \in 1..N /\ ~(n <= n - 1)
    BY <2>3
  <2>5. upTo[n - 1] \in S
    BY <2>2, <2>4
  <2>6. upTo[n] = upTo[n - 1] \o of(ids[n])
    BY <1>9, <2>3
  <2> QED BY <1>3, <1>4, <2>4, <2>5, <2>6
<1>11. N \in 0..N
  OBVIOUS
<1> QED BY <1>1, <1>10, <1>11 DEF S

\* What publishMessageObservabilityEvents() publishes of a message.
\* What the emitter tells of a message.
Told(es, id, new, root) ==
  /\ \A k \in DOMAIN es :
       /\ es[k].live /\ es[k].id = id
       /\ es[k].type = "trace.started" => new /\ k = 1
       /\ es[k].type = "trace.completed" => ReplyTo[id] = root
  /\ \E k \in DOMAIN es : es[k].type = "message.appended"
  /\ new => \E k \in DOMAIN es : es[k].type = "trace.started"
  /\ ReplyTo[id] = root /\ root # Undefined => \E k \in DOMAIN es : es[k].type = "trace.completed"

\* What is appended to the log comes after what was told, which stays.
LEMMA Longer ==
  ASSUME NEW X, NEW l \in Seq(X), NEW Y, NEW es \in Seq(Y)
  PROVE  /\ \E Z : l \o es \in Seq(Z)
         /\ DOMAIN l \subseteq DOMAIN (l \o es) /\ \A i \in DOMAIN l : (l \o es)[i] = l[i]
         /\ \A k \in DOMAIN es : /\ Len(l) + k \in DOMAIN (l \o es)
                                 /\ (l \o es)[Len(l) + k] = es[k]
         /\ \A i \in DOMAIN (l \o es) : i \in DOMAIN l \/ \E k \in DOMAIN es : i = Len(l) + k
<1>1. l \in Seq(X \cup Y) /\ es \in Seq(X \cup Y)
  OBVIOUS
<1>2. /\ l \o es \in Seq(X \cup Y) /\ Len(l \o es) = Len(l) + Len(es)
      /\ DOMAIN l = 1..Len(l) /\ DOMAIN es = 1..Len(es) /\ DOMAIN (l \o es) = 1..(Len(l) + Len(es))
      /\ Len(l) \in Nat /\ Len(es) \in Nat
  BY <1>1
<1>3. \A i \in 1..Len(l) : (l \o es)[i] = l[i]
  BY <1>1
<1>4. ASSUME NEW k \in 1..Len(es)
      PROVE  Len(l) + k \in 1..(Len(l) + Len(es)) /\ (l \o es)[Len(l) + k] = es[k]
  BY <1>1, <1>2
<1>5. ASSUME NEW i \in 1..(Len(l) + Len(es)), i \notin 1..Len(l)
      PROVE  \E k \in 1..Len(es) : i = Len(l) + k
  <2>1. i - Len(l) \in 1..Len(es) /\ i = Len(l) + (i - Len(l))
    BY <1>2, <1>5
  <2> QED BY <2>1
<1>6. \E Z : l \o es \in Seq(Z)
  BY <1>2
<1>7. \A k \in DOMAIN es : Len(l) + k \in DOMAIN (l \o es) /\ (l \o es)[Len(l) + k] = es[k]
  BY <1>2, <1>4
<1>8. \A i \in DOMAIN (l \o es) : i \in DOMAIN l \/ \E k \in DOMAIN es : i = Len(l) + k
  BY <1>2, <1>5
<1>9. DOMAIN l \subseteq DOMAIN (l \o es) /\ \A i \in DOMAIN l : (l \o es)[i] = l[i]
  BY <1>2, <1>3
<1> QED BY <1>6, <1>7, <1>8, <1>9

\* That is what it tells.
LEMMA MessageEventsTold ==
  ASSUME NEW id, NEW new \in BOOLEAN, NEW root
  PROVE  /\ \E X : MessageEvents(id, new, root) \in Seq(X)
         /\ Told(MessageEvents(id, new, root), id, new, root)
<1> DEFINE es == MessageEvents(id, new, root)
           started == Event("trace.started", id, TRUE)
           told == Event("message.appended", id, TRUE)
           completed == Event("trace.completed", id, TRUE)
           X == {started, told, completed}
<1>1. /\ started.type = "trace.started" /\ started.live /\ started.id = id
      /\ told.type = "message.appended" /\ told.live /\ told.id = id
      /\ completed.type = "trace.completed" /\ completed.live /\ completed.id = id
  BY DEF Event
<1>2. es = (IF new THEN <<started>> ELSE <<>>) \o <<told>>
             \o (IF IsRootTraceCompletion(id, root) THEN <<completed>> ELSE <<>>)
  BY DEF MessageEvents
<1>3. IsRootTraceCompletion(id, root) <=> ReplyTo[id] = root /\ root # Undefined
  BY DEF IsRootTraceCompletion
<1> DEFINE p == IsRootTraceCompletion(id, root)
<1> HIDE DEF es, started, told, completed, p
<1>4. started \in X /\ told \in X /\ completed \in X
  OBVIOUS
<1> HIDE DEF X
<1>5. /\ <<started>> \in Seq(X) /\ <<told>> \in Seq(X) /\ <<completed>> \in Seq(X)
      /\ <<>> \in Seq(X)
  BY <1>4
<1>6. CASE new /\ p
  <2>1. es = <<started>> \o <<told>> \o <<completed>>
    BY <1>2, <1>6 DEF p
  <2>2. PICK two \in Seq(X) : /\ two = <<started>> \o <<told>> /\ Len(two) = 2
                             /\ two[1] = started /\ two[2] = told
    <3> DEFINE both == <<started>> \o <<told>>
    <3>1. both \in Seq(X) /\ Len(both) = 2 /\ both[1] = started /\ both[2] = told
      BY <1>5
    <3> HIDE DEF both
    <3> QED BY <3>1 DEF both
  <2>3. es = two \o <<completed>>
    BY <2>1, <2>2
  <2>4. es = Append(two, completed)
    BY <1>4, <2>2, <2>3
  <2>5. es \in Seq(X) /\ DOMAIN es = 1..3 /\ es[1] = started /\ es[2] = told /\ es[3] = completed
    <3>1. es \in Seq(X) /\ Len(es) = Len(two) + 1
      BY <1>4, <2>2, <2>4
    <3>2. es[Len(two) + 1] = completed
      BY <1>4, <2>2, <2>4
    <3>3. es[1] = two[1]
      BY <1>4, <2>2, <2>4
    <3>4. es[2] = two[2]
      BY <1>4, <2>2, <2>4
    <3> QED BY <2>2, <3>1, <3>2, <3>3, <3>4
  <2>6. Told(es, id, new, root)
    BY <1>1, <1>3, <1>6, <2>5 DEF Told, p
  <2> QED BY <2>5, <2>6 DEF es
<1>7. CASE new /\ ~p
  <2>1. es = <<started>> \o <<told>> \o <<>>
    BY <1>2, <1>7 DEF p
  <2>2. es \in Seq(X) /\ DOMAIN es = 1..2 /\ es[1] = started /\ es[2] = told
    BY <1>5, <2>1
  <2>3. Told(es, id, new, root)
    BY <1>1, <1>3, <1>7, <2>2 DEF Told, p
  <2> QED BY <2>2, <2>3 DEF es
<1>8. CASE ~new /\ p
  <2>1. es = <<>> \o <<told>> \o <<completed>>
    BY <1>2, <1>8 DEF p
  <2>2. es \in Seq(X) /\ DOMAIN es = 1..2 /\ es[1] = told /\ es[2] = completed
    BY <1>5, <2>1
  <2>3. Told(es, id, new, root)
    BY <1>1, <1>3, <1>8, <2>2 DEF Told, p
  <2> QED BY <2>2, <2>3 DEF es
<1>9. CASE ~new /\ ~p
  <2>1. es = <<>> \o <<told>> \o <<>>
    BY <1>2, <1>9 DEF p
  <2>2. es \in Seq(X) /\ DOMAIN es = 1..1 /\ es[1] = told
    BY <1>5, <2>1
  <2>3. Told(es, id, new, root)
    BY <1>1, <1>3, <1>9, <2>2 DEF Told, p
  <2> QED BY <2>2, <2>3 DEF es
<1> QED BY <1>6, <1>7, <1>8, <1>9

\* What was told of sends, the sends that returned, and those that this process has begun.
Live(type) == {i \in DOMAIN log : log[i].live /\ log[i].type = type}
Ended == {s \in DOMAIN sends : sends[s].stage = "ok"}
BegunHere == Ended \cup {s \in DOMAIN sends : sends[s].stage \in {"awaiting", "failed"}}
Overflown == Len(recorded) > TraceLimit
Tells(type, id) == \E i \in Live(type) : log[i].id = id

\* The send that found the trace empty is the only one, and recorded its first message.
FirstSend ==
  /\ \A s \in BegunHere : recorded # <<>> /\ (sends[s].before = 0 => sends[s].id = recorded[1])
  /\ \A s, t \in BegunHere : sends[s].before = 0 /\ sends[t].before = 0 => s = t

\* A handler sends while it is awaited.
Nested ==
  /\ \A t \in DOMAIN sends : sends[t].by < t
  /\ \A s, t \in DOMAIN sends :
       sends[t].by = s /\ sends[t].stage = "awaiting" => sends[s].stage = "awaiting"

\* The start of the trace is told once, of its first message, by the send that recorded it.
StartTold ==
  /\ \A i, j \in Live("trace.started") : i = j
  /\ \A i \in Live("trace.started") : recorded # <<>> /\ log[i].id = recorded[1]
  /\ Live("trace.started") # {} => \E s \in Ended : sends[s].before = 0
  /\ \A s \in Ended : sends[s].before = 0 => Tells("trace.started", sends[s].id)

\* Its end is told of replies to the first message, as long as the ring has kept that one.
EndTold ==
  /\ Live("trace.completed") # {} => recorded # <<>>
  /\ Overflown \/ \A i \in Live("trace.completed") : ReplyTo[log[i].id] = recorded[1]
  /\ Overflown \/ \A s \in Ended :
       ReplyTo[sends[s].id] = recorded[1] => Tells("trace.completed", sends[s].id)

\* A send is told when it returns, after those that its handler made.
SendsTold ==
  /\ \A s \in Ended : Tells("message.appended", sends[s].id)
  /\ \A s, t \in Ended : sends[t].by = s =>
       \E i, j \in Live("message.appended") :
         i < j /\ log[i].id = sends[t].id /\ log[j].id = sends[s].id

\* The inductive invariant of the events.
LifeInv ==
  /\ \E X : log \in Seq(X)
  /\ server = "down" => log = <<>> /\ BegunHere = {}
  /\ FirstSend /\ Nested /\ StartTold /\ EndTold /\ SendsTold

\* Nothing new is told, and what was recorded stays.
LEMMA QuietStep ==
  ASSUME LifeInv, StoreInv, StoreInv', server # "down", server' # "down", sends' = sends,
         \E X : log' \in Seq(X),
         DOMAIN log \subseteq DOMAIN log', \A i \in DOMAIN log : log'[i] = log[i],
         \A i \in DOMAIN log' : i \in DOMAIN log \/ ~log'[i].live,
         Len(recorded) <= Len(recorded'),
         recorded # <<>> => recorded' # <<>> /\ recorded'[1] = recorded[1]
  PROVE  LifeInv'
<1>1. ASSUME NEW type PROVE Live(type)' = Live(type)
  BY DEF Live
<1>2. \A type : \A i \in Live(type) : log'[i] = log[i]
  BY DEF Live
<1>3. Ended' = Ended /\ BegunHere' = BegunHere
  BY DEF Ended, BegunHere
<1>4. ASSUME NEW type, NEW id PROVE Tells(type, id)' <=> Tells(type, id)
  BY <1>1, <1>2 DEF Tells
<1>5. Overflown => Overflown'
  BY EmissionConstants DEF Overflown, StoreInv, EmissionTypeOK
<1>6. FirstSend'
  BY <1>3 DEF LifeInv, FirstSend
<1>7. Nested'
  BY DEF LifeInv, Nested
<1>8. StartTold'
  BY <1>1, <1>2, <1>3, <1>4 DEF LifeInv, StartTold
<1>9. EndTold'
  <2>1. Ended # {} => recorded # <<>>
    BY DEF LifeInv, FirstSend, BegunHere
  <2> QED BY <1>1, <1>2, <1>3, <1>4, <1>5, <2>1 DEF LifeInv, EndTold
<1>10. SendsTold'
  BY <1>1, <1>2, <1>3, <1>4 DEF LifeInv, SendsTold
<1> QED BY <1>6, <1>7, <1>8, <1>9, <1>10 DEF LifeInv

\* An import tells of the past only.
LEMMA ImportLife ==
  ASSUME LifeInv, StoreInv, StoreInv', StartupSync \/ NoSync \/ PostImport \/ EndImport
  PROVE  LifeInv'
<1>1. UNCHANGED <<recorded, sends, db>> /\ server # "down" /\ server' # "down"
  <2>1. ASSUME EndImport PROVE server # "down"
    <3>1. <<>> # Undefined
      <4>1. <<>> \in Seq(Ids) /\ Undefined \notin Seq(Ids)
        BY EmissionConstants
      <4> QED BY <4>1
    <3> QED BY <2>1, <3>1 DEF EndImport, StoreInv, Awaited
  <2> QED BY <2>1 DEF StartupSync, NoSync, PostImport, EndImport
<1>2. Len(recorded) <= Len(recorded)
  BY DEF StoreInv, EmissionTypeOK
<1>3. CASE UNCHANGED log
  BY <1>1, <1>2, <1>3, QuietStep DEF LifeInv
<1>4. CASE EndImport
  <2> DEFINE es == SynthesizedEvents(db)
             Y == PastEvents(db)
  <2>1. db \in Seq(Ids) /\ log' = log \o es
    BY <1>4 DEF EndImport, StoreInv, EmissionTypeOK
  <2>2. es \in Seq(Y)
    BY <2>1, SynthesizedPast
  <2>3. PICK X : log \in Seq(X)
    BY DEF LifeInv
  <2> HIDE DEF es
  <2>4. ASSUME NEW k \in DOMAIN es PROVE ~es[k].live
    <3> HIDE DEF Y
    <3>1. es[k] \in Y
      BY <2>2
    <3>2. es[k].live \in {FALSE}
      BY <3>1 DEF Y, PastEvents
    <3> QED BY <3>2, Zenon
  <2> HIDE DEF Y
  <2>5. /\ \E Z : log' \in Seq(Z)
        /\ DOMAIN log \subseteq DOMAIN log' /\ \A i \in DOMAIN log : log'[i] = log[i]
        /\ \A i \in DOMAIN log' : i \in DOMAIN log \/ ~log'[i].live
    BY <2>1, <2>2, <2>3, <2>4, Longer
  <2> QED BY <1>1, <1>2, <2>5, QuietStep
<1> QED BY <1>3, <1>4 DEF StartupSync, NoSync, PostImport

LEMMA ImportMessageLife ==
  ASSUME LifeInv, StoreInv, StoreInv', ImportMessage
  PROVE  LifeInv'
<1> DEFINE id == Head(importing)
<1>1. recorded' = Replayed(id) /\ UNCHANGED <<server, sends, log>> /\ importing # Undefined
  BY DEF ImportMessage
<1>2. recorded \in Seq(Ids) /\ recorded' \in Seq(Ids) /\ server # "down"
  BY <1>1 DEF StoreInv, EmissionTypeOK, Awaited
<1> HIDE DEF id
<1>3. Len(recorded) <= Len(recorded') /\ (recorded # <<>> => recorded' # <<>> /\ recorded'[1] = recorded[1])
  <2>1. CASE id \in ToSet(recorded)
    BY <1>1, <1>2, <2>1 DEF Replayed
  <2>2. CASE id \notin ToSet(recorded)
    <3>1. recorded' = Append(recorded, id)
      BY <1>1, <2>2 DEF Replayed
    <3> QED BY <1>2, <3>1
  <2> QED BY <2>1, <2>2
<1> QED BY <1>1, <1>2, <1>3, QuietStep DEF LifeInv

LEMMA StartServerLife ==
  ASSUME LifeInv, StoreInv, StoreInv', StartServer
  PROVE  LifeInv'
<1>1. log = <<>> /\ BegunHere = {} /\ UNCHANGED <<log, sends>> /\ server' # "down"
  BY DEF StartServer, LifeInv
<1>2. BegunHere' = {} /\ Ended' = {} /\ \A type : Live(type)' = {}
  BY <1>1 DEF BegunHere, Ended, Live
<1>3. FirstSend' /\ Nested' /\ StartTold' /\ EndTold' /\ SendsTold'
  BY <1>1, <1>2 DEF LifeInv, FirstSend, Nested, StartTold, EndTold, SendsTold
<1> QED BY <1>1, <1>3 DEF LifeInv

LEMMA KillServerLife ==
  ASSUME LifeInv, StoreInv, KillServer
  PROVE  LifeInv'
<1>1. /\ server' = "down" /\ log' = <<>>
      /\ sends' = [s \in DOMAIN sends |-> [id |-> Undefined, by |-> 0, before |-> 0, stage |-> "past"]]
      /\ DOMAIN sends' = DOMAIN sends
  BY DEF KillServer
<1>2. \A s \in DOMAIN sends' : sends'[s].stage = "past" /\ sends'[s].by = 0
  BY <1>1
<1>3. BegunHere' = {} /\ Ended' = {} /\ \A type : Live(type)' = {}
  BY <1>1, <1>2 DEF BegunHere, Ended, Live
<1>4. Nested'
  <2>1. DOMAIN sends \subseteq Nat \ {0}
    BY DEF StoreInv, EmissionTypeOK
  <2> QED BY <1>1, <1>2, <2>1 DEF Nested
<1>5. FirstSend' /\ StartTold' /\ EndTold' /\ SendsTold'
  BY <1>3 DEF FirstSend, StartTold, EndTold, SendsTold
<1>6. \E X : <<>> \in Seq(X)
  <2>1. <<>> \in Seq({})
    OBVIOUS
  <2> QED BY <2>1
<1> QED BY <1>1, <1>3, <1>4, <1>5, <1>6 DEF LifeInv

LEMMA InitLife ==
  ASSUME EmissionInit
  PROVE  LifeInv
<1>1. sends = <<>> /\ log = <<>>
  BY DEF EmissionInit
<1>2. DOMAIN sends = {} /\ DOMAIN log = {}
  BY <1>1
<1>3. BegunHere = {} /\ Ended = {} /\ \A type : Live(type) = {}
  BY <1>2 DEF BegunHere, Ended, Live
<1>4. FirstSend /\ Nested /\ StartTold /\ EndTold /\ SendsTold
  BY <1>2, <1>3 DEF FirstSend, Nested, StartTold, EndTold, SendsTold
<1>5. \E X : <<>> \in Seq(X)
  <2>1. <<>> \in Seq({})
    OBVIOUS
  <2> QED BY <2>1
<1> QED BY <1>1, <1>3, <1>4, <1>5 DEF LifeInv

\* A send that begins tells nothing yet.
LEMMA BeginSendLife ==
  ASSUME LifeInv, StoreInv, StoreInv', NEW id \in Ids, NEW p \in 0..Len(sends), BeginSend(id, p)
  PROVE  LifeInv'
<1> DEFINE new == [id |-> id, by |-> p, before |-> Len(BusTrace), stage |-> "awaiting"]
           n == Len(sends) + 1
<1>1. /\ sends' = Append(sends, new) /\ recorded' = Append(recorded, id) /\ server = "serving"
      /\ UNCHANGED <<server, db, importing, log>> /\ (p # 0 => sends[p].stage = "awaiting")
  BY DEF BeginSend
<1>2. new.id = id /\ new.by = p /\ new.before = Len(BusTrace) /\ new.stage = "awaiting"
  OBVIOUS
<1>3. /\ recorded \in Seq(Ids) /\ EmissionTypeOK
      /\ sends \in Seq([id : Ids \cup {Undefined}, by : Nat, before : Nat,
                        stage : {"awaiting", "ok", "failed", "past"}])
  BY DEF StoreInv, EmissionTypeOK
<1>4. recorded # <<>> => Len(BusTrace) # 0
  BY <1>3, EmissionConstants DEF BusTrace
<1> HIDE DEF new
<1>5. /\ DOMAIN sends' = DOMAIN sends \cup {n} /\ n \notin DOMAIN sends /\ sends'[n] = new
      /\ \A s \in DOMAIN sends : sends'[s] = sends[s] /\ s < n
      /\ n \in Nat /\ DOMAIN sends \subseteq Nat
  BY SMTT(30), <1>1, <1>3
<1>6. /\ recorded' # <<>> /\ (recorded # <<>> => recorded'[1] = recorded[1])
      /\ (recorded = <<>> => recorded'[1] = id) /\ (Overflown => Overflown')
  BY <1>1, <1>3, EmissionConstants DEF Overflown
<1>7. Ended' = Ended /\ BegunHere' = BegunHere \cup {n} /\ n \notin BegunHere
        /\ \A s \in BegunHere : sends'[s] = sends[s]
  BY <1>2, <1>5 DEF Ended, BegunHere
<1>8. \A type : Live(type)' = Live(type)
  BY <1>1 DEF Live
<1>9. ASSUME NEW type, NEW e PROVE Tells(type, e)' <=> Tells(type, e)
  BY <1>1, <1>8 DEF Tells
<1>10. FirstSend'
  <2>1. new.before = 0 => recorded = <<>>
    BY <1>2, <1>4
  <2>2. \A s \in BegunHere : recorded # <<>>
    BY DEF LifeInv, FirstSend
  <2>3. sends'[n] = new
    BY <1>5
  <2>4. \A s \in BegunHere' : sends'[s].before = 0 => sends'[s].id = recorded'[1]
    <3>1. ASSUME NEW s \in BegunHere PROVE sends'[s].before = 0 => sends'[s].id = recorded'[1]
      BY <1>6, <1>7 DEF LifeInv, FirstSend
    <3>2. new.before = 0 => new.id = recorded'[1]
      BY <1>2, <1>6, <2>1
    <3> QED BY <1>7, <2>3, <3>1, <3>2
  <2>5. ASSUME NEW s \in BegunHere', NEW t \in BegunHere', sends'[s].before = 0, sends'[t].before = 0
        PROVE  s = t
    <3>1. CASE s \in BegunHere /\ t \in BegunHere
      BY <1>7, <2>5, <3>1 DEF LifeInv, FirstSend
    <3>2. CASE s = n /\ t # n
      BY <1>7, <2>1, <2>2, <2>3, <2>5, <3>2
    <3>3. CASE s # n /\ t = n
      BY <1>7, <2>1, <2>2, <2>3, <2>5, <3>3
    <3> QED BY <1>7, <3>1, <3>2, <3>3
  <2> QED BY <1>6, <2>4, <2>5 DEF FirstSend
<1>11. Nested'
  <2>1. p < n
    BY <1>3
  <2>2. \A t \in DOMAIN sends' : sends'[t].by < t
    BY <1>2, <1>5, <2>1 DEF LifeInv, Nested
  <2>3. ASSUME NEW s \in DOMAIN sends', NEW t \in DOMAIN sends', sends'[t].by = s,
               sends'[t].stage = "awaiting"
        PROVE  sends'[s].stage = "awaiting"
    <3>1. CASE t = n
      <4>1. s = p /\ s \in DOMAIN sends
        BY <1>2, <1>5, <2>2, <2>3, <3>1
      <4>2. p # 0
        BY <1>3, <4>1
      <4> QED BY <1>1, <1>5, <4>1, <4>2
    <3>2. CASE t # n
      <4>1. t \in DOMAIN sends /\ sends[t].by = s /\ sends[t].stage = "awaiting"
        BY <1>5, <2>3, <3>2
      <4>2. s < n
        BY <1>3, <1>5, <4>1 DEF LifeInv, Nested
      <4>3. s \in DOMAIN sends
        BY <1>5, <4>2
      <4> QED BY <1>5, <4>1, <4>3 DEF LifeInv, Nested
    <3> QED BY <3>1, <3>2
  <2> QED BY <2>2, <2>3 DEF Nested
<1>12. Ended # {} => recorded # <<>>
  BY DEF LifeInv, FirstSend, BegunHere
<1>13. \A s \in Ended : sends'[s] = sends[s]
  BY <1>7 DEF BegunHere
<1>14. StartTold'
  BY <1>1, <1>6, <1>7, <1>8, <1>9, <1>13 DEF LifeInv, StartTold
<1>15. EndTold'
  BY <1>1, <1>6, <1>7, <1>8, <1>9, <1>12, <1>13 DEF LifeInv, EndTold
<1>16. SendsTold'
  <2>1. \A s \in Ended' : Tells("message.appended", sends[s].id)'
    BY <1>7, <1>9, <1>13 DEF LifeInv, SendsTold
  <2>2. ASSUME NEW s \in Ended, NEW t \in Ended, sends'[t].by = s
        PROVE  \E i, j \in Live("message.appended") :
                 i < j /\ log'[i].id = sends'[t].id /\ log'[j].id = sends'[s].id
    <3>1. sends'[t] = sends[t] /\ sends'[s] = sends[s] /\ log' = log
      BY <1>1, <1>13
    <3> QED BY <2>2, <3>1 DEF LifeInv, SendsTold
  <2> QED BY <1>7, <1>8, <2>1, <2>2 DEF SendsTold
<1> QED BY <1>1, <1>10, <1>11, <1>14, <1>15, <1>16 DEF LifeInv

\* A send that returns tells of its message, and only of what it is the first or the last of.
LEMMA EndSendLife ==
  ASSUME LifeInv, StoreInv, StoreInv', NEW s \in DOMAIN sends, NEW ok \in BOOLEAN, EndSend(s, ok)
  PROVE  LifeInv'
<1> DEFINE call == [sends[s] EXCEPT !.stage = IF ok THEN "ok" ELSE "failed"]
           id == sends[s].id
<1>1. /\ sends[s].stage = "awaiting" /\ sends' = [sends EXCEPT ![s] = call]
      /\ \A t \in DOMAIN sends : sends[t].by = s => sends[t].stage # "awaiting"
      /\ UNCHANGED <<server, recorded, importing>>
  BY DEF EndSend
<1>2. /\ recorded \in Seq(Ids)
      /\ sends \in Seq([id : Ids \cup {Undefined}, by : Nat, before : Nat,
                        stage : {"awaiting", "ok", "failed", "past"}])
  BY DEF StoreInv, EmissionTypeOK
<1>3. /\ call.id = id /\ call.by = sends[s].by /\ call.before = sends[s].before
      /\ call.stage = (IF ok THEN "ok" ELSE "failed")
  BY <1>2
<1> HIDE DEF call
<1>4. /\ DOMAIN sends' = DOMAIN sends /\ sends'[s] = call
      /\ \A t \in DOMAIN sends : t # s => sends'[t] = sends[t]
  BY <1>1, <1>2
<1>5. \A t \in DOMAIN sends : /\ sends'[t].id = sends[t].id /\ sends'[t].by = sends[t].by
                              /\ sends'[t].before = sends[t].before
  BY <1>3, <1>4
<1>6. s \in BegunHere /\ s \notin Ended
  BY <1>1 DEF BegunHere, Ended
<1>7. BegunHere' = BegunHere /\ Ended' = (IF ok THEN Ended \cup {s} ELSE Ended)
  BY <1>1, <1>3, <1>4 DEF BegunHere, Ended
<1>8. server # "down" /\ recorded # <<>>
  BY <1>6 DEF LifeInv, FirstSend
<1>9. FirstSend'
  <2>1. BegunHere' \subseteq DOMAIN sends
    BY <1>7 DEF BegunHere, Ended
  <2> QED BY <1>1, <1>5, <1>7, <2>1 DEF LifeInv, FirstSend
<1>10. Nested'
  <2>1. \A t \in DOMAIN sends : sends'[t].stage = "awaiting" => t # s /\ sends[t].stage = "awaiting"
    BY <1>3, <1>4
  <2>2. ASSUME NEW t \in DOMAIN sends, NEW u \in DOMAIN sends, sends'[u].by = t,
               sends'[u].stage = "awaiting"
        PROVE  sends'[t].stage = "awaiting"
    <3>1. sends[u].by = t /\ sends[u].stage = "awaiting"
      BY <1>5, <2>1, <2>2
    <3>2. sends[t].stage = "awaiting" /\ t # s
      BY <1>1, <3>1 DEF LifeInv, Nested
    <3> QED BY <1>4, <3>2
  <2>3. \A t \in DOMAIN sends : sends'[t].by < t
    BY <1>5 DEF LifeInv, Nested
  <2> QED BY <1>4, <2>2, <2>3 DEF Nested
<1>11. CASE ~ok
  <2>1. log' = log /\ Ended' = Ended /\ \A t \in Ended : sends'[t] = sends[t]
    BY <1>4, <1>6, <1>7, <1>11 DEF EndSend, Ended
  <2>2. \A type : Live(type)' = Live(type)
    BY <2>1 DEF Live
  <2>3. ASSUME NEW type, NEW e PROVE Tells(type, e)' <=> Tells(type, e)
    BY <2>1, <2>2 DEF Tells
  <2>4. Overflown' <=> Overflown
    BY <1>1 DEF Overflown
  <2>5. StartTold'
    BY <1>1, <2>1, <2>2, <2>3 DEF LifeInv, StartTold
  <2>6. EndTold'
    BY <1>1, <2>1, <2>2, <2>3, <2>4 DEF LifeInv, EndTold
  <2>7. SendsTold'
    <3>1. \A t \in Ended' : Tells("message.appended", sends[t].id)'
      BY <2>1, <2>3 DEF LifeInv, SendsTold
    <3>2. \A t, u \in Ended' : sends'[u].by = t =>
            \E i, j \in Live("message.appended") :
              i < j /\ log'[i].id = sends'[u].id /\ log'[j].id = sends'[t].id
      BY <2>1 DEF LifeInv, SendsTold
    <3> QED BY <2>2, <3>1, <3>2 DEF SendsTold
  <2> QED BY <1>1, <1>8, <1>9, <1>10, <2>1, <2>5, <2>6, <2>7 DEF LifeInv
<1>12. CASE ok
  <2> DEFINE first == sends[s].before = 0
             es == MessageEvents(id, first, BusTrace[1])
  <2>1. log' = log \o es
    BY <1>12 DEF EndSend
  <2>2. Told(es, id, first, BusTrace[1])
    <3>1. first \in BOOLEAN
      OBVIOUS
    <3> QED BY <3>1, MessageEventsTold
  <2>3. PICK Y : es \in Seq(Y)
    <3>1. first \in BOOLEAN
      OBVIOUS
    <3> QED BY <3>1, MessageEventsTold
  <2> HIDE DEF es
  <2>4. PICK X : log \in Seq(X)
    BY DEF LifeInv
  <2>5. /\ \E Z : log' \in Seq(Z)
        /\ DOMAIN log \subseteq DOMAIN log' /\ \A i \in DOMAIN log : log'[i] = log[i]
        /\ \A k \in DOMAIN es : Len(log) + k \in DOMAIN log' /\ log'[Len(log) + k] = es[k]
        /\ \A i \in DOMAIN log' : i \in DOMAIN log \/ \E k \in DOMAIN es : i = Len(log) + k
    BY <2>1, <2>3, <2>4, Longer
  <2>6. DOMAIN log = 1..Len(log) /\ Len(log) \in Nat /\ DOMAIN es \subseteq Nat \ {0}
    BY <2>3, <2>4
  <2>7. ASSUME NEW type PROVE /\ Live(type) \subseteq Live(type)'
                              /\ \A i \in Live(type) : log'[i] = log[i] /\ i <= Len(log)
    BY <2>5, <2>6 DEF Live
  <2>8. ASSUME NEW type, NEW i \in Live(type)', i \notin Live(type)
        PROVE  /\ log'[i].id = id
               /\ type = "trace.started" => first /\ i = Len(log) + 1
               /\ type = "trace.completed" => ReplyTo[id] = BusTrace[1]
    <3>1. i \in DOMAIN log' /\ i \notin DOMAIN log /\ log'[i].type = type
      BY <2>5, <2>8 DEF Live
    <3>2. PICK k \in DOMAIN es : i = Len(log) + k
      BY <2>5, <3>1
    <3>3. log'[i] = es[k]
      BY <2>5, <3>2
    <3> QED BY <2>2, <3>1, <3>2, <3>3 DEF Told
  <2>9. ASSUME NEW type, NEW k \in DOMAIN es, es[k].type = type
        PROVE  Len(log) + k \in Live(type)' /\ log'[Len(log) + k].id = id
    BY <2>2, <2>5, <2>9 DEF Live, Told
  <2>10. ASSUME NEW type, NEW e, Tells(type, e) PROVE Tells(type, e)'
    BY <2>7, <2>10 DEF Tells
  <2>11. \A e \in Ended : sends'[e] = sends[e] /\ e # s /\ e \in DOMAIN sends
    BY <1>4, <1>6 DEF Ended
  <2>12. recorded[1] \in Ids /\ (~Overflown => BusTrace[1] = recorded[1])
    BY <1>2, <1>8, EmissionConstants DEF Overflown, BusTrace
  <2>13. StartTold'
    <3>1. ASSUME NEW i \in Live("trace.started")', i \notin Live("trace.started")
          PROVE  first /\ i = Len(log) + 1 /\ log'[i].id = recorded[1] /\ Live("trace.started") = {}
      <4>1. first /\ i = Len(log) + 1 /\ log'[i].id = id
        BY <2>8, <3>1
      <4>2. id = recorded[1]
        BY <1>6, <4>1 DEF LifeInv, FirstSend
      <4>3. ASSUME NEW e \in Ended, sends[e].before = 0 PROVE FALSE
        BY <1>6, <2>11, <4>1, <4>3 DEF LifeInv, FirstSend, BegunHere
      <4> QED BY <4>1, <4>2, <4>3 DEF LifeInv, StartTold
    <3>2. \A i, j \in Live("trace.started")' : i = j
      BY <3>1 DEF LifeInv, StartTold
    <3>3. \A i \in Live("trace.started")' : log'[i].id = recorded[1]
      BY <2>7, <3>1 DEF LifeInv, StartTold
    <3>4. Live("trace.started")' # {} => \E e \in Ended' : sends'[e].before = 0
      BY <1>5, <1>7, <1>12, <2>11, <3>1 DEF LifeInv, StartTold
    <3>5. ASSUME NEW e \in Ended', sends'[e].before = 0
          PROVE  Tells("trace.started", sends[e].id)'
      <4>1. CASE e = s
        <5>1. first
          BY <1>5, <3>5, <4>1
        <5>2. PICK k \in DOMAIN es : es[k].type = "trace.started"
          BY <2>2, <5>1 DEF Told
        <5> QED BY <1>5, <2>9, <4>1, <5>2 DEF Tells
      <4>2. CASE e # s
        BY <1>7, <1>12, <2>10, <2>11, <3>5, <4>2 DEF LifeInv, StartTold
      <4> QED BY <4>1, <4>2
    <3> QED BY <1>1, <1>8, <3>2, <3>3, <3>4, <3>5 DEF StartTold
  <2>14. EndTold'
    <3>1. Overflown' <=> Overflown
      BY <1>1 DEF Overflown
    <3>2. ASSUME ~Overflown, NEW i \in Live("trace.completed")'
          PROVE  ReplyTo[log'[i].id] = recorded[1]
      BY <2>7, <2>8, <2>12, <3>2 DEF LifeInv, EndTold
    <3>3. ASSUME ~Overflown, NEW e \in Ended', ReplyTo[sends'[e].id] = recorded[1]
          PROVE  Tells("trace.completed", sends[e].id)'
      <4>1. CASE e = s
        <5>1. BusTrace[1] # Undefined /\ ReplyTo[id] = BusTrace[1]
          BY <1>5, <2>12, <3>3, <4>1, EmissionConstants
        <5>2. PICK k \in DOMAIN es : es[k].type = "trace.completed"
          BY <2>2, <5>1 DEF Told
        <5> QED BY <1>5, <2>9, <4>1, <5>2 DEF Tells
      <4>2. CASE e # s
        BY <1>7, <1>12, <2>10, <2>11, <3>3, <4>2 DEF LifeInv, EndTold
      <4> QED BY <4>1, <4>2
    <3> QED BY <1>1, <1>8, <3>1, <3>2, <3>3 DEF EndTold
  <2>15. SendsTold'
    <3>1. PICK k \in DOMAIN es : es[k].type = "message.appended"
      BY <2>2 DEF Told
    <3>2. Len(log) + k \in Live("message.appended")' /\ log'[Len(log) + k].id = id
      BY <2>9, <3>1
    <3>3. ASSUME NEW e \in Ended' PROVE Tells("message.appended", sends[e].id)'
      <4>1. CASE e = s
        BY <1>5, <3>2, <4>1 DEF Tells
      <4>2. CASE e # s
        BY <1>7, <1>12, <2>10, <2>11, <4>2 DEF LifeInv, SendsTold
      <4> QED BY <4>1, <4>2
    <3>4. ASSUME NEW e \in Ended', NEW t \in Ended', sends'[t].by = e
          PROVE  \E i, j \in Live("message.appended")' :
                   i < j /\ log'[i].id = sends'[t].id /\ log'[j].id = sends'[e].id
      <4>1. t \in DOMAIN sends /\ e \in DOMAIN sends /\ sends[t].by = e /\ t # e
        <5>1. t \in DOMAIN sends /\ e \in DOMAIN sends
          BY <1>4 DEF Ended
        <5>2. sends[t].by = e /\ sends[t].by < t
          BY <1>5, <3>4, <5>1 DEF LifeInv, Nested
        <5>3. t \in Nat /\ e \in Nat
          BY SMTT(30), <1>2, <5>1
        <5> QED BY <5>1, <5>2, <5>3
      <4>2. CASE t = s
        <5>1. sends[e].stage = "awaiting"
          BY <1>1, <4>1, <4>2 DEF LifeInv, Nested
        <5>2. e \in Ended
          BY <1>7, <1>12, <4>1, <4>2
        <5> QED BY <5>1, <5>2 DEF Ended
      <4>3. CASE t # s /\ e = s
        <5>1. t \in Ended
          BY <1>7, <1>12, <4>3
        <5>2. PICK i \in Live("message.appended") : log[i].id = sends[t].id
          BY <5>1 DEF LifeInv, SendsTold, Tells
        <5>3. i \in Live("message.appended")' /\ log'[i].id = sends'[t].id /\ i <= Len(log) /\ i \in Nat
          <6>1. i \in Nat
            BY <2>6 DEF Live
          <6> QED BY <1>5, <2>7, <4>1, <5>2, <6>1
        <5>4. i < Len(log) + k
          BY <2>6, <5>3
        <5> QED BY <1>5, <3>2, <4>3, <5>3, <5>4
      <4>4. CASE t # s /\ e # s
        <5>1. t \in Ended /\ e \in Ended
          BY <1>7, <1>12, <4>4
        <5>2. PICK i, j \in Live("message.appended") :
                i < j /\ log[i].id = sends[t].id /\ log[j].id = sends[e].id
          BY <4>1, <5>1 DEF LifeInv, SendsTold
        <5> QED BY <1>5, <2>7, <4>1, <5>2
      <4> QED BY <4>2, <4>3, <4>4
    <3> QED BY <3>3, <3>4 DEF SendsTold
  <2> QED BY <1>1, <1>8, <1>9, <1>10, <2>5, <2>13, <2>14, <2>15 DEF LifeInv
<1> QED BY <1>11, <1>12

\* Both invariants hold throughout.
LEMMA LifeInvariant == EmissionSpec => [](StoreInv /\ LifeInv)
<1>1. StoreInv /\ StoreInv' /\ LifeInv /\ [EmissionNext]_emissionVars => LifeInv'
  <2> SUFFICES ASSUME StoreInv, StoreInv', LifeInv, [EmissionNext]_emissionVars PROVE LifeInv'
    OBVIOUS
  <2>1. CASE UNCHANGED emissionVars
    BY <2>1 DEF emissionVars, LifeInv, FirstSend, Nested, StartTold, EndTold, SendsTold,
                BegunHere, Ended, Live, Tells, Overflown
  <2> QED BY <2>1, BeginSendLife, EndSendLife, ImportLife, ImportMessageLife,
             StartServerLife, KillServerLife DEF EmissionNext
<1> QED BY <1>1, InitLife, StoreInvariant, PTL DEF EmissionSpec

\* A trace's live events tell how it went: it starts at most once, with its first message, which
\* is told when the send of it returns; it completes with replies to that message; and a send
\* is told after those that its handler made. The emitter reads the counts it compares after
\* the send has returned, with other sends in between.
THEOREM LifecycleIsTold == EmissionSpec => []LifecycleTold
<1>1. StoreInv /\ LifeInv => LifecycleTold
  <2> SUFFICES ASSUME StoreInv, LifeInv PROVE LifecycleTold
    OBVIOUS
  <2>1. Cardinality(Live("trace.started")) <= 1
    <3>1. CASE Live("trace.started") = {}
      BY <3>1, FS_EmptySet
    <3>2. CASE Live("trace.started") # {}
      <4>1. PICK i \in Live("trace.started") : Live("trace.started") = {i}
        BY <3>2 DEF LifeInv, StartTold
      <4> QED BY <4>1, FS_Singleton
    <3> QED BY <3>1, <3>2
  <2>2. /\ \A i \in Live("trace.started") : log[i].id = recorded[1]
        /\ \A s \in Ended : sends[s].before = 0 => Tells("trace.started", sends[s].id)
    BY DEF LifeInv, StartTold
  <2>3. /\ Overflown \/ \A i \in Live("trace.completed") : ReplyTo[log[i].id] = recorded[1]
        /\ Overflown \/ \A s \in Ended :
             ReplyTo[sends[s].id] = recorded[1] => Tells("trace.completed", sends[s].id)
    BY DEF LifeInv, EndTold
  <2>4. \A s, t \in Ended : sends[t].by = s =>
          \E i, j \in Live("message.appended") :
            i < j /\ log[i].id = sends[t].id /\ log[j].id = sends[s].id
    BY DEF LifeInv, SendsTold
  <2> QED BY <2>1, <2>2, <2>3, <2>4 DEF LifecycleTold, Live, Ended, Overflown, Tells
<1> QED BY <1>1, LifeInvariant, PTL

-------------------------------------------------------------------------------
(* Memory entries.                                                           *)
\* A sequence that increases.
IsIncreasing(s) == \A i, j \in DOMAIN s : i < j => s[i] < s[j]

\* A sequence of elements of M, after which come those of M that it leaves out.
Initial(s, M) ==
  /\ ToSet(s) \subseteq M
  /\ \A e \in M : e \in ToSet(s) \/ \A i \in DOMAIN s : s[i] < e

\* The types.
MemoryTypeOK ==
  /\ backend \in Backends /\ now \in Nat
  /\ appended \in Seq([trace : Histories, at : Nat])
  /\ rows \in Seq(Nat) /\ ToSet(rows) \subseteq DOMAIN appended
  /\ inserting \subseteq DOMAIN appended
  /\ pages \in Seq(Nat) /\ expected \in Seq(Nat)
  /\ begun \in Nat /\ begun <= Len(appended)
  /\ \A t, u \in reading : t = u

\* The clock does not run backwards.
Stamped ==
  /\ \A d, e \in DOMAIN appended : d <= e => appended[d].at <= appended[e].at
  /\ \A e \in DOMAIN appended : appended[e].at <= now

\* Two of the stores insert an entry when it is appended.
InsertedAtOnce ==
  backend # "postgres" => inserting = {} /\ Len(rows) = Len(appended) /\ \A i \in DOMAIN rows : rows[i] = i

\* What was expected of a reading came in the order of the stamps.
ExpectedOrdered ==
  /\ ToSet(expected) \subseteq DOMAIN appended
  /\ \A t \in reading : ToSet(expected) \subseteq Matching(t)
  /\ \A i, j \in DOMAIN expected : i < j =>
       expected[i] # expected[j] /\ appended[expected[i]].at <= appended[expected[j]].at

\* The pages read are an initial part of what is to be read.
PagesInitial ==
  \A t \in reading :
    /\ backend # "postgres" => IsIncreasing(pages) /\ Initial(pages, Matching(t))
    /\ Undisturbed(t) => IsPrefix(pages, expected) \/ IsPrefix(expected, pages)

\* The inductive invariant.
MemoryInv == MemoryTypeOK /\ Stamped /\ InsertedAtOnce /\ ExpectedOrdered /\ PagesInitial

-------------------------------------------------------------------------------
(* Sequences.                                                               *)

\* A prefix is no longer and agrees.
LEMMA PrefixMeans ==
  ASSUME NEW s \in Seq(Nat), NEW t \in Seq(Nat)
  PROVE  IsPrefix(s, t) <=> Len(s) <= Len(t) /\ \A i \in 1..Len(s) : s[i] = t[i]
<1>1. CASE Len(s) <= Len(t)
  <2>1. SubSeq(s, 1, Len(s)) = s
    OBVIOUS
  <2>2. /\ SubSeq(t, 1, Len(s)) \in Seq(Nat) /\ Len(SubSeq(t, 1, Len(s))) = Len(s)
        /\ \A i \in 1..Len(s) : SubSeq(t, 1, Len(s))[i] = t[i]
    BY <1>1
  <2>3. SubSeq(t, 1, Len(s)) = s <=> \A i \in 1..Len(s) : s[i] = t[i]
    <3> DEFINE u == SubSeq(t, 1, Len(s))
    <3>1. u \in Seq(Nat) /\ Len(u) = Len(s) /\ \A i \in 1..Len(s) : u[i] = t[i]
      BY <2>2
    <3> HIDE DEF u
    <3>2. ASSUME \A i \in 1..Len(s) : u[i] = s[i] PROVE u = s
      <4>1. u = [i \in 1..Len(s) |-> u[i]] /\ s = [i \in 1..Len(s) |-> s[i]]
        BY <3>1
      <4>2. [i \in 1..Len(s) |-> u[i]] = [i \in 1..Len(s) |-> s[i]]
        BY <3>2
      <4> QED BY <4>1, <4>2
    <3>3. u = s <=> \A i \in 1..Len(s) : s[i] = t[i]
      BY <3>1, <3>2
    <3> QED BY <3>3 DEF u
  <2> QED BY <1>1, <2>1, <2>3 DEF IsPrefix
<1>2. CASE ~(Len(s) <= Len(t))
  BY <1>2 DEF IsPrefix
<1> QED BY <1>1, <1>2

\* An initial part of a set, in order, is a prefix of the whole of it in order.
LEMMA InitialIsPrefix ==
  ASSUME NEW p \in Seq(Nat), NEW s \in Seq(Nat), IsIncreasing(p), IsIncreasing(s),
         Initial(p, ToSet(s))
  PROVE  IsPrefix(p, s)
<1> DEFINE bad == {k \in 1..Len(p) : k > Len(s) \/ p[k] # s[k]}
<1>1. /\ DOMAIN p = 1..Len(p) /\ DOMAIN s = 1..Len(s) /\ Len(p) \in Nat /\ Len(s) \in Nat
      /\ (\A i \in DOMAIN p : p[i] \in Nat) /\ (\A i \in DOMAIN s : s[i] \in Nat)
  OBVIOUS
<1>2. bad = {}
  <2>1. SUFFICES ASSUME bad # {} PROVE FALSE
    OBVIOUS
  <2>2. PICK k \in bad : \A j \in bad : k <= j
    <3>1. bad \subseteq Nat
      OBVIOUS
    <3> HIDE DEF bad
    <3> QED BY <2>1, <3>1, LeastNat
  <2>3. k \in DOMAIN p /\ k \in Nat /\ (k > Len(s) \/ p[k] # s[k])
    BY <1>1
  <2>4. \A i \in 1..Len(p) : i < k => i <= Len(s) /\ p[i] = s[i]
    BY <1>1, <2>2
  <2>5. PICK j \in DOMAIN s : s[j] = p[k]
    BY <2>3 DEF Initial, ToSet
  <2>6. ~(j < k)
    <3>1. SUFFICES ASSUME j < k PROVE FALSE
      OBVIOUS
    <3>2. j \in DOMAIN p /\ p[j] = s[j] /\ p[j] < p[k]
      BY <1>1, <2>3, <2>4, <3>1 DEF IsIncreasing
    <3> QED BY <1>1, <2>3, <2>5, <3>2
  <2>7. k \in DOMAIN s /\ k < j
    BY <1>1, <2>3, <2>5, <2>6
  <2>8. s[k] < p[k]
    BY <2>5, <2>7 DEF IsIncreasing
  <2>9. s[k] \in ToSet(p)
    <3>1. s[k] \in ToSet(s)
      BY <2>7 DEF ToSet
    <3>2. ~(p[k] < s[k])
      BY <1>1, <2>3, <2>7, <2>8
    <3> QED BY <2>3, <3>1, <3>2 DEF Initial
  <2>10. PICK i \in DOMAIN p : p[i] = s[k]
    BY <2>9 DEF ToSet
  <2>11. i < k
    <3>1. i = k \/ k < i \/ i < k
      BY <1>1, <2>3
    <3>2. ~(k < i)
      <4>1. ASSUME k < i PROVE FALSE
        <5>1. p[k] < p[i]
          BY <2>3, <4>1 DEF IsIncreasing
        <5> QED BY <1>1, <2>3, <2>7, <2>8, <2>10, <5>1
      <4> QED BY <4>1
    <3> QED BY <1>1, <2>3, <2>7, <2>8, <2>10, <3>1, <3>2
  <2>12. s[i] = s[k] /\ i \in DOMAIN s
    BY <1>1, <2>4, <2>10, <2>11
  <2>13. s[i] < s[k]
    BY <2>7, <2>11, <2>12 DEF IsIncreasing
  <2> QED BY <1>1, <2>7, <2>12, <2>13
<1>3. Len(p) <= Len(s) /\ \A i \in 1..Len(p) : p[i] = s[i]
  <2>1. \A i \in 1..Len(p) : i <= Len(s) /\ p[i] = s[i]
    BY <1>1, <1>2
  <2>2. Len(p) = 0 \/ Len(p) \in 1..Len(p)
    BY <1>1
  <2> QED BY <1>1, <2>1, <2>2
<1> QED BY <1>3, PrefixMeans

\* And so is every prefix of that.
LEMMA PrefixIsInitial ==
  ASSUME NEW p \in Seq(Nat), NEW s \in Seq(Nat), IsIncreasing(s), IsPrefix(p, s)
  PROVE  IsIncreasing(p) /\ Initial(p, ToSet(s))
<1>1. /\ Len(p) <= Len(s) /\ \A i \in 1..Len(p) : p[i] = s[i]
      /\ DOMAIN p = 1..Len(p) /\ DOMAIN s = 1..Len(s) /\ Len(p) \in Nat /\ Len(s) \in Nat
  BY PrefixMeans
<1>2. DOMAIN p \subseteq DOMAIN s
  BY <1>1
<1>3. IsIncreasing(p)
  BY <1>1, <1>2 DEF IsIncreasing
<1>4. ToSet(p) \subseteq ToSet(s)
  BY <1>1, <1>2 DEF ToSet
<1>5. ASSUME NEW e \in ToSet(s), e \notin ToSet(p), NEW i \in DOMAIN p
      PROVE  p[i] < e
  <2>1. PICK k \in DOMAIN s : s[k] = e
    BY DEF ToSet
  <2>2. k \notin DOMAIN p
    BY <1>1, <1>5, <2>1 DEF ToSet
  <2>3. i < k /\ i \in DOMAIN s
    BY <1>1, <2>2
  <2> QED BY <1>1, <2>1, <2>3 DEF IsIncreasing
<1> QED BY <1>3, <1>4, <1>5 DEF Initial

\* A page goes on with what is a prefix.
LEMMA NextPage ==
  ASSUME NEW p \in Seq(Nat), NEW s \in Seq(Nat), IsPrefix(p, s),
         NEW last \in Nat, Len(p) <= last, last <= Len(s)
  PROVE  p \o SubSeq(s, Len(p) + 1, last) \in Seq(Nat) /\ IsPrefix(p \o SubSeq(s, Len(p) + 1, last), s)
<1> DEFINE u == SubSeq(s, Len(p) + 1, last)
<1>1. Len(p) <= Len(s) /\ Len(p) \in Nat /\ Len(s) \in Nat /\ \A i \in 1..Len(p) : p[i] = s[i]
  BY PrefixMeans
<1>2. u \in Seq(Nat) /\ Len(u) = last - Len(p) /\ \A k \in 1..(last - Len(p)) : u[k] = s[Len(p) + k]
  BY <1>1
<1> HIDE DEF u
<1>3. /\ p \o u \in Seq(Nat) /\ Len(p \o u) = last
      /\ \A i \in 1..Len(p) : (p \o u)[i] = p[i]
  BY <1>1, <1>2
<1>4. ASSUME NEW i \in 1..last, ~(i <= Len(p)) PROVE (p \o u)[i] = s[i]
  <2>1. i - Len(p) \in 1..(last - Len(p)) /\ Len(p) + (i - Len(p)) = i
    BY <1>1, <1>4
  <2>2. (p \o u)[i] = u[i - Len(p)]
    BY <1>1, <1>2, <1>4
  <2> QED BY <1>2, <2>1, <2>2
<1>5. \A i \in 1..last : (p \o u)[i] = s[i]
  BY <1>1, <1>3, <1>4
<1> QED BY <1>3, <1>5, PrefixMeans DEF u

-------------------------------------------------------------------------------
(* The orders of a query.                                                   *)

\* Stamps are numbers.
LEMMA StampsAreNumbers ==
  ASSUME MemoryInv, NEW e \in DOMAIN appended
  PROVE  e \in Nat /\ appended[e].at \in Nat
<1> DEFINE Entry == [trace : Histories, at : Nat]
<1>1. appended \in Seq(Entry)
  BY DEF MemoryInv, MemoryTypeOK
<1> HIDE DEF Entry
<1>2. appended[e] \in Entry /\ e \in Nat
  BY <1>1
<1> QED BY <1>2 DEF Entry

\* An order of the entries of a trace has each of them once.
LEMMA OrdersEnumerate ==
  ASSUME MemoryInv, NEW t, NEW s \in Orders(t)
  PROVE  s \in Seq(Nat) /\ ToSet(s) = Matching(t)
           /\ \A i, j \in DOMAIN s : i # j => s[i] # s[j]
<1> DEFINE M == Matching(t)
           D == 1..Cardinality(M)
<1>1. rows \in Seq(Nat) /\ M \subseteq ToSet(rows) /\ ToSet(rows) \subseteq Nat
  BY DEF MemoryInv, MemoryTypeOK, Matching, ToSet
<1>2. IsFiniteSet(M)
  <2>1. IsFiniteSet(1..Len(rows)) /\ DOMAIN rows = 1..Len(rows)
    BY <1>1, FS_Interval
  <2>2. rows \in Surjection(1..Len(rows), ToSet(rows))
    BY <1>1, <2>1 DEF Surjection, ToSet
  <2>3. IsFiniteSet(ToSet(rows))
    BY <2>1, <2>2, FS_Surjection
  <2> QED BY <1>1, <2>3, FS_Subset
<1>3. s \in [D -> M] /\ \A i, j \in D : i # j => s[i] # s[j]
  BY DEF Orders, SetToSeqs
<1> HIDE DEF M
<1>4. Cardinality(M) \in Nat
  BY <1>2, FS_CardinalityType
<1>5. s \in Seq(Nat) /\ DOMAIN s = D
  BY <1>1, <1>3, <1>4
<1>6. ToSet(s) = M
  <2>1. IsFiniteSet(D) /\ Cardinality(D) = Cardinality(M)
    <3> DEFINE n == Cardinality(M)
    <3>1. n \in Nat
      BY <1>4
    <3> HIDE DEF n
    <3>2. IsFiniteSet(1..n) /\ Cardinality(1..n) = (IF n = 0 THEN 0 ELSE n)
      BY <3>1, FS_Interval
    <3> QED BY <3>2 DEF n
  <2>2. s \in Injection(D, M)
    BY <1>3 DEF Injection, IsInjective
  <2>3. s \in Surjection(D, M)
    BY <1>2, <2>1, <2>2, FS_Injection
  <2> QED BY <1>5, <2>3 DEF Surjection, ToSet
<1> QED BY <1>3, <1>5, <1>6 DEF M

\* Without equal stamps, or with the order of insertion among equals, a query returns the
\* entries in the order in which they were appended.
LEMMA OrdersIncrease ==
  ASSUME MemoryInv, NEW t, NEW s \in Orders(t),
         backend # "postgres" \/ \A d, e \in Matching(t) : appended[d].at = appended[e].at => d = e
  PROVE  IsIncreasing(s)
<1>1. s \in Seq(Nat) /\ ToSet(s) = Matching(t) /\ \A i, j \in DOMAIN s : i # j => s[i] # s[j]
  BY OrdersEnumerate
<1>2. SUFFICES ASSUME NEW i \in DOMAIN s, NEW j \in DOMAIN s, i < j PROVE s[i] < s[j]
  BY DEF IsIncreasing
<1>3. s[i] \in Matching(t) /\ s[j] \in Matching(t) /\ s[i] # s[j]
  BY <1>1, <1>2 DEF ToSet
<1>4. /\ s[i] \in ToSet(rows) /\ s[j] \in ToSet(rows) /\ s[i] \in Nat /\ s[j] \in Nat
      /\ s[i] \in DOMAIN appended /\ s[j] \in DOMAIN appended
      /\ appended[s[i]].at \in Nat /\ appended[s[j]].at \in Nat
  <2>1. s[i] \in ToSet(rows) /\ s[j] \in ToSet(rows)
    BY <1>3 DEF Matching
  <2>2. s[i] \in DOMAIN appended /\ s[j] \in DOMAIN appended
    BY <2>1 DEF MemoryInv, MemoryTypeOK
  <2> QED BY <2>1, <2>2, StampsAreNumbers
<1>5. s[j] <= s[i] => appended[s[j]].at <= appended[s[i]].at
  BY <1>4 DEF MemoryInv, Stamped
<1>6. \/ appended[s[i]].at < appended[s[j]].at
      \/ appended[s[i]].at = appended[s[j]].at /\ (backend = "postgres" \/ Before(s[i], s[j]))
  BY <1>2 DEF Orders
<1>7. CASE appended[s[i]].at < appended[s[j]].at
  BY <1>4, <1>5, <1>7
<1>8. CASE appended[s[i]].at = appended[s[j]].at /\ backend # "postgres"
  <2>1. Before(s[i], s[j])
    BY <1>4, <1>6, <1>8
  <2>2. \A k \in DOMAIN rows : rows[k] = k
    BY <1>8 DEF MemoryInv, InsertedAtOnce
  <2> QED BY <2>1, <2>2 DEF Before
<1>9. CASE appended[s[i]].at = appended[s[j]].at /\ backend = "postgres"
  BY <1>3, <1>9
<1> QED BY <1>6, <1>7, <1>8, <1>9

\* What is expected of a reading.
LEMMA ExpectedInitial ==
  ASSUME MemoryInv, NEW t, Undisturbed(t)
  PROVE  IsIncreasing(expected) /\ Initial(expected, Matching(t))
<1>1. /\ expected \in Seq(Nat) /\ begun \in Nat /\ ToSet(expected) \subseteq DOMAIN appended
      /\ Matching(t) \subseteq DOMAIN appended /\ DOMAIN appended \subseteq Nat
  BY DEF MemoryInv, MemoryTypeOK, ExpectedOrdered, Matching
<1>2. {e \in Matching(t) : e <= begun} = ToSet(expected)
  BY DEF Undisturbed
<1>3. IsIncreasing(expected)
  <2>1. SUFFICES ASSUME NEW i \in DOMAIN expected, NEW j \in DOMAIN expected, i < j
                 PROVE  expected[i] < expected[j]
    BY DEF IsIncreasing
  <2>2. expected[i] \in ToSet(expected) /\ expected[j] \in ToSet(expected)
    BY DEF ToSet
  <2>3. expected[i] # expected[j] /\ appended[expected[i]].at <= appended[expected[j]].at
    BY <2>1 DEF MemoryInv, ExpectedOrdered
  <2>4. appended[expected[i]].at # appended[expected[j]].at
    BY <1>2, <2>2, <2>3 DEF Undisturbed
  <2>5. appended[expected[i]].at \in Nat /\ appended[expected[j]].at \in Nat
    BY <1>1, <2>2, StampsAreNumbers
  <2>6. expected[j] <= expected[i] => appended[expected[j]].at <= appended[expected[i]].at
    BY <1>1, <2>2 DEF MemoryInv, Stamped
  <2>7. expected[i] \in Nat /\ expected[j] \in Nat
    BY <1>1, <2>2
  <2> QED BY <2>3, <2>4, <2>5, <2>6, <2>7
<1>4. ASSUME NEW e \in Matching(t), e \notin ToSet(expected), NEW i \in DOMAIN expected
      PROVE  expected[i] < e
  <2>1. expected[i] \in ToSet(expected)
    BY DEF ToSet
  <2>2. expected[i] <= begun /\ expected[i] \in Nat
    BY <1>1, <1>2, <2>1
  <2>3. e \in Nat /\ ~(e <= begun)
    BY <1>1, <1>2, <1>4
  <2> QED BY <1>1, <2>2, <2>3
<1> QED BY <1>2, <1>3, <1>4 DEF Initial

\* Two prefixes of one sequence.
LEMMA PrefixesCompare ==
  ASSUME NEW p \in Seq(Nat), NEW q \in Seq(Nat), NEW s \in Seq(Nat), IsPrefix(p, s), IsPrefix(q, s)
  PROVE  IsPrefix(p, q) \/ IsPrefix(q, p)
<1>1. /\ Len(p) \in Nat /\ Len(q) \in Nat
      /\ \A i \in 1..Len(p) : p[i] = s[i]
      /\ \A i \in 1..Len(q) : q[i] = s[i]
  <2>1. \A i \in 1..Len(p) : p[i] = s[i]
    BY PrefixMeans
  <2>2. \A i \in 1..Len(q) : q[i] = s[i]
    BY PrefixMeans
  <2> QED BY <2>1, <2>2
<1>2. CASE Len(p) <= Len(q)
  <2>1. \A i \in 1..Len(p) : p[i] = q[i]
    BY <1>1, <1>2
  <2> QED BY <1>2, <2>1, PrefixMeans
<1>3. CASE ~(Len(p) <= Len(q))
  <2>1. Len(q) <= Len(p) /\ \A i \in 1..Len(q) : q[i] = p[i]
    BY <1>1, <1>3
  <2> QED BY <2>1, PrefixMeans
<1> QED BY <1>2, <1>3

\* A prefix of a prefix is one.
LEMMA PrefixOfPrefix ==
  ASSUME NEW p \in Seq(Nat), NEW q \in Seq(Nat), NEW s \in Seq(Nat), IsPrefix(p, q), IsPrefix(q, s)
  PROVE  IsPrefix(p, s)
<1>1. /\ Len(p) \in Nat /\ Len(q) \in Nat /\ Len(p) <= Len(q) /\ Len(q) <= Len(s) /\ Len(s) \in Nat
      /\ \A i \in 1..Len(p) : p[i] = q[i]
      /\ \A i \in 1..Len(q) : q[i] = s[i]
  BY PrefixMeans
<1>2. Len(p) <= Len(s) /\ \A i \in 1..Len(p) : p[i] = s[i]
  BY <1>1
<1> QED BY <1>2, PrefixMeans

-------------------------------------------------------------------------------
(* The steps.                                                               *)

\* Nothing is appended at first.
LEMMA MemoryInitInv == MemoryInit => MemoryInv
<1> SUFFICES ASSUME MemoryInit PROVE MemoryInv
  OBVIOUS
<1>1. \A S : <<>> \in Seq(S)
  OBVIOUS
<1>2. ToSet(<<>>) = {} /\ DOMAIN <<>> = {} /\ Len(<<>>) = 0
  BY DEF ToSet
<1>3. MemoryTypeOK
  BY <1>1, <1>2 DEF MemoryInit, MemoryTypeOK
<1> QED BY <1>2, <1>3 DEF MemoryInit, MemoryInv, Stamped, InsertedAtOnce, ExpectedOrdered, PagesInitial

\* An entry that is inserted.
LEMMA Inserted ==
  ASSUME MemoryInv, NEW e \in Nat, rows' = Append(rows, e),
         DOMAIN appended \subseteq DOMAIN appended',
         \A d \in DOMAIN appended : appended'[d] = appended[d]
  PROVE  /\ rows' \in Seq(Nat) /\ ToSet(rows') = ToSet(rows) \cup {e}
         /\ \A t : Matching(t)' = Matching(t) \cup {d \in {e} : appended'[d].trace = t}
<1>1. rows \in Seq(Nat) /\ ToSet(rows) \subseteq DOMAIN appended
  BY DEF MemoryInv, MemoryTypeOK
<1>2. rows' \in Seq(Nat) /\ ToSet(rows') = ToSet(rows) \cup {e}
  BY <1>1, ToSetAppend
<1>3. ASSUME NEW t
      PROVE  Matching(t)' = Matching(t) \cup {d \in {e} : appended'[d].trace = t}
  <2>1. \A d \in ToSet(rows) : appended'[d] = appended[d]
    BY <1>1
  <2> QED BY <1>2, <2>1 DEF Matching
<1> QED BY <1>2, <1>3

\* What is undisturbed was so before.
LEMMA UndisturbedBefore ==
  ASSUME NEW t, Undisturbed(t)', UNCHANGED <<expected, begun>>,
         Matching(t) \subseteq Matching(t)',
         ToSet(expected) \subseteq Matching(t),
         \A e \in Matching(t) : appended'[e] = appended[e]
  PROVE  Undisturbed(t)
<1>1. {e \in Matching(t)' : e <= begun} = ToSet(expected)
  BY DEF Undisturbed
<1>2. {e \in Matching(t) : e <= begun} = ToSet(expected)
  BY <1>1
<1> QED BY <1>2 DEF Undisturbed

\* Entries come in, while the reading stays as it is.
LEMMA ReadingStays ==
  ASSUME MemoryInv, MemoryTypeOK', Stamped', InsertedAtOnce',
         UNCHANGED <<backend, reading, pages, expected, begun>>,
         DOMAIN appended \subseteq DOMAIN appended',
         \A d \in DOMAIN appended : appended'[d] = appended[d],
         \A t : Matching(t) \subseteq Matching(t)',
         backend # "postgres" =>
           \A t : \A e \in Matching(t)' : e \in Matching(t) \/ \A d \in Matching(t) : d < e
  PROVE  MemoryInv'
<1>1. \A t : Matching(t) \subseteq DOMAIN appended
  BY DEF MemoryInv, MemoryTypeOK, Matching
<1>2. ExpectedOrdered'
  <2>1. ToSet(expected) \subseteq DOMAIN appended
    BY DEF MemoryInv, ExpectedOrdered
  <2>2. \A i \in DOMAIN expected : expected[i] \in DOMAIN appended
    BY <2>1 DEF ToSet
  <2>3. \A i, j \in DOMAIN expected : i < j =>
          expected[i] # expected[j] /\ appended'[expected[i]].at <= appended'[expected[j]].at
    BY <2>2 DEF MemoryInv, ExpectedOrdered
  <2>4. \A t \in reading : ToSet(expected) \subseteq Matching(t)'
    BY DEF MemoryInv, ExpectedOrdered
  <2> QED BY <2>1, <2>3, <2>4 DEF ExpectedOrdered
<1>3. ASSUME NEW t \in reading, backend # "postgres"
      PROVE  IsIncreasing(pages) /\ Initial(pages, Matching(t)')
  <2>1. IsIncreasing(pages) /\ Initial(pages, Matching(t))
    BY <1>3 DEF MemoryInv, PagesInitial
  <2>2. ASSUME NEW e \in Matching(t)', e \notin ToSet(pages), NEW i \in DOMAIN pages
        PROVE  pages[i] < e
    <3>1. pages[i] \in Matching(t)
      BY <2>1 DEF Initial, ToSet
    <3>2. CASE e \in Matching(t)
      BY <2>1, <2>2, <3>2 DEF Initial
    <3>3. CASE e \notin Matching(t)
      BY <1>3, <3>1, <3>3
    <3> QED BY <3>2, <3>3
  <2>3. ToSet(pages) \subseteq Matching(t)'
    BY <2>1 DEF Initial
  <2> QED BY <2>1, <2>2, <2>3 DEF Initial
<1>4. ASSUME NEW t \in reading, Undisturbed(t)'
      PROVE  IsPrefix(pages, expected) \/ IsPrefix(expected, pages)
  <2>1. Undisturbed(t)
    <3>1. ToSet(expected) \subseteq Matching(t)
      BY DEF MemoryInv, ExpectedOrdered
    <3>2. \A e \in Matching(t) : appended'[e] = appended[e]
      BY <1>1
    <3> QED BY <1>4, <3>1, <3>2, UndisturbedBefore
  <2> QED BY <2>1 DEF MemoryInv, PagesInitial
<1>5. PagesInitial'
  BY <1>3, <1>4 DEF PagesInitial
<1> QED BY <1>2, <1>5 DEF MemoryInv

\* The steps, one by one.
LEMMA AppendEntryInv ==
  ASSUME MemoryInv, NEW t \in Histories, AppendEntry(t)
  PROVE  MemoryInv'
<1> DEFINE Entry == [trace : Histories, at : Nat]
           new == [trace |-> t, at |-> now]
           n == Len(appended) + 1
<1>1. /\ appended' = Append(appended, new) /\ UNCHANGED <<backend, now, reading, pages, expected, begun>>
      /\ IF backend = "postgres" THEN inserting' = inserting \cup {n} /\ UNCHANGED rows
         ELSE rows' = Append(rows, n) /\ UNCHANGED inserting
  BY DEF AppendEntry
<1>2. new \in Entry /\ new.at = now /\ new.trace = t /\ now \in Nat
  BY DEF MemoryInv, MemoryTypeOK
<1>3. appended \in Seq(Entry)
  BY DEF MemoryInv, MemoryTypeOK
<1> HIDE DEF Entry, new
<1>4. /\ appended' \in Seq(Entry) /\ Len(appended') = n /\ n \in Nat
      /\ DOMAIN appended' = DOMAIN appended \cup {n} /\ DOMAIN appended = 1..Len(appended)
      /\ appended'[n] = new /\ \A d \in DOMAIN appended : appended'[d] = appended[d]
  BY <1>1, <1>2, <1>3, ToSetAppend
<1> HIDE DEF n
<1>5. /\ rows \in Seq(Nat) /\ rows' \in Seq(Nat) /\ ToSet(rows') \subseteq DOMAIN appended'
      /\ \A u : Matching(u) \subseteq Matching(u)'
      /\ \A u : \A e \in Matching(u)' : e \in Matching(u) \/ e = n
  <2>1. rows \in Seq(Nat) /\ ToSet(rows) \subseteq DOMAIN appended
    BY DEF MemoryInv, MemoryTypeOK
  <2>2. CASE backend = "postgres"
    <3>1. rows' = rows
      BY <1>1, <2>2
    <3> QED BY <1>4, <2>1, <3>1 DEF Matching
  <2>3. CASE backend # "postgres"
    <3>1. rows' = Append(rows, n)
      BY <1>1, <2>3
    <3>2. /\ rows' \in Seq(Nat) /\ ToSet(rows') = ToSet(rows) \cup {n}
          /\ \A u : Matching(u)' = Matching(u) \cup {d \in {n} : appended'[d].trace = u}
      BY <1>4, <3>1, Inserted
    <3> QED BY <1>4, <2>1, <3>2
  <2> QED BY <2>2, <2>3
<1>6. MemoryTypeOK'
  <2>1. inserting' \subseteq DOMAIN appended'
    BY <1>1, <1>4 DEF MemoryInv, MemoryTypeOK
  <2>2. begun \in Nat /\ begun <= n
    BY <1>4 DEF MemoryInv, MemoryTypeOK, n
  <2> QED BY <1>1, <1>4, <1>5, <2>1, <2>2 DEF MemoryInv, MemoryTypeOK, Entry
<1>7. Stamped'
  <2>1. ASSUME NEW d \in DOMAIN appended', NEW e \in DOMAIN appended', d <= e
        PROVE  appended'[d].at <= appended'[e].at
    <3>1. CASE e = n
      <4>1. CASE d = n
        BY <1>2, <1>4, <3>1, <4>1
      <4>2. CASE d # n
        BY <1>2, <1>4, <3>1, <4>2 DEF MemoryInv, Stamped
      <4> QED BY <4>1, <4>2
    <3>2. CASE e # n
      <4>1. e \in DOMAIN appended /\ d \in DOMAIN appended
        BY <1>4, <2>1, <3>2 DEF n
      <4> QED BY <1>4, <2>1, <4>1 DEF MemoryInv, Stamped
    <3> QED BY <3>1, <3>2
  <2>2. \A e \in DOMAIN appended' : appended'[e].at <= now
    BY <1>2, <1>4 DEF MemoryInv, Stamped
  <2> QED BY <1>1, <2>1, <2>2 DEF Stamped
<1>8. InsertedAtOnce'
  <2>1. SUFFICES ASSUME backend # "postgres"
                 PROVE  inserting' = {} /\ Len(rows') = Len(appended') /\ \A i \in DOMAIN rows' : rows'[i] = i
    BY <1>1 DEF InsertedAtOnce
  <2>2. rows' = Append(rows, n) /\ inserting' = inserting
    BY <1>1, <2>1
  <2>3. inserting = {} /\ Len(rows) = Len(appended) /\ \A i \in DOMAIN rows : rows[i] = i
    BY <2>1 DEF MemoryInv, InsertedAtOnce
  <2>4. /\ Len(rows') = Len(rows) + 1 /\ DOMAIN rows' = DOMAIN rows \cup {Len(rows) + 1}
        /\ (\A i \in DOMAIN rows : rows'[i] = rows[i]) /\ rows'[Len(rows) + 1] = n
    BY <1>4, <1>5, <2>2, ToSetAppend
  <2> QED BY <1>4, <2>2, <2>3, <2>4 DEF n
<1>9. \A u : \A d \in Matching(u) : d < n
  <2>1. \A u : Matching(u) \subseteq DOMAIN appended
    BY DEF MemoryInv, MemoryTypeOK, Matching
  <2>2. \A d \in DOMAIN appended : d < n
    BY <1>4 DEF n
  <2> QED BY <2>1, <2>2
<1>10. DOMAIN appended \subseteq DOMAIN appended'
  BY <1>4
<1> QED BY <1>1, <1>4, <1>5, <1>6, <1>7, <1>8, <1>9, <1>10, ReadingStays

LEMMA EndInsertInv ==
  ASSUME MemoryInv, NEW e \in inserting, NEW succeeds \in BOOLEAN, EndInsert(e, succeeds)
  PROVE  MemoryInv'
<1>1. /\ inserting' = inserting \ {e} /\ UNCHANGED <<backend, now, appended, reading, pages, expected, begun>>
      /\ rows' = Append(rows, e) \/ rows' = rows
  BY DEF EndInsert
<1>2. rows \in Seq(Nat) /\ ToSet(rows) \subseteq DOMAIN appended /\ e \in DOMAIN appended /\ e \in Nat
  <2>1. e \in DOMAIN appended
    BY DEF MemoryInv, MemoryTypeOK
  <2> QED BY <2>1, StampsAreNumbers DEF MemoryInv, MemoryTypeOK
<1>3. /\ rows' \in Seq(Nat) /\ ToSet(rows') \subseteq DOMAIN appended
      /\ \A t : Matching(t) \subseteq Matching(t)'
  <2>1. CASE rows' = rows
    BY <1>1, <1>2, <2>1 DEF Matching
  <2>2. CASE rows' = Append(rows, e)
    BY <1>1, <1>2, <2>2, Inserted
  <2> QED BY <1>1, <2>1, <2>2
<1>4. backend = "postgres"
  BY DEF MemoryInv, InsertedAtOnce
<1>5. MemoryTypeOK'
  BY <1>1, <1>3 DEF MemoryInv, MemoryTypeOK
<1>6. Stamped' /\ InsertedAtOnce'
  BY <1>1, <1>4 DEF MemoryInv, Stamped, InsertedAtOnce
<1> QED BY <1>1, <1>3, <1>4, <1>5, <1>6, ReadingStays

LEMMA TimePassesInv ==
  ASSUME MemoryInv, TimePasses
  PROVE  MemoryInv'
<1>1. /\ now' = now + 1
      /\ UNCHANGED <<backend, appended, rows, inserting, reading, pages, expected, begun>>
  BY DEF TimePasses
<1>2. MemoryTypeOK' /\ InsertedAtOnce'
  BY <1>1 DEF MemoryInv, MemoryTypeOK, InsertedAtOnce
<1>3. Stamped'
  <2>1. \A e \in DOMAIN appended : appended[e].at \in Nat /\ appended[e].at <= now
    BY StampsAreNumbers DEF MemoryInv, Stamped
  <2>2. now \in Nat
    BY DEF MemoryInv, MemoryTypeOK
  <2> QED BY <1>1, <2>1, <2>2 DEF MemoryInv, Stamped
<1>4. \A t : Matching(t)' = Matching(t)
  BY <1>1 DEF Matching
<1> QED BY <1>1, <1>2, <1>3, <1>4, ReadingStays

LEMMA BeginReadingInv ==
  ASSUME MemoryInv, NEW t \in Histories, BeginReading(t)
  PROVE  MemoryInv'
<1>1. /\ reading' = {t} /\ pages' = <<>> /\ expected' \in Orders(t) /\ begun' = Len(appended)
      /\ UNCHANGED <<backend, now, appended, rows, inserting>>
  BY DEF BeginReading
<1>2. /\ expected' \in Seq(Nat) /\ ToSet(expected') = Matching(t)
      /\ \A i, j \in DOMAIN expected' : i # j => expected'[i] # expected'[j]
  BY <1>1, OrdersEnumerate
<1>3. Matching(t) \subseteq DOMAIN appended /\ \A u : Matching(u)' = Matching(u)
  BY <1>1 DEF MemoryInv, MemoryTypeOK, Matching
<1>4. <<>> \in Seq(Nat) /\ DOMAIN <<>> = {} /\ ToSet(<<>>) = {} /\ Len(<<>>) = 0
  BY DEF ToSet
<1>5. MemoryTypeOK'
  <2>1. Len(appended) \in Nat
    BY DEF MemoryInv, MemoryTypeOK
  <2> QED BY <1>1, <1>2, <1>4, <2>1 DEF MemoryInv, MemoryTypeOK
<1>6. Stamped' /\ InsertedAtOnce'
  BY <1>1 DEF MemoryInv, Stamped, InsertedAtOnce
<1>7. ExpectedOrdered'
  <2>1. ASSUME NEW i \in DOMAIN expected', NEW j \in DOMAIN expected', i < j
        PROVE  expected'[i] # expected'[j] /\ appended[expected'[i]].at <= appended[expected'[j]].at
    <3>1. i \in Nat /\ j \in Nat
      BY <1>2
    <3>2. expected'[i] # expected'[j]
      BY <1>2, <2>1, <3>1
    <3>3. expected'[i] \in DOMAIN appended /\ expected'[j] \in DOMAIN appended
      BY <1>2, <1>3 DEF ToSet
    <3>4. appended[expected'[i]].at \in Nat /\ appended[expected'[j]].at \in Nat
      BY <3>3, StampsAreNumbers
    <3>5. \/ appended[expected'[i]].at < appended[expected'[j]].at
          \/ appended[expected'[i]].at = appended[expected'[j]].at
      BY <1>1, <2>1 DEF Orders
    <3> QED BY <3>2, <3>4, <3>5
  <2> QED BY <1>1, <1>2, <1>3, <2>1 DEF ExpectedOrdered
<1>8. PagesInitial'
  <2>1. IsIncreasing(<<>>) /\ \A M : Initial(<<>>, M)
    BY <1>4 DEF IsIncreasing, Initial
  <2>2. IsPrefix(<<>>, expected')
    <3>1. Len(<<>>) <= Len(expected') /\ \A i \in 1..Len(<<>>) : <<>>[i] = expected'[i]
      BY <1>2, <1>4
    <3> QED BY <1>2, <1>4, <3>1, PrefixMeans
  <2> QED BY <1>1, <2>1, <2>2 DEF PagesInitial
<1> QED BY <1>5, <1>6, <1>7, <1>8 DEF MemoryInv

LEMMA ReadPageInv ==
  ASSUME MemoryInv, NEW t \in Histories, ReadPage(t)
  PROVE  MemoryInv'
<1> DEFINE last == Len(pages) + PageSize
           Upto(s) == IF last > Len(s) THEN Len(s) ELSE last
<1>1. t \in reading /\ UNCHANGED <<backend, now, appended, rows, inserting, reading, expected, begun>>
  BY DEF ReadPage
<1>2. PICK s \in Orders(t) : pages' = pages \o SubSeq(s, Len(pages) + 1, Upto(s))
  BY DEF ReadPage
<1>3. s \in Seq(Nat) /\ ToSet(s) = Matching(t) /\ pages \in Seq(Nat) /\ expected \in Seq(Nat)
  BY OrdersEnumerate DEF MemoryInv, MemoryTypeOK
<1>4. \A u : Matching(u)' = Matching(u) /\ (Undisturbed(u)' <=> Undisturbed(u))
  BY <1>1 DEF Matching, Undisturbed
<1>5. /\ Upto(s) \in Nat /\ Upto(s) <= Len(s) /\ (Len(pages) <= Len(s) => Len(pages) <= Upto(s))
      /\ Len(pages) \in Nat /\ Len(s) \in Nat
  BY <1>3, MemoryConstants
<1> DEFINE more == SubSeq(s, Len(pages) + 1, Upto(s))
<1>6. more \in Seq(Nat)
  <2> DEFINE m == Upto(s)
  <2>1. m \in Nat /\ m <= Len(s)
    BY <1>5
  <2> HIDE DEF m
  <2>2. SubSeq(s, Len(pages) + 1, m) \in Seq(Nat)
    BY <1>3, <1>5, <2>1
  <2> QED BY <2>2 DEF m
<1>7. pages' = pages \o more /\ pages' \in Seq(Nat)
  <2>1. pages' = pages \o more
    BY <1>2
  <2> HIDE DEF more
  <2>2. pages \o more \in Seq(Nat)
    BY <1>3, <1>6
  <2> QED BY <2>1, <2>2
<1>8. ASSUME IsPrefix(pages, s) PROVE IsPrefix(pages', s)
  <2> DEFINE m == Upto(s)
  <2>1. Len(pages) <= Len(s)
    BY <1>3, <1>8, PrefixMeans
  <2>2. m \in Nat /\ m <= Len(s) /\ Len(pages) <= m
    BY <1>5, <2>1
  <2>3. pages' = pages \o SubSeq(s, Len(pages) + 1, m)
    BY <1>2
  <2> HIDE DEF m
  <2> QED BY <1>3, <1>8, <2>2, <2>3, NextPage
<1> HIDE DEF more, Upto
<1>9. MemoryTypeOK'
  BY <1>1, <1>7 DEF MemoryInv, MemoryTypeOK
<1>10. Stamped' /\ InsertedAtOnce' /\ ExpectedOrdered'
  BY <1>1, <1>4 DEF MemoryInv, Stamped, InsertedAtOnce, ExpectedOrdered
<1>11. ASSUME backend # "postgres"
       PROVE  IsIncreasing(pages') /\ Initial(pages', Matching(t))
  <2>1. IsIncreasing(s)
    BY <1>11, OrdersIncrease
  <2>2. IsIncreasing(pages) /\ Initial(pages, ToSet(s))
    BY <1>1, <1>3, <1>11 DEF MemoryInv, PagesInitial
  <2>3. IsPrefix(pages, s)
    BY <1>3, <2>1, <2>2, InitialIsPrefix
  <2> QED BY <1>3, <1>7, <1>8, <2>1, <2>3, PrefixIsInitial
<1>12. ASSUME Undisturbed(t)
       PROVE  IsPrefix(pages', expected) \/ IsPrefix(expected, pages')
  <2>1. IsIncreasing(s)
    BY <1>12, OrdersIncrease DEF Undisturbed
  <2>2. IsIncreasing(expected) /\ Initial(expected, ToSet(s))
    BY <1>3, <1>12, ExpectedInitial
  <2>3. IsPrefix(expected, s)
    BY <1>3, <2>1, <2>2, InitialIsPrefix
  <2>4. IsPrefix(pages, expected) \/ IsPrefix(expected, pages)
    BY <1>1, <1>12 DEF MemoryInv, PagesInitial
  <2>5. CASE IsPrefix(pages, expected)
    <3>1. IsPrefix(pages', s)
      BY <1>3, <1>8, <2>3, <2>5, PrefixOfPrefix
    <3> QED BY <1>3, <1>7, <2>3, <3>1, PrefixesCompare
  <2>6. CASE IsPrefix(expected, pages)
    <3>1. Len(pages) <= Len(pages') /\ \A i \in 1..Len(pages) : pages[i] = pages'[i]
      BY <1>3, <1>6, <1>7
    <3>2. IsPrefix(pages, pages')
      BY <1>3, <1>7, <3>1, PrefixMeans
    <3> QED BY <1>3, <1>7, <2>6, <3>2, PrefixOfPrefix
  <2> QED BY <2>4, <2>5, <2>6
<1>13. \A u \in reading : u = t
  BY <1>1 DEF MemoryInv, MemoryTypeOK
<1>14. PagesInitial'
  BY <1>1, <1>4, <1>11, <1>12, <1>13 DEF PagesInitial
<1> QED BY <1>9, <1>10, <1>14 DEF MemoryInv

\* The invariant holds throughout.
LEMMA MemoryInvariant == MemorySpec => []MemoryInv
<1>1. MemoryInv /\ [MemoryNext]_memoryVars => MemoryInv'
  <2> SUFFICES ASSUME MemoryInv, [MemoryNext]_memoryVars PROVE MemoryInv'
    OBVIOUS
  <2>1. CASE UNCHANGED memoryVars
    <3>1. \A t : Matching(t)' = Matching(t)
      BY <2>1 DEF memoryVars, Matching
    <3>2. MemoryTypeOK' /\ Stamped' /\ InsertedAtOnce'
      BY <2>1 DEF memoryVars, MemoryInv, MemoryTypeOK, Stamped, InsertedAtOnce
    <3>3. MemoryTypeOK' /\ UNCHANGED <<backend, appended, reading, pages, expected, begun>>
      BY <2>1, <3>2 DEF memoryVars
    <3> QED BY <3>1, <3>2, <3>3, ReadingStays
  <2> QED BY <2>1, AppendEntryInv, EndInsertInv, TimePassesInv, BeginReadingInv, ReadPageInv
          DEF MemoryNext
<1> QED BY <1>1, MemoryInitInv, PTL DEF MemorySpec

\* Reading a trace page by page while others append to it gives, of the stores that insert at
\* once, the entries in their order without a gap or a repetition; of PostgreSQL, whose
\* inserts end in any order, it does if no insert of the trace ended during the reading: the offset
\* of the next page is the number of entries read.
THEOREM PagesAreExact == MemorySpec => []PagesExact
<1>1. MemoryInv => PagesExact
  <2> SUFFICES ASSUME MemoryInv, NEW t \in reading
               PROVE  /\ backend # "postgres" => \A s \in Orders(t) : IsPrefix(pages, s)
                      /\ Undisturbed(t) => IsPrefix(pages, expected) \/ IsPrefix(expected, pages)
    BY DEF PagesExact
  <2>1. ASSUME backend # "postgres", NEW s \in Orders(t) PROVE IsPrefix(pages, s)
    <3>1. s \in Seq(Nat) /\ ToSet(s) = Matching(t) /\ pages \in Seq(Nat)
      BY OrdersEnumerate DEF MemoryInv, MemoryTypeOK
    <3>2. IsIncreasing(s)
      BY <2>1, OrdersIncrease
    <3>3. IsIncreasing(pages) /\ Initial(pages, ToSet(s))
      BY <2>1, <3>1 DEF MemoryInv, PagesInitial
    <3> QED BY <3>1, <3>2, <3>3, InitialIsPrefix
  <2> QED BY <2>1 DEF MemoryInv, PagesInitial
<1> QED BY <1>1, MemoryInvariant, PTL

-------------------------------------------------------------------------------
(* The selection.                                                            *)
SelectionFields == {"trace", "agent", "detail", "mode", "look", "presentation", "cycle", "auto"}

\* A selection: a graph that is presented is not the legacy one.
SelectionOK(s) ==
  /\ DOMAIN s = SelectionFields
  /\ s.mode \in Modes /\ s.look \in Looks
  /\ s.presentation \in BOOLEAN /\ s.cycle \in BOOLEAN
  /\ s.presentation => s.mode # "legacy"

\* An address, which may leave out the graph and its look.
AddressOK(a) ==
  /\ a.mode \in Modes \cup {Unset} /\ a.look \in Looks \cup {Unset}
  /\ a.presentation \in BOOLEAN /\ a.cycle \in BOOLEAN

SelectionInv ==
  /\ UrlRestores
  /\ SelectionOK(selection) /\ AddressOK(address)
  /\ earlier = <<>> \/ \E a : AddressOK(a) /\ earlier = <<a>>

-------------------------------------------------------------------------------
LEMMA ReadOK ==
  ASSUME NEW a, AddressOK(a)
  PROVE  SelectionOK(Read(a))
<1>1. GraphMode(a) \in Modes /\ (a.presentation => GraphMode(a) # "legacy")
  BY DEF AddressOK, GraphMode, Modes
<1>2. (IF a.look = Unset THEN "default" ELSE a.look) \in Looks
  BY DEF AddressOK, Looks
<1> QED BY <1>1, <1>2 DEF AddressOK, Read, SelectionOK, SelectionFields

\* What is pushed is restored.
LEMMA PushRestores ==
  ASSUME SelectionInv, NEW s, SelectionOK(s), Push(s), UNCHANGED earlier \/ earlier' = <<>>
  PROVE  SelectionInv'
<1>1. Unset \notin Modes \cup Looks
  BY SelectionConstants
<1>2. address'.mode = s.mode /\ address'.presentation = s.presentation
        /\ address'.trace = s.trace /\ address'.agent = s.agent
        /\ address'.look = (IF s.mode = "showcase" THEN s.look ELSE Unset)
        /\ address'.cycle = (s.presentation /\ s.cycle)
  BY DEF Push, Written
<1>3. AddressOK(address')
  BY <1>2 DEF AddressOK, SelectionOK
<1>4. GraphMode(address') = s.mode
  BY <1>1, <1>2 DEF GraphMode, SelectionOK, Modes
<1>5. s.mode = "showcase" => Read(address').look = s.look
  BY <1>1, <1>2 DEF Read, SelectionOK, SelectionFields
<1>6. s.presentation => Read(address').cycle = s.cycle
  BY <1>2 DEF Read, SelectionOK, SelectionFields
<1>7. UrlRestores'
  BY <1>2, <1>4, <1>5, <1>6 DEF UrlRestores, Push, Read
<1>8. SelectionOK(selection)'
  BY DEF Push
<1> QED BY <1>3, <1>7, <1>8 DEF SelectionInv

\* What is read from an address is restored by it.
LEMMA ReadRestores ==
  ASSUME SelectionInv, NEW a, AddressOK(a), address' = a, NEW auto,
         selection' \in {Read(a), [Read(a) EXCEPT !.auto = auto]},
         earlier' = <<>> \/ \E b : AddressOK(b) /\ earlier' = <<b>>
  PROVE  SelectionInv'
<1>1. SelectionOK(Read(a))
  BY ReadOK
<1>2. /\ selection'.trace = Read(a).trace /\ selection'.agent = Read(a).agent
      /\ selection'.mode = Read(a).mode /\ selection'.look = Read(a).look
      /\ selection'.presentation = Read(a).presentation /\ selection'.cycle = Read(a).cycle
  BY DEF Read
<1>3. SelectionOK(selection)'
  BY <1>1, <1>2 DEF SelectionOK, Read, SelectionFields
<1> QED BY <1>2, <1>3 DEF SelectionInv, UrlRestores

\* What a change of trace, agent, drawer or auto leaves as it was.
Similar(s, t) ==
  /\ s.mode = t.mode /\ s.look = t.look
  /\ s.presentation = t.presentation /\ s.cycle = t.cycle

LEMMA ChangeOK ==
  ASSUME NEW s, SelectionOK(s), NEW x
  PROVE  /\ SelectionOK([s EXCEPT !.trace = x]) /\ Similar(s, [s EXCEPT !.trace = x])
         /\ SelectionOK([s EXCEPT !.detail = x]) /\ Similar(s, [s EXCEPT !.detail = x])
         /\ SelectionOK([s EXCEPT !.auto = TRUE, !.trace = x])
         /\ Similar(s, [s EXCEPT !.auto = TRUE, !.trace = x])
         /\ SelectionOK([s EXCEPT !.agent = x, !.detail = x])
         /\ Similar(s, [s EXCEPT !.agent = x, !.detail = x])
  BY DEF SelectionOK, Similar, SelectionFields

LEMMA SimilarTwice ==
  ASSUME NEW s, NEW t, NEW u, Similar(s, t), Similar(t, u)
  PROVE  Similar(s, u)
  BY DEF Similar

\* One pass of the effects changes none of what the address leaves out.
LEMMA CorrectedOK ==
  ASSUME SelectionOK(selection)
  PROVE  SelectionOK(Corrected) /\ Similar(selection, Corrected)
<1> DEFINE s1 == AutoSelect(selection)
           s2 == FallBack(s1)
           s3 == ClearAgent(s2)
<1>1. \A s : Similar(s, s)
  BY DEF Similar
<1>2. ASSUME NEW s, SelectionOK(s)
      PROVE  /\ SelectionOK(AutoSelect(s)) /\ Similar(s, AutoSelect(s))
             /\ SelectionOK(FallBack(s)) /\ Similar(s, FallBack(s))
             /\ SelectionOK(ClearAgent(s)) /\ Similar(s, ClearAgent(s))
             /\ SelectionOK(CloseDetail(s)) /\ Similar(s, CloseDetail(s))
  <2>1. SelectionOK(AutoSelect(s)) /\ Similar(s, AutoSelect(s))
    <3>1. AutoSelect(s) \in {s, [s EXCEPT !.auto = TRUE, !.trace = Head(Shown.traces)]}
      BY SMTT(30) DEF AutoSelect
    <3>2. SelectionOK([s EXCEPT !.auto = TRUE, !.trace = Head(Shown.traces)]) /\ Similar(s, [s EXCEPT !.auto = TRUE, !.trace = Head(Shown.traces)])
      BY <1>2, ChangeOK
    <3> QED BY <1>1, <1>2, <3>1, <3>2, Zenon
  <2>2. SelectionOK(FallBack(s)) /\ Similar(s, FallBack(s))
    <3>1. PICK x : FallBack(s) \in {s, [s EXCEPT !.trace = x]}
      BY DEF FallBack
    <3>2. SelectionOK([s EXCEPT !.trace = x]) /\ Similar(s, [s EXCEPT !.trace = x])
      BY <1>2, ChangeOK
    <3> QED BY <1>1, <1>2, <3>1, <3>2, Zenon
  <2>3. SelectionOK(ClearAgent(s)) /\ Similar(s, ClearAgent(s))
    <3>1. ClearAgent(s) \in {s, [s EXCEPT !.agent = Unset, !.detail = Unset]}
      BY SMTT(30) DEF ClearAgent
    <3>2. SelectionOK([s EXCEPT !.agent = Unset, !.detail = Unset]) /\ Similar(s, [s EXCEPT !.agent = Unset, !.detail = Unset])
      BY <1>2, ChangeOK
    <3> QED BY <1>1, <1>2, <3>1, <3>2, Zenon
  <2>4. SelectionOK(CloseDetail(s)) /\ Similar(s, CloseDetail(s))
    BY <1>1, <1>2, ChangeOK DEF CloseDetail
  <2> QED BY <2>1, <2>2, <2>3, <2>4
<1>3. SelectionOK(s1) /\ SelectionOK(s2) /\ SelectionOK(s3)
        /\ Similar(selection, s1) /\ Similar(s1, s2) /\ Similar(s2, s3)
  BY <1>2
<1> HIDE DEF s1
<1>4. SelectionOK(CloseDetail(s3)) /\ Similar(s3, CloseDetail(s3))
  BY <1>2, <1>3
<1>5. Corrected = CloseDetail(s3)
  BY DEF Corrected, s1
<1> QED BY <1>3, <1>4, <1>5, SimilarTwice

-------------------------------------------------------------------------------
LEMMA RunEffectsInv ==
  ASSUME SelectionInv, RunEffects
  PROVE  SelectionInv'
<1>1. SelectionOK(Corrected) /\ Similar(selection, Corrected)
  BY CorrectedOK DEF SelectionInv
<1>2. UNCHANGED earlier
  BY DEF RunEffects
<1>3. CASE Push(Corrected)
  BY <1>1, <1>2, <1>3, PushRestores
<1>4. CASE /\ Corrected.trace = selection.trace /\ Corrected.agent = selection.agent
           /\ selection' = Corrected /\ UNCHANGED address
  BY <1>1, <1>2, <1>4 DEF SelectionInv, UrlRestores, Similar
<1> QED BY <1>3, <1>4 DEF RunEffects

\* Most handlers push what they change.
LEMMA InputInv ==
  ASSUME SelectionInv,
         \/ \E t \in TraceNames : ClickTrace(t)
         \/ CycleTraces
         \/ \E a \in AgentNames : ClickAgent(a) \/ FocusAgent(a) \/ LinkAgent(a)
         \/ ClearSelection \/ CloseDrawer
         \/ \E m \in {"ops", "showcase"} : SetMode(m)
         \/ \E l \in Looks : SetLook(l)
         \/ SetCycle \/ Present \/ Escape
  PROVE  SelectionInv'
<1> USE DEF Modes
<1>1. SelectionOK(selection)
  BY DEF SelectionInv
<1>2. ASSUME NEW x, NEW y
      PROVE  /\ SelectionOK([selection EXCEPT !.trace = x, !.auto = y])
             /\ SelectionOK([selection EXCEPT !.agent = x])
             /\ SelectionOK([selection EXCEPT !.agent = x, !.detail = y])
             /\ SelectionOK([[selection EXCEPT !.agent = x] EXCEPT !.detail = y])
  BY <1>1 DEF SelectionOK, SelectionFields
<1>3. ASSUME NEW t, Select(t) PROVE SelectionInv'
  BY <1>2, <1>3, PushRestores DEF Select
<1>4. ASSUME NEW t \in TraceNames, ClickTrace(t) PROVE SelectionInv'
  BY <1>3, <1>4 DEF ClickTrace
<1>5. ASSUME CycleTraces PROVE SelectionInv'
  BY <1>3, <1>5 DEF CycleTraces
<1>6. ASSUME NEW s, SelectionOK(s), Push(s), Keep PROVE SelectionInv'
  BY <1>6, PushRestores DEF Keep
<1>7. ASSUME NEW a \in AgentNames, ClickAgent(a) PROVE SelectionInv'
  <2>1. SelectionOK([Toggled(a) EXCEPT !.detail = IF selection.agent = a THEN Unset ELSE a])
    BY <1>2 DEF Toggled
  <2> QED BY <1>6, <1>7, <2>1 DEF ClickAgent
<1>8. ASSUME NEW a \in AgentNames, FocusAgent(a) PROVE SelectionInv'
  <2>1. SelectionOK(Toggled(a))
    BY <1>2 DEF Toggled
  <2> QED BY SMTT(30), <1>6, <1>8, <2>1 DEF FocusAgent
<1>9. ASSUME NEW a \in AgentNames, LinkAgent(a) PROVE SelectionInv'
  BY <1>2, <1>6, <1>9 DEF LinkAgent
<1>10. ASSUME ClearSelection PROVE SelectionInv'
  BY <1>2, <1>6, <1>10 DEF ClearSelection
<1>11. ASSUME CloseDrawer PROVE SelectionInv'
  <2>1. SelectionOK(selection') /\ Similar(selection, selection')
          /\ selection'.trace = selection.trace /\ selection'.agent = selection.agent
    BY <1>1, <1>11 DEF CloseDrawer, SelectionOK, Similar, SelectionFields
  <2> QED BY <1>11, <2>1 DEF CloseDrawer, Keep, SelectionInv, UrlRestores, Similar
<1>12. ASSUME NEW m \in {"ops", "showcase"}, SetMode(m) PROVE SelectionInv'
  <2>1. SelectionOK([selection EXCEPT !.mode = m])
    BY <1>1 DEF SelectionOK, SelectionFields
  <2> QED BY <1>6, <1>12, <2>1 DEF SetMode
<1>13. ASSUME NEW l \in Looks, SetLook(l) PROVE SelectionInv'
  <2>1. SelectionOK([selection EXCEPT !.look = l])
    BY <1>1 DEF SelectionOK, SelectionFields
  <2> QED BY <1>6, <1>13, <2>1 DEF SetLook
<1>14. ASSUME SetCycle PROVE SelectionInv'
  <2>1. SelectionOK([selection EXCEPT !.cycle = ~@])
    BY <1>1 DEF SelectionOK, SelectionFields
  <2> QED BY <1>6, <1>14, <2>1 DEF SetCycle
<1>15. ASSUME Present PROVE SelectionInv'
  <2>1. selection.mode = "showcase"
    BY <1>15 DEF Present, ShowcaseInput
  <2>2. SelectionOK([selection EXCEPT !.presentation = TRUE, !.agent = Unset, !.detail = Unset])
    BY <1>1, <2>1 DEF SelectionOK, SelectionFields
  <2> QED BY <1>6, <1>15, <2>2 DEF Present
<1>16. ASSUME Escape PROVE SelectionInv'
  <2>1. SelectionOK([selection EXCEPT !.presentation = FALSE])
    BY <1>1 DEF SelectionOK, SelectionFields
  <2> QED BY <1>6, <1>16, <2>1 DEF Escape
<1> QED BY <1>4, <1>5, <1>7, <1>8, <1>9, <1>10, <1>11, <1>12, <1>13, <1>14, <1>15, <1>16

\* The history and a reload read the address.
LEMMA HistoryInv ==
  ASSUME SelectionInv, GoToFragment \/ GoBack \/ Reload
  PROVE  SelectionInv'
<1>1. CASE GoToFragment
  <2>1. AddressOK(address) /\ earlier' = <<address>> /\ address' = address
    BY <1>1 DEF GoToFragment, SelectionInv
  <2>2. PICK auto : selection' = [Read(address) EXCEPT !.auto = auto]
    BY <1>1 DEF GoToFragment, HydrateFromUrl
  <2> QED BY <2>1, <2>2, ReadRestores
<1>2. CASE GoBack
  <2>1. PICK a : AddressOK(a) /\ earlier = <<a>>
    BY <1>2 DEF GoBack, SelectionInv
  <2>2. address' = a /\ earlier' = <<>>
    BY <1>2, <2>1 DEF GoBack, Last, Front
  <2>3. PICK auto : selection' = [Read(a) EXCEPT !.auto = auto]
    BY <1>2, <2>2 DEF GoBack, HydrateFromUrl
  <2>4. selection' \in {Read(a), [Read(a) EXCEPT !.auto = auto]}
    BY <2>3
  <2> QED BY <2>1, <2>2, <2>4, ReadRestores
<1>3. CASE Reload
  <2>1. AddressOK(address) /\ address' = address /\ UNCHANGED earlier
          /\ selection' = Read(address)
    BY <1>3 DEF Reload, LoadPage, SelectionInv
  <2> QED BY <2>1, ReadRestores DEF SelectionInv
<1> QED BY <1>1, <1>2, <1>3

\* The selection and its address stay right.
LEMMA SelectionInitInv == SelectionInit => SelectionInv
<1> SUFFICES ASSUME SelectionInit PROVE SelectionInv
  OBVIOUS
<1>1. AddressOK(address)
  BY SelectionConstants DEF SelectionInit, AddressOK
<1> QED BY <1>1, ReadOK DEF SelectionInit, SelectionInv, UrlRestores

LEMMA SelectionNextInv == SelectionInv /\ [SelectionNext]_selectionVars => SelectionInv'
<1> SUFFICES ASSUME SelectionInv, [SelectionNext]_selectionVars PROVE SelectionInv'
  OBVIOUS
<1>1. ASSUME UNCHANGED pageSide PROVE SelectionInv'
  BY <1>1 DEF pageSide, SelectionInv, UrlRestores
<1>2. CASE Fetched \/ FetchAgain \/ InvalidateAll \/ Forget
  BY <1>1, <1>2 DEF Fetched, FetchAgain, InvalidateAll, Forget
<1>3. CASE \/ \E t \in TraceNames : NoteActivity(t)
           \/ \E a \in AgentNames : NoteAgent(a)
  BY <1>1, <1>3 DEF NoteActivity, NoteAgent
<1>4. CASE UNCHANGED selectionVars
  BY <1>1, <1>4 DEF selectionVars
<1> QED BY <1>2, <1>3, <1>4, RunEffectsInv, InputInv, HistoryInv DEF SelectionNext

\* Whoever opens the address gets what is selected, for any traces, agents and links, and
\* however long the page is used.
THEOREM AddressRestores == SelectionSpec => []UrlRestores
<1>1. SelectionInv => UrlRestores
  BY DEF SelectionInv
<1> QED BY <1>1, SelectionInitInv, SelectionNextInv, PTL DEF SelectionSpec

\* What is shown.
Names == TraceNames \cup {Unset}

ShownOK ==
  /\ listing \in Seq(TraceNames) /\ limit \in Nat /\ DOMAIN snapshots = Names
  /\ \A t \in Names : snapshots[t] = Unset \/ snapshots[t].traces \in Seq(TraceNames)
  /\ selection.trace \in Names
  /\ \A i \in DOMAIN earlier : earlier[i].trace \in Names
  /\ lastShown = {} \/ \E t \in Names : lastShown = {t}
  /\ snapshots[selection.trace] # Unset => lastShown = {selection.trace}

\* The trace the user has clicked on is selected, and shown to be there, until a snapshot of
\* its own is; and no other is selected in its place once, unasked.
ClickedOK ==
  /\ clicked # Unset =>
       /\ clicked \in Names
       /\ selection.trace # Unset => selection.auto
       /\ snapshots[clicked] = Unset => selection.trace = clicked /\ clicked \in Rows

PickInv == SelectionInv /\ ShownOK /\ ClickedOK

LEMMA RowsOK ==
  ASSUME ShownOK, Shown # Unset
  PROVE  Shown.traces \in Seq(TraceNames) /\ Rows \subseteq TraceNames
<1>1. Rows = ToSet(Shown.traces)
  BY DEF Rows
<1>2. PICK t \in Names : Shown = snapshots[t]
  <2>1. CASE snapshots[selection.trace] # Unset
    BY <2>1 DEF Shown, ShownOK
  <2>2. CASE snapshots[selection.trace] = Unset
    <3>1. lastShown # {}
      BY <2>2 DEF Shown
    <3>2. PICK t \in Names : lastShown = {t}
      BY <3>1 DEF ShownOK
    <3>3. (CHOOSE u \in lastShown : TRUE) = t
      BY <3>2
    <3> QED BY <2>2, <3>1, <3>3 DEF Shown
  <2> QED BY <2>1, <2>2
<1>3. Shown.traces \in Seq(TraceNames)
  BY <1>2 DEF ShownOK
<1> QED BY <1>1, <1>3 DEF ToSet

\* What the effects make of the trace.
LEMMA CorrectedTrace ==
  ASSUME PickInv
  PROVE  /\ Corrected.trace \in Names
         /\ selection.auto => Corrected.auto
         /\ Corrected.trace # selection.trace =>
              \/ ~selection.auto /\ Corrected.auto
              \/ selection.trace # Unset /\ Shown # Unset /\ ~Has(Shown, selection.trace)
<1> DEFINE s1 == AutoSelect(selection)
           s2 == FallBack(s1)
           s3 == ClearAgent(s2)
           s4 == CloseDetail(s3)
           first == Head(Shown.traces)
<1>1. SelectionOK(selection) /\ selection.trace \in Names
  BY DEF PickInv, SelectionInv, ShownOK
<1>2. Rows # {} => first \in Names
  <2> SUFFICES ASSUME Rows # {} PROVE first \in Names
    OBVIOUS
  <2>1. Shown.traces \in Seq(TraceNames) /\ Rows = ToSet(Shown.traces)
    BY RowsOK DEF PickInv, Rows
  <2>2. Shown.traces # <<>>
    BY <2>1, EmptyToSet
  <2> QED BY <2>1, <2>2 DEF Names
<1>3. /\ DOMAIN s1 = SelectionFields /\ s1.trace \in Names
      /\ \/ s1 = selection
         \/ ~selection.auto /\ s1.auto
  <2>1. CASE s1 = selection
    BY <1>1, <2>1 DEF SelectionOK
  <2>2. CASE s1 # selection
    <3>1. /\ ~selection.auto /\ Rows # {}
          /\ s1 = [selection EXCEPT !.auto = TRUE, !.trace = first]
      BY <2>2 DEF AutoSelect
    <3> HIDE DEF s1, first
    <3> QED BY <1>1, <1>2, <3>1 DEF SelectionOK, SelectionFields
  <2> QED BY <2>1, <2>2
<1>4. /\ DOMAIN s2 = SelectionFields /\ s2.trace \in Names /\ s2.auto = s1.auto
      /\ \/ s2 = s1
         \/ selection.trace # Unset /\ Shown # Unset /\ ~Has(Shown, selection.trace)
  <2>1. CASE s2 = s1
    BY <1>3, <2>1
  <2>2. CASE s2 # s1
    <3> DEFINE x == IF Rows = {} THEN Unset ELSE first
    <3>1. /\ selection.trace # Unset /\ Shown # Unset /\ ~Has(Shown, selection.trace)
          /\ s2 = [s1 EXCEPT !.trace = x]
      BY <2>2 DEF FallBack
    <3>2. x \in Names
      BY <1>2 DEF Names
    <3> HIDE DEF s2, s1, x
    <3> QED BY <1>3, <3>1, <3>2 DEF SelectionFields
  <2> QED BY <2>1, <2>2
<1>5. /\ DOMAIN s3 = SelectionFields /\ s3.trace = s2.trace /\ s3.auto = s2.auto
  <2>1. s3 = s2 \/ s3 = [s2 EXCEPT !.agent = Unset, !.detail = Unset]
    BY DEF ClearAgent
  <2> HIDE DEF s3, s2
  <2> QED BY <1>4, <2>1 DEF SelectionFields
<1>6. /\ s4.trace = s3.trace /\ s4.auto = s3.auto
  <2>1. s4 = s3 \/ s4 = [s3 EXCEPT !.detail = Unset]
    BY DEF CloseDetail
  <2> HIDE DEF s4, s3
  <2> QED BY <1>5, <2>1 DEF SelectionFields
<1>7. Corrected = s4
  BY DEF Corrected
<1> HIDE DEF s1, s2, s3, s4
<1> QED BY <1>1, <1>3, <1>4, <1>5, <1>6, <1>7

\* While the selected trace stays the same.
LEMMA SameTrace ==
  ASSUME PickInv, SelectionInv', listing' \in Seq(TraceNames), UNCHANGED limit,
         UNCHANGED <<snapshots, lastShown, clicked>>,
         selection'.trace = selection.trace,
         clicked # Unset /\ selection.trace # Unset => selection'.auto,
         \A i \in DOMAIN earlier' : earlier'[i].trace \in Names
  PROVE  PickInv'
<1>1. ShownOK'
  BY DEF PickInv, ShownOK, Names
<1>2. Shown' = Shown
  BY DEF Shown
<1>3. Rows' = Rows
  BY <1>2 DEF Rows
<1>4. ClickedOK'
  BY <1>3 DEF PickInv, ClickedOK, Names
<1> QED BY <1>1, <1>4 DEF PickInv

\* The observer of the selected trace shows what it has shown.
LEMMA ObserveSame ==
  ASSUME PickInv, Observe(selection.trace)
  PROVE  UNCHANGED <<snapshots, lastShown>>
  BY DEF PickInv, ShownOK, Observe

\* Another trace is selected.
LEMMA OtherTrace ==
  ASSUME PickInv, NEW t \in Names, Observe(t), selection'.trace = t,
         UNCHANGED <<listing, limit>>, \A i \in DOMAIN earlier' : earlier'[i].trace \in Names
  PROVE  ShownOK' /\ snapshots' = snapshots
<1>1. snapshots' = snapshots /\ lastShown' = IF snapshots[t] = Unset THEN lastShown ELSE {t}
  BY DEF Observe
<1> QED BY <1>1 DEF PickInv, ShownOK, Names

\* The effects run.
LEMMA RunEffectsPick ==
  ASSUME PickInv, SelectionInv', RunEffects
  PROVE  PickInv'
<1>1. /\ selection' = Corrected /\ Observe(Corrected.trace)
      /\ UNCHANGED <<listing, limit, earlier, clicked>>
  BY DEF RunEffects, Push, serverSide
<1>2. /\ Corrected.trace \in Names
      /\ selection.auto => Corrected.auto
      /\ Corrected.trace # selection.trace =>
           \/ ~selection.auto /\ Corrected.auto
           \/ selection.trace # Unset /\ Shown # Unset /\ ~Has(Shown, selection.trace)
  BY CorrectedTrace
<1>3. listing' \in Seq(TraceNames) /\ \A i \in DOMAIN earlier' : earlier'[i].trace \in Names
  BY <1>1 DEF PickInv, ShownOK, Names
<1>4. CASE Corrected.trace = selection.trace
  <2>1. UNCHANGED <<snapshots, lastShown>>
    BY <1>1, <1>4, ObserveSame
  <2>2. clicked # Unset /\ selection.trace # Unset => selection'.auto
    BY <1>1, <1>2 DEF PickInv, ClickedOK
  <2> QED BY <1>1, <1>3, <1>4, <2>1, <2>2, SameTrace
<1>5. CASE Corrected.trace # selection.trace
  <2>1. ShownOK' /\ snapshots' = snapshots
    BY <1>1, <1>2, <1>3, OtherTrace
  <2>2. ASSUME clicked # Unset
        PROVE  selection'.auto /\ snapshots[clicked] # Unset
    <3>1. selection.trace # Unset => selection.auto
      BY <2>2 DEF PickInv, ClickedOK
    <3>2. selection'.auto
      BY <1>1, <1>2, <1>5, <3>1
    <3>3. ASSUME snapshots[clicked] = Unset PROVE FALSE
      <4>1. selection.trace = clicked /\ clicked \in Rows
        BY <2>2, <3>3 DEF PickInv, ClickedOK
      <4>2. Shown # Unset => Has(Shown, clicked)
        BY <4>1 DEF Rows, Has
      <4> QED BY <1>2, <1>5, <2>2, <3>1, <4>1, <4>2
    <3> QED BY <3>2, <3>3
  <2>3. ClickedOK'
    BY <1>1, <2>1, <2>2 DEF PickInv, ClickedOK, Names
  <2> QED BY <2>1, <2>3 DEF PickInv
<1> QED BY <1>4, <1>5

\* A fetch is answered.
LEMMA FetchedPick ==
  ASSUME PickInv, SelectionInv', Fetched
  PROVE  PickInv'
<1> DEFINE here == selection.trace
           shorter == SubSeq(listing, 1, IF Len(listing) < limit THEN Len(listing) ELSE limit)
<1>1. /\ snapshots' = [snapshots EXCEPT ![here] = SnapshotOf(here)] /\ lastShown' = {here}
      /\ clicked' = IF clicked = here THEN Unset ELSE clicked
      /\ UNCHANGED <<listing, limit, earlier, selection>>
  BY DEF Fetched, serverSide, pageSide
<1>2. SnapshotOf(here).traces = shorter
  BY DEF SnapshotOf
<1>3. shorter \in Seq(TraceNames)
  <2>1. limit \in Nat /\ listing \in Seq(TraceNames)
    BY DEF PickInv, ShownOK
  <2>2. PICK k \in 0..Len(listing) : shorter = SubSeq(listing, 1, k)
    BY <2>1
  <2> QED BY <2>1, <2>2, SubSeqProperties
<1>4. ShownOK'
  BY <1>1, <1>2, <1>3 DEF PickInv, ShownOK, Names
<1>5. ClickedOK'
  <2> SUFFICES ASSUME clicked' # Unset
               PROVE  /\ clicked \in Names
                      /\ selection.trace # Unset => selection.auto
                      /\ snapshots'[clicked] # Unset
    BY <1>1 DEF ClickedOK, Names
  <2>1. clicked' = clicked /\ clicked # here /\ clicked # Unset
    BY <1>1
  <2>2. snapshots'[clicked] = snapshots[clicked]
    BY <1>1, <2>1 DEF PickInv, ShownOK, ClickedOK
  <2> QED BY <2>1, <2>2 DEF PickInv, ClickedOK
<1> QED BY <1>4, <1>5 DEF PickInv

\* A click on a row, or the cycle.
LEMMA ClickTracePick ==
  ASSUME PickInv, SelectionInv', NEW t \in TraceNames, ClickTrace(t)
  PROVE  PickInv'
<1>1. /\ selection' = [selection EXCEPT !.trace = t, !.auto = TRUE] /\ Observe(t)
      /\ UNCHANGED <<listing, limit, earlier>> /\ t \in Rows
      /\ clicked' = IF t = selection.trace THEN clicked ELSE t
  BY DEF ClickTrace, Select, Push, serverSide
<1>2. selection'.trace = t /\ selection'.auto
  BY <1>1 DEF PickInv, SelectionInv, SelectionOK, SelectionFields
<1>3. listing' \in Seq(TraceNames) /\ \A i \in DOMAIN earlier' : earlier'[i].trace \in Names
  BY <1>1 DEF PickInv, ShownOK, Names
<1>4. CASE t = selection.trace
  BY <1>1, <1>2, <1>3, <1>4, ObserveSame, SameTrace
<1>5. CASE t # selection.trace
  <2>1. t \in Names
    BY DEF Names
  <2>2. ShownOK' /\ snapshots' = snapshots
    BY <1>1, <1>2, <1>3, <2>1, OtherTrace
  <2>3. ASSUME snapshots[t] = Unset PROVE t \in Rows'
    <3>1. Shown # Unset
      BY <1>1 DEF Rows
    <3>2. lastShown' = lastShown
      BY <1>1, <2>3 DEF Observe
    <3>3. Shown' = IF lastShown # {} THEN snapshots[CHOOSE u \in lastShown : TRUE] ELSE Unset
      BY <1>2, <2>2, <2>3, <3>2 DEF Shown
    <3>4. CASE snapshots[selection.trace] = Unset
      <4>1. Shown' = Shown
        BY <3>3, <3>4 DEF Shown
      <4> QED BY <1>1, <4>1 DEF Rows
    <3>5. CASE snapshots[selection.trace] # Unset
      <4>1. lastShown = {selection.trace}
        BY <3>5 DEF PickInv, ShownOK
      <4>2. (CHOOSE u \in lastShown : TRUE) = selection.trace
        BY <4>1
      <4>3. Shown' = Shown
        BY <3>3, <3>5, <4>1, <4>2 DEF Shown
      <4> QED BY <1>1, <4>3 DEF Rows
    <3> QED BY <3>4, <3>5
  <2>4. ClickedOK'
    BY <1>1, <1>2, <1>5, <2>1, <2>2, <2>3 DEF ClickedOK, Names
  <2> QED BY <2>2, <2>4 DEF PickInv
<1> QED BY <1>4, <1>5

LEMMA CycleTracesPick ==
  ASSUME PickInv, SelectionInv', CycleTraces
  PROVE  PickInv'
<1> DEFINE list == Shown.traces
           from == IF selection.trace \in Rows
                   THEN CHOOSE i \in DOMAIN list : list[i] = selection.trace ELSE 1
           t == list[(from % Len(list)) + 1]
<1>1. /\ Shown # Unset /\ Len(list) > 1 /\ Select(t) /\ clicked' = Unset
  BY DEF CycleTraces
<1>2. /\ selection' = [selection EXCEPT !.trace = t, !.auto = TRUE] /\ Observe(t)
      /\ UNCHANGED <<listing, limit, earlier>>
  BY <1>1 DEF Select, Push, serverSide
<1>3. t \in Names
  <2>1. list \in Seq(TraceNames) /\ (Rows = ToSet(list))
    BY <1>1, RowsOK DEF PickInv, Rows
  <2>2. from \in Nat
    <3>1. CASE selection.trace \in Rows
      <4>1. \E i \in DOMAIN list : list[i] = selection.trace
        BY <2>1, <3>1 DEF ToSet
      <4>2. from \in DOMAIN list
        BY <3>1, <4>1
      <4> HIDE DEF from
      <4> QED BY <2>1, <4>2
    <3> QED BY <3>1
  <2> HIDE DEF from, list
  <2>3. Len(list) \in Nat /\ (from % Len(list)) + 1 \in 1..Len(list)
    BY <1>1, <2>1, <2>2
  <2> QED BY <2>1, <2>3 DEF Names
<1> HIDE DEF t
<1>4. selection'.trace = t
  BY <1>2 DEF PickInv, SelectionInv, SelectionOK, SelectionFields
<1>5. \A i \in DOMAIN earlier' : earlier'[i].trace \in Names
  BY <1>2 DEF PickInv, ShownOK, Names
<1>6. ShownOK'
  BY <1>2, <1>3, <1>4, <1>5, OtherTrace
<1> QED BY <1>1, <1>6 DEF PickInv, ClickedOK

\* Inputs that change no trace.
LEMMA KeepPick ==
  ASSUME PickInv, SelectionInv', Keep, selection'.trace = selection.trace,
         selection'.auto = selection.auto
  PROVE  PickInv'
<1>1. UNCHANGED <<listing, limit, earlier, clicked>> /\ Observe(selection.trace)
  BY DEF Keep, serverSide
<1>2. /\ listing' \in Seq(TraceNames) /\ \A i \in DOMAIN earlier' : earlier'[i].trace \in Names
      /\ clicked # Unset /\ selection.trace # Unset => selection'.auto
  BY <1>1 DEF PickInv, ShownOK, ClickedOK, Names
<1> QED BY <1>1, <1>2, ObserveSame, SameTrace

LEMMA InputPick ==
  ASSUME PickInv, SelectionInv',
         \/ \E a \in AgentNames : ClickAgent(a) \/ FocusAgent(a) \/ LinkAgent(a)
         \/ ClearSelection \/ CloseDrawer
         \/ \E m \in {"ops", "showcase"} : SetMode(m)
         \/ \E l \in Looks : SetLook(l)
         \/ SetCycle \/ Present \/ Escape
  PROVE  PickInv'
<1>1. DOMAIN selection = SelectionFields
  BY DEF PickInv, SelectionInv, SelectionOK
<1>2. Keep
  BY DEF ClickAgent, FocusAgent, LinkAgent, ClearSelection, CloseDrawer, SetMode, SetLook,
         SetCycle, Present, Escape
<1>3. selection'.trace = selection.trace /\ selection'.auto = selection.auto
  BY <1>1 DEF ClickAgent, FocusAgent, LinkAgent, ClearSelection, CloseDrawer, SetMode, SetLook,
              SetCycle, Present, Escape, Push, Toggled, SelectionFields
<1> QED BY <1>2, <1>3, KeepPick

\* The history and a reload.
LEMMA HistoryPick ==
  ASSUME PickInv, SelectionInv', GoToFragment \/ GoBack \/ Reload
  PROVE  PickInv'
<1>1. address.trace = selection.trace /\ selection.trace \in Names
  BY DEF PickInv, ShownOK, SelectionInv, UrlRestores, Read
<1>2. CASE GoToFragment
  <2>1. /\ UNCHANGED <<listing, limit, clicked>> /\ Observe(selection.trace)
        /\ earlier' = Append(<<>>, address)
        /\ selection' = [Read(address) EXCEPT !.auto = address.trace # Unset]
    BY <1>1, <1>2 DEF GoToFragment, HydrateFromUrl, serverSide
  <2>2. /\ selection'.trace = selection.trace
        /\ selection.trace # Unset => selection'.auto
    BY <1>1, <2>1 DEF Read
  <2>3. \A i \in DOMAIN earlier' : earlier'[i].trace \in Names
    BY <1>1, <2>1
  <2>4. listing' \in Seq(TraceNames)
    BY <2>1 DEF PickInv, ShownOK
  <2> QED BY <2>1, <2>2, <2>3, <2>4, ObserveSame, SameTrace
<1>3. CASE GoBack
  <2>1. PICK a : earlier = <<a>>
    BY <1>3 DEF GoBack, PickInv, SelectionInv
  <2>2. /\ address' = a /\ earlier' = <<>> /\ clicked' = Unset /\ UNCHANGED <<listing, limit>>
        /\ Observe(a.trace)
        /\ selection'.trace = a.trace
    BY <1>3, <2>1 DEF GoBack, Last, Front, HydrateFromUrl, serverSide, Read
  <2>3. a.trace \in Names
    BY <2>1 DEF PickInv, ShownOK
  <2>4. ShownOK'
    BY <2>2, <2>3, OtherTrace
  <2> QED BY <2>2, <2>4 DEF PickInv, ClickedOK
<1>4. CASE Reload
  <2>1. /\ UNCHANGED <<listing, limit, earlier>> /\ clicked' = Unset
        /\ selection'.trace = selection.trace /\ lastShown' = {}
        /\ snapshots' = [t \in Names |-> Unset]
    BY <1>1, <1>4 DEF Reload, LoadPage, serverSide, Read, Names
  <2>2. ShownOK'
    BY <1>1, <2>1 DEF PickInv, ShownOK, Names
  <2> QED BY <2>1, <2>2 DEF PickInv, ClickedOK
<1> QED BY <1>2, <1>3, <1>4

\* A trace is noted at the front of the list.
LEMMA NotedOK ==
  ASSUME NEW t \in TraceNames, listing \in Seq(TraceNames), NoteActivity(t)
  PROVE  listing' \in Seq(TraceNames)
<1> DEFINE others == {i \in DOMAIN listing : listing[i] # t}
           rest == AtPlaces(listing, others)
<1>1. others \subseteq DOMAIN listing
  OBVIOUS
<1> HIDE DEF others
<1>2. rest \in Seq(TraceNames)
  BY <1>1, AtPlacesOK
<1>3. listing' = <<t>> \o rest
  BY DEF NoteActivity, others
<1> HIDE DEF rest
<1> QED BY <1>2, <1>3

LEMMA PickNext == PickInv /\ [SelectionNext]_selectionVars => PickInv'
<1> SUFFICES ASSUME PickInv, [SelectionNext]_selectionVars PROVE PickInv'
  OBVIOUS
<1>1. SelectionInv'
  BY SelectionNextInv DEF PickInv
<1>2. ASSUME listing' \in Seq(TraceNames), UNCHANGED <<limit, snapshots, lastShown, clicked, pageSide>>
      PROVE  PickInv'
  <2>1. /\ clicked # Unset /\ selection.trace # Unset => selection.auto
        /\ \A i \in DOMAIN earlier : earlier[i].trace \in Names
    BY DEF PickInv, ShownOK, ClickedOK
  <2>2. selection' = selection /\ earlier' = earlier
    BY <1>2 DEF pageSide
  <2>3. /\ clicked # Unset /\ selection.trace # Unset => selection'.auto
        /\ \A i \in DOMAIN earlier' : earlier'[i].trace \in Names
        /\ selection'.trace = selection.trace
    BY <2>1, <2>2 DEF Names
  <2> QED BY <1>1, <1>2, <2>3, SameTrace
<1>3. listing \in Seq(TraceNames) /\ <<>> \in Seq(TraceNames)
  BY DEF PickInv, ShownOK
<1>4. CASE FetchAgain \/ InvalidateAll \/ Forget
  BY <1>2, <1>3, <1>4 DEF FetchAgain, InvalidateAll, Forget, serverSide, snapshotSide
<1>5. ASSUME NEW t \in TraceNames, NoteActivity(t) PROVE PickInv'
  <2>1. listing' \in Seq(TraceNames)
    BY <1>3, <1>5, NotedOK
  <2> QED BY <1>2, <1>5, <2>1 DEF NoteActivity, snapshotSide
<1>6. ASSUME NEW a \in AgentNames, NoteAgent(a) PROVE PickInv'
  BY <1>2, <1>3, <1>6 DEF NoteAgent, snapshotSide
<1>7. CASE UNCHANGED selectionVars
  BY <1>2, <1>3, <1>7 DEF selectionVars, serverSide, snapshotSide
<1>8. ASSUME NEW t \in TraceNames, ClickTrace(t) PROVE PickInv'
  BY <1>1, <1>8, ClickTracePick
<1>9. CASE CycleTraces \/ RunEffects \/ Fetched
  BY <1>1, <1>9, CycleTracesPick, RunEffectsPick, FetchedPick
<1>10. CASE GoToFragment \/ GoBack \/ Reload
  BY <1>1, <1>10, HistoryPick
<1>11. CASE \/ \E a \in AgentNames : ClickAgent(a) \/ FocusAgent(a) \/ LinkAgent(a)
            \/ ClearSelection \/ CloseDrawer
            \/ \E m \in {"ops", "showcase"} : SetMode(m)
            \/ \E l \in Looks : SetLook(l)
            \/ SetCycle \/ Present \/ Escape
  BY <1>1, <1>11, InputPick
<1> QED BY <1>4, <1>5, <1>6, <1>7, <1>8, <1>9, <1>10, <1>11 DEF SelectionNext

\* What the user has clicked on stays selected: selectTrace(), the effects of the hook
\* useConsoleSnapshot() and the listener of popstate leave it for another trace only when a
\* snapshot of its own has come and lacks it, for any traces, agents, links, limit and
\* however long the page is used.
THEOREM SelectionIsKept == SelectionSpec => SelectionKept
<1>1. SelectionInit => PickInv
  <2> SUFFICES ASSUME SelectionInit PROVE PickInv
    OBVIOUS
  <2>1. address.trace \in Names /\ limit \in Nat
    BY SelectionConstants DEF SelectionInit, Names
  <2>2. ShownOK
    BY <2>1 DEF SelectionInit, ShownOK, Names, Read
  <2> QED BY <2>2, SelectionInitInv DEF SelectionInit, PickInv, ClickedOK
<1>2. PickInv /\ [SelectionNext]_selectionVars =>
        [clicked # Unset /\ selection.trace = clicked /\ selection'.trace # clicked /\ ~Quiet
           => snapshots[clicked] # Unset /\ ~Has(snapshots[clicked], clicked)]_selectionVars
  <2> SUFFICES ASSUME PickInv, SelectionNext,
                      clicked # Unset, selection.trace = clicked, selection'.trace # clicked, ~Quiet
               PROVE  snapshots[clicked] # Unset /\ ~Has(snapshots[clicked], clicked)
    OBVIOUS
  <2>1. RunEffects
    BY DEF SelectionNext, Fetched, FetchAgain, InvalidateAll, Forget, NoteActivity, NoteAgent,
           Happen, ClickTrace, ClickAgent, FocusAgent, LinkAgent, SetMode, SetLook, CycleTraces,
           ClearSelection, CloseDrawer, SetCycle, Present, Escape, GoToFragment, GoBack, Reload,
           Input, PanelInput, ShowcaseInput
  <2>2. selection' = Corrected
    BY <2>1 DEF RunEffects, Push
  <2>3. selection.auto
    BY DEF PickInv, ClickedOK
  <2>4. Shown # Unset /\ ~Has(Shown, clicked)
    BY <2>2, <2>3, CorrectedTrace
  <2>5. snapshots[clicked] # Unset
    BY <2>4 DEF PickInv, ClickedOK, Rows, Has
  <2>6. Shown = snapshots[clicked]
    BY <2>5 DEF Shown
  <2> QED BY <2>4, <2>5, <2>6
<1> QED BY <1>1, <1>2, PickNext, PTL DEF SelectionSpec, SelectionKept

===============================================================================
