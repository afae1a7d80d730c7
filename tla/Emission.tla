------------------------------- MODULE Emission --------------------------------
(***************************************************************************)
(* What the server keeps and tells of the messages of one trace: the tap   *)
(* on bus.send() that stores a message and publishes its events once the   *)
(* send has returned (wire-observability-event-emitter.ts), the SQLite     *)
(* store, the hydration of the bus from it at a start, and the import of a *)
(* trace that MCPLab exports, by the startup sync or by a client's POST    *)
(* (observability-import.ts, mcplab-sync.ts).                              *)
(*                                                                         *)
(* A send lasts as long as the handlers it awaits, which send in turn; an  *)
(* import gives the event loop up after each message. The process may be   *)
(* killed at any time: all that remains is the store.                      *)
(***************************************************************************)
EXTENDS Naturals, FiniteSets, Sequences, SequencesExt

CONSTANTS
  ReplyTo,     \* for each message id, the id it is the task_response to, or Undefined
  Exported,    \* the ids MCPLab exports, by timestamp
  Undefined,   \* undefined
  TraceLimit,  \* maxMessagesPerTrace of the bus
  MaxSends,    \* bound: calls of bus.send()
  MaxStarts    \* bound: starts of the process

Ids == DOMAIN ReplyTo

ASSUME EmissionConstants ==
  /\ \A id \in Ids : ReplyTo[id] \in (Ids \ {id}) \cup {Undefined}
  /\ Undefined \notin Ids /\ Undefined \notin Seq(Ids)
  /\ Exported \in Seq(Ids)
  /\ TraceLimit \in Nat \ {0} /\ MaxSends \in Nat /\ MaxStarts \in Nat

VARIABLES
  server,     \* "down", "syncing" until the startup sync is over, or "serving"
  recorded,   \* what the bus has recorded since the start; it keeps the newest
  db,         \* the stored ids, by sequence
  sends,      \* the calls of bus.send(), without what those of past processes were
  importing,  \* what an import has left, or Undefined
  log,        \* the events of the event bus since the start
  starts,
  \* What the properties are about:
  answered,   \* ids of which a send has returned ok, in any process
  cut,        \* whether a process was closed or killed in an import
  synced      \* "no", or how the last sync or import of this process ended: "skipped", "imported"

emissionVars == <<server, recorded, db, sends, importing, log, starts, answered, cut, synced>>

EmissionInit ==
  /\ server = "down"
  /\ recorded = <<>>
  /\ db = <<>>
  /\ sends = <<>>
  /\ importing = Undefined
  /\ log = <<>>
  /\ starts = 0
  /\ answered = {}
  /\ cut = FALSE
  /\ synced = "no"

\* bus.getMessagesForTrace(): the newest messages (TraceStore.record()).
BusTrace ==
  SubSeq(recorded, IF Len(recorded) > TraceLimit THEN Len(recorded) - TraceLimit + 1 ELSE 1,
         Len(recorded))

\* bus.replayTraceMessage(): ids that were ever recorded are indexed.
Replayed(id) == IF id \in ToSet(recorded) THEN recorded ELSE Append(recorded, id)

\* Mutant: a message is inserted whenever it is sent.
AppendTwice(id) == Append(db, id)

\* SqliteObservabilityPersistence.appendMessage().
AppendMessage(id) == IF id \in ToSet(db) THEN db ELSE Append(db, id)

IsRootTraceCompletion(id, root) == ReplyTo[id] # Undefined /\ ReplyTo[id] = root

Event(type, id, live) == [type |-> type, id |-> id, live |-> live]

\* publishMessageObservabilityEvents().
MessageEvents(id, isNewTrace, root) ==
  (IF isNewTrace THEN <<Event("trace.started", id, TRUE)>> ELSE <<>>)
    \o <<Event("message.appended", id, TRUE)>>
    \o (IF IsRootTraceCompletion(id, root) THEN <<Event("trace.completed", id, TRUE)>> ELSE <<>>)

\* synthesizeTraceObservabilityEvents(): the events of a stored trace, from its start.
SynthesizedEvents(ids) ==
  LET of(id) == <<Event("message.appended", id, FALSE)>>
                  \o IF IsRootTraceCompletion(id, ids[1])
                     THEN <<Event("trace.completed", id, FALSE)>> ELSE <<>>
      upTo[n \in 0..Len(ids)] ==
        IF n = 0 THEN <<Event("trace.started", ids[1], FALSE)>> ELSE upTo[n - 1] \o of(ids[n])
  IN upTo[Len(ids)]

-------------------------------------------------------------------------------
(* Sending.                                                                 *)

\* A client or, if p is a send, a handler that p awaits calls bus.send(); a client that had
\* no answer sends the same message again.
BeginSend(id, p) ==
  /\ server = "serving"
  /\ Len(sends) < MaxSends
  /\ p # 0 => sends[p].stage = "awaiting"
  /\ sends' = Append(sends, [id |-> id, by |-> p, before |-> Len(BusTrace), stage |-> "awaiting"])
  /\ recorded' = Append(recorded, id)
  /\ UNCHANGED <<server, db, importing, log, starts, answered, cut, synced>>

\* Mutant: the count of the trace is read after the send.
EndSendLateCount(s, ok) ==
  /\ sends[s].stage = "awaiting"
  /\ \A t \in DOMAIN sends : sends[t].by = s => sends[t].stage # "awaiting"
  /\ sends' = [sends EXCEPT ![s].stage = IF ok THEN "ok" ELSE "failed"]
  /\ IF ok
     THEN /\ db' = AppendMessage(sends[s].id)
          /\ log' = log \o MessageEvents(sends[s].id, Len(BusTrace) = 1, BusTrace[1])
          /\ answered' = answered \cup {sends[s].id}
     ELSE UNCHANGED <<db, log, answered>>
  /\ UNCHANGED <<server, recorded, importing, starts, cut, synced>>

\* originalSend() returns: what was not routed or not delivered is neither stored nor
\* published, although the bus has recorded it.  So does a send fail of which storing the
\* message throws, as when close() has closed the store but not yet the application.
EndSend(s, ok) ==
  /\ sends[s].stage = "awaiting"
  /\ \A t \in DOMAIN sends : sends[t].by = s => sends[t].stage # "awaiting"
  /\ sends' = [sends EXCEPT ![s].stage = IF ok THEN "ok" ELSE "failed"]
  /\ IF ok
     THEN /\ db' = AppendMessage(sends[s].id)
          /\ log' = log \o MessageEvents(sends[s].id, sends[s].before = 0, BusTrace[1])
          /\ answered' = answered \cup {sends[s].id}
     ELSE UNCHANGED <<db, log, answered>>
  /\ UNCHANGED <<server, recorded, importing, starts, cut, synced>>

-------------------------------------------------------------------------------
(* Importing.                                                               *)

\* runMcplabStartupSync(), before the server listens: a trace of which anything is stored
\* is skipped.
StartupSync ==
  /\ server = "syncing" /\ importing = Undefined
  /\ IF db = <<>>
     THEN importing' = Exported /\ UNCHANGED <<server, synced>>
     ELSE server' = "serving" /\ synced' = "skipped" /\ UNCHANGED importing
  /\ UNCHANGED <<recorded, db, sends, log, starts, answered, cut>>

\* The sync is not configured, or the export cannot be fetched.
NoSync ==
  /\ server = "syncing" /\ importing = Undefined
  /\ server' = "serving"
  /\ UNCHANGED <<recorded, db, sends, importing, log, starts, answered, cut, synced>>

\* POST /v1/observability/import, at most once per process (a bound); the agents that an
\* import brings are left out.
PostImport ==
  /\ server = "serving" /\ importing = Undefined /\ synced # "imported"
  /\ importing' = Exported
  /\ UNCHANGED <<server, recorded, db, sends, log, starts, answered, cut, synced>>

\* Mutant: the import ends at a message that is stored already.
ImportUntilKnown ==
  /\ importing \notin {Undefined, <<>>}
  /\ importing' = IF Head(importing) \in ToSet(db) THEN <<>> ELSE Tail(importing)
  /\ db' = AppendMessage(Head(importing))
  /\ recorded' = Replayed(Head(importing))
  /\ UNCHANGED <<server, sends, log, starts, answered, cut, synced>>

\* One message of an import, up to the awaited recorders.
ImportMessage ==
  /\ importing \notin {Undefined, <<>>}
  /\ importing' = Tail(importing)
  /\ db' = AppendMessage(Head(importing))
  /\ recorded' = Replayed(Head(importing))
  /\ UNCHANGED <<server, sends, log, starts, answered, cut, synced>>

\* The end of an import: the events of the whole trace are buffered again.
EndImport ==
  /\ importing = <<>>
  /\ importing' = Undefined
  /\ log' = log \o SynthesizedEvents(db)
  /\ server' = "serving"
  /\ synced' = "imported"
  /\ UNCHANGED <<recorded, db, sends, starts, answered, cut>>

-------------------------------------------------------------------------------
(* The process.                                                             *)

\* hydrateObservabilityFromPersistence().
StartServer ==
  /\ server = "down" /\ starts < MaxStarts
  /\ starts' = starts + 1
  /\ server' = "syncing"
  /\ recorded' = db
  /\ UNCHANGED <<db, sends, importing, log, answered, cut, synced>>

\* The process ends: killed, or by close(), which closes the store first; an import that goes
\* on then ends with an error, as if it was killed.
KillServer ==
  /\ server # "down"
  /\ server' = "down"
  /\ recorded' = <<>>
  /\ sends' = [s \in DOMAIN sends |-> [id |-> Undefined, by |-> 0, before |-> 0, stage |-> "past"]]
  /\ importing' = Undefined
  /\ log' = <<>>
  /\ cut' = (cut \/ importing # Undefined)
  /\ synced' = "no"
  /\ UNCHANGED <<db, starts, answered>>

EmissionNext ==
  \/ \E id \in Ids, p \in 0..Len(sends) : BeginSend(id, p)
  \/ \E s \in DOMAIN sends, ok \in BOOLEAN : EndSend(s, ok)
  \/ StartupSync \/ NoSync \/ PostImport \/ ImportMessage \/ EndImport
  \/ StartServer \/ KillServer

EmissionSpec == EmissionInit /\ [][EmissionNext]_emissionVars

-------------------------------------------------------------------------------
(* Properties.                                                              *)

\* The store holds every message once, all of which a send has returned ok, in whichever
\* process, and nothing else but what was imported; and the bus has seen all of it, after a
\* start too.
StoreExact ==
  /\ Len(db) = Cardinality(ToSet(db))
  /\ answered \subseteq ToSet(db)
  /\ ToSet(db) \subseteq answered \cup ToSet(Exported)
  /\ server # "down" => ToSet(db) \subseteq ToSet(recorded)

\* An import leaves every message of the export in the store, whatever was there before. A
\* server whose startup sync has skipped the trace may lack some, but only because a former
\* process was closed or killed in an import, or had stored a message of the trace that was sent to it.
MissingExplained ==
  /\ server = "serving" /\ importing = Undefined /\ synced # "no"
  /\ ~ (ToSet(Exported) \subseteq ToSet(db))
  => synced = "skipped" /\ (cut \/ answered # {})

\* What was sent is stored, and what was imported, but for the imports that were cut off.
StoreComplete == StoreExact /\ MissingExplained

\* The live events of a process tell when a trace begins and ends: it begins once, with the
\* first message recorded, if that message's send returns ok; it ends with each reply to
\* that message and with no other, unless the bus has dropped the oldest messages; and what
\* a handler sends is told before the message it handles.
LifecycleTold ==
  LET live(type) == {i \in DOMAIN log : log[i].live /\ log[i].type = type}
      ended == {s \in DOMAIN sends : sends[s].stage = "ok"}
      overflown == Len(recorded) > TraceLimit
      tells(type, id) == \E i \in live(type) : log[i].id = id
  IN /\ Cardinality(live("trace.started")) <= 1
     /\ \A i \in live("trace.started") : log[i].id = recorded[1]
     /\ \A s \in ended : sends[s].before = 0 => tells("trace.started", sends[s].id)
     /\ overflown \/ \A i \in live("trace.completed") : ReplyTo[log[i].id] = recorded[1]
     /\ overflown \/ \A s \in ended :
          ReplyTo[sends[s].id] = recorded[1] => tells("trace.completed", sends[s].id)
     /\ \A s, t \in ended : sends[t].by = s =>
          \E i, j \in live("message.appended") :
            i < j /\ log[i].id = sends[t].id /\ log[j].id = sends[s].id

===============================================================================
