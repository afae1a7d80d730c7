----------------------------- MODULE EventStream ------------------------------
(***************************************************************************)
(* The event stream of the server (server/src/observability): the event    *)
(* ring of each process (observability-event-bus.ts), the SSE route with    *)
(* its replay, backfill and connection count (events-route.ts,              *)
(* observability-event-backfill.ts), the fan-out between processes over     *)
(* Redis (create-event-bus.ts), and clients that lose their connection and  *)
(* come back with the id of the last event they received.                   *)
(*                                                                         *)
(* The event loop runs publish(), a connection and an ingested event each   *)
(* in one step; what was written to a socket is lost with the connection.   *)
(*                                                                         *)
(* Abstracted: all clients have one address; an event is its id, its kind,  *)
(* its trace and its body, a number no other event has; the events of one   *)
(* message are one event.                                                   *)
(***************************************************************************)
EXTENDS Naturals, Sequences, FiniteSets, Ordered

CONSTANTS
  Servers,      \* processes
  Fanout,       \* whether Redis is configured
  MaxEvents,    \* size of the ring
  MaxPerIp,     \* connections of one address
  Clients,
  TraceIds,
  Follows,      \* the trace_id each client asks for, or Absent
  Text,         \* a cursor that is not a number
  Absent,         \* undefined
  MaxMade,      \* bound: events made
  MaxStored,    \* bound: events stored by a process
  MaxHalfOpen,  \* bound: connections gone unnoticed
  MaxRestarts   \* bound

ASSUME StreamSizes ==
  /\ MaxEvents \in Nat \ {0} /\ MaxPerIp \in Nat \ {0}
  /\ MaxMade \in Nat /\ MaxStored \in Nat /\ MaxHalfOpen \in Nat /\ MaxRestarts \in Nat
  /\ Fanout \in BOOLEAN /\ IsFiniteSet(Clients)
  /\ Follows \in [Clients -> TraceIds \cup {Absent}]
  /\ Absent \notin TraceIds \cup Servers /\ Absent \notin Nat /\ Text \notin Nat \cup {Absent}

VARIABLES
  events,         \* InMemoryObservabilityEventBus.events
  nextSequence,
  messages,       \* the traces of the messages on the bus of the process
  channel,        \* what Redis has for each process
  tracker,        \* connections counted
  halfOpen,       \* connections whose client is gone, which the process has not noticed
  at,             \* where a client is connected, or its cursor is from
  connected,      \* whether it is
  socket,         \* what was written to the connection
  cursor,         \* the last event id it received before
  \* What the properties are about:
  log,            \* every event the process has stored, in order
  got,            \* the numbers in that log of what a client received
  begun,          \* the number of the last event before those
  sound,          \* whether its cursor has named what it had received last
  owed,           \* whether its cursor was not found
  made,           \* number of events made
  restarts

streamVars == <<events, nextSequence, messages, channel, log, made>>
clientVars == <<at, connected, cursor, got, begun, sound, owed>>
slotVars == <<tracker, halfOpen>>
eventVars == <<streamVars, clientVars, socket, slotVars, restarts>>

Listed(q) == {q[i] : i \in DOMAIN q}

\* The numbers of the first n events written to a socket, those that are logged.
Numbers(written, n) == {written[i].number : i \in 1..n} \ {0}

-------------------------------------------------------------------------------
(* The ring.                                                                *)

MatchesTraceFilter(e, trace) ==
  \/ trace = Absent \/ e.trace = trace
  \/ e.kind = "resync" /\ e.trace = Absent

\* The newest events.
Trimmed(q, e) ==
  LET all == Append(q, e)
  IN SubSeq(all, IF Len(all) > MaxEvents THEN Len(all) - MaxEvents + 1 ELSE 1, Len(all))

Numbered(s, e) ==
  [id |-> e.id, kind |-> e.kind, trace |-> e.trace, body |-> e.body, number |-> Len(log[s]) + 1]

\* The fan-out is a subscriber: it publishes what this process made and what others have sent
\* it alike, for every other process.
FannedOut(s, e, pending) ==
  [t \in Servers |-> IF Fanout /\ t # s THEN Append(pending[t], e) ELSE pending[t]]

StoreEvent(s, e, notify, pending) ==
  /\ Len(log[s]) < MaxStored
  /\ events' = [events EXCEPT ![s] = Trimmed(@, Numbered(s, e))]
  /\ log' = [log EXCEPT ![s] = Append(@, [trace |-> e.trace, kind |-> e.kind, live |-> notify])]
  /\ channel' = IF notify THEN FannedOut(s, e, pending) ELSE pending

\* The other subscribers are the connections, which write the event to their sockets.
Notified(s, e) ==
  [c \in Clients |->
     IF connected[c] /\ at[c] = s /\ MatchesTraceFilter(e, Follows[c])
     THEN Append(socket[c], Numbered(s, e)) ELSE socket[c]]

New(s, kind, trace) == [id |-> nextSequence[s], kind |-> kind, trace |-> trace, body |-> made + 1]

Count(s) ==
  /\ made < MaxMade
  /\ nextSequence' = [nextSequence EXCEPT ![s] = @ + 1]
  /\ made' = made + 1

OnBus(s, trace) == [messages EXCEPT ![s] = IF trace = Absent THEN @ ELSE Append(@, trace)]

\* A message of a trace was sent, or an agent was registered, which has no trace.
Publish(s, trace) ==
  LET e == New(s, "event", trace)
  IN /\ StoreEvent(s, e, TRUE, channel)
     /\ Count(s)
     /\ socket' = Notified(s, e)
     /\ messages' = OnBus(s, trace)
     /\ UNCHANGED <<clientVars, slotVars, restarts>>

\* An imported message or agent, of which nobody is notified.
RecordEvent(s, trace) ==
  /\ StoreEvent(s, New(s, "event", trace), FALSE, channel)
  /\ Count(s)
  /\ messages' = OnBus(s, trace)
  /\ UNCHANGED <<clientVars, socket, slotVars, restarts>>

\* Mutant: every id is new.
HasNoEvent(s, id) == FALSE

HasEvent(s, id) == \E e \in Listed(events[s]) : e.id = id

\* The Redis subscriber.  An id that the ring holds is taken for the same event.
IngestExternal(s) ==
  /\ channel[s] # <<>>
  /\ LET e == Head(channel[s])
         pending == [channel EXCEPT ![s] = Tail(@)]
     IN \/ /\ HasEvent(s, e.id)
           /\ channel' = pending
           /\ UNCHANGED <<events, log, socket>>
        \/ /\ ~HasEvent(s, e.id)
           /\ StoreEvent(s, e, TRUE, pending)
           /\ socket' = Notified(s, e)
  /\ UNCHANGED <<nextSequence, messages, made, clientVars, slotVars, restarts>>

-------------------------------------------------------------------------------
(* Connections.                                                             *)

\* Mutant: the event of the cursor is sent again.
ReplayFrom(s, after, trace) ==
  LET all == events[s]
      start == IF after = Absent THEN 1
               ELSE CHOOSE i \in DOMAIN all :
                      all[i].id = after /\ \A j \in 1..i - 1 : all[j].id # after
  IN AtPlaces(all, {i \in start..Len(all) : MatchesTraceFilter(all[i], trace)})

\* What comes after the first event with the id of the cursor.
Replay(s, after, trace) ==
  LET all == events[s]
      index == IF after = Absent THEN 0
               ELSE CHOOSE i \in DOMAIN all :
                      all[i].id = after /\ \A j \in 1..i - 1 : all[j].id # after
  IN AtPlaces(all, {i \in index + 1..Len(all) : MatchesTraceFilter(all[i], trace)})

\* The events of a trace are made again from its messages.  Their ids, "synthetic-1" and so
\* on, are no numbers: none is greater than a cursor that is one.
Backfill(s, after, trace) ==
  LET mine == {i \in DOMAIN messages[s] : messages[s][i] = trace}
  IN IF trace = Absent \/ after # Text THEN <<>>
     ELSE [i \in 1..Cardinality(mine) |->
             [id |-> Text, kind |-> "event", trace |-> trace, body |-> 0, number |-> 0]]

IsLast(n, S) == n \in S /\ \A m \in S : m <= n

\* The cursor is found, or there is none.
Resumes(c, s) ==
  LET all == events[s]
      new == cursor[c] = Absent
  IN /\ new \/ HasEvent(s, cursor[c])
     /\ socket' = [socket EXCEPT ![c] = Replay(s, cursor[c], Follows[c])]
     /\ sound' = [sound EXCEPT ![c] =
          new \/ /\ @ /\ at[c] = s /\ got[c] # {}
                 /\ \A i \in DOMAIN all : all[i].id = cursor[c] <=> IsLast(all[i].number, got[c])]
     /\ got' = [got EXCEPT ![c] = IF new \/ ~sound'[c] THEN {} ELSE @]
     /\ begun' = [begun EXCEPT ![c] =
          IF new THEN Len(log[s]) - Len(all) ELSE IF sound'[c] THEN @ ELSE 0]
     /\ UNCHANGED <<streamVars, owed>>

\* It is not: everyone who is connected is told.  The count of what is received starts again.
IsLost(c, s) ==
  LET e == New(s, "resync", Follows[c])
  IN /\ cursor[c] # Absent /\ ~HasEvent(s, cursor[c])
     /\ StoreEvent(s, e, TRUE, channel)
     /\ Count(s)
     /\ socket' = [Notified(s, e) EXCEPT ![c] = Backfill(s, cursor[c], Follows[c])]
     /\ got' = [got EXCEPT ![c] = {}]
     /\ begun' = [begun EXCEPT ![c] = Len(log'[s])]
     /\ sound' = [sound EXCEPT ![c] = TRUE]
     /\ owed' = [owed EXCEPT ![c] = TRUE]
     /\ UNCHANGED messages

\* Without a free slot the answer is 429: no step.
Connect(c, s) ==
  /\ ~connected[c] /\ tracker[s] < MaxPerIp
  /\ tracker' = [tracker EXCEPT ![s] = @ + 1]
  /\ Resumes(c, s) \/ IsLost(c, s)
  /\ at' = [at EXCEPT ![c] = s]
  /\ connected' = [connected EXCEPT ![c] = TRUE]
  /\ UNCHANGED <<cursor, halfOpen, restarts>>

\* The connection breaks, or the client leaves, with the first n events received; the server
\* need not notice yet.
Disconnect(c) ==
  /\ connected[c] /\ halfOpen[at[c]] < MaxHalfOpen
  /\ \E n \in 0..Len(socket[c]) :
       /\ cursor' = [cursor EXCEPT ![c] = IF n = 0 THEN @ ELSE socket[c][n].id]
       /\ got' = [got EXCEPT ![c] = IF sound[c] THEN @ \cup Numbers(socket[c], n) ELSE {}]
  /\ connected' = [connected EXCEPT ![c] = FALSE]
  /\ socket' = [socket EXCEPT ![c] = <<>>]
  /\ owed' = [owed EXCEPT ![c] = FALSE]
  /\ halfOpen' = [halfOpen EXCEPT ![at[c]] = @ + 1]
  /\ at' = [at EXCEPT ![c] = IF sound[c] THEN @ ELSE Absent]
  /\ UNCHANGED <<streamVars, begun, sound, tracker, restarts>>

\* Mutant: a slot is freed by "close" alone when there was no error.
CleanupOnError(s, error) ==
  /\ halfOpen[s] > 0
  /\ halfOpen' = [halfOpen EXCEPT ![s] = @ - 1]
  /\ tracker' = [tracker EXCEPT ![s] = IF error /\ @ > 0 THEN @ - 1 ELSE @]
  /\ UNCHANGED <<streamVars, clientVars, socket, restarts>>

\* "close", after "error" or not: cleanup() runs for each.
Cleanup(s, error) ==
  LET freed == IF error THEN 2 ELSE 1
  IN /\ halfOpen[s] > 0
     /\ halfOpen' = [halfOpen EXCEPT ![s] = @ - 1]
     /\ tracker' = [tracker EXCEPT ![s] = IF @ < freed THEN 0 ELSE @ - freed]
     /\ UNCHANGED <<streamVars, clientVars, socket, restarts>>

\* The process starts again, with its messages if it has a database, when its connections
\* are broken.
Restart(s) ==
  /\ restarts < MaxRestarts /\ \A c \in Clients : at[c] = s => ~connected[c]
  /\ restarts' = restarts + 1
  /\ events' = [events EXCEPT ![s] = <<>>]
  /\ nextSequence' = [nextSequence EXCEPT ![s] = 1]
  /\ \E kept \in {<<>>, messages[s]} : messages' = [messages EXCEPT ![s] = kept]
  /\ channel' = [channel EXCEPT ![s] = <<>>]
  /\ log' = [log EXCEPT ![s] = <<>>]
  /\ tracker' = [tracker EXCEPT ![s] = 0]
  /\ halfOpen' = [halfOpen EXCEPT ![s] = 0]
  /\ got' = [c \in Clients |-> IF at[c] = s THEN {} ELSE got[c]]
  /\ begun' = [c \in Clients |-> IF at[c] = s THEN 0 ELSE begun[c]]
  /\ sound' = [c \in Clients |-> sound[c] /\ at[c] # s]
  /\ at' = [c \in Clients |-> IF at[c] = s THEN Absent ELSE at[c]]
  /\ UNCHANGED <<connected, socket, cursor, owed, made>>

-------------------------------------------------------------------------------
StreamInit ==
  /\ events = [s \in Servers |-> <<>>]
  /\ nextSequence = [s \in Servers |-> 1]
  /\ messages = [s \in Servers |-> <<>>]
  /\ channel = [s \in Servers |-> <<>>]
  /\ tracker = [s \in Servers |-> 0]
  /\ halfOpen = [s \in Servers |-> 0]
  /\ at = [c \in Clients |-> Absent]
  /\ connected = [c \in Clients |-> FALSE]
  /\ socket = [c \in Clients |-> <<>>]
  /\ cursor \in [Clients -> {Absent, Text}]
  /\ log = [s \in Servers |-> <<>>]
  /\ got = [c \in Clients |-> {}]
  /\ begun = [c \in Clients |-> 0]
  /\ sound = [c \in Clients |-> FALSE]
  /\ owed = [c \in Clients |-> FALSE]
  /\ made = 0
  /\ restarts = 0

StreamNext ==
  \/ \E s \in Servers :
       \/ \E trace \in TraceIds \cup {Absent} : Publish(s, trace) \/ RecordEvent(s, trace)
       \/ IngestExternal(s)
       \/ \E c \in Clients : Connect(c, s)
       \/ \E error \in BOOLEAN : Cleanup(s, error)
       \/ Restart(s)
  \/ \E c \in Clients : Disconnect(c)

StreamSpec == StreamInit /\ [][StreamNext]_eventVars
-------------------------------------------------------------------------------
(* Properties.                                                              *)

Traced == TraceIds \cup {Absent}
\* A client whose cursor has always named what it had received last gets every event that it
\* follows and that subscribers are notified of, once and in the order of the process, through
\* all the connections it has lost.
StreamExact ==
  \A c \in Clients :
    LET s == at[c]
        written == socket[c]
        stream == got[c] \cup Numbers(written, Len(written))
        due == {n \in DOMAIN log[s] :
                  /\ n > begun[c] /\ (connected[c] \/ \E m \in stream : n <= m)
                  /\ log[s][n].live /\ MatchesTraceFilter(log[s][n], Follows[c])}
    IN sound[c] =>
         /\ \A i \in DOMAIN written : written[i].number > 0 =>
              /\ \A n \in got[c] : n < written[i].number
              /\ \A j \in DOMAIN written : i < j => written[i].number < written[j].number
         /\ due \subseteq stream
         /\ \A n \in stream :
              n \in DOMAIN log[s] /\ MatchesTraceFilter(log[s][n], Follows[c])

\* What the fan-out brings back or twice is dropped as long as the ring holds it.
EchoDropped ==
  \A s \in Servers : \A i, j \in DOMAIN events[s] :
    events[s][i].body = events[s][j].body => i = j

\* What a client gets of a ring is exact, and so is the ring.
EventsExact == StreamExact /\ EchoDropped

\* No slot is lost: what is counted for an address is not more than it has connections.
SlotsKept ==
  \A s \in Servers :
    tracker[s] <= Cardinality({c \in Clients : connected[c] /\ at[c] = s}) + halfOpen[s]

\* A client whose cursor was not found gets a stream.resync (docs/observability-events.md:45).
ToldToResync ==
  \A c \in Clients : owed[c] => \E e \in Listed(socket[c]) : e.kind = "resync"
===============================================================================
