------------------------------ MODULE MessageBus ------------------------------
(***************************************************************************)
(* The in-process message bus, core/src/routing/message-bus.ts, with the   *)
(* router (router.ts) that resolves recipients and the trace store         *)
(* (trace-store.ts) that send() fills before it routes.                    *)
(*                                                                         *)
(* JavaScript runs a callback to completion.  `active` is the send whose   *)
(* delivery loop holds the event loop: while it is set no other operation  *)
(* of the bus runs.  The loop gives the event loop up only where           *)
(* deliver() awaits a recipient's handler, and takes it back when that     *)
(* handler's promise settles.                                              *)
(*                                                                         *)
(* Abstracted: agent URIs are numbers in the order of localeCompare;       *)
(* message ids and waitForMessage() calls are numbered as they are issued; *)
(* a message keeps only the fields that routing reads.                     *)
(***************************************************************************)
EXTENDS Naturals, Sequences, FiniteSets

CONSTANTS
  Agents,         \* agent URIs
  RegistryUri,    \* the URI that answers capability queries
  Capabilities,
  Handlers,       \* the handler callbacks that may be registered
  Traces,         \* trace ids
  Inputs,         \* the messages clients send: some of Messages
  RegisterCalls,  \* the arguments clients give register()
  MaxSends,       \* bound: number of messages
  MaxWaits,       \* bound: number of waitForMessage() calls that queue a waiter or return
  MaxBoxes,       \* bound: number of mailbox objects ever created
  TraceLimit,     \* maxMessagesPerTrace
  RoutingMode,    \* capabilityRoutingMode
  None            \* undefined

ASSUME BusConstants ==
  /\ Agents \subseteq Nat /\ Agents # {} /\ Traces # {}
  /\ MaxSends \in Nat /\ MaxWaits \in Nat /\ MaxBoxes \in Nat
  /\ TraceLimit \in Nat \ {0}
  /\ RoutingMode \in {"first", "all"}
  /\ None \notin Agents \cup Capabilities \cup Handlers \cup Nat

Sends == 1..MaxSends
Waits == 1..MaxWaits
Boxes == 1..MaxBoxes

Messages ==
  [type : {"request", "response", "query"}, from : Agents, to : Agents \cup {None},
   capability : Capabilities \cup {None}, reply : 0..MaxSends \cup {None}, trace : Traces]

Registrations ==
  [capabilities : SUBSET Capabilities, handler : Handlers \cup {None},
   mailbox : Boxes \cup {None}]

ASSUME BusInputs ==
  /\ Inputs \subseteq Messages
  /\ \A m \in Inputs : m.type = "response" <=> m.reply # None
  /\ RegisterCalls \subseteq
       [agent : Agents, handler : Handlers \cup {None}, useMailbox : BOOLEAN,
        capabilities : (SUBSET Capabilities) \cup {None}, replace : BOOLEAN]

VARIABLES
  agents,           \* the registrations, a partial function of Agents
  capabilityIndex,  \* per capability, the agents that declare it
  open,             \* whether the bus accepts sends
  recorded,         \* the keys of TraceStore.messageIndex
  traces,           \* TraceStore.traces: message ids in the order of record()
  message,          \* the message of each send
  sent,             \* number of message ids issued
  stage,            \* how far each send has got
  rest,             \* the recipients deliver() has not visited yet
  delivered,        \* whether some report of the send is a success
  active,           \* the send whose loop holds the event loop, or None
  boxes,            \* number of mailbox objects created
  queue,            \* Mailbox.queue
  waiters,          \* Mailbox.waiters, in the order of their numbers
  waits,            \* number of waitForMessage() calls so far
  waiting,          \* the state of each waiter's promise
  waitBox,          \* the mailbox object a waitForMessage() call captured
  handed,           \* history: what deliver() put into each mailbox
  received          \* history: what waitForMessage() calls on it returned

traceVars == <<recorded, traces>>
registryVars == <<agents, capabilityIndex, boxes>>
sendVars == <<message, sent, stage, rest, delivered, active>>
mailVars == <<queue, waiters, waits, waiting, waitBox, handed, received>>
vars == <<agents, capabilityIndex, boxes, open, recorded, traces, message, sent, stage,
          rest, delivered, active, queue, waiters, waits, waiting, waitBox, handed,
          received>>

Idle == active = None

\* The least members of a set of numbers: a singleton, or empty for the empty set.
Least(S) == {x \in S : \A y \in S : x <= y}

Registered == DOMAIN agents

-------------------------------------------------------------------------------
(* The capability index.                                                    *)

\* Mutant: mergeRegistration forgets to unindex what the agent no longer declares.
ReindexKeepsOld(index, a, old, new) ==
  [c \in Capabilities |-> IF c \in new THEN index[c] \cup {a} ELSE index[c]]

\* indexAgent after unindexAgent: agent a goes from `old` capabilities to `new`.
Reindex(index, a, old, new) ==
  [c \in Capabilities |->
     IF c \in new THEN index[c] \cup {a}
     ELSE IF c \in old THEN index[c] \ {a} ELSE index[c]]

-------------------------------------------------------------------------------
(* register() and unregister().  An omitted option is None.                 *)

RegisterNew(a, handler, caps, useMailbox) ==
  LET new == IF caps = None THEN {} ELSE caps
      old == IF a \in Registered THEN agents[a].capabilities ELSE {}
      box == IF useMailbox THEN boxes + 1 ELSE None
  IN /\ useMailbox => boxes < MaxBoxes
     /\ boxes' = IF useMailbox THEN boxes + 1 ELSE boxes
     /\ agents' = [x \in Registered \cup {a} |->
                     IF x = a THEN [capabilities |-> new, handler |-> handler, mailbox |-> box]
                     ELSE agents[x]]
     /\ capabilityIndex' = Reindex(capabilityIndex, a, old, new)

MergeRegistration(a, handler, caps, useMailbox) ==
  LET old == agents[a]
      new == IF caps = None THEN old.capabilities ELSE caps
      fresh == useMailbox /\ old.mailbox = None
      box == IF fresh THEN boxes + 1 ELSE old.mailbox
  IN /\ fresh => boxes < MaxBoxes
     /\ boxes' = IF fresh THEN boxes + 1 ELSE boxes
     /\ agents' = [agents EXCEPT ![a] =
                     [capabilities |-> new,
                      handler |-> IF handler = None THEN old.handler ELSE handler,
                      mailbox |-> box]]
     /\ capabilityIndex' = Reindex(capabilityIndex, a, old.capabilities, new)

\* Registering with `replace` drops the old mailbox object and whoever waits on it.
Register(a, handler, caps, useMailbox, replace) ==
  /\ Idle
  /\ \/ /\ a \in Registered /\ ~replace
        /\ MergeRegistration(a, handler, caps, useMailbox)
     \/ /\ a \notin Registered \/ replace
        /\ RegisterNew(a, handler, caps, useMailbox)
  /\ UNCHANGED <<open, traceVars, sendVars, mailVars>>

Unregister(a) ==
  /\ Idle
  /\ a \in Registered
  /\ agents' = [x \in Registered \ {a} |-> agents[x]]
  /\ capabilityIndex' = Reindex(capabilityIndex, a, agents[a].capabilities, {})
  /\ UNCHANGED <<boxes, open, traceVars, sendVars, mailVars>>

-------------------------------------------------------------------------------
(* The router.  No recipient at all is an error outcome of send().          *)

ByCapability(c) ==
  LET declared == IF c \in Capabilities THEN capabilityIndex[c] ELSE {}
  IN IF RoutingMode = "all" THEN declared ELSE Least(declared)

ReplyRecipient(m, known) ==
  {message[x].from : x \in known \cap {m.reply}}

TaskRecipients(m) ==
  IF m.to # None THEN {m.to} \cap Registered ELSE ByCapability(m.capability)

\* The first agent that declares the capability stands in for a missing registry.
QueryRecipients(m) ==
  IF RegistryUri \in Registered THEN {RegistryUri}
  ELSE IF m.capability \in Capabilities THEN Least(capabilityIndex[m.capability]) ELSE {}

Recipients(m) ==
  IF m.type = "response" THEN ReplyRecipient(m, recorded)
  ELSE IF m.type = "query" THEN QueryRecipients(m) ELSE TaskRecipients(m)

-------------------------------------------------------------------------------
(* The trace store.                                                         *)

\* Mutant: the ring drops its oldest message one message too early.
RecordEarly(t, s) ==
  LET all == Append(traces[t], s)
  IN IF Len(all) >= TraceLimit THEN Tail(all) ELSE all

\* record(): push, then shift when the trace is over its limit.
Record(t, s) ==
  LET all == Append(traces[t], s)
  IN IF Len(all) > TraceLimit THEN Tail(all) ELSE all

RecordMessage(m, s) ==
  /\ recorded' = recorded \cup {s}
  /\ traces' = [traces EXCEPT ![m.trace] = Record(m.trace, s)]

-------------------------------------------------------------------------------
(* send(): refuse, or record and then route.                                *)

Issue(m, st) ==
  /\ Idle /\ sent < MaxSends
  /\ sent' = sent + 1
  /\ message' = IF st = "refused" THEN message ELSE [message EXCEPT ![sent + 1] = m]
  /\ stage' = [stage EXCEPT ![sent + 1] = st]

\* send() on a closed bus, or of a message that fails validation.
SendRefused(m, valid) ==
  /\ ~open \/ ~valid
  /\ Issue(m, "refused")
  /\ UNCHANGED <<registryVars, open, traceVars, rest, delivered, active, mailVars>>

\* The message is in the trace store even when no recipient is found.
SendUnroutable(m) ==
  /\ open
  /\ Recipients(m) = {}
  /\ Issue(m, "unroutable")
  /\ RecordMessage(m, sent + 1)
  /\ UNCHANGED <<registryVars, open, rest, delivered, active, mailVars>>

SendRouted(m) ==
  /\ open
  /\ Recipients(m) # {}
  /\ Issue(m, "delivering")
  /\ RecordMessage(m, sent + 1)
  /\ rest' = [rest EXCEPT ![sent + 1] = Recipients(m)]
  /\ active' = sent + 1
  /\ UNCHANGED <<registryVars, open, delivered, mailVars>>

Send(m) == SendRefused(m, TRUE) \/ SendUnroutable(m) \/ SendRouted(m)

\* replayTraceMessage(): a historical message enters the trace store, nothing is routed.
ReplayTraceMessage(m) ==
  /\ Issue(m, "replayed")
  /\ RecordMessage(m, sent + 1)
  /\ UNCHANGED <<registryVars, open, rest, delivered, active, mailVars>>

-------------------------------------------------------------------------------
(* deliver(): the mailbox first, then the handler, one recipient at a time. *)

\* A waiter that has timed out keeps its resolved promise: the message is lost on it.
HandOver(s, b) ==
  /\ handed' = [handed EXCEPT ![b] = Append(@, s)]
  /\ \/ /\ waiters[b] = {}
        /\ queue' = [queue EXCEPT ![b] = Append(@, s)]
        /\ UNCHANGED <<waiters, waiting, received>>
     \/ \E w \in Least(waiters[b]) :
          /\ waiters' = [waiters EXCEPT ![b] = @ \ {w}]
          /\ waiting' = [waiting EXCEPT ![w] = IF @ = "waiting" THEN "received" ELSE @]
          /\ received' = IF waiting[w] = "waiting"
                         THEN [received EXCEPT ![b] = Append(@, s)] ELSE received
          /\ UNCHANGED queue

ToMailbox(s, b) ==
  \/ b = None /\ UNCHANGED <<queue, waiters, waiting, received, handed>>
  \/ b # None /\ HandOver(s, b)

\* One turn of the loop: agents is read again for every recipient.
DeliverTo(s, a) ==
  /\ active = s
  /\ a \in Least(rest[s])
  /\ rest' = [rest EXCEPT ![s] = @ \ {a}]
  /\ \/ /\ a \notin Registered
        /\ UNCHANGED <<stage, delivered, active, queue, waiters, waiting, received, handed>>
     \/ /\ a \in Registered
        /\ agents[a].handler = None
        /\ ToMailbox(s, agents[a].mailbox)
        /\ delivered' = [delivered EXCEPT ![s] = TRUE]
        /\ UNCHANGED <<stage, active>>
     \/ /\ a \in Registered
        /\ agents[a].handler # None
        /\ ToMailbox(s, agents[a].mailbox)
        /\ stage' = [stage EXCEPT ![s] = "handling"]
        /\ active' = None
        /\ UNCHANGED delivered
  /\ UNCHANGED <<registryVars, open, traceVars, message, sent, waits, waitBox>>

\* Mutant: a rejected handler makes the bus start the delivery over.
HandlerEndRetries(s, succeeds) ==
  /\ Idle
  /\ stage[s] = "handling"
  /\ stage' = [stage EXCEPT ![s] = "delivering"]
  /\ delivered' = [delivered EXCEPT ![s] = @ \/ succeeds]
  /\ rest' = [rest EXCEPT ![s] = IF succeeds THEN @ ELSE Recipients(message[s])]
  /\ active' = s
  /\ UNCHANGED <<registryVars, open, traceVars, message, sent, mailVars>>

\* The handler's promise settles: a rejection is a failed report, even though the
\* mailbox may hold the message already.
HandlerEnd(s, succeeds) ==
  /\ Idle
  /\ stage[s] = "handling"
  /\ stage' = [stage EXCEPT ![s] = "delivering"]
  /\ delivered' = [delivered EXCEPT ![s] = @ \/ succeeds]
  /\ active' = s
  /\ UNCHANGED <<registryVars, open, traceVars, message, sent, rest, mailVars>>

\* send() returns: an error only when every report is a failure.  Its reports are gone.
Conclude(s) ==
  /\ active = s
  /\ rest[s] = {}
  /\ stage' = [stage EXCEPT ![s] = IF delivered[s] THEN "ok" ELSE "failed"]
  /\ delivered' = [delivered EXCEPT ![s] = FALSE]
  /\ active' = None
  /\ UNCHANGED <<registryVars, open, traceVars, message, sent, rest, mailVars>>

-------------------------------------------------------------------------------
(* waitForMessage() and its timer.                                          *)

\* The registration must have a mailbox, and the call keeps that mailbox object.
WaitForMessage(a) ==
  /\ Idle /\ waits < MaxWaits
  /\ a \in Registered /\ agents[a].mailbox # None
  /\ waits' = waits + 1
  /\ waitBox' = [waitBox EXCEPT ![waits + 1] = agents[a].mailbox]
  /\ \E b \in {agents[a].mailbox} :
       \/ /\ queue[b] # <<>>
          /\ queue' = [queue EXCEPT ![b] = Tail(@)]
          /\ received' = [received EXCEPT ![b] = Append(@, Head(queue[b]))]
          /\ waiting' = [waiting EXCEPT ![waits + 1] = "received"]
          /\ UNCHANGED waiters
       \/ /\ queue[b] = <<>>
          /\ waiters' = [waiters EXCEPT ![b] = @ \cup {waits + 1}]
          /\ waiting' = [waiting EXCEPT ![waits + 1] = "waiting"]
          /\ UNCHANGED <<queue, received>>
  /\ UNCHANGED <<registryVars, open, traceVars, sendVars, handed>>

\* Mutant: the timer resolves the promise but leaves the waiter in the list.
WaitTimeoutLeavesWaiter(w) ==
  /\ Idle
  /\ waiting[w] = "waiting"
  /\ waiting' = [waiting EXCEPT ![w] = "expired"]
  /\ UNCHANGED <<registryVars, open, traceVars, sendVars, queue, waiters, waits, waitBox,
                 handed, received>>

\* Mutant: the timer looks the mailbox up again instead of using the captured one.
WaitTimeoutLooksUp(w) ==
  /\ Idle
  /\ waiting[w] = "waiting"
  /\ \E a \in Registered : agents[a].mailbox = waitBox[w]
  /\ waiting' = [waiting EXCEPT ![w] = "expired"]
  /\ waiters' = [waiters EXCEPT ![waitBox[w]] = @ \ {w}]
  /\ UNCHANGED <<registryVars, open, traceVars, sendVars, queue, waits, waitBox, handed,
                 received>>

\* The timer of a waiter works on the captured mailbox, replaced since or not.
WaitTimeout(w) ==
  /\ Idle
  /\ waiting[w] = "waiting"
  /\ waiting' = [waiting EXCEPT ![w] = "expired"]
  /\ waiters' = [waiters EXCEPT ![waitBox[w]] = @ \ {w}]
  /\ UNCHANGED <<registryVars, open, traceVars, sendVars, queue, waits, waitBox, handed,
                 received>>

-------------------------------------------------------------------------------
(* close() and openBus().  clearTraces() is a test aid and is left out.     *)

SetOpen(value) ==
  /\ Idle
  /\ open' = value
  /\ UNCHANGED <<registryVars, traceVars, sendVars, mailVars>>

-------------------------------------------------------------------------------
NoMessage ==
  [type |-> "request", from |-> CHOOSE a \in Agents : TRUE, to |-> None,
   capability |-> None, reply |-> None, trace |-> CHOOSE t \in Traces : TRUE]

Init ==
  /\ agents = [a \in {} |-> None]
  /\ capabilityIndex = [c \in Capabilities |-> {}]
  /\ boxes = 0
  /\ open = TRUE
  /\ recorded = {}
  /\ traces = [t \in Traces |-> <<>>]
  /\ message = [s \in Sends |-> NoMessage]
  /\ sent = 0
  /\ stage = [s \in Sends |-> "new"]
  /\ rest = [s \in Sends |-> {}]
  /\ delivered = [s \in Sends |-> FALSE]
  /\ active = None
  /\ queue = [b \in Boxes |-> <<>>]
  /\ waiters = [b \in Boxes |-> {}]
  /\ waits = 0
  /\ waiting = [w \in Waits |-> "unused"]
  /\ waitBox = [w \in Waits |-> None]
  /\ handed = [b \in Boxes |-> <<>>]
  /\ received = [b \in Boxes |-> <<>>]

\* A client replies to a message that exists, or to one this bus never saw (0).
Sendable == {m \in Inputs : m.reply # None => m.reply <= sent}

Next ==
  \/ \E r \in RegisterCalls :
       Register(r.agent, r.handler, r.capabilities, r.useMailbox, r.replace)
  \/ \E a \in Agents : Unregister(a)
  \/ \E m \in Sendable : Send(m)
  \/ \E m \in Sendable : SendRefused(m, FALSE)
  \/ \E m \in Sendable : ReplayTraceMessage(m)
  \/ \E s \in Sends, a \in Agents : DeliverTo(s, a)
  \/ \E s \in Sends, succeeds \in BOOLEAN : HandlerEnd(s, succeeds)
  \/ \E s \in Sends : Conclude(s)
  \/ \E a \in Agents : WaitForMessage(a)
  \/ \E w \in Waits : WaitTimeout(w)
  \/ \E value \in BOOLEAN : SetOpen(value)

Spec == Init /\ [][Next]_vars

\* Timers fire and the event loop turns; clients and handlers owe nothing.
Fairness ==
  /\ \A w \in Waits : WF_vars(WaitTimeout(w))
  /\ \A s \in Sends : WF_vars(Conclude(s))
  /\ \A s \in Sends : WF_vars(\E a \in Agents : DeliverTo(s, a))

FairSpec == Spec /\ Fairness
-------------------------------------------------------------------------------
(* Properties.                                                              *)

\* Every variable keeps its shape; a mailbox in use has been created.
TypeOK ==
  /\ Registered \subseteq Agents
  /\ \A a \in Registered : agents[a] \in Registrations
  /\ capabilityIndex \in [Capabilities -> SUBSET Agents]
  /\ boxes \in 0..MaxBoxes
  /\ open \in BOOLEAN
  /\ recorded \subseteq Sends
  /\ traces \in [Traces -> Seq(Sends)]
  /\ message \in [Sends -> Messages]
  /\ sent \in 0..MaxSends
  /\ stage \in [Sends -> {"new", "refused", "unroutable", "replayed", "delivering",
                          "handling", "ok", "failed"}]
  /\ rest \in [Sends -> SUBSET Agents]
  /\ delivered \in [Sends -> BOOLEAN]
  /\ active \in Sends \cup {None}
  /\ queue \in [Boxes -> Seq(Sends)]
  /\ waiters \in [Boxes -> SUBSET Waits]
  /\ waits \in 0..MaxWaits
  /\ waiting \in [Waits -> {"unused", "waiting", "received", "expired"}]
  /\ waitBox \in [Waits -> Boxes \cup {None}]
  /\ handed \in [Boxes -> Seq(Sends)]
  /\ received \in [Boxes -> Seq(Sends)]

\* Capability routing sees exactly the current declarations: through any order of
\* register (merged or replacing) and unregister the index lists an agent under a
\* capability if and only if its registration declares it.
IndexMatchesAgents ==
  \A c \in Capabilities :
    capabilityIndex[c] = {a \in Registered : c \in agents[a].capabilities}

\* A mailbox loses, repeats and reorders nothing: what was put into it is what its
\* receivers got, in that order, followed by what is still queued.  A waiter that has
\* timed out but is still listed would swallow a message.
MailboxExact == \A b \in Boxes : handed[b] = received[b] \o queue[b]

\* A message is never queued while somebody waits on the same mailbox.
NoWaiterBesideMessage == \A b \in Boxes : waiters[b] = {} \/ queue[b] = <<>>

\* The bus is at-most-once (LOCAL_BUS_DELIVERY_GUARANTEE): no send puts its message into
\* the same mailbox twice, whatever its handlers do and whoever re-registers meanwhile.
AtMostOnce ==
  \A b \in Boxes : \A i, j \in DOMAIN handed[b] : handed[b][i] = handed[b][j] => i = j

\* A trace holds its newest messages in the order of record(): a message of the index
\* that the ring no longer holds is older than every message of a full ring.
TraceKeepsNewest ==
  \A t \in Traces :
    /\ Len(traces[t]) <= TraceLimit
    /\ \A i, j \in DOMAIN traces[t] : i < j => traces[t][i] < traces[t][j]
    /\ \A s \in recorded :
         \/ message[s].trace # t
         \/ \E i \in DOMAIN traces[t] : traces[t][i] = s
         \/ Len(traces[t]) = TraceLimit /\ s < traces[t][1]

\* Every waitForMessage() call is answered, by a message or by its timer, even when its
\* agent is unregistered or re-registered with a new mailbox in the meantime.
WaiterSettles == \A w \in Waits : waiting[w] = "waiting" ~> waiting[w] # "waiting"

===============================================================================
