----------------------------- MODULE AgentRuntime -----------------------------
(***************************************************************************)
(* Agent runtimes on one message bus: core/src/runtime/agent-runtime.ts,   *)
(* lifecycle.ts and execution-context.ts over MessageBus.                  *)
(*                                                                         *)
(* A runtime registers a handler for its URI.  sendTask() keeps a promise  *)
(* and a timer per request; a response that reaches the runtime's handler  *)
(* settles the promise.  bus.send() awaits the whole handler of a request, *)
(* so sendTask() returns only after the recipient's onTask, the response   *)
(* it sends and the calls that onTask awaits have ended.                   *)
(*                                                                         *)
(* Two runtimes may have the same URI: runServerWorkflow() creates a new   *)
(* coordinator runtime with a fixed URI for every workflow run.            *)
(*                                                                         *)
(* Abstracted: payloads, task status, memory and graph recording (their    *)
(* errors are swallowed).  A request is a task_request or a delegation.    *)
(***************************************************************************)
EXTENDS Naturals, Sequences, FiniteSets

CONSTANTS
  Runtimes,       \* AgentRuntime instances
  UriOf,          \* identity.id of each runtime
  CapabilitiesOf, \* identity.capabilities of each runtime
  AutoHandle,     \* the runtimes with an onTask handler
  TaskCalls,      \* the arguments clients and onTask handlers give sendTask()
  Agents, RegistryUri, Capabilities, Traces, MaxSends, MaxWaits, MaxBoxes,
  TraceLimit, RoutingMode, None       \* of the bus

ASSUME RuntimeConstants ==
  /\ UriOf \in [Runtimes -> Agents]
  /\ CapabilitiesOf \in [Runtimes -> SUBSET Capabilities]
  /\ AutoHandle \subseteq Runtimes
  /\ TaskCalls \subseteq [runtime : Runtimes, to : Agents \cup {None},
                          capability : Capabilities, wait : BOOLEAN]
  /\ MaxSends \in Nat
  /\ None \notin Runtimes \cup Nat

VARIABLES
  agents, capabilityIndex, open, recorded, traces, message, sent, stage, rest, delivered,
  active, boxes, queue, waiters, waits, waiting, waitBox, handed, received,  \* of the bus
  state,          \* lifecycle state of each runtime
  pending,        \* pendingResponses of each runtime: ids with a live timer
  promise,        \* the response promise of each request
  result,         \* what sendTask() returned for it
  caller,         \* the runtime that sent it through sendTask()
  parent,         \* the request whose onTask awaits this one, or None
  act,            \* the handler activation of each delivered message
  by,             \* the runtime whose handleIncoming() got the message
  reply           \* the response an activation sends before it returns

busVars == <<agents, capabilityIndex, open, recorded, traces, message, sent, stage, rest,
             delivered, active, boxes, queue, waiters, waits, waiting, waitBox, handed,
             received>>
callVars == <<pending, promise, result, caller, parent>>
actVars == <<act, by, reply>>
vars == <<busVars, state, callVars, actVars>>

Task(c) ==
  [type |-> "request", from |-> UriOf[c.runtime], to |-> c.to,
   capability |-> c.capability, reply |-> None, trace |-> CHOOSE t \in Traces : TRUE]

Response(r, s) ==
  [type |-> "response", from |-> UriOf[r], to |-> None, capability |-> None, reply |-> s,
   trace |-> CHOOSE t \in Traces : TRUE]

\* What start() passes to register(): useMailbox defaults to "no automatic handling".
StartCall(r) ==
  [agent |-> UriOf[r], handler |-> r, capabilities |-> CapabilitiesOf[r],
   useMailbox |-> r \notin AutoHandle, replace |-> FALSE]

Bus == INSTANCE MessageBus
         WITH Handlers <- Runtimes,
              Inputs <- {Task(c) : c \in TaskCalls}
                          \cup {Response(r, s) : r \in Runtimes, s \in 1..MaxSends},
              RegisterCalls <- {StartCall(r) : r \in Runtimes}

Sends == 1..MaxSends

Running(r) == state[r] = "running"

\* bus.send() of message s has returned.
Returned(s) == stage[s] \in {"refused", "unroutable", "ok", "failed"}

\* Requests whose handler has yet to send its response.  Bound: a client acts only while
\* the message ids left are enough for what the handlers owe (one recipient per request).
Owed ==
  {s \in 1..sent : /\ message[s].type = "request"
                   /\ stage[s] \in {"delivering", "handling"}
                   /\ reply[s] = None}

RoomFor(n) == sent + Cardinality(Owed) + n <= MaxSends

-------------------------------------------------------------------------------
(* Lifecycle.                                                               *)

Start(r) ==
  /\ state[r] = "created"
  /\ Bus!Register(UriOf[r], r, CapabilitiesOf[r], r \notin AutoHandle, FALSE)
  /\ state' = [state EXCEPT ![r] = "running"]
  /\ UNCHANGED <<callVars, actVars>>

\* Mutant: stop() leaves the waiters in place.
StopKeepsPending(r) ==
  /\ Bus!Idle
  /\ Running(r)
  /\ \/ Bus!Unregister(UriOf[r])
     \/ UriOf[r] \notin Bus!Registered /\ UNCHANGED busVars
  /\ state' = [state EXCEPT ![r] = "stopped"]
  /\ UNCHANGED <<callVars, actVars>>

\* Mutant: stop() forgets to unregister.
StopKeepsHandler(r) ==
  /\ Bus!Idle
  /\ Running(r)
  /\ state' = [state EXCEPT ![r] = "stopped"]
  /\ pending' = [pending EXCEPT ![r] = {}]
  /\ UNCHANGED <<busVars, promise, result, caller, parent, actVars>>

\* stop() unregisters the URI, whoever holds it, and drops the pending entries with their
\* timers: nothing settles those promises any more.
Stop(r) ==
  /\ Bus!Idle
  /\ Running(r)
  /\ \/ Bus!Unregister(UriOf[r])
     \/ UriOf[r] \notin Bus!Registered /\ UNCHANGED busVars
  /\ state' = [state EXCEPT ![r] = "stopped"]
  /\ pending' = [pending EXCEPT ![r] = {}]
  /\ UNCHANGED <<promise, result, caller, parent, actVars>>

-------------------------------------------------------------------------------
(* sendTask().                                                              *)

\* `outer` is the request whose onTask makes this call and awaits it, if any.
SendTask(c, outer) ==
  LET r == c.runtime
  IN /\ Running(r) /\ RoomFor(2)
     /\ outer # None => act[outer] = "running" /\ by[outer] = r
     /\ Bus!Send(Task(c))
     /\ caller' = [caller EXCEPT ![sent + 1] = r]
     /\ parent' = [parent EXCEPT ![sent + 1] = outer]
     /\ promise' = [promise EXCEPT ![sent + 1] = IF c.wait THEN "waiting" ELSE @]
     /\ pending' = [pending EXCEPT ![r] = IF c.wait THEN @ \cup {sent + 1} ELSE @]
     /\ UNCHANGED <<state, result, actVars>>

\* The response timer: it fires whether or not bus.send() has returned, unless that was at
\* once: then sendTask() has cancelled it before any timer runs.
ResponseTimeout(s) ==
  /\ Bus!Idle
  /\ stage[s] \notin {"refused", "unroutable"}
  /\ \E r \in Runtimes :
       /\ s \in pending[r]
       /\ pending' = [pending EXCEPT ![r] = @ \ {s}]
  /\ promise' = [promise EXCEPT ![s] = "expired"]
  /\ UNCHANGED <<busVars, state, result, caller, parent, actVars>>

\* bus.send() returned an error: cancelResponseWait(), then sendTask() returns it.
SendTaskFails(s) ==
  /\ Bus!Idle
  /\ caller[s] # None /\ result[s] = "none"
  /\ stage[s] \in {"refused", "unroutable", "failed"}
  /\ pending' = [pending EXCEPT ![caller[s]] = @ \ {s}]
  /\ result' = [result EXCEPT ![s] = "failed"]
  /\ UNCHANGED <<busVars, state, promise, caller, parent, actVars>>

\* bus.send() succeeded: return at once, or when the promise has settled.
SendTaskReturns(s) ==
  /\ Bus!Idle
  /\ caller[s] # None /\ result[s] = "none"
  /\ stage[s] = "ok"
  /\ promise[s] # "waiting"
  /\ result' = [result EXCEPT ![s] = IF promise[s] = "answered" THEN "answered"
                                     ELSE IF promise[s] = "expired" THEN "timeout"
                                     ELSE "sent"]
  /\ UNCHANGED <<busVars, state, pending, promise, caller, parent, actVars>>

-------------------------------------------------------------------------------
(* handleIncoming(), the handler the bus calls.                             *)

\* Mutant: any response settles every request that is waiting.
ResolveAny(r, s) ==
  /\ pending' = [pending EXCEPT ![r] = {}]
  /\ promise' = [x \in Sends |-> IF x \in pending[r] THEN "answered" ELSE promise[x]]

\* Mutant: the map is cleared where one entry should be deleted.
ResolveClears(r, s) ==
  IF message[s].reply \in pending[r]
  THEN /\ pending' = [pending EXCEPT ![r] = {}]
       /\ promise' = [promise EXCEPT ![message[s].reply] = "answered"]
  ELSE UNCHANGED <<pending, promise>>

\* resolvePendingResponse() of runtime r: an unknown in_reply_to is dropped.
ResolvePending(r, s) ==
  IF message[s].reply \in pending[r]
  THEN /\ pending' = [pending EXCEPT ![r] = @ \ {message[s].reply}]
       /\ promise' = [promise EXCEPT ![message[s].reply] = "answered"]
  ELSE UNCHANGED <<pending, promise>>

\* Mutant: a runtime busy in onTask does not look at responses.
HandleIncomingBusy(r, s) ==
  /\ by' = [by EXCEPT ![s] = r]
  /\ \/ /\ message[s].type = "response"
        /\ IF \E x \in Sends : by[x] = r /\ act[x] = "running"
           THEN UNCHANGED <<pending, promise>> ELSE ResolvePending(r, s)
        /\ act' = [act EXCEPT ![s] = "returned"]
     \/ /\ message[s].type = "request"
        /\ act' = [act EXCEPT ![s] = IF r \in AutoHandle THEN "running" ELSE "returned"]
        /\ UNCHANGED <<pending, promise>>
  /\ UNCHANGED <<state, result, caller, parent, reply>>

\* Mutant: the promise of a handler that got a response is never resolved.
HandleIncomingHangs(r, s) ==
  /\ by' = [by EXCEPT ![s] = r]
  /\ \/ /\ message[s].type = "response"
        /\ ResolvePending(r, s)
        /\ UNCHANGED act
     \/ /\ message[s].type = "request"
        /\ act' = [act EXCEPT ![s] = IF r \in AutoHandle THEN "running" ELSE "returned"]
        /\ UNCHANGED <<pending, promise>>
  /\ UNCHANGED <<state, result, caller, parent, reply>>

HandleIncoming(r, s) ==
  /\ by' = [by EXCEPT ![s] = r]
  /\ \/ /\ message[s].type = "response"
        /\ ResolvePending(r, s)
        /\ act' = [act EXCEPT ![s] = "returned"]
     \/ /\ message[s].type = "request"
        /\ act' = [act EXCEPT ![s] = IF r \in AutoHandle THEN "running" ELSE "returned"]
        /\ UNCHANGED <<pending, promise>>
  /\ UNCHANGED <<state, result, caller, parent, reply>>

\* One turn of the bus's delivery loop, with the synchronous part of the handler.
Deliver(s, a) ==
  /\ Bus!DeliverTo(s, a)
  /\ \/ /\ a \in Bus!Registered
        /\ HandleIncoming(agents[a].handler, s)
     \/ /\ a \notin Bus!Registered
        /\ UNCHANGED <<state, callVars, actVars>>

\* ctx.respond() inside onTask, or respond() after receiveTask().
Holds(r, s) ==
  \/ by[s] = r /\ act[s] = "running"
  \/ /\ UriOf[r] \in Bus!Registered
     /\ \E b \in {agents[UriOf[r]].mailbox} \ {None} :
          \E i \in DOMAIN received[b] : received[b][i] = s

Respond(r, s) ==
  /\ Running(r) /\ RoomFor(1)
  /\ message[s].type = "request"
  /\ Holds(r, s)
  /\ Bus!Send(Response(r, s))
  /\ UNCHANGED <<state, callVars, actVars>>

\* onTask has settled: every call it awaits has returned.
Settled(s) ==
  /\ act[s] = "running"
  /\ \A x \in Sends : parent[x] = s => result[x] # "none"

\* respond(message, result), or the error response when onTask threw.
HandlerResponds(s) ==
  /\ Settled(s)
  /\ Running(by[s])
  /\ Bus!Send(Response(by[s], s))
  /\ act' = [act EXCEPT ![s] = "responding"]
  /\ reply' = [reply EXCEPT ![s] = sent + 1]
  /\ UNCHANGED <<state, callVars, by>>

\* On a runtime stopped in the meantime both respond() calls throw: a failed delivery.
HandlerRejects(s) ==
  /\ Settled(s)
  /\ ~Running(by[s])
  /\ Bus!HandlerEnd(s, FALSE)
  /\ act' = [act EXCEPT ![s] = "rejected"]
  /\ UNCHANGED <<state, callVars, by, reply>>

\* The handler's promise resolves; the outcome of sending the response does not matter.
HandlerReturns(s) ==
  /\ \/ act[s] = "returned"
     \/ act[s] = "responding" /\ Returned(reply[s])
  /\ Bus!HandlerEnd(s, TRUE)
  /\ act' = [act EXCEPT ![s] = "returned"]
  /\ UNCHANGED <<state, callVars, by, reply>>

-------------------------------------------------------------------------------
(* What is left of the bus.                                                 *)

Conclude(s) == Bus!Conclude(s) /\ UNCHANGED <<state, callVars, actVars>>

\* receiveTask() on a runtime that pulls its tasks.
ReceiveTask(r) ==
  /\ Running(r)
  /\ Bus!WaitForMessage(UriOf[r])
  /\ UNCHANGED <<state, callVars, actVars>>

ReceiveTimeout(w) == Bus!WaitTimeout(w) /\ UNCHANGED <<state, callVars, actVars>>

\* Whoever owns the bus closes it.
CloseBus == Bus!SetOpen(FALSE) /\ UNCHANGED <<state, callVars, actVars>>

-------------------------------------------------------------------------------
Init ==
  /\ Bus!Init
  /\ state = [r \in Runtimes |-> "created"]
  /\ pending = [r \in Runtimes |-> {}]
  /\ promise = [s \in Sends |-> "none"]
  /\ result = [s \in Sends |-> "none"]
  /\ caller = [s \in Sends |-> None]
  /\ parent = [s \in Sends |-> None]
  /\ act = [s \in Sends |-> "none"]
  /\ by = [s \in Sends |-> None]
  /\ reply = [s \in Sends |-> None]

Next ==
  \/ \E r \in Runtimes : Start(r)
  \/ \E r \in Runtimes : Stop(r)
  \/ \E c \in TaskCalls, outer \in Sends \cup {None} : SendTask(c, outer)
  \/ \E s \in Sends : ResponseTimeout(s)
  \/ \E s \in Sends : SendTaskFails(s)
  \/ \E s \in Sends : SendTaskReturns(s)
  \/ \E s \in Sends, a \in Agents : Deliver(s, a)
  \/ \E r \in Runtimes, s \in Sends : Respond(r, s)
  \/ \E s \in Sends : HandlerResponds(s)
  \/ \E s \in Sends : HandlerRejects(s)
  \/ \E s \in Sends : HandlerReturns(s)
  \/ \E s \in Sends : Conclude(s)
  \/ \E r \in Runtimes : ReceiveTask(r)
  \/ \E w \in 1..MaxWaits : ReceiveTimeout(w)
  \/ CloseBus

Spec == Init /\ [][Next]_vars

\* The event loop runs what is ready and timers fire.  onTask is assumed to settle once the
\* calls it awaits have returned; clients owe nothing.
Fairness ==
  /\ \A s \in Sends :
       /\ WF_vars(ResponseTimeout(s))
       /\ WF_vars(SendTaskFails(s))
       /\ WF_vars(SendTaskReturns(s))
       /\ WF_vars(\E a \in Agents : Deliver(s, a))
       /\ WF_vars(Conclude(s))
       /\ WF_vars(HandlerResponds(s))
       /\ WF_vars(HandlerRejects(s))
       /\ WF_vars(HandlerReturns(s))
  /\ \A w \in 1..MaxWaits : WF_vars(ReceiveTimeout(w))

FairSpec == Spec /\ Fairness
-------------------------------------------------------------------------------
(* Properties.                                                              *)

\* Every variable keeps its shape.
TypeOK ==
  /\ Bus!TypeOK
  /\ state \in [Runtimes -> {"created", "running", "stopped"}]
  /\ pending \in [Runtimes -> SUBSET Sends]
  /\ promise \in [Sends -> {"none", "waiting", "answered", "expired"}]
  /\ result \in [Sends -> {"none", "sent", "answered", "timeout", "failed"}]
  /\ caller \in [Sends -> Runtimes \cup {None}]
  /\ parent \in [Sends -> Sends \cup {None}]
  /\ act \in [Sends -> {"none", "running", "responding", "returned", "rejected"}]
  /\ by \in [Sends -> Runtimes \cup {None}]
  /\ reply \in [Sends -> Sends \cup {None}]

\* A live entry of pendingResponses always belongs to a running runtime and to a call of its
\* own that is still open and whose promise is unsettled: no path through a timeout, an
\* answer, a failed send or stop() leaves an entry, or its timer, behind.
PendingOwned ==
  \A r \in Runtimes : \A s \in pending[r] :
    Running(r) /\ caller[s] = r /\ promise[s] = "waiting" /\ result[s] = "none"

\* The converse: while its runtime runs, an open call whose promise is unsettled still has
\* its entry, so that an answer or the timer can settle it.
PromiseKept ==
  \A s \in Sends :
    promise[s] = "waiting" /\ result[s] = "none" /\ Running(caller[s])
      => s \in pending[caller[s]]

\* pendingResponses holds exactly the calls that it can settle, through timeouts, answers,
\* failed sends and stop(): no entry outlives its call, no call waits without its entry.
PendingExact == PendingOwned /\ PromiseKept

\* The bus never calls a runtime that has been stopped, even when two runtimes share a URI
\* and one unregisters or replaces the other.
HandlersRunning ==
  \A a \in Bus!Registered :
    agents[a].handler \in Runtimes /\ Running(agents[a].handler)
                                  /\ UriOf[agents[a].handler] = a

\* No other runtime has the URI of r.
SoleOwner(r) == \A x \in Runtimes : UriOf[x] = UriOf[r] => x = r

\* What arrives settles the call: when the handler of the URI gets a response to an open
\* call of a running runtime that owns its URI alone, that call is answered in that step.
AnswerSettles ==
  [][\A s \in Sends :
       act[s] = "none" /\ act'[s] = "returned" /\ message[s].type = "response"
         => LET x == message[s].reply
            IN promise[x] = "waiting" /\ result[x] = "none" /\ Running(caller[x])
                 /\ SoleOwner(caller[x])
               => promise'[x] = "answered"]_vars

\* The same without the condition that nobody shares the URI.
AnswerAlwaysSettles ==
  [][\A s \in Sends :
       act[s] = "none" /\ act'[s] = "returned" /\ message[s].type = "response"
         => LET x == message[s].reply
            IN promise[x] = "waiting" /\ result[x] = "none" /\ Running(caller[x])
               => promise'[x] = "answered"]_vars

\* sendTask() has not returned.
Open(s) == caller[s] # None /\ result[s] = "none"

\* Once the event loop is free, a handler or a call can go on by itself when onTask has
\* settled, the handler is done, its response is sent, bus.send() has returned, or the
\* response timer is set.
GoesOn(s) ==
  \/ /\ stage[s] = "handling"
     /\ Settled(s) \/ act[s] = "returned" \/ (act[s] = "responding" /\ Returned(reply[s]))
  \/ /\ Open(s) /\ Returned(s)
     /\ stage[s] = "ok" => promise[s] # "waiting" \/ s \in pending[caller[s]]

\* What the handler of message s awaits: the open calls of its onTask, or its response.
Awaits(s) ==
  {x \in Sends : parent[x] = s /\ Open(x)}
    \cup {x \in {reply[s]} : act[s] = "responding" /\ stage[x] = "handling"}

\* Agents that send one another tasks from inside onTask do not end up waiting for each
\* other: what cannot go on by itself awaits a message sent after it, so that no chain of
\* waits closes, and it ends where something goes on or a runtime has been stopped.
NoCircularWait ==
  Bus!Idle =>
    \A s \in Sends :
      stage[s] = "handling" \/ (Open(s) /\ Running(caller[s]))
        => GoesOn(s) \/ \E x \in Awaits(s) : s < x

\* While no runtime is stopped every sendTask() returns, however its request and the
\* sub-tasks of its handlers interleave, time out or fail.
CallsEnd ==
  \A s \in Sends :
    caller[s] # None ~> result[s] # "none" \/ \E r \in Runtimes : state[r] = "stopped"

\* Every sendTask() returns, stopped runtimes or not.
CallsAlwaysEnd == \A s \in Sends : caller[s] # None ~> result[s] # "none"

\* sendTask() keeps the promise of RequestReply: one end per call, "answered" only after a
\* reply, and what the caller asked for.
Replied == {message[x].reply : x \in {x \in Sends : message[x].type = "response"}}

CallOf(s) ==
  IF caller[s] = None THEN "idle"
  ELSE IF result[s] # "none" THEN result[s]
  ELSE IF promise[s] = "none" THEN "sending" ELSE "waiting"

Promise == INSTANCE RequestReply
             WITH Calls <- Sends, call <- [s \in Sends |-> CallOf(s)], replied <- Replied

KeepsPromise == Promise!Spec
===============================================================================
