---------------------------- MODULE SendTaskProofs ----------------------------
(*****************************************************************************)
(* Proofs about sending a task and waiting for its answer: agent runtimes on *)
(* one bus (AgentRuntime), for any runtimes, URIs (shared or not),           *)
(* capabilities, task calls and bounds; and a task sent with failover and    *)
(* retries (ResilientSend), for any agents, tasks and policies.              *)
(*                                                                           *)
(* Handlers that send one another sub-tasks wait only for what was sent      *)
(* later: each stage of a send says what its handler is doing (StageInv).    *)
(*                                                                           *)
(* The audit trail is true: an entry of it is written from what has settled  *)
(* the attempt, so that the proof is about what settles an attempt           *)
(* (SettledTrue), which tells what the agent made of the task, and what has  *)
(* been told does not change afterwards.  The search is bounded and leaves   *)
(* nobody out: its inductive invariant (SearchInv) says where in the three   *)
(* nested loops the call is, who has been tried so far, what the entries of  *)
(* the audit trail come to, and that who has failed is behind.               *)
(*****************************************************************************)
EXTENDS AgentRuntime, ResilientSend, SequenceLemmas

-------------------------------------------------------------------------------
(* Agent runtimes.                                                           *)
\* The types the proofs need.
CallTypes ==
  /\ sent \in 0..MaxSends
  /\ DOMAIN message = Sends
  /\ state \in [Runtimes -> {"created", "running", "stopped"}]
  /\ pending \in [Runtimes -> SUBSET Sends]
  /\ promise \in [Sends -> {"none", "waiting", "answered", "expired"}]
  /\ result \in [Sends -> {"none", "sent", "answered", "timeout", "failed"}]
  /\ caller \in [Sends -> Runtimes \cup {None}]

\* A message that is not sent yet is nobody's call and no response.
Fresh ==
  \A s \in Sends : s > sent =>
    caller[s] = None /\ promise[s] = "none" /\ result[s] = "none" /\ message[s].type = "request"

\* Only a call has a promise or a result, its runtime has been started, and only a call that
\* somebody replied to is answered.
CallsOnly ==
  \A s \in Sends :
    /\ caller[s] = None => promise[s] = "none" /\ result[s] = "none"
    /\ caller[s] # None => state[caller[s]] # "created"
    /\ promise[s] = "answered" => s \in Replied

CallInv == CallTypes /\ Fresh /\ CallsOnly /\ PendingOwned /\ PromiseKept

\* What bus.send() does to the ids and the messages.
LEMMA SendEffect ==
  ASSUME CallTypes, NEW m, Bus!Send(m)
  PROVE  /\ sent' = sent + 1 /\ sent + 1 \in Sends
         /\ message' = message \/ message' = [message EXCEPT ![sent + 1] = m]
         /\ agents' = agents
BY RuntimeConstants DEF CallTypes, Sends, Bus!Send, Bus!SendRefused, Bus!SendUnroutable,
   Bus!SendRouted, Bus!Issue, Bus!registryVars

\* The other operations of the bus leave them alone.
LEMMA NoSendEffect ==
  ASSUME \/ \E r \in Runtimes : Bus!Register(UriOf[r], r, CapabilitiesOf[r], r \notin AutoHandle, FALSE)
         \/ \E a : Bus!Unregister(a) \/ Bus!WaitForMessage(a)
         \/ \E s : Bus!Conclude(s) \/ Bus!WaitTimeout(s)
         \/ \E s, succeeds : Bus!HandlerEnd(s, succeeds)
         \/ \E s, a : Bus!DeliverTo(s, a)
         \/ \E value : Bus!SetOpen(value)
         \/ UNCHANGED busVars
  PROVE  UNCHANGED <<sent, message>>
BY DEF busVars, Bus!Register, Bus!Unregister, Bus!WaitForMessage, Bus!Conclude, Bus!WaitTimeout,
   Bus!HandlerEnd, Bus!DeliverTo, Bus!SetOpen, Bus!sendVars

LEMMA InitCallInv == Init => CallInv
<1> SUFFICES ASSUME Init PROVE CallInv
  OBVIOUS
<1>1. CallTypes
  BY RuntimeConstants DEF Init, Bus!Init, Bus!Sends, Sends, CallTypes
<1>2. Fresh /\ CallsOnly /\ PendingOwned /\ PromiseKept
  BY DEF Init, Bus!Init, Bus!NoMessage, Bus!Sends, Sends, Fresh, CallsOnly, PendingOwned, PromiseKept
<1> QED
  BY <1>1, <1>2 DEF CallInv

LEMMA SendTaskKeeps ==
  ASSUME CallInv, NEW c \in TaskCalls, NEW outer, SendTask(c, outer)
  PROVE  CallInv'
<1> DEFINE r == c.runtime
           n == sent + 1
<1>1. /\ r \in Runtimes /\ c.wait \in BOOLEAN /\ Task(c).type = "request"
  BY RuntimeConstants DEF Task
<1>2. /\ sent' = n /\ n \in Sends /\ sent \in Nat /\ state' = state /\ Running(r)
      /\ message' = message \/ message' = [message EXCEPT ![n] = Task(c)]
  BY SendEffect DEF CallInv, CallTypes, SendTask
<1>3. /\ caller' = [caller EXCEPT ![n] = r] /\ result' = result
      /\ promise' = [promise EXCEPT ![n] = IF c.wait THEN "waiting" ELSE @]
      /\ pending' = [pending EXCEPT ![r] = IF c.wait THEN @ \cup {n} ELSE @]
  BY DEF SendTask
<1>4. caller[n] = None /\ promise[n] = "none" /\ result[n] = "none" /\ message[n].type = "request"
  BY <1>2 DEF CallInv, Fresh
<1>5. CallTypes'
  BY <1>1, <1>2, <1>3, RuntimeConstants DEF CallInv, CallTypes, Sends
<1>6. Fresh'
  <2>1. \A s \in Sends : s > n => s > sent /\ s # n
    BY <1>2 DEF Sends
  <2>2. \A s \in Sends : s # n => /\ caller'[s] = caller[s] /\ promise'[s] = promise[s]
                                 /\ message'[s] = message[s]
    BY <1>2, <1>3 DEF CallInv, CallTypes
  <2> QED
    BY <1>2, <1>3, <2>1, <2>2 DEF CallInv, Fresh
<1>7. Replied \subseteq Replied'
  BY <1>1, <1>2, <1>4 DEF CallInv, CallTypes, Replied
<1>8. CallsOnly'
  BY <1>1, <1>2, <1>3, <1>4, <1>7, RuntimeConstants DEF CallInv, CallTypes, CallsOnly, Running
<1>9. PendingOwned'
  BY <1>1, <1>2, <1>3, <1>4 DEF CallInv, CallTypes, PendingOwned, Running
<1>10. PromiseKept'
  BY <1>1, <1>2, <1>3, <1>4 DEF CallInv, CallTypes, PromiseKept, Running
<1> QED
  BY <1>5, <1>6, <1>8, <1>9, <1>10 DEF CallInv

\* A response that is sent leaves the calls alone.
LEMMA RespondKeeps ==
  ASSUME CallInv, NEW r, NEW x, Bus!Send(Response(r, x)), UNCHANGED <<state, callVars>>
  PROVE  CallInv'
<1>1. /\ sent' = sent + 1 /\ sent + 1 \in Sends /\ sent \in Nat
      /\ message' = message \/ message' = [message EXCEPT ![sent + 1] = Response(r, x)]
  BY SendEffect DEF CallInv, CallTypes
<1>2. CallTypes'
  BY <1>1, RuntimeConstants DEF CallInv, CallTypes, callVars, Sends
<1>3. Fresh'
  <2>1. \A s \in Sends : s > sent + 1 => s > sent /\ s # sent + 1
    BY <1>1 DEF Sends
  <2>2. \A s \in Sends : s # sent + 1 => message'[s] = message[s]
    BY <1>1 DEF CallInv, CallTypes
  <2> QED
    BY <1>1, <2>1, <2>2 DEF CallInv, Fresh, callVars
<1>4. message[sent + 1].type = "request"
  BY <1>1 DEF CallInv, Fresh
<1>5. Replied \subseteq Replied'
  BY <1>1, <1>4 DEF CallInv, CallTypes, Replied
<1> QED
  BY <1>2, <1>3, <1>5 DEF CallInv, CallsOnly, PendingOwned, PromiseKept, Running, callVars

\* A settled, expired or finished call: n's entry goes, its promise or result is set.
LEMMA SettleKeeps ==
  ASSUME CallInv, UNCHANGED <<sent, message, state, caller>>,
         NEW n \in Sends, NEW r \in Runtimes, caller[n] = r,
         pending' = [pending EXCEPT ![r] = @ \ {n}],
         \/ /\ n \in pending[r] /\ result' = result
            /\ \/ promise' = [promise EXCEPT ![n] = "expired"]
               \/ promise' = [promise EXCEPT ![n] = "answered"] /\ n \in Replied
         \/ /\ promise' = promise /\ result' = [result EXCEPT ![n] = "failed"]
  PROVE  CallInv'
<1>1. Replied' = Replied
  BY DEF Replied
<1>2. CallTypes'
  BY DEF CallInv, CallTypes
<1>3. n <= sent
  BY RuntimeConstants DEF CallInv, CallTypes, Fresh, Sends
<1>4. Fresh'
  BY <1>3, RuntimeConstants DEF CallInv, CallTypes, Fresh, Sends
<1>5. CallsOnly'
  BY <1>1, RuntimeConstants DEF CallInv, CallTypes, CallsOnly
<1>6. PendingOwned'
  BY DEF CallInv, CallTypes, PendingOwned, Running
<1>7. PromiseKept'
  BY DEF CallInv, CallTypes, PromiseKept, PendingOwned, Running
<1> QED
  BY <1>2, <1>4, <1>5, <1>6, <1>7 DEF CallInv

LEMMA ReturnKeeps ==
  ASSUME CallInv, NEW s \in Sends, SendTaskReturns(s)
  PROVE  CallInv'
<1>1. /\ UNCHANGED <<sent, message, state, pending, promise, caller>>
      /\ \E how \in {"answered", "timeout", "sent"} : result' = [result EXCEPT ![s] = how]
      /\ caller[s] # None /\ result[s] = "none" /\ promise[s] # "waiting"
  BY NoSendEffect DEF SendTaskReturns
<1>2. Replied' = Replied
  BY <1>1 DEF Replied
<1>3. CallTypes' /\ CallsOnly'
  BY <1>1, <1>2 DEF CallInv, CallTypes, CallsOnly
<1>4. Fresh'
  BY <1>1 DEF CallInv, CallTypes, Fresh
<1>5. PendingOwned' /\ PromiseKept'
  BY <1>1 DEF CallInv, CallTypes, PendingOwned, PromiseKept, Running
<1> QED
  BY <1>3, <1>4, <1>5 DEF CallInv

LEMMA LifecycleKeeps ==
  ASSUME CallInv, NEW r \in Runtimes, Start(r) \/ Stop(r)
  PROVE  CallInv'
<1>1. UNCHANGED <<sent, message, promise, result, caller>>
  BY NoSendEffect DEF Start, Stop, callVars
<1>2. Replied' = Replied
  BY <1>1 DEF Replied
<1>3. CASE Start(r)
  <2>1. /\ state' = [state EXCEPT ![r] = "running"] /\ state[r] = "created"
        /\ pending' = pending
    BY <1>3 DEF Start, callVars
  <2> QED
    BY <1>1, <1>2, <2>1, RuntimeConstants
     DEF CallInv, CallTypes, Fresh, CallsOnly, PendingOwned, PromiseKept, Running
<1>4. CASE Stop(r)
  <2>1. state' = [state EXCEPT ![r] = "stopped"] /\ pending' = [pending EXCEPT ![r] = {}]
    BY <1>4 DEF Stop
  <2> QED
    BY <1>1, <1>2, <2>1
       DEF CallInv, CallTypes, Fresh, CallsOnly, PendingOwned, PromiseKept, Running
<1> QED
  BY <1>3, <1>4

\* Steps that touch no call.
LEMMA IdleKeeps ==
  ASSUME CallInv, UNCHANGED <<sent, message, state, callVars>>
  PROVE  CallInv'
BY DEF CallInv, CallTypes, Fresh, CallsOnly, PendingOwned, PromiseKept, Running, Replied, callVars

LEMMA DeliverKeeps ==
  ASSUME CallInv, HandlersRunning, NEW s \in Sends, NEW a \in Agents, Deliver(s, a)
  PROVE  CallInv'
<1>1. UNCHANGED <<sent, message>>
  BY NoSendEffect DEF Deliver
<1>2. CASE a \in Bus!Registered /\ HandleIncoming(agents[a].handler, s)
  <2> DEFINE r == agents[a].handler
             n == message[s].reply
  <2>1. r \in Runtimes
    BY <1>2 DEF HandlersRunning
  <2>2. CASE message[s].type = "response" /\ n \in pending[r]
    <3>1. n \in Sends /\ caller[n] = r
      BY <2>1, <2>2 DEF CallInv, CallTypes, PendingOwned
    <3>2. n \in Replied
      BY <2>2 DEF Replied
    <3>3. /\ pending' = [pending EXCEPT ![r] = @ \ {n}]
          /\ promise' = [promise EXCEPT ![n] = "answered"]
          /\ UNCHANGED <<state, result, caller>>
      BY <1>2, <2>2 DEF HandleIncoming, ResolvePending
    <3> QED
      BY <1>1, <2>1, <2>2, <3>1, <3>2, <3>3, SettleKeeps
  <2>3. CASE ~(message[s].type = "response" /\ n \in pending[r])
    <3>1. UNCHANGED <<state, callVars>>
      BY <1>2, <2>3 DEF HandleIncoming, ResolvePending, callVars
    <3> QED
      BY <1>1, <3>1, IdleKeeps
  <2> QED
    BY <2>2, <2>3
<1> QED
  BY <1>1, <1>2, IdleKeeps DEF Deliver

-------------------------------------------------------------------------------
(* Who handles what the bus delivers.                                       *)

LEMMA StartHandles ==
  ASSUME HandlersRunning, CallTypes, NEW r \in Runtimes, Start(r)
  PROVE  HandlersRunning'
<1> DEFINE a == UriOf[r]
<1>1. /\ Bus!Register(a, r, CapabilitiesOf[r], r \notin AutoHandle, FALSE)
      /\ state' = [state EXCEPT ![r] = "running"]
  BY DEF Start
<1>2. /\ Bus!Registered' = Bus!Registered \cup {a}
      /\ agents'[a].handler = r
      /\ \A x \in Bus!Registered : x # a => agents'[x] = agents[x]
  <2>1. r # None
    BY RuntimeConstants
  <2>2. CASE a \in Bus!Registered
             /\ Bus!MergeRegistration(a, r, CapabilitiesOf[r], r \notin AutoHandle)
    BY <2>1, <2>2 DEF Bus!MergeRegistration, Bus!Registered
  <2>3. CASE Bus!RegisterNew(a, r, CapabilitiesOf[r], r \notin AutoHandle)
    BY <2>1, <2>3 DEF Bus!RegisterNew, Bus!Registered
  <2> QED
    BY <1>1, <2>2, <2>3 DEF Bus!Register
<1> QED
  BY <1>1, <1>2 DEF HandlersRunning, Running, CallTypes

LEMMA StopHandles ==
  ASSUME HandlersRunning, CallTypes, NEW r \in Runtimes, Stop(r)
  PROVE  HandlersRunning'
<1>1. state' = [state EXCEPT ![r] = "stopped"]
  BY DEF Stop
<1>2. /\ Bus!Registered' = Bus!Registered \ {UriOf[r]}
      /\ \A x \in Bus!Registered' : agents'[x] = agents[x]
  <2>1. CASE Bus!Unregister(UriOf[r])
    BY <2>1 DEF Bus!Unregister, Bus!Registered
  <2>2. CASE UriOf[r] \notin Bus!Registered /\ UNCHANGED busVars
    BY <2>2 DEF busVars, Bus!Registered
  <2> QED
    BY <2>1, <2>2 DEF Stop
<1> QED
  BY <1>1, <1>2 DEF HandlersRunning, Running, CallTypes

LEMMA HandlersKept ==
  ASSUME HandlersRunning, UNCHANGED <<agents, state>>
  PROVE  HandlersRunning'
BY DEF HandlersRunning, Running, Bus!Registered

\* Every action but Start and Stop leaves the registrations and the lifecycle alone.
LEMMA AgentsFrame ==
  ASSUME [Next]_vars
  PROVE  \/ UNCHANGED <<agents, state>>
         \/ \E r \in Runtimes : Start(r) \/ Stop(r)
<1>1. CASE UNCHANGED vars
  BY <1>1 DEF vars, busVars
<1>2. ASSUME NEW c \in TaskCalls, NEW outer \in Sends \cup {None}, SendTask(c, outer)
      PROVE  UNCHANGED <<agents, state>>
  BY <1>2 DEF SendTask, Bus!Send, Bus!SendRefused, Bus!SendUnroutable, Bus!SendRouted, Bus!registryVars
<1>3. ASSUME NEW s \in Sends,
             \/ ResponseTimeout(s) \/ SendTaskFails(s) \/ SendTaskReturns(s)
             \/ \E a \in Agents : Deliver(s, a)
             \/ HandlerRejects(s) \/ HandlerReturns(s) \/ Conclude(s)
      PROVE  UNCHANGED <<agents, state>>
  BY <1>3 DEF ResponseTimeout, SendTaskFails, SendTaskReturns, Deliver, HandleIncoming,
              HandlerRejects, HandlerReturns, Conclude, busVars, Bus!DeliverTo, Bus!HandlerEnd,
              Bus!Conclude, Bus!registryVars
<1>4. ASSUME NEW s \in Sends, HandlerResponds(s) \/ \E r \in Runtimes : Respond(r, s)
      PROVE  UNCHANGED <<agents, state>>
  BY SMTT(30), <1>4 DEF HandlerResponds, Respond, Bus!Send, Bus!SendRefused, Bus!SendUnroutable,
              Bus!SendRouted, Bus!registryVars
<1>5. ASSUME \/ \E r \in Runtimes : ReceiveTask(r)
             \/ \E w \in 1..MaxWaits : ReceiveTimeout(w)
             \/ CloseBus
      PROVE  UNCHANGED <<agents, state>>
  BY <1>5 DEF ReceiveTask, ReceiveTimeout, CloseBus, Bus!WaitForMessage, Bus!WaitTimeout,
              Bus!SetOpen, Bus!registryVars
<1> QED
  BY <1>1, <1>2, <1>3, <1>4, <1>5 DEF Next

-------------------------------------------------------------------------------
(* The invariants.                                                          *)

RuntimeInv == CallInv /\ HandlersRunning

LEMMA InitRuntimeInv == Init => RuntimeInv
BY InitCallInv DEF Init, Bus!Init, RuntimeInv, HandlersRunning, Bus!Registered

LEMMA NextHandlersRunning == RuntimeInv /\ [Next]_vars => HandlersRunning'
BY AgentsFrame, StartHandles, StopHandles, HandlersKept DEF RuntimeInv, CallInv

LEMMA NextCallInv == RuntimeInv /\ [Next]_vars => CallInv'
<1> SUFFICES ASSUME CallInv, HandlersRunning, [Next]_vars PROVE CallInv'
  BY DEF RuntimeInv
<1>1. CASE UNCHANGED vars
  BY <1>1, IdleKeeps DEF vars, busVars
<1>2. ASSUME NEW s \in Sends, ResponseTimeout(s)
      PROVE  CallInv'
  <2>1. PICK r \in Runtimes : s \in pending[r] /\ pending' = [pending EXCEPT ![r] = @ \ {s}]
    BY <1>2 DEF ResponseTimeout
  <2>2. /\ promise' = [promise EXCEPT ![s] = "expired"]
        /\ UNCHANGED <<sent, message, state, result, caller>>
    BY <1>2, NoSendEffect DEF ResponseTimeout
  <2>3. caller[s] = r
    BY <2>1 DEF CallInv, PendingOwned
  <2> QED
    BY <2>1, <2>2, <2>3, SettleKeeps
<1>3. ASSUME NEW s \in Sends, SendTaskFails(s)
      PROVE  CallInv'
  <2>1. /\ caller[s] \in Runtimes /\ promise' = promise
        /\ pending' = [pending EXCEPT ![caller[s]] = @ \ {s}]
        /\ result' = [result EXCEPT ![s] = "failed"]
        /\ UNCHANGED <<sent, message, state, caller>>
    BY <1>3, NoSendEffect DEF SendTaskFails, CallInv, CallTypes
  <2> QED
    BY <2>1, SettleKeeps
<1>4. ASSUME NEW s \in Sends, HandlerResponds(s) \/ \E r \in Runtimes : Respond(r, s)
      PROVE  CallInv'
  BY <1>4, RespondKeeps DEF HandlerResponds, Respond
<1>5. ASSUME \/ \E s \in Sends : HandlerRejects(s) \/ HandlerReturns(s) \/ Conclude(s)
             \/ \E r \in Runtimes : ReceiveTask(r)
             \/ \E w \in 1..MaxWaits : ReceiveTimeout(w)
             \/ CloseBus
      PROVE  CallInv'
  <2>1. UNCHANGED <<state, callVars>>
    BY <1>5 DEF HandlerRejects, HandlerReturns, Conclude, ReceiveTask, ReceiveTimeout, CloseBus
  <2>2. UNCHANGED <<sent, message>>
    BY <1>5, NoSendEffect DEF HandlerRejects, HandlerReturns, Conclude, ReceiveTask,
                              ReceiveTimeout, CloseBus
  <2> QED
    BY <2>1, <2>2, IdleKeeps
<1> QED
  BY <1>1, <1>2, <1>3, <1>4, <1>5, LifecycleKeeps, SendTaskKeeps, DeliverKeeps, ReturnKeeps
     DEF Next

LEMMA AlwaysRuntimeInv == Spec => []RuntimeInv
<1>1. RuntimeInv /\ [Next]_vars => RuntimeInv'
  BY NextCallInv, NextHandlersRunning DEF RuntimeInv
<1> QED
  BY InitRuntimeInv, <1>1, PTL DEF Spec

\* A live entry of pendingResponses belongs to an open call of a running runtime.
THEOREM PendingIsOwned == Spec => []PendingOwned
<1>1. RuntimeInv => PendingOwned
  BY DEF RuntimeInv, CallInv
<1> QED
  BY <1>1, AlwaysRuntimeInv, PTL

\* While its runtime runs, an unsettled call keeps the entry that can settle it.
THEOREM PromiseIsKept == Spec => []PromiseKept
<1>1. RuntimeInv => PromiseKept
  BY DEF RuntimeInv, CallInv
<1> QED
  BY <1>1, AlwaysRuntimeInv, PTL

\* Both: pendingResponses holds exactly the open calls of running runtimes that wait.
THEOREM PendingIsExact == Spec => []PendingExact
<1>1. PendingOwned /\ PromiseKept => PendingExact
  BY DEF PendingExact
<1> QED
  BY <1>1, PendingIsOwned, PromiseIsKept, PTL

\* The bus calls only running runtimes.
THEOREM HandlersAreRunning == Spec => []HandlersRunning
<1>1. RuntimeInv => HandlersRunning
  BY DEF RuntimeInv
<1> QED
  BY <1>1, AlwaysRuntimeInv, PTL

-------------------------------------------------------------------------------
(* What arrives settles the call.                                            *)
\* A response replies to a message of the bus, and whoever it still has to reach has sent
\* that message; the messages of a runtime's calls bear its URI.
RoutesBack ==
  /\ DOMAIN rest = Sends /\ recorded \subseteq 1..sent
  /\ \A s \in Sends : message[s].type = "response" =>
       /\ message[s].reply \in Sends
       /\ \A a \in rest[s] : message[s].reply \in recorded /\ message[message[s].reply].from = a
  /\ \A s \in Sends : s \in recorded /\ caller[s] # None => message[s].from = UriOf[caller[s]]
  /\ \A s \in Sends : s > sent => rest[s] = {}

\* What bus.send() does to the routes.
LEMMA SendRoutes ==
  ASSUME CallInv, RoutesBack, NEW m, Bus!Send(m),
         m.type \in {"request", "response"},
         m.type = "response" => m.reply \in Sends,
         NEW c, caller' = [caller EXCEPT ![sent + 1] = c],
         c # None => m.from = UriOf[c]
  PROVE  RoutesBack'
<1> DEFINE n == sent + 1
<1>1. n \in Sends /\ sent' = n /\ sent \in Nat /\ Sends \subseteq Nat
  BY SendEffect DEF CallInv, CallTypes, Sends
<1>2. n \notin recorded /\ rest[n] = {} /\ DOMAIN message = Sends /\ DOMAIN caller = Sends
      /\ DOMAIN rest = Sends /\ recorded \subseteq 1..sent
  BY <1>1 DEF RoutesBack, CallInv, CallTypes
<1>3. message[n].type = "request"
  BY <1>1 DEF CallInv, Fresh
<1>4. \A s \in Sends : s # n => caller'[s] = caller[s]
  BY <1>2
<1>5. \A s \in Sends : s > n => s > sent /\ s # n
  BY <1>1
<1>6. caller'[n] = c
  BY <1>1, <1>2
<1>7. 1..sent \cup {n} \subseteq 1..n
  BY <1>1
<1>8. CASE Bus!SendRefused(m, TRUE)
  <2>1. UNCHANGED <<message, recorded, rest>>
    BY <1>8 DEF Bus!SendRefused, Bus!Issue, Bus!traceVars
  <2>2. recorded' \subseteq 1..sent'
    BY <1>1, <1>2, <1>7, <2>1
  <2> QED BY <1>1, <1>2, <1>4, <1>5, <2>1, <2>2 DEF RoutesBack
<1>9. CASE Bus!SendUnroutable(m) \/ Bus!SendRouted(m)
  <2>1. message' = [message EXCEPT ![n] = m] /\ recorded' = recorded \cup {n}
    BY <1>9 DEF Bus!SendUnroutable, Bus!SendRouted, Bus!Issue, Bus!RecordMessage
  <2>2. \/ rest' = rest
        \/ rest' = [rest EXCEPT ![n] = Bus!Recipients(m)]
    BY <1>9 DEF Bus!SendUnroutable, Bus!SendRouted
  <2>3. \A s \in Sends : s # n => message'[s] = message[s] /\ rest'[s] = rest[s]
    BY <1>2, <2>1, <2>2
  <2>4. message'[n] = m /\ (rest'[n] = {} \/ rest'[n] = Bus!Recipients(m)) /\ DOMAIN rest' = Sends
    BY <1>1, <1>2, <2>1, <2>2
  <2>5. recorded' \subseteq 1..sent'
    BY <1>1, <1>2, <1>7, <2>1
  <2>6. ASSUME NEW s \in Sends, message'[s].type = "response", NEW a \in rest'[s]
        PROVE  message'[s].reply \in Sends /\ message'[s].reply \in recorded'
               /\ message'[message'[s].reply].from = a
    <3>1. CASE s # n
      <4>1. message[s].type = "response" /\ a \in rest[s] /\ message'[s] = message[s]
        BY <2>3, <2>6, <3>1
      <4>2. message[s].reply \in recorded /\ message[message[s].reply].from = a
            /\ message[s].reply \in Sends
        BY <4>1 DEF RoutesBack
      <4> QED BY <1>2, <2>1, <2>3, <4>1, <4>2
    <3>2. CASE s = n
      <4>1. a \in {message[x].from : x \in recorded \cap {m.reply}} /\ m.reply \in Sends
        BY <2>4, <2>6, <3>2 DEF Bus!Recipients, Bus!ReplyRecipient
      <4> QED BY <1>2, <2>1, <2>3, <2>4, <3>2, <4>1
    <3> QED BY <3>1, <3>2
  <2>7. ASSUME NEW s \in Sends, message'[s].type = "response" PROVE message'[s].reply \in Sends
    <3>1. CASE s # n
      BY <2>3, <2>7, <3>1 DEF RoutesBack
    <3> QED BY <2>4, <2>7, <3>1
  <2>8. ASSUME NEW s \in Sends, s \in recorded', caller'[s] # None
        PROVE  message'[s].from = UriOf[caller'[s]]
    <3>1. CASE s # n
      BY <1>4, <2>1, <2>3, <2>8, <3>1 DEF RoutesBack
    <3> QED BY <1>6, <2>4, <2>8, <3>1
  <2>9. \A s \in Sends : s > sent' => rest'[s] = {}
    BY <1>1, <1>5, <2>3 DEF RoutesBack
  <2> QED BY <2>4, <2>5, <2>6, <2>7, <2>8, <2>9 DEF RoutesBack
<1> QED BY <1>8, <1>9 DEF Bus!Send

\* The other operations shorten the routes at most.
LEMMA QuietRoutes ==
  ASSUME RoutesBack, UNCHANGED <<sent, message, recorded, caller>>, DOMAIN rest' = Sends,
         \A s \in Sends : rest'[s] \subseteq rest[s]
  PROVE  RoutesBack'
BY DEF RoutesBack

LEMMA BusKeepsRoutes ==
  ASSUME RoutesBack,
         \/ \E r \in Runtimes : Bus!Register(UriOf[r], r, CapabilitiesOf[r], r \notin AutoHandle, FALSE)
         \/ \E a : Bus!Unregister(a) \/ Bus!WaitForMessage(a)
         \/ \E s : Bus!Conclude(s) \/ Bus!WaitTimeout(s)
         \/ \E s, succeeds : Bus!HandlerEnd(s, succeeds)
         \/ \E s, a : Bus!DeliverTo(s, a)
         \/ \E value : Bus!SetOpen(value)
         \/ UNCHANGED busVars
  PROVE  /\ UNCHANGED <<sent, message, recorded>> /\ DOMAIN rest' = Sends
         /\ \A s \in Sends : rest'[s] \subseteq rest[s]
<1>1. UNCHANGED <<sent, message>>
  BY NoSendEffect
<1>2. recorded' = recorded
  BY DEF busVars, Bus!Register, Bus!Unregister, Bus!WaitForMessage, Bus!Conclude, Bus!WaitTimeout,
   Bus!HandlerEnd, Bus!DeliverTo, Bus!SetOpen, Bus!traceVars
<1>3. \/ rest' = rest
      \/ \E s, a : rest' = [rest EXCEPT ![s] = @ \ {a}]
  BY DEF busVars, Bus!Register, Bus!Unregister, Bus!WaitForMessage, Bus!Conclude, Bus!WaitTimeout,
   Bus!HandlerEnd, Bus!DeliverTo, Bus!SetOpen, Bus!sendVars
<1>4. DOMAIN rest = Sends
  BY DEF RoutesBack
<1> QED BY <1>1, <1>2, <1>3, <1>4

LEMMA NextRoutes ==
  ASSUME RuntimeInv, RoutesBack, [Next]_vars
  PROVE  RoutesBack'
<1>1. CallInv /\ DOMAIN caller = Sends /\ \A s \in Sends : s > sent => caller[s] = None
  BY DEF RuntimeInv, CallInv, CallTypes, Fresh
<1>2. ASSUME NEW c \in TaskCalls, NEW outer \in Sends \cup {None}, SendTask(c, outer)
      PROVE  RoutesBack'
  <2>1. /\ Bus!Send(Task(c)) /\ caller' = [caller EXCEPT ![sent + 1] = c.runtime]
        /\ Task(c).type = "request" /\ Task(c).from = UriOf[c.runtime]
    BY <1>2 DEF SendTask, Task
  <2> QED BY <1>1, <2>1, SendRoutes
<1>3. ASSUME NEW s \in Sends, HandlerResponds(s) \/ \E r \in Runtimes : Respond(r, s)
      PROVE  RoutesBack'
  <2>1. PICK r : Bus!Send(Response(r, s)) /\ caller' = caller
    BY <1>3 DEF HandlerResponds, Respond, callVars
  <2>2. sent + 1 \in Sends /\ sent + 1 > sent
    BY <1>1, <2>1, SendEffect DEF CallInv, CallTypes
  <2>3. caller' = [caller EXCEPT ![sent + 1] = None]
    BY <1>1, <2>1, <2>2 DEF CallInv, CallTypes
  <2>4. Response(r, s).type = "response" /\ Response(r, s).reply = s
    BY DEF Response
  <2> QED BY <1>1, <2>1, <2>3, <2>4, SendRoutes
<1>4. ASSUME \/ UNCHANGED vars
             \/ \E r \in Runtimes : Start(r) \/ Stop(r) \/ ReceiveTask(r)
             \/ \E s \in Sends : \/ ResponseTimeout(s) \/ SendTaskFails(s) \/ SendTaskReturns(s)
                                 \/ \E a \in Agents : Deliver(s, a)
                                 \/ HandlerRejects(s) \/ HandlerReturns(s) \/ Conclude(s)
             \/ \E w \in 1..MaxWaits : ReceiveTimeout(w)
             \/ CloseBus
      PROVE  RoutesBack'
  <2>1. caller' = caller
    BY <1>4 DEF vars, Start, Stop, ReceiveTask, ResponseTimeout, SendTaskFails, SendTaskReturns,
                Deliver, HandleIncoming, HandlerRejects, HandlerReturns, Conclude, ReceiveTimeout,
                CloseBus, callVars
  <2>2. \/ \E r \in Runtimes : Bus!Register(UriOf[r], r, CapabilitiesOf[r], r \notin AutoHandle, FALSE)
        \/ \E a : Bus!Unregister(a) \/ Bus!WaitForMessage(a)
        \/ \E s : Bus!Conclude(s) \/ Bus!WaitTimeout(s)
        \/ \E s, succeeds : Bus!HandlerEnd(s, succeeds)
        \/ \E s, a : Bus!DeliverTo(s, a)
        \/ \E value : Bus!SetOpen(value)
        \/ UNCHANGED busVars
    BY <1>4 DEF vars, Start, Stop, ReceiveTask, ResponseTimeout, SendTaskFails, SendTaskReturns,
                Deliver, HandlerRejects, HandlerReturns, Conclude, ReceiveTimeout, CloseBus
  <2>3. /\ UNCHANGED <<sent, message, recorded>> /\ DOMAIN rest' = Sends
        /\ \A s \in Sends : rest'[s] \subseteq rest[s]
    BY <2>2, BusKeepsRoutes
  <2> QED BY <2>1, <2>3, QuietRoutes
<1> QED BY <1>2, <1>3, <1>4 DEF Next

\* What begins or ends the handling of a message.
LEMMA ActsOn ==
  ASSUME DOMAIN act = Sends, [Next]_vars
  PROVE  /\ DOMAIN act' = Sends
         /\ \A s \in Sends : \/ act'[s] = act[s] \/ act[s] # "none"
                            \/ \E a \in Agents : Deliver(s, a)
<1>1. \/ act' = act
      \/ \E s \in Sends, e \in {"responding", "rejected", "returned"} :
           act[s] # "none" /\ act' = [act EXCEPT ![s] = e]
      \/ \E s \in Sends, a \in Agents, e \in {"running", "returned"} :
           Deliver(s, a) /\ act' = [act EXCEPT ![s] = e]
  <2>1. ASSUME NEW s \in Sends, NEW a \in Agents, Deliver(s, a)
        PROVE  act' = act \/ \E e \in {"running", "returned"} : act' = [act EXCEPT ![s] = e]
    BY <2>1 DEF Deliver, HandleIncoming, actVars
  <2>2. ASSUME NEW s \in Sends, HandlerResponds(s) \/ HandlerRejects(s) \/ HandlerReturns(s)
        PROVE  act[s] # "none" /\ \E e \in {"responding", "rejected", "returned"} :
                                    act' = [act EXCEPT ![s] = e]
    BY <2>2 DEF HandlerResponds, HandlerRejects, HandlerReturns, Settled
  <2>3. ASSUME \/ UNCHANGED vars
               \/ \E r \in Runtimes : Start(r) \/ Stop(r) \/ ReceiveTask(r)
               \/ \E c \in TaskCalls, outer \in Sends \cup {None} : SendTask(c, outer)
               \/ \E s \in Sends : \/ ResponseTimeout(s) \/ SendTaskFails(s) \/ SendTaskReturns(s)
                                   \/ Conclude(s) \/ \E r \in Runtimes : Respond(r, s)
               \/ \E w \in 1..MaxWaits : ReceiveTimeout(w)
               \/ CloseBus
        PROVE  act' = act
    BY <2>3 DEF vars, Start, Stop, SendTask, ReceiveTask, ResponseTimeout, SendTaskFails,
                SendTaskReturns, Respond, Conclude, ReceiveTimeout, CloseBus, actVars
  <2> QED BY <2>1, <2>2, <2>3 DEF Next
<1> QED BY <1>1

\* An answer that arrives is never lost on the way into the call it answers: what the bus
\* delivers to handleIncoming() settles the pending response of the runtime that sent the
\* request, for any runtimes, calls and interleavings, as long as it shares its URI with
\* no other.
THEOREM AnswersSettle == Spec => AnswerSettles
<1>1. Init => RoutesBack /\ DOMAIN act = Sends
  BY DEF Init, Bus!Init, Bus!NoMessage, Bus!Sends, Sends, RoutesBack
<1>2. RuntimeInv /\ RoutesBack /\ DOMAIN act = Sends /\ [Next]_vars
        => (RoutesBack /\ DOMAIN act = Sends)'
  BY NextRoutes, ActsOn
<1>3. RuntimeInv /\ RoutesBack /\ DOMAIN act = Sends /\ [Next]_vars =>
        [\A s \in Sends :
           act[s] = "none" /\ act'[s] = "returned" /\ message[s].type = "response"
             => LET x == message[s].reply
                IN promise[x] = "waiting" /\ result[x] = "none" /\ Running(caller[x])
                     /\ SoleOwner(caller[x])
                   => promise'[x] = "answered"]_vars
  <2> DEFINE x(s) == message[s].reply
  <2> SUFFICES ASSUME RuntimeInv, RoutesBack, DOMAIN act = Sends, Next,
                      NEW s \in Sends, act[s] = "none", act'[s] = "returned",
                      message[s].type = "response", promise[x(s)] = "waiting",
                      result[x(s)] = "none", Running(caller[x(s)]), SoleOwner(caller[x(s)])
               PROVE  promise'[x(s)] = "answered"
    OBVIOUS
  <2>1. PICK a \in Agents : Deliver(s, a)
    BY ActsOn
  <2> DEFINE r == agents[a].handler
  <2>2. a \in Bus!Registered /\ HandleIncoming(r, s)
    BY <2>1 DEF Deliver, actVars
  <2>3. a \in rest[s]
    BY <2>1 DEF Deliver, Bus!DeliverTo, Bus!Least
  <2>4. x(s) \in Sends /\ message[x(s)].from = a /\ x(s) \in recorded
    BY <2>3 DEF RoutesBack
  <2>5. caller[x(s)] # None
    BY <2>4 DEF RuntimeInv, CallInv, CallsOnly
  <2>6. a = UriOf[caller[x(s)]]
    BY <2>4, <2>5 DEF RoutesBack
  <2>7. r \in Runtimes /\ UriOf[r] = a
    BY <2>2 DEF RuntimeInv, HandlersRunning
  <2>8. r = caller[x(s)]
    BY <2>6, <2>7 DEF SoleOwner
  <2>9. x(s) \in pending[r]
    BY <2>4, <2>8 DEF RuntimeInv, CallInv, PromiseKept
  <2>10. promise' = [promise EXCEPT ![x(s)] = "answered"]
    BY <2>2, <2>9 DEF HandleIncoming, ResolvePending
  <2> QED BY <2>4, <2>10 DEF RuntimeInv, CallInv, CallTypes
<1> QED BY <1>1, <1>2, <1>3, AlwaysRuntimeInv, PTL DEF Spec, AnswerSettles

-------------------------------------------------------------------------------
(* Nobody waits in a circle.                                                 *)
\* How far each message is, what its handler does, and what it awaits: only the message whose
\* loop holds the event loop is being delivered, a message that is handled has a handler at
\* work or done, and a response or a sub-task is younger than what it is sent for.
StageInv ==
  /\ stage \in [Sends -> {"new", "refused", "unroutable", "delivering", "handling", "ok", "failed"}]
  /\ act \in [Sends -> {"none", "running", "responding", "returned", "rejected"}]
  /\ DOMAIN reply = Sends /\ DOMAIN parent = Sends
  /\ \A s \in Sends :
       /\ stage[s] = "new" <=> s > sent
       /\ stage[s] = "new" => act[s] = "none"
       /\ stage[s] = "delivering" <=> active = s
       /\ stage[s] = "handling" => act[s] \in {"running", "responding", "returned"}
       /\ act[s] = "responding" => reply[s] \in Sends /\ s < reply[s] /\ reply[s] <= sent
       /\ parent[s] # None => parent[s] < s /\ caller[s] # None

\* What bus.send() does to the stages.
LEMMA SendStage ==
  ASSUME CallInv, StageInv, NEW m, Bus!Send(m)
  PROVE  /\ sent' = sent + 1 /\ sent + 1 \in Sends /\ sent \in Nat
         /\ stage[sent + 1] = "new" /\ act[sent + 1] = "none"
         /\ \A s \in Sends : stage[s] # "delivering"
         /\ \/ /\ \E st \in {"refused", "unroutable"} : stage' = [stage EXCEPT ![sent + 1] = st]
               /\ active' = active
            \/ /\ stage' = [stage EXCEPT ![sent + 1] = "delivering"]
               /\ active' = sent + 1
<1>1. sent' = sent + 1 /\ sent + 1 \in Sends /\ sent \in Nat
  BY SendEffect DEF CallInv, CallTypes
<1>2. stage[sent + 1] = "new" /\ act[sent + 1] = "none"
  BY <1>1 DEF StageInv
<1>3. \A s \in Sends : stage[s] # "delivering"
  <2>1. active = None
    BY DEF Bus!Send, Bus!SendRefused, Bus!SendUnroutable, Bus!SendRouted, Bus!Issue, Bus!Idle
  <2> QED BY <2>1, RuntimeConstants DEF StageInv, Sends
<1>4. \/ /\ \E st \in {"refused", "unroutable"} : stage' = [stage EXCEPT ![sent + 1] = st]
         /\ active' = active
      \/ /\ stage' = [stage EXCEPT ![sent + 1] = "delivering"]
         /\ active' = sent + 1
  BY DEF Bus!Send, Bus!SendRefused, Bus!SendUnroutable, Bus!SendRouted, Bus!Issue
<1> QED BY <1>1, <1>2, <1>3, <1>4

\* A message that is sent is younger than all before it, and so than what it is sent for.
LEMMA SendKeepsStage ==
  ASSUME CallInv, StageInv, NEW m, Bus!Send(m),
         \/ UNCHANGED <<act, reply>>
         \/ \E s \in Sends : /\ act[s] = "running"
                             /\ act' = [act EXCEPT ![s] = "responding"]
                             /\ reply' = [reply EXCEPT ![s] = sent + 1],
         \/ UNCHANGED <<parent, caller>>
         \/ /\ \E outer \in Sends \cup {None} :
                 /\ outer # None => act[outer] = "running"
                 /\ parent' = [parent EXCEPT ![sent + 1] = outer]
            /\ \E r \in Runtimes : caller' = [caller EXCEPT ![sent + 1] = r]
  PROVE  StageInv'
<1> DEFINE n == sent + 1
<1>1. /\ sent' = n /\ n \in Sends /\ sent \in Nat /\ n > sent
      /\ stage[n] = "new" /\ act[n] = "none" /\ \A s \in Sends : stage[s] # "delivering"
  BY SendStage
<1>2. Sends \subseteq Nat /\ None \notin Sends /\ None \notin Runtimes
  BY RuntimeConstants DEF Sends
<1>3. \A s \in Sends : s # n => (s > n <=> s > sent) /\ (s <= sent => s < n)
  BY <1>1, <1>2
<1>4. \A s \in Sends : act[s] # "none" => s <= sent /\ s # n
  BY <1>1, <1>2 DEF StageInv
<1>5. /\ stage' \in [Sends -> {"new", "refused", "unroutable", "delivering", "handling", "ok", "failed"}]
      /\ \A s \in Sends : s # n => stage'[s] = stage[s]
      /\ stage'[n] \in {"refused", "unroutable", "delivering"}
      /\ \A s \in Sends : stage'[s] = "delivering" <=> active' = s
  <2>1. CASE /\ stage' = [stage EXCEPT ![n] = "delivering"]
             /\ active' = n
    BY <1>1, <2>1 DEF StageInv
  <2>2. CASE /\ \E st \in {"refused", "unroutable"} : stage' = [stage EXCEPT ![n] = st]
             /\ active' = active
    BY <1>1, <2>2 DEF StageInv
  <2> QED BY <2>1, <2>2, SendStage
<1>6. /\ act' \in [Sends -> {"none", "running", "responding", "returned", "rejected"}]
      /\ DOMAIN reply' = Sends
      /\ \A s \in Sends : \/ act'[s] = act[s] /\ reply'[s] = reply[s]
                          \/ act[s] = "running" /\ act'[s] = "responding" /\ reply'[s] = n
  BY DEF StageInv
<1>7. /\ DOMAIN parent' = Sends
      /\ \A s \in Sends : parent'[s] # None => parent'[s] < s /\ caller'[s] # None
  <2>1. CASE UNCHANGED <<parent, caller>>
    BY <2>1 DEF StageInv
  <2>2. ASSUME NEW outer \in Sends \cup {None}, outer # None => act[outer] = "running",
               parent' = [parent EXCEPT ![n] = outer],
               NEW r \in Runtimes, caller' = [caller EXCEPT ![n] = r]
        PROVE  /\ DOMAIN parent' = Sends
               /\ \A s \in Sends : parent'[s] # None => parent'[s] < s /\ caller'[s] # None
    <3>1. outer # None => outer < n
      BY <1>3, <1>4, <2>2
    <3>2. DOMAIN caller = Sends
      BY DEF CallInv, CallTypes
    <3> QED BY <1>1, <1>2, <2>2, <3>1, <3>2 DEF StageInv
  <2> QED BY <2>1, <2>2
<1>8. ASSUME NEW s \in Sends
      PROVE  /\ stage'[s] = "new" <=> s > sent'
             /\ stage'[s] = "new" => act'[s] = "none"
             /\ stage'[s] = "handling" => act'[s] \in {"running", "responding", "returned"}
             /\ act'[s] = "responding" => reply'[s] \in Sends /\ s < reply'[s] /\ reply'[s] <= sent'
  <2>1. CASE s = n
    <3>1. act'[s] = "none" /\ stage'[s] # "new" /\ stage'[s] # "handling"
      BY <1>1, <1>5, <1>6, <2>1
    <3>2. ~(s > sent')
      BY <1>1, <2>1
    <3> QED BY <3>1, <3>2
  <2>2. CASE s # n
    <3>1. stage'[s] = stage[s] /\ (stage[s] = "new" <=> s > sent) /\ (s > n <=> s > sent)
      BY <1>3, <1>5, <2>2 DEF StageInv
    <3>2. CASE act'[s] = act[s] /\ reply'[s] = reply[s]
      <4>1. act[s] = "responding" => reply[s] \in Sends /\ s < reply[s] /\ reply[s] <= n
        <5> SUFFICES ASSUME act[s] = "responding"
                     PROVE  reply[s] \in Sends /\ s < reply[s] /\ reply[s] <= n
          OBVIOUS
        <5>1. reply[s] \in Sends /\ s < reply[s] /\ reply[s] <= sent
          BY DEF StageInv
        <5>2. \A y \in Nat : y <= sent => y <= n
          BY <1>1
        <5> QED BY <1>2, <5>1, <5>2
      <4>2. /\ stage[s] = "new" => act[s] = "none"
            /\ stage[s] = "handling" => act[s] \in {"running", "responding", "returned"}
        BY DEF StageInv
      <4> HIDE DEF n
      <4> QED BY <1>1, <3>1, <3>2, <4>1, <4>2
    <3>3. CASE act[s] = "running" /\ act'[s] = "responding" /\ reply'[s] = n
      <4>1. s <= sent /\ s < n
        BY <1>3, <1>4, <3>3
      <4>2. stage[s] # "new"
        BY <3>1, <3>3 DEF StageInv
      <4> QED BY <1>1, <1>2, <3>1, <3>3, <4>1, <4>2
    <3> QED BY <1>6, <3>2, <3>3
  <2> QED BY <2>1, <2>2
<1> QED BY <1>5, <1>6, <1>7, <1>8 DEF StageInv

\* The loop of a delivery is left for a handler or for good, and entered again.
LEMMA LoopKeepsStage ==
  ASSUME StageInv, NEW s \in Sends, stage[s] \in {"delivering", "handling"},
         NEW st \in {"delivering", "handling", "ok", "failed"},
         stage' = [stage EXCEPT ![s] = st],
         IF st = "delivering" THEN active' = s /\ (active = None \/ active = s)
                              ELSE active' = None /\ active = s,
         \/ act' = act /\ st # "handling"
         \/ \E e \in {"running", "returned", "rejected"} :
              act' = [act EXCEPT ![s] = e] /\ (st = "handling" => e # "rejected"),
         UNCHANGED <<sent, reply, parent, caller>>
  PROVE  StageInv'
<1>1. None \notin Sends
  BY RuntimeConstants DEF Sends
<1>2. stage[s] # "new" /\ st # "new"
  OBVIOUS
<1>3. \A x \in Sends : stage'[x] = "delivering" <=> active' = x
  BY <1>1 DEF StageInv
<1>4. \A x \in Sends : x # s => stage'[x] = stage[x] /\ act'[x] = act[x]
  BY DEF StageInv
<1>5. stage'[s] = st /\ (st = "handling" => act'[s] \in {"running", "returned"})
      /\ (act'[s] = "responding" => act[s] = "responding")
  BY DEF StageInv
<1>6. /\ stage' \in [Sends -> {"new", "refused", "unroutable", "delivering", "handling", "ok", "failed"}]
      /\ act' \in [Sends -> {"none", "running", "responding", "returned", "rejected"}]
  BY DEF StageInv
<1>7. ASSUME NEW x \in Sends
      PROVE  /\ stage'[x] = "new" <=> x > sent
             /\ stage'[x] = "new" => act'[x] = "none"
             /\ stage'[x] = "handling" => act'[x] \in {"running", "responding", "returned"}
             /\ act'[x] = "responding" => act[x] = "responding"
  BY <1>2, <1>4, <1>5 DEF StageInv
<1> QED BY <1>3, <1>6, <1>7 DEF StageInv

LEMMA NextStage ==
  ASSUME RuntimeInv, StageInv, [Next]_vars
  PROVE  StageInv'
<1> CallInv /\ HandlersRunning
  BY DEF RuntimeInv
<1>1. ASSUME NEW c \in TaskCalls, NEW outer \in Sends \cup {None}, SendTask(c, outer)
      PROVE  StageInv'
  <2>1. /\ Bus!Send(Task(c)) /\ UNCHANGED <<act, reply>>
        /\ outer # None => act[outer] = "running"
        /\ parent' = [parent EXCEPT ![sent + 1] = outer]
        /\ caller' = [caller EXCEPT ![sent + 1] = c.runtime]
    BY <1>1 DEF SendTask, actVars
  <2>2. c.runtime \in Runtimes
    BY RuntimeConstants
  <2> QED BY <2>1, <2>2, SendKeepsStage
<1>2. ASSUME NEW r \in Runtimes, NEW s \in Sends, Respond(r, s) PROVE StageInv'
  BY <1>2, SendKeepsStage DEF Respond, callVars, actVars
<1>3. ASSUME NEW s \in Sends, HandlerResponds(s) PROVE StageInv'
  BY <1>3, SendKeepsStage DEF HandlerResponds, Settled, callVars
<1>4. ASSUME NEW s \in Sends, NEW a \in Agents, Deliver(s, a) PROVE StageInv'
  <2>1. Bus!DeliverTo(s, a) /\ active = s /\ stage[s] = "delivering"
    BY <1>4 DEF Deliver, Bus!DeliverTo, StageInv
  <2>2. CASE a \notin Bus!Registered
    BY <1>4, <2>1, <2>2 DEF Deliver, Bus!DeliverTo, callVars, actVars, StageInv
  <2>3. CASE a \in Bus!Registered
    <3>1. agents[a].handler \in Runtimes /\ agents[a].handler # None
      BY <2>3, RuntimeConstants DEF HandlersRunning
    <3>2. stage' = [stage EXCEPT ![s] = "handling"] /\ active' = None /\ sent' = sent
      BY <2>1, <2>3, <3>1 DEF Bus!DeliverTo
    <3>3. /\ \E e \in {"running", "returned"} : act' = [act EXCEPT ![s] = e]
          /\ UNCHANGED <<reply, parent, caller>>
      BY <1>4, <2>3 DEF Deliver, HandleIncoming
    <3> QED BY <2>1, <3>2, <3>3, LoopKeepsStage
  <2> QED BY <2>2, <2>3
<1>5. ASSUME NEW s \in Sends, HandlerRejects(s) \/ HandlerReturns(s) PROVE StageInv'
  <2>1. /\ stage[s] = "handling" /\ stage' = [stage EXCEPT ![s] = "delivering"]
        /\ active = None /\ active' = s /\ sent' = sent
    BY <1>5 DEF HandlerRejects, HandlerReturns, Bus!HandlerEnd, Bus!Idle
  <2>2. /\ \E e \in {"rejected", "returned"} : act' = [act EXCEPT ![s] = e]
        /\ UNCHANGED <<reply, parent, caller>>
    BY <1>5 DEF HandlerRejects, HandlerReturns, callVars
  <2> QED BY <2>1, <2>2, LoopKeepsStage
<1>6. ASSUME NEW s \in Sends, Conclude(s) PROVE StageInv'
  <2>1. /\ active = s /\ stage[s] = "delivering" /\ active' = None /\ sent' = sent
        /\ \E st \in {"ok", "failed"} : stage' = [stage EXCEPT ![s] = st]
        /\ UNCHANGED <<act, reply, parent, caller>>
    BY <1>6 DEF Conclude, Bus!Conclude, StageInv, callVars, actVars
  <2> QED BY <2>1, LoopKeepsStage
<1>7. ASSUME \/ UNCHANGED vars
             \/ \E r \in Runtimes : Start(r) \/ Stop(r) \/ ReceiveTask(r)
             \/ \E s \in Sends : ResponseTimeout(s) \/ SendTaskFails(s) \/ SendTaskReturns(s)
             \/ \E w \in 1..MaxWaits : ReceiveTimeout(w)
             \/ CloseBus
      PROVE  StageInv'
  <2>1. UNCHANGED <<sent, stage, active>>
    <3>1. ASSUME NEW r \in Runtimes, Start(r) \/ Stop(r) \/ ReceiveTask(r)
          PROVE  UNCHANGED <<sent, stage, active>>
      BY <3>1 DEF Start, Stop, ReceiveTask, busVars, Bus!Register, Bus!Unregister,
                  Bus!WaitForMessage, Bus!sendVars
    <3>2. ASSUME NEW s \in Sends, ResponseTimeout(s) \/ SendTaskFails(s) \/ SendTaskReturns(s)
          PROVE  UNCHANGED <<sent, stage, active>>
      BY <3>2 DEF ResponseTimeout, SendTaskFails, SendTaskReturns, busVars
    <3>3. ASSUME UNCHANGED vars \/ CloseBus \/ \E w \in 1..MaxWaits : ReceiveTimeout(w)
          PROVE  UNCHANGED <<sent, stage, active>>
      BY <3>3 DEF vars, busVars, ReceiveTimeout, CloseBus, Bus!WaitTimeout, Bus!SetOpen,
                  Bus!sendVars
    <3> QED BY <1>7, <3>1, <3>2, <3>3
  <2>2. UNCHANGED <<act, reply, parent, caller>>
    BY <1>7 DEF vars, Start, Stop, ReceiveTask, ResponseTimeout, SendTaskFails, SendTaskReturns,
                ReceiveTimeout, CloseBus, callVars, actVars
  <2> QED BY <2>1, <2>2 DEF StageInv
<1> QED BY <1>1, <1>2, <1>3, <1>4, <1>5, <1>6, <1>7 DEF Next

\* Whoever cannot go on awaits a message sent later, in every reachable state and for any
\* runtimes and calls: there are finitely many messages, so that every chain of waits ends,
\* and none returns to where it began.
THEOREM NobodyWaitsInACircle == Spec => []NoCircularWait
<1>1. Init => StageInv
  BY RuntimeConstants DEF Init, Bus!Init, Bus!Sends, Sends, StageInv
<1>2. RuntimeInv /\ StageInv /\ [Next]_vars => StageInv'
  BY NextStage
<1>3. RuntimeInv /\ StageInv => NoCircularWait
  <2> SUFFICES ASSUME CallInv, StageInv, active = None, NEW s \in Sends,
                      stage[s] = "handling" \/ (Open(s) /\ Running(caller[s]))
               PROVE  GoesOn(s) \/ \E x \in Awaits(s) : s < x
    BY DEF RuntimeInv, NoCircularWait, Bus!Idle
  <2>1. None \notin Sends /\ \A x \in Sends : stage[x] # "delivering"
    BY RuntimeConstants DEF StageInv, Sends
  <2>2. \A x \in Sends : stage[x] # "new" => stage[x] = "handling" \/ Returned(x)
    BY <2>1 DEF StageInv, Returned
  <2>3. CASE stage[s] = "handling" /\ act[s] = "running"
    <3>1. CASE Settled(s)
      BY <2>3, <3>1 DEF GoesOn
    <3>2. ASSUME NEW x \in Sends, parent[x] = s, result[x] = "none"
          PROVE  x \in Awaits(s) /\ s < x
      BY <2>1, <3>2 DEF StageInv, Awaits, Open
    <3> QED BY <2>3, <3>1, <3>2 DEF Settled
  <2>4. CASE stage[s] = "handling" /\ act[s] = "responding"
    <3>1. reply[s] \in Sends /\ s < reply[s] /\ stage[reply[s]] # "new"
      BY <2>4 DEF StageInv, CallInv, CallTypes, Sends
    <3> QED BY <2>2, <2>4, <3>1 DEF GoesOn, Awaits
  <2>5. CASE stage[s] = "handling" /\ act[s] = "returned"
    BY <2>5 DEF GoesOn
  <2>6. CASE stage[s] # "handling" /\ Open(s) /\ Running(caller[s])
    <3>1. stage[s] # "new"
      BY <2>6 DEF StageInv, CallInv, Fresh, Open
    <3>2. Returned(s)
      BY <2>2, <2>6, <3>1
    <3>3. promise[s] = "waiting" => s \in pending[caller[s]]
      BY <2>6 DEF CallInv, PromiseKept, Open
    <3> QED BY <2>6, <3>2, <3>3 DEF GoesOn
  <2> QED BY <2>3, <2>4, <2>5, <2>6 DEF StageInv
<1> QED
  BY <1>1, <1>2, <1>3, AlwaysRuntimeInv, PTL DEF Spec

-------------------------------------------------------------------------------
(* sendTask() implements RequestReply.                                      *)

Calling == [s \in Sends |-> CallOf(s)]

\* A step that touches no call and no message is a stutter for the caller.
LEMMA StutterForCaller ==
  ASSUME UNCHANGED <<message, caller, result>>,
         \A s \in Sends : (promise'[s] = "none") <=> (promise[s] = "none")
  PROVE  UNCHANGED <<Calling, Replied>>
BY DEF Calling, CallOf, Replied

\* One response more: the abstract Reply, or a stutter when the bus refused it.
LEMMA ReplyForCaller ==
  ASSUME CallInv, NEW r, NEW x \in Sends, Bus!Send(Response(r, x)), UNCHANGED callVars
  PROVE  Calling' = Calling /\ Replied' \in {Replied, Replied \cup {x}}
<1>1. /\ sent + 1 \in Sends /\ sent \in Nat
      /\ message' = message \/ message' = [message EXCEPT ![sent + 1] = Response(r, x)]
  BY SendEffect DEF CallInv, CallTypes
<1>2. message[sent + 1].type = "request" /\ DOMAIN message = Sends
  BY <1>1 DEF CallInv, CallTypes, Fresh
<1>3. Calling' = Calling
  BY DEF Calling, CallOf, callVars
<1>4. CASE message' = message
  BY <1>3, <1>4 DEF Replied
<1>5. CASE message' = [message EXCEPT ![sent + 1] = Response(r, x)]
  <2>1. message'[sent + 1].type = "response" /\ message'[sent + 1].reply = x
    BY <1>1, <1>2, <1>5 DEF Response
  <2>2. \A y \in Sends : y # sent + 1 => message'[y] = message[y]
    BY <1>2, <1>5
  <2> QED
    BY <1>1, <1>2, <1>3, <2>1, <2>2 DEF Replied
<1> QED
  BY <1>1, <1>4, <1>5

LEMMA IssueForCaller ==
  ASSUME CallInv, NEW c \in TaskCalls, NEW outer, SendTask(c, outer)
  PROVE  /\ sent + 1 \in Sends /\ c.wait \in BOOLEAN /\ Replied' = Replied
         /\ Calling[sent + 1] = "idle"
         /\ Calling' = [Calling EXCEPT ![sent + 1] = IF c.wait THEN "waiting" ELSE "sending"]
<1>0. PICK n \in Sends : n = sent + 1
  BY SendEffect DEF SendTask, CallInv
<1>1. /\ c.runtime \in Runtimes /\ c.wait \in BOOLEAN /\ Task(c).type = "request"
      /\ c.runtime # None
  BY RuntimeConstants DEF Task
<1>2. /\ sent \in Nat
      /\ message' = message \/ message' = [message EXCEPT ![n] = Task(c)]
  BY <1>0, SendEffect DEF CallInv, CallTypes, SendTask
<1>3. /\ caller' = [caller EXCEPT ![n] = c.runtime] /\ result' = result
      /\ promise' = [promise EXCEPT ![n] = IF c.wait THEN "waiting" ELSE @]
  BY <1>0 DEF SendTask
<1>4. caller[n] = None /\ promise[n] = "none" /\ result[n] = "none" /\ message[n].type = "request"
  BY <1>0, <1>2 DEF CallInv, Fresh
<1>5. Replied' = Replied
  BY <1>1, <1>2, <1>4 DEF CallInv, CallTypes, Replied
<1>6. CallOf(n) = "idle" /\ CallOf(n)' = IF c.wait THEN "waiting" ELSE "sending"
  <2>1. caller'[n] = c.runtime /\ result'[n] = "none"
        /\ promise'[n] = IF c.wait THEN "waiting" ELSE "none"
    BY <1>2, <1>3, <1>4 DEF CallInv, CallTypes
  <2>2. CASE c.wait
    BY <1>1, <1>4, <2>1, <2>2 DEF CallOf
  <2>3. CASE ~c.wait
    BY <1>1, <1>4, <2>1, <2>3 DEF CallOf
  <2> QED
    BY <1>1, <2>2, <2>3
<1>7. \A s \in Sends : s # n => CallOf(s)' = CallOf(s)
  BY <1>3 DEF CallOf, CallInv, CallTypes
<1> DEFINE end == IF c.wait THEN "waiting" ELSE "sending"
<1>8. CallOf(n)' = end
  BY <1>6
<1> HIDE DEF end
<1>9. Calling' = [Calling EXCEPT ![n] = end]
  BY <1>2, <1>7, <1>8 DEF Calling
<1>10. Calling[n] = "idle"
  BY <1>2, <1>6 DEF Calling
<1> QED
  BY <1>0, <1>1, <1>5, <1>9, <1>10 DEF end

LEMMA EndForCaller ==
  ASSUME CallInv, NEW s \in Sends, NEW how \in {"answered", "timeout", "failed", "sent"},
         result' = [result EXCEPT ![s] = how], UNCHANGED <<message, caller, promise>>,
         caller[s] # None, result[s] = "none"
  PROVE  /\ Replied' = Replied /\ Calling' = [Calling EXCEPT ![s] = how]
         /\ Calling[s] = IF promise[s] = "none" THEN "sending" ELSE "waiting"
<1>1. CallOf(s)' = how /\ CallOf(s) = IF promise[s] = "none" THEN "sending" ELSE "waiting"
  BY DEF CallOf, CallInv, CallTypes
<1>2. \A x \in Sends : x # s => CallOf(x)' = CallOf(x)
  BY DEF CallOf, CallInv, CallTypes
<1> QED
  BY <1>1, <1>2 DEF Calling, Replied

\* sendTask(), on any bus with any other agents, implements RequestReply: every call ends at
\* most once, is answered only after a reply, and ends the way the caller asked for.
THEOREM KeepsPromiseProved == Spec => KeepsPromise
<1>1. Init => Promise!Init
  BY DEF Init, Bus!Init, Bus!NoMessage, Bus!Sends, Sends, Promise!Init, CallOf, Replied
<1>2. RuntimeInv /\ [Next]_vars => [Promise!Next]_(Promise!vars)
  <2> SUFFICES ASSUME CallInv, HandlersRunning, [Next]_vars
               PROVE  Promise!Next \/ UNCHANGED <<Calling, Replied>>
    BY DEF RuntimeInv, Promise!vars, Calling
  <2>1. ASSUME NEW c \in TaskCalls, NEW outer \in Sends \cup {None}, SendTask(c, outer)
        PROVE  Promise!Next
    <3>1. Promise!Issue(sent + 1, c.wait)
      BY <2>1, IssueForCaller DEF Promise!Issue, Calling
    <3> QED
      BY <2>1, <3>1, IssueForCaller DEF Promise!Next
  <2>2. ASSUME NEW s \in Sends, HandlerResponds(s) \/ \E r \in Runtimes : Respond(r, s)
        PROVE  Promise!Next \/ UNCHANGED <<Calling, Replied>>
    <3>1. Calling' = Calling /\ Replied' \in {Replied, Replied \cup {s}}
      BY <2>2, ReplyForCaller DEF HandlerResponds, Respond
    <3> QED
      BY <3>1 DEF Promise!Next, Promise!Reply, Calling
  <2>3. ASSUME NEW s \in Sends, SendTaskFails(s)
        PROVE  Promise!Next
    <3>1. /\ Replied' = Replied /\ Calling' = [Calling EXCEPT ![s] = "failed"]
          /\ Calling[s] \in {"sending", "waiting"}
      BY <2>3, NoSendEffect, EndForCaller DEF SendTaskFails
    <3>2. Promise!End(s, "failed")
      BY <3>1 DEF Promise!End, Calling
    <3> QED
      BY <3>2 DEF Promise!Next, Promise!Ends
  <2>4. ASSUME NEW s \in Sends, SendTaskReturns(s)
        PROVE  Promise!Next
    <3>1. PICK how \in {"answered", "timeout", "sent"} :
            /\ result' = [result EXCEPT ![s] = how]
            /\ how = IF promise[s] = "answered" THEN "answered"
                     ELSE IF promise[s] = "expired" THEN "timeout" ELSE "sent"
      BY <2>4 DEF SendTaskReturns
    <3>2. /\ Replied' = Replied /\ Calling' = [Calling EXCEPT ![s] = how]
          /\ Calling[s] = IF promise[s] = "none" THEN "sending" ELSE "waiting"
      BY <2>4, <3>1, NoSendEffect, EndForCaller DEF SendTaskReturns
    <3>3. promise[s] \in {"none", "answered", "expired"}
          /\ (promise[s] = "answered" => s \in Replied)
      BY <2>4 DEF SendTaskReturns, CallInv, CallTypes, CallsOnly
    <3>4. Promise!End(s, how)
      BY <3>1, <3>2, <3>3 DEF Promise!End, Calling
    <3> QED
      BY <3>4 DEF Promise!Next, Promise!Ends
  <2>5. ASSUME NEW s \in Sends, ResponseTimeout(s)
        PROVE  UNCHANGED <<Calling, Replied>>
    <3>1. UNCHANGED <<message, caller, result>> /\ promise' = [promise EXCEPT ![s] = "expired"]
          /\ promise[s] = "waiting"
      BY <2>5, NoSendEffect DEF ResponseTimeout, CallInv, PendingOwned
    <3> QED
      BY <3>1, StutterForCaller DEF CallInv, CallTypes
  <2>6. ASSUME NEW s \in Sends, NEW a \in Agents, Deliver(s, a)
        PROVE  UNCHANGED <<Calling, Replied>>
    <3>1. UNCHANGED <<message, caller, result>>
      BY <2>6, NoSendEffect DEF Deliver, HandleIncoming, callVars
    <3>2. \A x \in Sends : (promise'[x] = "none") <=> (promise[x] = "none")
      <4>1. CASE UNCHANGED promise
        BY <4>1
      <4>2. ASSUME a \in Bus!Registered, ResolvePending(agents[a].handler, s),
                   message[s].reply \in pending[agents[a].handler]
            PROVE  \A x \in Sends : (promise'[x] = "none") <=> (promise[x] = "none")
        <5>1. agents[a].handler \in Runtimes
          BY <4>2 DEF HandlersRunning
        <5>2. promise[message[s].reply] = "waiting"
          BY <4>2, <5>1 DEF CallInv, PendingOwned
        <5>3. promise' = [promise EXCEPT ![message[s].reply] = "answered"]
          BY <4>2 DEF ResolvePending
        <5> QED
          BY <5>2, <5>3 DEF CallInv, CallTypes
      <4> QED
        BY <2>6, <4>1, <4>2 DEF Deliver, HandleIncoming, ResolvePending, callVars
    <3> QED
      BY <3>1, <3>2, StutterForCaller
  <2>7. ASSUME \/ \E s \in Sends : HandlerRejects(s) \/ HandlerReturns(s) \/ Conclude(s)
               \/ \E r \in Runtimes : Start(r) \/ Stop(r) \/ ReceiveTask(r)
               \/ \E w \in 1..MaxWaits : ReceiveTimeout(w)
               \/ CloseBus
        PROVE  UNCHANGED <<Calling, Replied>>
    <3>1. UNCHANGED <<promise, caller, result>>
      BY <2>7 DEF HandlerRejects, HandlerReturns, Conclude, ReceiveTask, ReceiveTimeout, CloseBus,
                  Start, Stop, callVars
    <3>2. UNCHANGED message
      BY <2>7, NoSendEffect DEF HandlerRejects, HandlerReturns, Conclude, ReceiveTask,
                                ReceiveTimeout, CloseBus, Start, Stop
    <3> QED
      BY <3>1, <3>2, StutterForCaller
  <2>8. CASE UNCHANGED vars
    BY <2>8, StutterForCaller DEF vars, busVars, callVars
  <2> QED
    BY <2>1, <2>2, <2>3, <2>4, <2>5, <2>6, <2>7, <2>8 DEF Next
<1> QED
  BY <1>1, <1>2, AlwaysRuntimeInv, PTL DEF Spec, KeepsPromise, Promise!Spec

-------------------------------------------------------------------------------
(* The audit trail of a failover.                                            *)
Shape ==
  /\ IsSeq(task) /\ IsSeq(attempts)
  /\ \A k \in DOMAIN task : "state" \in DOMAIN task[k]
  /\ phase = "idle" => task = <<>> /\ attempts = <<>>

\* What has settled the current attempt is what its agent answered, or a refusal of the bus,
\* or a transport error with which the agent has nothing to do.
SettledTrue ==
  phase = "trying" =>
    /\ task # <<>>
    /\ settledBy \in Results \cup TransportErrors \cup {Undefined}
    /\ settledBy \in Results => Current.state = settledBy
    /\ settledBy \in Refusals <=> Current.state = "refused"

\* A task error has the code that a handler fails with.
CodesTrue ==
  \A k \in DOMAIN attempts : attempts[k].outcome = "task_error" => attempts[k].errorCode \in Results

AuditInv == Shape /\ SettledTrue /\ CodesTrue /\ AuditTrue

-------------------------------------------------------------------------------
\* The names of results, errors and states are different.
LEMMA Names ==
  /\ Undefined \notin Results \cup TransportErrors
  /\ Results \cap TransportErrors = {}
  /\ "held" \notin Results /\ "orphaned" \notin Results /\ "refused" \notin Results
  /\ Refusals \subseteq TransportErrors /\ "done" \notin Refusals
  /\ "RESPONSE_TIMEOUT" \in TransportErrors \ Refusals
  /\ "DELIVERY_FAILED" \in TransportErrors \ Refusals
  BY AgentsAndTasks DEF Results, TransportErrors, Transient, Refusals

-------------------------------------------------------------------------------
\* A new attempt is made, and what its routing settled is true, or none is.
Moved ==
  /\ IsSeq(task)' /\ (\A k \in DOMAIN task' : "state" \in DOMAIN task'[k])
  /\ SettledTrue'
  /\ phase' # "idle"
  /\ \/ phase' # "trying" /\ UNCHANGED task
     \/ /\ phase' = "trying" /\ Len(task') = Len(task) + 1
        /\ \A k \in DOMAIN task : task'[k] = task[k]

LEMMA SendMoves ==
  ASSUME Shape, NEW p, SendSubTask(p)
  PROVE  Moved
<1>1. CASE ~callerRunning
  BY <1>1 DEF SendSubTask, Moved, Shape, SettledTrue
<1>2. CASE callerRunning
  <2>1. PICK e, code :
          /\ phase' = "trying" /\ task' = Append(task, e) /\ settledBy' = code
          /\ "state" \in DOMAIN e
          /\ e.state = IF code = Undefined THEN "held" ELSE "refused"
          /\ code \in Refusals \cup {Undefined}
    BY <1>2 DEF SendSubTask, Refusals
  <2>2. Len(task) \in Nat /\ DOMAIN task = 1..Len(task) /\ IsSeq(task)
    BY SeqFacts DEF Shape
  <2>3. /\ IsSeq(task)' /\ task' # <<>> /\ Len(task') = Len(task) + 1
        /\ task'[Len(task) + 1] = e /\ \A i \in 1..Len(task) : task'[i] = task[i]
    BY <2>1, <2>2, AppendFacts
  <2>4. DOMAIN task' = 1..(Len(task) + 1)
    BY <2>3, SeqFacts
  <2>5. \A k \in DOMAIN task' : "state" \in DOMAIN task'[k]
    BY <2>1, <2>2, <2>3, <2>4 DEF Shape
  <2>6. Current' = e
    BY <2>3 DEF Current
  <2>7. SettledTrue'
    BY <2>1, <2>3, <2>6, Names DEF SettledTrue
  <2> QED BY <2>1, <2>2, <2>3, <2>5, <2>7 DEF Moved
<1> QED BY <1>1, <1>2 DEF SendSubTask

LEMMA TryMoves ==
  ASSUME Shape, NEW r, NEW p, Try(r, p)
  PROVE  Moved
<1>1. CASE Exhausted
  BY <1>1 DEF Exhausted, Moved, Shape, SettledTrue
<1> QED BY <1>1, SendMoves DEF Try

LEMMA TryNextMoves ==
  ASSUME Shape, NEW r, NEW p, NEW failed, TryNext(r, p, failed)
  PROVE  Moved
<1>1. CASE Exhausted
  BY <1>1 DEF Exhausted, Moved, Shape, SettledTrue
<1> QED BY <1>1, TryMoves DEF TryNext

-------------------------------------------------------------------------------
\* A call begins.
LEMMA BeginInv ==
  ASSUME AuditInv, phase = "idle", Moved, UNCHANGED attempts
  PROVE  AuditInv'
<1>1. task = <<>> /\ attempts = <<>> /\ Len(task) = 0 /\ Len(attempts) = 0
  BY DEF AuditInv, Shape
<1>2. AuditTrue'
  BY <1>1 DEF AuditTrue, Moved
<1>3. Shape'
  BY <1>1 DEF AuditInv, Shape, Moved
<1> QED BY <1>1, <1>2, <1>3 DEF AuditInv, Moved, CodesTrue

\* An entry is true, whatever is done after it.
LEMMA LoggedTrue ==
  ASSUME AuditInv, AttemptReturned, request.policy # Undefined, Moved, UNCHANGED request,
         \/ Code = "done" /\ attempts' = Logged("success", Undefined)
         \/ Code # "done" /\ attempts' = Logged(ClassifyError(Code), Code)
  PROVE  AuditInv'
<1> DEFINE n == Len(attempts)
           entry == attempts'[n + 1]
<1>1. /\ IsSeq(task) /\ Len(task) \in Nat /\ DOMAIN task = 1..Len(task)
      /\ IsSeq(attempts) /\ n \in Nat /\ DOMAIN attempts = 1..n
  BY SeqFacts DEF AuditInv, Shape
<1>2. PICK outcome, code :
        /\ attempts' = Append(attempts, [agentId |-> Current.to,
                                         capability |-> request.chain[at.capability],
                                         outcome |-> outcome, errorCode |-> code])
        /\ \/ Code = "done" /\ outcome = "success" /\ code = Undefined
           \/ Code # "done" /\ outcome = ClassifyError(Code) /\ code = Code
  BY DEF Logged
<1>3. /\ IsSeq(attempts)' /\ Len(attempts') = n + 1 /\ DOMAIN attempts' = 1..(n + 1)
      /\ entry.agentId = Current.to /\ entry.outcome = outcome /\ entry.errorCode = code
      /\ \A k \in 1..n : attempts'[k] = attempts[k]
  <2>1. /\ IsSeq(attempts)' /\ Len(attempts') = n + 1
        /\ entry = [agentId |-> Current.to, capability |-> request.chain[at.capability],
                    outcome |-> outcome, errorCode |-> code]
        /\ \A k \in 1..n : attempts'[k] = attempts[k]
    BY <1>1, <1>2, AppendFacts
  <2>2. DOMAIN attempts' = 1..(n + 1)
    BY <2>1, SeqFacts
  <2> QED BY <2>1, <2>2
<1>4. Shape'
  BY <1>3 DEF Shape, Moved
<1>7. outcome = "task_error" => code \in Results
  <2>1. phase = "trying" /\ settledBy \in Results \cup TransportErrors \cup {Undefined}
    BY DEF AttemptReturned, AuditInv, SettledTrue
  <2> QED BY <1>2, <2>1 DEF ClassifyError, Code
<1>8. CodesTrue'
  <2> SUFFICES ASSUME NEW k \in DOMAIN attempts', attempts'[k].outcome = "task_error"
               PROVE  attempts'[k].errorCode \in Results
    BY DEF CodesTrue
  <2>1. CASE k = n + 1
    BY <1>3, <1>7, <2>1
  <2>2. CASE k # n + 1
    <3>1. k \in DOMAIN attempts /\ attempts'[k] = attempts[k]
      BY <1>1, <1>3, <2>2
    <3> QED BY <3>1 DEF AuditInv, CodesTrue
  <2> QED BY <2>1, <2>2
<1>5. CASE request = Undefined
  BY <1>4, <1>5, <1>8 DEF AuditTrue, AuditInv, Moved
<1>6. CASE request # Undefined
  <2>1. phase = "trying" /\ Len(task) = n + 1 /\ Current = task[n + 1]
    BY <1>1, <1>6 DEF AttemptReturned, AuditInv, AuditTrue, Current
  <2>2. /\ settledBy \in Results \cup TransportErrors \cup {Undefined}
        /\ settledBy \in Results => Current.state = settledBy
        /\ settledBy \in Refusals <=> Current.state = "refused"
        /\ settledBy # Undefined \/ ~request.wait
    BY <2>1 DEF AuditInv, SettledTrue, AttemptReturned
  <2>3. /\ request.wait /\ outcome = "success" => Current.state = "done"
        /\ outcome = "task_error" => Current.state = code
        /\ code \in Refusals <=> Current.state = "refused"
    <3>1. CASE Code = "done"
      <4>1. outcome = "success" /\ code = Undefined
        BY <1>2, <3>1
      <4>2. settledBy = Undefined \/ settledBy = "done"
        BY <3>1 DEF Code
      <4> QED BY <2>2, <4>1, <4>2, Names DEF Results
    <3>2. CASE Code # "done"
      <4>1. outcome = ClassifyError(settledBy) /\ code = settledBy /\ settledBy # Undefined
        BY <1>2, <3>2 DEF Code
      <4>2. outcome # "success" /\ (outcome = "task_error" => settledBy \in Results)
        BY <2>2, <4>1 DEF ClassifyError
      <4> QED BY <2>2, <4>1, <4>2
    <3> QED BY <3>1, <3>2
  <2>4. \A k \in 1..(n + 1) : task'[k] = task[k]
    BY <1>1, <2>1 DEF Moved
  <2>5. Len(task') = Len(attempts') + IF phase' = "trying" THEN 1 ELSE 0
    BY <1>1, <1>3, <2>1 DEF Moved
  <2>6. ASSUME NEW k \in DOMAIN attempts'
        PROVE  LET e == attempts'[k]
               IN /\ e.agentId = task'[k].to
                  /\ request.wait /\ e.outcome = "success" => task'[k].state = "done"
                  /\ e.outcome = "task_error" => task'[k].state = e.errorCode
                  /\ e.errorCode \in Refusals <=> task'[k].state = "refused"
    <3>1. CASE k = n + 1
      BY <1>3, <2>1, <2>3, <2>4, <3>1
    <3>2. CASE k \in 1..n
      <4>1. attempts'[k] = attempts[k] /\ task'[k] = task[k] /\ k \in DOMAIN attempts
        BY <1>1, <1>3, <2>4, <3>2
      <4> QED BY <1>6, <4>1 DEF AuditInv, AuditTrue
    <3> QED BY <1>1, <1>3, <3>1, <3>2
  <2>7. AuditTrue'
    BY <2>5, <2>6 DEF AuditTrue
  <2> QED BY SMTT(30), <1>4, <1>8, <2>7 DEF AuditInv, Moved
<1> QED BY <1>5, <1>6

-------------------------------------------------------------------------------
LEMMA SucceedInv == ASSUME AuditInv, Succeed PROVE AuditInv'
<1>1. Moved
  BY DEF Succeed, Moved, AuditInv, Shape, SettledTrue
<1> QED BY <1>1, LoggedTrue DEF Succeed

LEMMA RetryInv == ASSUME AuditInv, Retry PROVE AuditInv'
<1>1. CASE phase' = "backoff" /\ UNCHANGED <<at, task, settledBy>>
  <2>1. Moved
    BY <1>1 DEF Moved, AuditInv, Shape, SettledTrue
  <2> QED BY <2>1, LoggedTrue DEF Retry
<1>2. CASE Try(request, Again)
  <2>1. Moved
    BY <1>2, TryMoves DEF AuditInv
  <2> QED BY <2>1, LoggedTrue DEF Retry
<1> QED BY <1>1, <1>2 DEF Retry

LEMMA FailOverInv == ASSUME AuditInv, FailOver PROVE AuditInv'
<1>1. PICK failed : TryNext(request, at, failed)
  BY DEF FailOver
<1>2. Moved
  BY <1>1, TryNextMoves DEF AuditInv
<1> QED BY <1>2, LoggedTrue DEF FailOver

\* After a backoff there is no entry to write.
LEMMA WakeInv == ASSUME AuditInv, Wake PROVE AuditInv'
<1>1. Moved /\ phase = "backoff" /\ UNCHANGED <<request, attempts>>
  BY TryMoves DEF Wake, AuditInv
<1>2. Shape'
  BY <1>1 DEF Moved, AuditInv, Shape
<1>3. /\ Len(task) \in Nat /\ DOMAIN task = 1..Len(task)
      /\ Len(attempts) \in Nat /\ DOMAIN attempts = 1..Len(attempts)
  BY SeqFacts DEF AuditInv, Shape
<1>4. AuditTrue'
  <2> SUFFICES ASSUME request # Undefined, request.policy # Undefined
               PROVE  AuditTrue'
    BY <1>1 DEF AuditTrue
  <2>1. Len(task) = Len(attempts)
    <3>1. Len(task) = Len(attempts) + IF phase = "trying" THEN 1 ELSE 0
      BY DEF AuditInv, AuditTrue
    <3>2. phase # "trying"
      BY <1>1
    <3> QED BY <1>3, <3>1, <3>2
  <2>2. \A k \in DOMAIN attempts : task'[k] = task[k]
    BY <1>1, <1>3, <2>1 DEF Moved
  <2>3. Len(task') = Len(attempts) + IF phase' = "trying" THEN 1 ELSE 0
    BY <1>1, <1>3, <2>1 DEF Moved
  <2>4. ASSUME NEW k \in DOMAIN attempts
        PROVE  LET e == attempts[k]
               IN /\ e.agentId = task'[k].to
                  /\ request.wait /\ e.outcome = "success" => task'[k].state = "done"
                  /\ e.outcome = "task_error" => task'[k].state = e.errorCode
                  /\ e.errorCode \in Refusals <=> task'[k].state = "refused"
    BY <2>2 DEF AuditInv, AuditTrue
  <2> QED BY <1>1, <2>3, <2>4 DEF AuditTrue
<1>5. CodesTrue'
  BY <1>1 DEF AuditInv, CodesTrue
<1> QED BY <1>1, <1>2, <1>4, <1>5 DEF AuditInv, Moved

LEMMA StepReturnsInv == ASSUME AuditInv, StepReturns PROVE AuditInv'
<1>1. request.policy = Undefined /\ phase' \in {"succeeded", "failed"}
        /\ UNCHANGED <<request, task, attempts>>
  BY DEF StepReturns
<1> QED BY <1>1 DEF AuditInv, Shape, SettledTrue, CodesTrue, AuditTrue

\* What an attempt has come to is changed only while it is open, and to what is no answer
\* and no refusal.
LEMMA TaskMoves ==
  ASSUME AuditInv, UNCHANGED <<request, phase, attempts>>, phase # "idle",
         task' = [k \in DOMAIN task |-> task'[k]],
         \A k \in DOMAIN task :
           \/ task'[k] = task[k]
           \/ /\ ~Ended(task[k]) /\ task'[k].to = task[k].to /\ "state" \in DOMAIN task'[k]
              /\ task'[k].state \in Results \cup {"orphaned"},
         SettledTrue'
  PROVE  AuditInv'
<1>1. /\ IsSeq(task)' /\ Len(task') = Len(task) /\ DOMAIN task' = DOMAIN task
      /\ Len(task) \in Nat /\ DOMAIN task = 1..Len(task)
      /\ Len(attempts) \in Nat /\ DOMAIN attempts = 1..Len(attempts)
  BY SameLength, SeqFacts DEF AuditInv, Shape
<1>2. Shape'
  BY <1>1 DEF AuditInv, Shape
<1>3. AuditTrue'
  <2> SUFFICES ASSUME request # Undefined, request.policy # Undefined
               PROVE  AuditTrue'
    BY DEF AuditTrue
  <2>1. Len(task) = Len(attempts) + IF phase = "trying" THEN 1 ELSE 0
    BY DEF AuditInv, AuditTrue
  <2>2. ASSUME NEW k \in DOMAIN attempts
        PROVE  LET e == attempts[k]
               IN /\ e.agentId = task'[k].to
                  /\ request.wait /\ e.outcome = "success" => task'[k].state = "done"
                  /\ e.outcome = "task_error" => task'[k].state = e.errorCode
                  /\ e.errorCode \in Refusals <=> task'[k].state = "refused"
    <3>1. k \in DOMAIN task
      BY <1>1, <2>1
    <3>2. LET e == attempts[k]
          IN /\ e.agentId = task[k].to
             /\ request.wait /\ e.outcome = "success" => task[k].state = "done"
             /\ e.outcome = "task_error" => task[k].state = e.errorCode /\ e.errorCode \in Results
             /\ e.errorCode \in Refusals <=> task[k].state = "refused"
      BY DEF AuditInv, AuditTrue, CodesTrue
    <3>3. CASE task'[k] = task[k]
      BY <3>2, <3>3
    <3>4. CASE /\ ~Ended(task[k]) /\ task'[k].to = task[k].to
               /\ task'[k].state \in Results \cup {"orphaned"}
      <4>1. task[k].state \in {"held", "orphaned"}
        BY <3>4 DEF Ended
      <4>2. task[k].state # "done" /\ task[k].state # "refused" /\ task[k].state \notin Results
        BY <4>1, Names
      <4>3. task'[k].state # "refused"
        BY <3>4, Names
      <4> QED BY <3>2, <3>4, <4>2, <4>3
    <3> QED BY <3>1, <3>3, <3>4
  <2> QED BY <1>1, <2>1, <2>2 DEF AuditTrue
<1> QED BY <1>2, <1>3 DEF AuditInv, CodesTrue

LEMMA PerformInv ==
  ASSUME AuditInv, phase # "idle", NEW k \in DOMAIN task, NEW how \in Results,
         NEW told \in BOOLEAN, Perform(k, how, told)
  PROVE  AuditInv'
<1>1. /\ ~Ended(task[k]) /\ task' = [task EXCEPT ![k].state = how]
      /\ UNCHANGED <<request, phase, attempts>>
  BY DEF Perform
<1>2. Len(task) \in Nat /\ DOMAIN task = 1..Len(task) /\ "state" \in DOMAIN task[k]
  BY SeqFacts DEF AuditInv, Shape
<1>3. /\ task' = [i \in DOMAIN task |-> task'[i]]
      /\ \A i \in DOMAIN task \ {k} : task'[i] = task[i]
      /\ task'[k] = [task[k] EXCEPT !.state = how]
  <2>1. task' = [i \in DOMAIN task |-> IF i = k THEN [task[k] EXCEPT !.state = how] ELSE task[i]]
    BY <1>1
  <2> QED BY <2>1
<1>4. /\ task'[k].state = how /\ task'[k].to = task[k].to /\ "state" \in DOMAIN task'[k]
  BY <1>2, <1>3
<1>5. SettledTrue'
  <2> SUFFICES ASSUME phase = "trying"
               PROVE  SettledTrue'
    BY <1>1 DEF SettledTrue
  <2>1. /\ task # <<>> /\ Len(task) \in DOMAIN task /\ Current = task[Len(task)]
        /\ settledBy \in Results \cup TransportErrors \cup {Undefined}
        /\ settledBy \in Results => Current.state = settledBy
        /\ settledBy \in Refusals <=> Current.state = "refused"
    BY <1>2, SeqFacts DEF AuditInv, Shape, SettledTrue, Current
  <2>2. Len(task') = Len(task) /\ task' # <<>> /\ Current' = task'[Len(task)]
    BY <1>2, <1>3, <2>1, SameLength, SeqFacts DEF AuditInv, Shape, Current
  <2>3. CASE k # Len(task)
    <3>1. settledBy' = settledBy /\ Current' = Current
      BY <1>3, <2>1, <2>2, <2>3 DEF Perform
    <3> QED BY <2>1, <2>2, <3>1 DEF SettledTrue
  <2>4. CASE k = Len(task)
    <3>1. Current'.state = how /\ Current.state \in {"held", "orphaned"}
      BY <1>1, <1>4, <2>1, <2>2, <2>4 DEF Ended
    <3>2. settledBy \notin Results /\ settledBy \notin Refusals
      BY <2>1, <3>1, Names
    <3>3. settledBy' \in {settledBy, "DELIVERY_FAILED", how}
      BY DEF Perform
    <3>4. how \notin Refusals /\ how # "refused" /\ "DELIVERY_FAILED" \notin Results
      BY Names
    <3> QED BY <2>1, <2>2, <3>1, <3>2, <3>3, <3>4, Names DEF SettledTrue
  <2> QED BY <2>3, <2>4
<1> QED BY <1>1, <1>3, <1>4, <1>5, TaskMoves

LEMMA TimeoutInv == ASSUME AuditInv, Timeout PROVE AuditInv'
<1>1. /\ phase = "trying" /\ settledBy = Undefined /\ settledBy' = "RESPONSE_TIMEOUT"
      /\ UNCHANGED <<request, phase, attempts, task>>
  BY DEF Timeout, Waiting
<1>2. SettledTrue'
  BY <1>1, Names DEF AuditInv, SettledTrue, Current
<1> QED BY <1>1, <1>2 DEF AuditInv, Shape, CodesTrue, AuditTrue

LEMMA StopAgentInv ==
  ASSUME AuditInv, NEW a \in Team, StopAgent(a)
  PROVE  AuditInv'
<1>1. /\ phase # "idle" /\ UNCHANGED <<request, phase, attempts, settledBy>>
      /\ task' = [k \in DOMAIN task |->
                    IF task[k].to = a /\ task[k].state = "held"
                    THEN [task[k] EXCEPT !.state = "orphaned"] ELSE task[k]]
  BY DEF StopAgent, InCall, attemptVars
<1>2. task' = [k \in DOMAIN task |-> task'[k]]
  BY <1>1
<1>3. \A k \in DOMAIN task :
        \/ task'[k] = task[k]
        \/ /\ ~Ended(task[k]) /\ task'[k].to = task[k].to /\ "state" \in DOMAIN task'[k]
           /\ task[k].state = "held" /\ task'[k].state = "orphaned"
  BY <1>1 DEF Ended, AuditInv, Shape
<1>4. SettledTrue'
  <2> SUFFICES ASSUME phase = "trying"
               PROVE  SettledTrue'
    BY <1>1 DEF SettledTrue
  <2>1. /\ task # <<>> /\ Len(task) \in DOMAIN task /\ Current = task[Len(task)]
        /\ settledBy \in Results \cup TransportErrors \cup {Undefined}
        /\ settledBy \in Results => Current.state = settledBy
        /\ settledBy \in Refusals <=> Current.state = "refused"
    BY SeqFacts DEF AuditInv, Shape, SettledTrue, Current
  <2>2. Len(task') = Len(task) /\ task' # <<>> /\ Current' = task'[Len(task)]
    BY <1>2, <2>1, SameLength, SeqFacts DEF AuditInv, Shape, Current
  <2>3. \/ Current' = Current
        \/ Current.state = "held" /\ Current'.state = "orphaned"
    BY <1>3, <2>1, <2>2
  <2> QED BY <1>1, <2>1, <2>2, <2>3, Names DEF SettledTrue
<1> QED BY <1>1, <1>2, <1>3, <1>4, TaskMoves

LEMMA AuditInvariant == SendSpec => []AuditInv
<1>1. SendInit => AuditInv
  <2> SUFFICES ASSUME SendInit PROVE AuditInv
    OBVIOUS
  <2>1. IsSeq(<<>>)
    BY DEF IsSeq
  <2> QED BY <2>1 DEF SendInit, AuditInv, Shape, SettledTrue, CodesTrue, AuditTrue
<1>2. AuditInv /\ [SendNext]_failoverVars => AuditInv'
  <2> SUFFICES ASSUME AuditInv, [SendNext]_failoverVars PROVE AuditInv'
    OBVIOUS
  <2>1. ASSUME UNCHANGED <<attemptVars, task>> PROVE AuditInv'
    BY <2>1 DEF attemptVars, AuditInv, Shape, SettledTrue, Current, CodesTrue, AuditTrue
  <2>2. ASSUME NEW step, NEW policy, NEW wait, Recovering(step, policy, wait) PROVE AuditInv'
    <3>1. PICK r : TryNext(r, AtStart, {})
      BY <2>2 DEF Recovering
    <3>2. Moved
      BY <3>1, TryNextMoves DEF AuditInv
    <3> QED BY <2>2, <3>2, BeginInv DEF Recovering
  <2>3. ASSUME NEW step, NEW recovery, ExecuteStepTask(step, recovery) PROVE AuditInv'
    <3>1. CASE \E policy : Recovering(step, policy, TRUE)
      BY <2>2, <3>1
    <3>2. CASE phase = "idle" /\ UNCHANGED attempts /\ \E p : SendSubTask(p)
      <4>1. Moved
        BY <3>2, SendMoves DEF AuditInv
      <4> QED BY <3>2, <4>1, BeginInv
    <3> QED BY <2>3, <3>1, <3>2 DEF ExecuteStepTask
  <2>4. ASSUME NEW q \in Asked,
               \/ SendTaskWithRecovery(q.step, q.policy, q.wait)
               \/ ExecuteStepTask(q.step, q.policy)
        PROVE  AuditInv'
    BY <2>2, <2>3, <2>4 DEF SendTaskWithRecovery
  <2>5. CASE \/ \E a \in Team : StartAgent(a)
             \/ \E up \in BOOLEAN : SetBusOpen(up)
             \/ StopCaller \/ UNCHANGED failoverVars
    BY <2>1, <2>5 DEF StartAgent, SetBusOpen, StopCaller, failoverVars, attemptVars
  <2>6. ASSUME NEW k \in DOMAIN task, NEW how \in Results, NEW told \in BOOLEAN,
               Perform(k, how, told)
        PROVE  AuditInv'
    <3>1. phase # "idle"
      BY DEF AuditInv, Shape
    <3> QED BY <2>6, <3>1, PerformInv
  <2> QED BY <2>4, <2>5, <2>6, SucceedInv, RetryInv, FailOverInv, WakeInv, StepReturnsInv,
             TimeoutInv, StopAgentInv DEF SendNext
<1> QED BY <1>1, <1>2, PTL DEF SendSpec

\* The audit trail is true, for any agents, policies and errors.
THEOREM AuditIsTrue == SendSpec => []AuditTrue
<1>1. AuditInv => AuditTrue
  BY DEF AuditInv
<1> QED BY <1>1, AuditInvariant, PTL

-------------------------------------------------------------------------------
(* What is asked, and whom it is sent to next.                               *)
\* What is kept of a sequence, as a set.
LEMMA KeptOK ==
  ASSUME NEW S, NEW q \in Seq(S), NEW places, places \subseteq DOMAIN q
  PROVE  /\ AtPlaces(q, places) \in Seq(S)
         /\ Listed(AtPlaces(q, places)) = {q[i] : i \in places}
         /\ (\A i, j \in places : q[i] = q[j] => i = j) => Distinct(AtPlaces(q, places))
<1> DEFINE r == AtPlaces(q, places)
<1>1. /\ r \in Seq(S)
      /\ \A i \in places : \E k \in DOMAIN r : r[k] = q[i]
      /\ \A k \in DOMAIN r : \E i \in places : r[k] = q[i]
      /\ \A k, l \in DOMAIN r : k < l => \E i, j \in places : i < j /\ r[k] = q[i] /\ r[l] = q[j]
  BY AtPlacesOK
<1>2. places \subseteq Nat /\ DOMAIN r \subseteq Nat
  BY <1>1
<1> HIDE DEF r
<1>3. Listed(r) = {q[i] : i \in places}
  BY <1>1 DEF Listed
<1>4. ASSUME \A i, j \in places : q[i] = q[j] => i = j PROVE Distinct(r)
  <2> SUFFICES ASSUME NEW k \in DOMAIN r, NEW l \in DOMAIN r, r[k] = r[l], k < l PROVE FALSE
    BY <1>2 DEF Distinct
  <2>1. PICK i \in places, j \in places : i < j /\ r[k] = q[i] /\ r[l] = q[j]
    BY <1>1
  <2>2. i \in Nat /\ i = j
    BY <1>2, <1>4, <2>1
  <2> QED BY <2>1, <2>2
<1> QED BY <1>1, <1>3, <1>4 DEF r

-------------------------------------------------------------------------------
\* A call with a policy.
Chosen == request # Undefined /\ request.policy # Undefined

RecoveryOK(r) ==
  /\ r.policy.maxAttemptsPerAgent \in Nat \ {0} /\ r.policy.maxTotalAttempts \in Nat
  /\ r.policy.fallbackAgents \in Seq(Team) /\ r.step.to \in Team \cup {Undefined}
  /\ r.chain \in Seq(Offers) /\ Distinct(r.chain)

\* The fields of a policy, through merging and normalizing.
LEMMA OverrideOK ==
  ASSUME NEW base, NEW over, NEW x, NEW S, Given(over, x, S)
  PROVE  /\ x \in DOMAIN base => (base[x] \in S => Override(base, over)[x] \in S)
         /\ Given(base, x, S) => Given(Override(base, over), x, S)
         /\ DOMAIN Override(base, over) = DOMAIN base \cup DOMAIN over
<1> QED BY DEF Override, Given

LEMMA MergeOK ==
  ASSUME NEW base, NEW over, MaybePolicy(base), MaybePolicy(over)
  PROVE  MaybePolicy(MergeRecoveryPolicies(base, over))
<1>1. CASE base = Undefined \/ over = Undefined
  BY <1>1 DEF MergeRecoveryPolicies, MaybePolicy
<1>2. CASE base # Undefined /\ over # Undefined
  <2>1. MergeRecoveryPolicies(base, over) = Override(base, over)
    BY <1>2 DEF MergeRecoveryPolicies
  <2>2. PolicyOK(Override(base, over))
    <3>1. ASSUME NEW x, NEW S, Given(base, x, S), Given(over, x, S)
          PROVE  Given(Override(base, over), x, S)
      BY <3>1, OverrideOK
    <3> QED BY <1>2, <3>1 DEF PolicyOK, MaybePolicy
  <2> QED BY <2>1, <2>2 DEF MaybePolicy
<1> QED BY <1>1, <1>2

LEMMA NormalizedOK ==
  ASSUME NEW policy, PolicyOK(policy)
  PROVE  LET p == NormalizeTaskRecoveryPolicy(policy)
         IN /\ p.maxAttemptsPerAgent \in Nat \ {0} /\ p.maxTotalAttempts \in Nat
            /\ p.fallbackAgents \in Seq(Team) /\ p.fallbackCapabilities \in Seq(Offers)
<1> DEFINE o == Override(DefaultPolicy, policy)
           p == NormalizeTaskRecoveryPolicy(policy)
<1>1. /\ DOMAIN DefaultPolicy \subseteq DOMAIN o
      /\ o["maxAttemptsPerAgent"] \in Int /\ o["maxTotalAttempts"] \in Int
      /\ o["fallbackAgents"] \in Seq(Team) /\ o["fallbackCapabilities"] \in Seq(Offers)
  <2>1. /\ Given(policy, "maxAttemptsPerAgent", Int) /\ Given(policy, "maxTotalAttempts", Int)
        /\ Given(policy, "fallbackCapabilities", Seq(Offers))
        /\ Given(policy, "fallbackAgents", Seq(Team))
    BY DEF PolicyOK
  <2>2. /\ DefaultPolicy["maxAttemptsPerAgent"] \in Int /\ DefaultPolicy["maxTotalAttempts"] \in Int
        /\ DefaultPolicy["fallbackAgents"] \in Seq(Team)
        /\ DefaultPolicy["fallbackCapabilities"] \in Seq(Offers)
    BY DEF DefaultPolicy
  <2>3. {"maxAttemptsPerAgent", "maxTotalAttempts", "fallbackAgents", "fallbackCapabilities"}
          \subseteq DOMAIN DefaultPolicy
    BY DEF DefaultPolicy
  <2>4. DOMAIN DefaultPolicy \subseteq DOMAIN o
    BY DEF Override
  <2> HIDE DEF o
  <2>5. \A x, S : Given(policy, x, S) /\ x \in DOMAIN DefaultPolicy /\ DefaultPolicy[x] \in S
                  => o[x] \in S
    BY OverrideOK DEF o
  <2> QED BY <2>1, <2>2, <2>3, <2>4, <2>5
<1>2. {"maxAttemptsPerAgent", "maxTotalAttempts", "retryBackoffMs", "fallbackAgents",
       "fallbackCapabilities"} \subseteq DOMAIN DefaultPolicy
  BY DEF DefaultPolicy
<1>3. p = [o EXCEPT !.maxAttemptsPerAgent = AtLeast(1, @), !.maxTotalAttempts = AtLeast(0, @),
                    !.retryBackoffMs = AtLeast(0, @)]
  BY DEF NormalizeTaskRecoveryPolicy
<1> HIDE DEF o, p
<1>4. /\ p.maxAttemptsPerAgent = AtLeast(1, o.maxAttemptsPerAgent)
      /\ p.maxTotalAttempts = AtLeast(0, o.maxTotalAttempts)
      /\ p.fallbackAgents = o.fallbackAgents /\ p.fallbackCapabilities = o.fallbackCapabilities
  BY <1>1, <1>2, <1>3
<1> QED BY <1>1, <1>4 DEF AtLeast, p

\* Each capability comes once.
LEMMA ChainOK ==
  ASSUME NEW step, NEW policy, step.capability \in Offers,
         step.fallbackCapabilities \in Seq(Offers), policy.fallbackCapabilities \in Seq(Offers)
  PROVE  BuildCapabilityChain(step, policy) \in Seq(Offers)
         /\ Distinct(BuildCapabilityChain(step, policy))
<1> DEFINE all == <<step.capability>> \o step.fallbackCapabilities \o policy.fallbackCapabilities
           firsts == {i \in DOMAIN all : \A j \in 1..i - 1 : all[j] # all[i]}
<1>1. all \in Seq(Offers)
  <2>1. <<step.capability>> \in Seq(Offers)
    OBVIOUS
  <2>2. <<step.capability>> \o step.fallbackCapabilities \in Seq(Offers)
    BY <2>1
  <2> QED BY <2>2
<1>2. BuildCapabilityChain(step, policy) = AtPlaces(all, firsts)
  BY DEF BuildCapabilityChain
<1> HIDE DEF all
<1>3. DOMAIN all = 1..Len(all) /\ Len(all) \in Nat
  BY <1>1
<1>4. ASSUME NEW i \in firsts, NEW j \in firsts, all[i] = all[j] PROVE i = j
  <2>1. i \in Nat /\ j \in Nat /\ 1 <= i /\ 1 <= j
    BY <1>3
  <2>2. ~(i < j) /\ ~(j < i)
    BY <1>4, <2>1
  <2> QED BY <2>1, <2>2
<1>5. firsts \subseteq DOMAIN all
  OBVIOUS
<1> HIDE DEF firsts
<1> QED BY <1>1, <1>2, <1>4, <1>5, KeptOK

\* The agents that are to be tried for a capability.
LEMMA ResolveOK ==
  ASSUME NEW r, RecoveryOK(r), running \subseteq Team, NEW c
  PROVE  /\ ResolveAgentCandidates(r, c) \in Seq(Team)
         /\ Distinct(r.policy.fallbackAgents) => Distinct(ResolveAgentCandidates(r, c))
         /\ Listed(ResolveAgentCandidates(r, c)) =
              IF r.step.to # Undefined THEN {r.step.to}
              ELSE IF r.policy.fallbackAgents # <<>> THEN Listed(r.policy.fallbackAgents)
              ELSE Offering(c)
<1>1. CASE r.step.to # Undefined
  <2>1. ResolveAgentCandidates(r, c) = <<r.step.to>> /\ r.step.to \in Team
    BY <1>1 DEF ResolveAgentCandidates, RecoveryOK
  <2> QED BY <1>1, <2>1 DEF Distinct, Listed
<1>2. CASE r.step.to = Undefined /\ r.policy.fallbackAgents # <<>>
  BY <1>2 DEF ResolveAgentCandidates, RecoveryOK
<1>3. CASE r.step.to = Undefined /\ r.policy.fallbackAgents = <<>>
  <2> DEFINE S == Offering(c)
             n == Cardinality(S)
  <2>1. ResolveAgentCandidates(r, c) = Sorted(S)
    BY <1>3 DEF ResolveAgentCandidates
  <2>2. S \subseteq Team /\ Team \subseteq Nat /\ IsFiniteSet(S)
    <3>1. Offering(c) \subseteq Team
      BY DEF Offering
    <3>2. IsFiniteSet(Team) /\ Team \subseteq Nat
      BY AgentsAndTasks, FS_Interval DEF Team
    <3> QED BY <3>1, <3>2, FS_Subset
  <2> HIDE DEF S
  <2>3. /\ n \in Nat /\ Sorted(S) \in [1..n -> S]
        /\ \A i, j \in 1..n : i < j => Sorted(S)[i] < Sorted(S)[j]
        /\ \A e \in S : \E i \in 1..n : Sorted(S)[i] = e
    <3>1. S \subseteq Nat
      BY <2>2
    <3> QED BY <2>2, <3>1, SortedOK
  <2>4. Sorted(S) \in Seq(Team) /\ DOMAIN Sorted(S) = 1..n
    <3>1. Sorted(S) \in [1..n -> Team]
      BY <2>2, <2>3
    <3> QED BY <2>3, <3>1
  <2>5. Listed(Sorted(S)) = S
    BY <2>3, <2>4 DEF Listed
  <2>6. Distinct(Sorted(S))
    <3> SUFFICES ASSUME NEW i \in 1..n, NEW j \in 1..n, Sorted(S)[i] = Sorted(S)[j] PROVE i = j
      BY <2>4 DEF Distinct
    <3>1. Sorted(S)[i] \in Nat /\ i \in Nat /\ j \in Nat
      <4>1. Sorted(S)[i] \in S
        BY <2>3
      <4>2. S \subseteq Nat
        BY <2>2
      <4>3. i \in Nat /\ j \in Nat
        BY <2>3
      <4> HIDE DEF n
      <4> QED BY <4>1, <4>2, <4>3
    <3>2. ~(i < j) /\ ~(j < i)
      BY <2>3, <3>1
    <3> QED BY <3>1, <3>2
  <2> QED BY <1>3, <2>1, <2>4, <2>5, <2>6 DEF S
<1> QED BY <1>1, <1>2, <1>3

\* Those of them that have not failed.
LEMMA CandidatesOK ==
  ASSUME NEW r, RecoveryOK(r), running \subseteq Team, NEW c, NEW failed
  PROVE  /\ Candidates(r, c, failed) \in Seq(Team)
         /\ Listed(Candidates(r, c, failed)) = Listed(ResolveAgentCandidates(r, c)) \ failed
         /\ Distinct(r.policy.fallbackAgents) => Distinct(Candidates(r, c, failed))
<1> DEFINE all == ResolveAgentCandidates(r, c)
           kept == {i \in DOMAIN all : all[i] \notin failed}
<1>1. all \in Seq(Team) /\ (Distinct(r.policy.fallbackAgents) => Distinct(all))
  BY ResolveOK
<1>2. Candidates(r, c, failed) = AtPlaces(all, kept)
  BY DEF Candidates
<1> HIDE DEF all
<1>3. kept \subseteq DOMAIN all /\ {all[i] : i \in kept} = Listed(all) \ failed
  BY DEF Listed
<1>4. Distinct(all) => \A i, j \in kept : all[i] = all[j] => i = j
  BY DEF Distinct
<1> HIDE DEF kept
<1>5. /\ AtPlaces(all, kept) \in Seq(Team)
      /\ Listed(AtPlaces(all, kept)) = {all[i] : i \in kept}
      /\ (\A i, j \in kept : all[i] = all[j] => i = j) => Distinct(AtPlaces(all, kept))
  BY <1>1, <1>3, KeptOK
<1> QED BY <1>1, <1>2, <1>3, <1>4, <1>5 DEF all

\* Where the search goes from p, and what it passes by.
LEMMA FollowingOK ==
  ASSUME NEW r, RecoveryOK(r), running \subseteq Team, NEW p, NEW failed,
         p.capability \in Nat, p.candidates \in Seq(Team), p.agent \in 0..Len(p.candidates)
  PROVE  /\ Following(r, p, failed) = {} =>
              /\ p.agent = Len(p.candidates)
              /\ \A k \in DOMAIN r.chain : k > p.capability => Candidates(r, r.chain[k], failed) = <<>>
         /\ \A q \in Following(r, p, failed) :
              \/ /\ p.agent < Len(p.candidates)
                 /\ q = [p EXCEPT !.agent = @ + 1, !.attempt = 1]
              \/ /\ p.agent = Len(p.candidates)
                 /\ q.capability \in DOMAIN r.chain /\ q.capability > p.capability
                 /\ q.candidates = Candidates(r, r.chain[q.capability], failed)
                 /\ q.candidates # <<>> /\ q.agent = 1 /\ q.attempt = 1
                 /\ q = [capability |-> q.capability, candidates |-> q.candidates,
                         agent |-> q.agent, attempt |-> q.attempt]
                 /\ \A k \in DOMAIN r.chain : p.capability < k /\ k < q.capability =>
                      Candidates(r, r.chain[k], failed) = <<>>
<1> DEFINE left == [k \in DOMAIN r.chain |-> Candidates(r, r.chain[k], failed)]
           able == {k \in DOMAIN r.chain : k > p.capability /\ left[k] # <<>>}
           first == {k \in able : \A j \in able : k <= j}
           to(k) == [capability |-> k, candidates |-> left[k], agent |-> 1, attempt |-> 1]
<1>1. CASE p.agent < Len(p.candidates)
  <2>1. Following(r, p, failed) = {[p EXCEPT !.agent = @ + 1, !.attempt = 1]}
    BY <1>1 DEF Following
  <2> QED BY <1>1, <2>1
<1>2. CASE ~(p.agent < Len(p.candidates))
  <2>1. p.agent = Len(p.candidates)
    BY <1>2
  <2>2. Following(r, p, failed) = {to(k) : k \in first}
    BY <1>2 DEF Following
  <2>3. able \subseteq Nat /\ DOMAIN r.chain \subseteq Nat
    BY DEF RecoveryOK
  <2>4. first = {} => able = {}
    <3> HIDE DEF able
    <3> QED BY <2>3, LeastNat
  <2>5. Following(r, p, failed) = {} => first = {}
    BY <2>2
  <2>6. ASSUME NEW k \in first
        PROVE  /\ k \in DOMAIN r.chain /\ k > p.capability /\ left[k] # <<>>
               /\ \A j \in DOMAIN r.chain : p.capability < j /\ j < k => left[j] = <<>>
    <3>1. k \in Nat /\ p.capability \in Nat
      BY <2>3
    <3>2. \A j \in DOMAIN r.chain : p.capability < j /\ j < k => j \notin able
      <4>1. k \in able /\ \A j \in able : k <= j
        OBVIOUS
      <4>2. \A j \in DOMAIN r.chain : j < k => ~(k <= j)
        BY <2>3, <3>1
      <4> HIDE DEF able
      <4> QED BY <4>1, <4>2
    <3>3. \A j \in DOMAIN r.chain : p.capability < j => j > p.capability
      BY <2>3, <3>1
    <3> QED BY <3>2, <3>3
  <2>7. ASSUME NEW q \in Following(r, p, failed)
        PROVE  /\ q.capability \in DOMAIN r.chain /\ q.capability > p.capability
               /\ q.candidates = Candidates(r, r.chain[q.capability], failed)
               /\ q.candidates # <<>> /\ q.agent = 1 /\ q.attempt = 1
               /\ q = [capability |-> q.capability, candidates |-> q.candidates,
                       agent |-> q.agent, attempt |-> q.attempt]
               /\ \A k \in DOMAIN r.chain : p.capability < k /\ k < q.capability =>
                    Candidates(r, r.chain[k], failed) = <<>>
    <3>1. PICK k \in first : q = to(k)
      BY <2>2
    <3>2. /\ q.capability = k /\ q.candidates = left[k] /\ q.agent = 1 /\ q.attempt = 1
          /\ q = [capability |-> q.capability, candidates |-> q.candidates,
                  agent |-> q.agent, attempt |-> q.attempt]
      BY <3>1
    <3> HIDE DEF first
    <3> QED BY <2>6, <3>2
  <2> HIDE DEF first
  <2> QED BY <2>1, <2>4, <2>5, <2>7
<1> QED BY <1>1, <1>2

-------------------------------------------------------------------------------
(* The search for an agent.                                                 *)

Positions == [capability : Nat, candidates : Seq(Team), agent : Nat, attempt : Nat]

\* Before the call nothing is there, and only agents that run have run all along.
TeamOK ==
  /\ running \subseteq Team /\ steady \subseteq running
  /\ phase = "idle" => request = Undefined /\ at = AtStart /\ failedAgents = {}

\* The current attempt is at a place of the three loops.
InPlace ==
  /\ at \in Positions
  /\ InCall =>
       /\ at.capability \in DOMAIN request.chain /\ at.agent \in DOMAIN at.candidates
       /\ at.attempt \in 1..request.policy.maxAttemptsPerAgent
       /\ phase = "backoff" => at.attempt < request.policy.maxAttemptsPerAgent
       /\ task # <<>> /\ Current.to = at.candidates[at.agent]
       /\ Distinct(request.policy.fallbackAgents) => Distinct(at.candidates)

\* Whoever is left behind was tried, and who is to be tried is among the candidates.
Covered ==
  /\ \A a \in failedAgents : Tried(a)
  /\ InCall =>
       /\ \A i \in 1..at.agent : Tried(at.candidates[i])
       /\ \A a \in Wanted(request.chain[at.capability]) : Tried(a) \/ a \in Listed(at.candidates)
  /\ \A k \in DOMAIN request.chain :
       k < at.capability \/ (phase = "exhausted" /\ ~Capped(request)) =>
         \A a \in Wanted(request.chain[k]) : Tried(a)

\* The attempts on an agent for a capability that an audit trail has.
Entries(trail, a, c) == {j \in DOMAIN trail : trail[j].agentId = a /\ trail[j].capability = c}

WithinAll(trail) ==
  \A a, c : Cardinality(Entries(trail, a, c)) <= request.policy.maxAttemptsPerAgent

\* A trail with n attempts of the current agent, which comes from where the search has been.
Spent(trail, n) ==
  /\ WithinAll(trail)
  /\ Cardinality(Entries(trail, Current.to, request.chain[at.capability])) = n
  /\ \A j \in DOMAIN trail : \E k \in 1..at.capability :
       /\ trail[j].capability = request.chain[k]
       /\ k = at.capability => \E i \in 1..at.agent : trail[j].agentId = at.candidates[i]

Within ==
  /\ request.policy.maxTotalAttempts > 0 => Len(task) <= request.policy.maxTotalAttempts
  /\ Distinct(request.policy.fallbackAgents) =>
       /\ WithinAll(attempts)
       /\ phase = "trying" => Spent(attempts, at.attempt - 1)
       /\ phase = "backoff" => Spent(attempts, at.attempt)

\* Who has failed was tried before all attempts of the current agent.
Avoided ==
  Distinct(request.policy.fallbackAgents) /\ request.policy.excludeFailedAgents =>
    /\ InCall => /\ \A k \in DOMAIN task : task[k].to \in failedAgents \cup {Current.to}
                 /\ \A i \in at.agent..Len(at.candidates) : at.candidates[i] \notin failedAgents
    /\ \A i, j, k \in DOMAIN task :
         i < k /\ k < j /\ task[i].to = task[j].to => task[k].to = task[i].to

\* The inductive invariant of the search.
SearchInv ==
  /\ TeamOK
  /\ Chosen => RecoveryOK(request) /\ InPlace /\ Covered /\ Within /\ Avoided

-------------------------------------------------------------------------------
\* An attempt is made at q, or none is made.
Goes(q) ==
  /\ phase' = "trying" /\ at' = q /\ task' # <<>>
  /\ Len(task') = Len(task) + 1 /\ DOMAIN task' = 1..(Len(task) + 1)
  /\ \A k \in 1..Len(task) : task'[k] = task[k]
  /\ task'[Len(task) + 1].to = q.candidates[q.agent]

Stops == phase' \in {"rejected", "exhausted"} /\ UNCHANGED <<at, task>>

LEMMA TryOK ==
  ASSUME IsSeq(task), NEW r, NEW p, Try(r, p)
  PROVE  \/ Goes(p) /\ ~Capped(r)
         \/ Stops /\ (phase' = "exhausted" => Capped(r))
<1>1. CASE Exhausted
  BY <1>1 DEF Exhausted, Try, Stops, SendSubTask
<1>2. CASE ~Capped(r) /\ SendSubTask(p) /\ ~callerRunning
  BY <1>2 DEF SendSubTask, Stops
<1>3. CASE ~Capped(r) /\ SendSubTask(p) /\ callerRunning
  <2>1. PICK e : /\ phase' = "trying" /\ at' = p /\ task' = Append(task, e)
                 /\ e.to = p.candidates[p.agent]
    BY <1>3 DEF SendSubTask
  <2>2. /\ IsSeq(task)' /\ task' # <<>> /\ Len(task') = Len(task) + 1
        /\ task'[Len(task) + 1] = e /\ \A i \in 1..Len(task) : task'[i] = task[i]
    BY <2>1, AppendFacts
  <2>3. DOMAIN task' = 1..(Len(task) + 1)
    BY <2>2, SeqFacts
  <2> QED BY <1>3, <2>1, <2>2, <2>3 DEF Goes
<1> QED BY <1>1, <1>2, <1>3 DEF Try, SendSubTask

LEMMA TryNextOK ==
  ASSUME IsSeq(task), NEW r, NEW p, NEW failed, TryNext(r, p, failed)
  PROVE  \/ \E q \in Following(r, p, failed) : Goes(q) /\ ~Capped(r)
         \/ Stops /\ (phase' = "exhausted" => Capped(r) \/ Following(r, p, failed) = {})
<1>1. CASE Following(r, p, failed) = {} /\ Exhausted
  BY <1>1 DEF Exhausted, Stops
<1>2. CASE \E q \in Following(r, p, failed) : Try(r, q)
  <2>1. PICK q \in Following(r, p, failed) : Try(r, q)
    BY <1>2
  <2> QED BY <2>1, TryOK
<1> QED BY <1>1, <1>2 DEF TryNext

LEMMA EntriesFinite ==
  ASSUME NEW trail, IsSeq(trail), NEW a, NEW c
  PROVE  IsFiniteSet(Entries(trail, a, c)) /\ Cardinality(Entries(trail, a, c)) \in Nat
<1>1. DOMAIN trail = 1..Len(trail) /\ Len(trail) \in Nat
  BY SeqFacts
<1>2. IsFiniteSet(DOMAIN trail) /\ Entries(trail, a, c) \subseteq DOMAIN trail
  BY <1>1, FS_Interval DEF Entries
<1>3. IsFiniteSet(Entries(trail, a, c))
  BY <1>2, FS_Subset
<1> QED BY <1>3, FS_CardinalityType

\* An entry of the current attempt.
LEMMA LogSpends ==
  ASSUME AuditInv, SearchInv, Chosen, AttemptReturned, NEW outcome, NEW code,
         Distinct(request.policy.fallbackAgents)
  PROVE  Spent(Logged(outcome, code), at.attempt)
<1> DEFINE cap == request.chain[at.capability]
           max == request.policy.maxAttemptsPerAgent
           n == Len(attempts)
           e == [agentId |-> Current.to, capability |-> cap, outcome |-> outcome, errorCode |-> code]
           trail == Append(attempts, e)
<1>1. Logged(outcome, code) = trail
  BY DEF Logged
<1>2. phase = "trying" /\ InCall
  BY DEF AttemptReturned, InCall
<1>3. /\ WithinAll(attempts) /\ Cardinality(Entries(attempts, Current.to, cap)) = at.attempt - 1
      /\ \A j \in DOMAIN attempts : \E k \in 1..at.capability :
           /\ attempts[j].capability = request.chain[k]
           /\ k = at.capability => \E i \in 1..at.agent : attempts[j].agentId = at.candidates[i]
  BY <1>2 DEF SearchInv, Within, Spent
<1>4. /\ at \in Positions /\ at.capability \in DOMAIN request.chain /\ at.agent \in DOMAIN at.candidates
      /\ at.attempt \in 1..max /\ max \in Nat /\ Current.to = at.candidates[at.agent]
      /\ DOMAIN request.chain \subseteq Nat \ {0} /\ DOMAIN at.candidates \subseteq Nat \ {0}
  BY <1>2 DEF SearchInv, InPlace, RecoveryOK, Positions
<1>5. IsSeq(attempts) /\ n \in Nat /\ DOMAIN attempts = 1..n
  BY SeqFacts DEF AuditInv, Shape
<1>6. IsSeq(trail) /\ DOMAIN trail = 1..(n + 1) /\ trail[n + 1] = e
      /\ \A j \in 1..n : trail[j] = attempts[j]
  <2>1. IsSeq(trail) /\ Len(trail) = n + 1 /\ trail[n + 1] = e
        /\ \A j \in 1..n : trail[j] = attempts[j]
    BY <1>5, AppendFacts
  <2> HIDE DEF trail
  <2> QED BY <2>1, SeqFacts
<1>7. e.agentId = Current.to /\ e.capability = cap
  OBVIOUS
<1> HIDE DEF trail, e, cap
<1>8. ASSUME NEW a, NEW c
      PROVE  Entries(trail, a, c) = IF a = Current.to /\ c = cap
                                    THEN Entries(attempts, a, c) \cup {n + 1} ELSE Entries(attempts, a, c)
  <2>1. 1..(n + 1) = (1..n) \cup {n + 1}
    BY <1>5
  <2>2. \A j \in 1..n : j \in Entries(trail, a, c) <=> j \in Entries(attempts, a, c)
    BY <1>5, <1>6 DEF Entries
  <2>3. n + 1 \in Entries(trail, a, c) <=> a = Current.to /\ c = cap
    BY <1>5, <1>6, <1>7 DEF Entries
  <2>4. Entries(trail, a, c) \subseteq 1..(n + 1) /\ Entries(attempts, a, c) \subseteq 1..n
    BY <1>5, <1>6 DEF Entries
  <2>5. CASE a = Current.to /\ c = cap
    <3>1. Entries(trail, a, c) = Entries(attempts, a, c) \cup {n + 1}
      BY <2>1, <2>2, <2>3, <2>4, <2>5
    <3> QED BY <2>5, <3>1
  <2>6. CASE ~(a = Current.to /\ c = cap)
    <3>1. Entries(trail, a, c) = Entries(attempts, a, c)
      BY <2>1, <2>2, <2>3, <2>4, <2>6
    <3> QED BY <2>6, <3>1
  <2> QED BY <2>5, <2>6
<1>9. Cardinality(Entries(trail, Current.to, cap)) = at.attempt
  <2> DEFINE E == Entries(attempts, Current.to, cap)
  <2>1. IsFiniteSet(E) /\ Cardinality(E) = at.attempt - 1
    BY <1>3, <1>5, EntriesFinite
  <2>2. n + 1 \notin E
    BY <1>5 DEF Entries
  <2>3. Entries(trail, Current.to, cap) = E \cup {n + 1}
    BY <1>8
  <2> HIDE DEF E
  <2>4. Cardinality(E \cup {n + 1}) = Cardinality(E) + 1
    BY <2>1, <2>2, FS_AddElement
  <2> QED BY <1>4, <2>1, <2>3, <2>4
<1>10. WithinAll(trail)
  <2> SUFFICES ASSUME NEW a, NEW c PROVE Cardinality(Entries(trail, a, c)) <= max
    BY DEF WithinAll
  <2>1. CASE a = Current.to /\ c = cap
    BY <1>4, <1>9, <2>1
  <2>2. CASE ~(a = Current.to /\ c = cap)
    BY <1>3, <1>8, <2>2 DEF WithinAll
  <2> QED BY <2>1, <2>2
<1>11. ASSUME NEW j \in DOMAIN trail
       PROVE  \E k \in 1..at.capability :
                /\ trail[j].capability = request.chain[k]
                /\ k = at.capability => \E i \in 1..at.agent : trail[j].agentId = at.candidates[i]
  <2>1. CASE j = n + 1
    <3>1. at.capability \in 1..at.capability /\ at.agent \in 1..at.agent
      BY <1>4
    <3> QED BY <1>4, <1>6, <1>7, <2>1, <3>1 DEF cap
  <2>2. CASE j # n + 1
    <3>1. j \in DOMAIN attempts /\ trail[j] = attempts[j]
      BY <1>5, <1>6, <2>2
    <3> QED BY <1>3, <3>1
  <2> QED BY <2>1, <2>2
<1> QED BY <1>1, <1>9, <1>10, <1>11 DEF Spent, cap

\* Tasks keep their agents, and no agent runs anew all along.
LEMMA TriedStays ==
  ASSUME \A k \in DOMAIN task : k \in DOMAIN task' /\ task'[k].to = task[k].to
  PROVE  \A a : Tried(a) => Tried(a)'
<1> QED BY DEF Tried

LEMMA WantedStays ==
  ASSUME UNCHANGED request, steady' \subseteq steady, NEW c
  PROVE  Wanted(c)' \subseteq Wanted(c)
<1> QED BY DEF Wanted

LEMMA WantedResolved ==
  ASSUME RecoveryOK(request), TeamOK, NEW c
  PROVE  Wanted(c) \subseteq Listed(ResolveAgentCandidates(request, c))
<1>1. Listed(ResolveAgentCandidates(request, c)) =
        IF request.step.to # Undefined THEN {request.step.to}
        ELSE IF request.policy.fallbackAgents # <<>> THEN Listed(request.policy.fallbackAgents)
        ELSE Offering(c)
  BY ResolveOK DEF TeamOK
<1> QED BY <1>1 DEF Wanted, Offering, TeamOK

\* No candidate is left for a capability when all of its agents have failed.
LEMMA PassedBy ==
  ASSUME RecoveryOK(request), TeamOK, NEW failed, \A a \in failed : Tried(a),
         NEW c, Candidates(request, c, failed) = <<>>
  PROVE  \A a \in Wanted(c) : Tried(a)
<1>1. Listed(Candidates(request, c, failed)) = Listed(ResolveAgentCandidates(request, c)) \ failed
  BY CandidatesOK DEF TeamOK
<1>2. Listed(Candidates(request, c, failed)) = {}
  BY DEF Listed
<1>3. Wanted(c) \subseteq Listed(ResolveAgentCandidates(request, c))
  BY WantedResolved
<1> QED BY <1>1, <1>2, <1>3

\* After its last candidate nobody is left out of a capability, nor of those before it.
LEMMA LeftBehind ==
  ASSUME SearchInv, Chosen, InCall, at.agent = Len(at.candidates),
         NEW k \in DOMAIN request.chain, k <= at.capability
  PROVE  \A a \in Wanted(request.chain[k]) : Tried(a)
<1>1. k \in Nat /\ at.capability \in Nat /\ DOMAIN at.candidates = 1..Len(at.candidates)
  BY DEF SearchInv, RecoveryOK, InPlace, Positions
<1>2. CASE k < at.capability
  BY <1>2 DEF SearchInv, Covered
<1>3. CASE k = at.capability
  BY <1>1, <1>3 DEF SearchInv, Covered, Listed
<1> QED BY <1>1, <1>2, <1>3

\* The search stops.
LEMMA StopsInv ==
  ASSUME SearchInv, Chosen, ~(InCall)', phase' # "idle",
         UNCHANGED <<at, task, request, running, steady>>,
         \A a \in failedAgents' : Tried(a),
         Distinct(request.policy.fallbackAgents) => WithinAll(attempts'),
         phase' = "exhausted" =>
           Capped(request) \/ \A k \in DOMAIN request.chain : \A a \in Wanted(request.chain[k]) : Tried(a)
  PROVE  SearchInv'
<1>1. TeamOK' /\ Chosen'
  BY DEF SearchInv, TeamOK, Chosen
<1>2. RecoveryOK(request)'
  BY DEF SearchInv, RecoveryOK, Distinct
<1>3. InPlace'
  BY DEF SearchInv, InPlace
<1>4. \A a : Tried(a)' <=> Tried(a)
  BY DEF Tried
<1>5. \A c : Wanted(c)' = Wanted(c)
  BY DEF Wanted
<1>6. Covered'
  <2>1. \A k \in DOMAIN request.chain :
          k < at.capability => \A a \in Wanted(request.chain[k]) : Tried(a)
    BY DEF SearchInv, Covered
  <2>2. Capped(request)' <=> Capped(request)
    BY DEF Capped
  <2> QED BY <1>4, <1>5, <2>1, <2>2 DEF Covered
<1>7. Within'
  <2>1. phase' # "trying" /\ phase' # "backoff"
    BY DEF InCall
  <2>2. Distinct(request.policy.fallbackAgents) => WithinAll(attempts)'
    BY DEF WithinAll
  <2>3. request.policy.maxTotalAttempts > 0 => Len(task) <= request.policy.maxTotalAttempts
    BY DEF SearchInv, Within
  <2> QED BY <2>1, <2>2, <2>3 DEF Within
<1>8. Avoided'
  BY DEF SearchInv, Avoided
<1> QED BY <1>1, <1>2, <1>3, <1>6, <1>7, <1>8 DEF SearchInv

\* What an attempt at q does to the tasks.
LEMMA GoesOK ==
  ASSUME IsSeq(task), NEW q, Goes(q)
  PROVE  /\ Len(task) \in Nat /\ DOMAIN task = 1..Len(task) /\ (InCall)' /\ phase' # "idle"
         /\ Current'.to = q.candidates[q.agent]
         /\ \A k \in DOMAIN task : k \in DOMAIN task' /\ task'[k].to = task[k].to
         /\ \A a : Tried(a) => Tried(a)'
         /\ Tried(q.candidates[q.agent])'
<1>1. Len(task) \in Nat /\ DOMAIN task = 1..Len(task)
  BY SeqFacts
<1>2. \A k \in DOMAIN task : k \in DOMAIN task' /\ task'[k].to = task[k].to
  BY <1>1 DEF Goes
<1>3. Len(task) + 1 \in DOMAIN task'
  BY <1>1 DEF Goes
<1>4. Current'.to = q.candidates[q.agent]
  BY DEF Goes, Current
<1>5. Tried(q.candidates[q.agent])'
  <2> DEFINE b == q.candidates[q.agent]
  <2>1. \E k \in DOMAIN task' : task'[k].to = q.candidates[q.agent]
    BY <1>3 DEF Goes
  <2> QED BY <2>1 DEF Tried
<1> QED BY <1>1, <1>2, <1>4, <1>5, TriedStays DEF Goes, InCall

\* What holds of the attempts of one agent stays when another attempt is made on it, or on one
\* that was not tried before.
LEMMA AvoidedGoes ==
  ASSUME IsSeq(task), NEW q, Goes(q),
         \A i, j, k \in DOMAIN task :
           i < k /\ k < j /\ task[i].to = task[j].to => task[k].to = task[i].to,
         \/ \A k \in DOMAIN task : task[k].to # q.candidates[q.agent]
         \/ task # <<>> /\ Current.to = q.candidates[q.agent]
  PROVE  \A i, j, k \in DOMAIN task' :
           i < k /\ k < j /\ task'[i].to = task'[j].to => task'[k].to = task'[i].to
<1> SUFFICES ASSUME NEW i \in DOMAIN task', NEW j \in DOMAIN task', NEW k \in DOMAIN task',
                    i < k, k < j, task'[i].to = task'[j].to
             PROVE  task'[k].to = task'[i].to
  OBVIOUS
<1> DEFINE n == Len(task)
<1>1. /\ n \in Nat /\ DOMAIN task = 1..n /\ DOMAIN task' = 1..(n + 1)
      /\ \A m \in 1..n : task'[m].to = task[m].to
      /\ task'[n + 1].to = q.candidates[q.agent]
      /\ task # <<>> => n \in 1..n
  BY SeqFacts DEF Goes
<1> HIDE DEF n
<1>2. i \in 1..n /\ k \in 1..n /\ i \in Int /\ j \in Int /\ k \in Int
  BY <1>1
<1>3. CASE j \in 1..n
  BY <1>1, <1>2, <1>3
<1>4. CASE j = n + 1
  <2>1. task[i].to = q.candidates[q.agent]
    BY <1>1, <1>2, <1>4
  <2>2. n \in 1..n /\ task[n].to = q.candidates[q.agent]
    BY <1>1, <1>2, <2>1 DEF Current, n
  <2>3. CASE k = n
    BY <1>1, <1>2, <2>1, <2>2, <2>3
  <2>4. CASE k # n
    <3>1. k < n
      BY <1>1, <1>2, <2>4
    <3> QED BY <1>1, <1>2, <2>1, <2>2, <3>1
  <2> QED BY <2>3, <2>4
<1> QED BY <1>1, <1>3, <1>4

\* The same agent again.
LEMMA AgainInv ==
  ASSUME AuditInv, SearchInv, Chosen, InCall, Try(request, Again),
         at.attempt < request.policy.maxAttemptsPerAgent,
         UNCHANGED <<running, steady, request, failedAgents>>,
         Distinct(request.policy.fallbackAgents) => Spent(attempts', at.attempt)
  PROVE  SearchInv'
<1>1. IsSeq(task) /\ Len(task) \in Nat /\ DOMAIN task = 1..Len(task)
  BY SeqFacts DEF AuditInv, Shape
<1>2. /\ at \in Positions /\ request.policy.maxAttemptsPerAgent \in Nat
      /\ task # <<>> /\ Current.to = at.candidates[at.agent]
  BY DEF SearchInv, InPlace, RecoveryOK
<1>3. CASE Stops /\ (phase' = "exhausted" => Capped(request))
  <2>1. phase' # "idle" /\ ~(InCall)' /\ UNCHANGED <<at, task>>
    BY <1>3 DEF Stops, InCall
  <2>2. \A a \in failedAgents' : Tried(a)
    BY DEF SearchInv, Covered
  <2>3. Distinct(request.policy.fallbackAgents) => WithinAll(attempts')
    BY DEF Spent
  <2> QED BY <1>3, <2>1, <2>2, <2>3, StopsInv
<1>4. CASE Goes(Again) /\ ~Capped(request)
  <2> DEFINE q == Again
  <2>1. /\ q \in Positions /\ q.capability = at.capability /\ q.candidates = at.candidates
        /\ q.agent = at.agent /\ q.attempt = at.attempt + 1
    BY <1>2 DEF Positions, Again
  <2> HIDE DEF q
  <2>2. Goes(q) /\ at' = q /\ phase' = "trying"
    BY <1>4 DEF Goes, q
  <2>3. /\ (InCall)' /\ phase' # "idle" /\ Current'.to = Current.to
        /\ \A a : Tried(a) => Tried(a)'
    BY <1>1, <1>2, <2>1, <2>2, GoesOK
  <2>4. TeamOK' /\ Chosen' /\ RecoveryOK(request)'
    BY <2>3 DEF SearchInv, TeamOK, Chosen, RecoveryOK, Distinct
  <2>5. InPlace'
    <3>1. task' # <<>> /\ Current'.to = at'.candidates[at'.agent] /\ at' \in Positions
      BY <1>2, <2>1, <2>2, <2>3 DEF Goes
    <3>2. at'.attempt \in 1..request.policy.maxAttemptsPerAgent
      BY <1>2, <2>1, <2>2 DEF Positions
    <3>3. /\ at'.capability \in DOMAIN request.chain /\ at'.agent \in DOMAIN at'.candidates
          /\ Distinct(request.policy.fallbackAgents) => Distinct(at'.candidates)
      BY <2>1, <2>2 DEF SearchInv, InPlace
    <3> QED BY <2>2, <3>1, <3>2, <3>3 DEF InPlace, Distinct
  <2>6. Covered'
    <3>1. \A c : Wanted(c)' \subseteq Wanted(c)
      BY WantedStays
    <3>2. \A a \in failedAgents : Tried(a)'
      BY <2>3 DEF SearchInv, Covered
    <3>3. /\ \A i \in 1..at.agent : \A b : b = at.candidates[i] => Tried(b)'
          /\ \A c, a : c = request.chain[at.capability] /\ a \in Wanted(c)' =>
               Tried(a)' \/ a \in Listed(at.candidates)
      BY <2>3, <3>1 DEF SearchInv, Covered
    <3>4. \A k \in DOMAIN request.chain : k < at.capability =>
            \A a \in Wanted(request.chain[k])' : Tried(a)'
      BY <2>3, <3>1 DEF SearchInv, Covered
    <3>5. /\ at'.agent = at.agent /\ at'.capability = at.capability /\ at'.candidates = at.candidates
          /\ phase' # "exhausted"
      BY <2>1, <2>2
    <3> QED BY <3>2, <3>3, <3>4, <3>5 DEF Covered, Listed
  <2>7. Within'
    <3>1. request.policy.maxTotalAttempts > 0 => Len(task') <= request.policy.maxTotalAttempts
      BY <1>1, <1>4, <2>2 DEF Goes, Capped, SearchInv, RecoveryOK
    <3>2. at.attempt = at'.attempt - 1
      BY <1>2, <2>1, <2>2 DEF Positions
    <3>3. Spent(attempts', at.attempt) => Spent(attempts, at.attempt - 1)'
      <4>1. Entries(attempts', Current'.to, request.chain[at.capability]) =
              Entries(attempts', Current.to, request.chain[at.capability])
        BY <2>3
      <4>2. /\ at'.agent = at.agent /\ at'.capability = at.capability
            /\ at'.candidates = at.candidates
        BY <2>1, <2>2
      <4>3. WithinAll(attempts') => WithinAll(attempts)'
        BY DEF WithinAll
      <4> QED BY <3>2, <4>1, <4>2, <4>3 DEF Spent
    <3>4. Spent(attempts, at.attempt - 1)' => WithinAll(attempts)'
      BY DEF Spent
    <3> QED BY <2>2, <3>1, <3>3, <3>4 DEF Within
  <2>8. Avoided'
    <3> SUFFICES ASSUME Distinct(request.policy.fallbackAgents), request.policy.excludeFailedAgents
                 PROVE  Avoided'
      BY DEF Avoided
    <3>1. /\ \A k \in DOMAIN task : task[k].to \in failedAgents \cup {Current.to}
          /\ \A i \in at.agent..Len(at.candidates) : at.candidates[i] \notin failedAgents
          /\ \A i, j, k \in DOMAIN task :
               i < k /\ k < j /\ task[i].to = task[j].to => task[k].to = task[i].to
      BY DEF SearchInv, Avoided
    <3>2. \A i, j, k \in DOMAIN task' :
             i < k /\ k < j /\ task'[i].to = task'[j].to => task'[k].to = task'[i].to
      BY <1>1, <1>2, <2>1, <2>2, <3>1, AvoidedGoes
    <3>3. \A k \in DOMAIN task' : task'[k].to \in failedAgents \cup {Current'.to}
      <4>1. \A k \in DOMAIN task' : k \in 1..Len(task) \/ k = Len(task) + 1
        BY <1>1, <2>2 DEF Goes
      <4> QED BY <1>1, <1>2, <2>1, <2>2, <2>3, <3>1, <4>1 DEF Goes
    <3>4. at'.agent = at.agent /\ at'.candidates = at.candidates
      BY <2>1, <2>2
    <3> QED BY <3>1, <3>2, <3>3, <3>4 DEF Avoided
  <2> QED BY <2>4, <2>5, <2>6, <2>7, <2>8 DEF SearchInv
<1> QED BY <1>1, <1>3, <1>4, TryOK

\* The first attempt on an agent.
LEMMA GoesInv ==
  ASSUME IsSeq(task), NEW r, request' = r, Chosen', RecoveryOK(r), TeamOK',
         NEW q, Goes(q), ~Capped(r), q \in Positions, q.attempt = 1,
         q.capability \in DOMAIN r.chain, q.agent \in DOMAIN q.candidates,
         \A a \in failedAgents' : Tried(a),
         \A i \in 1..q.agent : i = q.agent \/ Tried(q.candidates[i]),
         \A c : c = r.chain[q.capability] =>
                  \A a \in Wanted(c)' : Tried(a) \/ a \in Listed(q.candidates),
         \A k \in DOMAIN r.chain : k < q.capability => \A a \in Wanted(r.chain[k])' : Tried(a),
         Distinct(r.policy.fallbackAgents) =>
           /\ Distinct(q.candidates)
           /\ WithinAll(attempts)'
           /\ Cardinality(Entries(attempts', q.candidates[q.agent], r.chain[q.capability])) = 0
           /\ \A j \in DOMAIN attempts' : \E k \in 1..q.capability :
                /\ attempts'[j].capability = r.chain[k]
                /\ k = q.capability => \E i \in 1..q.agent : attempts'[j].agentId = q.candidates[i],
         Distinct(r.policy.fallbackAgents) /\ r.policy.excludeFailedAgents =>
           /\ \A i \in q.agent..Len(q.candidates) : q.candidates[i] \notin failedAgents'
           /\ \A k \in DOMAIN task : task[k].to \in failedAgents'
           /\ \A i, j, k \in DOMAIN task :
                i < k /\ k < j /\ task[i].to = task[j].to => task[k].to = task[i].to
  PROVE  SearchInv'
<1> DEFINE b == q.candidates[q.agent]
<1>1. /\ Len(task) \in Nat /\ DOMAIN task = 1..Len(task) /\ (InCall)' /\ phase' # "idle"
      /\ Current'.to = b /\ at' = q /\ phase' = "trying"
      /\ \A a : Tried(a) => Tried(a)'
      /\ Tried(q.candidates[q.agent])'
  BY GoesOK DEF Goes
<1>2. RecoveryOK(request)'
  BY DEF RecoveryOK, Distinct
<1>3. InPlace'
  <2>1. q.attempt \in 1..r.policy.maxAttemptsPerAgent
    BY DEF RecoveryOK
  <2>2. task' # <<>>
    BY DEF Goes
  <2> QED BY <1>1, <2>1, <2>2 DEF InPlace, Distinct
<1>4. Covered'
  <2>1. \A a \in failedAgents' : Tried(a)'
    BY <1>1
  <2>2. \A i \in 1..q.agent : \A x : x = q.candidates[i] => Tried(x)'
    <3>1. \A x : x = b => Tried(x)'
      BY <1>1
    <3> QED BY <1>1, <3>1
  <2>3. \A c, a : c = r.chain[q.capability] /\ a \in Wanted(c)' =>
          Tried(a)' \/ a \in Listed(q.candidates)
    BY <1>1
  <2>4. \A k \in DOMAIN r.chain : k < q.capability => \A a \in Wanted(r.chain[k])' : Tried(a)'
    BY <1>1
  <2> QED BY <1>1, <2>1, <2>2, <2>3, <2>4 DEF Covered, Listed
<1>5. Within'
  <2>1. r.policy.maxTotalAttempts > 0 => Len(task') <= r.policy.maxTotalAttempts
    BY <1>1 DEF Goes, Capped, RecoveryOK
  <2>2. Distinct(r.policy.fallbackAgents) => Spent(attempts, at.attempt - 1)'
    <3>1. q.attempt - 1 = 0
      OBVIOUS
    <3> QED BY <1>1, <3>1 DEF Spent
  <2>3. Distinct(r.policy.fallbackAgents) => WithinAll(attempts)'
    OBVIOUS
  <2> QED BY <1>1, <2>1, <2>2, <2>3 DEF Within, Distinct
<1>6. Avoided'
  <2> SUFFICES ASSUME Distinct(r.policy.fallbackAgents), r.policy.excludeFailedAgents
               PROVE  Avoided'
    BY DEF Avoided, Distinct
  <2>1. b \notin failedAgents'
    <3>1. q.agent \in q.agent..Len(q.candidates)
      BY DEF Positions
    <3> QED BY <3>1
  <2>2. \A k \in DOMAIN task : task[k].to # b
    BY <2>1
  <2>3. \A i, j, k \in DOMAIN task' :
          i < k /\ k < j /\ task'[i].to = task'[j].to => task'[k].to = task'[i].to
    BY <2>2, AvoidedGoes
  <2>4. \A k \in DOMAIN task' : task'[k].to \in failedAgents' \cup {Current'.to}
    <3>1. \A k \in DOMAIN task' : k \in 1..Len(task) \/ k = Len(task) + 1
      BY <1>1 DEF Goes
    <3> QED BY <1>1, <3>1 DEF Goes
  <2> QED BY <1>1, <2>3, <2>4 DEF Avoided
<1> QED BY <1>2, <1>3, <1>4, <1>5, <1>6 DEF SearchInv

\* The next agent, after the current one, or none.
LEMMA NextInv ==
  ASSUME AuditInv, SearchInv, Chosen, phase = "trying",
         NEW failed, TryNext(request, at, failed), failedAgents' = failed,
         failed \subseteq failedAgents \cup {Current.to},
         request.policy.excludeFailedAgents => failed = failedAgents \cup {Current.to},
         UNCHANGED <<running, steady, request>>,
         Distinct(request.policy.fallbackAgents) => Spent(attempts', at.attempt)
  PROVE  SearchInv'
<1> DEFINE chain == request.chain
           dist == Distinct(request.policy.fallbackAgents)
           c0 == at.capability
           n == Len(at.candidates)
<1>1. /\ at \in Positions /\ c0 \in DOMAIN chain /\ at.agent \in 1..n /\ n \in Nat /\ c0 \in Nat
      /\ DOMAIN at.candidates = 1..n /\ at.candidates \in Seq(Team) /\ at.agent \in 0..n
      /\ Current.to = at.candidates[at.agent] /\ InCall
      /\ dist => Distinct(at.candidates)
  BY DEF SearchInv, InPlace, InCall, Positions
<1>2. IsSeq(task) /\ RecoveryOK(request) /\ TeamOK /\ running \subseteq Team
  BY DEF AuditInv, Shape, SearchInv, TeamOK
<1>3. DOMAIN chain \subseteq Nat /\ Distinct(chain)
  BY <1>2 DEF RecoveryOK
<1>4. \A a \in failed : Tried(a)
  <2>1. Tried(Current.to)
    BY <1>1 DEF SearchInv, Covered
  <2>2. \A a \in failedAgents : Tried(a)
    BY DEF SearchInv, Covered
  <2> QED BY <2>1, <2>2
<1>5. \A c : Wanted(c)' \subseteq Wanted(c)
  BY WantedStays
<1>6. ASSUME at.agent = n, NEW m \in Nat,
             \A k \in DOMAIN chain : c0 < k /\ k < m => Candidates(request, chain[k], failed) = <<>>
      PROVE  \A k \in DOMAIN chain : k < m => \A a \in Wanted(chain[k]) : Tried(a)
  <2> SUFFICES ASSUME NEW k \in DOMAIN chain, k < m PROVE \A a \in Wanted(chain[k]) : Tried(a)
    OBVIOUS
  <2>0. k \in Nat
    BY <1>3
  <2>1. CASE k <= c0
    BY <1>1, <1>6, <2>1, LeftBehind
  <2>2. CASE ~(k <= c0)
    <3>1. Candidates(request, chain[k], failed) = <<>>
      BY <1>1, <1>6, <2>0, <2>2
    <3> QED BY <1>2, <1>4, <3>1, PassedBy
  <2> QED BY <2>1, <2>2
<1>7. CASE Stops /\ (phase' = "exhausted" => Capped(request) \/ Following(request, at, failed) = {})
  <2>1. phase' # "idle" /\ ~(InCall)' /\ UNCHANGED <<at, task>>
    BY <1>7 DEF Stops, InCall
  <2>2. dist => WithinAll(attempts')
    BY DEF Spent
  <2>3. ASSUME Following(request, at, failed) = {}
        PROVE  \A k \in DOMAIN chain : \A a \in Wanted(chain[k]) : Tried(a)
    <3>1. /\ at.agent = n
          /\ \A k \in DOMAIN chain : k > c0 => Candidates(request, chain[k], failed) = <<>>
      BY <1>1, <1>2, <2>3, FollowingOK
    <3> SUFFICES ASSUME NEW k \in DOMAIN chain PROVE \A a \in Wanted(chain[k]) : Tried(a)
      OBVIOUS
    <3>2. k \in Nat /\ k + 1 \in Nat /\ k < k + 1
      BY <1>3
    <3>3. \A j \in DOMAIN chain : c0 < j /\ j < k + 1 => Candidates(request, chain[j], failed) = <<>>
      BY <1>1, <1>3, <3>1
    <3> QED BY <1>6, <3>1, <3>2, <3>3
  <2> QED BY <1>4, <1>7, <2>1, <2>2, <2>3, StopsInv
<1>8. ASSUME NEW q \in Following(request, at, failed), Goes(q), ~Capped(request)
      PROVE  SearchInv'
  <2>1. phase' # "idle"
    BY <1>8 DEF Goes
  <2>2. TeamOK' /\ Chosen'
    BY <1>2, <2>1 DEF TeamOK, Chosen
  <2>3. dist => /\ WithinAll(attempts')
                /\ \A j \in DOMAIN attempts' : \E k \in 1..c0 :
                     /\ attempts'[j].capability = chain[k]
                     /\ k = c0 => \E i \in 1..at.agent : attempts'[j].agentId = at.candidates[i]
    BY DEF Spent
  <2>4. WithinAll(attempts') => WithinAll(attempts)'
    BY DEF WithinAll
  <2>5. dist /\ request.policy.excludeFailedAgents =>
          /\ \A k \in DOMAIN task : task[k].to \in failed
          /\ \A i, j, k \in DOMAIN task :
               i < k /\ k < j /\ task[i].to = task[j].to => task[k].to = task[i].to
          /\ \A i \in at.agent..n : at.candidates[i] \notin failedAgents
    BY <1>1 DEF SearchInv, Avoided
  <2>6. CASE at.agent < n /\ q = [at EXCEPT !.agent = @ + 1, !.attempt = 1]
    <3>1. /\ q \in Positions /\ q.attempt = 1 /\ q.capability = c0 /\ q.candidates = at.candidates
          /\ q.agent = at.agent + 1 /\ q.agent \in 1..n
      <4>1. at \in [capability : Nat, candidates : Seq(Team), agent : Nat, attempt : Nat]
        BY <1>1 DEF Positions
      <4>2. q = [at EXCEPT !.agent = at.agent + 1, !.attempt = 1]
        BY <2>6
      <4>3. at.agent + 1 \in Nat /\ at.agent + 1 \in 1..n
        BY <1>1, <2>6
      <4> QED BY <4>1, <4>2, <4>3 DEF Positions
    <3>2. \A i \in 1..q.agent : i = q.agent \/ Tried(q.candidates[i])
      <4>1. \A i \in 1..at.agent : Tried(at.candidates[i])
        BY <1>1 DEF SearchInv, Covered
      <4>2. \A i \in 1..q.agent : i = q.agent \/ i \in 1..at.agent
        BY <1>1, <3>1
      <4> QED BY <3>1, <4>1, <4>2
    <3>3. \A c : c = chain[q.capability] =>
                   \A a \in Wanted(c)' : Tried(a) \/ a \in Listed(q.candidates)
      BY <1>1, <1>5, <3>1 DEF SearchInv, Covered
    <3>4. \A k \in DOMAIN chain : k < q.capability => \A a \in Wanted(chain[k])' : Tried(a)
      BY <1>5, <3>1 DEF SearchInv, Covered
    <3>5. ASSUME dist
          PROVE  Cardinality(Entries(attempts', q.candidates[q.agent], chain[q.capability])) = 0
      <4>1. \A j \in Entries(attempts', q.candidates[q.agent], chain[q.capability]) : FALSE
        <5> SUFFICES ASSUME NEW j \in Entries(attempts', q.candidates[q.agent], chain[q.capability])
                     PROVE  FALSE
          OBVIOUS
        <5>1. /\ j \in DOMAIN attempts' /\ attempts'[j].agentId = at.candidates[at.agent + 1]
              /\ attempts'[j].capability = chain[c0]
          BY <3>1 DEF Entries
        <5>2. PICK k \in 1..c0 :
                     /\ attempts'[j].capability = chain[k]
                     /\ k = c0 => \E i \in 1..at.agent : attempts'[j].agentId = at.candidates[i]
          BY <2>3, <3>5, <5>1
        <5>3. k \in DOMAIN chain
          BY <1>1, <1>2, <5>2 DEF RecoveryOK
        <5>4. k = c0
          BY <1>1, <1>3, <5>1, <5>2, <5>3 DEF Distinct
        <5>5. PICK i \in 1..at.agent : at.candidates[at.agent + 1] = at.candidates[i]
          BY <5>1, <5>2, <5>4
        <5>6. i \in 1..n /\ at.agent + 1 \in 1..n /\ i # at.agent + 1
          BY <1>1, <2>6
        <5> QED BY <1>1, <3>5, <5>5, <5>6 DEF Distinct
      <4> QED BY <4>1, FS_EmptySet
    <3>6. dist => \A j \in DOMAIN attempts' : \E k \in 1..q.capability :
                    /\ attempts'[j].capability = chain[k]
                    /\ k = q.capability =>
                         \E i \in 1..q.agent : attempts'[j].agentId = q.candidates[i]
      <4>1. 1..at.agent \subseteq 1..q.agent
        BY <1>1, <3>1
      <4> QED BY <2>3, <3>1, <4>1
    <3>7. dist /\ request.policy.excludeFailedAgents =>
            \A i \in q.agent..Len(q.candidates) : q.candidates[i] \notin failed
      <4> SUFFICES ASSUME dist, request.policy.excludeFailedAgents, NEW i \in q.agent..n
                   PROVE  at.candidates[i] \notin failed
        BY <3>1
      <4>1. i \in at.agent..n /\ i \in 1..n /\ i # at.agent
        BY <1>1, <3>1
      <4>2. at.candidates[i] # at.candidates[at.agent]
        BY <1>1, <4>1 DEF Distinct
      <4> QED BY <1>1, <2>5, <4>1, <4>2
    <3>8. q.capability \in DOMAIN chain /\ q.agent \in DOMAIN q.candidates
          /\ (dist => Distinct(q.candidates))
      BY <1>1, <3>1
    <3> QED BY <1>2, <1>4, <1>8, <2>2, <2>3, <2>4, <2>5, <3>1, <3>2, <3>3, <3>4, <3>5, <3>6, <3>7, <3>8,
               GoesInv
  <2>7. CASE /\ at.agent = n
             /\ q.capability \in DOMAIN chain /\ q.capability > c0
             /\ q.candidates = Candidates(request, chain[q.capability], failed)
             /\ q.candidates # <<>> /\ q.agent = 1 /\ q.attempt = 1
             /\ q = [capability |-> q.capability, candidates |-> q.candidates,
                     agent |-> q.agent, attempt |-> q.attempt]
             /\ \A k \in DOMAIN chain : c0 < k /\ k < q.capability =>
                  Candidates(request, chain[k], failed) = <<>>
    <3> DEFINE c1 == chain[q.capability]
    <3>1. /\ q.candidates \in Seq(Team)
          /\ Listed(q.candidates) = Listed(ResolveAgentCandidates(request, c1)) \ failed
          /\ dist => Distinct(q.candidates)
      BY <1>2, <2>7, CandidatesOK
    <3>2. q \in Positions /\ q.agent \in DOMAIN q.candidates
      <4>1. q.capability \in Nat
        BY <1>3, <2>7
      <4>2. q.agent \in Nat /\ q.attempt \in Nat /\ 1 \in 1..Len(q.candidates)
        BY <2>7, <3>1
      <4> QED BY <2>7, <3>1, <4>1, <4>2 DEF Positions
    <3>3. \A i \in 1..q.agent : i = q.agent
      BY <2>7
    <3>4. \A c : c = c1 => \A a \in Wanted(c)' : Tried(a) \/ a \in Listed(q.candidates)
      <4>1. Wanted(c1) \subseteq Listed(ResolveAgentCandidates(request, c1))
        BY <1>2, WantedResolved
      <4> QED BY <1>4, <1>5, <3>1, <4>1
    <3>5. \A k \in DOMAIN chain : k < q.capability => \A a \in Wanted(chain[k])' : Tried(a)
      <4>1. q.capability \in Nat
        BY <1>3, <2>7
      <4> QED BY <1>5, <1>6, <2>7, <4>1
    <3>6. dist => \A j \in DOMAIN attempts' : \E k \in 1..q.capability :
                    /\ attempts'[j].capability = chain[k] /\ k # q.capability
      <4>1. \A k \in 1..c0 : k \in 1..q.capability /\ k # q.capability
        BY <1>1, <1>3, <2>7
      <4> QED BY <2>3, <4>1
    <3>7. ASSUME dist
          PROVE  Cardinality(Entries(attempts', q.candidates[q.agent], chain[q.capability])) = 0
      <4>1. \A j \in Entries(attempts', q.candidates[q.agent], chain[q.capability]) : FALSE
        <5> SUFFICES ASSUME NEW j \in Entries(attempts', q.candidates[q.agent], chain[q.capability])
                     PROVE  FALSE
          OBVIOUS
        <5>1. j \in DOMAIN attempts' /\ attempts'[j].capability = chain[q.capability]
          BY DEF Entries
        <5>2. PICK k \in 1..q.capability :
                     attempts'[j].capability = chain[k] /\ k # q.capability
          BY <3>6, <3>7, <5>1
        <5>3. k \in DOMAIN chain
          BY <1>2, <2>7, <5>2 DEF RecoveryOK
        <5> QED BY <1>3, <2>7, <5>1, <5>2, <5>3 DEF Distinct
      <4> QED BY <4>1, FS_EmptySet
    <3>8. \A i \in q.agent..Len(q.candidates) : q.candidates[i] \notin failed
      <4>1. \A i \in q.agent..Len(q.candidates) : i \in DOMAIN q.candidates
        BY <2>7, <3>1
      <4> QED BY <3>1, <4>1 DEF Listed
    <3> HIDE DEF dist
    <3> QED BY <1>2, <1>4, <1>8, <2>2, <2>3, <2>4, <2>5, <2>7, <3>1, <3>2, <3>3, <3>4, <3>5, <3>6, <3>7,
               <3>8, GoesInv DEF dist
  <2> QED BY <1>1, <1>2, <1>8, <2>6, <2>7, FollowingOK
<1> QED BY <1>2, <1>7, <1>8, TryNextOK

-------------------------------------------------------------------------------
\* Nobody has failed yet.
Nobody == {}

\* A call begins.
LEMMA FirstInv ==
  ASSUME AuditInv, SearchInv, phase = "idle", NEW r, RecoveryOK(r), request' = r,
         TryNext(r, AtStart, Nobody), Chosen', steady' = running,
         UNCHANGED <<running, failedAgents, attempts>>
  PROVE  SearchInv'
<1>1. /\ task = <<>> /\ attempts = <<>> /\ IsSeq(task) /\ at = AtStart /\ failedAgents = {}
      /\ running \subseteq Team
  BY DEF AuditInv, Shape, SearchInv, TeamOK
<1>2. /\ AtStart \in Positions /\ AtStart.capability = 0 /\ AtStart.candidates = <<>>
      /\ AtStart.agent = 0 /\ Len(AtStart.candidates) = 0 /\ AtStart.candidates \in Seq(Team)
      /\ AtStart.capability \in Nat /\ AtStart.agent \in 0..Len(AtStart.candidates)
      /\ ~(AtStart.agent < Len(AtStart.candidates))
  BY DEF AtStart, Positions
<1>3. DOMAIN r.chain \subseteq Nat \ {0}
  BY DEF RecoveryOK
<1>4. \A c : Wanted(c)' \subseteq Listed(ResolveAgentCandidates(r, c))
  <2> SUFFICES ASSUME NEW c PROVE Wanted(c)' \subseteq Listed(ResolveAgentCandidates(r, c))
    OBVIOUS
  <2>1. Listed(ResolveAgentCandidates(r, c)) =
          IF r.step.to # Undefined THEN {r.step.to}
          ELSE IF r.policy.fallbackAgents # <<>> THEN Listed(r.policy.fallbackAgents)
          ELSE Offering(c)
    BY <1>1, ResolveOK
  <2> QED BY <2>1 DEF Wanted, Offering
<1>5. ASSUME NEW c PROVE Wanted(c)' \subseteq Listed(Candidates(r, c, Nobody))
  <2>1. Listed(Candidates(r, c, Nobody)) = Listed(ResolveAgentCandidates(r, c)) \ Nobody
    BY <1>1, CandidatesOK
  <2> QED BY <1>4, <2>1 DEF Nobody
<1>6. ASSUME NEW c, Candidates(r, c, Nobody) = <<>> PROVE Wanted(c)' = {}
  <2>1. Listed(Candidates(r, c, Nobody)) = {}
    BY <1>6 DEF Listed
  <2> QED BY <1>5, <2>1
<1>7. /\ \A a, c : Entries(attempts', a, c) = {}
      /\ Cardinality({}) = 0 /\ WithinAll(attempts)'
  <2>1. DOMAIN attempts' = {}
    BY <1>1
  <2>2. \A a, c : Entries(attempts', a, c) = {}
    BY <2>1 DEF Entries
  <2>3. Cardinality({}) = 0
    BY FS_EmptySet
  <2>4. WithinAll(attempts)'
    <3>1. \A a, c : Cardinality(Entries(attempts', a, c)) = 0
      BY <2>2, <2>3
    <3> QED BY <3>1 DEF WithinAll, RecoveryOK
  <2> QED BY <2>2, <2>3, <2>4
<1>8. TeamOK' /\ RecoveryOK(request)'
  <2>1. phase' # "idle"
    BY <1>1, TryNextOK DEF Goes, Stops
  <2> QED BY <1>1, <2>1 DEF TeamOK, RecoveryOK, Distinct
<1>9. CASE Stops /\ (phase' = "exhausted" => Capped(r) \/ Following(r, AtStart, Nobody) = {})
  <2>1. ~(InCall)' /\ at' = AtStart /\ task' = <<>> /\ phase' # "trying" /\ phase' # "backoff"
    BY <1>1, <1>9 DEF Stops, InCall
  <2>2. InPlace'
    BY <1>2, <2>1 DEF InPlace
  <2>3. Covered'
    <3>1. ASSUME phase' = "exhausted", ~Capped(request)'
          PROVE  \A k \in DOMAIN r.chain : Wanted(r.chain[k])' = {}
      <4>1. Following(r, AtStart, Nobody) = {}
        BY <1>1, <1>9, <2>1, <3>1 DEF Capped
      <4>2. \A k \in DOMAIN r.chain :
              k > AtStart.capability => Candidates(r, r.chain[k], Nobody) = <<>>
        BY <1>1, <1>2, <4>1, FollowingOK
      <4>3. \A k \in DOMAIN r.chain : k > 0
        BY <1>3
      <4> QED BY <1>2, <1>6, <4>2, <4>3
    <3>2. \A k \in DOMAIN r.chain : ~(k < at'.capability)
      BY <1>2, <1>3, <2>1
    <3> QED BY <1>1, <2>1, <3>1, <3>2 DEF Covered
  <2>4. Within'
    <3>1. request'.policy.maxTotalAttempts > 0 => Len(task') <= request'.policy.maxTotalAttempts
      BY <2>1 DEF RecoveryOK
    <3> QED BY <1>7, <2>1, <3>1 DEF Within
  <2>5. Avoided'
    BY <2>1 DEF Avoided
  <2> QED BY <1>8, <2>2, <2>3, <2>4, <2>5 DEF SearchInv
<1>10. ASSUME NEW q \in Following(r, AtStart, Nobody), Goes(q), ~Capped(r)
       PROVE  SearchInv'
  <2>1. /\ q.capability \in DOMAIN r.chain
        /\ q.candidates = Candidates(r, r.chain[q.capability], Nobody)
        /\ q.candidates # <<>> /\ q.agent = 1 /\ q.attempt = 1
        /\ q = [capability |-> q.capability, candidates |-> q.candidates,
                agent |-> q.agent, attempt |-> q.attempt]
        /\ \A k \in DOMAIN r.chain : AtStart.capability < k /\ k < q.capability =>
             Candidates(r, r.chain[k], Nobody) = <<>>
    BY <1>1, <1>2, FollowingOK
  <2>2. /\ q.candidates \in Seq(Team)
        /\ Distinct(r.policy.fallbackAgents) => Distinct(q.candidates)
    BY <1>1, <2>1, CandidatesOK
  <2>3. q \in Positions /\ q.agent \in DOMAIN q.candidates
    <3>1. q.capability \in Nat
      BY <1>3, <2>1
    <3>2. q.agent \in Nat /\ q.attempt \in Nat /\ 1 \in 1..Len(q.candidates)
      BY <2>1, <2>2
    <3> QED BY <2>1, <2>2, <3>1, <3>2 DEF Positions
  <2>4. \A i \in 1..q.agent : i = q.agent
    BY <2>1
  <2>5. \A c : c = r.chain[q.capability] => \A a \in Wanted(c)' : a \in Listed(q.candidates)
    BY <1>5, <2>1
  <2>6. \A k \in DOMAIN r.chain : k < q.capability => Wanted(r.chain[k])' = {}
    <3>1. \A k \in DOMAIN r.chain : 0 < k
      BY <1>3
    <3> QED BY <1>2, <1>6, <2>1, <3>1
  <2>7. DOMAIN task = {}
    BY <1>1
  <2>8. Cardinality(Entries(attempts', q.candidates[q.agent], r.chain[q.capability])) = 0
    BY <1>7
  <2> QED BY <1>1, <1>7, <1>8, <1>10, <2>1, <2>2, <2>3, <2>4, <2>5, <2>6, <2>7, <2>8, GoesInv
<1> QED BY <1>1, <1>9, <1>10, TryNextOK

\* No search, without a policy.
LEMMA UnchosenInv ==
  ASSUME SearchInv, ~Chosen', phase' # "idle", running' \subseteq Team, steady' \subseteq running'
  PROVE  SearchInv'
<1> QED BY DEF SearchInv, TeamOK

LEMMA BeginSearch ==
  ASSUME AuditInv, SearchInv, NEW q \in Asked,
         \/ SendTaskWithRecovery(q.step, q.policy, q.wait)
         \/ ExecuteStepTask(q.step, q.policy)
  PROVE  SearchInv'
<1>1. /\ q.step.capability \in Offers /\ q.step.to \in Team \cup {Undefined}
      /\ q.step.fallbackCapabilities \in Seq(Offers)
      /\ MaybePolicy(q.policy) /\ MaybePolicy(q.step.recovery)
  BY WhatIsAsked
<1>2. running \subseteq Team /\ IsSeq(task)
  BY DEF SearchInv, TeamOK, AuditInv, Shape
<1>3. ASSUME NEW policy, PolicyOK(policy), NEW w,
             Recovering(q.step, NormalizeTaskRecoveryPolicy(policy), w)
      PROVE  SearchInv'
  <2> DEFINE p == NormalizeTaskRecoveryPolicy(policy)
             r == [step |-> q.step, policy |-> p, wait |-> w,
                   chain |-> BuildCapabilityChain(q.step, p)]
  <2>1. /\ p.maxAttemptsPerAgent \in Nat \ {0} /\ p.maxTotalAttempts \in Nat
        /\ p.fallbackAgents \in Seq(Team) /\ p.fallbackCapabilities \in Seq(Offers)
    BY <1>3, NormalizedOK
  <2>2. /\ phase = "idle" /\ request' = r /\ steady' = running /\ TryNext(r, AtStart, {})
        /\ UNCHANGED <<running, failedAgents, attempts>>
    BY <1>3 DEF Recovering
  <2>3. RecoveryOK(r)
    <3> HIDE DEF p
    <3>1. BuildCapabilityChain(q.step, p) \in Seq(Offers) /\ Distinct(BuildCapabilityChain(q.step, p))
      BY <1>1, <2>1, ChainOK
    <3>2. r.step = q.step /\ r.policy = p /\ r.chain = BuildCapabilityChain(q.step, p)
      OBVIOUS
    <3> HIDE DEF r
    <3> QED BY <1>1, <2>1, <3>1, <3>2 DEF RecoveryOK
  <2> HIDE DEF p, r
  <2>4. phase' # "idle"
    BY <1>2, <2>2, TryNextOK DEF Goes, Stops
  <2> QED BY <1>2, <2>2, <2>3, <2>4, FirstInv, UnchosenInv DEF Nobody
<1>4. CASE SendTaskWithRecovery(q.step, q.policy, q.wait)
  <2>1. CASE q.policy # Undefined
    BY <1>1, <1>3, <1>4, <2>1 DEF SendTaskWithRecovery, MaybePolicy
  <2>2. CASE q.policy = Undefined
    <3>1. Recovering(q.step, NormalizeTaskRecoveryPolicy(DefaultPolicy), q.wait)
      BY <1>4, <2>2 DEF SendTaskWithRecovery
    <3>2. PolicyOK(DefaultPolicy)
      BY DEF PolicyOK, Given, DefaultPolicy
    <3> QED BY <1>3, <3>1, <3>2
  <2> QED BY <2>1, <2>2
<1>5. CASE ExecuteStepTask(q.step, q.policy)
  <2> DEFINE policy == MergeRecoveryPolicies(q.policy, q.step.recovery)
  <2>1. MaybePolicy(policy)
    BY <1>1, MergeOK
  <2> HIDE DEF policy
  <2>2. CASE policy # Undefined /\ Recovering(q.step, NormalizeTaskRecoveryPolicy(policy), TRUE)
    BY <1>3, <2>1, <2>2 DEF MaybePolicy
  <2>3. CASE policy = Undefined
    <3>1. PICK rq, p : /\ request' = rq /\ rq.policy = Undefined /\ steady' = running
                       /\ running' = running /\ SendSubTask(p)
      <4> DEFINE rq == [step |-> q.step, policy |-> Undefined, wait |-> TRUE,
                        chain |-> <<q.step.capability>>]
      <4>1. request' = rq /\ steady' = running /\ running' = running /\ \E p : SendSubTask(p)
        BY <1>5, <2>3 DEF ExecuteStepTask, policy
      <4>2. rq.policy = Undefined
        OBVIOUS
      <4> HIDE DEF rq
      <4> QED BY <4>1, <4>2
    <3>2. phase' # "idle"
      BY <3>1 DEF SendSubTask
    <3> QED BY <1>2, <3>1, <3>2, UnchosenInv DEF Chosen
  <2>4. policy # Undefined => Recovering(q.step, NormalizeTaskRecoveryPolicy(policy), TRUE)
    BY <1>5 DEF ExecuteStepTask, policy
  <2> QED BY <2>2, <2>3, <2>4
<1> QED BY <1>4, <1>5

\* The attempt that has returned is over.
LEMMA SucceedSearch ==
  ASSUME AuditInv, SearchInv, Chosen, Succeed
  PROVE  SearchInv'
<1>1. /\ AttemptReturned /\ phase' = "succeeded"
      /\ UNCHANGED <<at, task, request, running, steady, failedAgents>>
      /\ attempts' = Logged("success", Undefined)
  BY DEF Succeed, envVars
<1>2. ~(InCall)' /\ phase' # "idle"
  BY <1>1 DEF InCall
<1>3. \A a \in failedAgents' : Tried(a)
  BY <1>1 DEF SearchInv, Covered
<1>4. Distinct(request.policy.fallbackAgents) => WithinAll(attempts')
  BY <1>1, LogSpends DEF Spent
<1> QED BY <1>1, <1>2, <1>3, <1>4, StopsInv

LEMMA RetrySearch ==
  ASSUME AuditInv, SearchInv, Chosen, Retry
  PROVE  SearchInv'
<1>1. /\ AttemptReturned /\ phase = "trying" /\ at.attempt < request.policy.maxAttemptsPerAgent
      /\ attempts' = Logged(ClassifyError(Code), Code) /\ InCall
      /\ UNCHANGED <<request, running, steady, failedAgents>>
  BY DEF Retry, RetrySameAgent, AttemptReturned, InCall, envVars
<1>2. Distinct(request.policy.fallbackAgents) => Spent(attempts', at.attempt)
  BY <1>1, LogSpends
<1>3. CASE Try(request, Again)
  BY <1>1, <1>2, <1>3, AgainInv
<1>4. CASE phase' = "backoff" /\ UNCHANGED <<at, task>>
  <2>1. TeamOK' /\ Chosen' /\ RecoveryOK(request)'
    BY <1>1, <1>4 DEF SearchInv, TeamOK, Chosen, RecoveryOK, Distinct
  <2>2. InPlace'
    BY <1>1, <1>4 DEF SearchInv, InPlace, InCall, Current, Distinct
  <2>3. Covered'
    <3>1. \A a : Tried(a)' <=> Tried(a)
      BY <1>4 DEF Tried
    <3>2. \A c : Wanted(c)' = Wanted(c)
      BY <1>1 DEF Wanted
    <3>3. /\ \A a \in failedAgents : Tried(a)
          /\ \A i \in 1..at.agent : Tried(at.candidates[i])
          /\ \A a \in Wanted(request.chain[at.capability]) : Tried(a) \/ a \in Listed(at.candidates)
          /\ \A k \in DOMAIN request.chain :
               k < at.capability => \A a \in Wanted(request.chain[k]) : Tried(a)
      BY <1>1 DEF SearchInv, Covered
    <3>4. \A i \in 1..at.agent : \A b : b = at.candidates[i] => Tried(b)'
      BY <3>1, <3>3
    <3>5. \A c, a : c = request.chain[at.capability] /\ a \in Wanted(c)' =>
                      Tried(a)' \/ a \in Listed(at.candidates)
      BY <3>1, <3>2, <3>3
    <3>6. \A k \in DOMAIN request.chain : \A c, a :
            k < at.capability /\ c = request.chain[k] /\ a \in Wanted(c)' => Tried(a)'
      BY <3>1, <3>2, <3>3
    <3>7. \A a \in failedAgents : Tried(a)'
      BY <3>1, <3>3
    <3> QED BY <1>1, <1>4, <3>4, <3>5, <3>6, <3>7 DEF Covered, Listed
  <2>4. Within'
    <3>1. Spent(attempts', at.attempt) => Spent(attempts, at.attempt)' /\ WithinAll(attempts)'
      BY <1>1, <1>4 DEF Spent, WithinAll, Current
    <3>2. request.policy.maxTotalAttempts > 0 => Len(task') <= request.policy.maxTotalAttempts
      BY <1>4 DEF SearchInv, Within
    <3> QED BY <1>1, <1>2, <1>4, <3>1, <3>2 DEF Within
  <2>5. Avoided'
    BY <1>1, <1>4 DEF SearchInv, Avoided, InCall, Current
  <2> QED BY <2>1, <2>2, <2>3, <2>4, <2>5 DEF SearchInv
<1> QED BY <1>3, <1>4 DEF Retry

LEMMA WakeSearch ==
  ASSUME AuditInv, SearchInv, Chosen, Wake
  PROVE  SearchInv'
<1>1. /\ phase = "backoff" /\ InCall /\ Try(request, Again)
      /\ UNCHANGED <<request, running, steady, failedAgents, attempts>>
  BY DEF Wake, InCall, envVars
<1>2. at.attempt < request.policy.maxAttemptsPerAgent
  BY <1>1 DEF SearchInv, InPlace
<1>3. Distinct(request.policy.fallbackAgents) => Spent(attempts', at.attempt)
  <2>1. Distinct(request.policy.fallbackAgents) => Spent(attempts, at.attempt)
    BY <1>1 DEF SearchInv, Within
  <2> QED BY <1>1, <2>1
<1> QED BY <1>1, <1>2, <1>3, AgainInv

LEMMA FailOverSearch ==
  ASSUME AuditInv, SearchInv, Chosen, FailOver
  PROVE  SearchInv'
<1> DEFINE failed == failedAgents \cup IF request.policy.excludeFailedAgents THEN {Current.to} ELSE {}
<1>1. /\ AttemptReturned /\ phase = "trying"
      /\ attempts' = Logged(ClassifyError(Code), Code)
      /\ failedAgents' = failed /\ TryNext(request, at, failed)
      /\ UNCHANGED <<request, running, steady>>
  BY DEF FailOver, AttemptReturned, envVars
<1>2. Distinct(request.policy.fallbackAgents) => Spent(attempts', at.attempt)
  BY <1>1, LogSpends
<1>3. failed \subseteq failedAgents \cup {Current.to}
  OBVIOUS
<1>4. request.policy.excludeFailedAgents => failed = failedAgents \cup {Current.to}
  OBVIOUS
<1> HIDE DEF failed
<1> QED BY <1>1, <1>2, <1>3, <1>4, NextInv

-------------------------------------------------------------------------------
\* What happens to the agents, the bus and the caller does not touch the search.
LEMMA QuietInv ==
  ASSUME AuditInv, AuditInv', SearchInv, UNCHANGED <<request, phase, at, failedAgents, attempts>>,
         running' \subseteq Team, steady' \subseteq running', steady' \subseteq steady,
         DOMAIN task' = DOMAIN task, \A k \in DOMAIN task : task'[k].to = task[k].to
  PROVE  SearchInv'
<1>1. /\ Len(task) \in Nat /\ Len(task') \in Nat
      /\ DOMAIN task = 1..Len(task) /\ DOMAIN task' = 1..Len(task')
      /\ task # <<>> => Len(task) \in 1..Len(task)
  BY SeqFacts DEF AuditInv, Shape
<1>2. Len(task') = Len(task)
  BY <1>1
<1>3. task # <<>> => Current'.to = Current.to /\ task' # <<>>
  <2>1. task # <<>> => task' # <<>>
    BY <1>1
  <2>2. task # <<>> => Len(task) \in DOMAIN task
    BY <1>1
  <2> QED BY <1>2, <2>1, <2>2 DEF Current
<1>4. TeamOK'
  BY DEF SearchInv, TeamOK
<1> SUFFICES ASSUME Chosen PROVE SearchInv'
  BY <1>4 DEF SearchInv, Chosen
<1>5. RecoveryOK(request)'
  BY DEF SearchInv, RecoveryOK, Distinct
<1>6. InPlace'
  BY <1>3 DEF SearchInv, InPlace, InCall, Distinct
<1>7. \A a : Tried(a)' <=> Tried(a)
  BY DEF Tried
<1>8. \A c : Wanted(c)' \subseteq Wanted(c)
  BY WantedStays
<1>9. Covered'
  <2>1. \A a \in failedAgents : Tried(a)'
    BY <1>7 DEF SearchInv, Covered
  <2>2. InCall => \A i \in 1..at.agent : \A b : b = at.candidates[i] => Tried(b)'
    BY <1>7 DEF SearchInv, Covered
  <2>3. InCall => \A c, a : c = request.chain[at.capability] /\ a \in Wanted(c)' =>
                              Tried(a)' \/ a \in Listed(at.candidates)
    BY <1>7, <1>8 DEF SearchInv, Covered
  <2>4. \A k \in DOMAIN request.chain :
          k < at.capability \/ (phase = "exhausted" /\ ~Capped(request)) =>
            \A a \in Wanted(request.chain[k])' : Tried(a)'
    BY <1>7, <1>8 DEF SearchInv, Covered
  <2>5. Capped(request)' <=> Capped(request)
    BY <1>2 DEF Capped
  <2> QED BY <2>1, <2>2, <2>3, <2>4, <2>5 DEF Covered, Listed, InCall
<1>10. Within'
  <2>1. WithinAll(attempts) => WithinAll(attempts)'
    BY DEF WithinAll
  <2>2. InCall <=> phase \in {"trying", "backoff"}
    BY DEF InCall
  <2>3. /\ Spent(attempts, at.attempt - 1) /\ InCall => Spent(attempts, at.attempt - 1)'
        /\ Spent(attempts, at.attempt) /\ InCall => Spent(attempts, at.attempt)'
    <3>1. InCall => Current'.to = Current.to
      BY <1>3 DEF SearchInv, InPlace
    <3> QED BY <3>1 DEF Spent, WithinAll
  <2> QED BY <1>2, <2>1, <2>2, <2>3 DEF SearchInv, Within, Distinct
<1>11. Avoided'
  <2>1. InCall => Current'.to = Current.to
    BY <1>3 DEF SearchInv, InPlace
  <2>2. \A i, j, k \in DOMAIN task' :
          task'[i].to = task[i].to /\ task'[j].to = task[j].to /\ task'[k].to = task[k].to
    OBVIOUS
  <2>3. InCall' <=> InCall
    BY DEF InCall
  <2> QED BY <2>1, <2>2, <2>3 DEF SearchInv, Avoided, Distinct
<1> QED BY <1>4, <1>5, <1>6, <1>9, <1>10, <1>11 DEF SearchInv, Chosen

LEMMA SearchStep ==
  ASSUME AuditInv, AuditInv', SearchInv, [SendNext]_failoverVars
  PROVE  SearchInv'
<1>1. running \subseteq Team /\ steady \subseteq running
  BY DEF SearchInv, TeamOK
<1>2. ASSUME NEW q \in Asked,
             \/ SendTaskWithRecovery(q.step, q.policy, q.wait)
             \/ ExecuteStepTask(q.step, q.policy)
      PROVE  SearchInv'
  BY <1>2, BeginSearch
<1>3. ASSUME Succeed \/ Retry \/ Wake \/ FailOver \/ StepReturns
      PROVE  SearchInv'
  <2>1. CASE Chosen /\ ~StepReturns
    BY <1>3, <2>1, SucceedSearch, RetrySearch, WakeSearch, FailOverSearch
  <2>2. CASE ~Chosen
    <3>1. UNCHANGED <<request, running, steady>>
      BY <1>3 DEF Succeed, Retry, Wake, FailOver, StepReturns, envVars
    <3>2. phase # "idle"
      BY <1>3 DEF Succeed, Retry, Wake, FailOver, StepReturns, AttemptReturned
    <3>3. phase' # "idle"
      <4>1. CASE Succeed \/ StepReturns
        BY <4>1 DEF Succeed, StepReturns
      <4>2. IsSeq(task)
        BY DEF AuditInv, Shape
      <4>3. CASE \/ Try(request, Again) \/ \E failed : TryNext(request, at, failed)
                 \/ phase' = "backoff"
        BY <4>2, <4>3, TryOK, TryNextOK DEF Goes, Stops
      <4>4. Retry \/ Wake \/ FailOver => \/ Try(request, Again)
                                         \/ \E failed : TryNext(request, at, failed)
                                         \/ phase' = "backoff"
        BY DEF Retry, Wake, FailOver
      <4> QED BY <1>3, <4>1, <4>3, <4>4
    <3> QED BY <1>1, <2>2, <3>1, <3>3, UnchosenInv DEF Chosen
  <2>3. CASE StepReturns
    <3>1. ~Chosen
      BY <2>3 DEF StepReturns, Chosen
    <3> QED BY <2>2, <3>1
  <2> QED BY <2>1, <2>2, <2>3
<1>4. ASSUME NEW k \in DOMAIN task, NEW how, NEW told, Perform(k, how, told)
      PROVE  SearchInv'
  <2>1. /\ UNCHANGED <<request, phase, at, failedAgents, attempts, running, steady>>
        /\ task' = [task EXCEPT ![k].state = how]
    BY <1>4 DEF Perform, envVars
  <2>2. "state" \in DOMAIN task[k]
    BY DEF AuditInv, Shape
  <2>3. DOMAIN task' = DOMAIN task /\ \A i \in DOMAIN task : task'[i].to = task[i].to
    <3>1. task' = [i \in DOMAIN task |-> IF i = k THEN [task[k] EXCEPT !.state = how] ELSE task[i]]
      BY <2>1
    <3>2. [task[k] EXCEPT !.state = how].to = task[k].to
      BY <2>2
    <3> QED BY <3>1, <3>2
  <2> QED BY <1>1, <2>1, <2>3, QuietInv
<1>5. CASE Timeout \/ StopCaller \/ \E up \in BOOLEAN : SetBusOpen(up)
  <2>1. UNCHANGED <<request, phase, at, failedAgents, attempts, running, steady, task>>
    BY <1>5 DEF Timeout, StopCaller, SetBusOpen, envVars, attemptVars
  <2> QED BY <1>1, <2>1, QuietInv
<1>6. ASSUME NEW a \in Team, StartAgent(a)
      PROVE  SearchInv'
  <2>1. /\ UNCHANGED <<request, phase, at, failedAgents, attempts, steady, task>>
        /\ running' = running \cup {a}
    BY <1>6 DEF StartAgent, attemptVars
  <2> QED BY <1>1, <2>1, QuietInv
<1>7. ASSUME NEW a \in Team, StopAgent(a)
      PROVE  SearchInv'
  <2>1. /\ UNCHANGED <<request, phase, at, failedAgents, attempts>>
        /\ running' = running \ {a} /\ steady' = steady \ {a}
        /\ task' = [k \in DOMAIN task |->
                      IF task[k].to = a /\ task[k].state = "held"
                      THEN [task[k] EXCEPT !.state = "orphaned"] ELSE task[k]]
    BY <1>7 DEF StopAgent, attemptVars
  <2>2. \A k \in DOMAIN task : "state" \in DOMAIN task[k]
    BY DEF AuditInv, Shape
  <2>3. DOMAIN task' = DOMAIN task /\ \A k \in DOMAIN task : task'[k].to = task[k].to
    <3>1. \A k \in DOMAIN task : [task[k] EXCEPT !.state = "orphaned"].to = task[k].to
      BY <2>2
    <3> QED BY <2>1, <3>1
  <2> QED BY <1>1, <2>1, <2>3, QuietInv
<1>8. CASE UNCHANGED failoverVars
  <2>1. UNCHANGED <<request, phase, at, failedAgents, attempts, running, steady, task>>
    BY <1>8 DEF failoverVars
  <2> QED BY <1>1, <2>1, QuietInv
<1> QED BY <1>2, <1>3, <1>4, <1>5, <1>6, <1>7, <1>8 DEF SendNext

LEMMA SearchInvariant == SendSpec => []SearchInv
<1>1. SendInit => SearchInv
  BY DEF SendInit, SearchInv, TeamOK, Chosen
<1>2. AuditInv /\ AuditInv' /\ SearchInv /\ [SendNext]_failoverVars => SearchInv'
  BY SearchStep
<1> QED BY <1>1, <1>2, AuditInvariant, PTL DEF SendSpec

\* However agents come and go, fail or time out, the attempts of a call are bounded on both
\* counts, and it spends none on an agent that it has given up.
THEOREM AttemptsAreBounded == SendSpec => []AttemptsBounded
<1>1. SearchInv => AttemptsBounded
  <2> SUFFICES ASSUME SearchInv PROVE AttemptsBounded
    OBVIOUS
  <2>1. WithinCaps
    <3> SUFFICES ASSUME Chosen PROVE WithinCaps
      BY DEF WithinCaps, Chosen
    <3>1. request.policy.maxTotalAttempts > 0 => Len(task) <= request.policy.maxTotalAttempts
      BY DEF SearchInv, Within
    <3>2. Distinct(request.policy.fallbackAgents) =>
            \A a, c : Cardinality(Entries(attempts, a, c)) <= request.policy.maxAttemptsPerAgent
      BY DEF SearchInv, Within, WithinAll
    <3> DEFINE same(k) == {j \in DOMAIN attempts :
                             /\ attempts[j].agentId = attempts[k].agentId
                             /\ attempts[j].capability = attempts[k].capability}
    <3>3. ASSUME Distinct(request.policy.fallbackAgents), NEW k \in DOMAIN attempts
          PROVE  Cardinality(same(k)) <= request.policy.maxAttemptsPerAgent
      <4>1. same(k) = Entries(attempts, attempts[k].agentId, attempts[k].capability)
        BY DEF Entries
      <4> HIDE DEF same
      <4> QED BY <3>2, <3>3, <4>1
    <3> HIDE DEF same
    <3> QED BY <3>1, <3>3 DEF WithinCaps, same
  <2>2. FailedAgentsAvoided
    BY DEF FailedAgentsAvoided, SearchInv, Avoided, Chosen
  <2> QED BY <2>1, <2>2 DEF AttemptsBounded
<1> QED BY <1>1, SearchInvariant, PTL

\* Before a call turns to a fallback capability, or gives up below its cap, it has tried every
\* agent it was told to try or that has offered the capability all along.
THEOREM NobodyIsLeftOut == SendSpec => []NoneLeftOut
<1>1. SearchInv => NoneLeftOut
  BY DEF NoneLeftOut, SearchInv, Covered, Chosen
<1> QED BY <1>1, SearchInvariant, PTL

===============================================================================
