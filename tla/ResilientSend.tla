---------------------------- MODULE ResilientSend -----------------------------
(***************************************************************************)
(* One task sent with failover: sendTaskWithRecovery() (core/src/resilience *)
(* /resilient-send.ts) and executeStepTask() (step-executor.ts), over the   *)
(* agents of a bus that come and go.  Calls share nothing but the agents    *)
(* and the bus, which change here as any other caller may change them.      *)
(*                                                                         *)
(* An attempt is one sendSubTask(), as AgentRuntime models it: bus.send()   *)
(* awaits the handler of the agent, so that a timeout is returned only when *)
(* the handler has ended; a runtime that was stopped cannot answer.         *)
(*                                                                         *)
(* Abstracted: inputs, outputs and messages; agents are numbered in the     *)
(* order of their URIs; the bus routes to the first agent of a capability.  *)
(***************************************************************************)
EXTENDS Integers, Sequences, FiniteSets, Ordered

CONSTANTS
  AgentCount,
  Mailbox,       \* the agents that pull their tasks, the others have a handler
  Offers,
  OfferedBy,     \* the capabilities each agent declares
  TaskErrors,    \* codes that task handlers fail with
  Asked,         \* what is sent: a task, a recovery policy or Undefined, waitForResponse
  Undefined

Team == 1..AgentCount

Transient == {"NO_RECIPIENT", "AGENT_NOT_REGISTERED", "DELIVERY_FAILED", "RESPONSE_TIMEOUT"}
Refusals == {"NO_RECIPIENT", "AGENT_NOT_REGISTERED", "BUS_CLOSED"}
TransportErrors == Transient \cup Refusals

ASSUME AgentsAndTasks ==
  /\ AgentCount \in Nat /\ Mailbox \subseteq Team
  /\ OfferedBy \in [Team -> SUBSET Offers]
  /\ TaskErrors \cap (TransportErrors \cup {"done", "held", "orphaned", "refused"}) = {}
  /\ Undefined \notin Team
  /\ Undefined \notin TaskErrors \cup TransportErrors \cup {"done"}

\* A policy gives some of its fields.
Given(policy, field, S) == field \in DOMAIN policy => policy[field] \in S

PolicyOK(policy) ==
  /\ Given(policy, "maxAttemptsPerAgent", Int) /\ Given(policy, "maxTotalAttempts", Int)
  /\ Given(policy, "fallbackCapabilities", Seq(Offers))
  /\ Given(policy, "fallbackAgents", Seq(Team))

MaybePolicy(policy) == policy = Undefined \/ PolicyOK(policy)

ASSUME WhatIsAsked ==
  \A q \in Asked :
    /\ q.step.capability \in Offers /\ q.step.to \in Team \cup {Undefined}
    /\ q.step.fallbackCapabilities \in Seq(Offers)
    /\ MaybePolicy(q.policy) /\ MaybePolicy(q.step.recovery)

VARIABLES
  running,        \* agents whose runtime is started: the agents on the bus
  busOpen,
  callerRunning,  \* the runtime that sends
  request,        \* what was asked
  phase,          \* how far the call has got
  at,             \* position in the three nested loops
  failedAgents,
  attempts,       \* the audit trail
  task,           \* what became of the task_request of each attempt
  settledBy,      \* what settled the current attempt
  steady          \* agents that have been running since the call began

failoverVars == <<running, busOpen, callerRunning, request, phase, at, failedAgents, attempts,
                  task, settledBy, steady>>

envVars == <<running, busOpen, callerRunning, steady>>

Listed(q) == {q[i] : i \in DOMAIN q}

-------------------------------------------------------------------------------
(* Policies (recovery-policy.ts): the fields that were given.               *)

DefaultPolicy ==
  [maxAttemptsPerAgent |-> 1, maxTotalAttempts |-> 0, retryBackoffMs |-> 0,
   retryableTaskErrorCodes |-> {}, retryableTransportErrorCodes |-> Transient,
   fallbackCapabilities |-> <<>>, fallbackAgents |-> <<>>, excludeFailedAgents |-> TRUE]

\* { ...base, ...override }
Override(base, override) ==
  [x \in DOMAIN base \cup DOMAIN override |->
     IF x \in DOMAIN override THEN override[x] ELSE base[x]]

MergeRecoveryPolicies(base, override) ==
  IF base = Undefined THEN override ELSE IF override = Undefined THEN base
  ELSE Override(base, override)

AtLeast(n, x) == IF x < n THEN n ELSE x

\* No cap on all attempts together is 0.
NormalizeTaskRecoveryPolicy(policy) ==
  [Override(DefaultPolicy, policy) EXCEPT
     !.maxAttemptsPerAgent = AtLeast(1, @),
     !.maxTotalAttempts = AtLeast(0, @),
     !.retryBackoffMs = AtLeast(0, @)]

\* new Set(...): each capability where it comes first.
BuildCapabilityChain(step, policy) ==
  LET all == <<step.capability>> \o step.fallbackCapabilities \o policy.fallbackCapabilities
  IN AtPlaces(all, {i \in DOMAIN all : \A j \in 1..i - 1 : all[j] # all[i]})

IsRetryable(policy, code) ==
  IF code \in TransportErrors THEN code \in policy.retryableTransportErrorCodes
  ELSE policy.retryableTaskErrorCodes = {} \/ code \in policy.retryableTaskErrorCodes

ClassifyError(code) ==
  IF code = "RESPONSE_TIMEOUT" THEN "timeout"
  ELSE IF code \in TransportErrors THEN "transport_error" ELSE "task_error"

-------------------------------------------------------------------------------
(* The next attempt.  Nothing can happen between the end of an attempt and  *)
(* the routing of the next one, unless the policy has a backoff.            *)

Offering(capability) == {a \in running : capability \in OfferedBy[a]}

ResolveAgentCandidates(r, capability) ==
  IF r.step.to # Undefined THEN <<r.step.to>>
  ELSE IF r.policy.fallbackAgents # <<>> THEN r.policy.fallbackAgents
  ELSE Sorted(Offering(capability))

\* Mutant: agents that failed are not left out.
CandidatesAll(r, capability, failed) == ResolveAgentCandidates(r, capability)


Candidates(r, capability, failed) ==
  LET all == ResolveAgentCandidates(r, capability)
  IN AtPlaces(all, {i \in DOMAIN all : all[i] \notin failed})

AtStart == [capability |-> 0, candidates |-> <<>>, agent |-> 0, attempt |-> 0]

\* Mutant: a capability nobody is left for ends the search.
FollowingBreaks(r, p, failed) ==
  LET k == p.capability + 1
  IN IF p.agent < Len(p.candidates) THEN {[p EXCEPT !.agent = @ + 1, !.attempt = 1]}
     ELSE IF k > Len(r.chain) \/ Candidates(r, r.chain[k], failed) = <<>> THEN {}
     ELSE {[capability |-> k, candidates |-> Candidates(r, r.chain[k], failed),
            agent |-> 1, attempt |-> 1]}

\* The next candidate, else the first one of the next capability that has any: at most one.
Following(r, p, failed) ==
  LET left == [k \in DOMAIN r.chain |-> Candidates(r, r.chain[k], failed)]
      open == {k \in DOMAIN r.chain : k > p.capability /\ left[k] # <<>>}
  IN IF p.agent < Len(p.candidates) THEN {[p EXCEPT !.agent = @ + 1, !.attempt = 1]}
     ELSE {[capability |-> k, candidates |-> left[k], agent |-> 1, attempt |-> 1] :
             k \in {k \in open : \A j \in open : k <= j}}

\* Mutant: off by one.
CappedLate(r) == r.policy.maxTotalAttempts > 0 /\ Len(task) > r.policy.maxTotalAttempts


Capped(r) == r.policy.maxTotalAttempts > 0 /\ Len(task) >= r.policy.maxTotalAttempts

\* sendSubTask() as far as the routing; it throws when its runtime is not started.
SendSubTask(p) ==
  LET a == p.candidates[p.agent]
      code == IF ~busOpen THEN "BUS_CLOSED"
              ELSE IF a = Undefined THEN "NO_RECIPIENT"
              ELSE IF a \notin running THEN "AGENT_NOT_REGISTERED" ELSE Undefined
  IN \/ /\ ~callerRunning
        /\ phase' = "rejected"
        /\ UNCHANGED <<at, task, settledBy>>
     \/ /\ callerRunning
        /\ phase' = "trying"
        /\ at' = p
        /\ task' = Append(task, [to |-> a,
                                 state |-> IF code = Undefined THEN "held" ELSE "refused"])
        /\ settledBy' = code

Exhausted == phase' = "exhausted" /\ UNCHANGED <<at, task, settledBy>>

Try(r, p) ==
  \/ Capped(r) /\ Exhausted
  \/ ~Capped(r) /\ SendSubTask(p)

TryNext(r, p, failed) ==
  LET next == Following(r, p, failed)
  IN \/ next = {} /\ Exhausted
     \/ \E q \in next : Try(r, q)

-------------------------------------------------------------------------------
(* The calls.                                                               *)

Recovering(step, policy, wait) ==
  LET r == [step |-> step, policy |-> policy, wait |-> wait,
            chain |-> BuildCapabilityChain(step, policy)]
  IN /\ phase = "idle"
     /\ request' = r
     /\ steady' = running
     /\ TryNext(r, AtStart, {})
     /\ UNCHANGED <<running, busOpen, callerRunning, failedAgents, attempts>>

\* The exported function, with or without a policy.
SendTaskWithRecovery(step, policy, wait) ==
  Recovering(step,
             NormalizeTaskRecoveryPolicy(IF policy = Undefined THEN DefaultPolicy ELSE policy),
             wait)

\* A workflow step is sent once, to whom the bus chooses, when neither the run nor the step
\* has a policy.
ExecuteStepTask(step, recovery) ==
  LET policy == MergeRecoveryPolicies(recovery, step.recovery)
      able == Offering(step.capability)
      agent == IF step.to # Undefined THEN step.to
               ELSE IF able = {} THEN Undefined ELSE CHOOSE a \in able : \A b \in able : a <= b
  IN \/ /\ policy # Undefined
        /\ Recovering(step, NormalizeTaskRecoveryPolicy(policy), TRUE)
     \/ /\ policy = Undefined
        /\ phase = "idle"
        /\ request' = [step |-> step, policy |-> Undefined, wait |-> TRUE,
                       chain |-> <<step.capability>>]
        /\ steady' = running
        /\ SendSubTask([capability |-> 1, candidates |-> <<agent>>, agent |-> 1, attempt |-> 1])
        /\ UNCHANGED <<running, busOpen, callerRunning, failedAgents, attempts>>

-------------------------------------------------------------------------------
(* The end of an attempt.                                                   *)

Current == task[Len(task)]

Ended(t) == t.state \notin {"held", "orphaned"}

\* bus.send() has returned, and there is a response or a timeout if one is waited for.
AttemptReturned ==
  /\ phase = "trying"
  /\ Ended(Current) \/ Current.to \in Mailbox
  /\ settledBy # Undefined \/ ~request.wait

Code == IF settledBy = Undefined THEN "done" ELSE settledBy

Logged(outcome, code) ==
  Append(attempts, [agentId |-> Current.to, capability |-> request.chain[at.capability],
                    outcome |-> outcome, errorCode |-> code])

Succeed ==
  /\ AttemptReturned /\ request.policy # Undefined /\ Code = "done"
  /\ attempts' = Logged("success", Undefined)
  /\ phase' = "succeeded"
  /\ UNCHANGED <<envVars, request, at, failedAgents, task, settledBy>>

RetrySameAgent ==
  /\ at.attempt < request.policy.maxAttemptsPerAgent
  /\ IsRetryable(request.policy, Code)

Again == [at EXCEPT !.attempt = @ + 1]

\* continue: the same agent again, after the backoff if there is one.
Retry ==
  /\ AttemptReturned /\ request.policy # Undefined /\ Code # "done" /\ RetrySameAgent
  /\ attempts' = Logged(ClassifyError(Code), Code)
  /\ \/ /\ request.policy.retryBackoffMs > 0
        /\ phase' = "backoff"
        /\ UNCHANGED <<at, task, settledBy>>
     \/ /\ request.policy.retryBackoffMs = 0
        /\ Try(request, Again)
  /\ UNCHANGED <<envVars, request, failedAgents>>

Wake ==
  /\ phase = "backoff"
  /\ Try(request, Again)
  /\ UNCHANGED <<envVars, request, failedAgents, attempts>>

\* break: the next agent.
FailOver ==
  LET failed == failedAgents \cup IF request.policy.excludeFailedAgents THEN {Current.to} ELSE {}
  IN /\ AttemptReturned /\ request.policy # Undefined /\ Code # "done" /\ ~RetrySameAgent
     /\ attempts' = Logged(ClassifyError(Code), Code)
     /\ failedAgents' = failed
     /\ TryNext(request, at, failed)
     /\ UNCHANGED <<envVars, request>>

\* executeStepTask() without a policy.
StepReturns ==
  /\ AttemptReturned /\ request.policy = Undefined
  /\ phase' = IF Code = "done" THEN "succeeded" ELSE "failed"
  /\ UNCHANGED <<envVars, request, at, failedAgents, attempts, task, settledBy>>

-------------------------------------------------------------------------------
(* The attempt itself.                                                      *)

Waiting == phase = "trying" /\ request.wait /\ settledBy = Undefined /\ callerRunning

\* Mutant: the answer to an attempt that timed out settles the current one.
PerformAny(k, result, delivered) ==
  /\ ~Ended(task[k])
  /\ delivered => busOpen /\ task[k].state = "held"
  /\ task' = [task EXCEPT ![k].state = result]
  /\ settledBy' = IF phase # "trying" THEN settledBy
              ELSE IF task[k].state = "orphaned" /\ task[k].to \notin Mailbox
                THEN "DELIVERY_FAILED"
              ELSE IF delivered /\ Waiting THEN result ELSE settledBy
  /\ UNCHANGED <<envVars, request, phase, at, failedAgents, attempts>>

\* The agent ends task k, which may be one of an attempt that timed out.  Its response is
\* delivered, or lost: the bus is closed, or has forgotten the request.  When its runtime was
\* stopped, respond() throws: bus.send() fails, whatever the timer did.
Perform(k, result, delivered) ==
  /\ ~Ended(task[k])
  /\ delivered => busOpen /\ task[k].state = "held"
  /\ task' = [task EXCEPT ![k].state = result]
  /\ settledBy' = IF k # Len(task) \/ phase # "trying" THEN settledBy
              ELSE IF task[k].state = "orphaned" /\ task[k].to \notin Mailbox
                THEN "DELIVERY_FAILED"
              ELSE IF delivered /\ Waiting THEN result ELSE settledBy
  /\ UNCHANGED <<envVars, request, phase, at, failedAgents, attempts>>

\* Mutant: the timer is cleared when the handler ends.
TimeoutHeld ==
  /\ Waiting /\ Current.state = "held"
  /\ settledBy' = "RESPONSE_TIMEOUT"
  /\ UNCHANGED <<envVars, request, phase, at, failedAgents, attempts, task>>


Timeout ==
  /\ Waiting
  /\ settledBy' = "RESPONSE_TIMEOUT"
  /\ UNCHANGED <<envVars, request, phase, at, failedAgents, attempts, task>>

-------------------------------------------------------------------------------
(* The agents, the bus and the caller's runtime.                            *)

attemptVars == <<request, phase, at, failedAgents, attempts, settledBy>>

\* Before and after the call they do not matter: any of them may be there at first.
InCall == phase \in {"trying", "backoff"}

StartAgent(a) ==
  /\ InCall /\ a \notin running
  /\ running' = running \cup {a}
  /\ UNCHANGED <<attemptVars, busOpen, callerRunning, task, steady>>

\* A runtime that is started later with the same URI is another one.
StopAgent(a) ==
  /\ InCall /\ a \in running
  /\ running' = running \ {a}
  /\ steady' = steady \ {a}
  /\ task' = [k \in DOMAIN task |->
                IF task[k].to = a /\ task[k].state = "held"
                THEN [task[k] EXCEPT !.state = "orphaned"] ELSE task[k]]
  /\ UNCHANGED <<attemptVars, busOpen, callerRunning>>

SetBusOpen(open) ==
  /\ InCall /\ busOpen # open
  /\ busOpen' = open
  /\ UNCHANGED <<attemptVars, running, callerRunning, task, steady>>

\* stop() drops the pending response with its timer.
StopCaller ==
  /\ InCall /\ callerRunning
  /\ callerRunning' = FALSE
  /\ UNCHANGED <<attemptVars, running, busOpen, task, steady>>

-------------------------------------------------------------------------------
SendInit ==
  /\ running \in SUBSET Team
  /\ busOpen \in BOOLEAN
  /\ callerRunning \in BOOLEAN
  /\ request = Undefined
  /\ phase = "idle"
  /\ at = AtStart
  /\ failedAgents = {}
  /\ attempts = <<>>
  /\ task = <<>>
  /\ settledBy = Undefined
  /\ steady = {}

Results == TaskErrors \cup {"done"}

SendNext ==
  \/ \E q \in Asked :
       \/ SendTaskWithRecovery(q.step, q.policy, q.wait)
       \/ ExecuteStepTask(q.step, q.policy)
  \/ Succeed \/ Retry \/ Wake \/ FailOver \/ StepReturns
  \/ \E k \in DOMAIN task, result \in Results, delivered \in BOOLEAN :
       Perform(k, result, delivered)
  \/ Timeout
  \/ \E a \in Team : StartAgent(a) \/ StopAgent(a)
  \/ \E open \in BOOLEAN : SetBusOpen(open)
  \/ StopCaller

SendSpec == SendInit /\ [][SendNext]_failoverVars

\* The event loop runs timers and continuations, and a handler ends; who pulls tasks from a
\* mailbox need not answer them.
SendFairness ==
  /\ WF_failoverVars(Succeed \/ Retry \/ FailOver \/ StepReturns)
  /\ WF_failoverVars(Wake)
  /\ WF_failoverVars(Timeout)
  /\ WF_failoverVars(/\ task # <<>> /\ Current.to \notin Mailbox
             /\ \E result \in Results, delivered \in BOOLEAN :
                  Perform(Len(task), result, delivered))

FairSendSpec == SendSpec /\ SendFairness
-------------------------------------------------------------------------------
(* Properties.                                                              *)

\* The audit trail is true of what the agents did: there is an entry for each attempt that
\* ended, a success was performed, a task error was the answer of that agent to that attempt,
\* and a task that was refused reached nobody.  So a task is performed more than once only
\* after a timeout or a failed delivery.
AuditTrue ==
  request # Undefined /\ request.policy # Undefined =>
    /\ Len(task) = Len(attempts) + IF phase = "trying" THEN 1 ELSE 0
    /\ \A k \in DOMAIN attempts :
         LET entry == attempts[k]
         IN /\ entry.agentId = task[k].to
            /\ request.wait /\ entry.outcome = "success" => task[k].state = "done"
            /\ entry.outcome = "task_error" => task[k].state = entry.errorCode
            /\ entry.errorCode \in Refusals <=> task[k].state = "refused"

\* The attempts stay within maxTotalAttempts, and those on an agent for a capability within
\* maxAttemptsPerAgent, unless fallbackAgents names the agent twice.
Distinct(q) == \A i, j \in DOMAIN q : q[i] = q[j] => i = j

WithinCaps ==
  request # Undefined /\ request.policy # Undefined =>
    LET policy == request.policy
    IN /\ policy.maxTotalAttempts > 0 => Len(task) <= policy.maxTotalAttempts
       /\ Distinct(policy.fallbackAgents) =>
            \A k \in DOMAIN attempts :
              Cardinality({j \in DOMAIN attempts :
                             /\ attempts[j].agentId = attempts[k].agentId
                             /\ attempts[j].capability = attempts[k].capability})
                <= policy.maxAttemptsPerAgent

\* A call that excludes failed agents never goes back to an agent that it has left for
\* another one, unless fallbackAgents names it twice.
FailedAgentsAvoided ==
  request # Undefined /\ request.policy # Undefined =>
    (request.policy.excludeFailedAgents /\ Distinct(request.policy.fallbackAgents) =>
       \A i, j, k \in DOMAIN task :
         i < k /\ k < j /\ task[i].to = task[j].to => task[k].to = task[i].to)

\* The attempts of a call are bounded on both counts, and it spends none on an agent that it
\* has given up.
AttemptsBounded == WithinCaps /\ FailedAgentsAvoided

\* No agent is left out: before a call turns to a fallback capability, or gives up without
\* having reached its cap, it has tried every agent it was told to try or that has offered
\* the capability all along.
Tried(a) == \E k \in DOMAIN task : task[k].to = a

Wanted(capability) ==
  IF request.step.to # Undefined THEN {request.step.to}
  ELSE IF request.policy.fallbackAgents # <<>> THEN Listed(request.policy.fallbackAgents)
  ELSE {a \in steady : capability \in OfferedBy[a]}

NoneLeftOut ==
  request # Undefined /\ request.policy # Undefined =>
    \A k \in DOMAIN request.chain :
      k < at.capability \/ (phase = "exhausted" /\ ~Capped(request)) =>
        \A a \in Wanted(request.chain[k]) : Tried(a)

\* A call ends, unless its runtime is stopped.
SendEnds == InCall ~> ~InCall \/ ~callerRunning
===============================================================================
