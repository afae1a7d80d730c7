# OACP: specifications and proofs

This directory holds TLA+ specifications of the core of OACP, a TypeScript monorepo for agents
that send one another tasks over a message bus: the configurations that check them with TLC and
the proofs that TLAPS checks. Every module names the code it models; `PROJECT.json` maps each
definition to its lines, lists the runs, the mutants that show each property can fail, and the
hazards of the code.

## 1. The system

| Component | State | Operations | Talks to |
|---|---|---|---|
| Message bus (`core/src/routing/message-bus.ts`) | registrations, capability index, mailboxes with queue and waiters, open flag | `register`, `unregister`, `send`, `waitForMessage`, `replayTraceMessage`, `close`/`openBus` | calls handlers and awaits them; fills the trace store |
| Router (`router.ts`) | none | resolves recipients of a message | reads the bus |
| Trace store (`trace-store.ts`) | messages per trace (a ring), message index | `record` | filled by the bus |
| Agent runtime (`core/src/runtime`) | lifecycle state, pending responses with timers | `start`, `stop`, `sendTask`, `sendSubTask`, `delegate`, `receiveTask`, `respond`, `handleIncoming` | the bus, user handlers |
| Workflow planning (`plan-validation.ts`) | none | `validateSubtaskPlan`, `planExecutionBatches` | |
| Workflow execution (`dag-executor.ts`, `workflow-engine.ts`, ...) | definitions, run records, results and message ids of a run | `register`, `unregister`, `run`, `executeSubtaskPlan` | the runtime of its coordinator |
| Server workflow runner (`server/src/orchestration`) | none | one coordinator runtime per run | engine, runtime |
| Pipeline (`core/src/runtime/pipeline.ts`) | results of a call | `runPipeline` | the runtime of its caller |
| Failover and retry (`core/src/resilience`) | attempts, failed agents | `sendTaskWithRecovery`, `executeWithRetry` | runtime, bus |
| Task memory (`core/src/memory`, `server/src/storage`) | entries, in memory, SQLite or PostgreSQL | append, query page by page | fed by runtimes, bus and routes |
| Delegation graph, trace views (`core/src/memory`, `server/src/observability/trace-graph.ts`) | a graph per trace | record, rebuild from memory, queries, agent depths | fed by runtimes; read by console |
| Registry, capability router (`server/src/registry`, `routing`) | agents, capability index | register, find; enrols agents on the bus | bus, database |
| Event bus and stream (`server/src/observability`) | event ring, subscribers, connections per address | publish, replay, subscribe; SSE route; Redis fan-out | bus (through the emitter), clients |
| Emission, persistence, import (`server/src/observability`) | the database | store and publish each send; hydrate; import; startup sync | bus, event bus, registry |
| HTTP server, bootstrap (`server/src/api`, `bootstrap`) | none | routes; workers of the server's own process | all of the above |
| SDK clients (`sdk/`) | attempt, deadline, polls of a call | `sendTask()` over HTTP with retries | server |
| Observability client, console (`packages/observability-client`, `apps/console`) | cached snapshots, SSE link, merged feed; selection and its copy in the address | poll, follow, merge, pause, switch; select, present, go back, reload | server |
| CLI, MCP server, integrations, examples | | front ends | |

What makes this code hard is not parallelism, there is one event loop, but the points where a
handler gives the loop up. `bus.send()` awaits each recipient's handler, and a handler sends its
response, and its sub-tasks, through the same bus before the first `send()` has returned. In
between, agents register, leave and are replaced, timers fire, and responses arrive late. Plans
run steps side by side and stop in the middle. Records are written before and after an `await`.
Around the process there is a network that loses and delays, a database that outlives it, and
other processes with the same clients.

The properties of each part, in short: the bus keeps the index in step with the registrations,
delivers at most once, loses nothing in a mailbox and leaves no waiter without an answer; the
runtime ends every call exactly once, with an answer only if there was one; batches are the
topological levels of the plan; an execution respects dependencies and stops when it should, and its
record is true; a task with failover is tried where its policy allows and no further, and its audit
trail is true; what is stored is what was sent, and its events tell when a trace begins and ends; a
graph says what was recorded, in whichever order and after a restart; who is registered is found and
reached; pages of memory neither skip nor repeat; a client that reconnects has missed nothing; a
remote call returns, and its answer is somewhere; a feed shows each message once; what a user
selects stays selected, and the address says it. All of these are checked here, and all but those of
the kind "a call returns", the liveness properties, are also proved.

## 2. The plan

The order follows what the rest of the system stands on.

| | Module | What it is | Status | Proofs |
|---|---|---|---|---|
| 1 | `MessageBus` | the bus with its router and trace store | checked, proved | `MessageBusProofs` |
| 2 | `RequestReply`, `AgentRuntime` | what `sendTask()` promises; runtimes over the bus | checked, proved | `SendTaskProofs` |
| 3 | `Plans`, `PlanBatches` | what batches should be; the algorithm, loop by loop | checked, proved | `GraphProofs` |
| 4 | `DagSchedule`, `WorkflowRun` | what a plan execution promises; engine and executor | checked, proved | `ScheduleProofs` |
| 5 | `ResilientSend` | a task sent with failover, over agents that come and go | checked, proved | `SendTaskProofs` |
| 6 | `EventStream` | event ring, subscription, replay, backfill, connection counts, fan-out | checked, proved | `ServerProofs` |
| 7 | `Emission` | what nested sends store and publish; hydration, import and startup sync with kills | checked, proved | `StoreProofs` |
| 8 | `TraceViews` | the delegation graph of a trace, its queries and the agent depths | checked, proved | `GraphProofs` |
| 9 | `Registry` | agent registry, capability router, workers and stored agents | checked, proved | `ServerProofs` |
| 10 | `TaskMemory` | the memory stores, read page by page | checked, proved | `StoreProofs` |
| 11 | `RemoteCalls` | `sendTask()` of the SDK clients over a network | checked, proved | `ClientProofs` |
| 12 | `Console` | the console's message feed: snapshot, bursts, live events, pauses | checked, proved | `ClientProofs` |
| 13 | `Pipeline` | `runPipeline()`, the second implementation of `DagSchedule` | checked, proved | `ScheduleProofs` |
| 14 | `Selection` | what the console's user has selected, and the address of the page | checked, proved | `StoreProofs` |

`Ordered` and `SequenceLemmas` are what several of these share: how a filter and a set keep an
order, and what the libraries of theorems lack.

"Proved" is said of the safety properties, action properties and refinements of a module; liveness
properties are checked only (section 5). That agent runtimes are clients of the bus, so that what
is proved of the bus holds of the bus they use, is proved in `MessageBusProofs`
(`RuntimesUseTheBus`).

## 3. The modules

### MessageBus

One JavaScript event loop runs every callback to completion, so an action is the code between
two points where the loop is given up. `active` is the `send()` whose delivery loop holds the
event loop; while it is set nothing else may run (`Idle`). `DeliverTo` is one turn of the loop
in `deliver()`: it reads the registration again, puts the message into the mailbox (resolving
the first waiter, or queueing), and calls the handler. A recipient with a handler releases the
event loop (`stage = "handling"`), and `HandlerEnd` takes it back when the handler's promise
settles. `Conclude` is the return of `send()`.

| State in the code | Variable |
|---|---|
| `agents`, `capabilityIndex`, `open` | the same |
| `Mailbox` objects, numbered as they are created | `boxes`, `queue`, `waiters` |
| `waitForMessage()` promises and the mailbox each captured | `waits`, `waiting`, `waitBox` |
| `TraceStore.messageIndex`, `TraceStore.traces` | `recorded`, `traces` |
| local state of each `send()`: stage, recipients left, reports | `stage`, `rest`, `delivered`, `active` |
| what was put into and taken from each mailbox, by object | `handed`, `received` (history) |

`Register` has both branches, new (or `replace`) and merge; an omitted option is `None`. A message
is refused, unroutable or routed; it is recorded before it is routed, in both of the last two
cases. Recipients are a set of numbers, visited in ascending order: agent URIs are numbers in the
order of `localeCompare`, which is how the index sorts them.

### AgentRuntime and RequestReply

`AgentRuntime` instantiates `MessageBus` with the runtimes as handlers and conjoins each of its
operations with what the runtime adds; its variables are those of the bus plus `state`,
`pending` (the keys of `pendingResponses`), the response `promise` and the `result` of each call,
and for each delivered message the activation of `handleIncoming()`. `SendTask` is the
synchronous part of `sendTask()` up to `bus.send()`; with `outer` it is a sub-task that an
`onTask` handler sends and awaits. `Deliver` joins the bus's call of a handler with the
synchronous part of `handleIncoming()`. After `onTask` has settled (`Settled`: the calls it
awaits have returned) `HandlerResponds` sends the response, `HandlerReturns` lets the bus go on,
and `HandlerRejects` is the throw of `respond()` on a runtime that was stopped meanwhile. Two
runtimes may share a URI, because `runServerWorkflow()` starts one coordinator per run with a
fixed URI.

`RequestReply` is the promise to the caller: a call ends at most once, `answered` only after
somebody has replied to it, and never with an answer or a timeout if it asked for no response.
`AgentRuntime` implements it by `call <- CallOf(s)` and `replied <- Replied`.

Continuations after an `await` are separate actions, and timers may fire between them. Node
runs pending microtasks before timers, so the model has a superset of the code's orders.

### Plans and PlanBatches

A plan is the `dependsOn` list of each step, and steps are positions in `plan.steps`.
`Plans` states what batches should be without an algorithm: topological levels (`IsBatching`),
the order within a batch (`InOrder`), and `Cyclic`. `PlanBatches` is `planExecutionBatches()`:
`Filter` is the filter that finds the roots, `NextBatch` the head of the `while`, `VisitChild` and
`NextCurrent` the loops over a step's children and over the queue, and `Return` the comparison of
`visited` with the number of steps. `children` holds one entry for every time a step is named,
as the code's lists do.

### WorkflowRun and DagSchedule

`WorkflowRun` has the engine's `definitions` and run records and, for each run, the state of
`executeDagPlan()`: the batch under way, the handler promise of each step, and `stepResults`,
`stepMessageIds` and `workflowRootMessageId` as the code keeps them. `StartBatch` is
`batch.map()`: every step of a batch starts, and reads its parent, before the first is awaited.
`StepEnds` and `StepThrows` settle one handler promise each, also after the run has ended. The
`Promise.all()` that follows is `Reject`, or the loop over the outcomes: `FailFast` (it returns
at the first error and drops the later outcomes), `NextBatch`, or `LastBatch`. Two functions of the
caller may throw and so reject the run although no step has thrown: `onPlanReady()` before the first
batch, for a run without a record (`PlanReadyThrows`), and `onStepComplete()` at any result the loop
adds, before the loop looks at its status (`StepCompleteThrows`). `Save` is the second write of the
record. A run with a record is started by `Run`, one without by `ExecuteSubtaskPlan`.

`DagSchedule` says what any execution of a plan promises, with no batches in it: a step starts at
most once, after its dependencies; nothing starts after a failure of a fail-fast run, or in a run
that has ended; `completed` means that everything has ended; and a run is rejected over a step that
threw or, by a function of the caller's, only when none of its steps runs. `WorkflowRun` implements
it with `end <- EndOf(r)`.

The batches of `WorkflowRun` are a constant, assumed to be topological levels
(`WorkflowPlans`). That is what `PlanBatches` is proved to return, so the two modules compose:
theorem `BatchesAreLevels` discharges the assumption for every plan.

### Pipeline

`runPipeline()`: steps in a row, each of which sends a task and waits for the answer. `SendNext` is
the head of the loop, `TaskEnds` what `sendTask()` comes to (an answer of success or of error, no
answer, a throw) with the push of the result, and `ReturnFailure`, `Throw` and `ReturnSuccess` are
the ends of the call. The code does the end of one step and the start of the next one between two
awaits; the model has them apart, because `DagSchedule` has. A pipeline is a plan in which each step
depends on the one before (`Row`), and `PipelineKeepsSchedule` is that it keeps the promise of
fail-fast runs, as `WorkflowRun` does with batches. `length` and `returned` are what the call was
given and returned, `resultsOf` is `stepResults`, and `tasks` (history) how each step really went,
by which `PipelineTold` measures the returned results.

### ResilientSend

One call of `sendTaskWithRecovery()` or `executeStepTask()`. The three nested loops of the code,
over capabilities, candidates and attempts, are the position `at`; `Following` is where the inner
loops give way to the outer ones, and `TryNext` and `Try` what is done there. An attempt is one
`sendSubTask()`, with what `AgentRuntime` shows of it taken for granted: `SendSubTask` routes or
refuses, `Perform` is the end of a handler (also of an attempt that has timed out), `Timeout` the
response timer, and `AttemptReturned` says when `bus.send()` and the wait for the response are over.
The ends of an attempt are `Succeed`, `Retry` (with or without a backoff, which `Wake` ends),
`FailOver` and, without a policy, `StepReturns`.

| State in the code | Variable |
|---|---|
| `attempts`, `failedAgents` | the same |
| the loop variables, and where the call is between two awaits | `at`, `phase` |
| the `task_request` of each attempt and what its agent made of it | `task` (history) |
| the response promise of the current attempt | `settledBy` |
| the bus and the runtime of the caller, which others change | `running`, `busOpen`, `callerRunning` |

One call is enough: calls share nothing but the agents and the bus, and those change at every
point of the call, and start, in every way. Two things the code does are not stated as properties
although a reader may not expect them. An agent that `fallbackAgents` names twice is tried again
after it failed, since the candidates are filtered once, before the loop over them
(`docs/failure-recovery.md:77` says of `excludeFailedAgents` that it does not retry agents that
already failed); `AttemptsBounded` says what does hold. And the `fallbackCapabilities` of a step
have no effect when there is no recovery policy.

### EventStream

The event buses of the server's processes and their clients. `Publish` and `RecordEvent` are the
two ways in which a process makes an event, with the subscribers notified or not; `IngestExternal`
is the Redis subscriber. All three end in `StoreEvent`, which cuts the ring and, if the subscribers
are notified, has the fan-out publish the event again, also one that came from outside. `Connect`
is the SSE route from the count of connections to the subscription: `Resumes` replays the ring,
`IsLost` publishes `stream.resync` and backfills. `Disconnect` is the client's end of a connection,
with as much received as it happens to be, and `Cleanup` the server's: `error` and `close` may both
fire, and each lowers the count.

| State in the code | Variable |
|---|---|
| `events`, `nextSequence` of each process | the same |
| the connection tracker, for one address | `tracker`, `halfOpen` |
| messages published to Redis and not yet received | `channel` |
| the messages of the bus, of which a backfill is made | `messages` |
| subscriptions, and what was written to them | `connected`, `at`, `socket` |
| `Last-Event-ID` | `cursor` |
| what each process has stored and each client received | `log`, `got`, `begun`, `sound`, `owed` (history) |

`Restart` empties the ring and starts its ids from 1, with the messages kept if there is a
database. Redis loses nothing while a process is up and keeps the order of each process, and
processes have different instance ids (the code takes the process id, which containers may share).

The ids of the ring count the events of one process. So a cursor can name another event than the
one it stood for: after a restart, or on another process. `sound` is the history variable that says
whether a cursor names, in the ring of the process it is used on, the event that was received last
and no other; `StreamExact` is about those. What the code does in the other cases is in the model
and not claimed to be right: an event of another process whose id the ring holds is dropped, and a
client with a numeric cursor that is lost gets an empty backfill, because `synthetic-1` is no
number. Nor is it claimed that an address keeps to its connections
(`docs/observability-events.md` gives 10 per client): a cleanup that runs twice makes room for one
more.

### Emission

The messages of one trace, from `bus.send()` to the database and the event bus of a process.
`BeginSend` is a client's send, or one inside the handler that another send awaits; `EndSend` is
the return of the original `send()` with what `wire-observability-event-emitter.ts` does then, and
with `before`, the count of the trace it took when the send began. An import, by `StartupSync`
before the server listens or by `PostImport`, gives the event loop up after each `ImportMessage`;
`EndImport` buffers the events of the whole trace once more. `StartServer` hydrates; `KillServer`
leaves nothing but the database, at any point. `close()` closes the stores before it closes the
application: what happens in between is a send that fails, or an import that ends as if it was
killed, and both are in the model.

Two facts that are not properties: when the first send of a trace fails, no later one counts as
its beginning and `trace.started` is never published; and once the ring has dropped the root of a
trace, `trace.completed` is compared with another message (`LifecycleTold` says so: `overflown`).

### TraceViews

One trace, its messages a constant. `ReceiveTask` is the recording of the receiving runtime, which
knows no `graphOptions`, `PersistMessage` that of the sender, whose memory entry may fail on its
own. They come in any order, and again. `Served` is `resolveTraceBundle()`, the graph in memory or
else the one rebuilt from the entries, one after another, of which the query of the store returns
the oldest `MemoryLimit` (1000) and no more (`Queried`). The queries (`Roots`, `Leaves`, `Depth`,
`Ancestors`, `Descendants`, `TopologicalOrder`) are the code's algorithms, as recursive functions of
the number of turns: `WalkUp` goes up the first parent edge, `TakeNext` takes the next task from the
queue of the topological order, and `CallOrReturn` is a call of `depthFrom()` or its return, with
the calls under way in a sequence and the visited set shared by the branches of one root, as the
code shares it. `WalkDown` takes the messages of one distance in one turn, where the code takes one.
Each function has as many turns as its loop can need. The properties compare the queries with
definitions that have no algorithm in them (`Below`). `OpenAgentView` computes the links between
agents, and `VisitAgent` is one turn of the loop of `computeAgentDepths()`, then of the console's.

The two searches differ: the server goes on from an agent it finds deeper and serves the greatest
depths, the console (`ops-graph-depth.ts:53`) from one it finds nearer and lays out the least,
although its comment says that it mirrors the server's. And the server's loop does not end when
agents hand work to one another in a cycle, as two agents that delegate to each other do:
`AgentDepthsExact` says that this is the only way. `MaxDepth` is where the model stops following
it. After a restart the stored graph is served only until the first message of the trace is
recorded; from then on the new, smaller one.

### Registry

Registry, bus registrations, workers and the table of stored agents, each action being one turn of
the event loop. `SendByCapability` is `prepareCapabilityRouting()`, which enrols what
`findByCapability()` returns, followed by the resolution of the recipients; the bus itself is
`MessageBus`, of which only who is registered with what is kept. `PostAgent` and `ImportAgent`
differ in the order of storing and validating, `StartWorker` and `BootstrapWorker` in whether the
registry is told. `Hydrate` fails when it reads a row that does not parse, as
`HydrationCompletes` finds.

What the code does and no property claims to be right: enrolment has the bus declare what the
registry lists, over what the runtime itself declared; the entry of a stopped worker stays in the
registry, so that routing enrols its URI again with a mailbox nobody reads, and mode `first` may
choose it; and no more than the first hundred agents of a capability are enrolled (`MaxFound`).
`docs/registry-design.md:38` warns that `POST /agents` after a runtime's start would overwrite its
handler; the bus merges, as `docs/capability-routing.md` says, and `HandlerKept` shows.

### TaskMemory

The three stores behind one variable, `backend`, and a client that reads a trace page by page. An
entry is stamped at the call of `append()`. The in-memory store and SQLite insert it in that call,
PostgreSQL when the query ends (`EndInsert`), in any order and perhaps not at all. `Orders` is the
set of orders a query may return: by stamp, and among equals in the order of insertion, which
PostgreSQL does not promise. So `PagesExact` is unconditional for the first two, and for PostgreSQL
holds as long as nothing older arrives and no two stamps are equal.

### RemoteCalls

`sendTask()` of the two SDKs: the POST with `executeWithRetry()`, then polls of the mailbox until an
answer or the deadline. The network is two sets, `upstream` and `answers`: what is never taken is
lost. `AttemptFails` is the timer of an attempt or a broken connection, at any time, whatever
becomes of the request on the server; `Read` says that the answer to an earlier attempt is not read.
`RouteTask`, `RefuseTask`, `ServePoll` and `WaitEnds` are the two routes, `Respond` the worker,
which answers each copy of a task it was sent. `Attempts` and `RetriesHttp` tell the clients apart:
TypeScript retries a status of 500 and above, Python does not.

The calls of one agent share its mailbox, and each reads whatever comes first. The answer to one
call can be read and dropped by another, or go to a poll that its client has given up, and the call
times out. `ResponsesAccounted` shows these are the only ways in which it can go.

### Console

The message feed of the selected trace. An action is a callback or a timer with the effects React
runs after it, which is why most of them end in `Render`: the effects of the feed after its inputs
have changed. `Data` is what the query shows, the snapshot of the selected trace or, while it is
first fetched, the one shown before (`keepPreviousData`). `OnMessage`, `OnAgents` and `OnResync`
are the listeners of the bridge with its two bursts, during which messages are ignored;
`ResyncFires` is the debounced refetch. `PollSnapshot`, `ServeSnapshot`, `ReceiveSnapshot` and
`FetchFails` are the query, `SelectTrace`, `ToggleLive`, `TogglePause` and `Refresh` the user.

What the code does and no property claims to be right: a catch-up burst clears a pending refetch
and never sets it again, so that what it swallowed waits for the next poll, which a finished trace
does not have (`CaughtUp` is about traces that are polled); a first fetch that fails is not tried
again; and `docs/console-message-feed.md:144` has `trace.started` and `trace.completed` refresh the
snapshot, which the bridge ignores.

### Selection

The selection store of the console, its copy in the address of the page, and the snapshots by which
effects correct it. An action is a handler of the page, a fetch, or a change on the server;
`RunEffects` is one pass of the effects of `useConsoleSnapshot()` and of the agent list, all of them
computed from what the last render showed (`Shown`: the kept snapshot of the selected trace, or the
last one shown while the first is fetched), and nothing else happens until they have nothing left to
correct (`Quiet`). `AutoSelect`, `FallBack`, `ClearAgent` and `CloseDetail` are the effects.

| State in the code | Variable |
|---|---|
| the selection store (`selection-store.ts`) | `selection` |
| the parameters of the address, the entries of the history before it | `address`, `earlier` |
| `hadUrlTraceOnMount` | the same |
| the query cache by trace; what of it was invalidated; a fetch under way; `keepPreviousData` | `snapshots`, `outdated`, `asked`, `lastShown` |
| the traces and agents of the server, and how many traces it lists | `listing`, `known`, `limit` |
| the trace clicked on last | `clicked` (history) |

`Written` is `replaceConsoleSelectionUrl()`, which leaves out what the graph shown does not use, and
`Read` is `hydrateFromUrl()` with the defaults of the initial state. `UrlRestores` says that one
undoes the other as far as it matters, whichever way the store and the address were reached: by
clicks, by effects, by the history or by a presentation, which clears the agent.

`SelectionKept` lets an effect leave the trace that was clicked on only when the snapshot kept for
that very trace lacks it. That does happen. A link opened before its trace exists leaves such a
snapshot, which is never stale by itself: a later click on the trace, which the list shows by then,
brings it back, and the selection falls back to another trace at once, while
`docs/console.md:342` has a click refetch the snapshot. After a restart of the server two such
snapshots can send the selection back and forth.

## 4. The runs

Six runs check that properties hold, six that a sentence of the repository does not. Three of the
first kind check modules side by side: a variable `part` says which of them a behaviour is one of,
and the other ones stay in one state. That is the union of their state spaces, no product, and
nothing is said of an interaction between them.

| Run | Configuration | What it shows | States |
|---|---|---|---|
| `bus` | `MCSends.cfg` | the bus: register, merge, replace, unregister, send, reply, replay, wait, time out and close in every order; or one task over three agents with each of four policies, while agents, bus and caller start and stop | 459,889 |
| `runtime` | `MCAgentRuntime.cfg` | three runtimes, two of them on one URI, call, time out, stop and answer; `RequestReply` is implemented | 261,723 |
| `subtasks` | `MCSubTasks.cfg` | two agents in `onTask` that send each other sub-tasks: nobody waits in a circle, answers settle, every call ends | 57,360 |
| `graphs` | `MCGraphs.cfg` | what is computed and kept: plans, delegation graphs, emission, registry, memory, the selection of the console | 1,198,043 |
| `calls` | `MCCalls.cfg` | who calls and who watches: workflow runs and pipelines (both implement `DagSchedule`), remote calls, the console | 232,169 |
| `events` | `MCEventStream.cfg` | two processes with a fan-out and a client that follows a trace on either, through lost connections and a restart | 1,593,245 |
| `stopped_caller` | `MCStoppedCaller.cfg` | violated: a call whose runtime is stopped never returns | |
| `shared_uri` | `MCSharedUri.cfg` | violated: a response reaches the wrong coordinator of a shared URI | |
| `rejected_run` | `MCRejectedRun.cfg` | violated: a run whose handler, or whose `onStepComplete()`, throws keeps its record `running` | |
| `lost_cursor` | `MCLostCursor.cfg` | violated: a client with a lost cursor is not told to resync | |
| `never_starts` | `MCNeverStarts.cfg` | violated: a server does not start after an import of an invalid identity | |
| `mixed_feed` | `MCMixedFeed.cfg` | violated: the feed holds messages of the trace selected before | |

### Properties

`bus`, the bus: `IndexMatchesAgents` (the index lists exactly what the registrations declare),
`MailboxExact` (a mailbox loses, repeats and reorders nothing), `AtMostOnce` (no send reaches a
mailbox twice), `TraceKeepsNewest` (the ring holds the newest messages, the index all of them),
`WaiterSettles` (every `waitForMessage()` is answered, even when its mailbox has been replaced).

`bus`, failover: `AuditTrue` (the audit trail tells what the agents did: a success was performed, a
refused task reached nobody), `AttemptsBounded` (the caps on attempts hold in all and for each
agent, and a failed agent is not gone back to), `NoneLeftOut` (the call does not give up while an
agent it could have used all along is untried), `SendEnds`.

`runtime`: `PendingExact` (an open call of a running runtime has its pending entry exactly as long
as its promise is unsettled, and no other entries exist), `HandlersRunning` (the bus never calls a
stopped runtime), `KeepsPromise` (refinement of `RequestReply`).

`subtasks`: `NoCircularWait` (agents that send one another sub-tasks from inside `onTask` do not
end up waiting for each other: whoever cannot go on by itself awaits a message that was sent later,
so that a chain of waits ends where something goes on, timers apart, or where a runtime has been
stopped), `AnswerSettles` (a response settles its call in the step in which it arrives, even while
its runtime is inside `onTask`), `CallsEnd` (without a stop every call ends).

`graphs`: `BatchesExact` (`BatchesCorrect`: batches are the topological levels of the plan;
`BatchesOrdered`: the steps of a batch stand in the order of their release), `RejectsOnlyCycles`,
`PlannerEnds` (on any plan no step is visited twice, and every turn brings the end nearer);
`GraphExact` (`ServedExact`: the served graph says what was recorded, whatever the order and the
path, and after a restart what the `MemoryLimit` oldest entries say and nothing else; `WalksExact`:
the walks up and down find what is above and below, and agree; `OrderExact`: the topological order
has every task once and a parent before what hangs on it; `DepthExact`: the depth is the length of
the longest chain), `AgentDepthsExact` (depths are right, and a search that does not end is on a
cycle); `StoreComplete` (`StoreExact`: what is stored is what was sent with success or imported,
once, and the bus knows it; `MissingExplained`: what a synced server lacks, it lacks for one of two
reasons), `LifecycleTold` (events tell when a trace begins and ends, and what a handler sends before
what it handles); `RoutesExact` (`RoutedAsRegistered`: a task reaches whom the registry lists, and
who can take it; `HandlerKept`: nothing takes the handler from a running worker, and no handler
outlives it), `RegistrationsKept` (what is registered stays, through restarts); `PagesExact`;
`UrlRestores` (whoever opens the address gets the selection), `SelectionKept` (a clicked trace is
left only over its own snapshot).

`calls`: `StepsInformed` (`DependenciesKnown`: a step starts with the results of all of its
dependencies; `ParentSound`: the delegation graph gets a successful dependency as parent whenever
there is one), `RecordTrue` (a stored record tells what happened), `KeepsSchedule` (refinement of
`DagSchedule`), `RunsEnd`; `PipelineTold` (what a pipeline returns tells how its steps went),
`PipelineKeepsSchedule` (refinement of `DagSchedule`); `GuaranteeKept` (a task is routed at most
once per attempt, and has been when `send()` resolves), `ResponsesAccounted` (no answer vanishes on
the server), `CallsReturn` (every remote call returns, whatever the network does); `FeedExact` (the
feed shows or holds back each message once, and all it was given), `CaughtUp` (what bursts and lost
connections swallow is shown in the end while the console polls).

`events`: `EventsExact` (`StreamExact`: a client whose cursor names what it received last gets every
event that it follows once and in order, through all its connections; `EchoDropped`: a ring holds an
event once, although the fan-out brings it back), `SlotsKept` (no connection slot is lost).

### Findings

Six runs check what a document or a comment says, and find it violated.

- `stop()` says that it rejects pending response waiters (`core/src/runtime/agent-runtime.ts:120`);
  it clears their timers and settles nothing, so the calls never return (`CallsAlwaysEnd`).
- `docs/agent-runtime.md:118` says that `sendTask()` resolves when a matching response arrives.
  Concurrent server workflow runs share the coordinator's URI: the response reaches the
  runtime that registered last, and the other call times out (`AnswerAlwaysSettles`).
- `docs/workflow-engine.md:17` has every run end `completed` or `failed`. When `mapInput()`,
  `reduceOutput()`, `onStepComplete()` or a step handler throws, `run()` rejects between its two
  writes and the record stays `running` (`StoredRunsEnd`).
- `docs/observability-events.md:45` says that the server emits `stream.resync` when a cursor is
  lost, and `:46` has the client refetch on it. The route publishes the event before it subscribes
  the connection: all the others get it, and the client it is for does not (`ToldToResync`).
- `docs/mcplab-oacp-data-model.md:9` has the bus hydrated from SQLite on startup, and the comment in
  `hydrateObservabilityFromPersistence()` says that conflicts should not block it
  (`observability-import.ts:36`). An import stores an identity before the registry validates it
  (`:60`); when the registry refuses it, the row stays, and every later start throws when it reads
  it (`HydrationCompletes`).
- `docs/console-message-feed.md:38` says that the feed filters by the selected trace. It merges what
  the query shows, which after a switch is the snapshot of the trace before
  (`useSnapshot.ts:75`), and never takes it out again (`FeedOfSelectedTrace`).

### Bounds

Every bound is a constant. `MaxSends`, `MaxWaits` and `MaxBoxes` cap messages, waiters and mailbox
objects. For the bus two messages are enough for a message and its answer, and for one send that
arrives while the handler of another runs; `MaxBoxes = 2` allows a replaced mailbox with a waiter
left on the old one; `TraceLimit = 1` makes the ring drop at the second message. In `runtime`
three messages make a call, its answer, and a late or second answer, or a second call. In
`subtasks` four are a call, a sub-task from inside its handler, and both answers; `RoomFor` keeps
ids for the answers that handlers owe, so that the bound never keeps a handler from answering.
`SYMMETRY` is used for the two coordinators in the safety run `runtime` and in `shared_uri`, which
has no liveness property.

The calls of `MCResilientSend` are the four whose policies differ in what the loops do: fallback
capabilities, retries with a backoff on a fixed agent, a lenient policy that names a capability
twice, and a list of agents with a cap, one of which has no handler.

`PlanBatches` needs four steps for a diamond and for a cycle beside a valid part; the plans are all
of four steps with up to two dependencies each, and of two steps with repeated ones. The twelve
traces of `TraceViews` have four messages: chains, forks, a cycle of tasks, a response, and parents
that are not recorded; three recordings take the same message twice beside another, or three, and a
fourth one (`MaxRecords = 4`) completes the trace that has two branches of different depth;
`MemoryLimit = 3` cuts the fourth entry off when the server starts again;
`MaxDepth = 5` follows a search of agents well beyond the three there are. In `Emission` three sends
nest two deep, and `TraceLimit = 3` is reached when two of them follow an import of two; two starts
are one restart. In `Registry` one agent is a worker, one may be imported invalid, and two
capabilities let declarations differ; `MaxFound = 2` cuts a search over three agents; three starts
follow two ends of the process. In `TaskMemory` three entries on two traces, two of which may share
a stamp, read in pages of one, let pages shift. In `Selection` two traces and a list of one or two
have a selected trace be listed, be cut off the list or be gone; three inputs are a click, a detour
and the way back, beside two happenings on the server, which make a trace exist and be overtaken, or
forgotten. Fetches and effects have no bound.

The plans of `MCWorkflowRun` are a diamond, a chain against the order of the plan with a repeated
dependency, and a fan with a step nobody waits for; one run is enough, because runs share nothing
but the definitions, and those are copied when the run starts. One pipeline is enough, because calls
share nothing, and three steps, one of which has a step on either side. Of the two calls of
`RemoteCalls` one retries (two attempts, one poll) and one does not (one attempt, two polls), so
that each can take the other's answer and a task can be routed and answered twice. The console has a
trace that gets another message and one that is finished, two clicks (a switch and a return, or a
pause and its end), one fault and one notice. In `events` a ring of two and three events make the
ring drop an event that Redis then brings back, one restart makes ids start again, and `MaxHalfOpen
= 1` lets a connection be counted that is gone. One client is enough for `StreamExact`, which
relates a client to the processes; `lost_cursor` has two. `events`, which has no liveness property,
uses `SYMMETRY` for the processes.

`CHECK_DEADLOCK FALSE` is set because every model stops when its bounds are used up or its calls
have ended.

### Fairness

Each specification with liveness properties asks only for what its scheduler guarantees. For the
bus, the runtimes, the engine and the failover that is the event loop: continuations that are ready
run, timers that are set fire, and a send that holds the loop goes on. Clients owe nothing: none of
register, send, stop or respond is fair. Two assumptions are not the event loop's: `onTask` is taken
to settle once the calls it awaits have returned, and a workflow step ends or throws, which for a
step that waits for a response is what `CallsEnd` shows and its timeout ensures. In `SendFairness` a
handler ends, as `CallsEnd` shows; an agent with a mailbox need not answer at all. `RemoteFairness`
has the client's own timers fire and asks nothing of the network, the server or a worker.
`ConsoleFairness` has the poll timer fire and a fetch be answered, as one formula because one of the
three is due at a time; `CaughtUp` promises something only while the console polls.

## 5. The proofs

TLC checks the instances above; the theorems hold for every value of the constants that satisfies
the named assumptions, which TLC evaluates in the runs: `BusConstants` and `BusInputs`,
`RuntimeConstants`, `PlanInputs`, `WorkflowPlans`, `PipelineConstants`, `AgentsAndTasks` and
`WhatIsAsked`, `StreamSizes`, `EmissionConstants`, `TracesAssumption` and `ViewBounds`,
`RegistryConstants`, `MemoryConstants`, `RemoteConstants`, `ConsoleConstants` and
`SelectionConstants`. They say of what kind a constant is (a number, a finite set, an absent value
that is none of the others) and what the code itself ensures of it before it gets that far. For the
bus that agent runtimes use, `BusInputs` is no assumption: `RuntimeInputs` derives it from what
runtimes are.

| Module | About | Theorems |
|---|---|---|
| `MessageBusProofs` | bus | `TypeCorrect`, `IndexCorrect`, `MailboxCorrect`, `DeliveredAtMostOnce`, `NewestAreKept`, `RuntimesUseTheBus`, `RuntimesBusCorrect` |
| `SendTaskProofs` | runtimes | `PendingIsExact` (of `PendingIsOwned` and `PromiseIsKept`), `HandlersAreRunning`, `AnswersSettle`, `NobodyWaitsInACircle`, `KeepsPromiseProved` |
| | failover | `AuditIsTrue`, `AttemptsAreBounded`, `NobodyIsLeftOut` |
| `GraphProofs` | batches | `TypeCorrect`, `BatchesAreExact` (of `BatchesAreLevels` and `BatchesAreOrdered`), `OnlyCyclesAreRejected`, `ThePlannerEnds` |
| | trace views | `GraphIsExact`, `AgentDepthsAreExact` |
| `ScheduleProofs` | workflow runs | `TypeCorrect`, `StepsAreInformed` (of `DependenciesAreKnown` and `ParentIsSound`), `RecordIsTrue`, `ScheduleIsKept` |
| | pipelines | `TruthIsTold` (of `PipelineInvariance`), `PipelineScheduleIsKept` |
| `ServerProofs` | registry | `RoutesAreExact`, `RegistrationsAreKept` |
| | event stream | `SlotsAreKept`, `EventsAreExact` |
| `StoreProofs` | emission | `StoreIsComplete`, `LifecycleIsTold` |
| | task memory | `PagesAreExact` |
| | selection | `AddressRestores`, `SelectionIsKept` |
| `ClientProofs` | remote calls | `GuaranteeIsKept`, `ResponsesAreAccounted` |
| | console | `FeedIsExact` |

Two means recur. The induction theorems of the library take an operator as a parameter, which no
prover here can instantiate. Over numbers, `SequenceLemmas` does without: a set of numbers has a
least element (`LeastNat`), so that what fails for some number of turns fails for a least one, and
what is defined by recursion over an interval exists and satisfies its equations (`RecursionIs`).
And what a filter or `new Set()` leaves of a sequence is an enumeration of its places in ascending
order (`Ordered`), about which `AtPlacesOK` says all that is needed.

**The bus.** `TypeOK` and `IndexMatchesAgents` are inductive (together). `MailboxExact` is not: a
waiter that is listed although its promise has settled would swallow a message. `MailInv` adds
`WaitersLive`, that a listed waiter is still waiting, on that mailbox. `AtMostOnce` needs to know
that an agent whose mailbox has the message is not among the recipients still to be visited
(`VisitedOnce`), which in turn rests on mailbox objects belonging to one registration at a time
(`BoxesOwned`) and on new sends having new ids (`SendsIssued`). `MailboxCorrect` also
proves `NoWaiterBesideMessage`: a mailbox never holds a message beside a waiter. `TraceKeepsNewest`
needs that what is recorded has been issued (`RecordedIssued`), so that a message that is pushed is
newer than all of its trace; `PushAndShift` is what the push does to a full and to any other ring.

**The bus of the runtimes.** `RuntimesUseTheBus` has every behaviour of `AgentRuntime` be one of
`MessageBus`, over the same variables: what a runtime does is one of the actions of the bus with
certain inputs, or changes none of its variables. It is stated where the bus is declared, with the
runtimes as an instance, because tlapm does not use the theorems of a module through `INSTANCE`;
`RuntimesOnly` says that what registers at that bus, and what registers it with, is a runtime's.
The bus lets any agent reply to a message that has been issued, so it has to be shown that a
handler acts only for such a message (`ActsIssued`). `RuntimesBusCorrect` then follows from the
theorems about the bus.

**Runtimes.** `CallInv` joins the two properties of pending entries with `Fresh` (an id that has
not been issued is nobody's call) and `CallsOnly` (only a call has a promise, and only a call
that was replied to is answered). The refinement to `RequestReply` follows from it action by
action; most actions of the bus are stutters for the caller. `AnswersSettle` is about a step, not a
state: a response reaches the caller of the call it answers because what it replies to was recorded,
and whoever is still to get it has sent that (`RoutesBack`). For `NobodyWaitsInACircle`, `StageInv`
says how far each send is and what its handler is doing: when the loop is free, a message that is
still being handled is at a handler which goes on, or which awaits its own response or its open
sub-tasks; all of these were sent after it.

**Batches.** The queue being filled together with the batches before it are at every turn of every
loop topological levels, in order, of the steps released so far (`Levelled`, `InSourceOrder`). That
the next step fits in needs to know when a step is released: `Degrees` has `inDegree` count the
entries of `children` that are left, `Edges` has an entry be gone exactly when its dependency has
been visited, and `Release` remembers at which position of the queue each step was released. At the
end `Counted`, `visited` being the number of visited steps, turns the comparison with the number of
steps into "everything is placed", or leaves a set of steps that wait for one another. `Counted`
also bounds `visited`, and with it the turns left from below (`TurnsDecrease`).

**Workflow runs.** `RunInv` is stated for one run. Its core, `Current`, says that the steps with
results are those of the batches before the current one and that besides them exactly the steps of
the current batch have started; `AtEnd` is what is left of it when a run has ended, `Recorded` ties
the record to it, and `Known`, `Sources` and `ParentsOk` are the invariants behind
`DependenciesKnown` and `ParentSound`. A callback throws before a step has started, or when the
batch has settled, so that then no step runs, which is what `DagSchedule` asks of it. `ScheduleStep`
maps each action to a step of `DagSchedule` or a stutter.

**Pipelines.** `PipelineTold` speaks of calls that have ended. `Sent` is what holds on the way:
every step before the last one sent has succeeded, and the results are those of the answered steps;
`Reported` says at which turn a call has ended. Together they are inductive, for any number of calls
of any length. Each action is one of `DagSchedule`: `StartKept` needs from `Sent` that nothing has
failed when the next step starts, and that the step before it has ended.

**Failover.** An entry of the audit trail is written from what has settled the attempt, so the proof
is about that. `SettledTrue` is that the current attempt was settled by what its agent answered, by
a refusal of the bus if and only if it reached nobody, or by an error with which the agent has
nothing to do. A handler that ends later changes only a task that has not ended, of which no entry
says how it did (`TaskMoves`), so that the entries before stay true.

The caps and the completeness of the search rest on one invariant, `SearchInv`, of the position in
the three loops. `Within` counts the entries of each agent and capability: those of the current
agent are as many as the turn of the innermost loop says, and all come from places at or before the
current one. `Covered` is that whoever lies behind was tried, and that an agent that has offered the
current capability all along is among its candidates. `Avoided` is that a failed agent is not ahead.
Steps of the three loops come to one of two things, an attempt at a later position or the end of the
call (`Goes`, `Stops`).

**Connection slots.** `SlotsKept` compares a counter with connections and with what is half open. It
is inductive with the shape of those variables and with connected clients being at a server. A
`Disconnect` moves one connection from the first to the second; a `Cleanup` takes one half open
connection and lowers the count by one or two, but not below zero.

**Events.** `EchoDropped` needs that an event keeps its id wherever it goes: of all that is in a
ring or on its way to one, who has the body has the id (`RingsInv`), and a ring has no id twice. A
ring has the newest events of the log, under their numbers (`Ring`). `StreamExact` is then an
invariant of each client alone, `Exact`, of what it has seen and what is written to it: the numbers
written ascend, and are greater than all it has seen, and no event of the log that it follows is
left out after the one it began with. It is preserved when an event is published, when a connection
ends with any part of what was written received, and when a cursor is replayed; a backfill bears no
numbers.

**The registry.** `AgentsInv` has the capability index list who declares the capability (`Indexed`),
and every registration of the bus have a handler, which is that of a running worker, or a mailbox
(`Reachable`). Whoever is enrolled at a send has been merged before the recipients are resolved, so
that the bus cannot lead elsewhere than the registry does. Without a process nothing runs
(`AtRest`); a start rebuilds the registry from the rows, of which `RegistrationsKept` says whose
they are.

**Emission.** `StoreInv` has every awaited message recorded (`Awaited`) and says of an import what
it still has to do (`Imported`): what of the export is not stored is yet to be imported, or the
import was cut off, or the sync skipped it because something was stored before. The events need to
know how sends nest (`Nested`: a handler sends only while it is awaited, so that it is told before
what it handles) and that the send that found the trace empty is the only one (`FirstSend`);
`StartTold`, `EndTold` and `SendsTold` are the parts of `LifecycleTold` with that.

**Pages.** For the stores that insert at once the rows are the entries in the order in which they
were appended, stamps ascend (`Stamped`), and the pages are an initial part of what is to be read,
in that order (`PagesInitial`). For PostgreSQL, `Undisturbed` is what the property assumes; then
what was expected when the reading began is the only order that a query may return, and the pages
are a prefix of it, or it of them.

**Remote calls.** `GuaranteeKept` is a count: what was routed for a call and the copies still on
their way are together no more than its attempts (`Counted`). `ResponsesAccounted` is a sum over the
places where a response can be. It needs that a request is in one place only (on its way, at the
mailbox, or answered: `Apart`), that its number is not given out again (`Numbered`), and that
nothing polls for a call that has not begun to (`NoPollYet`). One of these places is `missed`: an
answer that was read and dropped by another call that drains the same mailbox.

**The console.** A row of the feed is never shown twice because what is shown and what is held back
have nothing in common (`FeedInv`), and every message given is in one of the two (`Given`), unless
the fetch of the selected trace has failed: going offline clears the feed, and so does a switch, a
pause or its end while offline. That what is given are messages rests on a cached snapshot being of
its own timeline, and the one last shown being one of them (`CacheInv`). `FeedExact` says nothing of
which trace a message is of: the feed does take messages of the trace selected before (`mixed_feed`).

**Delegation graphs.** `GraphSays` relates a graph to a set of facts: its nodes and its edges are
those of the facts, each once. To apply one more message, live or as an entry of the store, is to
say one more fact (`ApplySays`), in whatever order they come. The entries are the facts that were
stored, in that order (`StoredOK`), so that a rebuilt graph says the facts of as many of them as the
query returns. No two edges lead to one message
(`WorkRelation`). Each query then has an invariant of its turns: `UpInv` and `DownInv` have a walk
either be at its end or have visited more messages than it has made turns; `QueueInv` has whatever
the queue of the topological order took be a root or follow something taken before; `CallsInv` has
the calls under way be as many as the chain down to the last one is long, the visited messages be as
deep as one of the calls has found and no deeper, and twice their number be the calls under way and
the turns made, so that every call returns within the turns there are.

**Agent depths.** `DepthsInv` has the queue hold only what a walk of that many links reaches
(`Queued`), has what an agent hands on be accounted for unless that agent is still queued
(`HandedOn`), and has every depth come of an agent that is as good (`Backed`). A walk with more
links than there are agents visits an agent twice (`WalksReturn`), which is the cycle.

**The address.** What `Written` leaves out `Read` fills in, for every selection of proper shape: a
presented graph is not the legacy one, and only the showcase has a look (`PushRestores`). The
effects set the trace, the agent and the drawer and leave the rest alone (`CorrectedOK`), so that
one pass of all of them is a selection of that shape again.

**The selection.** What is shown is a kept snapshot of the selected trace, or one that was shown
last (`ShownOK`). A trace that was clicked on is selected, and in the rows shown, until a snapshot
of its own is there (`ClickedOK`); so the effect that leaves it has that snapshot to judge by.

Only model-checked are the liveness properties (`WaiterSettles`, `CallsEnd`, `RunsEnd`, `SendEnds`,
`CallsReturn`, `CaughtUp`): they rest on fairness, and with it on `ENABLED`, which are out of the
provers' reach. The violated properties of section 4 are, of course, not proved.

## 6. What is not modelled

- Message schemas, URIs and formats (`protocol`): a message keeps the fields that routing reads, and
  validation is a Boolean input of `Send`. This is checking of data without state.
- The subtask planner, which calls a user function and copies fields; `TaskPipeline`, which starts
  and stops the runtime around `runPipeline()`.
- What a trace with more than 1000 stored entries looks like after a restart, beyond the graph:
  `resolveTraceBundle()`, the recorder and the route of a workflow's graph read no more than that
  (`trace-service.ts:34`, `delegation-graph-recorder.ts:47`, `routes.ts:473`). The graph of the first
  1000 is what `GraphExact` has; the listing of such a trace is among what only shows data.
- `executeWithRetry()`'s `onRetry()` (`retry-policy.ts:114`), which nothing in the repository
  passes; the pause of the console's polling while its tab is hidden; several nodes that append to
  one memory store, whose clocks may differ.
- What only shows data: listings, timelines, the enrichment of agents with names and status, HTML,
  logger, OpenAPI generation, and of the console its components, layout, catalog and the replay of
  traces. By lines this is the larger part of the repository (`apps/console` alone is more than a
  third): nearly all of it computes a picture from a snapshot, and the little state it has (a
  filter, a cursor into a replay) belongs to one component and one user.
- Front ends over the modelled calls: CLI, MCP server, integrations, examples, demo workers and what
  they compute. Of the SDKs, registration, discovery and `receiveMessages()`; of the server,
  parsing, authentication and the routes that only read.
- Filters of a memory query other than the trace, `get()`, `listScopes()`; audit records and when
  agents were last seen.
- Of the event bus `close()`, the heartbeat, an unreachable Redis and two processes with one
  instance id; `clearTraces()`, which nothing calls, and the registry's `unregister()`, which only
  tests call; `sendRaw()`, which is `send()` behind one more validation.

`PROJECT.json` lists every component with its status, and every hazard with the properties that
cover it.
