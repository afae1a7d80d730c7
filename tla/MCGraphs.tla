------------------------------- MODULE MCGraphs --------------------------------
(* What is computed and kept of plans, traces, messages, agents, memory      *)
(* entries and the selection of the console, side by side: a behaviour is    *)
(* one of the plan batches', of the trace views', of the emission's, of the  *)
(* registry's, of the task memory's or of the selection's, while the other   *)
(* ones stay as they are.                                                    *)
EXTENDS PlanBatches, TraceViews, Emission, Registry, TaskMemory, Selection, TLC

CONSTANTS a, b, c, p, q, t1, t2

VARIABLE part  \* which of them the behaviour is one of

\* Four steps, each with at most two dependencies in ascending order: chains, forks,
\* joins, diamonds, self-loops and longer cycles.
Lists == {<<>>} \cup {<<x>> : x \in 1..4} \cup {l \in (1..4) \X (1..4) : l[1] < l[2]}

\* Two steps with any list of at most two dependencies, repetitions included.
ShortLists == {<<>>} \cup {<<x>> : x \in 1..2} \cup ((1..2) \X (1..2))

MCInputs == [1..4 -> Lists] \cup [1..2 -> ShortLists]

Request(from, to, parent) ==
  [type |-> "task_request", from |-> from, to |-> to, parent |-> parent]
Delegation(from, to, parent) ==
  [type |-> "delegation", from |-> from, to |-> to, parent |-> parent]
Response(from, parent) ==
  [type |-> "task_response", from |-> from, to |-> None, parent |-> parent]

\* Three tasks and a response (or a fourth task): chains, forks, cycles, and parents that
\* may not be recorded.
MCTraces ==
  {(1 :> m1) @@ (2 :> m2) @@ (3 :> m3) @@ (4 :> m4) :
    m1 \in {Request(a, b, None), Delegation(a, b, 3)},
    m2 \in {Delegation(b, c, 1)},
    m3 \in {Request(c, a, 2), Delegation(a, c, 1), Request(b, None, None)},
    m4 \in {Response(b, 1), Delegation(b, a, 3)}}

\* Two tasks below a root, of which one has a task below it: the one trace that is recorded
\* once more, when that makes it whole, after which the server may restart.
Forked == messages[1].parent = None /\ messages[3].parent = 1 /\ messages[4].parent = 3
Recordings ==
  \/ records' < MaxRecords
  \/ Forked /\ ({f[1] : f \in live'} = DOMAIN messages \/ restarted' # restarted)

\* A task, its answer, and an answer to the answer; MCPLab exports the first two.
MCReplyTo == (1 :> Undefined) @@ (2 :> 1) @@ (3 :> 2)
MCExported == <<1, 2>>

\* The second agent is a worker too, which declares less than clients say of it; what is
\* imported of the first one may be invalid.
MCWorkers == 2 :> {p}
MCIdentities ==
  {[id |-> 1, skills |-> {p}, valid |-> TRUE], [id |-> 1, skills |-> {q}, valid |-> FALSE],
   [id |-> 2, skills |-> {q}, valid |-> TRUE], [id |-> 2, skills |-> {p, q}, valid |-> TRUE],
   [id |-> 3, skills |-> {p}, valid |-> TRUE]}

Link(t, agent, graphMode, look, presentation) ==
  [trace |-> t, agent |-> agent, mode |-> graphMode, look |-> look,
   presentation |-> presentation, cycle |-> presentation]

\* None, one of an agent, of a graph that no button leads to, and of another look than shown.
MCLinks ==
  {Link(Unset, Unset, Unset, Unset, FALSE), Link(t1, a, "showcase", "default", FALSE),
   Link(t2, Unset, "legacy", "other", TRUE), Link(t1, Unset, "ops", "other", FALSE)}

PlansIdle ==
  /\ plan = <<<<>>, <<>>>> /\ loop = "roots" /\ children = {} /\ inDegree = <<0, 0>>
  /\ batches = <<>> /\ queue = <<>> /\ index = 1 /\ nextQueue = <<>> /\ visited = 0

ViewsIdle ==
  /\ messages = <<>> /\ graph = NoGraph /\ entries = <<>> /\ live = {}
  /\ stored = <<>> /\ records = 0 /\ restarted = FALSE /\ view = None

GraphsInit ==
  /\ EmissionInit /\ RegistryInit /\ MemoryInit /\ SelectionInit
  /\ part \in {"plans", "views", "emission", "agents", "memory", "selection"}
  /\ IF part = "plans" THEN Init ELSE PlansIdle
  /\ IF part = "views" THEN ViewsInit ELSE ViewsIdle
  /\ part # "agents" => mode = "first"
  /\ part # "memory" => backend = "memory"
  /\ part # "selection" => address.mode = Unset /\ limit = 1

GraphsNext ==
  /\ UNCHANGED part
  /\ \/ /\ part = "plans" /\ Next
        /\ UNCHANGED <<viewVars, emissionVars, agentVars, memoryVars, selectionVars>>
     \/ /\ part = "views" /\ ViewsNext /\ Recordings
        /\ UNCHANGED <<vars, emissionVars, agentVars, memoryVars, selectionVars>>
     \/ /\ part = "emission" /\ EmissionNext
        /\ UNCHANGED <<vars, viewVars, agentVars, memoryVars, selectionVars>>
     \/ /\ part = "agents" /\ RegistryNext
        /\ UNCHANGED <<vars, viewVars, emissionVars, memoryVars, selectionVars>>
     \/ /\ part = "memory" /\ MemoryNext
        /\ UNCHANGED <<vars, viewVars, emissionVars, agentVars, selectionVars>>
     \/ /\ part = "selection" /\ SelectionNext
        /\ UNCHANGED <<vars, viewVars, emissionVars, agentVars, memoryVars>>

GraphsSpec ==
  GraphsInit /\ [][GraphsNext]_<<part, vars, viewVars, emissionVars, agentVars, memoryVars,
                              selectionVars>>
===============================================================================
