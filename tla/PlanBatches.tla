----------------------------- MODULE PlanBatches ------------------------------
(***************************************************************************)
(* planExecutionBatches() (core/src/workflow/plan-validation.ts), which    *)
(* validateSubtaskPlan() runs to reject cycles and executeDagPlan() runs   *)
(* to get the batches: Kahn's algorithm, one action per turn of a loop.    *)
(*                                                                         *)
(* An entry <<s, i>> stands for step s in children.get(dependsOn[s][i]),   *)
(* which lists the children of a step in plan order, a child once for      *)
(* every time it names the step.                                           *)
(***************************************************************************)
EXTENDS Plans, FiniteSets

CONSTANTS Inputs    \* the plans it is given

ASSUME PlanInputs == \A p \in Inputs : IsPlan(p)

VARIABLES
  plan,       \* dependsOn of each step
  loop,       \* which loop is running, or how the function ended
  children,   \* the entries of children not visited yet
  inDegree,
  batches,
  queue,
  index,      \* position of the loop in plan.steps, then in queue
  nextQueue,
  visited     \* number of steps visited

vars == <<plan, loop, children, inDegree, batches, queue, index, nextQueue, visited>>

Entries(p) ==
  {e \in (DOMAIN p) \X UNION {DOMAIN p[s] : s \in DOMAIN p} : e[2] \in DOMAIN p[e[1]]}

\* The entries of children.get(s) that are left.
ChildrenOf(s) == {e \in children : plan[e[1]][e[2]] = s}

\* Order of insertion: the outer loop is over steps, the inner one over dependsOn.
FirstOf(E) == {e \in E : \A f \in E : e[1] < f[1] \/ (e[1] = f[1] /\ e[2] <= f[2])}

\* Mutant: the degree counts the distinct dependencies, but children lists them all.
InitDistinct ==
  /\ plan \in Inputs
  /\ loop = "roots"
  /\ children = Entries(plan)
  /\ inDegree = [s \in DOMAIN plan |-> Cardinality(Deps(plan, s))]
  /\ batches = <<>>
  /\ queue = <<>>
  /\ index = 1
  /\ nextQueue = <<>>
  /\ visited = 0

Init ==
  /\ plan \in Inputs
  /\ loop = "roots"
  /\ children = Entries(plan)
  /\ inDegree = [s \in DOMAIN plan |-> Len(plan[s])]
  /\ batches = <<>>
  /\ queue = <<>>
  /\ index = 1
  /\ nextQueue = <<>>
  /\ visited = 0

\* The filter that finds the first queue.
Filter ==
  /\ loop = "roots"
  /\ index <= Len(plan)
  /\ queue' = IF inDegree[index] = 0 THEN Append(queue, index) ELSE queue
  /\ index' = index + 1
  /\ UNCHANGED <<plan, loop, children, inDegree, batches, nextQueue, visited>>

\* Mutant: the queue is filled on from one batch to the next.
NextBatchKeepsQueue ==
  \E q \in {IF loop = "roots" THEN queue ELSE nextQueue} :
    /\ \/ loop = "roots" /\ index > Len(plan)
       \/ loop = "queue" /\ index > Len(queue)
    /\ q # <<>>
    /\ batches' = Append(batches, q)
    /\ queue' = q
    /\ nextQueue' = q
    /\ index' = 1
    /\ loop' = "queue"
    /\ UNCHANGED <<plan, children, inDegree, visited>>

\* The head of the while loop, after the filter or after the turn over a queue.
NextBatch ==
  \E q \in {IF loop = "roots" THEN queue ELSE nextQueue} :
    /\ \/ loop = "roots" /\ index > Len(plan)
       \/ loop = "queue" /\ index > Len(queue)
    /\ q # <<>>
    /\ batches' = Append(batches, q)
    /\ queue' = q
    /\ nextQueue' = <<>>
    /\ index' = 1
    /\ loop' = "queue"
    /\ UNCHANGED <<plan, children, inDegree, visited>>

\* Mutant: a child is ready as soon as one of its dependencies is visited.
VisitChildEager ==
  /\ loop = "queue" /\ index <= Len(queue)
  /\ \E e \in FirstOf(ChildrenOf(queue[index])) :
       /\ children' = children \ {e}
       /\ inDegree' = [inDegree EXCEPT ![e[1]] = 0]
       /\ nextQueue' = IF inDegree[e[1]] > 0 THEN Append(nextQueue, e[1]) ELSE nextQueue
  /\ UNCHANGED <<plan, loop, batches, queue, index, visited>>

\* Mutant: a child named twice counts once.
VisitChildOnce ==
  /\ loop = "queue" /\ index <= Len(queue)
  /\ \E e \in FirstOf(ChildrenOf(queue[index])) :
       /\ children' = children \ {f \in ChildrenOf(queue[index]) : f[1] = e[1]}
       /\ inDegree' = [inDegree EXCEPT ![e[1]] = @ - 1]
       /\ nextQueue' = IF inDegree[e[1]] = 1 THEN Append(nextQueue, e[1]) ELSE nextQueue
  /\ UNCHANGED <<plan, loop, batches, queue, index, visited>>

\* Mutant: a released child goes to the front of the next queue.
VisitChildUnshifts ==
  /\ loop = "queue" /\ index <= Len(queue)
  /\ \E e \in FirstOf(ChildrenOf(queue[index])) :
       /\ children' = children \ {e}
       /\ inDegree' = [inDegree EXCEPT ![e[1]] = @ - 1]
       /\ nextQueue' = IF inDegree[e[1]] = 1 THEN <<e[1]>> \o nextQueue ELSE nextQueue
  /\ UNCHANGED <<plan, loop, batches, queue, index, visited>>

\* One turn over children.get(current).
VisitChild ==
  /\ loop = "queue" /\ index <= Len(queue)
  /\ \E e \in FirstOf(ChildrenOf(queue[index])) :
       /\ children' = children \ {e}
       /\ inDegree' = [inDegree EXCEPT ![e[1]] = @ - 1]
       /\ nextQueue' = IF inDegree[e[1]] = 1 THEN Append(nextQueue, e[1]) ELSE nextQueue
  /\ UNCHANGED <<plan, loop, batches, queue, index, visited>>

\* The children of the current step are done (visited counts it on entry, in the code).
NextCurrent ==
  /\ loop = "queue" /\ index <= Len(queue)
  /\ ChildrenOf(queue[index]) = {}
  /\ index' = index + 1
  /\ visited' = visited + 1
  /\ UNCHANGED <<plan, loop, children, inDegree, batches, queue, nextQueue>>

\* The queue is empty: steps that were never visited are a cycle.
Return ==
  /\ \/ loop = "roots" /\ index > Len(plan) /\ queue = <<>>
     \/ loop = "queue" /\ index > Len(queue) /\ nextQueue = <<>>
  /\ loop' = IF visited = Len(plan) THEN "returned" ELSE "threw"
  /\ UNCHANGED <<plan, children, inDegree, batches, queue, index, nextQueue, visited>>

Next == Filter \/ NextBatch \/ VisitChild \/ NextCurrent \/ Return

Spec == Init /\ [][Next]_vars

-------------------------------------------------------------------------------
(* Properties.                                                              *)

\* Every variable keeps its shape.
TypeOK ==
  /\ plan \in Inputs
  /\ loop \in {"roots", "queue", "returned", "threw"}
  /\ children \subseteq Entries(plan)
  /\ inDegree \in [DOMAIN plan -> Nat]
  /\ batches \in Seq(Seq(DOMAIN plan))
  /\ queue \in Seq(DOMAIN plan)
  /\ index \in Nat \ {0}
  /\ nextQueue \in Seq(DOMAIN plan)
  /\ visited \in Nat

\* What is accepted is batched as documented: topological levels of the whole plan, whatever
\* the order of the steps and however often a step names a dependency.
BatchesCorrect == loop = "returned" => IsBatching(plan, batches)

\* The order within a batch, which decides what fail-fast drops: by the last dependency to
\* be visited, then by the order of the plan.
BatchesOrdered == loop = "returned" => InOrder(plan, batches)

\* The batches that are returned are the right ones, in the right order.
BatchesExact == BatchesCorrect /\ BatchesOrdered

\* Only a cyclic plan is rejected.
RejectsOnlyCycles == loop = "threw" => Cyclic(plan)

\* No more than so many turns of the loops are to come: of the filter, one for each entry of
\* children, two for each step that is not visited (its own and that of its batch), the end.
TurnsLeft ==
  (IF loop = "roots" THEN Len(plan) + 2 - index ELSE 0)
    + Cardinality(children)
    + 2 * (Len(plan) - visited)
    + (IF loop = "queue" /\ index > Len(queue) THEN 1 ELSE 0)
    + (IF loop \in {"roots", "queue"} THEN 1 ELSE 0)

\* The function ends on every plan, cyclic ones included, and in time linear in its steps and
\* dependencies: the loops visit no step twice, and each turn brings the end nearer.
PlannerEnds == [][TurnsLeft' >= 0 /\ TurnsLeft' < TurnsLeft]_vars

===============================================================================
