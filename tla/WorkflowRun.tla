----------------------------- MODULE WorkflowRun ------------------------------
(***************************************************************************)
(* Workflow runs: WorkflowEngine (workflow-engine.ts) with its definitions *)
(* and run store, runWorkflow() and executeDagPlan() (dag-executor.ts) in  *)
(* core/src/workflow, and executeSubtaskPlan(), which runs a plan without  *)
(* a run record.                                                           *)
(*                                                                         *)
(* The steps of a batch start together and Promise.all() waits for them; a *)
(* step whose handler throws rejects the run while the others go on.  A    *)
(* callback of the caller that throws, onPlanReady() or onStepComplete(),  *)
(* rejects it before the next batch.                                       *)
(*                                                                         *)
(* Abstracted: inputs and outputs; run ids are unique, as createTraceId()  *)
(* makes them; a step's request message id is the number of the step; a    *)
(* step's task is its outcome (AgentRuntime models how it comes about).    *)
(***************************************************************************)
EXTENDS Plans

CONSTANTS
  Runs,        \* calls of run() and executeSubtaskPlan()
  Workflows,   \* workflow ids
  ValidPlans,  \* the plans that validateSubtaskPlan() accepts, of those clients give
  BatchesOf,   \* planExecutionBatches() of each
  None         \* undefined

ASSUME WorkflowPlans ==
  /\ \A p \in ValidPlans : IsPlan(p) /\ IsBatching(p, BatchesOf[p])
  /\ None \notin ValidPlans \cup Nat \cup {"completed", "failed", "rejected"}

Steps == UNION {DOMAIN p : p \in ValidPlans}

VARIABLES
  definitions,            \* WorkflowEngine.definitions, a partial function of Workflows
  plan,                   \* the plan a run works on
  failFast,
  phase,                  \* how far the call has got
  batch,                  \* number of batches started
  step,                   \* the handler promise of each step
  stepResults,            \* the keys of the Map, in order
  stepMessageIds,         \* its keys
  workflowRootMessageId,
  parentMessageId,        \* what each step was started with
  record                  \* WorkflowRunStore.runs

vars == <<definitions, plan, failFast, phase, batch, step, stepResults, stepMessageIds,
          workflowRootMessageId, parentMessageId, record>>

traceVars == <<stepMessageIds, workflowRootMessageId>>

Batch(r) == BatchesOf[plan[r]][batch[r]]

Record(status, steps, failedStep) ==
  [status |-> status, steps |-> steps, failedStepId |-> failedStep]

-------------------------------------------------------------------------------
(* The registry of definitions.  An invalid definition throws: no step.     *)

Register(w, p) ==
  /\ definitions' = [x \in DOMAIN definitions \cup {w} |->
                       IF x = w THEN p ELSE definitions[x]]
  /\ UNCHANGED <<plan, failFast, phase, batch, step, stepResults, traceVars,
                 parentMessageId, record>>

Unregister(w) ==
  /\ definitions' = [x \in DOMAIN definitions \ {w} |-> definitions[x]]
  /\ UNCHANGED <<plan, failFast, phase, batch, step, stepResults, traceVars,
                 parentMessageId, record>>

-------------------------------------------------------------------------------
(* The start of a run.                                                      *)

\* run() keeps the definition it found and saves the record; an unknown id throws first.
Run(r, w, ff) ==
  /\ phase[r] = "idle" /\ w \in DOMAIN definitions
  /\ plan' = [plan EXCEPT ![r] = definitions[w]]
  /\ failFast' = [failFast EXCEPT ![r] = ff]
  /\ phase' = [phase EXCEPT ![r] = "saved"]
  /\ record' = [record EXCEPT ![r] = Record("running", <<>>, None)]
  /\ UNCHANGED <<definitions, batch, step, stepResults, traceVars, parentMessageId>>

\* executeSubtaskPlan() inside onTask: the same execution, no record.
ExecuteSubtaskPlan(r, p, ff) ==
  /\ phase[r] = "idle"
  /\ plan' = [plan EXCEPT ![r] = p]
  /\ failFast' = [failFast EXCEPT ![r] = ff]
  /\ phase' = [phase EXCEPT ![r] = "saved"]
  /\ UNCHANGED <<definitions, batch, step, stepResults, traceVars, parentMessageId, record>>

-------------------------------------------------------------------------------
(* executeDagPlan().                                                        *)

\* The first dependency that has a message id, else the root of the workflow.
ResolveParent(p, s, ids, root) ==
  LET known == {p[s][i] : i \in {i \in DOMAIN p[s] :
                  p[s][i] \in ids /\ \A j \in 1..i - 1 : p[s][j] \notin ids}}
  IN IF known = {} THEN root ELSE CHOOSE d \in known : TRUE

\* batch.map(): every step of batch k starts before the first of them is awaited.
StartBatch(r, k, ids, root) ==
  LET started == Listed(BatchesOf[plan[r]][k])
  IN /\ batch' = [batch EXCEPT ![r] = k]
     /\ step' = [step EXCEPT ![r] =
                   [s \in Steps |-> IF s \in started THEN "running" ELSE @[s]]]
     /\ parentMessageId' = [parentMessageId EXCEPT ![r] =
          [s \in Steps |-> IF s \in started THEN ResolveParent(plan[r], s, ids, root)
                           ELSE @[s]]]

\* options.onPlanReady() throws, before the first batch.  runWorkflow() passes none.
PlanReadyThrows(r) ==
  /\ phase[r] = "saved" /\ record[r] = None
  /\ phase' = [phase EXCEPT ![r] = "rejected"]
  /\ UNCHANGED <<definitions, plan, failFast, batch, step, stepResults, traceVars,
                 parentMessageId, record>>

Begin(r) ==
  /\ phase[r] = "saved"
  /\ phase' = [phase EXCEPT ![r] = "running"]
  /\ StartBatch(r, 1, {}, None)
  /\ UNCHANGED <<definitions, plan, failFast, stepResults, traceVars, record>>

\* executeStepTask() returns, with the response or with a timeout or routing error.  It may do
\* so after the run has been rejected.
StepEnds(r, s, status) ==
  /\ step[r][s] = "running"
  /\ step' = [step EXCEPT ![r][s] = status]
  /\ UNCHANGED <<definitions, plan, failFast, phase, batch, stepResults, traceVars,
                 parentMessageId, record>>

\* mapInput() throws, or the runtime is not running when the task is sent.
StepThrows(r, s) ==
  /\ step[r][s] = "running"
  /\ step' = [step EXCEPT ![r][s] = "threw"]
  /\ UNCHANGED <<definitions, plan, failFast, phase, batch, stepResults, traceVars,
                 parentMessageId, record>>

\* Promise.all() rejects with the first handler that throws, and run() with it: the record
\* stays as it is.
Reject(r) ==
  /\ phase[r] = "running"
  /\ \E s \in Listed(Batch(r)) : step[r][s] = "threw"
  /\ phase' = [phase EXCEPT ![r] = "rejected"]
  /\ UNCHANGED <<definitions, plan, failFast, batch, step, stepResults, traceVars,
                 parentMessageId, record>>

Settled(r) ==
  /\ phase[r] = "running"
  /\ \A s \in Listed(Batch(r)) : step[r][s] \in {"ok", "error"}

Errors(r) == {i \in DOMAIN Batch(r) : step[r][Batch(r)[i]] = "error"}

\* Mutant: the last error of the batch ends the run.
FailFastLast(r) ==
  /\ Settled(r) /\ failFast[r]
  /\ \E i \in Errors(r) :
       /\ \A j \in Errors(r) : i >= j
       /\ stepResults' = [stepResults EXCEPT ![r] = @ \o SubSeq(Batch(r), 1, i)]
  /\ phase' = [phase EXCEPT ![r] = "failed"]
  /\ UNCHANGED <<definitions, plan, failFast, batch, step, traceVars, parentMessageId, record>>

\* The loop over the outcomes returns at the first error: the outcomes after it are dropped.
FailFast(r) ==
  /\ Settled(r) /\ failFast[r]
  /\ \E i \in Errors(r) :
       /\ \A j \in Errors(r) : i <= j
       /\ stepResults' = [stepResults EXCEPT ![r] = @ \o SubSeq(Batch(r), 1, i)]
  /\ phase' = [phase EXCEPT ![r] = "failed"]
  /\ UNCHANGED <<definitions, plan, failFast, batch, step, traceVars, parentMessageId, record>>

\* The loop calls options.onStepComplete() with each result it adds, before it looks at the
\* status: a throw rejects the run there.  (stepMessageIds is not read again.)
StepCompleteThrows(r) ==
  /\ Settled(r)
  /\ \E i \in DOMAIN Batch(r) :
       /\ failFast[r] => \A j \in Errors(r) : i <= j
       /\ stepResults' = [stepResults EXCEPT ![r] = @ \o SubSeq(Batch(r), 1, i)]
  /\ phase' = [phase EXCEPT ![r] = "rejected"]
  /\ UNCHANGED <<definitions, plan, failFast, batch, step, traceVars, parentMessageId, record>>

\* Mutant: a failed step leaves its id behind.
IdsAfterAll(r) == stepMessageIds[r] \cup Listed(Batch(r))

\* The ids and the root after the loop over the outcomes.
IdsAfter(r) == stepMessageIds[r] \cup {s \in Listed(Batch(r)) : step[r][s] = "ok"}

RootAfter(r) ==
  LET first == {i \in DOMAIN Batch(r) : step[r][Batch(r)[i]] = "ok"
                  /\ \A j \in 1..i - 1 : step[r][Batch(r)[j]] # "ok"}
  IN IF workflowRootMessageId[r] # None \/ first = {} THEN workflowRootMessageId[r]
     ELSE Batch(r)[CHOOSE i \in first : TRUE]

\* Mutant: the next batch starts although a step of this one has failed.
NextBatchAnyway(r) ==
  /\ Settled(r)
  /\ batch[r] < Len(BatchesOf[plan[r]])
  /\ stepResults' = [stepResults EXCEPT ![r] = @ \o Batch(r)]
  /\ stepMessageIds' = [stepMessageIds EXCEPT ![r] = IdsAfter(r)]
  /\ workflowRootMessageId' = [workflowRootMessageId EXCEPT ![r] = RootAfter(r)]
  /\ StartBatch(r, batch[r] + 1, IdsAfter(r), RootAfter(r))
  /\ UNCHANGED <<definitions, plan, failFast, phase, record>>

\* Mutant: failed steps leave no result.
NextBatchOnlyOk(r) ==
  /\ Settled(r) /\ (failFast[r] => Errors(r) = {})
  /\ batch[r] < Len(BatchesOf[plan[r]])
  /\ stepResults' = [stepResults EXCEPT ![r] =
                       @ \o SelectSeq(Batch(r), LAMBDA s : step[r][s] = "ok")]
  /\ stepMessageIds' = [stepMessageIds EXCEPT ![r] = IdsAfter(r)]
  /\ workflowRootMessageId' = [workflowRootMessageId EXCEPT ![r] = RootAfter(r)]
  /\ StartBatch(r, batch[r] + 1, IdsAfter(r), RootAfter(r))
  /\ UNCHANGED <<definitions, plan, failFast, phase, record>>

\* The loop over the outcomes ends, and the next turn of the loop over the batches begins.
NextBatch(r) ==
  /\ Settled(r) /\ (failFast[r] => Errors(r) = {})
  /\ batch[r] < Len(BatchesOf[plan[r]])
  /\ stepResults' = [stepResults EXCEPT ![r] = @ \o Batch(r)]
  /\ stepMessageIds' = [stepMessageIds EXCEPT ![r] = IdsAfter(r)]
  /\ workflowRootMessageId' = [workflowRootMessageId EXCEPT ![r] = RootAfter(r)]
  /\ StartBatch(r, batch[r] + 1, IdsAfter(r), RootAfter(r))
  /\ UNCHANGED <<definitions, plan, failFast, phase, record>>

\* After the last batch reduceOutput() may throw, which rejects the run as well.
LastBatch(r, reduces) ==
  /\ Settled(r) /\ (failFast[r] => Errors(r) = {})
  /\ batch[r] = Len(BatchesOf[plan[r]])
  /\ stepResults' = [stepResults EXCEPT ![r] = @ \o Batch(r)]
  /\ stepMessageIds' = [stepMessageIds EXCEPT ![r] = IdsAfter(r)]
  /\ workflowRootMessageId' = [workflowRootMessageId EXCEPT ![r] = RootAfter(r)]
  /\ phase' = [phase EXCEPT ![r] = IF reduces THEN "completed" ELSE "rejected"]
  /\ UNCHANGED <<definitions, plan, failFast, batch, step, parentMessageId, record>>

\* Mutant: a rejected run is saved like the others, with a status records do not have.
SaveRejected(r) ==
  /\ record[r] = Record("running", <<>>, None)
  /\ phase[r] \in {"completed", "failed", "rejected"}
  /\ record' = [record EXCEPT ![r] =
       Record(phase[r], stepResults[r],
              IF phase[r] = "failed" THEN stepResults[r][Len(stepResults[r])] ELSE None)]
  /\ UNCHANGED <<definitions, plan, failFast, phase, batch, step, stepResults, traceVars,
                 parentMessageId>>

\* Mutant: the record of a failed run is not saved.
SaveCompleted(r) ==
  /\ record[r] = Record("running", <<>>, None)
  /\ phase[r] = "completed"
  /\ record' = [record EXCEPT ![r] = Record(phase[r], stepResults[r], None)]
  /\ UNCHANGED <<definitions, plan, failFast, phase, batch, step, stepResults, traceVars,
                 parentMessageId>>

\* run() saves the outcome of runWorkflow() and returns it.
Save(r) ==
  /\ record[r] = Record("running", <<>>, None)
  /\ phase[r] \in {"completed", "failed"}
  /\ record' = [record EXCEPT ![r] =
       Record(phase[r], stepResults[r],
              IF phase[r] = "failed" THEN stepResults[r][Len(stepResults[r])] ELSE None)]
  /\ UNCHANGED <<definitions, plan, failFast, phase, batch, step, stepResults, traceVars,
                 parentMessageId>>

-------------------------------------------------------------------------------
Init ==
  /\ definitions = [w \in {} |-> None]
  /\ plan = [r \in Runs |-> None]
  /\ failFast = [r \in Runs |-> TRUE]
  /\ phase = [r \in Runs |-> "idle"]
  /\ batch = [r \in Runs |-> 0]
  /\ step = [r \in Runs |-> [s \in Steps |-> "idle"]]
  /\ stepResults = [r \in Runs |-> <<>>]
  /\ stepMessageIds = [r \in Runs |-> {}]
  /\ workflowRootMessageId = [r \in Runs |-> None]
  /\ parentMessageId = [r \in Runs |-> [s \in Steps |-> None]]
  /\ record = [r \in Runs |-> None]

Next ==
  \/ \E w \in Workflows, p \in ValidPlans : Register(w, p)
  \/ \E w \in Workflows : Unregister(w)
  \/ \E r \in Runs :
       \/ \E w \in Workflows, ff \in BOOLEAN : Run(r, w, ff)
       \/ \E p \in ValidPlans, ff \in BOOLEAN : ExecuteSubtaskPlan(r, p, ff)
       \/ PlanReadyThrows(r)
       \/ Begin(r)
       \/ \E s \in Steps, status \in {"ok", "error"} : StepEnds(r, s, status)
       \/ \E s \in Steps : StepThrows(r, s)
       \/ Reject(r)
       \/ FailFast(r)
       \/ StepCompleteThrows(r)
       \/ NextBatch(r)
       \/ \E reduces \in BOOLEAN : LastBatch(r, reduces)
       \/ Save(r)

Spec == Init /\ [][Next]_vars

\* The event loop runs every continuation.  A step ends because its task has a timeout
\* (CallsEnd of AgentRuntime), or it throws.  Nothing obliges a callback to throw.
Fairness ==
  \A r \in Runs :
    /\ WF_vars(Begin(r))
    /\ \A s \in Steps :
         WF_vars((\E status \in {"ok", "error"} : StepEnds(r, s, status)) \/ StepThrows(r, s))
    /\ WF_vars(Reject(r))
    /\ WF_vars(FailFast(r) \/ NextBatch(r) \/ \E reduces \in BOOLEAN : LastBatch(r, reduces))
    /\ WF_vars(Save(r))

FairSpec == Spec /\ Fairness
-------------------------------------------------------------------------------
(* Properties.                                                              *)

\* Every variable keeps its shape.
TypeOK ==
  /\ DOMAIN definitions \subseteq Workflows
  /\ \A w \in DOMAIN definitions : definitions[w] \in ValidPlans
  /\ plan \in [Runs -> ValidPlans \cup {None}]
  /\ failFast \in [Runs -> BOOLEAN]
  /\ phase \in [Runs -> {"idle", "saved", "running", "completed", "failed", "rejected"}]
  /\ batch \in [Runs -> Nat]
  /\ step \in [Runs -> [Steps -> {"idle", "running", "ok", "error", "threw"}]]
  /\ stepResults \in [Runs -> Seq(Steps)]
  /\ stepMessageIds \in [Runs -> SUBSET Steps]
  /\ workflowRootMessageId \in [Runs -> Steps \cup {None}]
  /\ parentMessageId \in [Runs -> [Steps -> Steps \cup {None}]]
  /\ record \in [Runs -> {None} \cup
                  [status : {"running", "completed", "failed"}, steps : Seq(Steps),
                   failedStepId : Steps \cup {None}]]

\* When mapInput() of a step runs, the results of all of its dependencies are in stepResults.
DependenciesKnown ==
  \A r \in Runs : \A s \in Steps :
    step[r][s] = "running" /\ phase[r] = "running"
      => Deps(plan[r], s) \subseteq Listed(stepResults[r])

\* A stored record tells what happened: "completed" holds one result for every step, all of
\* them ended; "failed" ends with the step it names, which failed, after results that did not.
RecordTrue ==
  \A r \in Runs :
    LET rec == record[r]
        got == Listed(rec.steps)
    IN rec # None =>
         /\ \A i, j \in DOMAIN rec.steps : rec.steps[i] = rec.steps[j] => i = j
         /\ rec.status = "completed" =>
              /\ got = DOMAIN plan[r]
              /\ \A s \in got : step[r][s] = "ok" \/ (step[r][s] = "error" /\ ~failFast[r])
         /\ rec.status = "failed" =>
              /\ failFast[r] /\ rec.steps # <<>>
              /\ rec.failedStepId = rec.steps[Len(rec.steps)]
              /\ \A s \in got : step[r][s] = IF s = rec.failedStepId THEN "error" ELSE "ok"

\* The delegation graph gets a sound parent for each step: one that succeeded before, a
\* dependency of the step whenever one of them did.
ParentSound ==
  \A r \in Runs : \A s \in Steps :
    LET parent == parentMessageId[r][s]
        good == {d \in Listed(stepResults[r]) : step[r][d] = "ok"}
    IN step[r][s] # "idle" =>
         IF Deps(plan[r], s) \cap good # {} THEN parent \in Deps(plan[r], s) \cap good
         ELSE parent = None \/ parent \in good

\* A step starts with all that it depends on: the results for its input, and a parent for its
\* place in the delegation graph.
StepsInformed == DependenciesKnown /\ ParentSound

\* The execution keeps the promise of DagSchedule.
EndOf(r) == IF phase[r] \in {"completed", "failed", "rejected"} THEN phase[r] ELSE None

Schedule == INSTANCE DagSchedule WITH end <- [r \in Runs |-> EndOf(r)]

KeepsSchedule == Schedule!Spec

\* What GET /workflows/runs/:runId shows of a run.
Status(r) == IF record[r] = None THEN None ELSE record[r].status

\* A run that was stored as running gets its final record, unless it was rejected.
RunsEnd ==
  \A r \in Runs :
    Status(r) = "running" ~> Status(r) # "running" \/ phase[r] = "rejected"

\* Every run that was stored gets its final record.
StoredRunsEnd ==
  \A r \in Runs : Status(r) = "running" ~> Status(r) # "running"
===============================================================================
