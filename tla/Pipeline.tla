-------------------------------- MODULE Pipeline --------------------------------
(***************************************************************************)
(* runPipeline() (core/src/runtime/pipeline.ts): steps in a row, each of   *)
(* which hands a task to an agent and waits for the answer.  A pipeline is *)
(* a plan in which each step depends on the one before, and keeps the      *)
(* promise of DagSchedule for fail-fast runs; of its results it promises   *)
(* that they tell how the steps went.                                      *)
(*                                                                         *)
(* An action is what runs between two awaits, cut further where the        *)
(* promise tells the end of a step from the start of the next one and from *)
(* the end of the call.  Inputs and outputs are left out.                  *)
(***************************************************************************)
EXTENDS Naturals, Sequences

CONSTANTS
  Pipelines,  \* calls of runPipeline()
  MaxLength,  \* bound: steps of one
  NotYet      \* what was not given or returned yet

\* n steps in a row, as a plan.
Row(n) == [i \in 1..n |-> IF i = 1 THEN <<>> ELSE <<i - 1>>]

ASSUME PipelineConstants ==
  /\ MaxLength \in Nat
  /\ NotYet \notin Nat /\ NotYet \notin {Row(n) : n \in 0..MaxLength}

VARIABLES
  length,      \* the steps of each call
  tasks,       \* how sendTask() of each step went: "running", "success" or "error" as the
               \* agent answered, "unanswered" (timeout or routing error), or "threw"
  resultsOf,   \* stepResults: the steps of which it has a result, with the status
  returned     \* how it ended, "completed", "failed" or "rejected", and with what

pipelineVars == <<length, tasks, resultsOf, returned>>

Result(c, end, failed) == [end |-> end, failedStepId |-> failed, steps |-> resultsOf[c]]

PipelineInit ==
  /\ length = [c \in Pipelines |-> NotYet]
  /\ tasks = [c \in Pipelines |-> <<>>]
  /\ resultsOf = [c \in Pipelines |-> <<>>]
  /\ returned = [c \in Pipelines |-> Result(c, NotYet, NotYet)]

RunPipeline(c, n) ==
  /\ length[c] = NotYet
  /\ length' = [length EXCEPT ![c] = n]
  /\ UNCHANGED <<tasks, resultsOf, returned>>

\* The call is at a turn of its loop: before the first step, or after one that ended so.
AtTurn(c, ends) ==
  /\ length[c] # NotYet /\ returned[c].end = NotYet
  /\ tasks[c] # <<>> => tasks[c][Len(tasks[c])] \in ends

\* Mutant: only a step without an answer ends the pipeline.
SendNextAnyway(c) ==
  /\ AtTurn(c, {"success", "error"}) /\ Len(tasks[c]) < length[c]
  /\ tasks' = [tasks EXCEPT ![c] = Append(@, "running")]
  /\ UNCHANGED <<length, resultsOf, returned>>

\* The next step maps its input and sends its task.
SendNext(c) ==
  /\ AtTurn(c, {"success"}) /\ Len(tasks[c]) < length[c]
  /\ tasks' = [tasks EXCEPT ![c] = Append(@, "running")]
  /\ UNCHANGED <<length, resultsOf, returned>>

\* Mutant: a result is kept of the steps that succeeded.
TaskEndsOnly(c, how) ==
  /\ tasks[c] # <<>> /\ tasks[c][Len(tasks[c])] = "running"
  /\ tasks' = [tasks EXCEPT ![c][Len(tasks[c])] = how]
  /\ resultsOf' = IF how = "success"
                    THEN [resultsOf EXCEPT ![c] = Append(@, <<Len(tasks[c]), how>>)]
                    ELSE resultsOf
  /\ UNCHANGED <<length, returned>>

\* sendTask() returns; or mapInput() throws, or sendTask(), since the executor was stopped or
\* cannot record the message.  An answer becomes a result, whatever it says.
TaskEnds(c, how) ==
  /\ tasks[c] # <<>> /\ tasks[c][Len(tasks[c])] = "running"
  /\ tasks' = [tasks EXCEPT ![c][Len(tasks[c])] = how]
  /\ resultsOf' = IF how \in {"success", "error"}
                    THEN [resultsOf EXCEPT ![c] = Append(@, <<Len(tasks[c]), how>>)]
                    ELSE resultsOf
  /\ UNCHANGED <<length, returned>>

\* The step that failed ends the pipeline.
ReturnFailure(c) ==
  /\ tasks[c] # <<>> /\ AtTurn(c, {"error", "unanswered"})
  /\ returned' = [returned EXCEPT ![c] = Result(c, "failed", Len(tasks[c]))]
  /\ UNCHANGED <<length, tasks, resultsOf>>

Throw(c) ==
  /\ tasks[c] # <<>> /\ AtTurn(c, {"threw"})
  /\ returned' = [returned EXCEPT ![c].end = "rejected"]
  /\ UNCHANGED <<length, tasks, resultsOf>>

ReturnSuccess(c) ==
  /\ AtTurn(c, {"success"}) /\ Len(tasks[c]) = length[c]
  /\ returned' = [returned EXCEPT ![c] = Result(c, "completed", NotYet)]
  /\ UNCHANGED <<length, tasks, resultsOf>>

PipelineNext ==
  \E c \in Pipelines :
    \/ \E n \in 0..MaxLength : RunPipeline(c, n)
    \/ SendNext(c)
    \/ \E how \in {"success", "error", "unanswered", "threw"} : TaskEnds(c, how)
    \/ ReturnFailure(c) \/ Throw(c) \/ ReturnSuccess(c)

PipelineSpec == PipelineInit /\ [][PipelineNext]_pipelineVars

-------------------------------------------------------------------------------
(* Properties.                                                              *)

\* What DagSchedule tells apart: a step without an answer is an error as well.
StepOf(c, i) ==
  IF i > Len(tasks[c]) THEN "idle"
  ELSE CASE tasks[c][i] = "success" -> "ok"
         [] tasks[c][i] = "unanswered" -> "error"
         [] OTHER -> tasks[c][i]

InARow == INSTANCE DagSchedule WITH
  Runs <- Pipelines, Steps <- 1..MaxLength, ValidPlans <- {Row(n) : n \in 0..MaxLength},
  None <- NotYet,
  plan <- [c \in Pipelines |-> IF length[c] = NotYet THEN NotYet ELSE Row(length[c])],
  failFast <- [c \in Pipelines |-> TRUE],
  step <- [c \in Pipelines |-> [i \in 1..MaxLength |-> StepOf(c, i)]],
  end <- [c \in Pipelines |-> returned[c].end]

\* A pipeline is a fail-fast run of a plan whose steps are in a row: no step starts before
\* the one before it has succeeded, and none after a failure or the end of the call.
PipelineKeepsSchedule == InARow!Spec

\* What a pipeline returns tells how its steps went: a result for every step that was
\* answered, in their order, and the step that failed, the only one that did.
PipelineTold ==
  \A c \in Pipelines :
    LET told == returned[c]
        failed == {i \in DOMAIN tasks[c] : tasks[c][i] # "success"}
    IN told.end \notin {NotYet, "rejected"} =>
         /\ DOMAIN told.steps = {i \in DOMAIN tasks[c] : tasks[c][i] # "unanswered"}
         /\ \A k \in DOMAIN told.steps : told.steps[k] = <<k, tasks[c][k]>>
         /\ failed = IF told.end = "failed" THEN {told.failedStepId} ELSE {}
         /\ told.end = "completed" => Len(told.steps) = length[c]
===============================================================================
