----------------------------- MODULE DagSchedule ------------------------------
(***************************************************************************)
(* What a DAG plan execution promises (docs/subtask-decomposition.md,      *)
(* docs/workflow-engine.md), whatever batches it is cut into:              *)
(*   - a step runs at most once, and only when its dependencies have       *)
(*     ended, with success unless the run tolerates failures;              *)
(*   - after a failure of a fail-fast run nothing starts;                  *)
(*   - a run completes only when all of its steps have ended, "failed" is  *)
(*     the end of a fail-fast run with a failed step, a run is rejected    *)
(*     only over a step that threw or, by a function its caller gave, when *)
(*     none of its steps is running, and a run that has ended starts       *)
(*     nothing.                                                            *)
(***************************************************************************)
EXTENDS Plans

CONSTANTS Runs, Steps, ValidPlans, None

VARIABLES
  plan,       \* the plan of each run, None before it starts
  failFast,   \* whether it stops at the first failure
  step,       \* how far each step of each run has got
  end         \* how each run ended, None while it has not

vars == <<plan, failFast, step, end>>

Init ==
  /\ plan = [r \in Runs |-> None]
  /\ failFast \in [Runs -> BOOLEAN]
  /\ step = [r \in Runs |-> [s \in Steps |-> "idle"]]
  /\ end = [r \in Runs |-> None]

Ended(r) == {s \in Steps : step[r][s] \in {"ok", "error"}}
Failed(r) == {s \in Steps : step[r][s] \in {"error", "threw"}}

Accept(r, p, tolerant) ==
  /\ plan[r] = None
  /\ plan' = [plan EXCEPT ![r] = p]
  /\ failFast' = [failFast EXCEPT ![r] = ~tolerant]
  /\ UNCHANGED <<step, end>>

\* A set of steps starts, independent of one another.
Start(r, S) ==
  /\ plan[r] # None /\ end[r] = None
  /\ failFast[r] => Failed(r) = {}
  /\ \A s \in S : step[r][s] = "idle" /\ s \in DOMAIN plan[r]
                                      /\ Deps(plan[r], s) \subseteq Ended(r)
  /\ step' = [step EXCEPT ![r] = [s \in Steps |-> IF s \in S THEN "running" ELSE @[s]]]
  /\ UNCHANGED <<plan, failFast, end>>

End(r, s, how) ==
  /\ step[r][s] = "running"
  /\ step' = [step EXCEPT ![r][s] = how]
  /\ UNCHANGED <<plan, failFast, end>>

Finish(r, how) ==
  /\ plan[r] # None /\ end[r] = None
  /\ how = "completed" => Ended(r) = DOMAIN plan[r] /\ (failFast[r] => Failed(r) = {})
  /\ how = "failed" => failFast[r] /\ Failed(r) # {}
  /\ how = "rejected" => \/ \E s \in Steps : step[r][s] = "threw"
                        \/ \A s \in Steps : step[r][s] # "running"
  /\ end' = [end EXCEPT ![r] = how]
  /\ UNCHANGED <<plan, failFast, step>>

Next ==
  \E r \in Runs :
    \/ \E p \in ValidPlans, tolerant \in BOOLEAN : Accept(r, p, tolerant)
    \/ \E S \in SUBSET Steps : Start(r, S)
    \/ \E s \in Steps, how \in {"ok", "error", "threw"} : End(r, s, how)
    \/ \E how \in {"completed", "failed", "rejected"} : Finish(r, how)

Spec == Init /\ [][Next]_vars
===============================================================================
