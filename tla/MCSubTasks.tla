------------------------------ MODULE MCSubTasks ------------------------------
(* Two agents with onTask handlers that may send each other sub-tasks.       *)
EXTENDS AgentRuntime, TLC

CONSTANTS r1, r2, c1, c2, t1

MCUriOf == (r1 :> 1) @@ (r2 :> 2)
MCCapabilitiesOf == (r1 :> {c1}) @@ (r2 :> {c2})
MCAgents == {1, 2}

\* Each sends the other tasks, at any time or from inside onTask.
MCTaskCalls ==
  {[runtime |-> r1, to |-> None, capability |-> c2, wait |-> TRUE],
   [runtime |-> r2, to |-> None, capability |-> c1, wait |-> TRUE]}
===============================================================================
