---------------------------- MODULE MCAgentRuntime ----------------------------
(* Two coordinators that share a URI and pull their tasks, and one agent     *)
(* with an onTask handler.                                                    *)
EXTENDS AgentRuntime, TLC

CONSTANTS r1, r2, r3, c1, t1

MCUriOf == (r1 :> 1) @@ (r2 :> 1) @@ (r3 :> 2)
MCCapabilitiesOf == (r1 :> {}) @@ (r2 :> {}) @@ (r3 :> {c1})
MCAgents == {1, 2}

\* By capability to the agent, which may do so too; and to the coordinators' URI.
MCTaskCalls ==
  [runtime : {r1, r2, r3}, to : {None}, capability : {c1}, wait : BOOLEAN]
    \cup [runtime : {r3}, to : {1}, capability : {c1}, wait : {TRUE}]

\* The coordinators are interchangeable.
MCSymmetry == Permutations({r1, r2})
===============================================================================
