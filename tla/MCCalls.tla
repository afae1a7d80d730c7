-------------------------------- MODULE MCCalls --------------------------------
(* The callers of the server side by side: a behaviour is one of a workflow  *)
(* run, of pipelines, of the remote clients or of the console, while the     *)
(* other ones stay as they are.                                              *)
EXTENDS MCWorkflowRun, Pipeline, RemoteCalls, Console, TLC

CONSTANTS p, q, t1, t2, m1, m2, m3

VARIABLE part  \* which of them the behaviour is one of

\* The client of p retries, the one of q does not (retryPolicy: false).
MCAttempts == (p :> 2) @@ (q :> 1)
MCMaxPolls == (p :> 1) @@ (q :> 2)

\* A trace that gets another message, and one that is finished.
MCTraceOf == (m1 :> t1) @@ (m2 :> t2) @@ (m3 :> t1)
MCBegun == (t1 :> <<m1>>) @@ (t2 :> <<m2>>)

CallsInit ==
  /\ Init /\ PipelineInit /\ RemoteInit /\ ConsoleInit
  /\ part \in {"workflow", "pipelines", "remote", "console"}
  /\ part # "console" => selected = t1

CallsNext ==
  /\ UNCHANGED part
  /\ \/ part = "workflow" /\ Next /\ UNCHANGED <<pipelineVars, remoteVars, consoleVars>>
     \/ part = "pipelines" /\ PipelineNext /\ UNCHANGED <<vars, remoteVars, consoleVars>>
     \/ part = "remote" /\ RemoteNext /\ UNCHANGED <<vars, pipelineVars, consoleVars>>
     \/ part = "console" /\ ConsoleNext /\ UNCHANGED <<vars, pipelineVars, remoteVars>>

CallsSpec ==
  /\ CallsInit /\ [][CallsNext]_<<part, vars, pipelineVars, remoteVars, consoleVars>>
  /\ Fairness /\ RemoteFairness /\ ConsoleFairness
===============================================================================
