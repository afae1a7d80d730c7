-------------------------------- MODULE MCSends --------------------------------
(* The bus and a sender with failover side by side: a behaviour is one of    *)
(* the bus or of a task that is sent with failover, while the other stays as *)
(* it is.                                                                    *)
EXTENDS MCMessageBus, MCResilientSend

VARIABLE part  \* which of the two the behaviour is one of

SendsInit ==
  /\ Init /\ SendInit
  /\ part \in {"bus", "failover"}
  /\ part = "bus" => running = {} /\ ~busOpen /\ ~callerRunning

SendsNext ==
  /\ UNCHANGED part
  /\ \/ part = "bus" /\ Next /\ UNCHANGED failoverVars
     \/ part = "failover" /\ SendNext /\ UNCHANGED vars

SendsSpec ==
  /\ SendsInit /\ [][SendsNext]_<<part, vars, failoverVars>>
  /\ Fairness /\ SendFairness
===============================================================================
