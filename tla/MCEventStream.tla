---------------------------- MODULE MCEventStream -----------------------------
EXTENDS EventStream, TLC

CONSTANTS e1, e2, x1

\* The first client follows everything, the other one a trace.
MCFollows == [c \in Clients |-> IF c = e1 THEN Absent ELSE x1]

\* Nothing tells one process from another.
Processes == Permutations(Servers)
===============================================================================
