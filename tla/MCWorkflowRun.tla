---------------------------- MODULE MCWorkflowRun -----------------------------
EXTENDS WorkflowRun

\* Two roots, a fork and a join; a chain against the order of the plan, whose last step
\* names a dependency twice; three independent steps and one that needs two of them.
Diamond == << <<>>, <<>>, <<1>>, <<2, 1>>, <<3, 4>> >>
Chain == << <<2, 2, 3>>, <<>>, <<2>> >>
Fan == << <<>>, <<>>, <<>>, <<3, 1>> >>

MCPlans == {Diamond, Chain, Fan}
MCBatchesOf ==
  [p \in MCPlans |-> IF p = Diamond THEN << <<1, 2>>, <<3, 4>>, <<5>> >>
                     ELSE IF p = Chain THEN << <<2>>, <<3>>, <<1>> >>
                     ELSE << <<1, 2, 3>>, <<4>> >>]

ASSUME Ordered == \A p \in MCPlans : InOrder(p, MCBatchesOf[p])
===============================================================================
