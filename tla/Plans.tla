-------------------------------- MODULE Plans ---------------------------------
(***************************************************************************)
(* Subtask plans (core/src/workflow/subtask-plan-types.ts) and what their  *)
(* execution batches are meant to be (docs/subtask-decomposition.md:120).  *)
(*                                                                         *)
(* A plan is the dependsOn list of each step; steps are numbered in the    *)
(* order of plan.steps, so that ids are unique and known by construction.  *)
(***************************************************************************)
EXTENDS Naturals, Sequences

IsPlan(p) ==
  /\ p \in Seq(Seq(DOMAIN p))
  /\ p # <<>>

Listed(q) == {q[i] : i \in DOMAIN q}

Deps(p, s) == Listed(p[s])

\* The steps of the first n batches.
InFirst(b, n) == UNION {Listed(b[k]) : k \in 1..n}

-------------------------------------------------------------------------------
\* Every step depends only on steps of earlier batches, ...
DependenciesEarlier(p, b) ==
  \A k \in DOMAIN b : \A s \in Listed(b[k]) : Deps(p, s) \subseteq InFirst(b, k - 1)

\* ... waits for no batch it need not wait for, ...
NoLaterThanNeeded(p, b) ==
  \A k \in DOMAIN b : \A s \in Listed(b[k]) :
    k = 1 \/ \E d \in Deps(p, s) : d \in Listed(b[k - 1])

\* ... and runs once.
NoStepTwice(b) ==
  \A j, k \in DOMAIN b : \A i \in DOMAIN b[j], l \in DOMAIN b[k] :
    b[j][i] = b[k][l] => j = k /\ i = l

\* b are topological levels of the whole plan.
IsBatching(p, b) ==
  /\ b \in Seq(Seq(DOMAIN p))
  /\ InFirst(b, Len(b)) = DOMAIN p
  /\ \A k \in DOMAIN b : b[k] # <<>>
  /\ DependenciesEarlier(p, b) /\ NoLaterThanNeeded(p, b) /\ NoStepTwice(b)

\* The position in batch q of the last of its steps that s depends on.
LastAmong(p, q, s) ==
  {i \in DOMAIN q : q[i] \in Deps(p, s) /\ \A j \in DOMAIN q : q[j] \in Deps(p, s) => j <= i}

\* A batch is ordered by when the batch before released its steps, then by plan order.
InOrder(p, b) ==
  \A k \in DOMAIN b : \A i, j \in DOMAIN b[k] :
    i < j =>
      IF k = 1 THEN b[k][i] < b[k][j]
      ELSE \E x \in LastAmong(p, b[k - 1], b[k][i]), y \in LastAmong(p, b[k - 1], b[k][j]) :
             x < y \/ (x = y /\ b[k][i] < b[k][j])

\* Steps that wait for one another.
Cyclic(p) == \E S \in SUBSET DOMAIN p : S # {} /\ \A s \in S : Deps(p, s) \cap S # {}
===============================================================================
