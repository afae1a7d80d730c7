---------------------------- MODULE ScheduleProofs ----------------------------
(*****************************************************************************)
(* Proofs about what runs steps in the order that their dependencies allow:  *)
(* WorkflowRun, for any number of runs, any plans, and any batches of them   *)
(* that are topological levels (WorkflowPlans), and Pipeline, for any number *)
(* of steps.  Both keep the promise of DagSchedule.                          *)
(*                                                                           *)
(* RunInv is the inductive invariant of one run.  Its core is Current: the   *)
(* steps with a result are those of the batches before the current one,      *)
(* and outside of them exactly the steps of the current batch have started.  *)
(* Of a pipeline, every step before the last one sent has succeeded, and     *)
(* the results are those of the steps that were answered.                    *)
(*****************************************************************************)
EXTENDS WorkflowRun, Pipeline, SequenceTheorems, WellFoundedInduction, TLAPS

-------------------------------------------------------------------------------
(* The inductive invariant.                                                 *)

Levels(r) == BatchesOf[plan[r]]

\* The steps of the batches before the current one.
Past(r) == InFirst(Levels(r), batch[r] - 1)

Good(r, s) == step[r][s] = "ok" \/ (step[r][s] = "error" /\ ~failFast[r])

Oks(r) == {s \in Listed(stepResults[r]) : step[r][s] = "ok"}

\* A run has a plan from its first action on.
Planned(r) ==
  IF phase[r] = "idle" THEN plan[r] = None /\ record[r] = None ELSE plan[r] \in ValidPlans

Fresh(r) ==
  phase[r] \in {"idle", "saved"} =>
    /\ stepResults[r] = <<>> /\ stepMessageIds[r] = {} /\ workflowRootMessageId[r] = None
    /\ \A s \in Steps : step[r][s] = "idle"

Current(r) ==
  phase[r] = "running" =>
    /\ batch[r] \in 1..Len(Levels(r))
    /\ Listed(stepResults[r]) = Past(r)
    /\ \A s \in Past(r) : Good(r, s)
    /\ \A s \in Steps : step[r][s] # "idle" <=> s \in Past(r) \cup Listed(Batch(r))

\* The two ends that are recorded.
AtEnd(r) ==
  /\ phase[r] = "completed" =>
       /\ Listed(stepResults[r]) = DOMAIN plan[r]
       /\ \A s \in DOMAIN plan[r] : Good(r, s)
  /\ phase[r] = "failed" =>
       /\ failFast[r] /\ stepResults[r] # <<>>
       /\ \A i \in DOMAIN stepResults[r] :
            step[r][stepResults[r][i]] = IF i = Len(stepResults[r]) THEN "error" ELSE "ok"

Once(r) ==
  /\ \A i, j \in DOMAIN stepResults[r] : stepResults[r][i] = stepResults[r][j] => i = j
  /\ \A s \in Listed(stepResults[r]) : step[r][s] \in {"ok", "error"}

\* A record is the first one or the outcome of the run.
Recorded(r) ==
  \/ record[r] \in {None, Record("running", <<>>, None)}
  \/ /\ phase[r] \in {"completed", "failed"}
     /\ record[r] = Record(phase[r], stepResults[r],
                           IF phase[r] = "failed" THEN stepResults[r][Len(stepResults[r])]
                           ELSE None)

\* A step that has started has the results of its dependencies behind it.
Known(r) ==
  \A s \in Steps : step[r][s] # "idle" => Deps(plan[r], s) \subseteq Listed(stepResults[r])

\* What parents are resolved from.
Sources(r) ==
  phase[r] = "running" =>
    stepMessageIds[r] = Oks(r) /\ workflowRootMessageId[r] \in Oks(r) \cup {None}

ParentsOk(r) ==
  \A s \in Steps :
    step[r][s] # "idle" =>
      IF Deps(plan[r], s) \cap Oks(r) # {} THEN parentMessageId[r][s] \in Deps(plan[r], s) \cap Oks(r)
      ELSE parentMessageId[r][s] \in Oks(r) \cup {None}

RunInv(r) ==
  /\ Planned(r) /\ Fresh(r) /\ Current(r) /\ AtEnd(r) /\ Once(r) /\ Recorded(r)
  /\ Known(r) /\ Sources(r) /\ ParentsOk(r)

Inv == TypeOK /\ \A r \in Runs : RunInv(r)

-------------------------------------------------------------------------------
(* Plans and their batches.                                                 *)

LEMMA PlanFacts ==
  ASSUME NEW p \in ValidPlans
  PROVE  /\ p \in Seq(Seq(DOMAIN p)) /\ DOMAIN p = 1..Len(p) /\ DOMAIN p # {}
         /\ DOMAIN p \subseteq Steps
         /\ BatchesOf[p] \in Seq(Seq(DOMAIN p))
         /\ Len(BatchesOf[p]) \in Nat \ {0}
         /\ \A s \in DOMAIN p : Deps(p, s) \subseteq DOMAIN p
<1>1. IsPlan(p) /\ IsBatching(p, BatchesOf[p])
  BY WorkflowPlans
<1>2. p \in Seq(Seq(DOMAIN p)) /\ p # <<>>
  BY <1>1 DEF IsPlan
<1>3. DOMAIN p = 1..Len(p) /\ DOMAIN p # {}
  BY <1>2, EmptySeq, LenProperties
<1>4. DOMAIN p \subseteq Steps
  BY DEF Steps
<1>5. BatchesOf[p] \in Seq(Seq(DOMAIN p)) /\ InFirst(BatchesOf[p], Len(BatchesOf[p])) = DOMAIN p
  BY <1>1 DEF IsBatching
<1>6. Len(BatchesOf[p]) \in Nat \ {0}
  BY <1>3, <1>5, LenProperties DEF InFirst
<1>7. \A s \in DOMAIN p : Deps(p, s) \subseteq DOMAIN p
  BY <1>2, <1>3, ElementOfSeq DEF Deps, Listed
<1> QED BY <1>2, <1>3, <1>4, <1>5, <1>6, <1>7

\* Steps are positions, and None is none of them.
LEMMA StepsAreNumbers == Steps \subseteq Nat /\ None \notin Steps
<1>1. ASSUME NEW p \in ValidPlans PROVE DOMAIN p \subseteq Nat
  BY PlanFacts
<1>2. Steps \subseteq Nat
  BY <1>1 DEF Steps
<1> QED BY <1>2, WorkflowPlans

LEMMA InFirstStep ==
  ASSUME NEW b, NEW n \in Nat
  PROVE  InFirst(b, 0) = {} /\ InFirst(b, n + 1) = InFirst(b, n) \cup Listed(b[n + 1])
<1>1. 1..0 = {} /\ 1..n + 1 = (1..n) \cup {n + 1}
  OBVIOUS
<1> QED BY <1>1 DEF InFirst

\* The steps of batch k are new, once each, and their dependencies are behind them.
LEMMA BatchFacts ==
  ASSUME NEW p \in ValidPlans, NEW k \in 1..Len(BatchesOf[p])
  PROVE  /\ BatchesOf[p][k] \in Seq(DOMAIN p) /\ BatchesOf[p][k] # <<>>
         /\ InFirst(BatchesOf[p], k) \subseteq DOMAIN p
         /\ Listed(BatchesOf[p][k]) \cap InFirst(BatchesOf[p], k - 1) = {}
         /\ \A s \in Listed(BatchesOf[p][k]) : Deps(p, s) \subseteq InFirst(BatchesOf[p], k - 1)
         /\ \A i, j \in DOMAIN BatchesOf[p][k] : BatchesOf[p][k][i] = BatchesOf[p][k][j] => i = j
         /\ InFirst(BatchesOf[p], Len(BatchesOf[p])) = DOMAIN p
<1> DEFINE b == BatchesOf[p]
<1>1. IsBatching(p, b)
  BY WorkflowPlans
<1>2. b \in Seq(Seq(DOMAIN p)) /\ k \in DOMAIN b
  BY PlanFacts
<1>3. \A n \in DOMAIN b : b[n] \in Seq(DOMAIN p)
  BY <1>2, ElementOfSeq
<1>4. InFirst(b, k) \subseteq DOMAIN p
  <2>1. \A n \in 1..k : n \in DOMAIN b
    BY <1>2, PlanFacts
  <2> QED BY <1>3, <2>1, ElementOfSeq DEF InFirst, Listed
<1>5. Listed(b[k]) \cap InFirst(b, k - 1) = {}
  <2>1. \A n \in 1..k - 1 : n \in DOMAIN b /\ n # k
    BY <1>2, PlanFacts
  <2>2. NoStepTwice(b)
    BY <1>1 DEF IsBatching
  <2> QED BY <1>2, <2>1, <2>2 DEF InFirst, Listed, NoStepTwice
<1> QED BY <1>1, <1>2, <1>3, <1>4, <1>5 DEF IsBatching, DependenciesEarlier, NoStepTwice

LEMMA ListedFacts ==
  ASSUME NEW S, NEW p \in Seq(S), NEW q \in Seq(S)
  PROVE  /\ Listed(p \o q) = Listed(p) \cup Listed(q)
         /\ Listed(p) \subseteq S
         /\ (\A i, j \in DOMAIN p : p[i] = p[j] => i = j)
              /\ (\A i, j \in DOMAIN q : q[i] = q[j] => i = j) /\ Listed(p) \cap Listed(q) = {}
            => \A i, j \in DOMAIN (p \o q) : (p \o q)[i] = (p \o q)[j] => i = j
<1>1. /\ p \o q \in Seq(S) /\ Len(p \o q) = Len(p) + Len(q)
      /\ \A i \in 1..Len(p) + Len(q) :
           (p \o q)[i] = IF i <= Len(p) THEN p[i] ELSE q[i - Len(p)]
  BY ConcatProperties
<1>2. Len(p) \in Nat /\ Len(q) \in Nat /\ DOMAIN p = 1..Len(p) /\ DOMAIN q = 1..Len(q)
        /\ DOMAIN (p \o q) = 1..Len(p) + Len(q)
  BY <1>1, LenProperties
<1>3. Listed(p \o q) = Listed(p) \cup Listed(q)
  <2>1. ASSUME NEW j \in 1..Len(q) PROVE j + Len(p) \in 1..Len(p) + Len(q)
                                          /\ (p \o q)[j + Len(p)] = q[j]
    BY <1>1, <1>2
  <2>2. Listed(q) \subseteq Listed(p \o q)
    BY <1>2, <2>1 DEF Listed
  <2>3. Listed(p) \subseteq Listed(p \o q)
    BY <1>1, <1>2 DEF Listed
  <2>4. Listed(p \o q) \subseteq Listed(p) \cup Listed(q)
    BY <1>1, <1>2 DEF Listed
  <2> QED BY <2>2, <2>3, <2>4
<1>4. Listed(p) \subseteq S
  BY <1>2, ElementOfSeq DEF Listed
<1>5. ASSUME \A i, j \in DOMAIN p : p[i] = p[j] => i = j,
             \A i, j \in DOMAIN q : q[i] = q[j] => i = j,
             Listed(p) \cap Listed(q) = {},
             NEW i \in DOMAIN (p \o q), NEW j \in DOMAIN (p \o q), (p \o q)[i] = (p \o q)[j]
      PROVE  i = j
  <2>1. CASE i <= Len(p) /\ j <= Len(p)
    BY <1>1, <1>2, <1>5, <2>1
  <2>2. CASE ~(i <= Len(p)) /\ ~(j <= Len(p))
    BY <1>1, <1>2, <1>5, <2>2
  <2>3. CASE i <= Len(p) /\ ~(j <= Len(p))
    BY SMTT(30), <1>1, <1>2, <1>5, <2>3 DEF Listed
  <2>4. CASE ~(i <= Len(p)) /\ j <= Len(p)
    BY <1>1, <1>2, <1>5, <2>4 DEF Listed
  <2> QED BY <2>1, <2>2, <2>3, <2>4
<1> QED BY <1>3, <1>4, <1>5

\* What FailFast and StepCompleteThrows keep of a batch.
LEMMA KeptFacts ==
  ASSUME NEW S, NEW q \in Seq(S), NEW n \in DOMAIN q
  PROVE  /\ SubSeq(q, 1, n) \in Seq(S) /\ Len(SubSeq(q, 1, n)) = n
         /\ \A i \in 1..n : i \in DOMAIN q /\ SubSeq(q, 1, n)[i] = q[i]
  BY SubSeqProperties, LenProperties, ElementOfSeq

-------------------------------------------------------------------------------
(* Types.                                                                   *)

LEMMA ParentType ==
  ASSUME NEW p \in ValidPlans, NEW s \in DOMAIN p, NEW ids \in SUBSET Steps,
         NEW root \in Steps \cup {None}
  PROVE  ResolveParent(p, s, ids, root) \in Steps \cup {None}
<1> DEFINE known == {p[s][i] : i \in {i \in DOMAIN p[s] :
                       p[s][i] \in ids /\ \A j \in 1..i - 1 : p[s][j] \notin ids}}
<1>1. known \subseteq Steps
  OBVIOUS
<1>2. ResolveParent(p, s, ids, root) = IF known = {} THEN root ELSE CHOOSE d \in known : TRUE
  BY DEF ResolveParent
<1> QED BY <1>1, <1>2

LEMMA StartBatchType ==
  ASSUME TypeOK, NEW r \in Runs, NEW k \in 1..Len(Levels(r)), plan[r] \in ValidPlans,
         NEW ids \in SUBSET Steps, NEW root \in Steps \cup {None},
         StartBatch(r, k, ids, root)
  PROVE  /\ batch' \in [Runs -> Nat]
         /\ step' \in [Runs -> [Steps -> {"idle", "running", "ok", "error", "threw"}]]
         /\ parentMessageId' \in [Runs -> [Steps -> Steps \cup {None}]]
<1> DEFINE started == Listed(BatchesOf[plan[r]][k])
<1>1. started \subseteq DOMAIN plan[r]
  <2>1. BatchesOf[plan[r]][k] \in Seq(DOMAIN plan[r])
    BY BatchFacts DEF Levels
  <2> QED BY <2>1, ListedFacts
<1>2. batch' \in [Runs -> Nat]
  BY PlanFacts DEF TypeOK, StartBatch, Levels
<1>3. step' \in [Runs -> [Steps -> {"idle", "running", "ok", "error", "threw"}]]
  BY DEF TypeOK, StartBatch
<1>4. \A s \in Steps :
        (IF s \in started THEN ResolveParent(plan[r], s, ids, root) ELSE parentMessageId[r][s])
          \in Steps \cup {None}
  BY <1>1, ParentType DEF TypeOK
<1>5. parentMessageId' \in [Runs -> [Steps -> Steps \cup {None}]]
  BY <1>4 DEF TypeOK, StartBatch
<1> QED BY <1>2, <1>3, <1>5

\* The batch of a running run.
LEMMA RunningBatch ==
  ASSUME NEW r \in Runs, RunInv(r), phase[r] = "running"
  PROVE  /\ plan[r] \in ValidPlans /\ batch[r] \in 1..Len(Levels(r))
         /\ Batch(r) \in Seq(DOMAIN plan[r]) /\ Batch(r) \in Seq(Steps)
         /\ Listed(Batch(r)) \subseteq DOMAIN plan[r] /\ DOMAIN plan[r] \subseteq Steps
<1>1. plan[r] \in ValidPlans /\ batch[r] \in 1..Len(Levels(r))
  BY DEF RunInv, Planned, Current
<1>2. Batch(r) \in Seq(DOMAIN plan[r])
  BY <1>1, BatchFacts DEF Batch, Levels
<1>3. DOMAIN plan[r] \subseteq Steps
  BY <1>1, PlanFacts
<1>4. Batch(r) \in Seq(Steps)
  BY <1>2, <1>3, SeqMonotonic
<1> QED BY <1>1, <1>2, <1>3, <1>4, ListedFacts

LEMMA RootType ==
  ASSUME TypeOK, NEW r \in Runs, RunInv(r), phase[r] = "running"
  PROVE  /\ RootAfter(r) \in Steps \cup {None}
         /\ IdsAfter(r) \in SUBSET Steps
         /\ RootAfter(r) = workflowRootMessageId[r] \/ RootAfter(r) \in {s \in Listed(Batch(r)) : step[r][s] = "ok"}
<1> DEFINE first == {i \in DOMAIN Batch(r) : step[r][Batch(r)[i]] = "ok"
                       /\ \A j \in 1..i - 1 : step[r][Batch(r)[j]] # "ok"}
<1>1. RootAfter(r) = IF workflowRootMessageId[r] # None \/ first = {} THEN workflowRootMessageId[r]
                     ELSE Batch(r)[CHOOSE i \in first : TRUE]
  BY DEF RootAfter
<1>2. first # {} => (CHOOSE i \in first : TRUE) \in first
  OBVIOUS
<1>3. RootAfter(r) = workflowRootMessageId[r]
        \/ RootAfter(r) \in {s \in Listed(Batch(r)) : step[r][s] = "ok"}
  BY <1>1, <1>2 DEF Listed
<1>4. workflowRootMessageId[r] \in Steps \cup {None} /\ stepMessageIds[r] \in SUBSET Steps
  BY DEF TypeOK
<1> QED BY <1>3, <1>4, RunningBatch DEF IdsAfter

LEMMA RunTypes ==
  ASSUME TypeOK, NEW r \in Runs, RunInv(r),
         \/ \E w \in Workflows, ff \in BOOLEAN : Run(r, w, ff)
         \/ \E p \in ValidPlans, ff \in BOOLEAN : ExecuteSubtaskPlan(r, p, ff)
         \/ Begin(r)
         \/ \E s \in Steps, status \in {"ok", "error"} : StepEnds(r, s, status)
         \/ \E s \in Steps : StepThrows(r, s)
         \/ PlanReadyThrows(r) \/ Reject(r)
  PROVE  TypeOK'
<1>1. ASSUME NEW w \in Workflows, NEW ff \in BOOLEAN, Run(r, w, ff)
      PROVE  TypeOK'
  <2>1. Record("running", <<>>, None) \in [status : {"running", "completed", "failed"},
                                           steps : Seq(Steps), failedStepId : Steps \cup {None}]
    BY EmptySeq DEF Record
  <2>2. \A x \in Runs : record'[x] = record[x] \/ record'[x] = Record("running", <<>>, None)
    BY <1>1 DEF Run
  <2> QED BY <1>1, <2>1, <2>2 DEF TypeOK, Run, traceVars
<1>2. ASSUME NEW p \in ValidPlans, NEW ff \in BOOLEAN, ExecuteSubtaskPlan(r, p, ff)
      PROVE  TypeOK'
  BY <1>2 DEF TypeOK, ExecuteSubtaskPlan, traceVars
<1>3. CASE Begin(r)
  <2>1. plan[r] \in ValidPlans /\ 1 \in 1..Len(Levels(r))
    BY <1>3, PlanFacts DEF Begin, RunInv, Planned, Levels
  <2>2. /\ batch' \in [Runs -> Nat]
        /\ step' \in [Runs -> [Steps -> {"idle", "running", "ok", "error", "threw"}]]
        /\ parentMessageId' \in [Runs -> [Steps -> Steps \cup {None}]]
    BY <1>3, <2>1, StartBatchType DEF Begin
  <2> QED BY <1>3, <2>2 DEF TypeOK, Begin, traceVars
<1>4. ASSUME NEW s \in Steps, NEW status \in {"ok", "error"}, StepEnds(r, s, status)
      PROVE  TypeOK'
  BY <1>4 DEF TypeOK, StepEnds, traceVars
<1>5. ASSUME NEW s \in Steps, StepThrows(r, s)
      PROVE  TypeOK'
  BY <1>5 DEF TypeOK, StepThrows, traceVars
<1>6. CASE PlanReadyThrows(r) \/ Reject(r)
  BY <1>6 DEF TypeOK, PlanReadyThrows, Reject, traceVars
<1> QED BY <1>1, <1>2, <1>3, <1>4, <1>5, <1>6

LEMMA BatchTypes ==
  ASSUME TypeOK, NEW r \in Runs, RunInv(r),
         \/ FailFast(r) \/ StepCompleteThrows(r) \/ NextBatch(r)
         \/ (\E reduces \in BOOLEAN : LastBatch(r, reduces)) \/ Save(r)
  PROVE  TypeOK'
<1>0. stepResults \in [Runs -> Seq(Steps)]
  BY DEF TypeOK
<1>1. CASE FailFast(r) \/ StepCompleteThrows(r)
  <2>1. phase[r] = "running"
    BY <1>1 DEF FailFast, StepCompleteThrows, Settled
  <2>2. PICK i \in DOMAIN Batch(r) :
          stepResults' = [stepResults EXCEPT ![r] = @ \o SubSeq(Batch(r), 1, i)]
    BY <1>1 DEF FailFast, StepCompleteThrows, Errors
  <2>3. SubSeq(Batch(r), 1, i) \in Seq(Steps)
    BY <2>1, RunningBatch, KeptFacts
  <2>4. stepResults' \in [Runs -> Seq(Steps)]
    BY <1>0, <2>2, <2>3, ConcatProperties
  <2> QED BY <1>1, <2>4 DEF TypeOK, FailFast, StepCompleteThrows, traceVars
<1>2. CASE NextBatch(r)
  <2>1. phase[r] = "running"
    BY <1>2 DEF NextBatch, Settled
  <2>2. stepResults' \in [Runs -> Seq(Steps)]
    BY <1>0, <1>2, <2>1, RunningBatch, ConcatProperties DEF NextBatch
  <2>3. stepMessageIds' \in [Runs -> SUBSET Steps]
          /\ workflowRootMessageId' \in [Runs -> Steps \cup {None}]
    BY <1>2, <2>1, RootType DEF NextBatch, TypeOK
  <2>4. plan[r] \in ValidPlans /\ batch[r] + 1 \in 1..Len(Levels(r))
    <3>1. plan[r] \in ValidPlans /\ batch[r] \in 1..Len(Levels(r))
      BY <2>1, RunningBatch
    <3>2. batch[r] < Len(Levels(r))
      BY <1>2 DEF NextBatch, Levels
    <3>3. Len(Levels(r)) \in Nat
      BY <3>1, PlanFacts DEF Levels
    <3> QED BY <3>1, <3>2, <3>3
  <2>5. /\ batch' \in [Runs -> Nat]
        /\ step' \in [Runs -> [Steps -> {"idle", "running", "ok", "error", "threw"}]]
        /\ parentMessageId' \in [Runs -> [Steps -> Steps \cup {None}]]
    BY <1>2, <2>1, <2>4, RootType, StartBatchType DEF NextBatch
  <2> QED BY <1>2, <2>2, <2>3, <2>5 DEF TypeOK, NextBatch
<1>3. ASSUME NEW reduces \in BOOLEAN, LastBatch(r, reduces)
      PROVE  TypeOK'
  <2>1. phase[r] = "running"
    BY <1>3 DEF LastBatch, Settled
  <2>2. stepResults' \in [Runs -> Seq(Steps)]
    BY <1>0, <1>3, <2>1, RunningBatch, ConcatProperties DEF LastBatch
  <2>3. stepMessageIds' \in [Runs -> SUBSET Steps]
          /\ workflowRootMessageId' \in [Runs -> Steps \cup {None}]
    BY <1>3, <2>1, RootType DEF LastBatch, TypeOK
  <2>4. phase' \in [Runs -> {"idle", "saved", "running", "completed", "failed", "rejected"}]
    BY <1>3 DEF LastBatch, TypeOK
  <2> QED BY <1>3, <2>2, <2>3, <2>4 DEF TypeOK, LastBatch
<1>4. CASE Save(r)
  <2> DEFINE last == stepResults[r][Len(stepResults[r])]
  <2>1. phase[r] = "failed" => last \in Steps
    <3>1. phase[r] = "failed" => stepResults[r] # <<>>
      BY DEF RunInv, AtEnd
    <3> QED BY <1>0, <3>1, EmptySeq, LenProperties, ElementOfSeq
  <2>2. Record(phase[r], stepResults[r], IF phase[r] = "failed" THEN last ELSE None)
          \in [status : {"running", "completed", "failed"},
               steps : Seq(Steps), failedStepId : Steps \cup {None}]
    BY <1>0, <1>4, <2>1 DEF Record, Save
  <2>3. \A x \in Runs :
          \/ record'[x] = record[x]
          \/ record'[x] = Record(phase[r], stepResults[r], IF phase[r] = "failed" THEN last ELSE None)
    BY <1>4 DEF Save
  <2> QED BY <1>4, <2>2, <2>3 DEF TypeOK, Save, traceVars
<1> QED BY <1>1, <1>2, <1>3, <1>4

-------------------------------------------------------------------------------
(* The invariant of a run.  A step of one run leaves the others alone.      *)

LEMMA Untouched ==
  ASSUME NEW x \in Runs, RunInv(x),
         plan'[x] = plan[x], failFast'[x] = failFast[x], phase'[x] = phase[x],
         batch'[x] = batch[x], step'[x] = step[x], stepResults'[x] = stepResults[x],
         stepMessageIds'[x] = stepMessageIds[x],
         workflowRootMessageId'[x] = workflowRootMessageId[x],
         parentMessageId'[x] = parentMessageId[x], record'[x] = record[x]
  PROVE  RunInv(x)'
<1>1. Planned(x)' /\ Fresh(x)' /\ AtEnd(x)' /\ Once(x)' /\ Recorded(x)' /\ Known(x)'
  BY DEF RunInv, Planned, Fresh, AtEnd, Good, Once, Recorded, Known
<1>2. Current(x)'
  BY DEF RunInv, Current, Levels, Past, Batch, Good
<1>3. Sources(x)' /\ ParentsOk(x)'
  BY DEF RunInv, Sources, ParentsOk, Oks
<1> QED BY <1>1, <1>2, <1>3 DEF RunInv

\* Run and executeSubtaskPlan().
LEMMA RunKeeps ==
  ASSUME TypeOK, NEW r \in Runs, RunInv(r),
         \/ \E w \in Workflows, ff \in BOOLEAN : Run(r, w, ff)
         \/ \E p \in ValidPlans, ff \in BOOLEAN : ExecuteSubtaskPlan(r, p, ff)
  PROVE  RunInv(r)'
<1>1. /\ phase[r] = "idle" /\ phase'[r] = "saved" /\ plan'[r] \in ValidPlans
      /\ step'[r] = step[r] /\ stepResults'[r] = stepResults[r]
      /\ stepMessageIds'[r] = stepMessageIds[r]
      /\ workflowRootMessageId'[r] = workflowRootMessageId[r]
      /\ record'[r] \in {None, Record("running", <<>>, None)}
  <2>1. phase[r] = "idle" => record[r] = None
    BY DEF RunInv, Planned
  <2>2. ASSUME NEW w \in Workflows, NEW ff \in BOOLEAN, Run(r, w, ff)
        PROVE  <1>1!1 /\ <1>1!2 /\ <1>1!3 /\ <1>1!4 /\ <1>1!5
    BY <2>2 DEF TypeOK, Run, traceVars
  <2>3. ASSUME NEW p \in ValidPlans, NEW ff \in BOOLEAN, ExecuteSubtaskPlan(r, p, ff)
        PROVE  <1>1!1 /\ <1>1!2 /\ <1>1!3 /\ <1>1!4 /\ <1>1!5
    BY <2>1, <2>3 DEF TypeOK, ExecuteSubtaskPlan, traceVars
  <2> QED BY <2>2, <2>3
<1>2. Planned(r)' /\ Fresh(r)' /\ Current(r)' /\ AtEnd(r)' /\ Recorded(r)' /\ Sources(r)'
  BY <1>1 DEF RunInv, Fresh, Planned, Current, AtEnd, Recorded, Sources
<1>3. Once(r)' /\ Known(r)' /\ ParentsOk(r)'
  BY <1>1 DEF RunInv, Once, Known, ParentsOk, Fresh
<1> QED BY <1>2, <1>3 DEF RunInv

LEMMA LeastOf ==
  ASSUME NEW T \in SUBSET Nat, T # {}
  PROVE  \E i \in T : \A j \in T : i <= j
<1> DEFINE R == {ss \in Nat \X Nat : ss[1] < ss[2]}
<1>1. IsWellFoundedOn(R, Nat)
  BY NatLessThanWellFounded DEF OpToRel
<1>2. PICK i \in T : \A j \in T : ~ (<<j, i>> \in R)
  <2> HIDE DEF R
  <2> QED BY <1>1, WFMin
<1>3. \A j \in T : i \in Nat /\ j \in Nat /\ (<<j, i>> \in R <=> j < i)
  OBVIOUS
<1> HIDE DEF R
<1>4. \A j \in T : ~ (j < i)
  BY <1>2, <1>3
<1> QED BY <1>3, <1>4

\* The parent of a step is its first dependency that has an id, if any has.
LEMMA ParentChoice ==
  ASSUME NEW p \in ValidPlans, NEW s \in DOMAIN p, NEW ids, NEW root
  PROVE  IF Deps(p, s) \cap ids # {} THEN ResolveParent(p, s, ids, root) \in Deps(p, s) \cap ids
         ELSE ResolveParent(p, s, ids, root) = root
<1> DEFINE first == {i \in DOMAIN p[s] : p[s][i] \in ids /\ \A j \in 1..i - 1 : p[s][j] \notin ids}
           known == {p[s][i] : i \in first}
<1>1. ResolveParent(p, s, ids, root) = IF known = {} THEN root ELSE CHOOSE d \in known : TRUE
  BY DEF ResolveParent
<1>2. known \subseteq Deps(p, s) \cap ids
  BY DEF Deps, Listed
<1>3. ASSUME Deps(p, s) \cap ids # {} PROVE known # {}
  <2> DEFINE having == {i \in DOMAIN p[s] : p[s][i] \in ids}
  <2>1. p[s] \in Seq(DOMAIN p)
    BY PlanFacts, ElementOfSeq
  <2>2. Len(p[s]) \in Nat /\ DOMAIN p[s] = 1..Len(p[s])
    BY <2>1, LenProperties
  <2>3. having \in SUBSET Nat /\ having # {}
    BY <1>3, <2>2 DEF Deps, Listed
  <2>4. PICK i \in having : \A j \in having : i <= j
    BY <2>3, LeastOf
  <2>5. \A j \in 1..i - 1 : j \notin having /\ j \in DOMAIN p[s]
    BY <2>2, <2>4
  <2> QED BY <2>4, <2>5
<1> QED BY <1>1, <1>2, <1>3

\* Batch k starts when the results are those of the batches before it.
LEMMA Started ==
  ASSUME TypeOK, NEW r \in Runs, plan[r] \in ValidPlans, NEW k \in 1..Len(Levels(r)),
         NEW ids, NEW root, StartBatch(r, k, ids, root),
         plan'[r] = plan[r], failFast'[r] = failFast[r], phase'[r] = "running",
         stepMessageIds'[r] = ids, workflowRootMessageId'[r] = root,
         record'[r] \in {None, Record("running", <<>>, None)},
         Listed(stepResults'[r]) = InFirst(Levels(r), k - 1),
         \A i, j \in DOMAIN stepResults'[r] : stepResults'[r][i] = stepResults'[r][j] => i = j,
         \A s \in InFirst(Levels(r), k - 1) : Good(r, s),
         \A s \in Steps : step[r][s] # "idle" <=> s \in InFirst(Levels(r), k - 1),
         ids = {s \in InFirst(Levels(r), k - 1) : step[r][s] = "ok"},
         root \in ids \cup {None},
         \A s \in InFirst(Levels(r), k - 1) :
           /\ Deps(plan[r], s) \subseteq InFirst(Levels(r), k - 1)
           /\ IF Deps(plan[r], s) \cap ids # {}
              THEN parentMessageId[r][s] \in Deps(plan[r], s) \cap ids
              ELSE parentMessageId[r][s] \in ids \cup {None}
  PROVE  RunInv(r)'
<1> DEFINE started == Listed(Levels(r)[k])
           past == InFirst(Levels(r), k - 1)
<1>1. /\ batch'[r] = k
      /\ step'[r] = [s \in Steps |-> IF s \in started THEN "running" ELSE step[r][s]]
      /\ parentMessageId'[r] =
           [s \in Steps |-> IF s \in started THEN ResolveParent(plan[r], s, ids, root)
                            ELSE parentMessageId[r][s]]
  BY DEF TypeOK, StartBatch, Levels
<1>2. /\ started \subseteq DOMAIN plan[r] /\ started \cap past = {}
      /\ \A s \in started : Deps(plan[r], s) \subseteq past
      /\ DOMAIN plan[r] \subseteq Steps
  <2>1. Levels(r)[k] \in Seq(DOMAIN plan[r])
    BY BatchFacts DEF Levels
  <2>2. started \subseteq DOMAIN plan[r]
    BY <2>1, ListedFacts
  <2>3. started \cap past = {} /\ \A s \in started : Deps(plan[r], s) \subseteq past
    BY BatchFacts DEF Levels
  <2> QED BY <2>2, <2>3, PlanFacts
<1>3. past \subseteq Steps
  <2>1. InFirst(Levels(r), k) \subseteq DOMAIN plan[r]
    BY BatchFacts DEF Levels
  <2>2. past \subseteq InFirst(Levels(r), k)
    BY PlanFacts DEF InFirst, Levels
  <2> QED BY <1>2, <2>1, <2>2
<1>4. \A s \in past : step'[r][s] = step[r][s] /\ parentMessageId'[r][s] = parentMessageId[r][s]
  BY <1>1, <1>2, <1>3
<1>5. Planned(r)' /\ Fresh(r)' /\ AtEnd(r)' /\ Recorded(r)'
  BY DEF Planned, Fresh, AtEnd, Recorded
<1>6. Current(r)'
  <2>1. Levels(r)' = Levels(r) /\ Past(r)' = past /\ Listed(Batch(r)') = started
    BY <1>1 DEF Levels, Past, Batch
  <2>2. \A s \in past : Good(r, s)'
    BY <1>4 DEF Good
  <2>3. \A s \in Steps : step'[r][s] # "idle" <=> s \in past \cup started
    BY <1>1
  <2> QED BY <1>1, <2>1, <2>2, <2>3 DEF Current
<1>7. Once(r)'
  BY <1>4 DEF Once, Good
<1>8. Oks(r)' = ids
  BY <1>4 DEF Oks
<1>9. Known(r)' /\ Sources(r)'
  BY <1>1, <1>2, <1>8 DEF Known, Sources
<1>10. ParentsOk(r)'
  <2>1. ASSUME NEW s \in started
        PROVE  IF Deps(plan[r], s) \cap ids # {}
               THEN parentMessageId'[r][s] \in Deps(plan[r], s) \cap ids
               ELSE parentMessageId'[r][s] \in ids \cup {None}
    BY <1>1, <1>2, ParentChoice
  <2>2. \A s \in Steps : step'[r][s] # "idle" => s \in past \cup started
    BY <1>1
  <2> QED BY <1>4, <1>8, <2>1, <2>2 DEF ParentsOk
<1> QED BY <1>5, <1>6, <1>7, <1>9, <1>10 DEF RunInv

\* The first batch.
LEMMA BeginKeeps ==
  ASSUME TypeOK, NEW r \in Runs, RunInv(r), Begin(r)
  PROVE  RunInv(r)'
<1>1. /\ phase[r] = "saved" /\ phase'[r] = "running" /\ plan'[r] = plan[r]
      /\ failFast'[r] = failFast[r] /\ stepResults'[r] = stepResults[r]
      /\ stepMessageIds'[r] = stepMessageIds[r]
      /\ workflowRootMessageId'[r] = workflowRootMessageId[r] /\ record'[r] = record[r]
      /\ StartBatch(r, 1, {}, None)
  BY DEF TypeOK, Begin, traceVars
<1>2. /\ plan[r] \in ValidPlans /\ stepResults[r] = <<>> /\ \A s \in Steps : step[r][s] = "idle"
      /\ stepMessageIds[r] = {} /\ workflowRootMessageId[r] = None
      /\ record[r] \in {None, Record("running", <<>>, None)}
  BY <1>1 DEF RunInv, Planned, Fresh, Recorded
<1>3. InFirst(Levels(r), 1 - 1) = {} /\ 1 \in 1..Len(Levels(r))
  <2>1. 1 - 1 = 0 /\ InFirst(Levels(r), 0) = {}
    BY InFirstStep
  <2>2. 1 \in 1..Len(Levels(r))
    BY <1>2, PlanFacts DEF Levels
  <2> QED BY <2>1, <2>2
<1>4. Listed(<<>>) = {} /\ DOMAIN <<>> = {}
  BY DEF Listed
<1>5. Listed(stepResults'[r]) = InFirst(Levels(r), 1 - 1) /\ DOMAIN stepResults'[r] = {}
  BY <1>1, <1>2, <1>3, <1>4
<1>6. {} = {s \in InFirst(Levels(r), 1 - 1) : step[r][s] = "ok"}
  BY <1>3
<1> HIDE DEF Levels
<1> QED BY <1>1, <1>2, <1>3, <1>5, <1>6, Started

\* A step that ends has no result yet.
LEMMA StepKeeps ==
  ASSUME TypeOK, NEW r \in Runs, RunInv(r), NEW s \in Steps,
         (\E status \in {"ok", "error"} : StepEnds(r, s, status)) \/ StepThrows(r, s)
  PROVE  RunInv(r)'
<1>1. /\ step[r][s] = "running" /\ step'[r][s] \in {"ok", "error", "threw"}
      /\ \A x \in Steps \ {s} : step'[r][x] = step[r][x]
      /\ plan'[r] = plan[r] /\ failFast'[r] = failFast[r] /\ phase'[r] = phase[r]
      /\ batch'[r] = batch[r] /\ stepResults'[r] = stepResults[r]
      /\ stepMessageIds'[r] = stepMessageIds[r]
      /\ workflowRootMessageId'[r] = workflowRootMessageId[r]
      /\ parentMessageId'[r] = parentMessageId[r] /\ record'[r] = record[r]
  BY DEF TypeOK, StepEnds, StepThrows, traceVars
<1>2. s \notin Listed(stepResults[r]) /\ Listed(stepResults[r]) \subseteq Steps
  BY <1>1, ListedFacts DEF RunInv, Once, TypeOK
<1>3. \A x \in Listed(stepResults[r]) : step'[r][x] = step[r][x]
  BY <1>1, <1>2
<1>4. Planned(r)' /\ Fresh(r)' /\ Recorded(r)'
  BY <1>1 DEF RunInv, Planned, Fresh, Recorded
<1>5. Current(r)'
  <2>1. Levels(r)' = Levels(r) /\ Past(r)' = Past(r) /\ Batch(r)' = Batch(r)
    BY <1>1 DEF Levels, Past, Batch
  <2> QED BY <1>1, <1>3, <2>1 DEF RunInv, Current, Good
<1>6. AtEnd(r)'
  BY <1>1, <1>3 DEF RunInv, AtEnd, Good, Listed
<1>7. Once(r)' /\ Known(r)'
  BY <1>1, <1>3 DEF RunInv, Once, Known
<1>8. Oks(r)' = Oks(r)
  BY <1>1, <1>3 DEF Oks
<1>9. Sources(r)' /\ ParentsOk(r)'
  BY <1>1, <1>8 DEF RunInv, Sources, ParentsOk
<1> QED BY <1>4, <1>5, <1>6, <1>7, <1>9 DEF RunInv

\* What the loop over the outcomes finds.
LEMMA SettledFacts ==
  ASSUME TypeOK, NEW r \in Runs, RunInv(r), Settled(r)
  PROVE  /\ \A s \in Listed(Batch(r)) : step[r][s] \in {"ok", "error"}
         /\ Listed(Batch(r)) \cap Listed(stepResults[r]) = {}
         /\ InFirst(Levels(r), batch[r]) = Listed(stepResults[r]) \cup Listed(Batch(r))
         /\ InFirst(Levels(r), batch[r]) \subseteq DOMAIN plan[r]
         /\ \A i, j \in DOMAIN Batch(r) : Batch(r)[i] = Batch(r)[j] => i = j
         /\ \A s \in Steps : step[r][s] # "idle" <=> s \in InFirst(Levels(r), batch[r])
         /\ \A s \in InFirst(Levels(r), batch[r]) : Deps(plan[r], s) \subseteq Listed(stepResults[r])
         /\ (failFast[r] => Errors(r) = {}) =>
              \A s \in InFirst(Levels(r), batch[r]) : Good(r, s)
<1>1. phase[r] = "running" /\ \A s \in Listed(Batch(r)) : step[r][s] \in {"ok", "error"}
  BY DEF Settled
<1>2. /\ batch[r] \in 1..Len(Levels(r)) /\ plan[r] \in ValidPlans
      /\ Listed(stepResults[r]) = InFirst(Levels(r), batch[r] - 1)
      /\ \A s \in Listed(stepResults[r]) : Good(r, s)
      /\ \A s \in Steps : step[r][s] # "idle" <=> s \in Listed(stepResults[r]) \cup Listed(Batch(r))
  BY <1>1 DEF RunInv, Planned, Current, Past
<1>3. Batch(r) = Levels(r)[batch[r]]
  BY DEF Batch, Levels
<1>4. /\ Listed(Batch(r)) \cap Listed(stepResults[r]) = {}
      /\ \A i, j \in DOMAIN Batch(r) : Batch(r)[i] = Batch(r)[j] => i = j
      /\ InFirst(Levels(r), batch[r]) \subseteq DOMAIN plan[r]
  <2>1. /\ Listed(Levels(r)[batch[r]]) \cap InFirst(Levels(r), batch[r] - 1) = {}
        /\ \A i, j \in DOMAIN Levels(r)[batch[r]] :
             Levels(r)[batch[r]][i] = Levels(r)[batch[r]][j] => i = j
        /\ InFirst(Levels(r), batch[r]) \subseteq DOMAIN plan[r]
    BY <1>2, BatchFacts DEF Levels
  <2> QED BY <1>2, <1>3, <2>1
<1>5. InFirst(Levels(r), batch[r]) = Listed(stepResults[r]) \cup Listed(Batch(r))
  <2>1. batch[r] - 1 \in Nat /\ (batch[r] - 1) + 1 = batch[r]
    BY <1>2, PlanFacts DEF Levels
  <2>2. InFirst(Levels(r), (batch[r] - 1) + 1)
          = InFirst(Levels(r), batch[r] - 1) \cup Listed(Levels(r)[(batch[r] - 1) + 1])
    BY <2>1, InFirstStep
  <2> QED BY <1>2, <1>3, <2>1, <2>2
<1>6. InFirst(Levels(r), batch[r]) \subseteq Steps
  BY <1>2, <1>4, PlanFacts
<1>7. \A s \in InFirst(Levels(r), batch[r]) : Deps(plan[r], s) \subseteq Listed(stepResults[r])
  BY <1>2, <1>5, <1>6 DEF RunInv, Known
<1>8. ASSUME failFast[r] => Errors(r) = {}
      PROVE  \A s \in Listed(Batch(r)) : Good(r, s)
  BY <1>1, <1>8 DEF Good, Errors, Listed
<1> QED BY <1>1, <1>2, <1>4, <1>5, <1>7, <1>8

\* The results after the whole batch.
LEMMA WholeBatch ==
  ASSUME TypeOK, NEW r \in Runs, RunInv(r), Settled(r),
         stepResults'[r] = stepResults[r] \o Batch(r)
  PROVE  /\ Listed(stepResults'[r]) = InFirst(Levels(r), batch[r])
         /\ \A i, j \in DOMAIN stepResults'[r] : stepResults'[r][i] = stepResults'[r][j] => i = j
<1>1. stepResults[r] \in Seq(Steps) /\ Batch(r) \in Seq(Steps)
  BY RunningBatch DEF TypeOK, Settled
<1>2. \A i, j \in DOMAIN stepResults[r] : stepResults[r][i] = stepResults[r][j] => i = j
  BY DEF RunInv, Once
<1>3. /\ Listed(stepResults[r]) \cap Listed(Batch(r)) = {}
      /\ InFirst(Levels(r), batch[r]) = Listed(stepResults[r]) \cup Listed(Batch(r))
      /\ \A i, j \in DOMAIN Batch(r) : Batch(r)[i] = Batch(r)[j] => i = j
  BY SettledFacts
<1>4. Listed(stepResults[r] \o Batch(r)) = Listed(stepResults[r]) \cup Listed(Batch(r))
  BY <1>1, ListedFacts
<1>5. \A i, j \in DOMAIN (stepResults[r] \o Batch(r)) :
        (stepResults[r] \o Batch(r))[i] = (stepResults[r] \o Batch(r))[j] => i = j
  BY <1>1, <1>2, <1>3, ListedFacts
<1> QED BY <1>3, <1>4, <1>5

\* Results that come later change nothing for the steps that have started.
LEMMA Grown ==
  ASSUME NEW r \in Runs, RunInv(r), plan'[r] = plan[r], step'[r] = step[r],
         parentMessageId'[r] = parentMessageId[r],
         Listed(stepResults[r]) \subseteq Listed(stepResults'[r])
  PROVE  Known(r)' /\ ParentsOk(r)'
<1>1. Known(r)'
  BY DEF RunInv, Known
<1>2. Oks(r) \subseteq Oks(r)' /\ Oks(r)' \cap Listed(stepResults[r]) = Oks(r)
  BY DEF Oks
<1>3. \A s \in Steps : step[r][s] # "idle" =>
        Deps(plan[r], s) \cap Oks(r)' = Deps(plan[r], s) \cap Oks(r)
  BY <1>2 DEF RunInv, Known
<1>4. ParentsOk(r)'
  BY <1>2, <1>3 DEF RunInv, ParentsOk
<1> QED BY <1>1, <1>4

LEMMA NextBatchKeeps ==
  ASSUME TypeOK, NEW r \in Runs, RunInv(r), NextBatch(r)
  PROVE  RunInv(r)'
<1> DEFINE past == InFirst(Levels(r), batch[r])
<1>1. /\ Settled(r) /\ phase[r] = "running" /\ batch[r] < Len(Levels(r))
      /\ failFast[r] => Errors(r) = {}
      /\ plan'[r] = plan[r] /\ failFast'[r] = failFast[r] /\ phase'[r] = "running"
      /\ record'[r] = record[r] /\ stepResults'[r] = stepResults[r] \o Batch(r)
      /\ stepMessageIds'[r] = IdsAfter(r) /\ workflowRootMessageId'[r] = RootAfter(r)
      /\ StartBatch(r, batch[r] + 1, IdsAfter(r), RootAfter(r))
  BY DEF TypeOK, NextBatch, Settled, Levels
<1>2. /\ plan[r] \in ValidPlans /\ batch[r] + 1 \in 1..Len(Levels(r))
      /\ (batch[r] + 1) - 1 = batch[r]
  <2>1. plan[r] \in ValidPlans /\ batch[r] \in 1..Len(Levels(r))
    BY <1>1, RunningBatch
  <2>2. Len(Levels(r)) \in Nat
    BY <2>1, PlanFacts DEF Levels
  <2> HIDE DEF Levels
  <2> QED BY <1>1, <2>1, <2>2
<1>3. record[r] \in {None, Record("running", <<>>, None)}
  BY <1>1 DEF RunInv, Recorded
<1>4. /\ Listed(stepResults'[r]) = past
      /\ \A i, j \in DOMAIN stepResults'[r] : stepResults'[r][i] = stepResults'[r][j] => i = j
  BY <1>1, WholeBatch
<1>5. /\ \A s \in past : Good(r, s)
      /\ \A s \in Steps : step[r][s] # "idle" <=> s \in past
      /\ \A s \in past : Deps(plan[r], s) \subseteq Listed(stepResults[r])
      /\ past = Listed(stepResults[r]) \cup Listed(Batch(r))
  BY <1>1, SettledFacts
<1>6. IdsAfter(r) = {s \in past : step[r][s] = "ok"}
  BY <1>1, <1>5 DEF IdsAfter, RunInv, Sources, Oks
<1>7. RootAfter(r) \in IdsAfter(r) \cup {None}
  <2>1. workflowRootMessageId[r] \in IdsAfter(r) \cup {None}
    BY <1>1 DEF RunInv, Sources, IdsAfter
  <2> QED BY <1>1, <2>1, RootType DEF IdsAfter
<1>8. ASSUME NEW s \in past
      PROVE  /\ Deps(plan[r], s) \subseteq past
             /\ IF Deps(plan[r], s) \cap IdsAfter(r) # {}
                THEN parentMessageId[r][s] \in Deps(plan[r], s) \cap IdsAfter(r)
                ELSE parentMessageId[r][s] \in IdsAfter(r) \cup {None}
  <2>1. s \in Steps /\ step[r][s] # "idle"
    BY <1>1, <1>2, <1>5, SettledFacts, PlanFacts
  <2>2. Oks(r) \subseteq IdsAfter(r)
          /\ Deps(plan[r], s) \cap Oks(r) = Deps(plan[r], s) \cap IdsAfter(r)
    BY <1>5, <1>6 DEF Oks
  <2> QED BY <1>5, <2>1, <2>2 DEF RunInv, ParentsOk
<1> HIDE DEF Levels
<1> QED BY <1>1, <1>2, <1>3, <1>4, <1>5, <1>6, <1>7, <1>8, Started

LEMMA LastBatchKeeps ==
  ASSUME TypeOK, NEW r \in Runs, RunInv(r), NEW reduces \in BOOLEAN, LastBatch(r, reduces)
  PROVE  RunInv(r)'
<1>1. /\ Settled(r) /\ phase[r] = "running" /\ batch[r] = Len(Levels(r))
      /\ failFast[r] => Errors(r) = {}
      /\ plan'[r] = plan[r] /\ failFast'[r] = failFast[r]
      /\ phase'[r] \in {"completed", "rejected"} /\ step'[r] = step[r]
      /\ record'[r] = record[r] /\ stepResults'[r] = stepResults[r] \o Batch(r)
      /\ parentMessageId'[r] = parentMessageId[r]
  BY DEF TypeOK, LastBatch, Settled, Levels
<1>2. plan[r] \in ValidPlans /\ record[r] \in {None, Record("running", <<>>, None)}
  BY <1>1 DEF RunInv, Planned, Recorded
<1>3. InFirst(Levels(r), batch[r]) = DOMAIN plan[r]
  BY <1>1, <1>2, RunningBatch, BatchFacts DEF Levels
<1>4. /\ Listed(stepResults'[r]) = DOMAIN plan[r]
      /\ \A i, j \in DOMAIN stepResults'[r] : stepResults'[r][i] = stepResults'[r][j] => i = j
  BY <1>1, <1>3, WholeBatch
<1>5. /\ \A s \in DOMAIN plan[r] : Good(r, s)
      /\ Listed(stepResults[r]) \subseteq DOMAIN plan[r]
  BY <1>1, <1>3, SettledFacts
<1>6. \A s \in DOMAIN plan[r] : Good(r, s)'
  BY <1>1, <1>5 DEF Good
<1>7. Planned(r)' /\ Fresh(r)' /\ Current(r)' /\ AtEnd(r)' /\ Recorded(r)' /\ Sources(r)'
  BY <1>1, <1>2, <1>4, <1>6 DEF Planned, Fresh, Current, AtEnd, Recorded, Sources
<1>8. Once(r)'
  BY <1>4, <1>6 DEF Once, Good
<1>9. Known(r)' /\ ParentsOk(r)'
  BY <1>1, <1>4, <1>5, Grown
<1> QED BY <1>7, <1>8, <1>9 DEF RunInv

\* The results after a part of the batch: each once, of steps that have ended.
LEMMA KeptResults ==
  ASSUME TypeOK, NEW r \in Runs, RunInv(r), Settled(r), NEW n \in DOMAIN Batch(r),
         stepResults'[r] = stepResults[r] \o SubSeq(Batch(r), 1, n), step'[r] = step[r]
  PROVE  Once(r)' /\ Listed(stepResults[r]) \subseteq Listed(stepResults'[r])
<1> DEFINE kept == SubSeq(Batch(r), 1, n)
           old == stepResults[r]
<1>1. old \in Seq(Steps) /\ Batch(r) \in Seq(Steps)
  BY RunningBatch DEF TypeOK, Settled
<1>2. /\ kept \in Seq(Steps) /\ DOMAIN kept = 1..n
      /\ \A i \in 1..n : i \in DOMAIN Batch(r) /\ kept[i] = Batch(r)[i]
  <2>1. /\ kept \in Seq(Steps) /\ Len(kept) = n
        /\ \A i \in 1..n : i \in DOMAIN Batch(r) /\ kept[i] = Batch(r)[i]
    BY <1>1, KeptFacts
  <2> HIDE DEF kept
  <2>2. DOMAIN kept = 1..n
    BY <2>1, LenProperties
  <2> QED BY <2>1, <2>2
<1>3. Listed(kept) \subseteq Listed(Batch(r))
  BY <1>2 DEF Listed
<1>4. Listed(old \o kept) = Listed(old) \cup Listed(kept)
  <2> HIDE DEF old, kept
  <2> QED BY <1>1, <1>2, ListedFacts
<1>5. \A i, j \in DOMAIN (old \o kept) : (old \o kept)[i] = (old \o kept)[j] => i = j
  <2>1. \A i, j \in DOMAIN old : old[i] = old[j] => i = j
    BY DEF RunInv, Once
  <2>2. \A i, j \in DOMAIN kept : kept[i] = kept[j] => i = j
    BY <1>2, SettledFacts
  <2>3. Listed(old) \cap Listed(kept) = {}
    BY <1>3, SettledFacts
  <2>4. old \in Seq(Steps) /\ kept \in Seq(Steps)
    BY <1>1, <1>2
  <2> HIDE DEF old, kept
  <2> QED BY <2>1, <2>2, <2>3, <2>4, ListedFacts
<1>6. \A s \in Listed(old) \cup Listed(kept) : step[r][s] \in {"ok", "error"}
  BY <1>3, SettledFacts DEF RunInv, Once
<1> QED BY <1>4, <1>5, <1>6 DEF Once

\* A run that a callback ends has a result for each step it was called with.
LEMMA StepCompleteThrowsKeeps ==
  ASSUME TypeOK, NEW r \in Runs, RunInv(r), StepCompleteThrows(r)
  PROVE  RunInv(r)'
<1>1. /\ Settled(r) /\ phase[r] = "running" /\ phase'[r] = "rejected"
      /\ plan'[r] = plan[r] /\ step'[r] = step[r] /\ record'[r] = record[r]
      /\ parentMessageId'[r] = parentMessageId[r]
  BY DEF TypeOK, StepCompleteThrows, Settled
<1>2. PICK n \in DOMAIN Batch(r) : stepResults'[r] = stepResults[r] \o SubSeq(Batch(r), 1, n)
  BY DEF TypeOK, StepCompleteThrows
<1>3. plan[r] \in ValidPlans /\ record[r] \in {None, Record("running", <<>>, None)}
  BY <1>1 DEF RunInv, Planned, Recorded
<1>4. Planned(r)' /\ Fresh(r)' /\ Current(r)' /\ AtEnd(r)' /\ Recorded(r)' /\ Sources(r)'
  BY <1>1, <1>3 DEF Planned, Fresh, Current, AtEnd, Recorded, Sources
<1>5. Once(r)' /\ Listed(stepResults[r]) \subseteq Listed(stepResults'[r])
  BY <1>1, <1>2, KeptResults
<1>6. Known(r)' /\ ParentsOk(r)'
  BY <1>1, <1>5, Grown
<1> QED BY <1>4, <1>5, <1>6 DEF RunInv

\* The results of a fail-fast run end with its first failure.
LEMMA FailFastKeeps ==
  ASSUME TypeOK, NEW r \in Runs, RunInv(r), FailFast(r)
  PROVE  RunInv(r)'
<1>1. PICK n \in Errors(r) :
        /\ \A j \in Errors(r) : n <= j
        /\ stepResults'[r] = stepResults[r] \o SubSeq(Batch(r), 1, n)
  BY DEF TypeOK, FailFast
<1> DEFINE kept == SubSeq(Batch(r), 1, n)
           old == stepResults[r]
<1>2. /\ Settled(r) /\ phase[r] = "running" /\ failFast[r]
      /\ plan'[r] = plan[r] /\ failFast'[r] = failFast[r] /\ phase'[r] = "failed"
      /\ step'[r] = step[r] /\ record'[r] = record[r]
      /\ parentMessageId'[r] = parentMessageId[r]
  BY DEF TypeOK, FailFast, Settled
<1>3. plan[r] \in ValidPlans /\ record[r] \in {None, Record("running", <<>>, None)}
  BY <1>2 DEF RunInv, Planned, Recorded
<1>4. old \in Seq(Steps) /\ Batch(r) \in Seq(Steps) /\ n \in DOMAIN Batch(r)
  BY <1>2, RunningBatch DEF TypeOK, Errors
<1>5. n \in Nat \ {0} /\ DOMAIN Batch(r) = 1..Len(Batch(r)) /\ Len(Batch(r)) \in Nat
  BY <1>4, LenProperties
<1>6. /\ kept \in Seq(Steps) /\ Len(kept) = n /\ DOMAIN kept = 1..n
      /\ \A i \in 1..n : i \in DOMAIN Batch(r) /\ kept[i] = Batch(r)[i]
  <2>1. /\ kept \in Seq(Steps) /\ Len(kept) = n
        /\ \A i \in 1..n : i \in DOMAIN Batch(r) /\ kept[i] = Batch(r)[i]
    BY <1>4, KeptFacts
  <2> HIDE DEF kept
  <2>2. DOMAIN kept = 1..n
    BY <2>1, LenProperties
  <2> QED BY <2>1, <2>2
<1>7. \A i \in 1..n : step[r][kept[i]] = IF i = n THEN "error" ELSE "ok"
  <2>1. \A i \in DOMAIN Batch(r) : step[r][Batch(r)[i]] \in {"ok", "error"}
    BY <1>2 DEF Settled, Listed
  <2>2. n \in Errors(r) /\ Errors(r) \subseteq Nat /\ \A j \in Errors(r) : n <= j
    BY <1>1, <1>5 DEF Errors
  <2>3. \A i \in 1..n : i \in Errors(r) => i = n
    <3> HIDE DEF Errors
    <3> QED BY <1>5, <2>2
  <2> QED BY <1>5, <1>6, <2>1, <2>2, <2>3 DEF Errors
<1>8. \A s \in Listed(old) : step[r][s] = "ok"
  BY <1>2 DEF RunInv, Current, Past, Good
<1>9. /\ Len(old) \in Nat /\ DOMAIN old = 1..Len(old)
      /\ Len(old \o kept) = Len(old) + n /\ DOMAIN (old \o kept) = 1..Len(old) + n
      /\ \A i \in 1..Len(old) + n :
           (old \o kept)[i] = IF i <= Len(old) THEN old[i] ELSE kept[i - Len(old)]
  <2> HIDE DEF old, kept
  <2>1. Len(old) \in Nat /\ DOMAIN old = 1..Len(old)
    BY <1>4, LenProperties
  <2>2. /\ old \o kept \in Seq(Steps) /\ Len(old \o kept) = Len(old) + Len(kept)
        /\ \A i \in 1..Len(old) + Len(kept) :
             (old \o kept)[i] = IF i <= Len(old) THEN old[i] ELSE kept[i - Len(old)]
    BY <1>4, <1>6, ConcatProperties
  <2>3. DOMAIN (old \o kept) = 1..Len(old \o kept)
    BY <2>2, LenProperties
  <2> QED BY <1>6, <2>1, <2>2, <2>3
<1>10. \A i \in DOMAIN (old \o kept) :
         step[r][(old \o kept)[i]] = IF i = Len(old \o kept) THEN "error" ELSE "ok"
  <2> HIDE DEF old, kept
  <2> TAKE i \in DOMAIN (old \o kept)
  <2>1. CASE i <= Len(old)
    <3>1. (old \o kept)[i] = old[i] /\ i \in DOMAIN old /\ i # Len(old \o kept)
      BY <1>5, <1>9, <2>1
    <3> QED BY <1>8, <3>1 DEF Listed
  <2>2. CASE ~(i <= Len(old))
    <3>1. (old \o kept)[i] = kept[i - Len(old)] /\ i - Len(old) \in 1..n
            /\ (i = Len(old \o kept) <=> i - Len(old) = n)
      BY <1>5, <1>9, <2>2
    <3> QED BY <1>7, <3>1
  <2> QED BY <2>1, <2>2
<1>11. Once(r)' /\ Listed(old) \subseteq Listed(stepResults'[r])
  BY <1>1, <1>2, <1>4, KeptResults
<1>12. old \o kept # <<>>
  <2> HIDE DEF old, kept
  <2>1. 1 \in DOMAIN (old \o kept)
    BY <1>5, <1>9
  <2> QED BY <2>1
<1>13. AtEnd(r)'
  BY <1>1, <1>2, <1>10, <1>12 DEF AtEnd
<1>14. Planned(r)' /\ Fresh(r)' /\ Current(r)' /\ Recorded(r)' /\ Sources(r)'
  BY <1>2, <1>3 DEF Planned, Fresh, Current, Recorded, Sources
<1>15. Known(r)' /\ ParentsOk(r)'
  BY <1>2, <1>11, Grown
<1> QED BY <1>11, <1>13, <1>14, <1>15 DEF RunInv

\* A rejection without results, and Save(), change neither the steps nor their results.
LEMMA EndKeeps ==
  ASSUME TypeOK, NEW r \in Runs, RunInv(r), PlanReadyThrows(r) \/ Reject(r) \/ Save(r)
  PROVE  RunInv(r)'
<1>1. /\ plan'[r] = plan[r] /\ failFast'[r] = failFast[r] /\ step'[r] = step[r]
      /\ stepResults'[r] = stepResults[r] /\ parentMessageId'[r] = parentMessageId[r]
  BY DEF PlanReadyThrows, Reject, Save, traceVars
<1>2. Once(r)' /\ Known(r)' /\ ParentsOk(r)'
  <2>1. Once(r)'
    BY <1>1 DEF RunInv, Once
  <2> QED BY <1>1, <2>1, Grown
<1>3. CASE PlanReadyThrows(r) \/ Reject(r)
  <2>1. /\ phase[r] \in {"saved", "running"} /\ phase'[r] = "rejected"
        /\ record'[r] = record[r]
    BY <1>3 DEF TypeOK, PlanReadyThrows, Reject
  <2>2. Planned(r)' /\ Fresh(r)' /\ Current(r)' /\ AtEnd(r)' /\ Recorded(r)' /\ Sources(r)'
    BY <1>1, <2>1 DEF RunInv, Planned, Fresh, Current, AtEnd, Recorded, Sources
  <2> QED BY <1>2, <2>2 DEF RunInv
<1>4. CASE Save(r)
  <2>1. /\ phase[r] \in {"completed", "failed"} /\ phase'[r] = phase[r]
        /\ record'[r] = Record(phase[r], stepResults[r],
                               IF phase[r] = "failed" THEN stepResults[r][Len(stepResults[r])]
                               ELSE None)
    BY <1>4 DEF TypeOK, Save
  <2>2. Planned(r)' /\ Fresh(r)' /\ Current(r)' /\ Recorded(r)' /\ Sources(r)'
    BY <1>1, <2>1 DEF RunInv, Planned, Fresh, Current, Recorded, Sources
  <2>3. AtEnd(r)'
    BY <1>1, <2>1 DEF RunInv, AtEnd, Good
  <2> QED BY <1>2, <2>2, <2>3 DEF RunInv
<1> QED BY <1>3, <1>4

-------------------------------------------------------------------------------
(* The invariant is inductive.                                              *)

\* The actions of run r.
RunStep(r) ==
  \/ \E w \in Workflows, ff \in BOOLEAN : Run(r, w, ff)
  \/ \E p \in ValidPlans, ff \in BOOLEAN : ExecuteSubtaskPlan(r, p, ff)
  \/ PlanReadyThrows(r)
  \/ Begin(r)
  \/ \E s \in Steps, status \in {"ok", "error"} : StepEnds(r, s, status)
  \/ \E s \in Steps : StepThrows(r, s)
  \/ Reject(r)
  \/ FailFast(r)
  \/ StepCompleteThrows(r)
  \/ NextBatch(r)
  \/ \E reduces \in BOOLEAN : LastBatch(r, reduces)
  \/ Save(r)

LEMMA Others ==
  ASSUME TypeOK, NEW r \in Runs, NEW x \in Runs, x # r, RunInv(x), RunStep(r)
  PROVE  RunInv(x)'
<1> DEFINE Same == /\ plan'[x] = plan[x] /\ failFast'[x] = failFast[x] /\ phase'[x] = phase[x]
                   /\ batch'[x] = batch[x] /\ step'[x] = step[x]
                   /\ stepResults'[x] = stepResults[x]
                   /\ stepMessageIds'[x] = stepMessageIds[x]
                   /\ workflowRootMessageId'[x] = workflowRootMessageId[x]
                   /\ parentMessageId'[x] = parentMessageId[x] /\ record'[x] = record[x]
<1>1. ASSUME NEW w \in Workflows, NEW ff \in BOOLEAN, Run(r, w, ff) PROVE Same
  BY <1>1 DEF TypeOK, Run, traceVars
<1>2. ASSUME NEW p \in ValidPlans, NEW ff \in BOOLEAN, ExecuteSubtaskPlan(r, p, ff) PROVE Same
  BY <1>2 DEF TypeOK, ExecuteSubtaskPlan, traceVars
<1>3. CASE Begin(r)
  <2>1. Same
    BY <1>3 DEF TypeOK, Begin, StartBatch, traceVars
  <2> QED BY <2>1, Untouched
<1>4. ASSUME NEW s \in Steps, NEW status \in {"ok", "error"}, StepEnds(r, s, status) PROVE Same
  BY <1>4 DEF TypeOK, StepEnds, traceVars
<1>5. ASSUME NEW s \in Steps, StepThrows(r, s) PROVE Same
  BY <1>5 DEF TypeOK, StepThrows, traceVars
<1>6. CASE PlanReadyThrows(r) \/ Reject(r)
  <2>1. Same
    BY <1>6 DEF TypeOK, PlanReadyThrows, Reject, traceVars
  <2> QED BY <2>1, Untouched
<1>7. CASE FailFast(r) \/ StepCompleteThrows(r)
  <2>1. Same
    BY <1>7 DEF TypeOK, FailFast, StepCompleteThrows, traceVars
  <2> QED BY <2>1, Untouched
<1>8. CASE NextBatch(r)
  <2>1. Same
    BY <1>8 DEF TypeOK, NextBatch, StartBatch
  <2> QED BY <2>1, Untouched
<1>9. ASSUME NEW reduces \in BOOLEAN, LastBatch(r, reduces) PROVE Same
  BY <1>9 DEF TypeOK, LastBatch
<1>10. CASE Save(r)
  <2>1. Same
    BY <1>10 DEF TypeOK, Save, traceVars
  <2> QED BY <2>1, Untouched
<1> HIDE DEF Same
<1>11. Same => RunInv(x)'
  BY Untouched DEF Same
<1> QED BY <1>1, <1>2, <1>3, <1>4, <1>5, <1>6, <1>7, <1>8, <1>9, <1>10, <1>11 DEF RunStep

LEMMA RunStepKeeps ==
  ASSUME Inv, NEW r \in Runs, RunStep(r)
  PROVE  Inv'
<1>1. TypeOK /\ RunInv(r)
  BY DEF Inv
<1>2. TypeOK'
  BY <1>1, RunTypes, BatchTypes DEF RunStep
<1>3. RunInv(r)'
  BY <1>1, RunKeeps, BeginKeeps, StepKeeps, NextBatchKeeps, LastBatchKeeps, FailFastKeeps,
     StepCompleteThrowsKeeps, EndKeeps DEF RunStep
<1>4. ASSUME NEW x \in Runs PROVE RunInv(x)'
  BY <1>1, <1>3, Others DEF Inv
<1> QED BY <1>2, <1>4 DEF Inv

LEMMA InitInv == Init => Inv
<1> SUFFICES ASSUME Init PROVE Inv
  OBVIOUS
<1>1. TypeOK
  BY EmptySeq DEF Init, TypeOK
<1>2. Listed(<<>>) = {} /\ DOMAIN <<>> = {}
  BY DEF Listed
<1>3. ASSUME NEW r \in Runs PROVE RunInv(r)
  <2>1. Planned(r) /\ Fresh(r) /\ Current(r) /\ AtEnd(r) /\ Recorded(r) /\ Sources(r)
    BY DEF Init, Planned, Fresh, Current, AtEnd, Recorded, Sources
  <2>2. Once(r)
    BY <1>2 DEF Init, Once
  <2>3. Known(r) /\ ParentsOk(r)
    BY DEF Init, Known, ParentsOk
  <2> QED BY <2>1, <2>2, <2>3 DEF RunInv
<1> QED BY <1>1, <1>3 DEF Inv

LEMMA NextInv == Inv /\ [Next]_vars => Inv'
<1> SUFFICES ASSUME Inv, [Next]_vars PROVE Inv'
  OBVIOUS
<1> DEFINE RunVars == <<plan, failFast, phase, batch, step, stepResults, stepMessageIds,
                        workflowRootMessageId, parentMessageId, record>>
<1>1. ASSUME UNCHANGED RunVars, DOMAIN definitions' \subseteq Workflows,
             \A w \in DOMAIN definitions' : definitions'[w] \in ValidPlans
      PROVE  Inv'
  <2>1. TypeOK'
    BY <1>1 DEF Inv, TypeOK
  <2>2. ASSUME NEW x \in Runs PROVE RunInv(x)'
    BY <1>1, Untouched DEF Inv
  <2> QED BY <2>1, <2>2 DEF Inv
<1>2. CASE vars' = vars
  BY <1>1, <1>2 DEF vars, Inv, TypeOK
<1>3. ASSUME NEW w \in Workflows, NEW p \in ValidPlans, Register(w, p) PROVE Inv'
  BY <1>1, <1>3 DEF Register, Inv, TypeOK, traceVars
<1>4. ASSUME NEW w \in Workflows, Unregister(w) PROVE Inv'
  BY <1>1, <1>4 DEF Unregister, Inv, TypeOK, traceVars
<1>5. ASSUME NEW r \in Runs, RunStep(r) PROVE Inv'
  BY <1>5, RunStepKeeps
<1> QED BY <1>2, <1>3, <1>4, <1>5 DEF Next, RunStep

LEMMA Invariance == Spec => []Inv
  BY InitInv, NextInv, PTL DEF Spec

-------------------------------------------------------------------------------
(* The theorems.                                                            *)

\* Every variable keeps its shape.
THEOREM TypeCorrect == Spec => []TypeOK
<1>1. Inv => TypeOK
  BY DEF Inv
<1> QED BY <1>1, Invariance, PTL

\* When mapInput() of a step reads stepResults, the results of all its dependencies are there.
LEMMA DependenciesAreKnown == Spec => []DependenciesKnown
<1>1. Inv => DependenciesKnown
  BY DEF Inv, RunInv, Known, DependenciesKnown
<1> QED BY <1>1, Invariance, PTL

\* A stored record tells what happened, and goes on telling it while the steps that a
\* rejected or failed run left behind end.
THEOREM RecordIsTrue == Spec => []RecordTrue
<1>1. ASSUME Inv PROVE RecordTrue
  <2> SUFFICES ASSUME NEW r \in Runs, record[r] # None
               PROVE  LET rec == record[r]
                          got == Listed(rec.steps)
                      IN /\ \A i, j \in DOMAIN rec.steps : rec.steps[i] = rec.steps[j] => i = j
                         /\ rec.status = "completed" =>
                              /\ got = DOMAIN plan[r]
                              /\ \A s \in got : step[r][s] = "ok"
                                                  \/ (step[r][s] = "error" /\ ~failFast[r])
                         /\ rec.status = "failed" =>
                              /\ failFast[r] /\ rec.steps # <<>>
                              /\ rec.failedStepId = rec.steps[Len(rec.steps)]
                              /\ \A s \in got :
                                   step[r][s] = IF s = rec.failedStepId THEN "error" ELSE "ok"
    BY DEF RecordTrue
  <2>1. CASE record[r] = Record("running", <<>>, None)
    BY <2>1, EmptySeq DEF Record
  <2>2. CASE record[r] # Record("running", <<>>, None)
    <3> DEFINE res == stepResults[r]
    <3>1. /\ phase[r] \in {"completed", "failed"}
          /\ record[r] = Record(phase[r], res, IF phase[r] = "failed" THEN res[Len(res)] ELSE None)
      BY <1>1, <2>2 DEF Inv, RunInv, Recorded
    <3>2. record[r].status = phase[r] /\ record[r].steps = res
            /\ (phase[r] = "failed" => record[r].failedStepId = res[Len(res)])
      BY <3>1 DEF Record
    <3>3. \A i, j \in DOMAIN res : res[i] = res[j] => i = j
      BY <1>1 DEF Inv, RunInv, Once
    <3>4. CASE phase[r] = "completed"
      BY <1>1, <3>2, <3>3, <3>4 DEF Inv, RunInv, AtEnd, Good
    <3>5. CASE phase[r] = "failed"
      <4>1. /\ failFast[r] /\ res # <<>>
            /\ \A i \in DOMAIN res : step[r][res[i]] = IF i = Len(res) THEN "error" ELSE "ok"
        BY <1>1, <3>5 DEF Inv, RunInv, AtEnd
      <4>2. Len(res) \in DOMAIN res
        BY <1>1, <4>1, EmptySeq, LenProperties DEF Inv, TypeOK
      <4>3. \A s \in Listed(res) : step[r][s] = IF s = res[Len(res)] THEN "error" ELSE "ok"
        BY <3>3, <4>1, <4>2 DEF Listed
      <4> QED BY <3>2, <3>3, <3>5, <4>1, <4>3
    <3> QED BY <3>1, <3>4, <3>5
  <2> QED BY <2>1, <2>2
<1> QED BY <1>1, Invariance, PTL

\* The parent of a step succeeded before, and is a dependency whenever one of them did.
LEMMA ParentIsSound == Spec => []ParentSound
<1>1. Inv => ParentSound
  BY DEF Inv, RunInv, ParentsOk, Oks, ParentSound
<1> QED BY <1>1, Invariance, PTL

\* A step starts with the results of all its dependencies and with a sound parent.
THEOREM StepsAreInformed == Spec => []StepsInformed
<1> QED BY DependenciesAreKnown, ParentIsSound, PTL DEF StepsInformed

\* A step of a run is a step of DagSchedule, or changes nothing it sees.
LEMMA ScheduleStep ==
  ASSUME Inv, NEW r \in Runs, RunStep(r)
  PROVE  [Schedule!Next]_(Schedule!vars)
<1>0. TypeOK /\ RunInv(r)
  BY DEF Inv
<1>a. ASSUME \A x \in Runs : EndOf(x)' = EndOf(x)
      PROVE  [x \in Runs |-> EndOf(x)]' = [x \in Runs |-> EndOf(x)]
  BY <1>a
<1>c. ASSUME NEW S \in SUBSET Steps, \A x \in Runs : EndOf(x)' = EndOf(x),
             EndOf(r) = None, plan[r] # None, failFast[r] => Schedule!Failed(r) = {},
             \A s \in S : step[r][s] = "idle",
             \A s \in S : s \in DOMAIN plan[r],
             \A s \in S : Deps(plan[r], s) \subseteq Schedule!Ended(r),
             step' = [step EXCEPT ![r] = [s \in Steps |-> IF s \in S THEN "running" ELSE @[s]]],
             UNCHANGED <<plan, failFast>>
      PROVE  Schedule!Next
  <2>1. [x \in Runs |-> EndOf(x)]' = [x \in Runs |-> EndOf(x)]
    BY <1>a, <1>c
  <2>2. [x \in Runs |-> EndOf(x)][r] = None
    BY <1>c
  <2>3. \A s \in S : /\ step[r][s] = "idle" /\ s \in DOMAIN plan[r]
                     /\ Schedule!Deps(plan[r], s) \subseteq Schedule!Ended(r)
    BY <1>c DEF Schedule!Deps, Deps, Schedule!Listed, Listed
  <2> HIDE DEF EndOf
  <2>4. Schedule!Start(r, S)
    BY <1>c, <2>1, <2>2, <2>3 DEF Schedule!Start
  <2> QED BY <2>4 DEF Schedule!Next
<1>1. ASSUME NEW w \in Workflows, NEW ff \in BOOLEAN, Run(r, w, ff)
      PROVE  Schedule!Next
  <2>1. \A x \in Runs : EndOf(x)' = EndOf(x)
    BY <1>0, <1>1 DEF Run, TypeOK, EndOf
  <2>2. plan[r] = None /\ definitions[w] \in ValidPlans /\ ff = ~(~ff)
    BY <1>0, <1>1 DEF Run, TypeOK, RunInv, Planned
  <2>3. Schedule!Accept(r, definitions[w], ~ff)
    BY <1>1, <1>a, <2>1, <2>2 DEF Run, Schedule!Accept
  <2> QED BY <2>2, <2>3 DEF Schedule!Next
<1>2. ASSUME NEW p \in ValidPlans, NEW ff \in BOOLEAN, ExecuteSubtaskPlan(r, p, ff)
      PROVE  Schedule!Next
  <2>1. \A x \in Runs : EndOf(x)' = EndOf(x)
    BY <1>0, <1>2 DEF ExecuteSubtaskPlan, TypeOK, EndOf
  <2>2. plan[r] = None /\ ff = ~(~ff)
    BY <1>0, <1>2 DEF ExecuteSubtaskPlan, RunInv, Planned
  <2>3. Schedule!Accept(r, p, ~ff)
    BY <1>2, <1>a, <2>1, <2>2 DEF ExecuteSubtaskPlan, Schedule!Accept
  <2> QED BY <2>3 DEF Schedule!Next
<1>3. CASE Begin(r)
  <2> DEFINE S == Listed(BatchesOf[plan[r]][1])
  <2>1. \A x \in Runs : EndOf(x)' = EndOf(x)
    BY <1>0, <1>3 DEF Begin, TypeOK, EndOf
  <2>2. plan[r] \in ValidPlans /\ plan[r] # None /\ EndOf(r) = None
          /\ \A s \in Steps : step[r][s] = "idle"
    BY <1>0, <1>3, WorkflowPlans DEF Begin, RunInv, Planned, Fresh, EndOf
  <2>3. /\ S \subseteq DOMAIN plan[r] /\ S \subseteq Steps
        /\ \A s \in S : Deps(plan[r], s) = {}
    <3>1. 1 \in 1..Len(BatchesOf[plan[r]]) /\ 1 - 1 = 0
      BY <2>2, PlanFacts
    <3>2. BatchesOf[plan[r]][1] \in Seq(DOMAIN plan[r])
            /\ \A s \in S : Deps(plan[r], s) \subseteq InFirst(BatchesOf[plan[r]], 1 - 1)
      BY <2>2, <3>1, BatchFacts
    <3>3. InFirst(BatchesOf[plan[r]], 1 - 1) = {}
      BY <3>1, InFirstStep
    <3>4. S \subseteq DOMAIN plan[r]
      BY <3>2, ListedFacts
    <3> QED BY <2>2, <3>2, <3>3, <3>4, PlanFacts
  <2>4. step' = [step EXCEPT ![r] = [s \in Steps |-> IF s \in S THEN "running" ELSE @[s]]]
          /\ UNCHANGED <<plan, failFast>>
    BY <1>3 DEF Begin, StartBatch
  <2>5. Schedule!Failed(r) = {}
    BY <2>2 DEF Schedule!Failed
  <2> HIDE DEF S
  <2>6. /\ S \in SUBSET Steps
        /\ \A s \in S : step[r][s] = "idle"
        /\ \A s \in S : s \in DOMAIN plan[r]
        /\ \A s \in S : Deps(plan[r], s) \subseteq Schedule!Ended(r)
    BY <2>2, <2>3
  <2> QED BY <1>c, <2>1, <2>2, <2>4, <2>5, <2>6
<1>4. ASSUME NEW s \in Steps, NEW status \in {"ok", "error"}, StepEnds(r, s, status)
      PROVE  Schedule!Next
  <2>1. \A x \in Runs : EndOf(x)' = EndOf(x)
    BY <1>4 DEF StepEnds, EndOf
  <2>2. Schedule!End(r, s, status)
    BY <1>4, <1>a, <2>1 DEF StepEnds, Schedule!End
  <2> QED BY <2>2 DEF Schedule!Next
<1>5. ASSUME NEW s \in Steps, StepThrows(r, s)
      PROVE  Schedule!Next
  <2>1. \A x \in Runs : EndOf(x)' = EndOf(x)
    BY <1>5 DEF StepThrows, EndOf
  <2>2. Schedule!End(r, s, "threw")
    BY <1>5, <1>a, <2>1 DEF StepThrows, Schedule!End
  <2> QED BY <2>2 DEF Schedule!Next
<1>b. ASSUME NEW how, EndOf(r)' = how, \A x \in Runs \ {r} : EndOf(x)' = EndOf(x)
      PROVE  [x \in Runs |-> EndOf(x)]' = [[x \in Runs |-> EndOf(x)] EXCEPT ![r] = how]
  BY <1>b
<1>6. CASE Reject(r)
  <2>1. EndOf(r) = None /\ EndOf(r)' = "rejected" /\ plan[r] # None
          /\ \A x \in Runs \ {r} : EndOf(x)' = EndOf(x)
    BY <1>0, <1>6, WorkflowPlans DEF Reject, TypeOK, EndOf, RunInv, Planned
  <2>2. \E s \in Steps : step[r][s] = "threw"
    <3>1. PICK s \in Listed(Batch(r)) : step[r][s] = "threw"
      BY <1>6 DEF Reject
    <3>2. phase[r] = "running"
      BY <1>6 DEF Reject
    <3>3. s \in Steps
      BY <1>0, <3>2, RunningBatch
    <3> QED BY <3>1, <3>3
  <2>3. Schedule!Finish(r, "rejected")
    BY <1>6, <1>b, <2>1, <2>2 DEF Reject, Schedule!Finish
  <2> QED BY <2>3 DEF Schedule!Next
<1>7. CASE FailFast(r)
  <2>1. EndOf(r) = None /\ EndOf(r)' = "failed" /\ plan[r] # None /\ phase[r] = "running"
          /\ \A x \in Runs \ {r} : EndOf(x)' = EndOf(x)
    BY <1>0, <1>7, WorkflowPlans DEF FailFast, Settled, TypeOK, EndOf, RunInv, Planned
  <2>2. failFast[r] /\ Schedule!Failed(r) # {}
    <3>1. PICK i \in Errors(r) : TRUE
      BY <1>7 DEF FailFast
    <3>2. step[r][Batch(r)[i]] = "error" /\ Batch(r)[i] \in Steps
      BY <1>0, <2>1, <3>1, RunningBatch DEF Errors, Listed
    <3> QED BY <1>7, <3>2 DEF FailFast, Schedule!Failed
  <2>3. Schedule!Finish(r, "failed")
    BY <1>7, <1>b, <2>1, <2>2 DEF FailFast, Schedule!Finish
  <2> QED BY <2>3 DEF Schedule!Next
<1>8. ASSUME Settled(r), failFast[r] => Errors(r) = {}
      PROVE  /\ plan[r] \in ValidPlans /\ plan[r] # None /\ EndOf(r) = None
             /\ Schedule!Ended(r) = InFirst(Levels(r), batch[r])
             /\ failFast[r] => Schedule!Failed(r) = {}
             /\ \A s \in Steps \ InFirst(Levels(r), batch[r]) : step[r][s] = "idle"
             /\ batch[r] \in 1..Len(Levels(r))
  <2>1. phase[r] = "running"
    BY <1>8 DEF Settled
  <2>2. plan[r] \in ValidPlans /\ plan[r] # None /\ batch[r] \in 1..Len(Levels(r))
    BY <1>0, <2>1, RunningBatch, WorkflowPlans
  <2>3. /\ InFirst(Levels(r), batch[r]) \subseteq Steps
        /\ \A s \in Steps : step[r][s] # "idle" <=> s \in InFirst(Levels(r), batch[r])
        /\ \A s \in InFirst(Levels(r), batch[r]) : Good(r, s)
    BY <1>0, <1>8, <2>2, SettledFacts, PlanFacts
  <2>4. /\ Schedule!Ended(r) = InFirst(Levels(r), batch[r])
        /\ failFast[r] => Schedule!Failed(r) = {}
    BY <2>3 DEF Schedule!Ended, Schedule!Failed, Good
  <2> QED BY <2>1, <2>2, <2>3, <2>4 DEF EndOf
<1>d. ASSUME Settled(r) PROVE \A s \in Steps : step[r][s] # "running"
  BY <1>0, <1>d, SettledFacts DEF RunInv, Once
<1>9. CASE NextBatch(r)
  <2> DEFINE S == Listed(BatchesOf[plan[r]][batch[r] + 1])
  <2>1. \A x \in Runs : EndOf(x)' = EndOf(x)
    BY <1>9 DEF NextBatch, EndOf
  <2>2. /\ plan[r] \in ValidPlans /\ plan[r] # None /\ EndOf(r) = None
        /\ Schedule!Ended(r) = InFirst(Levels(r), batch[r])
        /\ failFast[r] => Schedule!Failed(r) = {}
        /\ \A s \in Steps \ InFirst(Levels(r), batch[r]) : step[r][s] = "idle"
        /\ batch[r] \in 1..Len(Levels(r))
    BY <1>8, <1>9 DEF NextBatch
  <2>3. /\ S \subseteq DOMAIN plan[r] /\ S \subseteq Steps
        /\ S \cap InFirst(Levels(r), batch[r]) = {}
        /\ \A s \in S : Deps(plan[r], s) \subseteq InFirst(Levels(r), batch[r])
    <3>1. Len(BatchesOf[plan[r]]) \in Nat
      BY <2>2, PlanFacts
    <3>2. batch[r] + 1 \in 1..Len(BatchesOf[plan[r]]) /\ (batch[r] + 1) - 1 = batch[r]
      BY <1>9, <2>2, <3>1 DEF NextBatch, Levels
    <3>3. /\ BatchesOf[plan[r]][batch[r] + 1] \in Seq(DOMAIN plan[r])
          /\ S \cap InFirst(Levels(r), batch[r]) = {}
          /\ \A s \in S : Deps(plan[r], s) \subseteq InFirst(Levels(r), batch[r])
      <4> DEFINE b == BatchesOf[plan[r]]
                 k == batch[r] + 1
      <4>1. k \in 1..Len(b) /\ k - 1 = batch[r] /\ Levels(r) = b
        BY <3>2 DEF Levels
      <4>2. /\ b[k] \in Seq(DOMAIN plan[r])
            /\ Listed(b[k]) \cap InFirst(b, k - 1) = {}
            /\ \A s \in Listed(b[k]) : Deps(plan[r], s) \subseteq InFirst(b, k - 1)
        <5> HIDE DEF k
        <5> QED BY <2>2, <4>1, BatchFacts
      <4> QED BY <4>1, <4>2
    <3>4. S \subseteq DOMAIN plan[r]
      BY <3>3, ListedFacts
    <3> QED BY <2>2, <3>3, <3>4, PlanFacts
  <2>4. step' = [step EXCEPT ![r] = [s \in Steps |-> IF s \in S THEN "running" ELSE @[s]]]
          /\ UNCHANGED <<plan, failFast>>
    BY <1>9 DEF NextBatch, StartBatch
  <2> HIDE DEF S
  <2>5. /\ S \in SUBSET Steps
        /\ \A s \in S : step[r][s] = "idle"
        /\ \A s \in S : s \in DOMAIN plan[r]
        /\ \A s \in S : Deps(plan[r], s) \subseteq Schedule!Ended(r)
    BY <2>2, <2>3
  <2> QED BY <1>c, <2>1, <2>2, <2>4, <2>5
<1>10. ASSUME NEW reduces \in BOOLEAN, LastBatch(r, reduces)
       PROVE  Schedule!Next
  <2> DEFINE how == IF reduces THEN "completed" ELSE "rejected"
  <2>1. EndOf(r)' = how /\ \A x \in Runs \ {r} : EndOf(x)' = EndOf(x)
    BY <1>0, <1>10 DEF LastBatch, TypeOK, EndOf
  <2>2. /\ plan[r] \in ValidPlans /\ plan[r] # None /\ EndOf(r) = None
        /\ Schedule!Ended(r) = InFirst(Levels(r), batch[r])
        /\ failFast[r] => Schedule!Failed(r) = {}
        /\ batch[r] \in 1..Len(Levels(r))
    BY <1>8, <1>10 DEF LastBatch
  <2>3. InFirst(Levels(r), batch[r]) = DOMAIN plan[r]
    BY <1>10, <2>2, BatchFacts DEF LastBatch, Levels
  <2>4. how \in {"completed", "failed", "rejected"} /\ how # "failed"
    OBVIOUS
  <2>7. \A s \in Steps : step[r][s] # "running"
    BY <1>10, <1>d DEF LastBatch
  <2> HIDE DEF how
  <2>5. [x \in Runs |-> EndOf(x)]' = [[x \in Runs |-> EndOf(x)] EXCEPT ![r] = how]
    BY <1>b, <2>1
  <2>6. Schedule!Finish(r, how)
    BY <1>10, <2>2, <2>3, <2>4, <2>5, <2>7 DEF LastBatch, Schedule!Finish
  <2> QED BY <2>4, <2>6 DEF Schedule!Next
<1>11. CASE Save(r)
  <2>1. \A x \in Runs : EndOf(x)' = EndOf(x)
    BY <1>11 DEF Save, EndOf
  <2> QED BY <1>11, <1>a, <2>1 DEF Save, Schedule!vars
<1>12. CASE PlanReadyThrows(r)
  <2>1. EndOf(r) = None /\ EndOf(r)' = "rejected" /\ plan[r] # None
          /\ \A x \in Runs \ {r} : EndOf(x)' = EndOf(x)
    BY <1>0, <1>12, WorkflowPlans DEF PlanReadyThrows, TypeOK, EndOf, RunInv, Planned
  <2>2. \A s \in Steps : step[r][s] # "running"
    BY <1>0, <1>12 DEF PlanReadyThrows, RunInv, Fresh
  <2>3. Schedule!Finish(r, "rejected")
    BY <1>12, <1>b, <2>1, <2>2 DEF PlanReadyThrows, Schedule!Finish
  <2> QED BY <2>3 DEF Schedule!Next
<1>13. CASE StepCompleteThrows(r)
  <2>1. EndOf(r) = None /\ EndOf(r)' = "rejected" /\ plan[r] # None
          /\ \A x \in Runs \ {r} : EndOf(x)' = EndOf(x)
    BY <1>0, <1>13, WorkflowPlans
       DEF StepCompleteThrows, Settled, TypeOK, EndOf, RunInv, Planned
  <2>2. \A s \in Steps : step[r][s] # "running"
    BY <1>13, <1>d DEF StepCompleteThrows
  <2>3. Schedule!Finish(r, "rejected")
    BY <1>13, <1>b, <2>1, <2>2 DEF StepCompleteThrows, Schedule!Finish
  <2> QED BY <2>3 DEF Schedule!Next
<1> QED BY <1>1, <1>2, <1>3, <1>4, <1>5, <1>6, <1>7, <1>9, <1>10, <1>11, <1>12, <1>13
       DEF RunStep

\* WorkflowRun implements DagSchedule.
THEOREM ScheduleIsKept == Spec => KeepsSchedule
<1>1. Init => Schedule!Init
  <2> SUFFICES ASSUME Init PROVE Schedule!Init
    OBVIOUS
  <2>1. [r \in Runs |-> EndOf(r)] = [r \in Runs |-> None]
    BY DEF Init, EndOf
  <2> QED BY <2>1 DEF Init, Schedule!Init
<1>2. Inv /\ [Next]_vars => [Schedule!Next]_(Schedule!vars)
  <2> SUFFICES ASSUME Inv, [Next]_vars PROVE [Schedule!Next]_(Schedule!vars)
    OBVIOUS
  <2>1. ASSUME UNCHANGED <<plan, failFast, step, phase>> PROVE UNCHANGED Schedule!vars
    BY <2>1 DEF Schedule!vars, EndOf
  <2>2. ASSUME NEW r \in Runs, RunStep(r) PROVE [Schedule!Next]_(Schedule!vars)
    BY <2>2, ScheduleStep
  <2>3. CASE vars' = vars
    BY <2>1, <2>3 DEF vars
  <2>4. ASSUME NEW w \in Workflows, NEW p \in ValidPlans, Register(w, p)
        PROVE  UNCHANGED Schedule!vars
    BY <2>1, <2>4 DEF Register
  <2>5. ASSUME NEW w \in Workflows, Unregister(w) PROVE UNCHANGED Schedule!vars
    BY <2>1, <2>5 DEF Unregister
  <2> QED BY <2>2, <2>3, <2>4, <2>5 DEF Next, RunStep
<1> QED BY <1>1, <1>2, Invariance, PTL DEF Spec, KeepsSchedule, Schedule!Spec

-------------------------------------------------------------------------------
(* Pipelines.                                                                *)
Ways == {"success", "error", "unanswered", "threw"}
Results == Seq(Nat \X {"success", "error"})

PipelineTypeOK ==
  /\ length \in [Pipelines -> 0..MaxLength \cup {NotYet}]
  /\ tasks \in [Pipelines -> Seq(Ways \cup {"running"})]
  /\ resultsOf \in [Pipelines -> Results]
  /\ returned \in [Pipelines -> [end : {NotYet, "completed", "failed", "rejected"},
                                 failedStepId : Nat \cup {NotYet}, steps : Results]]

\* Of the steps sent, only the last one may have failed, and the answered ones have a result.
Sent(c) ==
  LET n == Len(tasks[c])
      answered == n > 0 /\ tasks[c][n] \in {"success", "error"}
  IN /\ n > 0 => length[c] # NotYet /\ n <= length[c]
     /\ \A i \in 1..n : i < n => tasks[c][i] = "success"
     /\ Len(resultsOf[c]) = IF n = 0 \/ answered THEN n ELSE n - 1
     /\ \A k \in 1..Len(resultsOf[c]) : resultsOf[c][k] = <<k, tasks[c][k]>>

\* A call that has ended was at a turn that ends it, and nothing has moved since.
Reported(c) ==
  LET n == Len(tasks[c])
      told == returned[c]
  IN told.end # NotYet =>
       /\ length[c] # NotYet
       /\ told.end = "completed" =>
            n = length[c] /\ (n > 0 => tasks[c][n] = "success") /\ told.steps = resultsOf[c]
       /\ told.end = "failed" =>
            /\ n > 0 /\ tasks[c][n] \in {"error", "unanswered"}
            /\ told.failedStepId = n /\ told.steps = resultsOf[c]
       /\ told.end = "rejected" => n > 0 /\ tasks[c][n] = "threw"

PipelineInv == PipelineTypeOK /\ \A c \in Pipelines : Sent(c) /\ Reported(c)

-------------------------------------------------------------------------------
LEMMA PipelineInitInv == PipelineInit => PipelineInv
  BY PipelineConstants DEF PipelineInit, PipelineInv, PipelineTypeOK, Sent, Reported, Result, Results, Ways

\* What holds of one call depends on that call alone.
LEMMA OtherCalls ==
  ASSUME NEW c, Sent(c) /\ Reported(c),
         UNCHANGED <<length[c], tasks[c], resultsOf[c], returned[c]>>
  PROVE  Sent(c)' /\ Reported(c)'
  BY DEF Sent, Reported

LEMMA RunPipelineInv ==
  ASSUME PipelineInv, NEW c \in Pipelines, NEW n \in 0..MaxLength, RunPipeline(c, n)
  PROVE  PipelineInv'
<1>1. PipelineTypeOK'
  BY DEF PipelineInv, PipelineTypeOK, RunPipeline
<1>2. Sent(c)' /\ Reported(c)'
  <2>1. tasks[c] = <<>>
    BY DEF PipelineInv, PipelineTypeOK, Sent, RunPipeline
  <2> QED BY <2>1, PipelineConstants DEF PipelineInv, PipelineTypeOK, Sent, Reported, RunPipeline
<1>3. ASSUME NEW x \in Pipelines \ {c} PROVE Sent(x)' /\ Reported(x)'
  BY OtherCalls DEF PipelineInv, PipelineTypeOK, RunPipeline
<1> QED BY <1>1, <1>2, <1>3 DEF PipelineInv

LEMMA SendNextInv ==
  ASSUME PipelineInv, NEW c \in Pipelines, SendNext(c)
  PROVE  PipelineInv'
<1>1. PipelineTypeOK'
  BY DEF PipelineInv, PipelineTypeOK, SendNext
<1>2. /\ tasks[c] \in Seq(Ways \cup {"running"})
      /\ tasks'[c] = Append(tasks[c], "running")
      /\ length[c] \in Nat /\ length[c] # NotYet /\ Len(tasks[c]) < length[c]
      /\ tasks[c] # <<>> => tasks[c][Len(tasks[c])] = "success"
      /\ returned[c].end = NotYet
  BY DEF PipelineInv, PipelineTypeOK, SendNext, AtTurn
<1>3. Sent(c)'
  BY <1>2 DEF PipelineInv, PipelineTypeOK, Sent, SendNext
<1>4. Reported(c)'
  BY <1>2 DEF PipelineInv, Reported, SendNext
<1>5. ASSUME NEW x \in Pipelines \ {c} PROVE Sent(x)' /\ Reported(x)'
  BY OtherCalls DEF PipelineInv, PipelineTypeOK, SendNext
<1> QED BY <1>1, <1>3, <1>4, <1>5 DEF PipelineInv

LEMMA TaskEndsInv ==
  ASSUME PipelineInv, NEW c \in Pipelines, NEW how \in Ways, TaskEnds(c, how)
  PROVE  PipelineInv'
<1> DEFINE n == Len(tasks[c])
<1>1. /\ tasks[c] \in Seq(Ways \cup {"running"}) /\ n \in Nat \ {0}
      /\ tasks[c][n] = "running"
      /\ tasks'[c] = [tasks[c] EXCEPT ![n] = how]
      /\ resultsOf[c] \in Results /\ Len(resultsOf[c]) = n - 1
  <2>1. tasks[c] \in Seq(Ways \cup {"running"}) /\ resultsOf[c] \in Results
    BY DEF PipelineInv, PipelineTypeOK
  <2>2. n \in Nat \ {0} /\ tasks[c][n] = "running"
    BY <2>1 DEF TaskEnds
  <2>3. tasks'[c] = [tasks[c] EXCEPT ![n] = how]
    BY DEF PipelineInv, PipelineTypeOK, TaskEnds
  <2>4. Len(resultsOf[c]) = n - 1
    BY <2>2 DEF PipelineInv, Sent
  <2> QED BY <2>1, <2>2, <2>3, <2>4
<1>2. /\ tasks'[c] \in Seq(Ways \cup {"running"}) /\ Len(tasks'[c]) = n
      /\ tasks'[c][n] = how
      /\ \A i \in 1..(n - 1) : tasks'[c][i] = tasks[c][i]
  BY <1>1
<1>3. /\ resultsOf'[c] = IF how \in {"success", "error"}
                           THEN Append(resultsOf[c], <<n, how>>) ELSE resultsOf[c]
      /\ resultsOf'[c] \in Results
  BY <1>1 DEF TaskEnds, PipelineInv, PipelineTypeOK, Results
<1>4. PipelineTypeOK'
  BY <1>1, <1>2, <1>3 DEF PipelineInv, PipelineTypeOK, TaskEnds
<1>5. Sent(c)'
  <2>1. Len(resultsOf'[c]) = IF how \in {"success", "error"} THEN n ELSE n - 1
    BY <1>1, <1>3 DEF Results
  <2>2. \A k \in 1..Len(resultsOf'[c]) : resultsOf'[c][k] = <<k, tasks'[c][k]>>
    BY <1>1, <1>2, <1>3, <2>1 DEF Results, PipelineInv, Sent
  <2> QED BY <1>1, <1>2, <2>1, <2>2 DEF PipelineInv, Sent, TaskEnds
<1>6. Reported(c)'
  BY <1>1, <1>2 DEF PipelineInv, PipelineTypeOK, Reported, TaskEnds
<1>7. ASSUME NEW x \in Pipelines \ {c} PROVE Sent(x)' /\ Reported(x)'
  BY OtherCalls DEF PipelineInv, PipelineTypeOK, TaskEnds
<1> QED BY <1>4, <1>5, <1>6, <1>7 DEF PipelineInv

LEMMA EndInv ==
  ASSUME PipelineInv, NEW c \in Pipelines, ReturnFailure(c) \/ Throw(c) \/ ReturnSuccess(c)
  PROVE  PipelineInv'
<1>1. PipelineTypeOK'
  <2>1. /\ Len(tasks[c]) \in Nat /\ resultsOf[c] \in Results
        /\ returned[c] \in [end : {NotYet, "completed", "failed", "rejected"},
                            failedStepId : Nat \cup {NotYet}, steps : Results]
    BY DEF PipelineInv, PipelineTypeOK
  <2>2. CASE ReturnFailure(c)
    BY <2>1, <2>2 DEF PipelineInv, PipelineTypeOK, ReturnFailure, Result
  <2>3. CASE Throw(c)
    BY <2>1, <2>3 DEF PipelineInv, PipelineTypeOK, Throw
  <2>4. CASE ReturnSuccess(c)
    BY <2>1, <2>4 DEF PipelineInv, PipelineTypeOK, ReturnSuccess, Result
  <2> QED BY <2>2, <2>3, <2>4
<1>2. Sent(c)'
  BY DEF PipelineInv, Sent, ReturnFailure, Throw, ReturnSuccess
<1>3. Reported(c)'
  BY DEF PipelineInv, PipelineTypeOK, Reported, ReturnFailure, Throw, ReturnSuccess, Result, AtTurn
<1>4. ASSUME NEW x \in Pipelines \ {c} PROVE Sent(x)' /\ Reported(x)'
  BY OtherCalls DEF PipelineInv, PipelineTypeOK, ReturnFailure, Throw, ReturnSuccess
<1> QED BY <1>1, <1>2, <1>3, <1>4 DEF PipelineInv

\* PipelineInv is inductive.
THEOREM PipelineInvariance == PipelineSpec => []PipelineInv
<1>1. PipelineInv /\ [PipelineNext]_pipelineVars => PipelineInv'
  <2> SUFFICES ASSUME PipelineInv, [PipelineNext]_pipelineVars PROVE PipelineInv'
    OBVIOUS
  <2>1. CASE UNCHANGED pipelineVars
    BY <2>1, OtherCalls DEF pipelineVars, PipelineInv, PipelineTypeOK
  <2>2. CASE PipelineNext
    BY <2>2, RunPipelineInv, SendNextInv, TaskEndsInv, EndInv DEF PipelineNext, Ways
  <2> QED BY <2>1, <2>2
<1> QED BY <1>1, PipelineInitInv, PTL DEF PipelineSpec

\* What a pipeline returns tells how its steps went, for any calls of any length.
THEOREM TruthIsTold == PipelineSpec => []PipelineTold
<1>1. PipelineInv => PipelineTold
  <2> SUFFICES ASSUME PipelineInv, NEW c \in Pipelines,
                      returned[c].end = "completed" \/ returned[c].end = "failed",
                      returned[c].end # NotYet
               PROVE  LET told == returned[c]
                          failed == {i \in DOMAIN tasks[c] : tasks[c][i] # "success"}
                      IN /\ DOMAIN told.steps = {i \in DOMAIN tasks[c] : tasks[c][i] # "unanswered"}
                         /\ \A k \in DOMAIN told.steps : told.steps[k] = <<k, tasks[c][k]>>
                         /\ failed = IF told.end = "failed" THEN {told.failedStepId} ELSE {}
                         /\ told.end = "completed" => Len(told.steps) = length[c]
    BY DEF PipelineInv, PipelineTypeOK, PipelineTold
  <2> DEFINE n == Len(tasks[c])
  <2>1. /\ DOMAIN tasks[c] = 1..n /\ n \in Nat
        /\ returned[c].steps = resultsOf[c] /\ resultsOf[c] \in Results
        /\ DOMAIN resultsOf[c] = 1..Len(resultsOf[c])
    BY DEF PipelineInv, PipelineTypeOK, Reported, Results
  <2>2. \A i \in 1..n : i < n => tasks[c][i] = "success"
    BY DEF PipelineInv, Sent
  <2>3. \A k \in 1..Len(resultsOf[c]) : resultsOf[c][k] = <<k, tasks[c][k]>>
    BY DEF PipelineInv, Sent
  <2>4. CASE returned[c].end = "completed"
    <3>1. n = length[c] /\ Len(resultsOf[c]) = n /\ \A i \in 1..n : tasks[c][i] = "success"
      BY <2>1, <2>2, <2>4 DEF PipelineInv, Reported, Sent
    <3> QED BY <2>1, <2>3, <2>4, <3>1
  <2>5. CASE returned[c].end = "failed"
    <3>1. n > 0 /\ tasks[c][n] \in {"error", "unanswered"} /\ returned[c].failedStepId = n
            /\ Len(resultsOf[c]) = IF tasks[c][n] = "error" THEN n ELSE n - 1
      BY <2>1, <2>5 DEF PipelineInv, Reported, Sent
    <3>2. {i \in DOMAIN tasks[c] : tasks[c][i] # "success"} = {n}
      BY <2>1, <2>2, <3>1
    <3>3. {i \in DOMAIN tasks[c] : tasks[c][i] # "unanswered"} = 1..Len(resultsOf[c])
      BY <2>1, <2>2, <3>1
    <3> QED BY <2>1, <2>3, <2>5, <3>1, <3>2, <3>3
  <2> QED BY <2>4, <2>5
<1> QED BY <1>1, PipelineInvariance, PTL
-------------------------------------------------------------------------------
\* What stands for plan, step and end of DagSchedule.
PlanOf(c) == IF length[c] = NotYet THEN NotYet ELSE Row(length[c])
EndOfCall(c) == returned[c].end

\* How the steps of a call look when it is at a turn after n of them.
LEMMA AtTurnFacts ==
  ASSUME PipelineInv, NEW c \in Pipelines, NEW ends, AtTurn(c, ends)
  PROVE  /\ Len(tasks[c]) \in Nat /\ length[c] \in 0..MaxLength /\ length[c] # NotYet
         /\ Len(tasks[c]) <= length[c]
         /\ returned[c].end = NotYet
         /\ \A i \in 1..MaxLength : i < Len(tasks[c]) => StepOf(c, i) = "ok"
         /\ \A i \in 1..MaxLength : i > Len(tasks[c]) => StepOf(c, i) = "idle"
         /\ tasks[c] # <<>> => /\ Len(tasks[c]) \in 1..MaxLength
                               /\ tasks[c][Len(tasks[c])] \in ends
<1>1. /\ Len(tasks[c]) \in Nat /\ length[c] \in 0..MaxLength /\ length[c] # NotYet
      /\ tasks[c] \in Seq(Ways \cup {"running"})
      /\ returned[c].end = NotYet /\ MaxLength \in Nat
  BY PipelineConstants DEF PipelineInv, PipelineTypeOK, AtTurn
<1>2. /\ Len(tasks[c]) <= length[c]
      /\ \A i \in 1..Len(tasks[c]) : i < Len(tasks[c]) => tasks[c][i] = "success"
  BY <1>1 DEF PipelineInv, Sent
<1>3. /\ \A i \in 1..MaxLength : i < Len(tasks[c]) => StepOf(c, i) = "ok"
      /\ \A i \in 1..MaxLength : i > Len(tasks[c]) => StepOf(c, i) = "idle"
  BY <1>1, <1>2 DEF StepOf
<1> QED BY <1>1, <1>2, <1>3 DEF AtTurn

\* A row and what its steps wait for.
LEMMA RowFacts ==
  ASSUME NEW n \in Nat
  PROVE  /\ DOMAIN Row(n) = 1..n
         /\ \A i \in 1..n : InARow!Deps(Row(n), i) = IF i = 1 THEN {} ELSE {i - 1}
<1>1. \A i \in 1..n : Row(n)[i] = IF i = 1 THEN <<>> ELSE <<i - 1>>
  BY DEF Row
<1>2. ASSUME NEW x PROVE InARow!Listed(<<x>>) = {x}
  BY DEF InARow!Listed
<1>3. InARow!Listed(<<>>) = {}
  BY DEF InARow!Listed
<1> QED BY <1>1, <1>2, <1>3 DEF Row, InARow!Deps

LEMMA StartKept ==
  ASSUME PipelineInv, NEW c \in Pipelines, SendNext(c)
  PROVE  InARow!Next
<1> DEFINE n == Len(tasks[c])
<1>1. AtTurn(c, {"success"}) /\ n < length[c]
  BY DEF SendNext
<1>2. /\ n \in Nat /\ length[c] \in 0..MaxLength /\ length[c] # NotYet
      /\ returned[c].end = NotYet
      /\ \A i \in 1..MaxLength : i < n => StepOf(c, i) = "ok"
      /\ \A i \in 1..MaxLength : i > n => StepOf(c, i) = "idle"
      /\ tasks[c] # <<>> => n \in 1..MaxLength /\ tasks[c][n] = "success"
  BY <1>1, AtTurnFacts
<1>3. tasks[c] \in Seq(Ways \cup {"running"}) /\ MaxLength \in Nat
  BY PipelineConstants DEF PipelineInv, PipelineTypeOK
<1>4. n \in 1..MaxLength => StepOf(c, n) = "ok"
  BY <1>2, <1>3 DEF StepOf
<1>5. /\ InARow!Failed(c) = {}
      /\ n \in 1..MaxLength => n \in InARow!Ended(c)
  BY <1>2, <1>3, <1>4 DEF InARow!Failed, InARow!Ended
<1>6. /\ n + 1 \in 1..MaxLength /\ n + 1 \in DOMAIN Row(length[c])
      /\ InARow!Deps(Row(length[c]), n + 1) \subseteq InARow!Ended(c)
  BY <1>1, <1>2, <1>3, <1>5, RowFacts
<1>7. \A x \in Pipelines, i \in 1..MaxLength :
        StepOf(x, i)' = IF x = c /\ i = n + 1 THEN "running" ELSE StepOf(x, i)
  <2> SUFFICES ASSUME NEW x \in Pipelines, NEW i \in 1..MaxLength
               PROVE  StepOf(x, i)' = IF x = c /\ i = n + 1 THEN "running" ELSE StepOf(x, i)
    OBVIOUS
  <2>1. CASE x = c
    <3>1. tasks'[c] = Append(tasks[c], "running")
      BY DEF PipelineInv, PipelineTypeOK, SendNext
    <3> QED BY <1>2, <1>3, <2>1, <3>1 DEF StepOf
  <2>2. CASE x # c
    BY <2>2 DEF PipelineInv, PipelineTypeOK, SendNext, StepOf
  <2> QED BY <2>1, <2>2
<1>8. Row(length[c]) # NotYet
  BY <1>2, PipelineConstants
<1> HIDE DEF n
<1>9. [x \in Pipelines |-> [i \in 1..MaxLength |-> StepOf(x, i)]]'
        = [[x \in Pipelines |-> [i \in 1..MaxLength |-> StepOf(x, i)]] EXCEPT
             ![c] = [i \in 1..MaxLength |->
                       IF i \in {n + 1} THEN "running"
                       ELSE [x \in Pipelines |->
                               [j \in 1..MaxLength |-> StepOf(x, j)]][c][i]]]
  <2> DEFINE now == [x \in Pipelines |-> [i \in 1..MaxLength |-> StepOf(x, i)]]
             next == [i \in 1..MaxLength |-> IF i \in {n + 1} THEN "running" ELSE now[c][i]]
  <2>1. \A x \in Pipelines : now'[x] = IF x = c THEN next ELSE now[x]
    <3>1. [i \in 1..MaxLength |-> StepOf(c, i)'] = next
      BY <1>7
    <3>2. ASSUME NEW x \in Pipelines \ {c}
          PROVE  [i \in 1..MaxLength |-> StepOf(x, i)'] = [i \in 1..MaxLength |-> StepOf(x, i)]
      BY <1>7
    <3> QED BY <3>1, <3>2
  <2>2. now' = [x \in Pipelines |-> now'[x]] /\ now = [x \in Pipelines |-> now[x]]
    OBVIOUS
  <2> HIDE DEF now, next
  <2>3. now' = [now EXCEPT ![c] = next]
    BY <2>1, <2>2
  <2> QED BY <2>3 DEF now, next
<1>10. InARow!Start(c, {n + 1})
  <2>1. [x \in Pipelines |-> IF length[x] = NotYet THEN NotYet ELSE Row(length[x])][c]
          = Row(length[c])
    BY <1>2
  <2>2. \A i \in {n + 1} :
          /\ [x \in Pipelines |-> [j \in 1..MaxLength |-> StepOf(x, j)]][c][i] = "idle"
          /\ i \in DOMAIN Row(length[c])
          /\ InARow!Deps(Row(length[c]), i) \subseteq InARow!Ended(c)
    BY <1>2, <1>6
  <2>3. UNCHANGED <<length, returned>>
    BY DEF SendNext
  <2>4. /\ UNCHANGED [x \in Pipelines |-> IF length[x] = NotYet THEN NotYet ELSE Row(length[x])]
        /\ UNCHANGED [x \in Pipelines |-> TRUE]
        /\ UNCHANGED [x \in Pipelines |-> returned[x].end]
    BY <2>3
  <2>5. [x \in Pipelines |-> returned[x].end][c] = NotYet
    BY <1>2
  <2> QED BY ONLY <1>5, <1>8, <1>9, <2>1, <2>2, <2>4, <2>5, Zenon DEF InARow!Start
<1> QED BY <1>6, <1>10 DEF InARow!Next

LEMMA EndKept ==
  ASSUME PipelineInv, NEW c \in Pipelines, NEW how \in Ways, TaskEnds(c, how)
  PROVE  InARow!Next
<1> DEFINE n == Len(tasks[c])
           ended == CASE how = "success" -> "ok" [] how = "unanswered" -> "error" [] OTHER -> how
<1>1. /\ n \in Nat \ {0} /\ n \in 1..MaxLength /\ tasks[c][n] = "running"
      /\ tasks[c] \in Seq(Ways \cup {"running"})
      /\ MaxLength \in Nat
  <2>1. /\ tasks[c] \in Seq(Ways \cup {"running"}) /\ MaxLength \in Nat
        /\ length[c] \in 0..MaxLength \cup {NotYet}
    BY PipelineConstants DEF PipelineInv, PipelineTypeOK
  <2>2. n \in Nat \ {0} /\ tasks[c][n] = "running"
    BY <2>1 DEF TaskEnds
  <2>3. length[c] # NotYet /\ n <= length[c]
    BY <2>2 DEF PipelineInv, Sent
  <2> QED BY <2>1, <2>2, <2>3
<1>2. \A x \in Pipelines, i \in 1..MaxLength :
        StepOf(x, i)' = IF x = c /\ i = n THEN ended ELSE StepOf(x, i)
  <2> SUFFICES ASSUME NEW x \in Pipelines, NEW i \in 1..MaxLength
               PROVE  StepOf(x, i)' = IF x = c /\ i = n THEN ended ELSE StepOf(x, i)
    OBVIOUS
  <2>1. CASE x = c
    <3>1. tasks'[c] = [tasks[c] EXCEPT ![n] = how]
      BY DEF PipelineInv, PipelineTypeOK, TaskEnds
    <3> QED BY <1>1, <2>1, <3>1 DEF StepOf
  <2>2. CASE x # c
    BY <2>2 DEF PipelineInv, PipelineTypeOK, TaskEnds, StepOf
  <2> QED BY <2>1, <2>2
<1>3. StepOf(c, n) = "running"
  BY <1>1 DEF StepOf
<1>4. ended \in {"ok", "error", "threw"}
  BY DEF Ways
<1> HIDE DEF n, ended
<1>5. InARow!End(c, n, ended)
  BY <1>1, <1>2, <1>3 DEF InARow!End, TaskEnds
<1> QED BY <1>1, <1>4, <1>5 DEF InARow!Next

LEMMA FinishKept ==
  ASSUME PipelineInv, NEW c \in Pipelines, ReturnFailure(c) \/ Throw(c) \/ ReturnSuccess(c)
  PROVE  InARow!Next
<1> DEFINE n == Len(tasks[c])
<1>1. ASSUME NEW how \in {"completed", "failed", "rejected"},
             length[c] # NotYet, returned[c].end = NotYet,
             \A x \in Pipelines : EndOfCall(x)' = IF x = c THEN how ELSE EndOfCall(x),
             UNCHANGED <<length, tasks>>,
             how = "completed" => /\ InARow!Ended(c) = DOMAIN Row(length[c])
                                  /\ InARow!Failed(c) = {},
             how = "failed" => InARow!Failed(c) # {},
             how = "rejected" => \E i \in 1..MaxLength : StepOf(c, i) = "threw"
      PROVE  InARow!Next
  <2>1. Row(length[c]) # NotYet
    BY <1>1, PipelineConstants DEF PipelineInv, PipelineTypeOK
  <2>2. [x \in Pipelines |-> returned[x].end]'
          = [[x \in Pipelines |-> returned[x].end] EXCEPT ![c] = how]
    BY <1>1 DEF EndOfCall
  <2>3. UNCHANGED [x \in Pipelines |-> [i \in 1..MaxLength |-> StepOf(x, i)]]
    BY <1>1 DEF StepOf
  <2>4. InARow!Finish(c, how)
    BY <1>1, <2>1, <2>2, <2>3 DEF InARow!Finish
  <2> QED BY <2>4 DEF InARow!Next
<1>2. tasks[c] \in Seq(Ways \cup {"running"}) /\ MaxLength \in Nat
  BY PipelineConstants DEF PipelineInv, PipelineTypeOK
<1>3. CASE ReturnFailure(c)
  <2>1. /\ n \in 1..MaxLength /\ tasks[c][n] \in {"error", "unanswered"}
        /\ length[c] # NotYet /\ returned[c].end = NotYet
    BY <1>3, AtTurnFacts DEF ReturnFailure
  <2>2. StepOf(c, n) = "error"
    BY <1>2, <2>1 DEF StepOf
  <2>3. InARow!Failed(c) # {}
    BY <2>1, <2>2 DEF InARow!Failed
  <2>4. \A x \in Pipelines : EndOfCall(x)' = IF x = c THEN "failed" ELSE EndOfCall(x)
    BY <1>3 DEF ReturnFailure, EndOfCall, PipelineInv, PipelineTypeOK, Result
  <2> QED BY <1>1, <1>3, <2>1, <2>3, <2>4 DEF ReturnFailure
<1>4. CASE Throw(c)
  <2>1. /\ n \in 1..MaxLength /\ tasks[c][n] = "threw"
        /\ length[c] # NotYet /\ returned[c].end = NotYet
    BY <1>4, AtTurnFacts DEF Throw
  <2>2. StepOf(c, n) = "threw"
    BY <1>2, <2>1 DEF StepOf
  <2>3. \A x \in Pipelines : EndOfCall(x)' = IF x = c THEN "rejected" ELSE EndOfCall(x)
    BY <1>4 DEF Throw, EndOfCall, PipelineInv, PipelineTypeOK
  <2> QED BY <1>1, <1>4, <2>1, <2>2, <2>3 DEF Throw
<1>5. CASE ReturnSuccess(c)
  <2>1. /\ n \in Nat /\ n = length[c] /\ length[c] \in 0..MaxLength
        /\ length[c] # NotYet /\ returned[c].end = NotYet
        /\ \A i \in 1..MaxLength : i < n => StepOf(c, i) = "ok"
        /\ \A i \in 1..MaxLength : i > n => StepOf(c, i) = "idle"
        /\ tasks[c] # <<>> => n \in 1..MaxLength /\ tasks[c][n] = "success"
    BY <1>5, AtTurnFacts DEF ReturnSuccess
  <2>2. n \in 1..MaxLength => StepOf(c, n) = "ok"
    BY <1>2, <2>1 DEF StepOf
  <2>3. InARow!Ended(c) = 1..n /\ InARow!Failed(c) = {}
    BY <1>2, <2>1, <2>2 DEF InARow!Ended, InARow!Failed
  <2>4. DOMAIN Row(length[c]) = 1..n
    BY <2>1, RowFacts
  <2>5. \A x \in Pipelines : EndOfCall(x)' = IF x = c THEN "completed" ELSE EndOfCall(x)
    BY <1>5 DEF ReturnSuccess, EndOfCall, PipelineInv, PipelineTypeOK, Result
  <2> QED BY <1>1, <1>5, <2>1, <2>3, <2>4, <2>5 DEF ReturnSuccess
<1> QED BY <1>3, <1>4, <1>5

LEMMA AcceptKept ==
  ASSUME PipelineInv, NEW c \in Pipelines, NEW n \in 0..MaxLength, RunPipeline(c, n)
  PROVE  InARow!Next
<1>1. n # NotYet
  BY PipelineConstants
<1>2. \A x \in Pipelines : PlanOf(x)' = IF x = c THEN Row(n) ELSE PlanOf(x)
  BY <1>1 DEF PipelineInv, PipelineTypeOK, RunPipeline, PlanOf
<1>3. InARow!Accept(c, Row(n), FALSE)
  BY <1>2 DEF InARow!Accept, RunPipeline, PlanOf, StepOf
<1> QED BY <1>3 DEF InARow!Next

\* A pipeline is a fail-fast run of a plan whose steps are in a row, for any calls of any
\* length: no step starts before the one before it has succeeded, and none after a failure.
THEOREM PipelineScheduleIsKept == PipelineSpec => PipelineKeepsSchedule
<1>1. PipelineInit => InARow!Init
  BY PipelineConstants DEF PipelineInit, InARow!Init, StepOf, Result
<1>2. PipelineInv /\ [PipelineNext]_pipelineVars => [InARow!Next]_(InARow!vars)
  <2> SUFFICES ASSUME PipelineInv, [PipelineNext]_pipelineVars PROVE [InARow!Next]_(InARow!vars)
    OBVIOUS
  <2>1. CASE UNCHANGED pipelineVars
    BY <2>1 DEF pipelineVars, InARow!vars, StepOf
  <2>2. CASE PipelineNext
    BY <2>2, AcceptKept, StartKept, EndKept, FinishKept DEF PipelineNext, Ways
  <2> QED BY <2>1, <2>2
<1> QED BY <1>1, <1>2, PipelineInvariance, PTL DEF PipelineSpec, PipelineKeepsSchedule, InARow!Spec

===============================================================================
