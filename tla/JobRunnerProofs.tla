--------------------------- MODULE JobRunnerProofs ---------------------------
(***************************************************************************)
(* Every step of JobTables, ObjectOutbox and JobRunner preserves the       *)
(* inductive invariant RunnerInv, together with the types of the variables *)
(* it speaks of. The two back ends build on these lemmas: their own steps  *)
(* are compositions of these with changes of their own variables.          *)
(*                                                                         *)
(* Nothing below uses the locks: a lock keeps two transactions apart, and  *)
(* each transaction is already one step. The one exception is the project  *)
(* lock that keeps DeleteProject away from an open cancel request.         *)
(***************************************************************************)
EXTENDS JobRunner, TLAPS

TypeInv == TablesTypeOK /\ OutboxTypeOK /\ RunnerTypeOK
Inv == TypeInv /\ RunnerInv

runnerVars == <<tables, object, cancelTx, lease, drainVars, workerVars>>

Writing == {"prepare", "recover", "produce"}

USE DEF Active, Losers, Gone, Statuses, CancelPhases, Goto, Unwind, Exceptions,
        tables, drainVars, workerVars, Drainers, DrainSteps

\* The fields of an outbox row.
LEMMA RowFields ==
    ASSUME NEW j \in Jobs
    PROVE  /\ Row(j) \in Rows /\ Row(j).job = j /\ Row(j).scoped
           /\ ProjectRow(j) \in Rows /\ ProjectRow(j).job = j /\ ~ProjectRow(j).scoped
BY DEF Row, ProjectRow, Rows

\* A stuttering step of these variables.
LEMMA FrameInv == Inv /\ UNCHANGED runnerVars => Inv'
BY DEF Inv, runnerVars, TypeInv, TablesTypeOK, OutboxTypeOK, RunnerTypeOK, RunnerInv,
       CancelInv, LeaseInv, RowInv, DrainInv, StagedInv, CleanInv, Condemned, Quiet,
       SucceededOwnsArtifact, LoserOwnsNothing, LeasedSteps, Rows

\* A worker moves on without touching anything else. What the step it moves to
\* promises about its job must hold.
LEMMA MoveInv ==
    ASSUME NEW w \in Workers, NEW step \in LeasedSteps, Inv,
           pc[w] \in LeasedSteps,
           pc' = [pc EXCEPT ![w] = step],
           raised' \in [Workers -> Exceptions],
           UNCHANGED <<tables, object, cancelTx, lease, drainVars, at>>,
           step \in Writing => pc[w] \in Writing,
           step \in {"produced", "persist"} /\ status[at[w]] \in Active => object[at[w]],
           step \in {"persisted", "decide", "success"} /\ status[at[w]] \in Active
               => object[at[w]] /\ artifact[at[w]] /\ result[at[w]],
           step = "erase" => status[at[w]] \in {"failed", "canceled", "deleted"}
    PROVE  Inv'
<1> USE DEF Inv
<1>1. TypeInv'
  BY DEF TypeInv, TablesTypeOK, OutboxTypeOK, RunnerTypeOK, LeasedSteps, Steps
<1>0. pc[w] # "idle"
  BY DEF LeasedSteps, ProducingSteps, GuardedSteps
<1>2. LeaseInv' /\ CancelInv'
  BY <1>0 DEF RunnerInv, LeaseInv, CancelInv, TypeInv, RunnerTypeOK
<1>3. \A j \in Jobs : Quiet(j) => Quiet(j)'
  BY DEF Quiet, Writing, TypeInv, RunnerTypeOK
<1>4. RowInv' /\ DrainInv'
  BY <1>3 DEF RunnerInv, RowInv, DrainInv, Condemned, Rows, TypeInv, OutboxTypeOK, TablesTypeOK
<1>5. StagedInv'
  BY DEF RunnerInv, StagedInv, TypeInv, RunnerTypeOK
<1>6. CleanInv' /\ SucceededOwnsArtifact' /\ LoserOwnsNothing'
  BY <1>3 DEF RunnerInv, CleanInv, SucceededOwnsArtifact, LoserOwnsNothing
<1> QED BY <1>1, <1>2, <1>4, <1>5, <1>6 DEF RunnerInv

-----------------------------------------------------------------------------
(* Transactions on the tables.                                             *)

\* A job loses: its worker, another process or the client ends it. If a worker
\* publishes the loss it moves on, and no other worker moves.
LEMMA LoseInv ==
    ASSUME NEW j \in Jobs, NEW terminal \in Losers, Inv,
           status[j] \notin Gone,
           EndWithoutOutput(j, terminal),
           cancelTx' \in [Jobs -> CancelPhases],
           \A k \in Jobs : cancelTx'[k] # "none" => cancelTx[k] # "none",
           UNCHANGED <<object, lease, drainVars, at, raised>>,
           pc' \in [Workers -> Steps],
           \A w \in Workers : \/ pc'[w] = pc[w]
                              \/ pc[w] \in {"cancel", "fail"} /\ pc'[w] \in {"cleanup", "release"}
    PROVE  Inv'
<1> USE DEF Inv, EndWithoutOutput
<1>1. TypeInv'
  BY RowFields DEF TypeInv, TablesTypeOK, OutboxTypeOK, RunnerTypeOK
<1>2. LeaseInv' /\ CancelInv'
  BY DEF RunnerInv, LeaseInv, CancelInv, TypeInv, TablesTypeOK, LeasedSteps
<1>3. \A k \in Jobs : Quiet(k) => Quiet(k)'
  BY DEF Quiet
<1>4. \A r \in Rows : Condemned(r) => Condemned(r)'
  BY <1>3 DEF Condemned, Rows, TypeInv, TablesTypeOK
<1>5. RowInv'
  BY <1>4, RowFields DEF RunnerInv, RowInv, Condemned, TypeInv, TablesTypeOK
<1>6. DrainInv'
  BY <1>3, <1>4 DEF RunnerInv, DrainInv, Rows
<1>7. StagedInv'
  BY DEF RunnerInv, StagedInv, LeaseInv, TypeInv, TablesTypeOK
<1>8. CleanInv'
  BY <1>3, RowFields DEF RunnerInv, CleanInv, TypeInv, TablesTypeOK
<1>9. SucceededOwnsArtifact' /\ LoserOwnsNothing'
  BY DEF RunnerInv, SucceededOwnsArtifact, LoserOwnsNothing, TypeInv, TablesTypeOK
<1> QED BY <1>1, <1>2, <1>5, <1>6, <1>7, <1>8, <1>9 DEF RunnerInv

LEMMA FailPersistedInv ==
    ASSUME NEW j \in Jobs, Inv, FailPersistedJob(j),
           UNCHANGED <<object, cancelTx, lease, drainVars, workerVars>>
    PROVE  Inv'
<1>1. CASE status[j] \in Active
  BY <1>1, LoseInv DEF FailPersistedJob, Inv, TypeInv, TablesTypeOK, RunnerTypeOK
<1>2. CASE status[j] \notin Active
  BY <1>2, FrameInv DEF FailPersistedJob, runnerVars
<1> QED BY <1>1, <1>2

LEMMA InsertInv ==
    ASSUME NEW j \in Jobs, Inv, InsertJob(j),
           UNCHANGED <<lease, drainVars, workerVars>>
    PROVE  Inv'
<1> USE DEF Inv, InsertJob
<1>1. TypeInv'
  BY DEF TypeInv, TablesTypeOK, OutboxTypeOK, RunnerTypeOK
<1>2. LeaseInv' /\ CancelInv' /\ StagedInv'
  BY DEF RunnerInv, LeaseInv, CancelInv, StagedInv, TypeInv, TablesTypeOK, RunnerTypeOK,
         LeasedSteps, ProducingSteps, GuardedSteps
<1>3. RowInv' /\ DrainInv'
  BY DEF RunnerInv, RowInv, DrainInv, Condemned, Quiet, Rows, TypeInv, TablesTypeOK, OutboxTypeOK
<1>4. CleanInv' /\ SucceededOwnsArtifact' /\ LoserOwnsNothing'
  BY DEF RunnerInv, CleanInv, Quiet, SucceededOwnsArtifact, LoserOwnsNothing, TypeInv, TablesTypeOK
<1> QED BY <1>1, <1>2, <1>3, <1>4 DEF RunnerInv

LEMMA DeleteProjectInv ==
    ASSUME NEW j \in Jobs, Inv, DeleteProject(j),
           UNCHANGED <<lease, drainVars, workerVars>>
    PROVE  Inv'
<1> USE DEF Inv, DeleteProject
<1>1. TypeInv'
  BY RowFields DEF TypeInv, TablesTypeOK, OutboxTypeOK, RunnerTypeOK
<1>2. LeaseInv' /\ CancelInv' /\ StagedInv'
  BY DEF RunnerInv, LeaseInv, CancelInv, StagedInv, ProjectFree, TypeInv, TablesTypeOK
<1>3. \A k \in Jobs : Quiet(k) => Quiet(k)'
  BY DEF Quiet
<1>4. \A r \in Rows : Condemned(r) => Condemned(r)'
  BY <1>3 DEF Condemned, Rows, TypeInv, TablesTypeOK
<1>5. artifact[j] => Condemned(ProjectRow(j))'
  BY <1>3, RowFields DEF Condemned, RunnerInv, CleanInv, LoserOwnsNothing, TypeInv, TablesTypeOK
<1>6. RowInv' /\ DrainInv'
  BY <1>3, <1>4, <1>5 DEF RunnerInv, RowInv, DrainInv, Rows, TypeInv, TablesTypeOK
<1>7. CleanInv'
  BY <1>3, RowFields DEF RunnerInv, CleanInv, SucceededOwnsArtifact, TypeInv, TablesTypeOK
<1>8. SucceededOwnsArtifact' /\ LoserOwnsNothing'
  BY DEF RunnerInv, SucceededOwnsArtifact, LoserOwnsNothing, TypeInv, TablesTypeOK
<1> QED BY <1>1, <1>2, <1>6, <1>7, <1>8 DEF RunnerInv

\* The steps of a cancel request before its commit, and its rollback.
LEMMA CancelTxInv ==
    ASSUME Inv, cancelTx' \in [Jobs -> CancelPhases],
           \A j \in Jobs : cancelTx'[j] # "none" => status[j] \notin Gone,
           UNCHANGED <<tables, object, lease, drainVars, workerVars>>
    PROVE  Inv'
BY DEF Inv, TypeInv, TablesTypeOK, OutboxTypeOK, RunnerTypeOK, RunnerInv,
       CancelInv, LeaseInv, RowInv, DrainInv, StagedInv, CleanInv, Condemned, Quiet,
       SucceededOwnsArtifact, LoserOwnsNothing, LeasedSteps, Rows

LEMMA CancelStepInv ==
    ASSUME NEW j \in Jobs, Inv, UNCHANGED <<lease, drainVars, workerVars>>,
           BeginCancel(j) \/ (\E p \in CancelPhases \ {"none"} : MarkCanceled(j, p))
           \/ AbortCancel(j) \/ CommitCancel(j)
    PROVE  Inv'
<1>1. CASE BeginCancel(j)
  BY <1>1, CancelTxInv DEF BeginCancel, Inv, TypeInv, TablesTypeOK, RunnerInv, CancelInv
<1>2. CASE \E p \in CancelPhases \ {"none"} : MarkCanceled(j, p)
  BY <1>2, CancelTxInv DEF MarkCanceled, Inv, TypeInv, TablesTypeOK, RunnerInv, CancelInv
<1>3. CASE AbortCancel(j)
  BY <1>3, CancelTxInv DEF AbortCancel, Inv, TypeInv, TablesTypeOK, RunnerInv, CancelInv
<1>4. CASE CommitCancel(j)
  BY <1>4, LoseInv DEF CommitCancel, Inv, TypeInv, TablesTypeOK, RunnerTypeOK, RunnerInv, CancelInv
<1> QED BY <1>1, <1>2, <1>3, <1>4
-----------------------------------------------------------------------------
(* The worker's steps.                                                     *)

LEMMA AcquireLeaseInv ==
    ASSUME NEW w \in Workers, NEW next \in {"load", "claim"}, Inv, AcquireLease(w, next)
    PROVE  Inv'
<1> USE DEF Inv, AcquireLease
<1>0. /\ at[w] \in Jobs /\ w # NoWorker
      /\ \A v \in Workers : pc[v] \in LeasedSteps => v # w /\ lease[at[v]] = v
  BY ActorAssumption DEF RunnerInv, LeaseInv, LeasedSteps, ProducingSteps, GuardedSteps
<1>1. TypeInv'
  BY <1>0 DEF TypeInv, TablesTypeOK, OutboxTypeOK, RunnerTypeOK, LeasedSteps, GuardedSteps, Steps
<1>2. LeaseInv' /\ CancelInv' /\ StagedInv'
  BY <1>0, ActorAssumption DEF RunnerInv, LeaseInv, CancelInv, StagedInv, TypeInv, OutboxTypeOK, RunnerTypeOK
<1>3. \A j \in Jobs : Quiet(j) => Quiet(j)'
  BY DEF Quiet, TypeInv, RunnerTypeOK
<1>4. RowInv' /\ DrainInv'
  BY <1>3 DEF RunnerInv, RowInv, DrainInv, Condemned, Rows, TypeInv, OutboxTypeOK, TablesTypeOK
<1>5. CleanInv' /\ SucceededOwnsArtifact' /\ LoserOwnsNothing'
  BY <1>3 DEF RunnerInv, CleanInv, SucceededOwnsArtifact, LoserOwnsNothing
<1> QED BY <1>1, <1>2, <1>4, <1>5 DEF RunnerInv

\* A claim starts a writer, but only for an active job, which no row condemns.
LEMMA ClaimInv == ASSUME NEW w \in Workers, Inv, Claim(w) PROVE Inv'
<1> USE DEF Inv, Claim, ClaimJob
<1>0. at[w] \in Jobs
  BY DEF RunnerInv, LeaseInv
<1>1. TypeInv'
  BY <1>0 DEF TypeInv, TablesTypeOK, OutboxTypeOK, RunnerTypeOK, LeasedSteps, GuardedSteps, Steps
<1>2. LeaseInv' /\ CancelInv' /\ StagedInv'
  BY <1>0 DEF RunnerInv, LeaseInv, CancelInv, StagedInv, TypeInv, TablesTypeOK, RunnerTypeOK,
              LeasedSteps, GuardedSteps
<1>3. \A j \in Jobs : Quiet(j) /\ status[j] \notin Active => Quiet(j)'
  BY DEF Quiet, TypeInv, RunnerTypeOK
<1>4. \A r \in Rows : Condemned(r) => Condemned(r)'
  BY <1>0, <1>3 DEF Condemned, Rows, TypeInv, TablesTypeOK
<1>5. RowInv' /\ DrainInv'
  BY <1>3, <1>4 DEF RunnerInv, RowInv, DrainInv, Condemned, Rows, TypeInv, TablesTypeOK
<1>6. CleanInv' /\ SucceededOwnsArtifact' /\ LoserOwnsNothing'
  BY <1>0, <1>3 DEF RunnerInv, CleanInv, SucceededOwnsArtifact, LoserOwnsNothing, TypeInv, TablesTypeOK
<1> QED BY <1>1, <1>2, <1>5, <1>6 DEF RunnerInv

LEMMA PrepareInv == ASSUME NEW w \in Workers, NEW cancelled, Inv, Prepare(w, cancelled) PROVE Inv'
<1>1. \E step \in {"cancel", "fail", "recover"} : pc' = [pc EXCEPT ![w] = step]
  BY DEF Prepare
<1>2. raised' \in [Workers -> Exceptions]
  BY DEF Prepare, Inv, TypeInv, RunnerTypeOK
<1> QED BY <1>1, <1>2, MoveInv DEF Prepare, Writing, LeasedSteps, GuardedSteps

\* A retry that skips production finds everything a finished producer leaves.
LEMMA RecoverInv == ASSUME NEW w \in Workers, Inv, Recover(w) PROVE Inv'
<1>1. \E step \in {"fail", "decide", "produce"} :
        /\ pc' = [pc EXCEPT ![w] = step]
        /\ step = "decide" => object[at[w]] /\ artifact[at[w]] /\ result[at[w]]
  BY DEF Recover
<1>2. raised' \in [Workers -> Exceptions]
  BY DEF Recover, Inv, TypeInv, RunnerTypeOK
<1> QED BY <1>1, <1>2, MoveInv DEF Recover, Writing, LeasedSteps, GuardedSteps, ProducingSteps

\* The only step that creates an object. If its job has lost meanwhile, the
\* worker was a writer, so CleanInv already gave the job its outbox row.
LEMMA ProduceInv == ASSUME NEW w \in Workers, Inv, Produce(w) PROVE Inv'
<1> USE DEF Inv, Produce
<1>0. at[w] \in Jobs
  BY DEF RunnerInv, LeaseInv
<1>1. TypeInv'
  BY <1>0 DEF TypeInv, TablesTypeOK, OutboxTypeOK, RunnerTypeOK, LeasedSteps, ProducingSteps, Steps
<1>2. LeaseInv' /\ CancelInv' /\ StagedInv'
  BY <1>0 DEF RunnerInv, LeaseInv, CancelInv, StagedInv, TypeInv, TablesTypeOK, RunnerTypeOK,
              LeasedSteps, ProducingSteps
<1>3. \A j \in Jobs : Quiet(j) => Quiet(j)' /\ j # at[w]
  BY DEF Quiet, TypeInv, RunnerTypeOK
<1>4. RowInv' /\ DrainInv'
  BY <1>0, <1>3 DEF RunnerInv, RowInv, DrainInv, Condemned, Rows, TypeInv, TablesTypeOK, OutboxTypeOK
<1>5. CleanInv' /\ SucceededOwnsArtifact' /\ LoserOwnsNothing'
  BY <1>0, <1>3 DEF RunnerInv, CleanInv, SucceededOwnsArtifact, LoserOwnsNothing, TypeInv, TablesTypeOK
<1> QED BY <1>1, <1>2, <1>4, <1>5 DEF RunnerInv

LEMMA CheckProducedInv ==
    ASSUME NEW w \in Workers, NEW cancelled, Inv, CheckProduced(w, cancelled) PROVE Inv'
<1>1. \E step \in {"rollback", "persist"} : pc' = [pc EXCEPT ![w] = step]
  BY DEF CheckProduced
<1>2. raised' \in [Workers -> Exceptions]
  BY DEF CheckProduced, Inv, TypeInv, RunnerTypeOK
<1>3. status[at[w]] \in Active => object[at[w]]
  BY DEF CheckProduced, Inv, RunnerInv, StagedInv
<1> QED BY <1>1, <1>2, <1>3, MoveInv DEF CheckProduced, Writing, LeasedSteps, ProducingSteps, GuardedSteps

LEMMA PersistInv == ASSUME NEW w \in Workers, Inv, Persist(w) PROVE Inv'
<1> USE DEF Inv, Persist, PersistJobArtifact
<1>0. at[w] \in Jobs
  BY DEF RunnerInv, LeaseInv
<1>a. CASE ~Persistable(at[w])
  <2>1. raised' \in [Workers -> Exceptions]
    BY <1>a DEF TypeInv, RunnerTypeOK
  <2> QED BY <1>a, <2>1, MoveInv DEF Writing, LeasedSteps, ProducingSteps, GuardedSteps
<1>b. CASE Persistable(at[w])
  <2> USE <1>b DEF Persistable
  <2>0. "persisted" \in Steps
    BY DEF Steps, LeasedSteps, ProducingSteps
  <2>1. TypeInv'
    <3>1. TablesTypeOK' /\ OutboxTypeOK'
      BY <1>0 DEF TypeInv, TablesTypeOK, OutboxTypeOK
    <3>2. RunnerTypeOK'
      BY <2>0 DEF TypeInv, RunnerTypeOK
    <3> QED BY <3>1, <3>2 DEF TypeInv
  <2>2. LeaseInv' /\ CancelInv'
    BY <1>0 DEF RunnerInv, LeaseInv, CancelInv, TypeInv, TablesTypeOK, RunnerTypeOK,
                LeasedSteps, ProducingSteps
  <2>3. StagedInv'
    BY <1>0 DEF RunnerInv, StagedInv, LeaseInv, TypeInv, TablesTypeOK, RunnerTypeOK
  <2>4. \A j \in Jobs : Quiet(j) => Quiet(j)'
    BY DEF Quiet, TypeInv, RunnerTypeOK
  <2>5. RowInv' /\ DrainInv'
    BY <2>4 DEF RunnerInv, RowInv, DrainInv, Condemned, Rows, TypeInv, TablesTypeOK, OutboxTypeOK
  <2>6. CleanInv' /\ SucceededOwnsArtifact' /\ LoserOwnsNothing'
    BY <1>0, <2>4 DEF RunnerInv, CleanInv, SucceededOwnsArtifact, LoserOwnsNothing, TypeInv, TablesTypeOK
  <2> QED BY <2>1, <2>2, <2>3, <2>5, <2>6 DEF RunnerInv
<1> QED BY <1>a, <1>b

LEMMA CheckPersistedInv ==
    ASSUME NEW w \in Workers, NEW cancelled, Inv, CheckPersisted(w, cancelled) PROVE Inv'
<1>1. \E step \in {"rollback", "decide"} : pc' = [pc EXCEPT ![w] = step]
  BY DEF CheckPersisted
<1>2. raised' \in [Workers -> Exceptions]
  BY DEF CheckPersisted, Inv, TypeInv, RunnerTypeOK
<1>3. status[at[w]] \in Active => object[at[w]] /\ artifact[at[w]] /\ result[at[w]]
  BY DEF CheckPersisted, Inv, RunnerInv, StagedInv
<1> QED BY <1>1, <1>2, <1>3, MoveInv
        DEF CheckPersisted, Writing, LeasedSteps, ProducingSteps, GuardedSteps

LEMMA DecideInv == ASSUME NEW w \in Workers, NEW cancelled, Inv, Decide(w, cancelled) PROVE Inv'
<1>1. \E step \in {"cancel", "success"} : pc' = [pc EXCEPT ![w] = step]
  BY DEF Decide
<1>2. raised' \in [Workers -> Exceptions]
  BY DEF Decide, Inv, TypeInv, RunnerTypeOK
<1>3. status[at[w]] \in Active => object[at[w]] /\ artifact[at[w]] /\ result[at[w]]
  BY DEF Decide, Inv, RunnerInv, StagedInv
<1> QED BY <1>1, <1>2, <1>3, MoveInv DEF Decide, Writing, LeasedSteps, GuardedSteps

LEMMA PublishSuccessInv == ASSUME NEW w \in Workers, Inv, PublishSuccess(w) PROVE Inv'
<1> USE DEF Inv, PublishSuccess, PublishSucceededJob
<1>0. /\ at[w] \in Jobs
      /\ \A v \in Workers : v # w /\ at[v] = at[w] => pc[v] \notin LeasedSteps
      /\ pc[w] \in LeasedSteps
  BY DEF RunnerInv, LeaseInv, LeasedSteps, GuardedSteps
<1>a. CASE status[at[w]] \notin Active
  <2>1. raised' \in [Workers -> Exceptions]
    BY DEF TypeInv, RunnerTypeOK
  <2> QED BY <1>a, <1>0, <2>1, MoveInv DEF Writing, LeasedSteps, GuardedSteps
<1>b. CASE status[at[w]] \in Active
  <2>0. /\ status' = [status EXCEPT ![at[w]] = "succeeded"]
        /\ result' = [result EXCEPT ![at[w]] = TRUE]
        /\ pc' = [pc EXCEPT ![w] = "release"]
        /\ object[at[w]] /\ artifact[at[w]]
        /\ "release" \in Steps
    BY <1>b DEF RunnerInv, StagedInv, Steps, LeasedSteps
  <2>1. TypeInv'
    BY <1>0, <2>0 DEF TypeInv, TablesTypeOK, OutboxTypeOK, RunnerTypeOK
  <2>2. LeaseInv' /\ CancelInv'
    BY <1>0, <2>0 DEF RunnerInv, LeaseInv, CancelInv, TypeInv, TablesTypeOK, RunnerTypeOK
  <2>3. StagedInv'
    BY <1>0, <1>b, <2>0 DEF RunnerInv, StagedInv, TypeInv, TablesTypeOK, RunnerTypeOK
  <2>4. \A j \in Jobs : Quiet(j) => Quiet(j)'
    BY <2>0 DEF Quiet, TypeInv, RunnerTypeOK
  <2>5. Quiet(at[w])'
    BY <1>0, <2>0 DEF Quiet, TypeInv, RunnerTypeOK, LeasedSteps, GuardedSteps, ProducingSteps
  <2>6. \A r \in Rows : Condemned(r) => Condemned(r)'
    BY <1>b, <2>0, <2>4 DEF Condemned, Rows, TypeInv, TablesTypeOK
  <2>7. RowInv' /\ DrainInv'
    BY <2>4, <2>6 DEF RunnerInv, RowInv, DrainInv, Rows, TypeInv, TablesTypeOK
  <2>8. CleanInv' /\ SucceededOwnsArtifact' /\ LoserOwnsNothing'
    BY <1>0, <2>0, <2>4, <2>5 DEF RunnerInv, CleanInv, SucceededOwnsArtifact, LoserOwnsNothing,
                                  TypeInv, TablesTypeOK
  <2> QED BY <2>1, <2>2, <2>3, <2>7, <2>8 DEF RunnerInv
<1> QED BY <1>a, <1>b

LEMMA PublishCanceledInv == ASSUME NEW w \in Workers, Inv, PublishCanceled(w) PROVE Inv'
<1> USE DEF Inv, PublishCanceled, PublishCanceledJob
<1>0. /\ at[w] \in Jobs
      /\ \E step \in {"cleanup", "release"} : pc' = [pc EXCEPT ![w] = step]
      /\ {"cleanup", "release", "cancel"} \subseteq LeasedSteps /\ LeasedSteps \subseteq Steps
  BY DEF RunnerInv, LeaseInv, LeasedSteps, Steps, GuardedSteps
<1>a. CASE status[at[w]] \in Active
  <2>1. pc' \in [Workers -> Steps]
    BY <1>0 DEF TypeInv, RunnerTypeOK
  <2>2. \A v \in Workers : \/ pc'[v] = pc[v]
                           \/ pc[v] \in {"cancel", "fail"} /\ pc'[v] \in {"cleanup", "release"}
    BY <1>0 DEF TypeInv, RunnerTypeOK
  <2>3. cancelTx' = cancelTx /\ cancelTx \in [Jobs -> CancelPhases]
    BY DEF TypeInv, TablesTypeOK
  <2> QED BY <1>a, <1>0, <2>1, <2>2, <2>3, LoseInv
<1>b. CASE status[at[w]] \notin Active
  <2>1. raised' \in [Workers -> Exceptions]
    BY DEF TypeInv, RunnerTypeOK
  <2> QED BY <1>b, <1>0, <2>1, MoveInv DEF Writing
<1> QED BY <1>a, <1>b

LEMMA PublishFailureInv == ASSUME NEW w \in Workers, Inv, PublishFailure(w) PROVE Inv'
<1> USE DEF Inv, PublishFailure, FailPersistedJob
<1>0. /\ at[w] \in Jobs
      /\ {"fail", "release"} \subseteq LeasedSteps /\ LeasedSteps \subseteq Steps
  BY DEF RunnerInv, LeaseInv, LeasedSteps, Steps
<1>a. CASE status[at[w]] \in Active
  <2>1. pc' \in [Workers -> Steps]
    BY <1>0 DEF TypeInv, RunnerTypeOK
  <2>2. \A v \in Workers : \/ pc'[v] = pc[v]
                           \/ pc[v] \in {"cancel", "fail"} /\ pc'[v] \in {"cleanup", "release"}
    BY <1>0 DEF TypeInv, RunnerTypeOK
  <2>3. cancelTx' = cancelTx /\ cancelTx \in [Jobs -> CancelPhases]
    BY DEF TypeInv, TablesTypeOK
  <2> QED BY <1>a, <1>0, <2>1, <2>2, <2>3, LoseInv
<1>b. CASE status[at[w]] \notin Active
  <2>1. raised' \in [Workers -> Exceptions]
    BY DEF TypeInv, RunnerTypeOK
  <2> QED BY <1>b, <1>0, <2>1, MoveInv DEF Writing
<1> QED BY <1>a, <1>b

\* By LoserOwnsNothing there is never anything left to clean up.
LEMMA CleanupResultInv == ASSUME NEW w \in Workers, Inv, CleanupResult(w) PROVE Inv'
<1> USE DEF Inv, CleanupResult, CleanupJobResult
<1>1. at[w] \in Jobs /\ {"cleanup", "release"} \subseteq LeasedSteps
  BY DEF RunnerInv, LeaseInv, LeasedSteps, GuardedSteps
<1>2. UNCHANGED tables
  BY <1>1 DEF RunnerInv, LoserOwnsNothing, TypeInv, TablesTypeOK
<1>3. raised' \in [Workers -> Exceptions]
  BY DEF TypeInv, RunnerTypeOK
<1> QED BY <1>1, <1>2, <1>3, MoveInv DEF Writing

LEMMA BodyErrorInv == ASSUME NEW w \in Workers, Inv, BodyError(w) PROVE Inv'
<1>1. \E step \in {"rollback", "fail"} : pc' = [pc EXCEPT ![w] = step]
  BY DEF BodyError
<1>2. raised' \in [Workers -> Exceptions]
  BY DEF BodyError, Inv, TypeInv, RunnerTypeOK
<1> QED BY <1>1, <1>2, MoveInv DEF BodyError, Writing, LeasedSteps, GuardedSteps

LEMMA RollbackInv == ASSUME NEW w \in Workers, Inv, Rollback(w) PROVE Inv'
<1> USE DEF Inv
<1>1. /\ at[w] \in Jobs /\ status[at[w]] # "absent" /\ pc[w] \in LeasedSteps
      /\ {"rollback", "erase", "cancel", "fail"} \subseteq LeasedSteps
  BY DEF Rollback, RunnerInv, LeaseInv, LeasedSteps, GuardedSteps
<1>2. UNCHANGED tables
  <2>1. status[at[w]] \notin Active \cup {"succeeded"} => status[at[w]] \in Losers \cup Gone
    BY <1>1 DEF TypeInv, TablesTypeOK
  <2>2. status[at[w]] \in Losers \cup Gone => ~artifact[at[w]] /\ ~result[at[w]]
    BY <1>1 DEF RunnerInv, LoserOwnsNothing
  <2>3. CASE status[at[w]] \in Active \cup {"succeeded"}
    BY <2>3 DEF Rollback, RollbackJobArtifact, RollbackApplies
  <2>4. CASE status[at[w]] \notin Active \cup {"succeeded"}
    <3>1. artifact[at[w]] = FALSE /\ result[at[w]] = FALSE
      BY <1>1, <2>1, <2>2, <2>4 DEF TypeInv, TablesTypeOK
    <3>2. /\ artifact' = [artifact EXCEPT ![at[w]] = FALSE]
          /\ result' = [result EXCEPT ![at[w]] = FALSE]
          /\ UNCHANGED <<status, outbox>>
      BY <2>4 DEF Rollback, RollbackJobArtifact, RollbackApplies
    <3>3. artifact \in [Jobs -> BOOLEAN] /\ result \in [Jobs -> BOOLEAN]
      BY DEF TypeInv, TablesTypeOK
    <3> QED BY <3>1, <3>2, <3>3
  <2> QED BY <2>3, <2>4
<1>3. raised' \in [Workers -> Exceptions]
  BY DEF Rollback, TypeInv, RunnerTypeOK
<1>4. \E step \in {"erase", "cancel", "fail"} :
        /\ pc' = [pc EXCEPT ![w] = step]
        /\ step = "erase" => status[at[w]] \in {"failed", "canceled", "deleted"}
  BY <1>1 DEF Rollback, RollbackApplies, AfterRollback, TypeInv, TablesTypeOK
<1> QED BY <1>1, <1>2, <1>3, <1>4, MoveInv DEF Rollback, Writing

LEMMA EraseProducedInv == ASSUME NEW w \in Workers, Inv, EraseProduced(w) PROVE Inv'
<1> USE DEF Inv, EraseProduced, AfterRollback
<1>0. /\ at[w] \in Jobs
      /\ status[at[w]] \in Losers \cup {"deleted"}
      /\ \E step \in {"cancel", "fail"} : pc' = [pc EXCEPT ![w] = step]
      /\ {"erase", "cancel", "fail"} \subseteq LeasedSteps /\ LeasedSteps \subseteq Steps
  BY DEF RunnerInv, LeaseInv, StagedInv, LeasedSteps, Steps
<1>1. TypeInv'
  BY <1>0 DEF TypeInv, TablesTypeOK, OutboxTypeOK, RunnerTypeOK
<1>2. LeaseInv' /\ CancelInv'
  BY <1>0 DEF RunnerInv, LeaseInv, CancelInv, TypeInv, RunnerTypeOK
<1>3. StagedInv'
  BY <1>0 DEF RunnerInv, StagedInv, TypeInv, TablesTypeOK, RunnerTypeOK
<1>4. \A j \in Jobs : Quiet(j) => Quiet(j)'
  BY <1>0 DEF Quiet, TypeInv, RunnerTypeOK
<1>5. RowInv' /\ DrainInv'
  BY <1>0, <1>4 DEF RunnerInv, RowInv, DrainInv, Condemned, Rows, TypeInv, TablesTypeOK
<1>6. CleanInv' /\ SucceededOwnsArtifact' /\ LoserOwnsNothing'
  BY <1>0, <1>4 DEF RunnerInv, CleanInv, SucceededOwnsArtifact, LoserOwnsNothing, TypeInv, TablesTypeOK
<1> QED BY <1>1, <1>2, <1>3, <1>5, <1>6 DEF RunnerInv

LEMMA EraseFailsInv == ASSUME NEW w \in Workers, Inv, EraseFails(w) PROVE Inv'
<1>1. raised' \in [Workers -> Exceptions]
  BY DEF EraseFails, Inv, TypeInv, RunnerTypeOK
<1> QED BY <1>1, MoveInv DEF EraseFails, Writing, LeasedSteps

-----------------------------------------------------------------------------
(* The lease goes, and the drains.                                         *)

LEMMA ReleaseInv == ASSUME NEW w \in Workers, Inv, Release(w) PROVE Inv'
<1> USE DEF Inv
<1>0. at[w] \in Jobs /\ pc[w] = "release" /\ lease[at[w]] = w
      /\ "released" \in Steps /\ "released" \notin LeasedSteps
  BY DEF Release, RunnerInv, LeaseInv, LeasedSteps, ProducingSteps, GuardedSteps, Steps
<1>1. TypeInv'
  BY <1>0 DEF Release, TypeInv, TablesTypeOK, OutboxTypeOK, RunnerTypeOK
<1>2. LeaseInv' /\ CancelInv'
  BY <1>0 DEF Release, RunnerInv, LeaseInv, CancelInv, TypeInv, RunnerTypeOK, OutboxTypeOK
<1>3. StagedInv'
  BY <1>0 DEF Release, RunnerInv, StagedInv, TypeInv, RunnerTypeOK
<1>4. \A j \in Jobs : Quiet(j) => Quiet(j)'
  BY <1>0 DEF Release, Quiet, TypeInv, RunnerTypeOK
<1>5. RowInv' /\ DrainInv'
  BY <1>4 DEF Release, RunnerInv, RowInv, DrainInv, Condemned, Rows, TypeInv, OutboxTypeOK, TablesTypeOK
<1>6. CleanInv' /\ SucceededOwnsArtifact' /\ LoserOwnsNothing'
  BY <1>4 DEF Release, RunnerInv, CleanInv, SucceededOwnsArtifact, LoserOwnsNothing
<1> QED BY <1>1, <1>2, <1>3, <1>5, <1>6 DEF RunnerInv

\* Drains move, workers leave or stop, cancel requests end: the tables and the
\* objects stay as they are, and no worker gets a job or a lease.
LEMMA DrainMoveInv ==
    ASSUME Inv, UNCHANGED <<tables, object>>, raised' \in [Workers -> Exceptions],
           pc' \in [Workers -> Steps], at' \in [Workers -> Jobs \cup {NoJob}],
           lease' \in [Jobs -> Workers \cup {NoWorker}],
           cancelTx' \in [Jobs -> CancelPhases],
           drain' \in [Drainers -> DrainSteps],
           todo' \in [Drainers -> SUBSET Rows],
           current' \in [Drainers -> Rows \cup {NoRow}],
           \A w \in Workers : \/ pc'[w] = "idle"
                              \/ /\ pc[w] \in {"lease", "released"} /\ at'[w] = at[w]
                                 /\ pc'[w] \in {"released", "drain"}
                              \/ /\ pc'[w] = pc[w] /\ at'[w] = at[w]
                                 /\ \A j \in Jobs : lease[j] = w => lease'[j] = w,
           \A j \in Jobs : cancelTx'[j] # "none" => cancelTx[j] # "none",
           \A d \in Drainers, r \in Rows : r \in todo'[d] => Condemned(r),
           \A d \in Drainers :
               drain'[d] \in {"confirm", "erase", "ack"} =>
                   /\ current'[d] \in Rows /\ Condemned(current'[d])
                   /\ Quiet(current'[d].job)
                   /\ drain'[d] = "ack" => ~object[current'[d].job]
    PROVE  Inv'
<1> USE DEF Inv
<1>1. TypeInv'
  BY DEF TypeInv, TablesTypeOK, OutboxTypeOK, RunnerTypeOK
<1>2. \A w \in Workers : \/ pc'[w] \notin LeasedSteps /\ pc'[w] \in {"idle", "released", "drain"}
                         \/ /\ pc'[w] = pc[w] /\ at'[w] = at[w]
                            /\ \A j \in Jobs : lease[j] = w => lease'[j] = w
  BY DEF LeasedSteps, ProducingSteps, GuardedSteps
<1>3. LeaseInv' /\ CancelInv'
  <2>1. \A w \in Workers : pc'[w] # "idle" => at'[w] = at[w] /\ pc[w] # "idle"
    OBVIOUS
  <2>2. \A w \in Workers : pc'[w] # "idle" => at'[w] \in Jobs /\ status[at'[w]] # "absent"
    BY <2>1 DEF RunnerInv, LeaseInv
  <2>3. \A w \in Workers : pc'[w] \in LeasedSteps => lease'[at'[w]] = w
    <3>1. "idle" \notin LeasedSteps
      BY DEF LeasedSteps, ProducingSteps, GuardedSteps
    <3> QED BY <1>2, <2>1, <3>1 DEF RunnerInv, LeaseInv
  <2> QED BY <2>2, <2>3 DEF RunnerInv, LeaseInv, CancelInv
<1>4. StagedInv'
  BY <1>2 DEF RunnerInv, StagedInv
<1>5. \A j \in Jobs : Quiet(j) => Quiet(j)'
  BY <1>2 DEF Quiet
<1>6. \A r \in Rows : Condemned(r) => Condemned(r)'
  BY <1>5 DEF Condemned, Rows
<1>7. RowInv' /\ DrainInv'
  BY <1>5, <1>6 DEF RunnerInv, RowInv, DrainInv, Rows, TypeInv, TablesTypeOK
<1>8. CleanInv' /\ SucceededOwnsArtifact' /\ LoserOwnsNothing'
  BY <1>5 DEF RunnerInv, CleanInv, SucceededOwnsArtifact, LoserOwnsNothing
<1> QED BY <1>1, <1>3, <1>4, <1>7, <1>8 DEF RunnerInv

\* What the hypotheses of DrainMoveInv say of a drain that nothing disturbs.
LEMMA DrainFacts ==
    ASSUME Inv
    PROVE  /\ drain \in [Drainers -> DrainSteps]
           /\ todo \in [Drainers -> SUBSET Rows]
           /\ current \in [Drainers -> Rows \cup {NoRow}]
           /\ pc \in [Workers -> Steps] /\ at \in [Workers -> Jobs \cup {NoJob}]
           /\ raised \in [Workers -> Exceptions]
           /\ lease \in [Jobs -> Workers \cup {NoWorker}]
           /\ cancelTx \in [Jobs -> CancelPhases]
           /\ outbox \subseteq Rows
           /\ \A r \in outbox : Condemned(r)
           /\ \A d \in Drainers, r \in Rows : r \in todo[d] => Condemned(r)
           /\ \A d \in Drainers :
                drain[d] \in {"confirm", "erase", "ack"} =>
                    /\ current[d] \in Rows /\ Condemned(current[d])
                    /\ Quiet(current[d].job)
                    /\ drain[d] = "ack" => ~object[current[d].job]
BY DEF Inv, TypeInv, TablesTypeOK, OutboxTypeOK, RunnerTypeOK, RunnerInv, RowInv, DrainInv

LEMMA SelectRowsInv ==
    ASSUME NEW d \in Drainers, NEW scope, Inv, SelectRows(d, scope), UNCHANGED workerVars
    PROVE  Inv'
BY DrainFacts, DrainMoveInv DEF SelectRows, Snapshot

LEMMA DrainOwnRowsInv == ASSUME NEW w \in Workers, Inv, DrainOwnRows(w) PROVE Inv'
<1>1. w \in Drainers /\ "drain" \in Steps
  BY DEF Steps
<1> QED BY <1>1, DrainFacts, DrainMoveInv DEF DrainOwnRows, SelectRows, Snapshot

\* Crossing the barrier. The row's job has lost, so no later delivery will
\* write its object, and its lease is free, so no worker is about to.
LEMMA CrossBarrierInv ==
    ASSUME NEW d \in Drainers, NEW r \in Rows, Inv, CrossBarrier(d, r), UNCHANGED workerVars
    PROVE  Inv'
<1>1. Condemned(r) /\ r.job \in Jobs
  BY DrainFacts DEF CrossBarrier, Rows
<1>2. CASE r.scoped /\ lease[r.job] # NoWorker
  BY <1>2, DrainFacts, DrainMoveInv DEF CrossBarrier
<1>3. CASE ~(r.scoped /\ lease[r.job] # NoWorker)
  <2>1. Quiet(r.job)
    <3>1. CASE ~r.scoped
      BY <1>1, <3>1 DEF Condemned
    <3>2. CASE lease[r.job] = NoWorker
      BY <1>1, <3>2, ActorAssumption
      DEF Quiet, Inv, RunnerInv, LeaseInv, LeasedSteps, ProducingSteps, GuardedSteps
    <3> QED BY <1>3, <3>1, <3>2
  <2> QED BY <1>1, <1>3, <2>1, DrainFacts, DrainMoveInv DEF CrossBarrier
<1> QED BY <1>2, <1>3

LEMMA ConfirmRowInv ==
    ASSUME NEW d \in Drainers, Inv, ConfirmRow(d), UNCHANGED workerVars
    PROVE  Inv'
<1>1. CASE current[d] \in outbox /\ Drainable(current[d])
  BY <1>1, DrainFacts, DrainMoveInv DEF ConfirmRow
<1>2. CASE ~(current[d] \in outbox /\ Drainable(current[d]))
  BY <1>2, DrainFacts, DrainMoveInv DEF ConfirmRow
<1> QED BY <1>1, <1>2

LEMMA EraseDeferredInv ==
    ASSUME NEW d \in Drainers, Inv, EraseDeferred(d), UNCHANGED workerVars
    PROVE  Inv'
BY DrainFacts, DrainMoveInv DEF EraseDeferred

LEMMA DrainFailsInv ==
    ASSUME NEW d \in Drainers, Inv, DrainFails(d), UNCHANGED workerVars
    PROVE  Inv'
BY DrainFacts, DrainMoveInv DEF DrainFails

LEMMA EndDrainInv ==
    ASSUME NEW d \in Drainers, Inv, EndDrain(d), UNCHANGED workerVars
    PROVE  Inv'
BY DrainFacts, DrainMoveInv DEF EndDrain

\* The object of a condemned and quiet job is nobody's any more.
LEMMA EraseObjectInv ==
    ASSUME NEW d \in Drainers, Inv, EraseObject(d), UNCHANGED workerVars
    PROVE  Inv'
<1> USE DEF Inv
<1> DEFINE j == current[d].job
<1>0. /\ drain[d] = "erase" /\ current[d] \in Rows /\ j \in Jobs
      /\ Condemned(current[d]) /\ Quiet(j)
      /\ status[j] \in Losers \cup {"deleted"}
  BY DrainFacts DEF EraseObject, Condemned, Rows
<1>1. /\ object' = [object EXCEPT ![j] = FALSE]
      /\ drain' = [drain EXCEPT ![d] = "ack"]
      /\ UNCHANGED <<tables, cancelTx, lease, todo, current, workerVars>>
  BY DEF EraseObject
<1> HIDE DEF j
<1>2. TypeInv'
  BY <1>1 DEF TypeInv, TablesTypeOK, OutboxTypeOK, RunnerTypeOK
<1>3. LeaseInv' /\ CancelInv' /\ RowInv'
  BY <1>1 DEF RunnerInv, LeaseInv, CancelInv, RowInv, Condemned, Quiet, Rows
<1>4. StagedInv'
  BY <1>0, <1>1 DEF RunnerInv, StagedInv, TypeInv, TablesTypeOK
<1>5. DrainInv'
  <2>1. \A k \in Jobs : ~object[k] => ~object'[k]
    BY <1>0, <1>1 DEF TypeInv, TablesTypeOK
  <2>2. ~object'[j]
    BY <1>0, <1>1 DEF TypeInv, TablesTypeOK
  <2>3. \A k \in Jobs : Quiet(k) => Quiet(k)'
    BY <1>1 DEF Quiet
  <2>4. \A r \in Rows : Condemned(r) => Condemned(r)'
    BY <1>1, <2>3 DEF Condemned, Rows
  <2> QED
    BY <1>0, <1>1, <2>1, <2>2, <2>3, <2>4 DEF RunnerInv, DrainInv, Rows, TypeInv, OutboxTypeOK, j
<1>6. CleanInv' /\ SucceededOwnsArtifact' /\ LoserOwnsNothing'
  BY <1>0, <1>1 DEF RunnerInv, CleanInv, Quiet, SucceededOwnsArtifact, LoserOwnsNothing,
                    TypeInv, TablesTypeOK
<1> QED BY <1>2, <1>3, <1>4, <1>5, <1>6 DEF RunnerInv

\* A row may go once its object is gone and nobody will write it again.
LEMMA AckRowInv ==
    ASSUME NEW d \in Drainers, Inv, AckRow(d), UNCHANGED workerVars
    PROVE  Inv'
<1> USE DEF Inv
<1>0. /\ drain[d] = "ack" /\ current[d] \in Rows
      /\ Quiet(current[d].job) /\ ~object[current[d].job]
  BY DrainFacts DEF AckRow
<1>1. /\ outbox' = outbox \ {current[d]}
      /\ drain' = [drain EXCEPT ![d] = "scan"]
      /\ current' = [current EXCEPT ![d] = NoRow]
      /\ UNCHANGED <<status, result, artifact, object, cancelTx, lease, todo, workerVars>>
  BY DEF AckRow
<1>2. TypeInv'
  BY <1>1 DEF TypeInv, TablesTypeOK, OutboxTypeOK, RunnerTypeOK
<1>3. LeaseInv' /\ CancelInv' /\ StagedInv'
  BY <1>1 DEF RunnerInv, LeaseInv, CancelInv, StagedInv, LeasedSteps
<1>4. RowInv' /\ DrainInv'
  BY <1>1 DEF RunnerInv, RowInv, DrainInv, Condemned, Quiet, Rows, TypeInv, OutboxTypeOK
<1>5. CleanInv' /\ SucceededOwnsArtifact' /\ LoserOwnsNothing'
  BY <1>0, <1>1 DEF RunnerInv, CleanInv, Quiet, SucceededOwnsArtifact, LoserOwnsNothing
<1> QED BY <1>2, <1>3, <1>4, <1>5 DEF RunnerInv

-----------------------------------------------------------------------------
(* Compositions used by both back ends.                                    *)

LEMMA DrainStepInv ==
    ASSUME NEW d \in Drainers, Inv, DrainStep(d), UNCHANGED workerVars
    PROVE  Inv'
BY CrossBarrierInv, ConfirmRowInv, EraseObjectInv, EraseDeferredInv, DrainFailsInv, AckRowInv
DEF DrainStep

LEMMA RunnerStepInv ==
    ASSUME NEW w \in Workers, NEW cancelled, Inv, RunnerStep(w, cancelled)
    PROVE  Inv'
BY ClaimInv, PrepareInv, RecoverInv, ProduceInv, CheckProducedInv, PersistInv,
   CheckPersistedInv, PublishSuccessInv, PublishCanceledInv, CleanupResultInv, RollbackInv,
   EraseProducedInv, EraseFailsInv, PublishFailureInv, ReleaseInv, DrainOwnRowsInv
DEF RunnerStep

\* An exception that nothing catches: a worker that waits for the lease goes
\* past it, one that holds it goes on to release it.
LEMMA EscapeInv == ASSUME NEW w \in Workers, Inv, Escape(w) PROVE Inv'
<1>1. raised' \in [Workers -> Exceptions]
  BY DEF Escape, Inv, TypeInv, RunnerTypeOK
<1>2. CASE pc[w] = "lease"
  <2>1. "released" \in Steps
    BY DEF Steps
  <2> QED BY <1>1, <1>2, <2>1, DrainFacts, DrainMoveInv DEF Escape
<1>3. CASE pc[w] # "lease"
  <2>1. pc[w] \in LeasedSteps /\ "release" \in LeasedSteps /\ pc' = [pc EXCEPT ![w] = "release"]
    BY <1>3 DEF Escape, LeasedSteps, GuardedSteps
  <2>2. UNCHANGED <<tables, object, cancelTx, lease, drainVars, at>>
    BY DEF Escape
  <2> QED BY <1>1, <2>1, <2>2, MoveInv DEF Writing
<1> QED BY <1>2, <1>3

\* The end of a delivery: the worker becomes idle.
LEMMA LeaveInv ==
    ASSUME NEW w \in Workers, Inv, Drained(w), Unwind(w, "none", "idle"),
           drain' = [drain EXCEPT ![w] = "rest"], at' = [at EXCEPT ![w] = NoJob],
           UNCHANGED <<tables, object, cancelTx, lease, todo, current>>
    PROVE  Inv'
<1>1. w \in Drainers /\ "idle" \in Steps
  BY DEF Steps
<1> QED BY <1>1, DrainFacts, DrainMoveInv

\* The workers P die, with the drains of the processes D and, if the API is
\* among them, the open cancel requests.
LEMMA CrashInv ==
    ASSUME NEW P \in SUBSET Workers, NEW D \in SUBSET Drainers, Inv, StopDrains(D),
           pc' = [w \in Workers |-> IF w \in P THEN "idle" ELSE pc[w]],
           at' = [w \in Workers |-> IF w \in P THEN NoJob ELSE at[w]],
           lease' = [j \in Jobs |-> IF lease[j] \in P THEN NoWorker ELSE lease[j]],
           cancelTx' \in [Jobs -> CancelPhases],
           \A j \in Jobs : cancelTx'[j] # "none" => cancelTx[j] # "none",
           raised' \in [Workers -> Exceptions],
           UNCHANGED <<tables, object>>
    PROVE  Inv'
<1>1. "idle" \in Steps
  BY DEF Steps
<1>2. /\ pc' \in [Workers -> Steps] /\ at' \in [Workers -> Jobs \cup {NoJob}]
      /\ lease' \in [Jobs -> Workers \cup {NoWorker}]
  BY <1>1, DrainFacts
<1>3. /\ drain' \in [Drainers -> DrainSteps]
      /\ todo' \in [Drainers -> SUBSET Rows]
      /\ current' \in [Drainers -> Rows \cup {NoRow}]
  BY DrainFacts DEF StopDrains
<1>4. \A w \in Workers : \/ pc'[w] = "idle"
                         \/ /\ pc'[w] = pc[w] /\ at'[w] = at[w]
                            /\ \A j \in Jobs : lease[j] = w => lease'[j] = w
  OBVIOUS
<1>5. \A d \in Drainers, r \in Rows : r \in todo'[d] => Condemned(r)
  BY DrainFacts DEF StopDrains
<1>6. \A d \in Drainers :
        drain'[d] \in {"confirm", "erase", "ack"} =>
            drain'[d] = drain[d] /\ current'[d] = current[d]
  BY DEF StopDrains
<1> QED BY <1>2, <1>3, <1>4, <1>5, <1>6, DrainFacts, DrainMoveInv

\* A worker is given a job that exists. It waits for the lease, so it is not
\* about to write anything yet.
LEMMA DeliverInv ==
    ASSUME NEW w \in Workers, NEW j \in Jobs, Inv, pc[w] = "idle", status[j] # "absent",
           at' = [at EXCEPT ![w] = j], Unwind(w, "none", "lease"),
           UNCHANGED <<tables, object, cancelTx, lease, drainVars>>
    PROVE  Inv'
<1> USE DEF Inv
<1>0. "lease" \in Steps /\ "lease" \notin LeasedSteps
  BY DEF Steps, LeasedSteps, ProducingSteps, GuardedSteps
<1>1. TypeInv'
  BY <1>0 DEF TypeInv, TablesTypeOK, OutboxTypeOK, RunnerTypeOK
<1>2. LeaseInv' /\ CancelInv'
  BY <1>0 DEF RunnerInv, LeaseInv, CancelInv, TypeInv, RunnerTypeOK
<1>3. StagedInv'
  BY DEF RunnerInv, StagedInv, TypeInv, RunnerTypeOK
<1>4. \A k \in Jobs : Quiet(k) => Quiet(k)'
  BY DEF Quiet, TypeInv, RunnerTypeOK
<1>5. \A r \in Rows : Condemned(r) => Condemned(r)'
  BY <1>4 DEF Condemned, Rows
<1>6. RowInv' /\ DrainInv'
  BY <1>4, <1>5 DEF RunnerInv, RowInv, DrainInv, Rows, TypeInv, TablesTypeOK
<1>7. CleanInv' /\ SucceededOwnsArtifact' /\ LoserOwnsNothing'
  BY <1>4 DEF RunnerInv, CleanInv, SucceededOwnsArtifact, LoserOwnsNothing
<1> QED BY <1>1, <1>2, <1>3, <1>6, <1>7 DEF RunnerInv

\* Nothing exists at the start.
LEMMA InitInv == TablesInit /\ OutboxInit /\ RunnerInit => Inv
<1> SUFFICES ASSUME TablesInit, OutboxInit, RunnerInit PROVE Inv
  OBVIOUS
<1> USE DEF TablesInit, OutboxInit, RunnerInit
<1>1. TypeInv
  BY DEF TypeInv, TablesTypeOK, OutboxTypeOK, RunnerTypeOK, Steps
<1>2. CancelInv /\ LeaseInv /\ RowInv /\ DrainInv /\ StagedInv
  BY DEF CancelInv, LeaseInv, RowInv, DrainInv, StagedInv, LeasedSteps, ProducingSteps, GuardedSteps
<1>3. CleanInv /\ SucceededOwnsArtifact /\ LoserOwnsNothing
  BY DEF CleanInv, Quiet, SucceededOwnsArtifact, LoserOwnsNothing
<1> QED BY <1>1, <1>2, <1>3 DEF Inv, RunnerInv

\* The window NoOrphanedObject is about is closed by CleanInv.
LEMMA InvImplies ==
    Inv => NoOrphanedObject /\ SucceededOwnsArtifact /\ LoserOwnsNothing
BY DEF Inv, RunnerInv, CleanInv, NoOrphanedObject

-----------------------------------------------------------------------------
(* What a step may do to the status and to the object of a job.            *)

JobStepOK ==
    \A j \in Jobs :
        /\ status'[j] = "absent" => status[j] = "absent"
        /\ status'[j] \in Active => status[j] \in Active \/ InsertJob(j)
        /\ status'[j] = "queued" => status[j] = "queued" \/ InsertJob(j)
        /\ StaysClosed(j)
        /\ KeepsLiveObject(j)

LEMMA FrameStep == ASSUME Inv, UNCHANGED <<status, object>> PROVE JobStepOK
BY DEF JobStepOK, StaysClosed, KeepsLiveObject

\* Every transaction looks at the status it changes, or ends the job.
LEMMA TransactionStep ==
    ASSUME NEW j \in Jobs, Inv, UNCHANGED object,
           \/ FailPersistedJob(j) \/ PublishCanceledJob(j) \/ ClaimJob(j)
           \/ PublishSucceededJob(j) \/ InsertJob(j) \/ DeleteProject(j) \/ CommitCancel(j)
    PROVE  JobStepOK
<1> USE DEF Inv, JobStepOK, StaysClosed, KeepsLiveObject, TypeInv, TablesTypeOK
<1>1. CASE FailPersistedJob(j) \/ PublishCanceledJob(j)
  BY <1>1 DEF FailPersistedJob, PublishCanceledJob, EndWithoutOutput
<1>2. CASE ClaimJob(j) \/ PublishSucceededJob(j)
  BY <1>2 DEF ClaimJob, PublishSucceededJob
<1>3. CASE InsertJob(j) \/ DeleteProject(j)
  BY <1>3 DEF InsertJob, DeleteProject
<1>4. CASE CommitCancel(j)
  BY <1>4 DEF CommitCancel, EndWithoutOutput, RunnerInv, CancelInv
<1> QED BY <1>1, <1>2, <1>3, <1>4

LEMMA RunnerStepOK ==
    ASSUME NEW w \in Workers, NEW cancelled, Inv, RunnerStep(w, cancelled)
    PROVE  JobStepOK
<1>1. CASE Claim(w) \/ PublishSuccess(w) \/ PublishCanceled(w) \/ PublishFailure(w)
  <2>1. at[w] \in Jobs
    BY <1>1 DEF Claim, PublishSuccess, PublishCanceled, PublishFailure, Inv, RunnerInv, LeaseInv
  <2> QED
    BY <1>1, <2>1, TransactionStep DEF Claim, PublishSuccess, PublishCanceled, PublishFailure
<1>2. CASE Produce(w)
  BY <1>2 DEF Produce, JobStepOK, StaysClosed, KeepsLiveObject, Inv, TypeInv, TablesTypeOK
<1>3. CASE EraseProduced(w)
  <2>1. at[w] \in Jobs /\ status[at[w]] \in Losers \cup {"deleted"}
    BY <1>3 DEF EraseProduced, Inv, RunnerInv, LeaseInv, StagedInv
  <2> QED
    BY <1>3, <2>1
    DEF EraseProduced, JobStepOK, StaysClosed, KeepsLiveObject, Inv, TypeInv, TablesTypeOK
<1>4. CASE \/ Prepare(w, cancelled) \/ Recover(w) \/ CheckProduced(w, cancelled) \/ Persist(w)
           \/ CheckPersisted(w, cancelled) \/ CleanupResult(w) \/ Rollback(w)
           \/ EraseFails(w) \/ Release(w) \/ DrainOwnRows(w)
  <2>1. UNCHANGED <<status, object>>
    BY <1>4
    DEF Prepare, Recover, CheckProduced, Persist, PersistJobArtifact, CheckPersisted,
        CleanupResult, CleanupJobResult, Rollback, RollbackJobArtifact, EraseFails, Release,
        DrainOwnRows, SelectRows
  <2> QED BY <2>1, FrameStep
<1> QED BY <1>1, <1>2, <1>3, <1>4 DEF RunnerStep

LEMMA DrainStepOK == ASSUME NEW d \in Drainers, Inv, DrainStep(d) PROVE JobStepOK
<1>1. CASE EraseObject(d)
  <2>1. current[d].job \in Jobs /\ status[current[d].job] \in Losers \cup {"deleted"}
    BY <1>1, DrainFacts DEF EraseObject, Condemned, Rows
  <2> QED
    BY <1>1, <2>1
    DEF EraseObject, JobStepOK, StaysClosed, KeepsLiveObject, Inv, TypeInv, TablesTypeOK
<1>2. CASE ~EraseObject(d)
  <2>1. UNCHANGED <<status, object>>
    BY <1>2 DEF DrainStep, CrossBarrier, ConfirmRow, EraseDeferred, DrainFails, AckRow
  <2> QED BY <2>1, FrameStep
<1> QED BY <1>1, <1>2

-----------------------------------------------------------------------------
(* The steps a client may see, where cancel requests are serialized with   *)
(* every other transaction.                                                *)

\* The steps a worker reaches only through its claim.
ClaimedSteps == ProducingSteps \cup {"prepare", "recover", "decide", "success"}

ClaimedInv == \A w \in Workers : pc[w] \in ClaimedSteps => status[at[w]] # "queued"

\* The status an open cancel request has read is still the job's.
CancelsActive == \A j \in Jobs : cancelTx[j] # "none" => status[j] \in Active

LifecycleInv == ClaimedInv /\ (Dialect = "sqlite" => CancelsActive)

\* The steps of a job's lifecycle.
Follows(before, after) ==
    \/ before = "absent" /\ after = "queued"
    \/ before = "queued" /\ after = "running"
    \/ before = "running" /\ after = "succeeded"
    \/ before \in Active /\ after \in Losers
    \/ before \in Losers \cup {"succeeded"} /\ after = "deleted"

ClientStep ==
    \/ status' = status
    \/ \E j \in Jobs, after \in Statuses :
        Follows(status[j], after) /\ status' = [status EXCEPT ![j] = after]

LEMMA QuietLifecycle ==
    ASSUME Inv, UNCHANGED status, CancelsActive,
           \A j \in Jobs : cancelTx'[j] # "none" => cancelTx[j] # "none" \/ status[j] \in Active
    PROVE  ClientStep /\ CancelsActive'
BY DEF ClientStep, CancelsActive

\* A transaction on a job's row keeps to the lifecycle, and finds no cancel
\* request open.
LEMMA TransactionLifecycle ==
    ASSUME NEW j \in Jobs, Inv, Dialect = "sqlite", CancelsActive, UNCHANGED cancelTx,
           \/ FailPersistedJob(j) \/ PublishCanceledJob(j) \/ ClaimJob(j)
           \/ PublishSucceededJob(j) /\ status[j] # "queued"
           \/ InsertJob(j) \/ DeleteProject(j)
    PROVE  ClientStep /\ CancelsActive'
<1>1. \A k \in Jobs : cancelTx[k] = "none"
  BY DEF FailPersistedJob, PublishCanceledJob, ClaimJob, PublishSucceededJob, InsertJob,
         DeleteProject, RowFree, ProjectFree
<1>2. CancelsActive'
  BY <1>1 DEF CancelsActive
<1>3. status \in [Jobs -> Statuses]
  BY DEF Inv, TypeInv, TablesTypeOK
<1> USE DEF ClientStep, Follows
<1>4. CASE FailPersistedJob(j) \/ PublishCanceledJob(j)
  BY <1>2, <1>3, <1>4 DEF FailPersistedJob, PublishCanceledJob, EndWithoutOutput
<1>5. CASE ClaimJob(j)
  <2>1. CASE status[j] = "queued"
    BY <1>2, <1>5, <2>1 DEF ClaimJob
  <2>2. CASE status[j] # "queued"
    BY <1>2, <1>3, <1>5, <2>2 DEF ClaimJob
  <2> QED BY <2>1, <2>2
<1>6. CASE PublishSucceededJob(j) /\ status[j] # "queued"
  BY <1>2, <1>3, <1>6 DEF PublishSucceededJob
<1>7. CASE InsertJob(j) \/ DeleteProject(j)
  BY <1>2, <1>3, <1>7 DEF InsertJob, DeleteProject
<1> QED BY <1>4, <1>5, <1>6, <1>7

\* A cancel request that commits finds the job still active.
LEMMA CancelLifecycle ==
    ASSUME NEW j \in Jobs, Inv, CancelsActive, CommitCancel(j)
    PROVE  ClientStep /\ CancelsActive'
<1>1. status[j] \in Active /\ status' = [status EXCEPT ![j] = "canceled"]
  BY DEF CommitCancel, EndWithoutOutput, CancelsActive
<1>2. cancelTx' = [cancelTx EXCEPT ![j] = "none"] /\ cancelTx \in [Jobs -> CancelPhases]
  BY DEF CommitCancel, Inv, TypeInv, TablesTypeOK
<1>3. status \in [Jobs -> Statuses]
  BY DEF Inv, TypeInv, TablesTypeOK
<1>4. CancelsActive'
  BY <1>1, <1>2, <1>3 DEF CancelsActive
<1> QED BY <1>1, <1>4 DEF ClientStep, Follows

LEMMA RunnerLifecycle ==
    ASSUME NEW w \in Workers, NEW cancelled, Inv, Dialect = "sqlite", LifecycleInv,
           RunnerStep(w, cancelled)
    PROVE  ClientStep /\ CancelsActive'
<1> USE DEF LifecycleInv
<1>1. CASE Claim(w) \/ PublishSuccess(w) \/ PublishCanceled(w) \/ PublishFailure(w)
  <2>1. at[w] \in Jobs /\ UNCHANGED cancelTx
    BY <1>1
    DEF Claim, PublishSuccess, PublishCanceled, PublishFailure, Inv, RunnerInv, LeaseInv
  <2>2. PublishSuccess(w) => status[at[w]] # "queued"
    BY DEF PublishSuccess, ClaimedInv, ClaimedSteps
  <2> QED
    BY <1>1, <2>1, <2>2, TransactionLifecycle
    DEF Claim, PublishSuccess, PublishCanceled, PublishFailure
<1>2. CASE \/ Prepare(w, cancelled) \/ Recover(w) \/ Produce(w) \/ CheckProduced(w, cancelled)
           \/ Persist(w) \/ CheckPersisted(w, cancelled) \/ CleanupResult(w) \/ Rollback(w)
           \/ EraseProduced(w) \/ EraseFails(w) \/ Release(w) \/ DrainOwnRows(w)
  <2>1. UNCHANGED <<status, cancelTx>>
    BY <1>2
    DEF Prepare, Recover, Produce, CheckProduced, Persist, PersistJobArtifact, CheckPersisted,
        CleanupResult, CleanupJobResult, Rollback, RollbackJobArtifact, EraseProduced,
        EraseFails, Release, DrainOwnRows, SelectRows
  <2> QED BY <2>1, QuietLifecycle
<1> QED BY <1>1, <1>2 DEF RunnerStep

\* The program counter of a worker: only a claim leads to the claimed steps.
LEMMA RunnerClaims ==
    ASSUME NEW w \in Workers, NEW cancelled, NEW next \in {"load", "claim"}, Inv,
           \/ RunnerStep(w, cancelled) \/ Decide(w, cancelled) \/ BodyError(w) \/ Escape(w)
           \/ AcquireLease(w, next)
    PROVE  /\ at' = at
           /\ \A v \in Workers : v # w => pc'[v] = pc[v]
           /\ pc'[w] \in ClaimedSteps => pc[w] \in ClaimedSteps \/ status'[at[w]] # "queued"
<1> USE DEF ClaimedSteps, ProducingSteps, Inv, TypeInv, RunnerTypeOK
<1>1. CASE Claim(w)
  <2>1. at[w] \in Jobs /\ status \in [Jobs -> Statuses]
    BY <1>1 DEF Claim, LeasedSteps, RunnerInv, LeaseInv, TablesTypeOK
  <2> QED BY <1>1, <2>1 DEF Claim, ClaimJob
<1>2. CASE Prepare(w, cancelled) \/ Recover(w) \/ Produce(w) \/ CheckProduced(w, cancelled)
  BY <1>2 DEF Prepare, Recover, Produce, CheckProduced
<1>3. CASE Persist(w) \/ CheckPersisted(w, cancelled) \/ CleanupResult(w) \/ Decide(w, cancelled)
  BY <1>3 DEF Persist, CheckPersisted, CleanupResult, Decide
<1>4. CASE Rollback(w) \/ EraseProduced(w) \/ EraseFails(w) \/ BodyError(w) \/ Escape(w)
  BY <1>4 DEF Rollback, EraseProduced, EraseFails, AfterRollback, BodyError, Escape
<1>5. CASE PublishSuccess(w) \/ PublishCanceled(w) \/ PublishFailure(w)
  BY <1>5 DEF PublishSuccess, PublishCanceled, PublishFailure
<1>6. CASE Release(w) \/ DrainOwnRows(w) \/ AcquireLease(w, next)
  BY <1>6 DEF Release, DrainOwnRows, AcquireLease
<1> QED BY <1>1, <1>2, <1>3, <1>4, <1>5, <1>6 DEF RunnerStep

\* No step queues a job that a worker was given, so claims last.
LEMMA ClaimsLast ==
    ASSUME Inv, ClaimedInv, JobStepOK,
           \A w \in Workers :
               pc'[w] \in ClaimedSteps =>
                   /\ at'[w] = at[w]
                   /\ pc[w] \in ClaimedSteps \/ status'[at[w]] # "queued"
    PROVE  ClaimedInv'
<1> SUFFICES ASSUME NEW w \in Workers, pc'[w] \in ClaimedSteps
             PROVE  status'[at'[w]] # "queued"
  BY DEF ClaimedInv
<1>1. CASE pc[w] \in ClaimedSteps
  <2>1. at[w] \in Jobs /\ status[at[w]] \notin {"absent", "queued"}
    BY <1>1 DEF Inv, RunnerInv, LeaseInv, ClaimedInv, ClaimedSteps, ProducingSteps
  <2>2. status'[at[w]] = "queued" => status[at[w]] = "queued" \/ InsertJob(at[w])
    BY <2>1 DEF JobStepOK
  <2> QED BY <2>1, <2>2 DEF InsertJob
<1>2. CASE pc[w] \notin ClaimedSteps
  BY <1>2
<1> QED BY <1>1, <1>2

\* A client's step is a step of JobLifecycle: what it can download is what
\* succeeded.
LEMMA LifecycleStep ==
    ASSUME Inv, Inv', ClientStep
    PROVE  [Lifecycle!Next]_Lifecycle!vars
<1> DEFINE Output == {j \in Jobs : status[j] = "succeeded" /\ artifact[j] /\ object[j]}
<1>1. Output = {j \in Jobs : status[j] = "succeeded"}
  BY InvImplies DEF SucceededOwnsArtifact
<1>2. SucceededOwnsArtifact'
  BY DEF Inv, RunnerInv
<1>3. Output' = {j \in Jobs : status'[j] = "succeeded"}
  BY <1>2 DEF SucceededOwnsArtifact
<1>4. status \in [Jobs -> Statuses]
  BY DEF Inv, TypeInv, TablesTypeOK
<1> HIDE DEF Output
<1>5. CASE status' = status
  BY <1>1, <1>3, <1>5 DEF Lifecycle!vars, Output
<1>6. ASSUME NEW j \in Jobs, NEW after \in Statuses,
             Follows(status[j], after), status' = [status EXCEPT ![j] = after]
      PROVE  Lifecycle!Next
  <2>1. Output' = IF after = "succeeded" THEN Output \cup {j} ELSE Output \ {j}
    BY <1>1, <1>3, <1>4, <1>6
  <2>2. status[j] # "succeeded" => j \notin Output
    BY <1>1
  <2>3. CASE after = "queued"
    <3>1. Lifecycle!Accept(j)
      BY <1>6, <2>1, <2>2, <2>3 DEF Lifecycle!Accept, Follows, Output
    <3> QED BY <3>1 DEF Lifecycle!Next
  <2>4. CASE after = "running"
    <3>1. Lifecycle!Start(j)
      BY <1>6, <2>1, <2>2, <2>4 DEF Lifecycle!Start, Follows, Output
    <3> QED BY <3>1 DEF Lifecycle!Next
  <2>5. CASE after = "succeeded"
    <3>1. Lifecycle!Succeed(j)
      BY <1>6, <2>1, <2>5 DEF Lifecycle!Succeed, Follows, Output
    <3> QED BY <3>1 DEF Lifecycle!Next
  <2>6. CASE after \in Losers
    <3>1. Lifecycle!Lose(j)
      BY <1>6, <2>1, <2>2, <2>6
      DEF Lifecycle!Lose, Lifecycle!Unfinished, Lifecycle!Unsuccessful, Follows, Output
    <3> QED BY <3>1 DEF Lifecycle!Next
  <2>7. CASE after = "deleted"
    <3>1. Lifecycle!Remove(j)
      BY <1>6, <2>1, <2>7 DEF Lifecycle!Remove, Lifecycle!Unsuccessful, Follows, Output
    <3> QED BY <3>1 DEF Lifecycle!Next
  <2> QED BY <1>6, <2>3, <2>4, <2>5, <2>6, <2>7 DEF Follows
<1> QED BY <1>5, <1>6 DEF ClientStep
=============================================================================
