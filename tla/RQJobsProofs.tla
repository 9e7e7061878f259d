----------------------------- MODULE RQJobsProofs -----------------------------
(***************************************************************************)
(* The safety of the RQ back end, for any number of jobs, workers and API  *)
(* processes, any number of retries and faults, and both databases.        *)
(***************************************************************************)
EXTENDS RQJobs, JobRunnerProofs

USE DEF rqVars, apiVars, workerVars, drainVars, tables, Drainers, CancelPhases, Goto

\* The types of the variables this module adds.
RQTypeInv ==
    /\ queue \in [Jobs -> QueueStates]
    /\ retries \in [Jobs -> 0..MaxRetries]
    /\ holder \in [Jobs -> Workers \cup {NoWorker}]
    /\ api \in {"up", "starting", "down"}
    /\ submission \in [Jobs -> {"none", "pending", "refused"}]
    /\ reconciling \subseteq Jobs
    /\ requeuing \subseteq Jobs
    /\ unsent \subseteq Jobs
    /\ faults \in 0..MaxFaults
    /\ starts \in 0..MaxStarts

\* RQ and the API only know of jobs that were committed.
KnownJobs ==
    \A j \in Jobs :
        status[j] = "absent" =>
            /\ queue[j] = "none" /\ holder[j] = NoWorker
            /\ submission[j] = "none" /\ j \notin reconciling \cup requeuing

RQInv == Inv /\ RQTypeInv /\ KnownJobs

LEMMA RQInvTypes == RQInv => TypeOK
BY DEF RQInv, RQTypeInv, Inv, TypeInv, TypeOK

LEMMA RQInit == Init => RQInv
<1> SUFFICES ASSUME Init PROVE RQInv
  OBVIOUS
<1>1. Inv
  BY InitInv DEF Init
<1>2. RQTypeInv
  BY BoundAssumption DEF Init, RQTypeInv, QueueStates
<1>3. KnownJobs
  BY DEF Init, KnownJobs
<1> QED BY <1>1, <1>2, <1>3 DEF RQInv

-----------------------------------------------------------------------------
(* RunnerInv is preserved by each kind of step.                            *)

LEMMA LoadInv == ASSUME NEW w \in Workers, Inv, Load(w) PROVE Inv'
<1>1. {"load", "claim", "release"} \subseteq LeasedSteps
  BY DEF LeasedSteps, GuardedSteps
<1>2. raised' \in [Workers -> Exceptions]
  BY DEF Load, Inv, TypeInv, RunnerTypeOK
<1> QED BY <1>1, <1>2, MoveInv DEF Load, Writing

LEMMA WorkerStepInv == ASSUME NEW w \in Workers, Inv, WorkerStep(w) PROVE Inv'
<1>1. CASE Load(w)
  BY <1>1, LoadInv
<1>2. CASE Finish(w)
  BY <1>2, LeaveInv DEF Finish
<1>3. CASE AcquireLease(w, "load")
  BY <1>3, AcquireLeaseInv
<1>4. CASE RunnerStep(w, CanceledInDb(at[w]))
  BY <1>4, RunnerStepInv
<1>5. CASE Decide(w, CanceledInDb(at[w]))
  BY <1>5, DecideInv
<1>6. CASE BodyError(w)
  BY <1>6, BodyErrorInv
<1>7. CASE Escape(w)
  BY <1>7, EscapeInv
<1> QED BY <1>1, <1>2, <1>3, <1>4, <1>5, <1>6, <1>7 DEF WorkerStep

LEMMA CrashStepInv == ASSUME NEW w \in Workers, RQInv, Crash(w) PROVE Inv'
<1>1. /\ pc' = [v \in Workers |-> IF v \in {w} THEN "idle" ELSE pc[v]]
      /\ at' = [v \in Workers |-> IF v \in {w} THEN NoJob ELSE at[v]]
  BY DEF Crash, Unwind, RQInv, Inv, TypeInv, RunnerTypeOK
<1>2. /\ lease' = [j \in Jobs |-> IF lease[j] \in {w} THEN NoWorker ELSE lease[j]]
      /\ raised' \in [Workers -> Exceptions]
  BY DEF Crash, Unwind, Exceptions, RQInv, Inv, TypeInv, RunnerTypeOK
<1>3. {w} \in SUBSET Workers /\ {w} \in SUBSET Drainers
  OBVIOUS
<1> QED BY <1>1, <1>2, <1>3, CrashInv, DrainFacts DEF Crash, RQInv

LEMMA RqStepInv == ASSUME RQInv, RqStep PROVE Inv'
<1>1. ASSUME NEW w \in Workers, NEW j \in Jobs, Deliver(w, j) PROVE Inv'
  BY <1>1, DeliverInv DEF Deliver, RQInv, KnownJobs
<1>2. ASSUME NEW w \in Workers, Crash(w) PROVE Inv'
  BY <1>2, CrashStepInv
<1>3. ASSUME NEW j \in Jobs, Abandon(j) PROVE Inv'
  BY <1>3, FrameInv DEF Abandon, runnerVars, RQInv
<1>4. ASSUME NEW j \in Jobs, TerminalFailure(j) PROVE Inv'
  BY <1>4, FailPersistedInv DEF TerminalFailure, RQInv
<1>5. ASSUME NEW j \in Jobs, CallbackFails(j) \/ Requeue(j) PROVE Inv'
  BY <1>5, FrameInv DEF CallbackFails, Requeue, runnerVars, RQInv
<1>6. CASE StartWorker \/ RequeueFails
  BY <1>6, FrameInv DEF StartWorker, RequeueFails, runnerVars, RQInv
<1> QED BY <1>1, <1>2, <1>3, <1>4, <1>5, <1>6 DEF RqStep

LEMMA ApiCrashInv == ASSUME RQInv, ApiCrash PROVE Inv'
<1>1. /\ pc' = [w \in Workers |-> IF w \in {} THEN "idle" ELSE pc[w]]
      /\ at' = [w \in Workers |-> IF w \in {} THEN NoJob ELSE at[w]]
      /\ lease' = [j \in Jobs |-> IF lease[j] \in {} THEN NoWorker ELSE lease[j]]
  BY DEF ApiCrash, RQInv, Inv, TypeInv, RunnerTypeOK, OutboxTypeOK
<1>2. {} \in SUBSET Workers /\ Servers \in SUBSET Drainers
  OBVIOUS
<1>3. /\ cancelTx' \in [Jobs -> CancelPhases]
      /\ \A j \in Jobs : cancelTx'[j] # "none" => cancelTx[j] # "none"
      /\ raised' \in [Workers -> Exceptions]
  BY DEF ApiCrash, RQInv, Inv, TypeInv, RunnerTypeOK
<1> QED BY <1>1, <1>2, <1>3, CrashInv DEF ApiCrash, RQInv

LEMMA JobRequestInv ==
    ASSUME NEW j \in Jobs, RQInv,
           \/ CreateJob(j) \/ Submit(j) \/ SubmitFails(j) \/ FailSubmission(j)
           \/ SubmissionForgotten(j) \/ RequestCancel(j) \/ LockForCancel(j) \/ RemoveFromQueue(j) \/ FinishCancel(j)
           \/ CancelFails(j) \/ RemoveProject(j) \/ Reconcile(j)
    PROVE  Inv'
<1> USE DEF RQInv
<1>1. CASE CreateJob(j)
  BY <1>1, InsertInv DEF CreateJob
<1>2. CASE Submit(j) \/ SubmitFails(j) \/ SubmissionForgotten(j) \/ Reconcile(j)
  BY <1>2, FrameInv DEF Submit, SubmitFails, SubmissionForgotten, Reconcile, runnerVars
<1>3. CASE FailSubmission(j)
  BY <1>3, FailPersistedInv DEF FailSubmission
<1>4. CASE RequestCancel(j)
  BY <1>4, CancelStepInv DEF RequestCancel
<1>5. CASE LockForCancel(j)
  <2>1. "read" \in CancelPhases \ {"none"}
    OBVIOUS
  <2> QED BY <1>5, <2>1, CancelStepInv DEF LockForCancel
<1>6. CASE RemoveFromQueue(j)
  BY <1>6, CancelTxInv DEF RemoveFromQueue, Inv, TypeInv, TablesTypeOK, RunnerInv, CancelInv
<1>7. CASE FinishCancel(j)
  BY <1>7, CancelStepInv DEF FinishCancel
<1>8. CASE CancelFails(j)
  BY <1>8, CancelStepInv DEF CancelFails
<1>9. CASE RemoveProject(j)
  BY <1>9, DeleteProjectInv DEF RemoveProject
<1> QED BY <1>1, <1>2, <1>3, <1>4, <1>5, <1>6, <1>7, <1>8, <1>9

LEMMA ApiStepInv == ASSUME RQInv, ApiStep PROVE Inv'
<1>1. ASSUME NEW s \in Servers, ServerDrain(s) PROVE Inv'
  BY <1>1, SelectRowsInv DEF ServerDrain, RQInv
<1>2. CASE ApiCrash
  BY <1>2, ApiCrashInv
<1>3. CASE ApiStart \/ ReconcileFails \/ ApiReady
  BY <1>3, FrameInv DEF ApiStart, ReconcileFails, ApiReady, runnerVars, RQInv
<1> QED BY <1>1, <1>2, <1>3, JobRequestInv DEF ApiStep

LEMMA DrainNextInv == ASSUME Inv, DrainNext PROVE Inv'
<1>1. ASSUME NEW d \in Drainers, DrainStep(d), UNCHANGED workerVars PROVE Inv'
  BY <1>1, DrainStepInv
<1>2. ASSUME NEW s \in Servers, EndDrain(s), UNCHANGED workerVars PROVE Inv'
  BY <1>2, EndDrainInv
<1> QED BY <1>1, <1>2 DEF DrainNext

LEMMA NextInv == ASSUME RQInv, [Next]_vars PROVE Inv'
<1>1. CASE UNCHANGED vars
  BY <1>1, FrameInv DEF vars, runnerVars, RQInv
<1>2. ASSUME NEW w \in Workers, WorkerStep(w) PROVE Inv'
  BY <1>2, WorkerStepInv DEF RQInv
<1>3. CASE RqStep
  BY <1>3, RqStepInv
<1>4. CASE ApiStep
  BY <1>4, ApiStepInv
<1>5. CASE DrainNext
  BY <1>5, DrainNextInv DEF RQInv
<1> QED BY <1>1, <1>2, <1>3, <1>4, <1>5 DEF Next

-----------------------------------------------------------------------------
(* The variables of RQ and of the API keep their types, and no message and *)
(* no request is about a job that does not exist.                          *)

LEMMA RetryOrFailTypes ==
    ASSUME NEW j \in Jobs, RQTypeInv, RetryOrFail(j)
    PROVE  /\ queue' \in [Jobs -> QueueStates]
           /\ retries' \in [Jobs -> 0..MaxRetries]
           /\ holder' \in [Jobs -> Workers \cup {NoWorker}]
           /\ UNCHANGED <<requeuing, starts>>
           /\ \A k \in Jobs : k # j => queue'[k] = queue[k] /\ holder'[k] = holder[k]
<1>1. CASE retries[j] > 0
  <2>1. retries[j] - 1 \in 0..MaxRetries
    BY <1>1, BoundAssumption DEF RQTypeInv
  <2> QED BY <1>1, <2>1 DEF RQTypeInv, RetryOrFail, QueueStates
<1>2. CASE ~(retries[j] > 0)
  BY <1>2 DEF RQTypeInv, RetryOrFail, QueueStates
<1> QED BY <1>1, <1>2

LEMMA EnqueueTypes ==
    ASSUME NEW j \in Jobs, RQTypeInv, Enqueue(j) \/ UNCHANGED <<queue, retries>>
    PROVE  /\ queue' \in [Jobs -> QueueStates]
           /\ retries' \in [Jobs -> 0..MaxRetries]
           /\ \A k \in Jobs : k # j => queue'[k] = queue[k]
<1>1. MaxRetries \in 0..MaxRetries
  BY BoundAssumption
<1> QED BY <1>1 DEF RQTypeInv, Enqueue, QueueStates

LEMMA TypesNext == ASSUME RQInv, [Next]_vars PROVE RQTypeInv'
<1> USE DEF RQInv, RQTypeInv
<1>1. CASE UNCHANGED <<rqVars, apiVars>>
  BY <1>1
<1>2. ASSUME NEW w \in Workers, Finish(w) PROVE RQTypeInv'
  <2>1. at[w] \in Jobs
    BY <1>2 DEF Finish, Drained, Inv, RunnerInv, LeaseInv
  <2>2. CASE holder[at[w]] = w /\ raised[w] = "escaped"
    BY <1>2, <2>1, <2>2, RetryOrFailTypes DEF Finish
  <2>3. CASE ~(holder[at[w]] = w /\ raised[w] = "escaped")
    BY <1>2, <2>1, <2>3 DEF Finish, EndMessage, QueueStates
  <2> QED BY <2>2, <2>3
<1>3. ASSUME NEW w \in Workers, NEW j \in Jobs, Deliver(w, j) PROVE RQTypeInv'
  BY <1>3 DEF Deliver, QueueStates
<1>4. ASSUME NEW w \in Workers, Crash(w) PROVE RQTypeInv'
  <2>1. at[w] \in Jobs
    BY <1>4 DEF Crash, Inv, RunnerInv, LeaseInv
  <2> QED BY <1>4, <2>1, RetryOrFailTypes DEF Crash
<1>5. ASSUME NEW j \in Jobs, Abandon(j) PROVE RQTypeInv'
  BY <1>5, RetryOrFailTypes DEF Abandon
<1>6. ASSUME NEW j \in Jobs, Submit(j) \/ SubmitFails(j) \/ Reconcile(j) \/ Requeue(j)
      PROVE  RQTypeInv'
  BY <1>6, EnqueueTypes DEF Submit, SubmitFails, Reconcile, Requeue
<1>7. ASSUME NEW j \in Jobs,
             \/ TerminalFailure(j) \/ CallbackFails(j) \/ CreateJob(j) \/ FailSubmission(j)
             \/ SubmissionForgotten(j) \/ RemoveFromQueue(j)
      PROVE  RQTypeInv'
  BY <1>7 DEF TerminalFailure, CallbackFails, CreateJob, FailSubmission, SubmissionForgotten,
              NotInRedis, RemoveFromQueue, QueueStates
<1>8. ASSUME NEW j \in Jobs, CancelFails(j) PROVE RQTypeInv'
  <2>1. faults + 1 \in 0..MaxFaults
    BY <1>8, BoundAssumption DEF CancelFails
  <2> QED BY <1>8, <2>1 DEF CancelFails
<1>9. CASE ApiCrash
  <2>1. faults + 1 \in 0..MaxFaults
    BY <1>9, BoundAssumption DEF ApiCrash
  <2> QED BY <1>9, <2>1 DEF ApiCrash
<1>10. CASE ApiStart \/ ReconcileFails \/ ApiReady
  BY <1>10 DEF ApiStart, ReconcileFails, NotInRedis, ApiReady
<1>11. ASSUME NEW j \in Jobs,
              RequestCancel(j) \/ LockForCancel(j) \/ FinishCancel(j) \/ RemoveProject(j)
       PROVE  UNCHANGED <<rqVars, apiVars>>
  BY <1>11 DEF RequestCancel, LockForCancel, FinishCancel, RemoveProject
<1>12. ASSUME NEW w \in Workers, WorkerStep(w), ~Finish(w) PROVE UNCHANGED <<rqVars, apiVars>>
  BY <1>12 DEF WorkerStep, Load
<1>13. ASSUME NEW s \in Servers, ServerDrain(s) PROVE UNCHANGED <<rqVars, apiVars>>
  BY <1>13 DEF ServerDrain
<1>14. CASE DrainNext
  BY <1>1, <1>14 DEF DrainNext
<1>15. CASE UNCHANGED vars
  BY <1>1, <1>15 DEF vars
<1>16. CASE ApiStep
  BY <1>1, <1>6, <1>7, <1>8, <1>9, <1>10, <1>11, <1>13, <1>16 DEF ApiStep
<1>17. CASE StartWorker \/ RequeueFails
  <2>1. StartWorker => starts + 1 \in 0..MaxStarts
    BY BoundAssumption DEF StartWorker
  <2> QED BY <1>17, <2>1 DEF StartWorker, RequeueFails
<1>18. CASE RqStep
  BY <1>3, <1>4, <1>5, <1>6, <1>7, <1>17, <1>18 DEF RqStep
<1> QED BY <1>1, <1>2, <1>12, <1>14, <1>15, <1>16, <1>18 DEF Next

LEMMA NextStepOK == ASSUME RQInv, Next PROVE JobStepOK
<1> USE DEF RQInv
<1>1. ASSUME UNCHANGED <<status, object>> PROVE JobStepOK
  BY <1>1, FrameStep
<1>2. ASSUME NEW w \in Workers, WorkerStep(w) PROVE JobStepOK
  <2>1. CASE RunnerStep(w, CanceledInDb(at[w]))
    BY <2>1, RunnerStepOK
  <2>2. CASE ~RunnerStep(w, CanceledInDb(at[w]))
    BY <1>1, <1>2, <2>2 DEF WorkerStep, AcquireLease, Decide, BodyError, Escape, Load, Finish
  <2> QED BY <2>1, <2>2
<1>3. ASSUME NEW j \in Jobs, TerminalFailure(j) \/ FailSubmission(j) PROVE JobStepOK
  BY <1>3, TransactionStep DEF TerminalFailure, FailSubmission
<1>4. ASSUME NEW j \in Jobs, CreateJob(j) PROVE JobStepOK
  BY <1>4, TransactionStep DEF CreateJob, InsertJob
<1>5. ASSUME NEW j \in Jobs, RemoveProject(j) PROVE JobStepOK
  BY <1>5, TransactionStep DEF RemoveProject, DeleteProject
<1>6. ASSUME NEW j \in Jobs, FinishCancel(j) PROVE JobStepOK
  BY <1>6, TransactionStep DEF FinishCancel, CommitCancel
<1>7. CASE RqStep
  BY <1>1, <1>3, <1>7
  DEF RqStep, Deliver, Crash, Abandon, CallbackFails, Requeue, StartWorker, RequeueFails
<1>8. ASSUME NEW j \in Jobs,
             \/ Submit(j) \/ SubmitFails(j) \/ SubmissionForgotten(j) \/ RequestCancel(j) \/ LockForCancel(j)
             \/ RemoveFromQueue(j) \/ CancelFails(j) \/ Reconcile(j)
      PROVE  UNCHANGED <<status, object>>
  BY <1>8 DEF Submit, SubmitFails, SubmissionForgotten, RequestCancel, BeginCancel, LockForCancel, MarkCanceled,
              RemoveFromQueue, CancelFails, AbortCancel, Reconcile
<1>9. ASSUME NEW s \in Servers, ServerDrain(s) PROVE UNCHANGED <<status, object>>
  BY <1>9 DEF ServerDrain, SelectRows
<1>10. CASE ApiCrash \/ ApiStart \/ ReconcileFails \/ ApiReady
  BY <1>1, <1>10 DEF ApiCrash, ApiStart, ReconcileFails, ApiReady
<1>11. CASE ApiStep
  BY <1>1, <1>3, <1>4, <1>5, <1>6, <1>8, <1>9, <1>10, <1>11 DEF ApiStep
<1>12. CASE DrainNext
  BY <1>1, <1>12, DrainStepOK DEF DrainNext, EndDrain
<1> QED BY <1>2, <1>7, <1>11, <1>12 DEF Next

LEMMA KnownNext == ASSUME RQInv, [Next]_vars PROVE KnownJobs'
<1> USE DEF RQInv, KnownJobs
<1> DEFINE Unknown(j) == /\ queue[j] = "none" /\ holder[j] = NoWorker
                         /\ submission[j] = "none" /\ j \notin reconciling \cup requeuing
<1>1. CASE UNCHANGED vars
  BY <1>1 DEF vars
<1>2. CASE Next
  <2>1. ASSUME NEW j \in Jobs, status'[j] = "absent" PROVE Unknown(j)'
    <3>1. status[j] = "absent" /\ Unknown(j)
      BY <1>2, <2>1, NextStepOK DEF JobStepOK
    <3>2. CASE UNCHANGED <<queue, holder, submission, reconciling, requeuing>>
      BY <3>1, <3>2
    <3>3. ASSUME NEW w \in Workers, WorkerStep(w) PROVE Unknown(j)'
      <4>1. Finish(w) => at[w] \in Jobs /\ at[w] # j
        BY <3>1 DEF Finish, Drained, Inv, RunnerInv, LeaseInv
      <4>2. CASE ~Finish(w)
        BY <3>1, <3>3, <4>2 DEF WorkerStep, Load
      <4>3. CASE Finish(w) /\ holder[at[w]] = w /\ raised[w] = "escaped"
        BY <3>1, <4>1, <4>3, RetryOrFailTypes DEF Finish
      <4>4. CASE Finish(w) /\ ~(holder[at[w]] = w /\ raised[w] = "escaped")
        BY <3>1, <4>1, <4>4 DEF Finish, EndMessage, RQTypeInv
      <4> QED BY <4>2, <4>3, <4>4
    <3>4. ASSUME NEW w \in Workers, NEW k \in Jobs, Deliver(w, k) PROVE Unknown(j)'
      BY <3>1, <3>4 DEF Deliver, RQTypeInv
    <3>5. ASSUME NEW w \in Workers, Crash(w) PROVE Unknown(j)'
      <4>1. at[w] \in Jobs /\ at[w] # j
        BY <3>1, <3>5 DEF Crash, Inv, RunnerInv, LeaseInv
      <4> QED BY <3>1, <3>5, <4>1, RetryOrFailTypes DEF Crash
    <3>6. ASSUME NEW k \in Jobs, Abandon(k) PROVE Unknown(j)'
      BY <3>1, <3>6, RetryOrFailTypes DEF Abandon
    <3>7. ASSUME NEW k \in Jobs,
                 \/ TerminalFailure(k) \/ CallbackFails(k) \/ CreateJob(k) \/ FailSubmission(k)
                 \/ SubmissionForgotten(k) \/ RemoveFromQueue(k)
          PROVE  Unknown(j)'
      BY <2>1, <3>1, <3>7
      DEF TerminalFailure, CallbackFails, CreateJob, InsertJob, FailSubmission,
          SubmissionForgotten, RemoveFromQueue, RQTypeInv, Inv, TypeInv, TablesTypeOK
    <3>8. ASSUME NEW k \in Jobs, Submit(k) \/ SubmitFails(k) \/ Reconcile(k) \/ Requeue(k)
          PROVE  Unknown(j)'
      <4>1. submission[k] # "none" \/ k \in reconciling \cup requeuing
        BY <3>8 DEF Submit, SubmitFails, Reconcile, Requeue
      <4>2. k # j
        BY <3>1, <4>1
      <4> QED
        BY <3>1, <3>8, <4>2, EnqueueTypes DEF Submit, SubmitFails, Reconcile, Requeue, RQTypeInv
    <3>9. ASSUME NEW k \in Jobs,
                 \/ RequestCancel(k) \/ LockForCancel(k) \/ FinishCancel(k)
                 \/ CancelFails(k) \/ RemoveProject(k)
          PROVE  UNCHANGED <<queue, holder, submission, reconciling, requeuing>>
      BY <3>9 DEF RequestCancel, LockForCancel, FinishCancel, CancelFails, RemoveProject
    <3>10. ASSUME NEW s \in Servers, ServerDrain(s)
           PROVE  UNCHANGED <<queue, holder, submission, reconciling, requeuing>>
      BY <3>10 DEF ServerDrain
    <3>11. CASE ApiCrash \/ ApiStart \/ ReconcileFails \/ ApiReady
      BY <3>1, <3>11 DEF ApiCrash, ApiStart, ReconcileFails, ApiReady
    <3>15. CASE StartWorker \/ RequeueFails
      BY <3>1, <3>15 DEF StartWorker, RequeueFails
    <3>12. CASE RqStep
      BY <3>4, <3>5, <3>6, <3>7, <3>8, <3>12, <3>15 DEF RqStep
    <3>13. CASE ApiStep
      BY <3>2, <3>7, <3>8, <3>9, <3>10, <3>11, <3>13 DEF ApiStep
    <3>14. CASE DrainNext
      BY <3>2, <3>14 DEF DrainNext
    <3> QED BY <1>2, <3>3, <3>12, <3>13, <3>14 DEF Next
  <2> QED BY <2>1
<1> QED BY <1>1, <1>2

-----------------------------------------------------------------------------
(* The lifecycle of JobLifecycle, where the database is SQLite.            *)

LEMMA ClaimedNext == ASSUME RQInv, ClaimedInv, Next PROVE ClaimedInv'
<1> USE DEF RQInv
<1> DEFINE Claims(v) ==
      pc'[v] \in ClaimedSteps =>
          /\ at'[v] = at[v]
          /\ pc[v] \in ClaimedSteps \/ status'[at[v]] # "queued"
<1>1. SUFFICES ASSUME NEW v \in Workers PROVE Claims(v)
  BY NextStepOK, ClaimsLast
<1>2. CASE UNCHANGED workerVars
  BY <1>2
<1> USE DEF ClaimedSteps, ProducingSteps, Inv, TypeInv, RunnerTypeOK
<1>3. ASSUME NEW w \in Workers, WorkerStep(w) PROVE Claims(v)
  <2>1. CASE \/ AcquireLease(w, "load") \/ RunnerStep(w, CanceledInDb(at[w]))
             \/ Decide(w, CanceledInDb(at[w])) \/ BodyError(w) \/ Escape(w)
    BY <2>1, RunnerClaims
  <2>2. CASE Load(w) \/ Finish(w)
    BY <2>2 DEF Load, Finish, Unwind
  <2> QED BY <1>3, <2>1, <2>2 DEF WorkerStep
<1>4. CASE RqStep
  <2>1. ASSUME NEW w \in Workers, NEW j \in Jobs, Deliver(w, j) PROVE Claims(v)
    BY <2>1 DEF Deliver, Unwind
  <2>2. ASSUME NEW w \in Workers, Crash(w) PROVE Claims(v)
    BY <2>2 DEF Crash, Unwind
  <2>3. ASSUME NEW j \in Jobs,
               Abandon(j) \/ TerminalFailure(j) \/ CallbackFails(j) \/ Requeue(j)
        PROVE  UNCHANGED workerVars
    BY <2>3 DEF Abandon, TerminalFailure, CallbackFails, Requeue
  <2> QED BY <1>2, <1>4, <2>1, <2>2, <2>3 DEF RqStep, StartWorker, RequeueFails
<1>5. ASSUME NEW j \in Jobs,
             \/ CreateJob(j) \/ Submit(j) \/ SubmitFails(j) \/ FailSubmission(j)
             \/ SubmissionForgotten(j) \/ RequestCancel(j) \/ LockForCancel(j) \/ RemoveFromQueue(j) \/ FinishCancel(j)
             \/ CancelFails(j) \/ RemoveProject(j) \/ Reconcile(j)
      PROVE  UNCHANGED workerVars
  BY <1>5
  DEF CreateJob, Submit, SubmitFails, FailSubmission, SubmissionForgotten, RequestCancel, LockForCancel,
      RemoveFromQueue, FinishCancel, CancelFails, RemoveProject, Reconcile
<1>6. CASE ApiStep
  BY <1>2, <1>5, <1>6 DEF ApiStep, ServerDrain, ApiCrash, ApiStart, ReconcileFails, ApiReady
<1>7. CASE DrainNext
  BY <1>2, <1>7 DEF DrainNext
<1> QED BY <1>3, <1>4, <1>6, <1>7 DEF Next

\* A step that leaves statuses alone opens cancel requests of active jobs only.
LEMMA ClientNext ==
    ASSUME RQInv, Dialect = "sqlite", LifecycleInv, Next
    PROVE  ClientStep /\ CancelsActive'
<1> USE DEF RQInv, LifecycleInv
<1>1. ASSUME UNCHANGED status,
             \A j \in Jobs : cancelTx'[j] # "none" => cancelTx[j] # "none" \/ status[j] \in Active
      PROVE  ClientStep /\ CancelsActive'
  BY <1>1, QuietLifecycle
<1>2. ASSUME NEW w \in Workers, WorkerStep(w) PROVE ClientStep /\ CancelsActive'
  <2>1. CASE RunnerStep(w, CanceledInDb(at[w]))
    BY <2>1, RunnerLifecycle
  <2>2. CASE ~RunnerStep(w, CanceledInDb(at[w]))
    BY <1>1, <1>2, <2>2 DEF WorkerStep, AcquireLease, Decide, BodyError, Escape, Load, Finish
  <2> QED BY <2>1, <2>2
<1>3. ASSUME NEW j \in Jobs,
             TerminalFailure(j) \/ FailSubmission(j) \/ CreateJob(j) \/ RemoveProject(j)
      PROVE  ClientStep /\ CancelsActive'
  <2>1. UNCHANGED cancelTx
    BY <1>3
    DEF TerminalFailure, FailSubmission, CreateJob, RemoveProject, InsertJob, DeleteProject
  <2> QED
    BY <1>3, <2>1, TransactionLifecycle
    DEF TerminalFailure, FailSubmission, CreateJob, RemoveProject
<1>4. ASSUME NEW j \in Jobs, FinishCancel(j) PROVE ClientStep /\ CancelsActive'
  BY <1>4, CancelLifecycle DEF FinishCancel
<1>5. ASSUME NEW j \in Jobs,
             \/ Submit(j) \/ SubmitFails(j) \/ SubmissionForgotten(j) \/ RequestCancel(j) \/ LockForCancel(j)
             \/ RemoveFromQueue(j) \/ CancelFails(j) \/ Reconcile(j)
      PROVE  ClientStep /\ CancelsActive'
  BY <1>1, <1>5
  DEF Submit, SubmitFails, SubmissionForgotten, RequestCancel, BeginCancel, LockForCancel, MarkCanceled,
      RemoveFromQueue, CancelFails, AbortCancel, Reconcile, Inv, TypeInv, TablesTypeOK
<1>6. CASE RqStep
  BY <1>1, <1>3, <1>6
  DEF RqStep, Deliver, Crash, Abandon, CallbackFails, Requeue, StartWorker, RequeueFails
<1>7. CASE \/ \E s \in Servers : ServerDrain(s)
           \/ ApiCrash \/ ApiStart \/ ReconcileFails \/ ApiReady
  BY <1>1, <1>7 DEF ServerDrain, SelectRows, ApiCrash, ApiStart, ReconcileFails, ApiReady
<1>8. CASE ApiStep
  BY <1>3, <1>4, <1>5, <1>7, <1>8 DEF ApiStep
<1>9. CASE DrainNext
  BY <1>1, <1>9
  DEF DrainNext, EndDrain, DrainStep, CrossBarrier, ConfirmRow, EraseObject, EraseDeferred,
      DrainFails, AckRow
<1> QED BY <1>2, <1>6, <1>8, <1>9 DEF Next

LEMMA LifecycleNext ==
    ASSUME RQInv, Dialect = "sqlite", LifecycleInv, [Next]_vars
    PROVE  LifecycleInv' /\ ClientStep
<1>1. CASE Next
  BY <1>1, ClaimedNext, ClientNext DEF LifecycleInv
<1>2. CASE UNCHANGED vars
  BY <1>2 DEF vars, LifecycleInv, ClaimedInv, CancelsActive, ClientStep
<1> QED BY <1>1, <1>2

-----------------------------------------------------------------------------
(* The theorems.                                                           *)

\* RQInv is an inductive invariant of the specification.
THEOREM RQInvariance == Spec => []RQInv
<1>1. Init => RQInv
  BY RQInit
<1>2. RQInv /\ [Next]_vars => RQInv'
  BY NextInv, TypesNext, KnownNext DEF RQInv
<1> QED BY <1>1, <1>2, PTL DEF Spec

\* The variables keep their types.
THEOREM RQTypeCorrect == Spec => []TypeOK
<1>1. RQInv => TypeOK
  BY RQInvTypes
<1> QED BY <1>1, RQInvariance, PTL

\* A client that reads "succeeded" can download the artifact.
THEOREM RQSucceededOwnsArtifact == Spec => []SucceededOwnsArtifact
<1>1. RQInv => SucceededOwnsArtifact
  BY InvImplies DEF RQInv
<1> QED BY <1>1, RQInvariance, PTL

\* The object of a lost or deleted job is always on its way to deletion.
THEOREM RQNoOrphanedObject == Spec => []NoOrphanedObject
<1>1. RQInv => NoOrphanedObject
  BY InvImplies DEF RQInv
<1> QED BY <1>1, RQInvariance, PTL

\* A lost or deleted job keeps neither an artifact row nor a result.
THEOREM RQLoserOwnsNothing == Spec => []LoserOwnsNothing
<1>1. RQInv => LoserOwnsNothing
  BY InvImplies DEF RQInv
<1> QED BY <1>1, RQInvariance, PTL

\* Together: rows and objects of every job agree with its status.
THEOREM RQJobsOwnTheirObjects == Spec => []JobsOwnTheirObjects
<1>1. SucceededOwnsArtifact /\ NoOrphanedObject /\ LoserOwnsNothing => JobsOwnTheirObjects
  BY DEF JobsOwnTheirObjects
<1> QED
  BY <1>1, RQSucceededOwnsArtifact, RQNoOrphanedObject, RQLoserOwnsNothing, PTL

\* A lost job never becomes active again and never succeeds, and a finished
\* one is never run again, on either database.
THEOREM RQTerminalNeverReopens == Spec => TerminalNeverReopens
<1>1. RQInv /\ [Next]_vars => [\A j \in Jobs : StaysClosed(j)]_vars
  BY NextStepOK DEF JobStepOK
<1> QED BY <1>1, RQInvariance, PTL DEF Spec, TerminalNeverReopens

\* No step removes the object of a job that may still publish it or has.
THEOREM RQObjectOfLiveJobIsKept == Spec => ObjectOfLiveJobIsKept
<1>1. RQInv /\ [Next]_vars => [\A j \in Jobs : KeepsLiveObject(j)]_vars
  BY NextStepOK DEF JobStepOK
<1> QED BY <1>1, RQInvariance, PTL DEF Spec, ObjectOfLiveJobIsKept

\* On SQLite the invariant holds with the one of the lifecycle.
LEMMA RQLifecycleInvariance ==
    ASSUME Dialect = "sqlite" PROVE Spec => [](RQInv /\ LifecycleInv)
<1>1. Init => LifecycleInv
  BY DEF Init, TablesInit, RunnerInit, LifecycleInv, ClaimedInv, CancelsActive, ClaimedSteps,
         ProducingSteps
<1>2. RQInv /\ LifecycleInv /\ [Next]_vars => LifecycleInv'
  BY LifecycleNext
<1> QED BY <1>1, <1>2, RQInvariance, PTL DEF Spec

\* On SQLite a terminal status is final: only the deletion of the project
\* follows it.
THEOREM RQTerminalIsFinal ==
    ASSUME Dialect = "sqlite" PROVE Spec => TerminalIsFinal
<1>1. RQInv /\ LifecycleInv /\ [Next]_vars => [\A j \in Jobs : StaysTerminal(j)]_vars
  <2> SUFFICES ASSUME RQInv, LifecycleInv, [Next]_vars, NEW j \in Jobs PROVE StaysTerminal(j)
    OBVIOUS
  <2>1. ClientStep /\ status \in [Jobs -> Statuses]
    BY LifecycleNext DEF RQInv, Inv, TypeInv, TablesTypeOK
  <2> QED BY <2>1 DEF ClientStep, Follows, StaysTerminal, Active, Losers
<1> QED BY <1>1, RQLifecycleInvariance, PTL DEF Spec, TerminalIsFinal

\* On SQLite the back end implements the lifecycle clients rely on: through
\* duplicates, crashes and retries they see only its steps.
THEOREM RQImplementsLifecycle ==
    ASSUME Dialect = "sqlite" PROVE Spec => ImplementsLifecycle
<1>1. Init => Lifecycle!Init
  BY DEF Init, TablesInit, Lifecycle!Init
<1>2. RQInv /\ LifecycleInv /\ RQInv' /\ [Next]_vars => [Lifecycle!Next]_Lifecycle!vars
  BY LifecycleNext, LifecycleStep DEF RQInv
<1> QED
  BY <1>1, <1>2, RQLifecycleInvariance, PTL DEF Spec, ImplementsLifecycle, Lifecycle!Spec
=============================================================================
