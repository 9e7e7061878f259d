---------------------------- MODULE LocalJobsProofs ----------------------------
(***************************************************************************)
(* The safety of the local back end, for any number of jobs, threads and   *)
(* faults and both databases, and the honesty of the refusals of its       *)
(* cancel requests.                                                        *)
(***************************************************************************)
EXTENDS LocalJobs, JobRunnerProofs

USE DEF managerVars, apiVars, workerVars, drainVars, tables, Drainers, CancelPhases, Goto

\* The types of the variables this module adds.
LocalTypeInv ==
    /\ pool \subseteq Jobs
    /\ cancels \subseteq Jobs
    /\ event \in [Jobs -> BOOLEAN]
    /\ swallowed \subseteq Jobs
    /\ api \in {"up", "starting", "down"}
    /\ submission \subseteq Jobs
    /\ recovering \subseteq Jobs
    /\ faults \in 0..MaxFaults

\* Only jobs that were committed are submitted.
KnownJobs == \A j \in Jobs : status[j] = "absent" => j \notin pool \cup submission

\* Where an active job is: a serving process has its event, or is about to
\* register it, or its worker is past the decision, or its thread ended with an
\* exception; a starting process is going to fail it. Only a worker with such
\* an exception leaves an active job behind when it is done.
RegistryInv ==
    /\ \A j \in Jobs : cancelTx[j] # "none" => api = "up"
    /\ \A j \in Jobs :
        status[j] \in Active =>
            /\ api = "starting" => j \in recovering
            /\ api = "up" => \/ j \in submission \cup cancels \cup swallowed
                             \/ \E w \in Workers : at[w] = j /\ pc[w] \in PastDecision
    /\ \A w \in Workers :
        pc[w] \in {"cleanup", "release", "released", "drain"} =>
            status[at[w]] \notin Active \/ raised[w] = "escaped"

LocalInv == Inv /\ LocalTypeInv /\ KnownJobs /\ RegistryInv

LEMMA LocalInit == Init => LocalInv
<1> SUFFICES ASSUME Init PROVE LocalInv
  OBVIOUS
<1>1. Inv
  BY InitInv DEF Init
<1>2. LocalTypeInv
  BY BoundAssumption DEF Init, LocalTypeInv
<1>3. KnownJobs /\ RegistryInv
  BY DEF Init, KnownJobs, RegistryInv, TablesInit, RunnerInit, Active
<1> QED BY <1>1, <1>2, <1>3 DEF LocalInv

-----------------------------------------------------------------------------
(* RunnerInv is preserved by each kind of step.                            *)

LEMMA ThreadStepInv == ASSUME NEW w \in Workers, Inv, ThreadStep(w) PROVE Inv'
<1>1. CASE BeforeTerminal(w)
  BY <1>1, DecideInv DEF BeforeTerminal
<1>2. CASE Finish(w)
  BY <1>2, LeaveInv DEF Finish
<1>3. CASE AcquireLease(w, "claim")
  BY <1>3, AcquireLeaseInv
<1>4. CASE RunnerStep(w, Signalled(at[w]))
  BY <1>4, RunnerStepInv
<1> QED BY <1>1, <1>2, <1>3, <1>4 DEF ThreadStep

LEMMA CrashStepInv == ASSUME LocalInv, Crash PROVE Inv'
<1>1. /\ raised' \in [Workers -> Exceptions]
      /\ pc' = [w \in Workers |-> IF w \in Workers THEN "idle" ELSE pc[w]]
      /\ at' = [w \in Workers |-> IF w \in Workers THEN NoJob ELSE at[w]]
      /\ lease' = [j \in Jobs |-> IF lease[j] \in Workers THEN NoWorker ELSE lease[j]]
  BY DrainFacts DEF Crash, Exceptions, LocalInv
<1>2. Workers \in SUBSET Workers /\ Drainers \in SUBSET Drainers
  OBVIOUS
<1>3. /\ cancelTx' \in [Jobs -> CancelPhases]
      /\ \A j \in Jobs : cancelTx'[j] # "none" => cancelTx[j] # "none"
  BY DEF Crash
<1> QED BY <1>1, <1>2, <1>3, CrashInv DEF Crash, LocalInv

LEMMA JobRequestInv ==
    ASSUME NEW j \in Jobs, LocalInv,
           \/ CreateJob(j) \/ Submit(j)
           \/ RequestCancel(j) \/ SignalCancel(j) \/ RefuseCancel(j)
           \/ LockForCancel(j) \/ FinishCancel(j) \/ CancelFails(j)
           \/ RemoveProject(j) \/ RecoverJob(j)
    PROVE  Inv'
<1> USE DEF LocalInv
<1>1. CASE CreateJob(j)
  BY <1>1, InsertInv DEF CreateJob
<1>2. CASE Submit(j)
  BY <1>2, FrameInv DEF Submit, runnerVars
<1>3. CASE RequestCancel(j) \/ RefuseCancel(j) \/ FinishCancel(j) \/ CancelFails(j)
  BY <1>3, CancelStepInv DEF RequestCancel, RefuseCancel, FinishCancel, CancelFails
<1>4. CASE SignalCancel(j)
  BY <1>4, CancelTxInv DEF SignalCancel, Inv, TypeInv, TablesTypeOK, RunnerInv, CancelInv
<1>5. CASE LockForCancel(j)
  <2>1. "signalled" \in CancelPhases \ {"none"}
    OBVIOUS
  <2> QED BY <1>5, <2>1, CancelStepInv DEF LockForCancel
<1>6. CASE RemoveProject(j)
  BY <1>6, DeleteProjectInv DEF RemoveProject
<1>7. CASE RecoverJob(j)
  BY <1>7, FailPersistedInv DEF RecoverJob
<1> QED BY <1>1, <1>2, <1>3, <1>4, <1>5, <1>6, <1>7

LEMMA NextInv == ASSUME LocalInv, [Next]_vars PROVE Inv'
<1> USE DEF LocalInv
<1>1. CASE UNCHANGED vars
  BY <1>1, FrameInv DEF vars, runnerVars
<1>2. ASSUME NEW w \in Workers, ThreadStep(w) PROVE Inv'
  BY <1>2, ThreadStepInv
<1>3. ASSUME NEW w \in Workers, BodyError(w) \/ Escape(w) PROVE Inv'
  BY <1>3, BodyErrorInv, EscapeInv
<1>4. ASSUME NEW w \in Workers, NEW j \in Jobs, TakeJob(w, j) PROVE Inv'
  BY <1>4, DeliverInv DEF TakeJob, KnownJobs
<1>5. ASSUME NEW s \in Servers, ServerDrain(s) PROVE Inv'
  BY <1>5, SelectRowsInv DEF ServerDrain
<1>6. CASE Crash
  BY <1>6, CrashStepInv
<1>7. CASE StartProcess \/ Serve
  BY <1>7, FrameInv DEF StartProcess, Serve, runnerVars
<1>8. CASE ApiStep
  BY <1>5, <1>6, <1>7, <1>8, JobRequestInv DEF ApiStep
<1>9. ASSUME NEW d \in Drainers, DrainStep(d), UNCHANGED workerVars PROVE Inv'
  BY <1>9, DrainStepInv
<1>10. ASSUME NEW s \in Servers, EndDrain(s), UNCHANGED workerVars PROVE Inv'
  BY <1>10, EndDrainInv
<1>11. CASE DrainNext
  BY <1>9, <1>10, <1>11 DEF DrainNext
<1> QED BY <1>1, <1>2, <1>3, <1>4, <1>8, <1>11 DEF Next

-----------------------------------------------------------------------------
(* The other conjuncts.                                                    *)

LEMMA TypesNext == ASSUME LocalInv, [Next]_vars PROVE LocalTypeInv'
<1> USE DEF LocalInv, LocalTypeInv
<1>1. CASE UNCHANGED <<managerVars, apiVars>>
  BY <1>1
<1>2. ASSUME NEW w \in Workers, ThreadStep(w) PROVE LocalTypeInv'
  <2>1. Finish(w) => at[w] \in Jobs
    BY DEF Finish, Drained, Inv, RunnerInv, LeaseInv
  <2> QED BY <1>1, <1>2, <2>1 DEF ThreadStep, BeforeTerminal, Finish
<1>3. ASSUME NEW w \in Workers, NEW j \in Jobs, TakeJob(w, j) PROVE LocalTypeInv'
  BY <1>3 DEF TakeJob
<1>4. ASSUME NEW j \in Jobs,
             CreateJob(j) \/ Submit(j) \/ SignalCancel(j) \/ RecoverJob(j)
      PROVE  LocalTypeInv'
  BY <1>4 DEF CreateJob, Submit, SignalCancel, RecoverJob
<1>5. ASSUME NEW j \in Jobs, CancelFails(j) PROVE LocalTypeInv'
  <2>1. faults + 1 \in 0..MaxFaults
    BY <1>5, BoundAssumption DEF CancelFails
  <2> QED BY <1>5, <2>1 DEF CancelFails
<1>6. ASSUME NEW j \in Jobs,
             \/ RequestCancel(j) \/ RefuseCancel(j) \/ LockForCancel(j) \/ FinishCancel(j)
             \/ RemoveProject(j)
      PROVE  UNCHANGED <<managerVars, apiVars>>
  BY <1>6 DEF RequestCancel, RefuseCancel, LockForCancel, FinishCancel, RemoveProject
<1>7. CASE Crash
  <2>1. faults + 1 \in 0..MaxFaults
    BY <1>7, BoundAssumption DEF Crash
  <2> QED BY <1>7, <2>1 DEF Crash
<1>8. CASE StartProcess \/ Serve
  BY <1>8 DEF StartProcess, Serve
<1>9. ASSUME NEW s \in Servers, ServerDrain(s) PROVE UNCHANGED <<managerVars, apiVars>>
  BY <1>9 DEF ServerDrain
<1>10. CASE ApiStep
  BY <1>1, <1>4, <1>5, <1>6, <1>7, <1>8, <1>9, <1>10 DEF ApiStep
<1>11. CASE DrainNext \/ UNCHANGED vars
  BY <1>1, <1>11 DEF DrainNext, vars
<1> QED BY <1>1, <1>2, <1>3, <1>10, <1>11 DEF Next

LEMMA NextStepOK == ASSUME LocalInv, Next PROVE JobStepOK
<1> USE DEF LocalInv
<1>1. ASSUME UNCHANGED <<status, object>> PROVE JobStepOK
  BY <1>1, FrameStep
<1>2. ASSUME NEW w \in Workers, ThreadStep(w) PROVE JobStepOK
  <2>1. CASE RunnerStep(w, Signalled(at[w]))
    BY <2>1, RunnerStepOK
  <2>2. CASE ~RunnerStep(w, Signalled(at[w]))
    BY <1>1, <1>2, <2>2 DEF ThreadStep, AcquireLease, BeforeTerminal, Decide, Finish
  <2> QED BY <2>1, <2>2
<1>3. ASSUME NEW w \in Workers, BodyError(w) \/ Escape(w) \/ \E j \in Jobs : TakeJob(w, j)
      PROVE  JobStepOK
  BY <1>1, <1>3 DEF BodyError, Escape, TakeJob
<1>4. ASSUME NEW j \in Jobs, CreateJob(j) PROVE JobStepOK
  BY <1>4, TransactionStep DEF CreateJob, InsertJob
<1>5. ASSUME NEW j \in Jobs, RemoveProject(j) PROVE JobStepOK
  BY <1>5, TransactionStep DEF RemoveProject, DeleteProject
<1>6. ASSUME NEW j \in Jobs, FinishCancel(j) PROVE JobStepOK
  BY <1>6, TransactionStep DEF FinishCancel, CommitCancel
<1>7. ASSUME NEW j \in Jobs, RecoverJob(j) PROVE JobStepOK
  BY <1>7, TransactionStep DEF RecoverJob
<1>8. ASSUME NEW j \in Jobs,
             \/ Submit(j) \/ RequestCancel(j) \/ SignalCancel(j) \/ RefuseCancel(j)
             \/ LockForCancel(j) \/ CancelFails(j)
      PROVE  UNCHANGED <<status, object>>
  BY <1>8 DEF Submit, RequestCancel, BeginCancel, SignalCancel, RefuseCancel, LockForCancel,
              MarkCanceled, CancelFails, AbortCancel
<1>9. ASSUME NEW s \in Servers, ServerDrain(s) PROVE UNCHANGED <<status, object>>
  BY <1>9 DEF ServerDrain, SelectRows
<1>10. CASE Crash \/ StartProcess \/ Serve
  BY <1>1, <1>10 DEF Crash, StartProcess, Serve
<1>11. CASE ApiStep
  BY <1>1, <1>4, <1>5, <1>6, <1>7, <1>8, <1>9, <1>10, <1>11 DEF ApiStep
<1>12. CASE DrainNext
  BY <1>1, <1>12, DrainStepOK DEF DrainNext, EndDrain
<1> QED BY <1>2, <1>3, <1>11, <1>12 DEF Next

LEMMA KnownNext == ASSUME LocalInv, [Next]_vars PROVE KnownJobs'
<1> USE DEF LocalInv, KnownJobs
<1>1. CASE UNCHANGED vars
  BY <1>1 DEF vars
<1>2. CASE Next
  <2>1. ASSUME NEW j \in Jobs, status'[j] = "absent" PROVE j \notin pool' \cup submission'
    <3>1. status[j] = "absent" /\ j \notin pool \cup submission
      BY <1>2, <2>1, NextStepOK DEF JobStepOK
    <3>2. CASE pool' \subseteq pool /\ submission' \subseteq submission
      BY <3>1, <3>2
    <3>3. ASSUME NEW k \in Jobs, CreateJob(k) PROVE k # j
      BY <2>1, <3>3 DEF CreateJob, InsertJob, Inv, TypeInv, TablesTypeOK
    <3>4. CASE ApiStep
      BY <3>1, <3>2, <3>3, <3>4
      DEF ApiStep, CreateJob, Submit, RequestCancel, SignalCancel, RefuseCancel, LockForCancel,
          FinishCancel, CancelFails, RemoveProject, RecoverJob, ServerDrain, Crash,
          StartProcess, Serve
    <3> QED
      BY <1>2, <3>2, <3>4 DEF Next, ThreadStep, BeforeTerminal, Finish, TakeJob, DrainNext
  <2> QED BY <2>1
<1> QED BY <1>1, <1>2

-----------------------------------------------------------------------------
(* The registry of cancel events.                                          *)

Ended == {"cleanup", "release", "released", "drain"}

\* A step of a thread inside the job: it moves forward past the decision, and
\* comes to one of the last steps only once the job is over or with an exception
\* that nothing caught.
LEMMA RunnerPath ==
    ASSUME NEW w \in Workers, NEW cancelled, Inv,
           RunnerStep(w, cancelled) \/ BodyError(w) \/ Escape(w) \/ AcquireLease(w, "claim")
    PROVE  /\ at' = at
           /\ \A v \in Workers : v # w => pc'[v] = pc[v] /\ raised'[v] = raised[v]
           /\ pc[w] \in PastDecision => pc'[w] \in PastDecision
           /\ pc'[w] \in Ended => \/ pc[w] \in Ended /\ raised'[w] = raised[w]
                                 \/ status'[at[w]] \notin Active \/ raised'[w] = "escaped"
<1> DEFINE Goal == /\ at' = at
                   /\ \A v \in Workers : v # w => pc'[v] = pc[v] /\ raised'[v] = raised[v]
                   /\ pc[w] \in PastDecision => pc'[w] \in PastDecision
                   /\ pc'[w] \in Ended =>
                         \/ pc[w] \in Ended /\ raised'[w] = raised[w]
                         \/ status'[at[w]] \notin Active \/ raised'[w] = "escaped"
<1> USE DEF PastDecision, Ended, Inv, TypeInv, RunnerTypeOK
<1>1. CASE Claim(w) \/ PublishSuccess(w) \/ PublishCanceled(w) \/ PublishFailure(w)
  <2>1. at[w] \in Jobs /\ status \in [Jobs -> Statuses]
    BY <1>1
    DEF Claim, PublishSuccess, PublishCanceled, PublishFailure, RunnerInv, LeaseInv, TablesTypeOK
  <2>2. CASE Claim(w)
    BY <2>1, <2>2 DEF Claim, ClaimJob
  <2>3. CASE PublishSuccess(w)
    BY <2>1, <2>3 DEF PublishSuccess, PublishSucceededJob, Active
  <2>4. CASE PublishCanceled(w)
    BY <2>1, <2>4 DEF PublishCanceled, PublishCanceledJob, EndWithoutOutput, Active
  <2>5. CASE PublishFailure(w)
    BY <2>1, <2>5 DEF PublishFailure, FailPersistedJob, EndWithoutOutput, Active
  <2> QED BY <1>1, <2>2, <2>3, <2>4, <2>5
<1>2. CASE Prepare(w, cancelled) \/ Recover(w) \/ Produce(w) \/ CheckProduced(w, cancelled)
  BY <1>2 DEF Prepare, Recover, Produce, CheckProduced, Unwind
<1>3. CASE Persist(w) \/ CheckPersisted(w, cancelled) \/ CleanupResult(w)
  BY <1>3 DEF Persist, CheckPersisted, CleanupResult, Unwind
<1>4. CASE Rollback(w) \/ EraseProduced(w) \/ EraseFails(w)
  BY <1>4 DEF Rollback, EraseProduced, EraseFails, AfterRollback, Unwind
<1>5. CASE Release(w) \/ DrainOwnRows(w) \/ AcquireLease(w, "claim")
  BY <1>5 DEF Release, DrainOwnRows, AcquireLease
<1>6. CASE BodyError(w) \/ Escape(w)
  BY <1>6 DEF BodyError, Escape, Unwind, ProducingSteps, GuardedSteps
<1> QED BY <1>1, <1>2, <1>3, <1>4, <1>5, <1>6 DEF RunnerStep

\* Such a step creates no job, and requests no cancellation.
LEMMA RunnerCreatesNothing ==
    ASSUME NEW w \in Workers, NEW cancelled, Inv,
           RunnerStep(w, cancelled) \/ BodyError(w) \/ Escape(w) \/ AcquireLease(w, "claim")
    PROVE  UNCHANGED cancelTx /\ \A j \in Jobs : ~InsertJob(j)
<1> USE DEF Inv, TypeInv, TablesTypeOK
<1>1. ASSUME UNCHANGED <<status, cancelTx>>
      PROVE  UNCHANGED cancelTx /\ \A j \in Jobs : ~InsertJob(j)
  BY <1>1 DEF InsertJob
<1>2. CASE Claim(w) \/ PublishSuccess(w) \/ PublishCanceled(w) \/ PublishFailure(w)
  <2>1. UNCHANGED cancelTx /\ at[w] \in Jobs /\ status[at[w]] # "absent"
    BY <1>2
    DEF Claim, PublishSuccess, PublishCanceled, PublishFailure, RunnerInv, LeaseInv
  <2>2. \/ UNCHANGED status
        \/ \E new \in Statuses : status' = [status EXCEPT ![at[w]] = new]
    BY <1>2
    DEF Claim, ClaimJob, PublishSuccess, PublishSucceededJob, PublishCanceled,
        PublishCanceledJob, PublishFailure, FailPersistedJob, EndWithoutOutput,
        Statuses, Active, Losers
  <2> QED BY <2>1, <2>2 DEF InsertJob
<1>3. CASE \/ Prepare(w, cancelled) \/ Recover(w) \/ Produce(w) \/ CheckProduced(w, cancelled)
           \/ Persist(w) \/ CheckPersisted(w, cancelled) \/ CleanupResult(w) \/ Rollback(w)
           \/ EraseProduced(w) \/ EraseFails(w) \/ Release(w) \/ DrainOwnRows(w)
           \/ BodyError(w) \/ Escape(w) \/ AcquireLease(w, "claim")
  <2>1. UNCHANGED <<status, cancelTx>>
    BY <1>3
    DEF Prepare, Recover, Produce, CheckProduced, Persist, PersistJobArtifact, CheckPersisted,
        CleanupResult, CleanupJobResult, Rollback, RollbackJobArtifact, EraseProduced,
        EraseFails, Release, DrainOwnRows, SelectRows, BodyError, Escape, AcquireLease
  <2> QED BY <1>1, <2>1
<1> QED BY <1>2, <1>3 DEF RunnerStep

LEMMA RegistryNext == ASSUME LocalInv, [Next]_vars PROVE RegistryInv'
<1> USE DEF LocalInv
<1>1. CASE UNCHANGED vars
  BY <1>1 DEF vars, RegistryInv
<1> SUFFICES ASSUME Next PROVE RegistryInv'
  BY <1>1
<1>2. \A j \in Jobs : status'[j] \in Active => status[j] \in Active \/ InsertJob(j)
  BY NextStepOK DEF JobStepOK
<1>3. \A w \in Workers : pc[w] # "idle" => at[w] \in Jobs /\ ~InsertJob(at[w])
  BY DEF Inv, RunnerInv, LeaseInv, InsertJob
\* Steps that leave the workers alone and create nothing.
<1>4. ASSUME UNCHANGED workerVars, api' = api, recovering' = recovering,
             submission \cup cancels \subseteq submission' \cup cancels', swallowed' = swallowed,
             \A j \in Jobs : ~InsertJob(j),
             \A j \in Jobs : cancelTx'[j] # "none" => cancelTx[j] # "none" \/ api = "up"
      PROVE  RegistryInv'
  BY <1>2, <1>4, <1>3 DEF RegistryInv
<1>5. ASSUME NEW w \in Workers, UNCHANGED <<managerVars, apiVars, cancelTx>>,
             \/ RunnerStep(w, Signalled(at[w])) \/ BodyError(w) \/ Escape(w)
             \/ AcquireLease(w, "claim"),
             \A j \in Jobs : ~InsertJob(j)
      PROVE  RegistryInv'
  <2>1. /\ at' = at
        /\ \A v \in Workers : v # w => pc'[v] = pc[v] /\ raised'[v] = raised[v]
        /\ pc[w] \in PastDecision => pc'[w] \in PastDecision
        /\ pc'[w] \in Ended => \/ pc[w] \in Ended /\ raised'[w] = raised[w]
                              \/ status'[at[w]] \notin Active \/ raised'[w] = "escaped"
    BY <1>5, RunnerPath
  <2>2. \A v \in Workers :
          pc[v] \in Ended => status'[at[v]] \notin Active \/ raised[v] = "escaped"
    BY <1>2, <1>3, <1>5 DEF RegistryInv, Ended
  <2> QED BY <1>2, <1>5, <2>1, <2>2 DEF RegistryInv, Ended
<1>6. ASSUME NEW w \in Workers, BeforeTerminal(w) PROVE RegistryInv'
  BY <1>6 DEF BeforeTerminal, Decide, RegistryInv, PastDecision, Inv, TypeInv, RunnerTypeOK
<1>7. ASSUME NEW w \in Workers, Finish(w) PROVE RegistryInv'
  BY <1>7 DEF Finish, Drained, Unwind, RegistryInv, PastDecision, Inv, TypeInv, RunnerTypeOK
<1>8. ASSUME NEW w \in Workers, NEW j \in Jobs, TakeJob(w, j) PROVE RegistryInv'
  BY <1>8 DEF TakeJob, Unwind, RegistryInv, PastDecision, Inv, TypeInv, RunnerTypeOK
<1>9. ASSUME NEW j \in Jobs, CreateJob(j) PROVE RegistryInv'
  <2>1. /\ status' = [status EXCEPT ![j] = "queued"] /\ status[j] = "absent"
        /\ submission' = submission \cup {j} /\ api = "up" /\ api' = "up"
        /\ UNCHANGED <<cancelTx, cancels, swallowed, recovering, pc, at, raised>>
    BY <1>9 DEF CreateJob, InsertJob
  <2>2. \A w \in Workers : pc[w] # "idle" => at[w] # j
    BY <2>1 DEF Inv, RunnerInv, LeaseInv
  <2> QED BY <2>1, <2>2 DEF RegistryInv, Inv, TypeInv, TablesTypeOK
<1>10. ASSUME NEW j \in Jobs,
              \/ Submit(j) \/ RequestCancel(j) \/ SignalCancel(j) \/ RefuseCancel(j)
              \/ LockForCancel(j) \/ FinishCancel(j) \/ CancelFails(j) \/ RemoveProject(j)
       PROVE  RegistryInv'
  <2>1. /\ UNCHANGED workerVars /\ api' = api /\ recovering' = recovering
        /\ submission \cup cancels \subseteq submission' \cup cancels' /\ swallowed' = swallowed
    BY <1>10 DEF Submit, RequestCancel, SignalCancel, RefuseCancel, LockForCancel, FinishCancel,
                 CancelFails, RemoveProject
  <2>2. \A k \in Jobs : cancelTx'[k] # "none" => cancelTx[k] # "none" \/ api = "up"
    BY <1>10 DEF Submit, RequestCancel, BeginCancel, SignalCancel, RefuseCancel, LockForCancel,
                 MarkCanceled, FinishCancel, CommitCancel, CancelFails, AbortCancel,
                 RemoveProject, DeleteProject, Inv, TypeInv, TablesTypeOK
  <2>3. \A k \in Jobs : status[k] = "absent" => status'[k] = "absent"
    BY <1>10 DEF Submit, RequestCancel, BeginCancel, SignalCancel, RefuseCancel, LockForCancel,
                 MarkCanceled, FinishCancel, CommitCancel, EndWithoutOutput, CancelFails,
                 AbortCancel, RemoveProject, DeleteProject, Inv, TypeInv, TablesTypeOK,
                 RunnerInv, CancelInv, Losers, Gone
  <2>4. \A k \in Jobs : ~InsertJob(k)
    BY <2>3 DEF InsertJob, Inv, TypeInv, TablesTypeOK
  <2> QED BY <1>4, <2>1, <2>2, <2>4
<1>11. ASSUME NEW j \in Jobs, RecoverJob(j) PROVE RegistryInv'
  <2>1. /\ status'[j] \notin Active
        /\ \A k \in Jobs : status'[k] \in Active => status[k] \in Active
    BY <1>11 DEF RecoverJob, FailPersistedJob, EndWithoutOutput, Active, Inv, TypeInv, TablesTypeOK
  <2>2. /\ UNCHANGED <<workerVars, cancelTx, cancels, swallowed, submission, api>>
        /\ recovering' = recovering \ {j}
    BY <1>11 DEF RecoverJob
  <2> QED BY <1>3, <2>1, <2>2 DEF RegistryInv
<1>12. CASE Crash
  BY <1>12 DEF Crash, RegistryInv
<1>13. CASE StartProcess
  BY <1>13 DEF StartProcess, RegistryInv
<1>14. CASE Serve
  BY <1>14 DEF Serve, RegistryInv
<1>15. ASSUME NEW s \in Servers, ServerDrain(s) PROVE RegistryInv'
  BY <1>4, <1>15 DEF ServerDrain, SelectRows, InsertJob, Inv, TypeInv, TablesTypeOK
<1>16. CASE DrainNext
  <2>1. UNCHANGED <<workerVars, managerVars, apiVars, cancelTx, status>>
    BY <1>16 DEF DrainNext, DrainStep, CrossBarrier, ConfirmRow, EraseObject, EraseDeferred,
                 DrainFails, AckRow, EndDrain
  <2>2. \A j \in Jobs : ~InsertJob(j)
    BY <2>1 DEF InsertJob, Inv, TypeInv, TablesTypeOK
  <2> QED BY <1>4, <2>1, <2>2
<1>17. CASE ApiStep
  BY <1>9, <1>10, <1>11, <1>12, <1>13, <1>14, <1>15, <1>17 DEF ApiStep
<1>18. ASSUME NEW w \in Workers,
              \/ RunnerStep(w, Signalled(at[w])) \/ BodyError(w) \/ Escape(w)
              \/ AcquireLease(w, "claim"),
              UNCHANGED <<managerVars, apiVars>>
       PROVE  RegistryInv'
  <2>1. UNCHANGED cancelTx /\ \A j \in Jobs : ~InsertJob(j)
    BY <1>18, RunnerCreatesNothing
  <2> QED BY <1>5, <1>18, <2>1
<1> QED BY <1>6, <1>7, <1>8, <1>16, <1>17, <1>18 DEF Next, ThreadStep

-----------------------------------------------------------------------------
(* The lifecycle of JobLifecycle, where the database is SQLite.            *)

LEMMA ClaimedNext == ASSUME LocalInv, ClaimedInv, Next PROVE ClaimedInv'
<1> USE DEF LocalInv
<1> DEFINE Claims(v) ==
      pc'[v] \in ClaimedSteps =>
          /\ at'[v] = at[v]
          /\ pc[v] \in ClaimedSteps \/ status'[at[v]] # "queued"
<1>1. SUFFICES ASSUME NEW v \in Workers PROVE Claims(v)
  BY NextStepOK, ClaimsLast
<1>2. CASE UNCHANGED workerVars
  BY <1>2
<1> USE DEF ClaimedSteps, ProducingSteps, Inv, TypeInv, RunnerTypeOK
<1>3. ASSUME NEW w \in Workers,
             \/ AcquireLease(w, "claim") \/ RunnerStep(w, Signalled(at[w]))
             \/ Decide(w, event[at[w]]) \/ BodyError(w) \/ Escape(w)
      PROVE  Claims(v)
  BY <1>3, RunnerClaims
<1>4. ASSUME NEW w \in Workers, Finish(w) PROVE Claims(v)
  BY <1>4 DEF Finish, Unwind
<1>5. ASSUME NEW w \in Workers, NEW j \in Jobs, TakeJob(w, j) PROVE Claims(v)
  BY <1>5 DEF TakeJob, Unwind
<1>6. CASE Crash
  BY <1>6 DEF Crash
<1>7. ASSUME NEW j \in Jobs,
             \/ CreateJob(j) \/ Submit(j) \/ RequestCancel(j) \/ SignalCancel(j)
             \/ RefuseCancel(j) \/ LockForCancel(j) \/ FinishCancel(j) \/ CancelFails(j)
             \/ RemoveProject(j) \/ RecoverJob(j)
      PROVE  UNCHANGED workerVars
  BY <1>7
  DEF CreateJob, Submit, RequestCancel, SignalCancel, RefuseCancel, LockForCancel,
      FinishCancel, CancelFails, RemoveProject, RecoverJob
<1>8. CASE ApiStep
  BY <1>2, <1>6, <1>7, <1>8 DEF ApiStep, ServerDrain, StartProcess, Serve
<1>9. CASE DrainNext
  BY <1>2, <1>9 DEF DrainNext
<1> QED BY <1>3, <1>4, <1>5, <1>8, <1>9 DEF Next, ThreadStep, BeforeTerminal

\* A step that leaves statuses alone opens cancel requests of active jobs only.
LEMMA ClientNext ==
    ASSUME LocalInv, Dialect = "sqlite", LifecycleInv, Next
    PROVE  ClientStep /\ CancelsActive'
<1> USE DEF LocalInv, LifecycleInv
<1>1. ASSUME UNCHANGED status,
             \A j \in Jobs : cancelTx'[j] # "none" => cancelTx[j] # "none" \/ status[j] \in Active
      PROVE  ClientStep /\ CancelsActive'
  BY <1>1, QuietLifecycle
<1>2. ASSUME NEW w \in Workers, ThreadStep(w) PROVE ClientStep /\ CancelsActive'
  <2>1. CASE RunnerStep(w, Signalled(at[w]))
    BY <2>1, RunnerLifecycle
  <2>2. CASE ~RunnerStep(w, Signalled(at[w]))
    BY <1>1, <1>2, <2>2 DEF ThreadStep, AcquireLease, BeforeTerminal, Decide, Finish
  <2> QED BY <2>1, <2>2
<1>3. ASSUME NEW w \in Workers, BodyError(w) \/ Escape(w) \/ \E j \in Jobs : TakeJob(w, j)
      PROVE  ClientStep /\ CancelsActive'
  BY <1>1, <1>3 DEF BodyError, Escape, TakeJob
<1>4. ASSUME NEW j \in Jobs, CreateJob(j) \/ RemoveProject(j) \/ RecoverJob(j)
      PROVE  ClientStep /\ CancelsActive'
  <2>1. UNCHANGED cancelTx
    BY <1>4 DEF CreateJob, RemoveProject, RecoverJob, InsertJob, DeleteProject
  <2> QED BY <1>4, <2>1, TransactionLifecycle DEF CreateJob, RemoveProject, RecoverJob
<1>5. ASSUME NEW j \in Jobs, FinishCancel(j) PROVE ClientStep /\ CancelsActive'
  BY <1>5, CancelLifecycle DEF FinishCancel
<1>6. ASSUME NEW j \in Jobs,
             \/ Submit(j) \/ RequestCancel(j) \/ SignalCancel(j) \/ RefuseCancel(j)
             \/ LockForCancel(j) \/ CancelFails(j)
      PROVE  ClientStep /\ CancelsActive'
  BY <1>1, <1>6
  DEF Submit, RequestCancel, BeginCancel, SignalCancel, RefuseCancel, LockForCancel,
      MarkCanceled, CancelFails, AbortCancel, Inv, TypeInv, TablesTypeOK
<1>7. CASE \/ \E s \in Servers : ServerDrain(s)
           \/ Crash \/ StartProcess \/ Serve
  BY <1>1, <1>7 DEF ServerDrain, SelectRows, Crash, StartProcess, Serve
<1>8. CASE ApiStep
  BY <1>4, <1>5, <1>6, <1>7, <1>8 DEF ApiStep
<1>9. CASE DrainNext
  BY <1>1, <1>9
  DEF DrainNext, EndDrain, DrainStep, CrossBarrier, ConfirmRow, EraseObject, EraseDeferred,
      DrainFails, AckRow
<1> QED BY <1>2, <1>3, <1>8, <1>9 DEF Next

LEMMA LifecycleNext ==
    ASSUME LocalInv, Dialect = "sqlite", LifecycleInv, [Next]_vars
    PROVE  LifecycleInv' /\ ClientStep
<1>1. CASE Next
  BY <1>1, ClaimedNext, ClientNext DEF LifecycleInv
<1>2. CASE UNCHANGED vars
  BY <1>2 DEF vars, LifecycleInv, ClaimedInv, CancelsActive, ClientStep
<1> QED BY <1>1, <1>2

-----------------------------------------------------------------------------
(* The theorems.                                                           *)

\* LocalInv is an inductive invariant of the specification.
THEOREM LocalInvariance == Spec => []LocalInv
<1>1. Init => LocalInv
  BY LocalInit
<1>2. LocalInv /\ [Next]_vars => LocalInv'
  BY NextInv, TypesNext, KnownNext, RegistryNext DEF LocalInv
<1> QED BY <1>1, <1>2, PTL DEF Spec

\* The variables keep their types.
THEOREM LocalTypeCorrect == Spec => []TypeOK
<1>1. LocalInv => TypeOK
  BY DEF LocalInv, LocalTypeInv, Inv, TypeInv, TypeOK
<1> QED BY <1>1, LocalInvariance, PTL

\* A client that reads "succeeded" can download the artifact.
THEOREM LocalSucceededOwnsArtifact == Spec => []SucceededOwnsArtifact
<1>1. LocalInv => SucceededOwnsArtifact
  BY InvImplies DEF LocalInv
<1> QED BY <1>1, LocalInvariance, PTL

\* The object of a lost or deleted job is always on its way to deletion.
THEOREM LocalNoOrphanedObject == Spec => []NoOrphanedObject
<1>1. LocalInv => NoOrphanedObject
  BY InvImplies DEF LocalInv
<1> QED BY <1>1, LocalInvariance, PTL

\* A lost or deleted job keeps neither an artifact row nor a result.
THEOREM LocalLoserOwnsNothing == Spec => []LoserOwnsNothing
<1>1. LocalInv => LoserOwnsNothing
  BY InvImplies DEF LocalInv
<1> QED BY <1>1, LocalInvariance, PTL

\* Together: rows and objects of every job agree with its status.
THEOREM LocalJobsOwnTheirObjects == Spec => []JobsOwnTheirObjects
<1>1. SucceededOwnsArtifact /\ NoOrphanedObject /\ LoserOwnsNothing => JobsOwnTheirObjects
  BY DEF JobsOwnTheirObjects
<1> QED
  BY <1>1, LocalSucceededOwnsArtifact, LocalNoOrphanedObject, LocalLoserOwnsNothing, PTL

\* A finished job is never run again and a lost one never succeeds.
THEOREM LocalTerminalNeverReopens == Spec => TerminalNeverReopens
<1>1. LocalInv /\ [Next]_vars => [\A j \in Jobs : StaysClosed(j)]_vars
  BY NextStepOK DEF JobStepOK
<1> QED BY <1>1, LocalInvariance, PTL DEF Spec, TerminalNeverReopens

\* No step removes the object of a job that may still publish it or has.
THEOREM LocalObjectOfLiveJobIsKept == Spec => ObjectOfLiveJobIsKept
<1>1. LocalInv /\ [Next]_vars => [\A j \in Jobs : KeepsLiveObject(j)]_vars
  BY NextStepOK DEF JobStepOK
<1> QED BY <1>1, LocalInvariance, PTL DEF Spec, ObjectOfLiveJobIsKept

\* A cancel request finds no event only where RegistryInv says the job is: not
\* yet submitted, decided, over, or abandoned by a thread that raised.
THEOREM LocalRefusalIsHonest == Spec => RefusalIsHonest
<1> DEFINE Honest ==
      \A j \in Jobs :
        RefuseCancel(j) =>
            \/ j \in submission
            \/ status[j] \notin Active
            \/ j \in swallowed
            \/ \E w \in Workers : at[w] = j /\ pc[w] \in PastDecision
<1>1. LocalInv /\ [Next]_vars => [Honest]_vars
  BY DEF LocalInv, RegistryInv, RefuseCancel
<1> QED BY <1>1, LocalInvariance, PTL DEF Spec, RefusalIsHonest

\* On SQLite the back end implements the lifecycle clients rely on: through
\* cancellation by event and by status, crashes and recovery they see only its
\* steps.
THEOREM LocalImplementsLifecycle ==
    ASSUME Dialect = "sqlite" PROVE Spec => ImplementsLifecycle
<1>1. Init => LifecycleInv /\ Lifecycle!Init
  BY DEF Init, TablesInit, RunnerInit, LifecycleInv, ClaimedInv, CancelsActive, ClaimedSteps,
         ProducingSteps, Lifecycle!Init
<1>2. LocalInv /\ LifecycleInv /\ [Next]_vars => LifecycleInv'
  BY LifecycleNext
<1>3. LocalInv /\ LifecycleInv /\ LocalInv' /\ [Next]_vars => [Lifecycle!Next]_Lifecycle!vars
  BY LifecycleNext, LifecycleStep DEF LocalInv
<1> QED
  BY <1>1, <1>2, <1>3, LocalInvariance, PTL DEF Spec, ImplementsLifecycle, Lifecycle!Spec
=============================================================================
