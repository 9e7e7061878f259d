------------------------------- MODULE RQJobs -------------------------------
(***************************************************************************)
(* The Redis/RQ back end: RQJobManager in the API, run_persisted_job in    *)
(* the workers, and RQ between them. RQ itself (the queue, its unique job  *)
(* ids, its retries, its abandoned-job registry and its failure callback)  *)
(* is external and modelled from how rq_worker.py and jobs.py use it:      *)
(*   - a deterministic RQ id is enqueued at most once;                     *)
(*   - a delivery that dies, or that RQ believes dead, is delivered again  *)
(*     while retries are left, and reaches the failure callback otherwise. *)
(*                                                                         *)
(* Bounds: every job is created once; MaxRetries deliveries may fail and   *)
(* MaxFaults times the API may die or a cancel request may fail at its     *)
(* commit; MaxStarts worker processes are started anew. These are the only *)
(* counters.                                                               *)
(***************************************************************************)
EXTENDS JobRunner

CONSTANTS
    MaxRetries,     \* settings.job_queue_max_retries
    MaxFaults,      \* bound: crashes of the API and cancel requests that fail
    MaxStarts       \* bound: starts of worker processes

ASSUME BoundAssumption == MaxRetries \in Nat /\ MaxFaults \in Nat /\ MaxStarts \in Nat

VARIABLES
    queue,          \* where RQ has the job's message
    retries,        \* rq_job.retries_left
    holder,         \* the worker RQ believes to run the message
    api,            \* the API process: up, starting or down
    submission,     \* what create_job has still to do after its commit
    reconciling,    \* jobs a starting API has read as queued and will enqueue
    requeuing,      \* the same of a starting worker process (rq_worker.main)
    unsent,         \* jobs RQ never had and the API has given up until its next start
    faults,
    starts

rqVars == <<queue, retries, holder, requeuing, starts>>
apiVars == <<api, submission, reconciling, unsent, faults>>
vars == <<tables, object, cancelTx, lease, drainVars, workerVars, rqVars, apiVars>>

QueueStates == {"none", "queued", "started", "failing", "ended", "removed", "lost"}

TypeOK ==
    /\ TablesTypeOK
    /\ OutboxTypeOK
    /\ RunnerTypeOK
    /\ queue \in [Jobs -> QueueStates]
    /\ retries \in [Jobs -> 0..MaxRetries]
    /\ holder \in [Jobs -> Workers \cup {NoWorker}]
    /\ api \in {"up", "starting", "down"}
    /\ submission \in [Jobs -> {"none", "pending", "refused"}]
    /\ reconciling \subseteq Jobs
    /\ requeuing \subseteq Jobs
    /\ unsent \subseteq Jobs
    /\ faults \in 0..MaxFaults
    /\ starts \in 0..MaxStarts

Init ==
    /\ TablesInit
    /\ OutboxInit
    /\ RunnerInit
    /\ queue = [j \in Jobs |-> "none"]
    /\ retries = [j \in Jobs |-> 0]
    /\ holder = [j \in Jobs |-> NoWorker]
    /\ api = "up"
    /\ submission = [j \in Jobs |-> "none"]
    /\ reconciling = {}
    /\ requeuing = {}
    /\ unsent = {}
    /\ faults = 0
    /\ starts = 0

-----------------------------------------------------------------------------
(* Redis and RQ.                                                           *)

\* Queue.enqueue(unique=True): a known id raises DuplicateJobError, which
\* both callers take for success.
Enqueue(j) ==
    IF queue[j] = "none"
    THEN /\ queue' = [queue EXCEPT ![j] = "queued"]
         /\ retries' = [retries EXCEPT ![j] = MaxRetries]
    ELSE UNCHANGED <<queue, retries>>

\* Mutant: the retries are never used up.
RetryForEver(j) ==
    /\ holder' = [holder EXCEPT ![j] = NoWorker]
    /\ queue' = [queue EXCEPT ![j] = "queued"]
    /\ retries' = [retries EXCEPT ![j] = @ - 1]
    /\ UNCHANGED <<requeuing, starts>>

\* A delivery failed: RQ retries it or runs the failure callback.
RetryOrFail(j) ==
    /\ holder' = [holder EXCEPT ![j] = NoWorker]
    /\ IF retries[j] > 0
       THEN /\ queue' = [queue EXCEPT ![j] = "queued"]
            /\ retries' = [retries EXCEPT ![j] = @ - 1]
       ELSE queue' = [queue EXCEPT ![j] = "failing"] /\ UNCHANGED retries
    /\ UNCHANGED <<requeuing, starts>>

Deliver(w, j) ==
    /\ pc[w] = "idle" /\ queue[j] = "queued"
    /\ queue' = [queue EXCEPT ![j] = "started"]
    /\ holder' = [holder EXCEPT ![j] = w]
    /\ at' = [at EXCEPT ![w] = j]
    /\ Unwind(w, "none", "lease")
    /\ UNCHANGED <<tables, object, cancelTx, lease, drainVars, retries, requeuing, starts, apiVars>>

\* run_persisted_job reads the job again once it has the lease.
Load(w) ==
    /\ pc[w] = "load"
    /\ Goto(w, IF status[at[w]] \in Active THEN "claim" ELSE "release")
    /\ UNCHANGED <<tables, object, cancelTx, lease, drainVars, at, raised, rqVars, apiVars>>

\* The message is done; RQ only hears of it from the worker it waits for.
EndMessage(j) ==
    /\ queue' = [queue EXCEPT ![j] = "ended"]
    /\ holder' = [holder EXCEPT ![j] = NoWorker]
    /\ UNCHANGED <<retries, requeuing, starts>>

\* execute_job returns or raises: RQ takes an exception for a failed delivery.
Finish(w) ==
    /\ Drained(w)
    /\ Unwind(w, "none", "idle")
    /\ drain' = [drain EXCEPT ![w] = "rest"]
    /\ at' = [at EXCEPT ![w] = NoJob]
    /\ IF holder[at[w]] # w THEN UNCHANGED rqVars
       ELSE IF raised[w] = "escaped" THEN RetryOrFail(at[w])
       ELSE EndMessage(at[w])
    /\ UNCHANGED <<tables, object, cancelTx, lease, todo, current, apiVars>>

\* A workhorse dies: its lease is released by its connection, nothing else is.
Crash(w) ==
    /\ pc[w] # "idle"
    /\ Unwind(w, "none", "idle")
    /\ at' = [at EXCEPT ![w] = NoJob]
    /\ lease' = [j \in Jobs |-> IF lease[j] = w THEN NoWorker ELSE lease[j]]
    /\ StopDrains({w})
    /\ IF holder[at[w]] = w THEN RetryOrFail(at[w]) ELSE UNCHANGED rqVars
    /\ UNCHANGED <<tables, object, cancelTx, apiVars>>

\* RQ loses the worker's heartbeat and gives the message up, but the
\* workhorse is alive and runs on.
Abandon(j) ==
    /\ holder[j] # NoWorker
    /\ RetryOrFail(j)
    /\ UNCHANGED <<tables, object, cancelTx, lease, drainVars, workerVars, apiVars>>

\* handle_terminal_failure, once no retries are left.
TerminalFailure(j) ==
    /\ queue[j] = "failing"
    /\ FailPersistedJob(j)
    /\ queue' = [queue EXCEPT ![j] = "ended"]
    /\ UNCHANGED <<object, cancelTx, lease, drainVars, workerVars,
                   retries, holder, requeuing, starts, apiVars>>

\* Its transaction fails: RQ logs the callback's exception and is done.
CallbackFails(j) ==
    /\ queue[j] = "failing"
    /\ queue' = [queue EXCEPT ![j] = "lost"]
    /\ UNCHANGED <<tables, object, cancelTx, lease, drainVars, workerVars,
                   retries, holder, requeuing, starts, apiVars>>

\* rq_worker.main, before a worker process serves: it reads the queued rows ...
StartWorker ==
    /\ requeuing = {} /\ starts < MaxStarts
    /\ starts' = starts + 1
    /\ requeuing' = {j \in Jobs : status[j] = "queued"}
    /\ UNCHANGED <<tables, object, cancelTx, lease, drainVars, workerVars,
                   queue, retries, holder, apiVars>>

\* ... and enqueues each; ...
Requeue(j) ==
    /\ j \in requeuing
    /\ Enqueue(j)
    /\ requeuing' = requeuing \ {j}
    /\ UNCHANGED <<tables, object, cancelTx, lease, drainVars, workerVars, holder,
                   starts, apiVars>>

\* ... a process that dies, or that Redis fails, leaves the others.
RequeueFails ==
    /\ requeuing # {}
    /\ requeuing' = {}
    /\ UNCHANGED <<tables, object, cancelTx, lease, drainVars, workerVars,
                   queue, retries, holder, starts, apiVars>>

-----------------------------------------------------------------------------
(* The API.                                                                *)

NotInRedis(S) == {j \in S : queue[j] = "none"}

CreateJob(j) ==
    /\ api = "up"
    /\ InsertJob(j)
    /\ submission' = [submission EXCEPT ![j] = "pending"]
    /\ UNCHANGED <<lease, drainVars, workerVars, rqVars, api, reconciling,
                   unsent, faults>>

Submit(j) ==
    /\ submission[j] = "pending"
    /\ Enqueue(j)
    /\ submission' = [submission EXCEPT ![j] = "none"]
    /\ UNCHANGED <<tables, object, cancelTx, lease, drainVars, workerVars, holder, requeuing, starts,
                   api, reconciling, unsent, faults>>

\* Redis fails, before it stored the message or (only the answer is lost) after.
SubmitFails(j) ==
    /\ submission[j] = "pending"
    /\ Enqueue(j) \/ UNCHANGED <<queue, retries>>
    /\ submission' = [submission EXCEPT ![j] = "refused"]
    /\ UNCHANGED <<tables, object, cancelTx, lease, drainVars, workerVars, holder, requeuing, starts,
                   api, reconciling, unsent, faults>>

\* submit then fails the persisted job and the client gets a 503.
FailSubmission(j) ==
    /\ submission[j] = "refused"
    /\ FailPersistedJob(j)
    /\ submission' = [submission EXCEPT ![j] = "none"]
    /\ UNCHANGED <<object, cancelTx, lease, drainVars, workerVars, rqVars,
                   api, reconciling, unsent, faults>>

\* The database fails as well: a 500, and the row stays queued.
SubmissionForgotten(j) ==
    /\ submission[j] = "refused"
    /\ submission' = [submission EXCEPT ![j] = "none"]
    /\ unsent' = unsent \cup NotInRedis({j})
    /\ UNCHANGED <<tables, object, cancelTx, lease, drainVars, workerVars, rqVars,
                   api, reconciling, faults>>

RequestCancel(j) ==
    /\ api = "up"
    /\ BeginCancel(j)
    /\ UNCHANGED <<lease, drainVars, workerVars, rqVars, apiVars>>

LockForCancel(j) ==
    /\ MarkCanceled(j, "read")
    /\ UNCHANGED <<lease, drainVars, workerVars, rqVars, apiVars>>

\* The best-effort removal from Redis comes before the commit.
RemoveFromQueue(j) ==
    /\ cancelTx[j] = "marked"
    /\ cancelTx' = [cancelTx EXCEPT ![j] = "dropped"]
    /\ queue' = IF queue[j] = "queued" THEN [queue EXCEPT ![j] = "removed"] ELSE queue
    /\ UNCHANGED <<tables, object, lease, drainVars, workerVars, retries, holder, requeuing, starts, apiVars>>

FinishCancel(j) ==
    /\ CommitCancel(j)
    /\ UNCHANGED <<lease, drainVars, workerVars, rqVars, apiVars>>

\* The commit fails (the database went away) and the request with it.
CancelFails(j) ==
    /\ faults < MaxFaults
    /\ faults' = faults + 1
    /\ AbortCancel(j)
    /\ UNCHANGED <<lease, drainVars, workerVars, rqVars, api, submission, reconciling, unsent>>

RemoveProject(j) ==
    /\ api = "up"
    /\ DeleteProject(j)
    /\ UNCHANGED <<lease, drainVars, workerVars, rqVars, apiVars>>

\* Startup, periodic and after-request drains of the API.
ServerDrain(s) ==
    /\ api = "up"
    /\ SelectRows(s, Rows)
    /\ UNCHANGED <<workerVars, rqVars, apiVars>>

\* The process dies: an open transaction is rolled back, a submission is lost.
ApiCrash ==
    /\ api # "down" /\ faults < MaxFaults
    /\ api' = "down"
    /\ faults' = faults + 1
    /\ submission' = [j \in Jobs |-> "none"]
    /\ reconciling' = {} /\ unsent' = {}
    /\ cancelTx' = [j \in Jobs |-> "none"]
    /\ StopDrains(Servers)
    /\ UNCHANGED <<tables, object, lease, workerVars, rqVars>>

\* Mutant: a start serves at once and reconciles nothing.
StartWithoutReconciling ==
    /\ api = "down"
    /\ api' = "starting"
    /\ UNCHANGED <<tables, object, cancelTx, lease, drainVars, workerVars, rqVars,
                   submission, reconciling, unsent, faults>>

\* lifespan: reconcile_queued_jobs reads the queued rows, then enqueues each.
ApiStart ==
    /\ api = "down"
    /\ api' = "starting"
    /\ reconciling' = {j \in Jobs : status[j] = "queued"}
    /\ UNCHANGED <<tables, object, cancelTx, lease, drainVars, workerVars, rqVars,
                   submission, unsent, faults>>

Reconcile(j) ==
    /\ j \in reconciling
    /\ Enqueue(j)
    /\ reconciling' = reconciling \ {j}
    /\ UNCHANGED <<tables, object, cancelTx, lease, drainVars, workerVars, holder, requeuing, starts,
                   api, submission, unsent, faults>>

\* Redis is down at startup: logged, and the API serves without it.
ReconcileFails ==
    /\ reconciling # {}
    /\ reconciling' = {}
    /\ unsent' = unsent \cup NotInRedis(reconciling)
    /\ UNCHANGED <<tables, object, cancelTx, lease, drainVars, workerVars, rqVars,
                   api, submission, faults>>

ApiReady ==
    /\ api = "starting" /\ reconciling = {}
    /\ api' = "up"
    /\ UNCHANGED <<tables, object, cancelTx, lease, drainVars, workerVars, rqVars,
                   submission, reconciling, unsent, faults>>

-----------------------------------------------------------------------------
\* ctx.cancelled of an RQ worker: there is no event, only the persisted status.
WorkerStep(w) ==
    \/ /\ \/ AcquireLease(w, "load")
          \/ RunnerStep(w, CanceledInDb(at[w]))
          \/ Decide(w, CanceledInDb(at[w]))
          \/ BodyError(w)
          \/ Escape(w)
       /\ UNCHANGED <<rqVars, apiVars>>
    \/ Load(w)
    \/ Finish(w)

RqStep ==
    \/ \E w \in Workers, j \in Jobs : Deliver(w, j)
    \/ \E w \in Workers : Crash(w)
    \/ \E j \in Jobs : Abandon(j) \/ TerminalFailure(j) \/ CallbackFails(j) \/ Requeue(j)
    \/ StartWorker \/ RequeueFails

ApiStep ==
    \/ \E j \in Jobs :
        \/ CreateJob(j) \/ Submit(j) \/ SubmitFails(j)
        \/ FailSubmission(j) \/ SubmissionForgotten(j)
        \/ RequestCancel(j) \/ LockForCancel(j) \/ RemoveFromQueue(j) \/ FinishCancel(j)
        \/ CancelFails(j) \/ RemoveProject(j) \/ Reconcile(j)
    \/ \E s \in Servers : ServerDrain(s)
    \/ ApiCrash \/ ApiStart \/ ReconcileFails \/ ApiReady

DrainNext ==
    /\ \/ \E d \in Drainers : DrainStep(d)
       \/ \E s \in Servers : EndDrain(s)
    /\ UNCHANGED <<workerVars, rqVars, apiVars>>

Next ==
    \/ \E w \in Workers : WorkerStep(w)
    \/ RqStep
    \/ ApiStep
    \/ DrainNext

Spec == Init /\ [][Next]_vars

-----------------------------------------------------------------------------
(* Safety. JobRunner states the invariants the two back ends share.        *)

\* A terminal status is final: only the deletion of the project follows it. A
\* canceled job is not resurrected by a delivery and a success is not revoked
\* (locked_job: "Lock one job before a terminal/checkpoint decision"). True
\* where the database is SQLite; see SuccessIsNotRevoked for PostgreSQL.
TerminalIsFinal == [][\A j \in Jobs : StaysTerminal(j)]_vars

\* What remains of it where the cancel request may act on a stale status: a
\* lost job never becomes active again and never succeeds, and a finished one
\* is never run again.
TerminalNeverReopens == [][\A j \in Jobs : StaysClosed(j)]_vars

\* No step removes the object of a job that may still publish it or has
\* published it, as a drain that was overtaken by a new owner of the key would.
ObjectOfLiveJobIsKept == [][\A j \in Jobs : KeepsLiveObject(j)]_vars

\* A published success is not revoked: JobManager.cancel says of a cancel that
\* comes too late "Success won the persisted race; do not let the transient
\* event compensate away the already-published artifact."
SuccessIsNotRevoked ==
    [][\A j \in Jobs :
        status[j] = "succeeded" => status'[j] \in {"succeeded", "deleted"}]_vars

-----------------------------------------------------------------------------
(* Liveness. Steps of a live process are taken (WF): the producer's work is *)
(* bounded by RQ's job timeout and the worker's own, a cancel request ends, *)
(* the services restart (restart: unless-stopped). Outages of the store and *)
(* downloads that hold a path end: a deletion tried for ever succeeds (SF). *)
(* Nothing forces a client request, a crash, an error or an outage.         *)

WorkerProgress(w) ==
    \/ Load(w) \/ Finish(w)
    \/ /\ \/ AcquireLease(w, "load")
          \/ RunnerStep(w, CanceledInDb(at[w]))
          \/ Decide(w, CanceledInDb(at[w]))
       /\ UNCHANGED <<rqVars, apiVars>>

DrainProgress(d) ==
    /\ DrainStep(d) \/ (d \in Servers /\ EndDrain(d))
    /\ UNCHANGED <<workerVars, rqVars, apiVars>>

Alone(A) == A /\ UNCHANGED <<workerVars, rqVars, apiVars>>

Fairness ==
    /\ \A w \in Workers : WF_vars(WorkerProgress(w))
    /\ \A d \in Drainers :
        /\ WF_vars(DrainProgress(d))
        /\ SF_vars(Alone(EraseObject(d))) /\ SF_vars(Alone(AckRow(d)))
    /\ \A s \in Servers : WF_vars(ServerDrain(s))
    /\ \A j \in Jobs :
        /\ WF_vars(\E w \in Workers : Deliver(w, j))
        /\ WF_vars(TerminalFailure(j) \/ CallbackFails(j))
        /\ WF_vars(Submit(j) \/ SubmitFails(j))
        /\ WF_vars(FailSubmission(j) \/ SubmissionForgotten(j))
        /\ WF_vars(LockForCancel(j)) /\ WF_vars(FinishCancel(j))
        /\ WF_vars(Reconcile(j))
    /\ WF_vars(ApiStart) /\ WF_vars(ApiReady)
    /\ WF_vars(RequeueFails \/ \E j \in Jobs : Requeue(j))

FairSpec == Spec /\ Fairness

\* The database says active, no process has the job or is going to hand it to
\* RQ, and none is on its way to: a cancel request removed the message and
\* then failed to commit; the failure callback of the last delivery failed;
\* or RQ never had the message and the API that is up has given it up, because
\* Redis was down when it started, or Redis and the database were when it
\* submitted. The last can be repaired by the next start of a process, and
\* each by a client's cancel. A job that only waits for an API that is down,
\* is starting or has an open request is not stranded.
Stranded(j) ==
    /\ status[j] \in Active /\ cancelTx[j] = "none"
    /\ \A w \in Workers : at[w] # j
    /\ \/ queue[j] \in {"removed", "lost"}
       \/ queue[j] = "none" /\ j \in unsent \ requeuing

\* Every job that was accepted reaches a terminal status, through crashed and
\* abandoned deliveries, retries, a refused or lost submission, a restarted
\* API and cancellation at any moment, unless it is stranded.
JobSettles ==
    \A j \in Jobs : status[j] \in Active ~> status[j] \notin Active \/ Stranded(j)

\* Every deletion intent is carried out and acknowledged in the end, however
\* often drains crash, meet a busy lease or lose the store.
OutboxDrains == \A r \in Rows : r \in outbox ~> r \notin outbox
=============================================================================
