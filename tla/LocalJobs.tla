------------------------------ MODULE LocalJobs ------------------------------
(***************************************************************************)
(* The local back end: JobManager's thread pool inside the one API         *)
(* process. A job is signalled through a threading.Event registered at its *)
(* submission; before_terminal removes the event from the registry and     *)
(* reads it under the manager's lock, which the cancel request also takes. *)
(* The process dies with all its threads, and its next start fails what    *)
(* was active (recover_interrupted_jobs).                                  *)
(*                                                                         *)
(* Bound: MaxFaults crashes and failing cancel requests.                   *)
(***************************************************************************)
EXTENDS JobRunner

CONSTANT MaxFaults

ASSUME BoundAssumption == MaxFaults \in Nat

VARIABLES
    pool,           \* submitted jobs no thread has taken yet
    cancels,        \* the manager's registry of cancel events: its keys
    event,          \* Event.is_set of each job's event
    swallowed,      \* jobs whose Future ended with an exception: nobody reads it
    api,            \* the process: up, starting or down
    submission,     \* jobs committed by create_job and not yet submitted
    recovering,     \* jobs the starting process has read as active
    faults

managerVars == <<pool, cancels, event, swallowed>>
apiVars == <<api, submission, recovering, faults>>
vars == <<tables, object, cancelTx, lease, drainVars, workerVars, managerVars, apiVars>>

TypeOK ==
    /\ TablesTypeOK
    /\ OutboxTypeOK
    /\ RunnerTypeOK
    /\ pool \subseteq Jobs
    /\ cancels \subseteq Jobs
    /\ event \in [Jobs -> BOOLEAN]
    /\ swallowed \subseteq Jobs
    /\ api \in {"up", "starting", "down"}
    /\ submission \subseteq Jobs
    /\ recovering \subseteq Jobs
    /\ faults \in 0..MaxFaults

Init ==
    /\ TablesInit
    /\ OutboxInit
    /\ RunnerInit
    /\ pool = {}
    /\ cancels = {}
    /\ event = [j \in Jobs |-> FALSE]
    /\ swallowed = {}
    /\ api = "up"
    /\ submission = {}
    /\ recovering = {}
    /\ faults = 0

-----------------------------------------------------------------------------
(* The manager's threads.                                                  *)

CreateJob(j) ==
    /\ api = "up"
    /\ InsertJob(j)
    /\ submission' = submission \cup {j}
    /\ UNCHANGED <<lease, drainVars, workerVars, managerVars, api, recovering, faults>>

Submit(j) ==
    /\ j \in submission
    /\ submission' = submission \ {j}
    /\ cancels' = cancels \cup {j}
    /\ pool' = pool \cup {j}
    /\ UNCHANGED <<tables, object, cancelTx, lease, drainVars, workerVars,
                   event, swallowed, api, recovering, faults>>

\* Mutant: the event leaves the registry when the job starts.
TakeJobAndEvent(w, j) ==
    /\ pc[w] = "idle" /\ j \in pool
    /\ pool' = pool \ {j}
    /\ cancels' = cancels \ {j}
    /\ at' = [at EXCEPT ![w] = j]
    /\ Unwind(w, "none", "lease")
    /\ UNCHANGED <<tables, object, cancelTx, lease, drainVars, event, swallowed, apiVars>>

TakeJob(w, j) ==
    /\ pc[w] = "idle" /\ j \in pool
    /\ pool' = pool \ {j}
    /\ at' = [at EXCEPT ![w] = j]
    /\ Unwind(w, "none", "lease")
    /\ UNCHANGED <<tables, object, cancelTx, lease, drainVars, cancels, event,
                   swallowed, apiVars>>

\* ctx.cancelled: the event, or the persisted status.
Signalled(j) == event[j] \/ CanceledInDb(j)

\* before_terminal: from here on a cancel request finds no event.
BeforeTerminal(w) ==
    /\ Decide(w, event[at[w]])
    /\ cancels' = cancels \ {at[w]}
    /\ UNCHANGED <<pool, event, swallowed, apiVars>>

\* The thread returns or raises; its event goes either way, and the exception
\* stays in the Future that submit dropped.
Finish(w) ==
    /\ Drained(w)
    /\ Unwind(w, "none", "idle")
    /\ drain' = [drain EXCEPT ![w] = "rest"]
    /\ at' = [at EXCEPT ![w] = NoJob]
    /\ cancels' = cancels \ {at[w]}
    /\ swallowed' = IF raised[w] = "escaped" THEN swallowed \cup {at[w]} ELSE swallowed
    /\ UNCHANGED <<tables, object, cancelTx, lease, todo, current, pool, event, apiVars>>

-----------------------------------------------------------------------------
(* Cancellation.                                                           *)

RequestCancel(j) ==
    /\ api = "up"
    /\ BeginCancel(j)
    /\ UNCHANGED <<lease, drainVars, workerVars, managerVars, apiVars>>

\* JobManager.cancel sets the event before it touches the database.
SignalCancel(j) ==
    /\ cancelTx[j] = "read" /\ j \in cancels
    /\ event' = [event EXCEPT ![j] = TRUE]
    /\ cancelTx' = [cancelTx EXCEPT ![j] = "signalled"]
    /\ UNCHANGED <<tables, object, lease, drainVars, workerVars, pool, cancels,
                   swallowed, apiVars>>

\* No event: the request is answered 409 "job is not cancellable".
RefuseCancel(j) ==
    /\ cancelTx[j] = "read" /\ j \notin cancels
    /\ AbortCancel(j)
    /\ UNCHANGED <<lease, drainVars, workerVars, managerVars, apiVars>>

LockForCancel(j) ==
    /\ MarkCanceled(j, "signalled")
    /\ UNCHANGED <<lease, drainVars, workerVars, managerVars, apiVars>>

FinishCancel(j) ==
    /\ CommitCancel(j)
    /\ UNCHANGED <<lease, drainVars, workerVars, managerVars, apiVars>>

\* The commit fails; the event stays set.
CancelFails(j) ==
    /\ faults < MaxFaults
    /\ faults' = faults + 1
    /\ AbortCancel(j)
    /\ UNCHANGED <<lease, drainVars, workerVars, managerVars, api, submission, recovering>>

-----------------------------------------------------------------------------
(* The process.                                                            *)

RemoveProject(j) ==
    /\ api = "up"
    /\ DeleteProject(j)
    /\ UNCHANGED <<lease, drainVars, workerVars, managerVars, apiVars>>

ServerDrain(s) ==
    /\ api = "up"
    /\ SelectRows(s, Rows)
    /\ UNCHANGED <<workerVars, managerVars, apiVars>>

Crash ==
    /\ api # "down" /\ faults < MaxFaults
    /\ api' = "down"
    /\ faults' = faults + 1
    /\ pc' = [w \in Workers |-> "idle"]
    /\ at' = [w \in Workers |-> NoJob]
    /\ raised' = [w \in Workers |-> "none"]
    /\ lease' = [j \in Jobs |-> NoWorker]
    /\ StopDrains(Drainers)
    /\ cancelTx' = [j \in Jobs |-> "none"]
    /\ pool' = {} /\ cancels' = {} /\ swallowed' = {}
    /\ event' = [j \in Jobs |-> FALSE]
    /\ submission' = {} /\ recovering' = {}
    /\ UNCHANGED <<tables, object>>

\* Mutant: jobs that were still queued are not recovered.
StartWithoutQueued ==
    /\ api = "down"
    /\ api' = "starting"
    /\ recovering' = {j \in Jobs : status[j] = "running"}
    /\ UNCHANGED <<tables, object, cancelTx, lease, drainVars, workerVars, managerVars,
                   submission, faults>>

StartProcess ==
    /\ api = "down"
    /\ api' = "starting"
    /\ recovering' = {j \in Jobs : status[j] \in Active}
    /\ UNCHANGED <<tables, object, cancelTx, lease, drainVars, workerVars, managerVars,
                   submission, faults>>

\* recover_interrupted_jobs, one transaction per job.
RecoverJob(j) ==
    /\ j \in recovering
    /\ FailPersistedJob(j)
    /\ recovering' = recovering \ {j}
    /\ UNCHANGED <<object, cancelTx, lease, drainVars, workerVars, managerVars,
                   api, submission, faults>>

Serve ==
    /\ api = "starting" /\ recovering = {}
    /\ api' = "up"
    /\ UNCHANGED <<tables, object, cancelTx, lease, drainVars, workerVars, managerVars,
                   submission, recovering, faults>>

-----------------------------------------------------------------------------
ThreadStep(w) ==
    \/ /\ \/ AcquireLease(w, "claim")
          \/ RunnerStep(w, Signalled(at[w]))
       /\ UNCHANGED <<managerVars, apiVars>>
    \/ BeforeTerminal(w)
    \/ Finish(w)

ApiStep ==
    \/ \E j \in Jobs :
        \/ CreateJob(j) \/ Submit(j)
        \/ RequestCancel(j) \/ SignalCancel(j) \/ RefuseCancel(j)
        \/ LockForCancel(j) \/ FinishCancel(j) \/ CancelFails(j)
        \/ RemoveProject(j) \/ RecoverJob(j)
    \/ \E s \in Servers : ServerDrain(s)
    \/ Crash \/ StartProcess \/ Serve

DrainNext ==
    /\ \/ \E d \in Drainers : DrainStep(d)
       \/ \E s \in Servers : EndDrain(s)
    /\ UNCHANGED <<workerVars, managerVars, apiVars>>

Next ==
    \/ \E w \in Workers :
        \/ ThreadStep(w)
        \/ (BodyError(w) \/ Escape(w)) /\ UNCHANGED <<managerVars, apiVars>>
        \/ \E j \in Jobs : TakeJob(w, j)
    \/ ApiStep
    \/ DrainNext

Spec == Init /\ [][Next]_vars

-----------------------------------------------------------------------------
(* Safety. JobRunner states the invariants the two back ends share.        *)

\* No step removes the object of a job that may still publish it or has
\* published it.
ObjectOfLiveJobIsKept == [][\A j \in Jobs : KeepsLiveObject(j)]_vars

\* A finished job is never run again and a lost one never succeeds: neither the
\* recovery at the next start nor a late cancel reopens it.
TerminalNeverReopens == [][\A j \in Jobs : StaysClosed(j)]_vars

\* The steps at which the worker of a job has passed before_terminal, or has
\* left the body with an exception.
PastDecision == {"success", "cancel", "cleanup", "fail", "release", "released", "drain"}

\* A cancel request is refused as "not cancellable" only when there is nothing
\* left to cancel, or not yet: the job is still to be submitted by the request
\* that created it, or its worker is past the decision between cancel and
\* success, or the job is over. One case is left, that of a thread that ended
\* with an exception nothing caught (Escape): its job stays active without an
\* event until the process starts again.
RefusalIsHonest ==
    [][\A j \in Jobs :
        RefuseCancel(j) =>
            \/ j \in submission
            \/ status[j] \notin Active
            \/ j \in swallowed
            \/ \E w \in Workers : at[w] = j /\ pc[w] \in PastDecision]_vars

-----------------------------------------------------------------------------
(* Liveness. A thread waiting for a database lock that cancel requests take *)
(* and free gets it in the end (SF); the work of a job is bounded by the   *)
(* worker's timeout; the process is started again and a request ends (WF); *)
(* the store's outages and downloads end (SF).                             *)

Alone(A) == A /\ UNCHANGED <<workerVars, managerVars, apiVars>>

Fairness ==
    /\ \A w \in Workers :
        /\ SF_vars(ThreadStep(w))
        /\ WF_vars(\E j \in Jobs : TakeJob(w, j))
    /\ \A d \in Drainers :
        /\ WF_vars(Alone(DrainStep(d) \/ (d \in Servers /\ EndDrain(d))))
        /\ SF_vars(Alone(EraseObject(d))) /\ SF_vars(Alone(AckRow(d)))
    /\ \A s \in Servers : WF_vars(ServerDrain(s))
    /\ \A j \in Jobs :
        /\ WF_vars(Submit(j)) /\ WF_vars(RecoverJob(j))
        /\ WF_vars(SignalCancel(j)) /\ WF_vars(RefuseCancel(j))
        /\ WF_vars(LockForCancel(j)) /\ WF_vars(FinishCancel(j))
    /\ WF_vars(StartProcess) /\ WF_vars(Serve)

FairSpec == Spec /\ Fairness

\* Every accepted job ends: with a crash between commit and submission, in the
\* queue, in the body or between publication and cleanup, the next start ends
\* it; a cancel request that sets the event and then fails ends it as well. A
\* job whose thread ended with an exception nothing caught is the exception:
\* only a restart, which nothing forces, ends it.
JobSettles ==
    \A j \in Jobs : status[j] \in Active ~> status[j] \notin Active \/ j \in swallowed

\* What "persist all job failures" (jobs.py:635) says of them all. It does not
\* hold: the exceptions that Escape names are persisted by nobody.
EveryJobEnds == \A j \in Jobs : status[j] \in Active ~> status[j] \notin Active

\* Every deletion intent is carried out and acknowledged in the end.
OutboxDrains == \A r \in Rows : r \in outbox ~> r \notin outbox
=============================================================================
