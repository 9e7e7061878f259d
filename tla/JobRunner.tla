------------------------------ MODULE JobRunner ------------------------------
(***************************************************************************)
(* One worker running one persisted job: _run_job around the body of an    *)
(* artifact job (_run_artifact_job), inside the job's execution lease. A   *)
(* step ends wherever another process can act in between: each database    *)
(* transaction, each write to the store, each look at the cancellation     *)
(* signal. What that signal is differs between the two back ends, so the   *)
(* steps that look at it take it as a parameter (ctx.cancelled).           *)
(***************************************************************************)
EXTENDS ObjectOutbox

CONSTANT NoJob

ASSUME JobAssumption == NoJob \notin Jobs

VARIABLES
    pc,         \* the step each worker is at
    at,         \* the job it was given
    raised      \* the exception it unwinds, if any

workerVars == <<pc, at, raised>>

\* Steps inside the try block that rolls the artifact back.
ProducingSteps == {"produce", "produced", "persist", "persisted"}
\* The other steps whose exception becomes a failed job: those of _run_job's
\* try block, and the body that run_persisted_job rebuilds from the row.
GuardedSteps == {"load", "prepare", "recover", "decide", "success", "cleanup", "rollback"}
\* The steps between taking the execution lease and releasing it.
LeasedSteps == ProducingSteps \cup GuardedSteps \cup
    {"claim", "cancel", "erase", "fail", "release"}
Steps == LeasedSteps \cup {"idle", "lease", "released", "drain"}

\* "escaped": nothing in jobs.py caught it.
Exceptions == {"none", "canceled", "failed", "escaped"}

RunnerTypeOK ==
    /\ pc \in [Workers -> Steps]
    /\ at \in [Workers -> Jobs \cup {NoJob}]
    /\ raised \in [Workers -> Exceptions]

RunnerInit ==
    /\ pc = [w \in Workers |-> "idle"]
    /\ at = [w \in Workers |-> NoJob]
    /\ raised = [w \in Workers |-> "none"]

Goto(w, step) == pc' = [pc EXCEPT ![w] = step]

\* An exception: the worker unwinds through `step`.
Unwind(w, exception, step) ==
    /\ raised' = [raised EXCEPT ![w] = exception]
    /\ Goto(w, step)

-----------------------------------------------------------------------------
AcquireLease(w, next) ==
    /\ pc[w] = "lease"
    /\ lease[at[w]] = NoWorker
    /\ lease' = [lease EXCEPT ![at[w]] = w]
    /\ Goto(w, next)
    /\ UNCHANGED <<tables, object, cancelTx, drainVars, at, raised>>

Claim(w) ==
    /\ pc[w] = "claim"
    /\ ClaimJob(at[w])
    /\ Goto(w, IF status[at[w]] \in Active THEN "prepare" ELSE "release")
    /\ UNCHANGED <<object, cancelTx, lease, drainVars, at, raised>>

\* Progress, the source's row, and the first look at the signal.
Prepare(w, cancelled) ==
    /\ pc[w] = "prepare"
    /\ IF cancelled THEN Unwind(w, "canceled", "cancel")
       ELSE IF status[at[w]] \in Gone THEN Unwind(w, "failed", "fail")
       ELSE Goto(w, "recover") /\ UNCHANGED raised
    /\ UNCHANGED <<tables, object, cancelTx, lease, drainVars, at>>

\* _recover_job_artifact: a retry returns the staged result if its object is
\* there, and otherwise produces the object again under the same key.
Recover(w) ==
    /\ pc[w] = "recover"
    /\ IF status[at[w]] \in Gone THEN Unwind(w, "failed", "fail")
       ELSE /\ Goto(w, IF artifact[at[w]] /\ result[at[w]] /\ object[at[w]]
                       THEN "decide" ELSE "produce")
            /\ UNCHANGED raised
    /\ UNCHANGED <<tables, object, cancelTx, lease, drainVars, at>>

Produce(w) ==
    /\ pc[w] = "produce"
    /\ object' = [object EXCEPT ![at[w]] = TRUE]
    /\ Goto(w, "produced")
    /\ UNCHANGED <<tables, cancelTx, lease, drainVars, at, raised>>

CheckProduced(w, cancelled) ==
    /\ pc[w] = "produced"
    /\ IF cancelled THEN Unwind(w, "canceled", "rollback")
       ELSE Goto(w, "persist") /\ UNCHANGED raised
    /\ UNCHANGED <<tables, object, cancelTx, lease, drainVars, at>>

Persist(w) ==
    /\ pc[w] = "persist"
    /\ PersistJobArtifact(at[w])
    /\ IF Persistable(at[w]) THEN Goto(w, "persisted") /\ UNCHANGED raised
       ELSE Unwind(w, IF CanceledInDb(at[w]) THEN "canceled" ELSE "failed", "rollback")
    /\ UNCHANGED <<object, cancelTx, lease, drainVars, at>>

CheckPersisted(w, cancelled) ==
    /\ pc[w] = "persisted"
    /\ IF cancelled THEN Unwind(w, "canceled", "rollback")
       ELSE Goto(w, "decide") /\ UNCHANGED raised
    /\ UNCHANGED <<tables, object, cancelTx, lease, drainVars, at>>

\* The last look at the signal, before the row is locked.
Decide(w, cancelled) ==
    /\ pc[w] = "decide"
    /\ Goto(w, IF cancelled THEN "cancel" ELSE "success")
    /\ UNCHANGED <<tables, object, cancelTx, lease, drainVars, at, raised>>

PublishSuccess(w) ==
    /\ pc[w] = "success"
    /\ PublishSucceededJob(at[w])
    /\ Goto(w, IF status[at[w]] \in Active \cup {"succeeded"} THEN "release" ELSE "cleanup")
    /\ UNCHANGED <<object, cancelTx, lease, drainVars, at, raised>>

PublishCanceled(w) ==
    /\ pc[w] = "cancel"
    /\ PublishCanceledJob(at[w])
    /\ Goto(w, IF raised[w] = "none" THEN "cleanup" ELSE "release")
    /\ UNCHANGED <<object, cancelTx, lease, drainVars, at, raised>>

CleanupResult(w) ==
    /\ pc[w] = "cleanup"
    /\ CleanupJobResult(at[w])
    /\ Goto(w, "release")
    /\ UNCHANGED <<object, cancelTx, lease, drainVars, at, raised>>

\* An error of the producer, of the store, of the database, or RQ's timeout. A
\* cancellation is published inside the try block unless one is handled there.
BodyError(w) ==
    /\ \/ pc[w] \in ProducingSteps \cup GuardedSteps
       \/ pc[w] = "cancel" /\ raised[w] = "none"
    /\ Unwind(w, "failed", IF pc[w] \in ProducingSteps THEN "rollback" ELSE "fail")
    /\ UNCHANGED <<tables, object, cancelTx, lease, drainVars, at>>

\* The same errors where no handler is left: taking the lease, reading and
\* claiming the job (before the try block), and publishing the end of a job
\* from an except clause. Only the finally blocks run, and the caller hears it.
Escape(w) ==
    /\ \/ pc[w] \in {"lease", "load", "claim", "fail"}
       \/ pc[w] = "cancel" /\ raised[w] = "canceled"
    /\ Unwind(w, "escaped", IF pc[w] = "lease" THEN "released" ELSE "release")
    /\ UNCHANGED <<tables, object, cancelTx, lease, drainVars, at>>

AfterRollback(w) == IF raised[w] = "canceled" THEN "cancel" ELSE "fail"

Rollback(w) ==
    /\ pc[w] = "rollback"
    /\ RollbackJobArtifact(at[w])
    /\ Goto(w, IF RollbackApplies(at[w]) THEN "erase" ELSE AfterRollback(w))
    /\ UNCHANGED <<object, cancelTx, lease, drainVars, at, raised>>

\* rollback_job_artifact ends with the deletion of the object ...
EraseProduced(w) ==
    /\ pc[w] = "erase"
    /\ object' = [object EXCEPT ![at[w]] = FALSE]
    /\ Goto(w, AfterRollback(w))
    /\ UNCHANGED <<tables, cancelTx, lease, drainVars, at, raised>>

\* ... which may fail, and the store's exception then replaces the body's.
EraseFails(w) ==
    /\ pc[w] = "erase"
    /\ Unwind(w, "failed", "fail")
    /\ UNCHANGED <<tables, object, cancelTx, lease, drainVars, at>>

PublishFailure(w) ==
    /\ pc[w] = "fail"
    /\ FailPersistedJob(at[w])
    /\ Goto(w, "release")
    /\ UNCHANGED <<object, cancelTx, lease, drainVars, at, raised>>

\* The finally block: the lease goes first ...
Release(w) ==
    /\ pc[w] = "release"
    /\ lease' = [lease EXCEPT ![at[w]] = NoWorker]
    /\ Goto(w, "released")
    /\ UNCHANGED <<tables, object, cancelTx, drainVars, at, raised>>

\* ... and then the worker drains the rows of its own job.
DrainOwnRows(w) ==
    /\ pc[w] = "released"
    /\ SelectRows(w, RowsOf(at[w]))
    /\ Goto(w, "drain")
    /\ UNCHANGED <<at, raised>>

Drained(w) == pc[w] = "drain" /\ drain[w] = "scan" /\ todo[w] = {}

RunnerStep(w, cancelled) ==
    \/ Claim(w)
    \/ Prepare(w, cancelled)
    \/ Recover(w)
    \/ Produce(w)
    \/ CheckProduced(w, cancelled)
    \/ Persist(w)
    \/ CheckPersisted(w, cancelled)
    \/ PublishSuccess(w)
    \/ PublishCanceled(w)
    \/ CleanupResult(w)
    \/ Rollback(w)
    \/ EraseProduced(w)
    \/ EraseFails(w)
    \/ PublishFailure(w)
    \/ Release(w)
    \/ DrainOwnRows(w)

-----------------------------------------------------------------------------
(* Invariants of both back ends.                                           *)

\* A job that succeeded has its result, its artifact row and the object the
\* row names: whatever raced with the publication (a late cancellation, a
\* duplicate delivery's rollback, a drain), a client that reads "succeeded"
\* can download the artifact.
SucceededOwnsArtifact ==
    \A j \in Jobs : status[j] = "succeeded" => result[j] /\ artifact[j] /\ object[j]

\* No object is lost track of: when a job has lost or its rows are gone, an
\* object under its key, even one its worker writes only afterwards, has an
\* outbox row, so that some drain will delete it (_delete_job_artifacts
\* "closes that final orphan window").
NoOrphanedObject ==
    \A j \in Jobs :
        status[j] \in Losers \cup Gone /\ object[j] => \E r \in outbox : r.job = j

\* A failed, canceled or deleted job keeps neither an artifact row nor a result
\* that a client could follow, at whatever step its worker was caught.
LoserOwnsNothing ==
    \A j \in Jobs : status[j] \in Losers \cup Gone => ~artifact[j] /\ ~result[j]

\* The three together: rows and objects agree with the status of their job,
\* whichever of its workers, cancellations and drains came last.
JobsOwnTheirObjects == SucceededOwnsArtifact /\ NoOrphanedObject /\ LoserOwnsNothing

-----------------------------------------------------------------------------
(* Steps, for the action properties of the two back ends.                  *)

StaysTerminal(j) ==
    status[j] \in Losers \cup {"succeeded"} => status'[j] \in {status[j], "deleted"}

StaysClosed(j) ==
    /\ status[j] \in Losers => status'[j] \in Losers \cup {"deleted"}
    /\ status[j] = "succeeded" => status'[j] \notin Active

KeepsLiveObject(j) ==
    object[j] /\ ~object'[j] => status[j] \in Losers \cup Gone
-----------------------------------------------------------------------------
(* The lifecycle clients rely on. A job's output is there when the row that *)
(* names the object, and the object, are.                                  *)
Lifecycle == INSTANCE JobLifecycle WITH
    phase <- status,
    output <- {j \in Jobs : status[j] = "succeeded" /\ artifact[j] /\ object[j]}

\* Through duplicates, crashes, retries and recovery a client sees only the
\* steps of JobLifecycle: an output appears with the success and outlives
\* everything but the deletion of the project.
ImplementsLifecycle == Lifecycle!Spec

-----------------------------------------------------------------------------
(* The inductive invariant behind the invariants above.                    *)

\* No worker that was given j is going to write j's object.
Quiet(j) ==
    \A w \in Workers : at[w] = j => pc[w] \notin {"prepare", "recover", "produce"}

\* A worker inside the leased steps holds the lease of the job it was given.
LeaseInv ==
    \A w \in Workers :
        /\ pc[w] # "idle" => at[w] \in Jobs /\ status[at[w]] # "absent"
        /\ pc[w] \in LeasedSteps => lease[at[w]] = w

\* Deletions are only ever asked for jobs that lost or are gone, and by a
\* project's deletion only for jobs nobody works on.
Condemned(r) ==
    /\ status[r.job] \in Losers \cup {"deleted"}
    /\ ~r.scoped => status[r.job] = "deleted" /\ Quiet(r.job)

RowInv ==
    /\ \A r \in outbox : Condemned(r)
    /\ \A d \in Drainers, r \in Rows : r \in todo[d] => Condemned(r)

\* A row past the barrier is the row of a job nobody produces for, and what
\* the drain has erased stays erased until the row is acknowledged.
DrainInv ==
    \A d \in Drainers :
        drain[d] \in {"confirm", "erase", "ack"} =>
            /\ current[d] \in Rows
            /\ Condemned(current[d])
            /\ Quiet(current[d].job)
            /\ drain[d] = "ack" => ~object[current[d].job]

\* What the worker of an active job has produced and staged is there.
StagedInv ==
    \A w \in Workers :
        /\ pc[w] \in {"produced", "persist"} /\ status[at[w]] \in Active => object[at[w]]
        /\ pc[w] \in {"persisted", "decide", "success"} /\ status[at[w]] \in Active
            => object[at[w]] /\ artifact[at[w]] /\ result[at[w]]
        /\ pc[w] = "erase" => status[at[w]] \in Losers \cup {"deleted"}

\* A lost job without a row has no object and gets none.
CleanInv ==
    \A j \in Jobs :
        /\ status[j] = "succeeded" => Quiet(j)
        /\ status[j] \in Losers \cup Gone =>
            (\E r \in outbox : r.job = j) \/ (~object[j] /\ Quiet(j))

\* A project cannot go away under an open cancel request.
CancelInv == \A j \in Jobs : cancelTx[j] # "none" => status[j] \notin Gone

RunnerInv ==
    /\ CancelInv
    /\ LeaseInv
    /\ RowInv
    /\ DrainInv
    /\ StagedInv
    /\ CleanInv
    /\ SucceededOwnsArtifact
    /\ LoserOwnsNothing
=============================================================================
