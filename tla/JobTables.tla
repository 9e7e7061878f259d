------------------------------ MODULE JobTables ------------------------------
(***************************************************************************)
(* The rows and objects that jobs.py and services.py share, and the        *)
(* database transactions on them. Each operator below is one transaction:  *)
(* the code takes the job's row lock (locked_job, and locked_project where *)
(* said), decides on the values it reads, and commits.                     *)
(*                                                                         *)
(* Every job of the model writes one artifact under its one stable key     *)
(* (stable_job_object_key), so the key of a job is the job itself. Every   *)
(* job has a project of its own: nothing in this code relates two jobs of  *)
(* one project except that they wait for the same lock.                    *)
(***************************************************************************)
EXTENDS Naturals, FiniteSets

CONSTANTS
    Jobs,       \* the jobs clients may create
    Dialect     \* the database: "sqlite" or "postgresql"

ASSUME DialectAssumption == Dialect \in {"sqlite", "postgresql"}

VARIABLES
    status,     \* Job.status, "absent" before the insert, "deleted" after the project's deletion
    result,     \* Job.result names the job's artifact
    artifact,   \* an Artifact row of the job exists
    outbox,     \* rows of object_deletion_outbox
    object,     \* the store holds an object under the job's key
    cancelTx    \* progress of the transaction of POST /jobs/{id}/cancel

tables == <<status, result, artifact, outbox>>

Active == {"queued", "running"}
Losers == {"failed", "canceled"}
Gone == {"absent", "deleted"}
Statuses == Active \cup Losers \cup Gone \cup {"succeeded"}

CancelPhases == {"none", "read", "signalled", "marked", "dropped"}

\* An outbox row names an object key; job_id is set (scoped) when a job's own
\* termination asked for the deletion, null when a project's deletion did.
Rows == [job : Jobs, scoped : BOOLEAN]
Row(j) == [job |-> j, scoped |-> TRUE]
ProjectRow(j) == [job |-> j, scoped |-> FALSE]

TablesTypeOK ==
    /\ status \in [Jobs -> Statuses]
    /\ result \in [Jobs -> BOOLEAN]
    /\ artifact \in [Jobs -> BOOLEAN]
    /\ outbox \subseteq Rows
    /\ object \in [Jobs -> BOOLEAN]
    /\ cancelTx \in [Jobs -> CancelPhases]

TablesInit ==
    /\ status = [j \in Jobs |-> "absent"]
    /\ result = [j \in Jobs |-> FALSE]
    /\ artifact = [j \in Jobs |-> FALSE]
    /\ outbox = {}
    /\ object = [j \in Jobs |-> FALSE]
    /\ cancelTx = [j \in Jobs |-> "none"]

-----------------------------------------------------------------------------
(* Locks. The cancel request is the only transaction longer than a step:   *)
(* it holds the project row from its start (locked_project). On SQLite     *)
(* that is the write lock of the whole database (BEGIN IMMEDIATE); on      *)
(* PostgreSQL the job's own row is locked only by the later SELECT ... FOR *)
(* UPDATE of locked_job.                                                   *)

ProjectFree(j) ==
    IF Dialect = "sqlite" THEN \A k \in Jobs : cancelTx[k] = "none"
                          ELSE cancelTx[j] = "none"

RowFree(j) ==
    IF Dialect = "sqlite" THEN \A k \in Jobs : cancelTx[k] = "none"
                          ELSE cancelTx[j] \in {"none", "read", "signalled"}

CanceledInDb(j) == status[j] = "canceled"

-----------------------------------------------------------------------------
\* Terminal loss of a job: its artifact row goes, its object is to be deleted.
EndWithoutOutput(j, terminal) ==
    /\ status' = [status EXCEPT ![j] = terminal]
    /\ result' = [result EXCEPT ![j] = FALSE]
    /\ artifact' = [artifact EXCEPT ![j] = FALSE]
    /\ outbox' = outbox \cup {Row(j)}

FailPersistedJob(j) ==
    /\ RowFree(j)
    /\ IF status[j] \in Active THEN EndWithoutOutput(j, "failed")
                               ELSE UNCHANGED tables

PublishCanceledJob(j) ==
    /\ RowFree(j)
    /\ IF status[j] \in Active THEN EndWithoutOutput(j, "canceled")
                               ELSE UNCHANGED tables

\* Mutant: a terminal job may be claimed.
ClaimAnyJob(j) ==
    /\ RowFree(j)
    /\ status' = IF status[j] \in Gone THEN status ELSE [status EXCEPT ![j] = "running"]
    /\ UNCHANGED <<result, artifact, outbox>>

ClaimJob(j) ==
    /\ RowFree(j)
    /\ status' = IF status[j] \in Active
                 THEN [status EXCEPT ![j] = "running"] ELSE status
    /\ UNCHANGED <<result, artifact, outbox>>

\* Mutant: success is published over a terminal status.
PublishOverTerminalJob(j) ==
    /\ RowFree(j)
    /\ IF status[j] \in Gone
       THEN UNCHANGED <<status, result>>
       ELSE /\ status' = [status EXCEPT ![j] = "succeeded"]
            /\ result' = [result EXCEPT ![j] = TRUE]
    /\ UNCHANGED <<artifact, outbox>>

PublishSucceededJob(j) ==
    /\ RowFree(j)
    /\ IF status[j] \in Active
       THEN /\ status' = [status EXCEPT ![j] = "succeeded"]
            /\ result' = [result EXCEPT ![j] = TRUE]
       ELSE UNCHANGED <<status, result>>
    /\ UNCHANGED <<artifact, outbox>>

\* persist_job_artifact accepts the row: the job is active, or a delivery
\* already published this very result.
Persistable(j) ==
    status[j] \in Active \/ (status[j] = "succeeded" /\ artifact[j] /\ result[j])

PersistJobArtifact(j) ==
    /\ ProjectFree(j)
    /\ RowFree(j)
    /\ IF Persistable(j)
       THEN /\ artifact' = [artifact EXCEPT ![j] = TRUE]
            /\ result' = [result EXCEPT ![j] = TRUE]
       ELSE UNCHANGED <<artifact, result>>
    /\ UNCHANGED <<status, outbox>>

\* _cleanup_result: the loser of a publication removes the row it staged.
CleanupJobResult(j) ==
    /\ RowFree(j)
    /\ IF status[j] \notin Active \cup {"succeeded"} /\ artifact[j]
       THEN /\ artifact' = [artifact EXCEPT ![j] = FALSE]
            /\ result' = [result EXCEPT ![j] = FALSE]
            /\ outbox' = outbox \cup {Row(j)}
       ELSE UNCHANGED <<artifact, result, outbox>>
    /\ UNCHANGED status

\* Mutant: only a published artifact is protected from a rollback.
RollbackUnlessSucceeded(j) == status[j] # "succeeded"

\* rollback_job_artifact keeps what an active or succeeded job may own.
RollbackApplies(j) == status[j] \notin Active \cup {"succeeded"}

RollbackJobArtifact(j) ==
    /\ RowFree(j)
    /\ IF RollbackApplies(j)
       THEN /\ artifact' = [artifact EXCEPT ![j] = FALSE]
            /\ result' = [result EXCEPT ![j] = FALSE]
       ELSE UNCHANGED <<artifact, result>>
    /\ UNCHANGED <<status, outbox>>

-----------------------------------------------------------------------------
\* POST /jobs: the row is committed before anything is submitted.
InsertJob(j) ==
    /\ status[j] = "absent"
    /\ ProjectFree(j)
    /\ status' = [status EXCEPT ![j] = "queued"]
    /\ UNCHANGED <<result, artifact, outbox, object, cancelTx>>

\* DELETE /projects/{id}: refused while a job of the project is active; the
\* rows go and the keys of the artifacts are handed to the outbox.
DeleteProject(j) ==
    /\ status[j] \in Losers \cup {"succeeded"}
    /\ ProjectFree(j)
    /\ status' = [status EXCEPT ![j] = "deleted"]
    /\ result' = [result EXCEPT ![j] = FALSE]
    /\ artifact' = [artifact EXCEPT ![j] = FALSE]
    /\ outbox' = IF artifact[j] THEN outbox \cup {ProjectRow(j)} ELSE outbox
    /\ UNCHANGED <<object, cancelTx>>

\* cancel_job takes the project's lock and reads the job's status.
BeginCancel(j) ==
    /\ ProjectFree(j)
    /\ status[j] \in Active
    /\ cancelTx' = [cancelTx EXCEPT ![j] = "read"]
    /\ UNCHANGED <<tables, object>>

\* _mark_canceled locks the row and looks at the status again, but through
\* the session that already holds the job: the SELECT does not refresh a
\* loaded object, so the status it sees is the one BeginCancel read.
MarkCanceled(j, phase) ==
    /\ cancelTx[j] = phase
    /\ cancelTx' = [cancelTx EXCEPT ![j] = "marked"]
    /\ UNCHANGED <<tables, object>>

\* The commit of locked_project at the end of the request.
CommitCancel(j) ==
    /\ cancelTx[j] \in {"marked", "dropped"}
    /\ EndWithoutOutput(j, "canceled")
    /\ cancelTx' = [cancelTx EXCEPT ![j] = "none"]
    /\ UNCHANGED object

\* The request fails before its commit and its transaction is rolled back.
AbortCancel(j) ==
    /\ cancelTx[j] # "none"
    /\ cancelTx' = [cancelTx EXCEPT ![j] = "none"]
    /\ UNCHANGED <<tables, object>>
=============================================================================
