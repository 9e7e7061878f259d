----------------------------- MODULE ObjectOutbox -----------------------------
(***************************************************************************)
(* drain_object_deletions: every process that drains the outbox reads the  *)
(* rows it may act on, crosses the execution lease of each row's job,      *)
(* reads the row again, deletes the object and only then the row. Each of  *)
(* these is a step of its own here, so drains interleave with each other,  *)
(* with the producers of the objects and with crashes.                     *)
(*                                                                         *)
(* The store may answer that a deletion is deferred (a download holds the  *)
(* path) or may fail; both leave the row. The order in which one drain     *)
(* takes its rows is left open.                                            *)
(***************************************************************************)
EXTENDS JobTables

CONSTANTS
    Workers,    \* processes (rq) or pool threads (local) that run jobs
    Servers     \* API processes: they drain at startup, periodically and after requests

CONSTANTS NoWorker, NoRow

ASSUME ActorAssumption ==
    /\ NoWorker \notin Workers
    /\ NoRow \notin Rows
    /\ Workers \cap Servers = {}

VARIABLES
    lease,      \* job_execution_lock: the worker that holds the job's lease
    drain,      \* the step each drainer is at
    todo,       \* the snapshot of rows it has still to process
    current     \* the row it is processing

drainVars == <<drain, todo, current>>

Drainers == Workers \cup Servers

DrainSteps == {"rest", "scan", "confirm", "erase", "ack"}

OutboxTypeOK ==
    /\ lease \in [Jobs -> Workers \cup {NoWorker}]
    /\ drain \in [Drainers -> DrainSteps]
    /\ todo \in [Drainers -> SUBSET Rows]
    /\ current \in [Drainers -> Rows \cup {NoRow}]

OutboxInit ==
    /\ lease = [j \in Jobs |-> NoWorker]
    /\ drain = [d \in Drainers |-> "rest"]
    /\ todo = [d \in Drainers |-> {}]
    /\ current = [d \in Drainers |-> NoRow]

-----------------------------------------------------------------------------
\* Rows of active jobs are not touched: the job may still use its object.
Drainable(r) == r.scoped => status[r.job] \notin Active

\* The rows a drain reads at its start, all of them or those of one job.
Snapshot(scope) == {r \in outbox \cap scope : Drainable(r)}

RowsOf(j) == {r \in Rows : r.job = j /\ r.scoped}

SelectRows(d, scope) ==
    /\ drain[d] = "rest"
    /\ drain' = [drain EXCEPT ![d] = "scan"]
    /\ todo' = [todo EXCEPT ![d] = Snapshot(scope)]
    /\ UNCHANGED <<tables, object, cancelTx, lease, current>>

\* The barrier: a scoped row waits until no worker runs its job. The lease is
\* taken without blocking and released at once; a busy row is deferred.
CrossBarrier(d, r) ==
    /\ drain[d] = "scan"
    /\ r \in todo[d]
    /\ todo' = [todo EXCEPT ![d] = @ \ {r}]
    /\ IF r.scoped /\ lease[r.job] # NoWorker
       THEN UNCHANGED <<drain, current>>
       ELSE /\ drain' = [drain EXCEPT ![d] = "confirm"]
            /\ current' = [current EXCEPT ![d] = r]
    /\ UNCHANGED <<tables, object, cancelTx, lease>>

\* The second read: another drain may have acknowledged the row meanwhile.
ConfirmRow(d) ==
    /\ drain[d] = "confirm"
    /\ IF current[d] \in outbox /\ Drainable(current[d])
       THEN drain' = [drain EXCEPT ![d] = "erase"] /\ UNCHANGED current
       ELSE /\ drain' = [drain EXCEPT ![d] = "scan"]
            /\ current' = [current EXCEPT ![d] = NoRow]
    /\ UNCHANGED <<tables, object, cancelTx, lease, todo>>

EraseObject(d) ==
    /\ drain[d] = "erase"
    /\ drain' = [drain EXCEPT ![d] = "ack"]
    /\ object' = [object EXCEPT ![current[d].job] = FALSE]
    /\ UNCHANGED <<tables, cancelTx, lease, todo, current>>

\* store.delete answers FALSE: the row stays, the drain goes on.
EraseDeferred(d) ==
    /\ drain[d] = "erase"
    /\ drain' = [drain EXCEPT ![d] = "scan"]
    /\ current' = [current EXCEPT ![d] = NoRow]
    /\ UNCHANGED <<tables, object, cancelTx, lease, todo>>

\* The store fails, or the database does: the row stays, the drain stops.
DrainFails(d) ==
    /\ drain[d] \in {"erase", "ack"}
    /\ drain' = [drain EXCEPT ![d] = "scan"]
    /\ todo' = [todo EXCEPT ![d] = {}]
    /\ current' = [current EXCEPT ![d] = NoRow]
    /\ UNCHANGED <<tables, object, cancelTx, lease>>

\* Mutant: the deletion of the row is not committed.
AckWithoutCommit(d) ==
    /\ drain[d] = "ack"
    /\ drain' = [drain EXCEPT ![d] = "scan"]
    /\ current' = [current EXCEPT ![d] = NoRow]
    /\ UNCHANGED <<tables, object, cancelTx, lease, todo>>

AckRow(d) ==
    /\ drain[d] = "ack"
    /\ outbox' = outbox \ {current[d]}
    /\ drain' = [drain EXCEPT ![d] = "scan"]
    /\ current' = [current EXCEPT ![d] = NoRow]
    /\ UNCHANGED <<status, result, artifact, object, cancelTx, lease, todo>>

EndDrain(d) ==
    /\ drain[d] = "scan" /\ todo[d] = {}
    /\ drain' = [drain EXCEPT ![d] = "rest"]
    /\ UNCHANGED <<tables, object, cancelTx, lease, todo, current>>

DrainStep(d) ==
    \/ \E r \in Rows : CrossBarrier(d, r)
    \/ ConfirmRow(d)
    \/ EraseObject(d)
    \/ EraseDeferred(d)
    \/ DrainFails(d)
    \/ AckRow(d)

\* The drains a crash of the processes P interrupts.
StopDrains(P) ==
    /\ drain' = [d \in Drainers |-> IF d \in P THEN "rest" ELSE drain[d]]
    /\ todo' = [d \in Drainers |-> IF d \in P THEN {} ELSE todo[d]]
    /\ current' = [d \in Drainers |-> IF d \in P THEN NoRow ELSE current[d]]
=============================================================================
