---------------------------- MODULE IngestDataset ----------------------------
(***************************************************************************)
(* One dataset and the ingest jobs on it: run_ingest moves the dataset's   *)
(* status beside the status of its job, each in transactions of its own,   *)
(* while clients cancel and start ingests and RQ delivers, abandons and    *)
(* gives up jobs. An ingest has no artifact; its transactions on the job   *)
(* are those of JobTables with _reset_interrupted_ingest in their place.   *)
(*                                                                         *)
(* A worker waits for the job's execution lease before its first step, so  *)
(* a delivery starts when no other worker has the job. Transactions are    *)
(* atomic: the database is SQLite, or no two of them overlap.              *)
(*                                                                         *)
(* Bounds: each job is started once and delivered MaxRetries + 1 times;    *)
(* MaxCancels cancel requests, MaxAbandons deliveries given up while their *)
(* worker lives, MaxDeaths killed workers, MaxFaults failing transactions. *)
(***************************************************************************)
EXTENDS Naturals

CONSTANTS
    Jobs,           \* the ingest jobs clients start on the dataset
    Workers,
    NoJob, NoWorker,
    MaxRetries,     \* settings.job_queue_max_retries
    MaxCancels, MaxAbandons, MaxDeaths, MaxFaults

ASSUME ValueAssumption == NoJob \notin Jobs /\ NoWorker \notin Workers
ASSUME BoundAssumption ==
    {MaxRetries, MaxCancels, MaxAbandons, MaxDeaths, MaxFaults} \subseteq Nat

VARIABLES
    dataset,        \* Dataset.status, or that its project is gone
    status,         \* Job.status of each ingest, or that it has no row
    delivery,       \* where the submission and RQ have the job's message
    retries,        \* rq_job.retries_left
    holder,         \* the worker RQ believes to run it
    pc, at,         \* the step of each worker, and its job
    spent           \* how much of each bound was used

rqVars == <<delivery, retries, holder>>
workerVars == <<pc, at>>
vars == <<dataset, status, rqVars, workerVars, spent>>

Active == {"queued", "running"}
\* The steps of run_ingest during which the dataset is meant to be reserved.
ReservedSteps == {"check", "parse", "recheck", "write", "revert", "mark"}
\* Those between the claim and the answer to RQ.
JobSteps == ReservedSteps \cup {"reserve", "decide", "succeed", "cancel", "fail"}

TypeOK ==
    /\ dataset \in {"registered", "ingesting", "ready", "error", "gone"}
    /\ status \in [Jobs -> Active \cup {"succeeded", "failed", "canceled", "absent", "deleted"}]
    /\ delivery \in [Jobs -> {"none", "submitting", "queued", "started", "failing", "ended"}]
    /\ retries \in [Jobs -> 0..MaxRetries]
    /\ holder \in [Jobs -> Workers \cup {NoWorker}]
    /\ pc \in [Workers -> JobSteps \cup {"idle", "claim", "done"}]
    /\ at \in [Workers -> Jobs \cup {NoJob}]
    /\ spent \in [cancels : 0..MaxCancels, abandons : 0..MaxAbandons,
                  deaths : 0..MaxDeaths, faults : 0..MaxFaults]

Init ==
    /\ dataset = "registered"
    /\ status = [j \in Jobs |-> "absent"]
    /\ delivery = [j \in Jobs |-> "none"]
    /\ retries = [j \in Jobs |-> 0]
    /\ holder = [j \in Jobs |-> NoWorker]
    /\ pc = [w \in Workers |-> "idle"]
    /\ at = [w \in Workers |-> NoJob]
    /\ spent = [cancels |-> 0, abandons |-> 0, deaths |-> 0, faults |-> 0]

-----------------------------------------------------------------------------
(* Transactions that end a job.                                            *)

\* Mutants: the reservation is left to the worker; the status is not looked at.
KeepReservation == UNCHANGED dataset
ResetAnyDataset == dataset' = IF dataset = "gone" THEN "gone" ELSE "registered"

ResetInterruptedIngest ==
    dataset' = IF dataset = "ingesting" THEN "registered" ELSE dataset

EndJob(j, outcome) ==
    IF status[j] \in Active
    THEN /\ status' = [status EXCEPT ![j] = outcome]
         /\ ResetInterruptedIngest
    ELSE UNCHANGED <<status, dataset>>

Goto(w, step) == pc' = [pc EXCEPT ![w] = step] /\ UNCHANGED at

\* A dataset that is gone is left alone, both by _set_dataset_status and by
\* the transactions of the body, which raise.
SetDataset(value) == dataset' = IF dataset = "gone" THEN "gone" ELSE value

-----------------------------------------------------------------------------
(* The API.                                                                *)

\* Mutant: the guard trusts the dataset's status alone.
NoReservation == dataset \notin {"ingesting", "gone"}

\* The guard of the endpoint: the dataset first, then the ingests on it.
NoIngestRuns ==
    /\ dataset \notin {"ingesting", "gone"}
    /\ \A j \in Jobs : status[j] \notin Active

StartIngest(j) ==
    /\ status[j] = "absent" /\ NoIngestRuns
    /\ status' = [status EXCEPT ![j] = "queued"]
    /\ delivery' = [delivery EXCEPT ![j] = "submitting"]
    /\ UNCHANGED <<dataset, retries, holder, workerVars, spent>>

Submit(j) ==
    /\ delivery[j] = "submitting"
    /\ delivery' = [delivery EXCEPT ![j] = "queued"]
    /\ retries' = [retries EXCEPT ![j] = MaxRetries]
    /\ UNCHANGED <<dataset, status, holder, workerVars, spent>>

\* The queue is down: submit fails the job and the client gets a 503.
SubmitFails(j) ==
    /\ delivery[j] = "submitting"
    /\ EndJob(j, "failed")
    /\ delivery' = [delivery EXCEPT ![j] = "none"]
    /\ UNCHANGED <<retries, holder, workerVars, spent>>

\* _mark_canceled, and the removal of a message that no worker has taken.
Cancel(j) ==
    /\ status[j] \in Active
    /\ spent.cancels < MaxCancels
    /\ spent' = [spent EXCEPT !.cancels = @ + 1]
    /\ EndJob(j, "canceled")
    /\ delivery' = IF delivery[j] = "queued" THEN [delivery EXCEPT ![j] = "ended"] ELSE delivery
    /\ UNCHANGED <<retries, holder, workerVars>>

\* A project with active jobs cannot be deleted.
DeleteProject ==
    /\ dataset # "gone"
    /\ \A j \in Jobs : status[j] \notin Active
    /\ dataset' = "gone"
    /\ status' = [j \in Jobs |-> IF status[j] = "absent" THEN "absent" ELSE "deleted"]
    /\ UNCHANGED <<rqVars, workerVars, spent>>

-----------------------------------------------------------------------------
(* RQ, external, as in RQJobs.                                             *)

Deliver(w, j) ==
    /\ pc[w] = "idle" /\ delivery[j] = "queued"
    /\ \A v \in Workers : at[v] # j
    /\ pc' = [pc EXCEPT ![w] = "claim"]
    /\ at' = [at EXCEPT ![w] = j]
    /\ delivery' = [delivery EXCEPT ![j] = "started"]
    /\ holder' = [holder EXCEPT ![j] = w]
    /\ UNCHANGED <<dataset, status, retries, spent>>

\* Mutant: the retries are never used up.
RetryForEver(j) ==
    /\ holder' = [holder EXCEPT ![j] = NoWorker]
    /\ delivery' = [delivery EXCEPT ![j] = "queued"]
    /\ retries' = [retries EXCEPT ![j] = @ - 1]

RetryOrFail(j) ==
    /\ holder' = [holder EXCEPT ![j] = NoWorker]
    /\ IF retries[j] > 0
       THEN /\ delivery' = [delivery EXCEPT ![j] = "queued"]
            /\ retries' = [retries EXCEPT ![j] = @ - 1]
       ELSE delivery' = [delivery EXCEPT ![j] = "failing"] /\ UNCHANGED retries

Finish(w) ==
    /\ pc[w] = "done"
    /\ pc' = [pc EXCEPT ![w] = "idle"]
    /\ at' = [at EXCEPT ![w] = NoJob]
    /\ IF holder[at[w]] = w
       THEN /\ delivery' = [delivery EXCEPT ![at[w]] = "ended"]
            /\ holder' = [holder EXCEPT ![at[w]] = NoWorker]
       ELSE UNCHANGED <<delivery, holder>>
    /\ UNCHANGED <<dataset, status, retries, spent>>

\* The workhorse is killed, or an exception of a claim or a publication that
\* failed reaches RQ: either way the delivery has failed.
Die(w) ==
    /\ pc[w] # "idle"
    /\ spent.deaths < MaxDeaths
    /\ spent' = [spent EXCEPT !.deaths = @ + 1]
    /\ pc' = [pc EXCEPT ![w] = "idle"]
    /\ at' = [at EXCEPT ![w] = NoJob]
    /\ IF holder[at[w]] = w THEN RetryOrFail(at[w]) ELSE UNCHANGED rqVars
    /\ UNCHANGED <<dataset, status>>

\* RQ takes a living worker for dead.
Abandon(j) ==
    /\ holder[j] # NoWorker
    /\ spent.abandons < MaxAbandons
    /\ spent' = [spent EXCEPT !.abandons = @ + 1]
    /\ RetryOrFail(j)
    /\ UNCHANGED <<dataset, status, workerVars>>

TerminalFailure(j) ==
    /\ delivery[j] = "failing"
    /\ EndJob(j, "failed")
    /\ delivery' = [delivery EXCEPT ![j] = "ended"]
    /\ UNCHANGED <<retries, holder, workerVars, spent>>

-----------------------------------------------------------------------------
(* The worker.                                                             *)

Canceled(w) == status[at[w]] = "canceled"

Claim(w) ==
    /\ pc[w] = "claim"
    /\ IF status[at[w]] \in Active
       THEN status' = [status EXCEPT ![at[w]] = "running"] /\ Goto(w, "reserve")
       ELSE UNCHANGED status /\ Goto(w, "done")
    /\ UNCHANGED <<dataset, rqVars, spent>>

\* The reservation does not look at the job: a cancellation may have won.
Reserve(w) ==
    /\ pc[w] = "reserve"
    /\ SetDataset("ingesting")
    /\ Goto(w, IF dataset = "gone" THEN "fail" ELSE "check")
    /\ UNCHANGED <<status, rqVars, spent>>

\* Mutant: the body lets JobCancelled pass.
CheckWithoutRevert(w) ==
    /\ pc[w] \in {"check", "recheck"}
    /\ Goto(w, IF Canceled(w) THEN "cancel" ELSE IF pc[w] = "check" THEN "parse" ELSE "write")
    /\ UNCHANGED <<dataset, status, rqVars, spent>>

\* The looks at the cancellation before the parser and after it.
CheckCanceled(w) ==
    /\ pc[w] \in {"check", "recheck"}
    /\ Goto(w, IF Canceled(w) THEN "revert" ELSE IF pc[w] = "check" THEN "parse" ELSE "write")
    /\ UNCHANGED <<dataset, status, rqVars, spent>>

Parse(w) ==
    /\ pc[w] = "parse"
    /\ Goto(w, "recheck")
    /\ UNCHANGED <<dataset, status, rqVars, spent>>

\* extract_external_metadata polls for a cancellation as it waits.
ParseCanceled(w) ==
    /\ pc[w] = "parse" /\ Canceled(w)
    /\ Goto(w, "revert")
    /\ UNCHANGED <<dataset, status, rqVars, spent>>

\* Any other exception in the try block: a bad file, the store, RQ's timeout.
ParseFails(w) ==
    /\ pc[w] \in {"check", "parse", "recheck"}
    /\ Goto(w, "mark")
    /\ UNCHANGED <<dataset, status, rqVars, spent>>

Revert(w) ==
    /\ pc[w] = "revert"
    /\ SetDataset("registered")
    /\ Goto(w, "cancel")
    /\ UNCHANGED <<status, rqVars, spent>>

\* Mutant: the handler does not raise the exception again.

MarkError(w) ==
    /\ pc[w] = "mark"
    /\ SetDataset("error")
    /\ Goto(w, "fail")
    /\ UNCHANGED <<status, rqVars, spent>>

\* The final transaction does not look at the job either.
WriteMetadata(w) ==
    /\ pc[w] = "write"
    /\ SetDataset("ready")
    /\ Goto(w, IF dataset = "gone" THEN "fail" ELSE "decide")
    /\ UNCHANGED <<status, rqVars, spent>>

\* A transaction on the dataset fails: its exception is what _run_job sees.
DatabaseFails(w) ==
    /\ pc[w] \in {"reserve", "revert", "mark", "write", "decide", "succeed"}
    /\ spent.faults < MaxFaults
    /\ spent' = [spent EXCEPT !.faults = @ + 1]
    /\ Goto(w, "fail")
    /\ UNCHANGED <<dataset, status, rqVars>>

Decide(w) ==
    /\ pc[w] = "decide"
    /\ Goto(w, IF Canceled(w) THEN "cancel" ELSE "succeed")
    /\ UNCHANGED <<dataset, status, rqVars, spent>>

PublishSuccess(w) ==
    /\ pc[w] = "succeed"
    /\ status' = IF status[at[w]] \in Active
                 THEN [status EXCEPT ![at[w]] = "succeeded"] ELSE status
    /\ Goto(w, "done")
    /\ UNCHANGED <<dataset, rqVars, spent>>

PublishCanceled(w) ==
    /\ pc[w] = "cancel"
    /\ EndJob(at[w], "canceled")
    /\ Goto(w, "done")
    /\ UNCHANGED <<rqVars, spent>>

PublishFailure(w) ==
    /\ pc[w] = "fail"
    /\ EndJob(at[w], "failed")
    /\ Goto(w, "done")
    /\ UNCHANGED <<rqVars, spent>>

-----------------------------------------------------------------------------
WorkerStep(w) ==
    \/ Claim(w) \/ Reserve(w) \/ CheckCanceled(w) \/ Parse(w) \/ ParseCanceled(w)
    \/ Revert(w) \/ MarkError(w) \/ WriteMetadata(w) \/ Decide(w)
    \/ PublishSuccess(w) \/ PublishCanceled(w) \/ PublishFailure(w)
    \/ Finish(w)

Next ==
    \/ \E j \in Jobs :
        \/ StartIngest(j) \/ Submit(j) \/ SubmitFails(j) \/ Cancel(j)
        \/ Abandon(j) \/ TerminalFailure(j)
    \/ \E w \in Workers, j \in Jobs : Deliver(w, j)
    \/ \E w \in Workers : WorkerStep(w) \/ ParseFails(w) \/ DatabaseFails(w) \/ Die(w)
    \/ DeleteProject

Spec == Init /\ [][Next]_vars

\* Live processes go on; no client, failure or death is forced.
Fairness ==
    /\ \A w \in Workers : WF_vars(WorkerStep(w))
    /\ \A j \in Jobs :
        /\ WF_vars(Submit(j)) /\ WF_vars(TerminalFailure(j))
        /\ WF_vars(\E w \in Workers : Deliver(w, j))

FairSpec == Spec /\ Fairness

-----------------------------------------------------------------------------
(* Properties.                                                             *)

\* The endpoint's guard keeps ingests apart: a dataset has one active ingest,
\* whatever its status said when the request was made.
OneActiveIngest ==
    \A j, k \in Jobs : status[j] \in Active /\ status[k] \in Active => j = k

\* A reservation can still be released: while the dataset is "ingesting",
\* either an active job, that will release it when it ends, or a worker that
\* is going to overwrite the status stands behind it. Without either the
\* endpoint answers 409 for ever.
ReservationHasOwner ==
    dataset = "ingesting" =>
        \/ \E j \in Jobs : status[j] \in Active
        \/ \E w \in Workers : pc[w] \in ReservedSteps

\* Nothing was canceled, by a client or by RQ, so far.
Uncanceled == spent.cancels = 0 /\ spent.abandons = 0

\* The two looks at the tables before an ingest starts also keep the bodies
\* apart, as long as nothing is canceled: two ingests never write the dataset
\* in turns.
OneIngestInBody ==
    Uncanceled =>
        \A v, w \in Workers :
            pc[v] \in ReservedSteps /\ pc[w] \in ReservedSteps => v = w

\* One ingest at a time, in the tables and in the workers.
IngestsExclude == OneActiveIngest /\ OneIngestInBody

\* What clients see as ready stays ready until another ingest reserves the
\* dataset or the project goes: unless something is canceled, no late worker
\* takes it back.
ReadyIsKept ==
    [][dataset = "ready" /\ Uncanceled' => dataset' \in {"ready", "ingesting", "gone"}]_vars

\* run_ingest reverts "so it is not left displaying ingesting": not what is ready.
ReadyIsNotOverwritten ==
    [][dataset = "ready" => dataset' \in {"ready", "ingesting", "gone"}]_vars

\* An ingest that succeeded leaves a dataset that can be viewed, unless a
\* later one replaces it (the job that succeeded is the last one that ran).
SucceededIsReady ==
    (\E j \in Jobs : status[j] = "succeeded")
        /\ (\A j \in Jobs : status[j] \in {"succeeded", "queued", "absent"})
        => dataset = "ready"

\* No reservation lasts for ever.
ReservationEnds == dataset = "ingesting" ~> dataset # "ingesting"
=============================================================================
