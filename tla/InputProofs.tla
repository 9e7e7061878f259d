------------------------------ MODULE InputProofs -----------------------------
(***************************************************************************)
(* What comes into the system. Uploads: what run_ingest and the            *)
(* transactions around it keep, for any number of jobs, workers,           *)
(* deliveries and failures. ReservationHasOwner needs one of two           *)
(* assumptions, and the violated runs show why: a cancellation followed by *)
(* a death leaves a reservation without an owner.                          *)
(* Tables: what is read of a CSV text is what was written into it, for any *)
(* cells and any number of rows (TableInvariant).                          *)
(***************************************************************************)
EXTENDS IngestDataset, Tables, FiniteSetTheorems, SequenceTheorems,
        WellFoundedInduction, TLAPS

\* No client cancels, and RQ gives up no living worker.
Calm == MaxCancels = 0 /\ MaxAbandons = 0
\* No worker is killed and no transaction fails.
Unfailing == MaxDeaths = 0 /\ MaxFaults = 0

\* A worker with a job is the only one, and was handed a message of that job.
WorkersInv ==
    /\ \A w \in Workers :
        /\ pc[w] = "idle" <=> at[w] = NoJob
        /\ at[w] # NoJob => status[at[w]] # "absent" /\ delivery[at[w]] # "submitting"
    /\ \A v, w \in Workers : at[v] # NoJob /\ at[v] = at[w] => v = w
    /\ \A j \in Jobs :
        /\ status[j] = "absent" => delivery[j] = "none"
        /\ holder[j] # NoWorker => delivery[j] = "started"

Inv == TypeOK /\ OneActiveIngest /\ WorkersInv

USE DEF Active, ReservedSteps, JobSteps, rqVars, workerVars

LEMMA InitInv == Init => Inv
BY ValueAssumption, BoundAssumption
   DEF Init, Inv, TypeOK, OneActiveIngest, WorkersInv

\* A worker moves to a step other than idle, and the status of its job may change,
\* to an active one only if it is active already.
LEMMA MoveInv ==
    ASSUME NEW w \in Workers, Inv, TypeOK', pc[w] # "idle", pc'[w] # "idle",
           \A v \in Workers \ {w} : pc'[v] = pc[v],
           \A j \in Jobs :
               /\ status'[j] \in Active => status[j] \in Active
               /\ status'[j] = "absent" => status[j] = "absent",
           UNCHANGED <<at, delivery, holder>>
    PROVE  Inv'
BY DEF Inv, TypeOK, OneActiveIngest, WorkersInv

\* The same of a job whose message moves on, but not back to its submission.
LEMMA MessageInv ==
    ASSUME NEW j \in Jobs, Inv, TypeOK', delivery[j] \in {"submitting", "failing"},
           delivery'[j] # "submitting",
           \A k \in Jobs \ {j} : delivery'[k] = delivery[k],
           \A k \in Jobs :
               /\ status'[k] \in Active => status[k] \in Active
               /\ status'[k] = "absent" => status[k] = "absent",
           UNCHANGED <<pc, at, holder>>
    PROVE  Inv'
BY DEF Inv, TypeOK, OneActiveIngest, WorkersInv

LEMMA RetryType ==
    ASSUME NEW j \in Jobs, TypeOK, RetryOrFail(j)
    PROVE  /\ delivery' \in [Jobs -> {"none", "submitting", "queued", "started", "failing", "ended"}]
           /\ retries' \in [Jobs -> 0..MaxRetries]
           /\ holder' \in [Jobs -> Workers \cup {NoWorker}]
           /\ delivery'[j] \in {"queued", "failing"}
           /\ \A k \in Jobs \ {j} : delivery'[k] = delivery[k] /\ holder'[k] = holder[k]
           /\ holder'[j] = NoWorker
BY BoundAssumption DEF TypeOK, RetryOrFail

LEMMA EndJobStatus ==
    ASSUME NEW j \in Jobs, NEW outcome \in {"failed", "canceled"}, TypeOK, EndJob(j, outcome)
    PROVE  /\ status' \in [Jobs -> Active \cup {"succeeded", "failed", "canceled", "absent", "deleted"}]
           /\ dataset' \in {"registered", "ingesting", "ready", "error", "gone"}
           /\ status'[j] \notin Active
           /\ \A k \in Jobs :
               /\ status'[k] \in Active => status[k] \in Active
               /\ status'[k] = "absent" => status[k] = "absent"
BY DEF TypeOK, EndJob, ResetInterruptedIngest

\* The counters stay below their bounds.
LEMMA SpentType ==
    ASSUME TypeOK
    PROVE  /\ spent.cancels < MaxCancels => [spent EXCEPT !.cancels = @ + 1] \in
               [cancels : 0..MaxCancels, abandons : 0..MaxAbandons,
                deaths : 0..MaxDeaths, faults : 0..MaxFaults]
           /\ spent.abandons < MaxAbandons => [spent EXCEPT !.abandons = @ + 1] \in
               [cancels : 0..MaxCancels, abandons : 0..MaxAbandons,
                deaths : 0..MaxDeaths, faults : 0..MaxFaults]
           /\ spent.deaths < MaxDeaths => [spent EXCEPT !.deaths = @ + 1] \in
               [cancels : 0..MaxCancels, abandons : 0..MaxAbandons,
                deaths : 0..MaxDeaths, faults : 0..MaxFaults]
           /\ spent.faults < MaxFaults => [spent EXCEPT !.faults = @ + 1] \in
               [cancels : 0..MaxCancels, abandons : 0..MaxAbandons,
                deaths : 0..MaxDeaths, faults : 0..MaxFaults]
BY BoundAssumption DEF TypeOK

LEMMA NextInv == Inv /\ [Next]_vars => Inv'
<1> SUFFICES ASSUME Inv, [Next]_vars PROVE Inv'
  OBVIOUS
<1>0. TypeOK
  BY DEF Inv
<1>1. ASSUME NEW j \in Jobs, StartIngest(j) PROVE Inv'
  <2>1. TypeOK' /\ OneActiveIngest'
    BY <1>0, <1>1 DEF TypeOK, StartIngest, NoIngestRuns, OneActiveIngest
  <2>2. WorkersInv'
    BY <1>0, <1>1 DEF Inv, TypeOK, StartIngest, WorkersInv
  <2> QED
    BY <2>1, <2>2 DEF Inv
<1>2. ASSUME NEW j \in Jobs, Submit(j) PROVE Inv'
  <2>1. TypeOK'
    BY <1>0, <1>2, BoundAssumption DEF TypeOK, Submit
  <2> QED
    BY <1>0, <1>2, <2>1, MessageInv DEF Submit, TypeOK
<1>3. ASSUME NEW j \in Jobs, SubmitFails(j) PROVE Inv'
  <2>1. TypeOK'
    BY <1>0, <1>3, EndJobStatus DEF TypeOK, SubmitFails
  <2> QED
    BY <1>0, <1>3, <2>1, MessageInv, EndJobStatus DEF SubmitFails, TypeOK
<1>4. ASSUME NEW j \in Jobs, Cancel(j) PROVE Inv'
  <2>0. /\ delivery' \in [Jobs -> {"none", "submitting", "queued", "started", "failing", "ended"}]
        /\ \A k \in Jobs : delivery'[k] = delivery[k] \/ (delivery[k] = "queued" /\ delivery'[k] = "ended")
    BY <1>0, <1>4 DEF TypeOK, Cancel
  <2>1. TypeOK'
    <3>1. spent' \in [cancels : 0..MaxCancels, abandons : 0..MaxAbandons,
                      deaths : 0..MaxDeaths, faults : 0..MaxFaults]
      BY <1>0, <1>4, SpentType DEF Cancel
    <3> QED
      BY <1>0, <1>4, <2>0, <3>1, EndJobStatus DEF TypeOK, Cancel
  <2>2. \A k \in Jobs : /\ status'[k] \in Active => status[k] \in Active
                        /\ status'[k] = "absent" => status[k] = "absent"
    BY <1>0, <1>4, EndJobStatus DEF Cancel
  <2> QED
    BY <1>4, <2>0, <2>1, <2>2 DEF Inv, Cancel, OneActiveIngest, WorkersInv, TypeOK
<1>5. ASSUME NEW j \in Jobs, Abandon(j) PROVE Inv'
  <2>1. TypeOK'
    <3>1. spent' \in [cancels : 0..MaxCancels, abandons : 0..MaxAbandons,
                      deaths : 0..MaxDeaths, faults : 0..MaxFaults]
      BY <1>0, <1>5, SpentType DEF Abandon
    <3> QED
      BY <1>0, <1>5, <3>1, RetryType DEF TypeOK, Abandon
  <2>2. WorkersInv'
    BY <1>0, <1>5, RetryType DEF Inv, Abandon, WorkersInv, TypeOK
  <2> QED
    BY <1>5, <2>1, <2>2 DEF Inv, Abandon, OneActiveIngest
<1>6. ASSUME NEW j \in Jobs, TerminalFailure(j) PROVE Inv'
  <2>1. TypeOK'
    BY <1>0, <1>6, EndJobStatus DEF TypeOK, TerminalFailure
  <2> QED
    BY <1>0, <1>6, <2>1, MessageInv, EndJobStatus DEF TerminalFailure, TypeOK
<1>7. ASSUME NEW w \in Workers, NEW j \in Jobs, Deliver(w, j) PROVE Inv'
  <2>1. TypeOK'
    BY <1>0, <1>7 DEF TypeOK, Deliver
  <2>2. WorkersInv'
    BY <1>0, <1>7, ValueAssumption DEF Inv, Deliver, WorkersInv, TypeOK
  <2> QED
    BY <1>7, <2>1, <2>2 DEF Inv, Deliver, OneActiveIngest
<1>8. ASSUME NEW w \in Workers, WorkerStep(w) \/ ParseFails(w) \/ DatabaseFails(w), ~Finish(w)
      PROVE  Inv'
  <2>0. pc[w] # "idle" /\ at[w] \in Jobs /\ w \in Workers
    BY <1>0, <1>8 DEF Inv, WorkersInv, TypeOK, WorkerStep, Claim, Reserve, CheckCanceled, Parse,
       ParseCanceled, ParseFails, Revert, MarkError, WriteMetadata, DatabaseFails, Decide,
       PublishSuccess, PublishCanceled, PublishFailure
  <2>1. CASE Claim(w)
    <3>1. TypeOK'
      BY <1>0, <2>0, <2>1 DEF TypeOK, Claim, Goto
    <3> QED
      BY <1>0, <2>0, <2>1, <3>1, MoveInv DEF Claim, Goto, TypeOK
  <2>2. CASE \/ Reserve(w) \/ Revert(w) \/ MarkError(w) \/ WriteMetadata(w)
    <3>1. TypeOK'
      BY <1>0, <2>0, <2>2 DEF TypeOK, Reserve, Revert, MarkError, WriteMetadata, Goto, SetDataset
    <3> QED
      BY <1>0, <2>0, <2>2, <3>1, MoveInv
         DEF Reserve, Revert, MarkError, WriteMetadata, Goto, TypeOK
  <2>3. CASE \/ CheckCanceled(w) \/ Parse(w) \/ ParseCanceled(w) \/ ParseFails(w) \/ Decide(w)
    <3>1. TypeOK'
      BY <1>0, <2>0, <2>3 DEF TypeOK, CheckCanceled, Parse, ParseCanceled, ParseFails, Decide, Goto
    <3> QED
      BY <1>0, <2>0, <2>3, <3>1, MoveInv
         DEF CheckCanceled, Parse, ParseCanceled, ParseFails, Decide, Goto, TypeOK
  <2>4. CASE DatabaseFails(w)
    <3>1. TypeOK'
      BY <1>0, <2>0, <2>4, SpentType DEF TypeOK, DatabaseFails, Goto
    <3> QED
      BY <1>0, <2>0, <2>4, <3>1, MoveInv DEF DatabaseFails, Goto, TypeOK
  <2>5. CASE PublishSuccess(w)
    <3>1. TypeOK'
      BY <1>0, <2>0, <2>5 DEF TypeOK, PublishSuccess, Goto
    <3> QED
      BY <1>0, <2>0, <2>5, <3>1, MoveInv DEF PublishSuccess, Goto, TypeOK
  <2>6. CASE PublishCanceled(w) \/ PublishFailure(w)
    <3>0. /\ status' \in [Jobs -> Active \cup {"succeeded", "failed", "canceled", "absent", "deleted"}]
          /\ dataset' \in {"registered", "ingesting", "ready", "error", "gone"}
          /\ \A k \in Jobs :
              /\ status'[k] \in Active => status[k] \in Active
              /\ status'[k] = "absent" => status[k] = "absent"
      BY <1>0, <2>0, <2>6, EndJobStatus DEF PublishCanceled, PublishFailure
    <3>1. TypeOK'
      BY <1>0, <2>6, <3>0 DEF TypeOK, PublishCanceled, PublishFailure, Goto
    <3> QED
      BY <1>0, <2>0, <2>6, <3>0, <3>1, MoveInv DEF PublishCanceled, PublishFailure, Goto, TypeOK
  <2> QED
    BY <1>8, <2>1, <2>2, <2>3, <2>4, <2>5, <2>6 DEF WorkerStep
<1>9. ASSUME NEW w \in Workers, Finish(w) PROVE Inv'
  <2>0. at[w] \in Jobs
    BY <1>0, <1>9 DEF Inv, WorkersInv, TypeOK, Finish
  <2>1. TypeOK'
    BY <1>0, <2>0, <1>9 DEF TypeOK, Finish
  <2>2. WorkersInv'
    BY <1>0, <2>0, <1>9 DEF Inv, Finish, WorkersInv, TypeOK
  <2> QED
    BY <1>9, <2>1, <2>2 DEF Inv, Finish, OneActiveIngest
<1>10. ASSUME NEW w \in Workers, Die(w) PROVE Inv'
  <2>0. at[w] \in Jobs
    BY <1>0, <1>10 DEF Inv, WorkersInv, TypeOK, Die
  <2>1. TypeOK'
    <3>1. spent' \in [cancels : 0..MaxCancels, abandons : 0..MaxAbandons,
                      deaths : 0..MaxDeaths, faults : 0..MaxFaults]
      BY <1>0, <1>10, SpentType DEF Die
    <3>2. pc' \in [Workers -> JobSteps \cup {"idle", "claim", "done"}] /\ at' \in [Workers -> Jobs \cup {NoJob}]
      BY <1>0, <1>10 DEF Die, TypeOK
    <3> QED
      BY <1>0, <2>0, <1>10, <3>1, <3>2, RetryType DEF TypeOK, Die
  <2>3. \A j \in Jobs : delivery'[j] = delivery[j] \/ (j = at[w] /\ delivery'[j] \in {"queued", "failing"})
    BY <1>0, <2>0, <1>10, RetryType DEF Die
  <2>4. \A j \in Jobs :
          \/ delivery'[j] = delivery[j] /\ holder'[j] = holder[j]
          \/ j = at[w] /\ holder'[j] = NoWorker
    <3>1. CASE holder[at[w]] = w
      <4>1. RetryOrFail(at[w])
        BY <1>10, <3>1 DEF Die
      <4> QED
        BY <1>0, <2>0, <4>1, RetryType
    <3>2. CASE holder[at[w]] # w
      BY <1>10, <3>2 DEF Die
    <3> QED
      BY <3>1, <3>2
  <2>2. WorkersInv'
    BY <1>0, <2>0, <2>3, <2>4, <1>10 DEF Inv, Die, WorkersInv, TypeOK
  <2> QED
    BY <1>10, <2>1, <2>2 DEF Inv, Die, OneActiveIngest
<1>11. ASSUME DeleteProject PROVE Inv'
  BY <1>11 DEF Inv, DeleteProject, TypeOK, OneActiveIngest, WorkersInv
<1>12. CASE UNCHANGED vars
  BY <1>12 DEF Inv, vars, TypeOK, OneActiveIngest, WorkersInv
<1> QED
  BY <1>1, <1>2, <1>3, <1>4, <1>5, <1>6, <1>7, <1>8, <1>9, <1>10, <1>11, <1>12 DEF Next

THEOREM IngestInvariance == Spec => []Inv
BY InitInv, NextInv, PTL DEF Spec

\* The statuses, the messages and the workers keep their types.
THEOREM IngestTypeCorrect == Spec => []TypeOK
<1>1. Inv => TypeOK
  BY DEF Inv
<1> QED
  BY <1>1, IngestInvariance, PTL

\* A dataset never has two active ingests (ingest_dataset's two looks under
\* the project's lock), whatever is canceled, abandoned or killed.
THEOREM IngestOneActive == Spec => []OneActiveIngest
<1>1. Inv => OneActiveIngest
  BY DEF Inv
<1> QED
  BY <1>1, IngestInvariance, PTL

-----------------------------------------------------------------------------
(* The owner of a reservation, when workers do not die.                    *)

\* Stronger than ReservationHasOwner: the job that owns the reservation is not
\* about to succeed, since its worker would have made the dataset ready.
OwnerInv ==
    dataset = "ingesting" =>
        \/ \E w \in Workers : pc[w] \in ReservedSteps
        \/ \E j \in Jobs :
            /\ status[j] \in Active
            /\ \A w \in Workers : at[w] = j => pc[w] \notin {"decide", "succeed"}

LEMMA UnfailingNext == ASSUME Unfailing PROVE Inv /\ OwnerInv /\ [Next]_vars => OwnerInv'
<1> SUFFICES ASSUME Inv, OwnerInv, [Next]_vars PROVE OwnerInv'
  OBVIOUS
<1>0. TypeOK /\ WorkersInv
  BY DEF Inv
<1>1. ASSUME NEW j \in Jobs, NEW outcome \in {"failed", "canceled"}, EndJob(j, outcome),
             UNCHANGED at,
             \A w \in Workers : pc'[w] # pc[w] => pc[w] \notin ReservedSteps /\ pc'[w] = "done"
      PROVE  OwnerInv'
  <2>1. CASE status[j] \in Active
    BY <1>0, <1>1, <2>1 DEF EndJob, ResetInterruptedIngest, OwnerInv, TypeOK
  <2>2. CASE status[j] \notin Active
    BY <1>0, <1>1, <2>2 DEF EndJob, OwnerInv, TypeOK
  <2> QED
    BY <2>1, <2>2
<1>2. ASSUME NEW j \in Jobs, StartIngest(j) PROVE OwnerInv'
  BY <1>0, <1>2 DEF StartIngest, NoIngestRuns, OwnerInv, TypeOK
<1>3. ASSUME NEW j \in Jobs, SubmitFails(j) \/ Cancel(j) \/ TerminalFailure(j) PROVE OwnerInv'
  BY <1>1, <1>3 DEF SubmitFails, Cancel, TerminalFailure
<1>4. ASSUME NEW j \in Jobs, Submit(j) \/ Abandon(j) PROVE OwnerInv'
  BY <1>4 DEF Submit, Abandon, OwnerInv
<1>5. ASSUME NEW w \in Workers, NEW j \in Jobs, Deliver(w, j) PROVE OwnerInv'
  BY <1>0, <1>5 DEF Deliver, OwnerInv, TypeOK
<1>6. ASSUME NEW w \in Workers, WorkerStep(w) \/ ParseFails(w), ~Finish(w) PROVE OwnerInv'
  <2>0. pc[w] # "idle" /\ at[w] \in Jobs /\ w \in Workers
    BY <1>0, <1>6 DEF WorkersInv, TypeOK, WorkerStep, Claim, Reserve, CheckCanceled, Parse,
       ParseCanceled, ParseFails, Revert, MarkError, WriteMetadata, Decide,
       PublishSuccess, PublishCanceled, PublishFailure
  <2>1. CASE Claim(w)
    BY <1>0, <2>0, <2>1 DEF Claim, Goto, OwnerInv, TypeOK
  <2>2. CASE \/ Reserve(w) \/ Revert(w) \/ MarkError(w) \/ WriteMetadata(w)
    BY <1>0, <2>0, <2>2 DEF Reserve, Revert, MarkError, WriteMetadata, Goto, SetDataset, OwnerInv, TypeOK
  <2>3. CASE CheckCanceled(w) \/ Parse(w) \/ ParseCanceled(w) \/ ParseFails(w)
    BY <1>0, <2>0, <2>3 DEF CheckCanceled, Parse, ParseCanceled, ParseFails, Goto, OwnerInv, TypeOK
  <2>4. CASE Decide(w)
    BY <1>0, <2>0, <2>4 DEF Decide, Goto, OwnerInv, TypeOK
  <2>5. CASE PublishSuccess(w)
    BY <1>0, <2>0, <2>5 DEF PublishSuccess, Goto, OwnerInv, TypeOK
  <2>6. CASE PublishCanceled(w) \/ PublishFailure(w)
    BY <1>0, <1>1, <2>0, <2>6 DEF PublishCanceled, PublishFailure, Goto, TypeOK
  <2> QED
    BY <1>6, <2>1, <2>2, <2>3, <2>4, <2>5, <2>6 DEF WorkerStep
<1>7. ASSUME NEW w \in Workers, Finish(w) PROVE OwnerInv'
  BY <1>0, <1>7, ValueAssumption DEF Finish, OwnerInv, TypeOK
<1>8. ASSUME NEW w \in Workers, DatabaseFails(w) \/ Die(w) PROVE FALSE
  BY <1>0, <1>8 DEF Unfailing, DatabaseFails, Die, TypeOK
<1>9. ASSUME DeleteProject PROVE OwnerInv'
  BY <1>9 DEF DeleteProject, OwnerInv
<1>10. CASE UNCHANGED vars
  BY <1>10 DEF vars, OwnerInv
<1> QED
  BY <1>2, <1>3, <1>4, <1>5, <1>6, <1>7, <1>8, <1>9, <1>10 DEF Next

\* However clients cancel and RQ abandons, a reservation is never left without
\* a job or a worker that will release it, as long as no worker is killed.
THEOREM IngestOwnerUnfailing == ASSUME Unfailing PROVE Spec => []ReservationHasOwner
<1>1. Init => OwnerInv
  BY DEF Init, OwnerInv
<1>2. OwnerInv => ReservationHasOwner
  BY DEF OwnerInv, ReservationHasOwner
<1>3. Inv /\ OwnerInv /\ [Next]_vars => OwnerInv'
  BY UnfailingNext
<1> QED
  BY <1>1, <1>2, <1>3, IngestInvariance, PTL DEF Spec

-----------------------------------------------------------------------------
(* Workers may die and transactions may fail, but nobody cancels.          *)

\* A worker in the body holds its message, runs its job, and the dataset says
\* what the worker has done.
BodyInv ==
    /\ \A w \in Workers :
        /\ at[w] # NoJob => delivery[at[w]] = "started" /\ holder[at[w]] = w
        /\ pc[w] \in JobSteps => status[at[w]] = "running" /\ pc[w] \notin {"revert", "cancel"}
        /\ pc[w] \in ReservedSteps => dataset = "ingesting"
        /\ pc[w] \in {"decide", "succeed"} => dataset = "ready"
    /\ \A j \in Jobs : status[j] # "canceled"
    /\ dataset = "gone" => \A j \in Jobs : status[j] \notin Active
    /\ dataset = "ingesting" => \E j \in Jobs : status[j] = "running"

CalmInv == BodyInv /\ SucceededIsReady

\* The running job is the job of the one worker in its body.
LEMMA OneBody ==
    ASSUME Inv, BodyInv, NEW v \in Workers, NEW w \in Workers,
           pc[v] \in JobSteps, pc[w] \in JobSteps
    PROVE  v = w /\ at[w] \in Jobs /\ status[at[w]] = "running" /\ dataset # "gone"
BY DEF Inv, TypeOK, WorkersInv, OneActiveIngest, BodyInv

\* The end of a job that is not in a body, or whose worker leaves the body.
LEMMA EndCalm ==
    ASSUME Inv, CalmInv, NEW j \in Jobs, EndJob(j, "failed"),
           \A w \in Workers : pc'[w] \in JobSteps => pc'[w] = pc[w] /\ at[w] # j,
           \A w \in Workers : at[w] # NoJob => delivery'[at[w]] = "started",
           UNCHANGED <<at, holder>>
    PROVE  CalmInv'
<1>1. CASE status[j] \in Active
  <2>1. \A w \in Workers : pc'[w] \notin JobSteps
    BY <1>1 DEF Inv, TypeOK, OneActiveIngest, CalmInv, BodyInv, WorkersInv
  <2>2. status' = [status EXCEPT ![j] = "failed"] /\ ResetInterruptedIngest
    BY <1>1 DEF EndJob
  <2>3. BodyInv'
    BY <1>1, <2>1, <2>2 DEF Inv, TypeOK, OneActiveIngest, CalmInv, BodyInv, WorkersInv,
       ResetInterruptedIngest
  <2>4. SucceededIsReady'
    BY <2>2 DEF Inv, TypeOK, SucceededIsReady
  <2> QED
    BY <2>3, <2>4 DEF CalmInv
<1>2. CASE status[j] \notin Active
  <2>1. UNCHANGED <<status, dataset>>
    BY <1>2 DEF EndJob
  <2> QED
    BY <2>1 DEF Inv, TypeOK, CalmInv, BodyInv, SucceededIsReady, WorkersInv
<1> QED
  BY <1>1, <1>2

\* A step of the worker inside the body of its running job.
LEMMA BodyMove ==
    ASSUME Inv, CalmInv, NEW w \in Workers, pc[w] \in JobSteps,
           NEW step \in JobSteps \ {"revert", "cancel"}, Goto(w, step),
           dataset' \in {"registered", "ingesting", "ready", "error"},
           step \in ReservedSteps => dataset' = "ingesting",
           step \in {"decide", "succeed"} => dataset' = "ready",
           UNCHANGED <<status, rqVars>>
    PROVE  CalmInv'
<1>1. at[w] \in Jobs /\ status[at[w]] = "running"
  BY OneBody DEF CalmInv
<1>2. \A v \in Workers : pc'[v] \in JobSteps => v = w
  BY OneBody DEF Goto, CalmInv, Inv, TypeOK
<1>3. pc'[w] = step /\ UNCHANGED at
  BY DEF Goto, Inv, TypeOK
<1>4. BodyInv'
  BY <1>1, <1>2, <1>3 DEF Inv, TypeOK, CalmInv, BodyInv, WorkersInv
<1>5. SucceededIsReady'
  BY <1>1 DEF SucceededIsReady
<1> QED
  BY <1>4, <1>5 DEF CalmInv

LEMMA CalmNext == ASSUME Calm PROVE Inv /\ CalmInv /\ [Next]_vars => CalmInv'
<1> SUFFICES ASSUME Inv, CalmInv, [Next]_vars PROVE CalmInv'
  OBVIOUS
<1>0. TypeOK /\ WorkersInv /\ BodyInv
  BY DEF Inv, CalmInv
<1>1. ASSUME NEW j \in Jobs, StartIngest(j) PROVE CalmInv'
  BY <1>0, <1>1 DEF Inv, StartIngest, NoIngestRuns, TypeOK, WorkersInv, CalmInv, BodyInv, SucceededIsReady
<1>2. ASSUME NEW j \in Jobs, Submit(j) PROVE CalmInv'
  <2>1. \A w \in Workers : at[w] # j
    BY <1>0, <1>2, ValueAssumption DEF Submit, WorkersInv, TypeOK
  <2>2. \A w \in Workers : at[w] # NoJob => delivery'[at[w]] = "started"
    BY <1>0, <1>2, <2>1 DEF Submit, TypeOK, BodyInv
  <2>3. UNCHANGED <<dataset, status, holder, pc, at>>
    BY <1>2 DEF Submit
  <2>4. BodyInv'
    BY <1>0, <2>2, <2>3 DEF BodyInv
  <2> QED
    BY <2>3, <2>4 DEF CalmInv, SucceededIsReady
<1>3. ASSUME NEW j \in Jobs, SubmitFails(j) \/ TerminalFailure(j) PROVE CalmInv'
  <2>1. \A w \in Workers : at[w] # j
    BY <1>0, <1>3, ValueAssumption DEF SubmitFails, TerminalFailure, WorkersInv, BodyInv, TypeOK
  <2>2. \A w \in Workers : at[w] # NoJob => delivery'[at[w]] = "started"
    BY <1>0, <1>3, <2>1 DEF SubmitFails, TerminalFailure, BodyInv, TypeOK
  <2> QED
    BY <1>3, <2>1, <2>2, EndCalm DEF SubmitFails, TerminalFailure
<1>4. ASSUME NEW j \in Jobs, Cancel(j) \/ Abandon(j) PROVE FALSE
  BY <1>0, <1>4 DEF Calm, Cancel, Abandon, TypeOK
<1>5. ASSUME NEW w \in Workers, NEW j \in Jobs, Deliver(w, j) PROVE CalmInv'
  BY <1>0, <1>5, ValueAssumption DEF Deliver, TypeOK, WorkersInv, CalmInv, BodyInv, SucceededIsReady
<1>6. ASSUME NEW w \in Workers, Claim(w) PROVE CalmInv'
  <2>1. at[w] \in Jobs
    BY <1>0, <1>6 DEF Claim, WorkersInv, TypeOK
  <2>2. BodyInv'
    BY <1>0, <1>6, <2>1 DEF Claim, Goto, TypeOK, WorkersInv, BodyInv, Inv, OneActiveIngest
  <2>3. SucceededIsReady'
    BY <1>0, <1>6, <2>1 DEF Claim, TypeOK, CalmInv, SucceededIsReady
  <2> QED
    BY <2>2, <2>3 DEF CalmInv
<1>7. ASSUME NEW w \in Workers, Reserve(w) PROVE CalmInv'
  <2>1. dataset # "gone"
    BY <1>7, OneBody, <1>0 DEF Reserve
  <2> QED
    BY <1>0, <1>7, <2>1, BodyMove DEF Reserve, SetDataset
<1>8. ASSUME NEW w \in Workers, CheckCanceled(w) \/ Parse(w) \/ ParseFails(w) PROVE CalmInv'
  <2>1. pc[w] \in ReservedSteps /\ dataset = "ingesting" /\ ~Canceled(w)
    BY <1>0, <1>8, OneBody DEF CheckCanceled, Parse, ParseFails, Canceled, BodyInv
  <2> QED
    BY <1>0, <1>8, <2>1, BodyMove DEF CheckCanceled, Parse, ParseFails
<1>9. ASSUME NEW w \in Workers, ParseCanceled(w) \/ Revert(w) \/ PublishCanceled(w) PROVE FALSE
  BY <1>0, <1>9, OneBody DEF ParseCanceled, Revert, PublishCanceled, Canceled, BodyInv
<1>10. ASSUME NEW w \in Workers, MarkError(w) \/ WriteMetadata(w) PROVE CalmInv'
  <2>1. dataset # "gone" /\ pc[w] \in JobSteps
    BY <1>10, OneBody, <1>0 DEF MarkError, WriteMetadata
  <2> QED
    BY <1>0, <1>10, <2>1, BodyMove DEF MarkError, WriteMetadata, SetDataset
<1>11. ASSUME NEW w \in Workers, DatabaseFails(w) PROVE CalmInv'
  <2>1. dataset # "gone" /\ pc[w] \in JobSteps
    BY <1>11, OneBody, <1>0 DEF DatabaseFails
  <2> QED
    BY <1>0, <1>11, <2>1, BodyMove DEF DatabaseFails, TypeOK
<1>12. ASSUME NEW w \in Workers, Decide(w) PROVE CalmInv'
  <2>1. pc[w] \in JobSteps /\ dataset = "ready" /\ ~Canceled(w)
    BY <1>0, <1>12, OneBody DEF Decide, Canceled, BodyInv
  <2> QED
    BY <1>0, <1>12, <2>1, BodyMove DEF Decide
<1>13. ASSUME NEW w \in Workers, PublishSuccess(w) PROVE CalmInv'
  <2>1. pc[w] \in JobSteps /\ dataset = "ready" /\ at[w] \in Jobs /\ status[at[w]] = "running"
    BY <1>0, <1>13, OneBody DEF PublishSuccess, BodyInv
  <2>2. \A v \in Workers : pc'[v] \notin JobSteps
    BY <1>0, <1>13, <2>1, OneBody DEF PublishSuccess, Goto, TypeOK
  <2> QED
    BY <1>0, <1>13, <2>1, <2>2 DEF PublishSuccess, Goto, TypeOK, CalmInv, BodyInv, SucceededIsReady
<1>14. ASSUME NEW w \in Workers, PublishFailure(w) PROVE CalmInv'
  <2>1. pc[w] \in JobSteps /\ at[w] \in Jobs
    BY <1>0, <1>14, OneBody DEF PublishFailure
  <2>2. \A v \in Workers : pc'[v] \notin JobSteps
    BY <1>0, <1>14, <2>1, OneBody DEF PublishFailure, Goto, TypeOK
  <2>3. \A v \in Workers : at[v] # NoJob => delivery'[at[v]] = "started"
    BY <1>0, <1>14 DEF PublishFailure, BodyInv
  <2> QED
    BY <1>14, <2>1, <2>2, <2>3, EndCalm DEF PublishFailure, Goto
<1>15. ASSUME NEW w \in Workers, Finish(w) PROVE CalmInv'
  <2>1. at[w] \in Jobs /\ holder[at[w]] = w
    BY <1>0, <1>15 DEF Finish, WorkersInv, BodyInv, TypeOK
  <2>2. BodyInv'
    BY <1>0, <1>15, <2>1 DEF Finish, TypeOK, WorkersInv, BodyInv
  <2> QED
    BY <1>15, <2>2 DEF Finish, CalmInv, SucceededIsReady
<1>16. ASSUME NEW w \in Workers, Die(w) PROVE CalmInv'
  <2>1. at[w] \in Jobs /\ holder[at[w]] = w
    BY <1>0, <1>16 DEF Die, WorkersInv, BodyInv, TypeOK
  <2>2. \A j \in Jobs \ {at[w]} : delivery'[j] = delivery[j] /\ holder'[j] = holder[j]
    BY <1>0, <1>16, <2>1, RetryType DEF Die
  <2>3. \A v \in Workers : v # w => pc'[v] = pc[v] /\ at'[v] = at[v]
    BY <1>0, <1>16 DEF Die, TypeOK
  <2>4. pc'[w] = "idle" /\ at'[w] = NoJob /\ UNCHANGED <<dataset, status>>
    BY <1>0, <1>16 DEF Die, TypeOK
  <2>5. BodyInv'
    BY <1>0, <2>1, <2>2, <2>3, <2>4 DEF TypeOK, WorkersInv, BodyInv
  <2> QED
    BY <2>4, <2>5 DEF CalmInv, SucceededIsReady
<1>17. ASSUME DeleteProject PROVE CalmInv'
  BY <1>0, <1>17 DEF DeleteProject, TypeOK, WorkersInv, CalmInv, BodyInv, SucceededIsReady
<1>18. CASE UNCHANGED vars
  BY <1>0, <1>18 DEF vars, CalmInv, BodyInv, SucceededIsReady
<1> QED
  BY <1>1, <1>2, <1>3, <1>4, <1>5, <1>6, <1>7, <1>8, <1>9, <1>10, <1>11, <1>12, <1>13, <1>14,
     <1>15, <1>16, <1>17, <1>18 DEF Next, WorkerStep

LEMMA CalmInvariance == ASSUME Calm PROVE Spec => []CalmInv
<1>1. Init => CalmInv
  BY ValueAssumption DEF Init, CalmInv, BodyInv, SucceededIsReady
<1>2. Inv /\ CalmInv /\ [Next]_vars => CalmInv'
  BY CalmNext
<1> QED
  BY <1>1, <1>2, IngestInvariance, PTL DEF Spec

\* Through deaths, retries and failing transactions a reservation has an owner.
THEOREM IngestOwnerCalm == ASSUME Calm PROVE Spec => []ReservationHasOwner
<1>1. CalmInv => ReservationHasOwner
  BY DEF CalmInv, BodyInv, ReservationHasOwner
<1> QED
  BY <1>1, CalmInvariance, PTL

\* Without cancellations the bodies of ingests exclude each other.
THEOREM IngestOneInBody == ASSUME Calm PROVE Spec => []OneIngestInBody
<1>1. Inv /\ CalmInv => OneIngestInBody
  BY OneBody DEF CalmInv, OneIngestInBody
<1> QED
  BY <1>1, IngestInvariance, CalmInvariance, PTL

\* Together: without cancellations ingests exclude each other everywhere.
THEOREM IngestExclusion == ASSUME Calm PROVE Spec => []IngestsExclude
<1>1. OneActiveIngest /\ OneIngestInBody => IngestsExclude
  BY DEF IngestsExclude
<1> QED
  BY <1>1, IngestOneActive, IngestOneInBody, PTL

\* Without cancellations a success that nothing followed has left a dataset to view.
THEOREM IngestSucceededIsReady == ASSUME Calm PROVE Spec => []SucceededIsReady
<1>1. CalmInv => SucceededIsReady
  BY DEF CalmInv
<1> QED
  BY <1>1, CalmInvariance, PTL

\* Without cancellations only a new ingest or the project's end takes "ready" back.
THEOREM IngestReadyIsKept == ASSUME Calm PROVE Spec => ReadyIsKept
<1>1. Inv /\ CalmInv /\ [Next]_vars
      => [dataset = "ready" /\ Uncanceled' => dataset' \in {"ready", "ingesting", "gone"}]_vars
  <2> SUFFICES ASSUME Inv, CalmInv, Next, dataset = "ready"
               PROVE  dataset' \in {"ready", "ingesting", "gone"}
    BY DEF vars
  <2>1. BodyInv
    BY DEF CalmInv
  <2>2. ASSUME NEW j \in Jobs,
               StartIngest(j) \/ Submit(j) \/ SubmitFails(j) \/ Cancel(j) \/ Abandon(j) \/ TerminalFailure(j)
        PROVE  dataset' = "ready"
    BY <2>2 DEF StartIngest, Submit, SubmitFails, Cancel, Abandon, TerminalFailure, EndJob,
       ResetInterruptedIngest
  <2>3. ASSUME NEW w \in Workers, Revert(w) \/ MarkError(w) PROVE FALSE
    BY <2>1, <2>3 DEF Revert, MarkError, BodyInv
  <2>4. ASSUME NEW w \in Workers, Reserve(w) \/ WriteMetadata(w)
        PROVE  dataset' \in {"ready", "ingesting"}
    BY <2>4 DEF Reserve, WriteMetadata, SetDataset
  <2>5. ASSUME NEW w \in Workers,
               \/ Claim(w) \/ CheckCanceled(w) \/ Parse(w) \/ ParseCanceled(w) \/ Decide(w)
               \/ PublishSuccess(w) \/ Finish(w) \/ ParseFails(w) \/ DatabaseFails(w) \/ Die(w)
        PROVE  dataset' = "ready"
    BY <2>5 DEF Claim, CheckCanceled, Parse, ParseCanceled, Decide, PublishSuccess, Finish,
       ParseFails, DatabaseFails, Die
  <2>6. ASSUME NEW w \in Workers, PublishCanceled(w) \/ PublishFailure(w) PROVE dataset' = "ready"
    BY <2>6 DEF PublishCanceled, PublishFailure, EndJob, ResetInterruptedIngest
  <2>7. ASSUME NEW w \in Workers, NEW j \in Jobs, Deliver(w, j) PROVE dataset' = "ready"
    BY <2>7 DEF Deliver
  <2>8. ASSUME DeleteProject PROVE dataset' = "gone"
    BY <2>8 DEF DeleteProject
  <2> QED
    BY <2>2, <2>3, <2>4, <2>5, <2>6, <2>7, <2>8 DEF Next, WorkerStep
<1> QED
  BY <1>1, IngestInvariance, CalmInvariance, PTL DEF ReadyIsKept, Spec

-----------------------------------------------------------------------------
(* Induction: what fails would fail somewhere first *)

LEMMA LeastOf ==
    ASSUME NEW S \in SUBSET Nat, S # {}
    PROVE  Min(S) \in S /\ \A n \in S : Min(S) <= n
<1> DEFINE R == OpToRel(<, Nat)
<1>1. IsWellFoundedOn(R, Nat)
  BY NatLessThanWellFounded
<1>2. \A x1, y1 \in Nat : y1 < x1 => <<y1, x1>> \in R
  BY DEF OpToRel
<1> HIDE DEF R
<1>3. PICK x1 \in S : \A y1 \in S : <<y1, x1>> \notin R
  BY <1>1, WFMin
<1>4. ASSUME NEW y1 \in S PROVE x1 <= y1
  <2>1. x1 \in Nat /\ y1 \in Nat
    OBVIOUS
  <2>2. ~(y1 < x1)
    BY <1>2, <1>3, <2>1
  <2> QED
    BY <2>1, <2>2
<1> QED
  BY <1>3, <1>4 DEF Min

LEMMA UpTo ==
    ASSUME NEW last \in Nat, NEW holds, 0 \in holds,
           \A n \in 1..last : n - 1 \in holds => n \in holds
    PROVE  \A n \in 0..last : n \in holds
<1> DEFINE fails == {n \in 0..last : n \notin holds}
<1> SUFFICES ASSUME fails # {} PROVE FALSE
  OBVIOUS
<1>1. Min(fails) \in fails /\ \A n \in fails : Min(fails) <= n
  BY LeastOf
<1> DEFINE first == Min(fails)
<1>2. first \in 1..last /\ first \notin holds
  BY <1>1
<1> HIDE DEF first
<1>3. first - 1 \in 0..last /\ ~(first <= first - 1)
  BY <1>2
<1>4. first - 1 \in holds
  BY <1>1, <1>3 DEF first
<1> QED
  BY <1>2, <1>4

LEMMA PrefixGrows ==
    ASSUME NEW S, NEW path \in Seq(S), NEW n \in 1..Len(path)
    PROVE  /\ SubSeq(path, 1, n - 1) \in Seq(S) /\ path[n] \in S
           /\ SubSeq(path, 1, n) = Append(SubSeq(path, 1, n - 1), path[n])
<1>1. /\ SubSeq(path, 1, n - 1) \in Seq(S) /\ Len(SubSeq(path, 1, n - 1)) = n - 1
      /\ SubSeq(path, 1, n) \in Seq(S) /\ Len(SubSeq(path, 1, n)) = n /\ path[n] \in S
      /\ \A k \in 1..(n - 1) : SubSeq(path, 1, n - 1)[k] = path[k]
      /\ \A k \in 1..n : SubSeq(path, 1, n)[k] = path[k]
  OBVIOUS
<1> DEFINE grown == Append(SubSeq(path, 1, n - 1), path[n])
<1>2. /\ grown \in Seq(S) /\ Len(grown) = n
      /\ \A k \in 1..n : grown[k] = path[k]
  BY <1>1
<1> HIDE DEF grown
<1>3. SubSeq(path, 1, n) = grown
  BY <1>1, <1>2, SeqEqual
<1> QED
  BY <1>1, <1>3 DEF grown

LEMMA JoinedGrows ==
    ASSUME NEW S, NEW a \in Seq(S), NEW tail \in Seq(S), NEW last \in S
    PROVE  a \o Append(tail, last) = Append(a \o tail, last) /\ a \o tail \in Seq(S)
OBVIOUS

-----------------------------------------------------------------------------
(* Loops: what starts somewhere and goes on from each number to the next *)

IsLoop(f, last, first, step) == f[0] = first /\ \A n \in 1..last : f[n] = step[n][f[n - 1]]

LEMMA LoopExists ==
    ASSUME NEW last \in Nat, NEW V, NEW first \in V, NEW step \in [1..last -> [V -> V]]
    PROVE  \E f \in [0..last -> V] : IsLoop(f, last, first, step)
<1> DEFINE Is(f, m) == f \in [0..m -> V] /\ f[0] = first /\ \A n \in 1..m : f[n] = step[n][f[n - 1]]
           holds == {m \in 0..last : \E f : Is(f, m)}
<1>1. 0 \in holds
  <2> DEFINE start == [n \in 0..0 |-> first]
  <2>1. start \in [0..0 -> V] /\ start[0] = first
    OBVIOUS
  <2> HIDE DEF start
  <2>2. Is(start, 0)
    BY <2>1
  <2> QED
    BY <2>2
<1>2. ASSUME NEW m \in 1..last, m - 1 \in holds PROVE m \in holds
  <2>1. PICK f : Is(f, m - 1)
    BY <1>2
  <2> DEFINE g == [n \in 0..m |-> IF n = m THEN step[m][f[m - 1]] ELSE f[n]]
  <2>2. m - 1 \in 0..m - 1 /\ f[m - 1] \in V
    BY <2>1
  <2>3. g \in [0..m -> V]
    <3>1. \A n \in 0..m : n # m => n \in 0..m - 1
      OBVIOUS
    <3> QED
      BY <2>1, <2>2, <3>1
  <2>4. g[0] = first
    BY <2>1
  <2>5. ASSUME NEW n \in 1..m PROVE g[n] = step[n][g[n - 1]]
    <3>1. n - 1 \in 0..m /\ n - 1 # m /\ n \in 0..m
      OBVIOUS
    <3>2. g[n - 1] = f[n - 1]
      BY <3>1
    <3>3. CASE n = m
      <4>1. g[n] = step[m][f[m - 1]]
        BY <3>1, <3>3
      <4> QED
        BY <3>2, <3>3, <4>1
    <3>4. CASE n # m
      <4>1. n \in 1..m - 1 /\ g[n] = f[n]
        BY <3>4
      <4> QED
        BY <2>1, <3>2, <4>1
    <3> QED
      BY <3>3, <3>4
  <2> HIDE DEF g
  <2>6. Is(g, m)
    BY <2>3, <2>4, <2>5
  <2> QED
    BY <2>6
<1>3. last \in holds
  <2> HIDE DEF holds
  <2>1. \A n \in 0..last : n \in holds
    BY <1>1, <1>2, UpTo
  <2> QED
    BY <2>1
<1> QED
  BY <1>3 DEF IsLoop

\* What is written of the first characters of a cell.
LEMMA DoubledSteps ==
    ASSUME NEW C, Quote \in C, NEW cell \in Seq(C)
    PROVE  \E f \in [0..Len(cell) -> Seq(C)] :
            /\ f[0] = <<>> /\ Doubled(cell) = f[Len(cell)]
            /\ \A n \in 1..Len(cell) : f[n] = WithChar(f[n - 1], cell[n])
<1> DEFINE Is(f) == f = [n \in 0..Len(cell) |-> IF n = 0 THEN <<>> ELSE WithChar(f[n - 1], cell[n])]
           step == [n \in 1..Len(cell) |-> [v \in Seq(C) |-> WithChar(v, cell[n])]]
<1>1. Len(cell) \in Nat /\ \A n \in 1..Len(cell) : cell[n] \in C
  OBVIOUS
<1>2. ASSUME NEW n \in 1..Len(cell), NEW v \in Seq(C) PROVE WithChar(v, cell[n]) \in Seq(C)
  BY <1>1 DEF WithChar
<1>3. step \in [1..Len(cell) -> [Seq(C) -> Seq(C)]]
  BY <1>2
<1>4. \A n \in 1..Len(cell), v \in Seq(C) : step[n][v] = WithChar(v, cell[n])
  OBVIOUS
<1> HIDE DEF step, Is
<1>5. PICK f \in [0..Len(cell) -> Seq(C)] : IsLoop(f, Len(cell), <<>>, step)
  <2>1. Len(cell) \in Nat /\ <<>> \in Seq(C)
    OBVIOUS
  <2> QED
    BY <1>3, <2>1, LoopExists
<1>6. f[0] = <<>> /\ \A n \in 1..Len(cell) : f[n - 1] \in Seq(C) /\ f[n] = WithChar(f[n - 1], cell[n])
  <2>1. \A n \in 1..Len(cell) : n - 1 \in 0..Len(cell)
    BY <1>1
  <2>2. \A n \in 1..Len(cell) : f[n - 1] \in Seq(C) /\ f[n] = step[n][f[n - 1]]
    BY <1>5, <2>1 DEF IsLoop
  <2> QED
    BY <1>4, <1>5, <2>2 DEF IsLoop
<1>7. Is(f)
  <2> DEFINE right == [n \in 0..Len(cell) |-> IF n = 0 THEN <<>> ELSE WithChar(f[n - 1], cell[n])]
  <2>1. ASSUME NEW n \in 0..Len(cell) PROVE f[n] = right[n]
    <3>1. n = 0 \/ n \in 1..Len(cell)
      BY <1>1
    <3> QED
      BY <1>6, <3>1
  <2> QED
    BY <1>5, <2>1 DEF Is
<1> DEFINE chosen == CHOOSE g : Is(g)
<1>8. Doubled(cell) = chosen[Len(cell)]
  BY DEF Doubled, Is
<1>9. Is(chosen)
  BY <1>7
<1> HIDE DEF chosen
<1>10. chosen[0] = <<>> /\ \A n \in 1..Len(cell) : chosen[n] = WithChar(chosen[n - 1], cell[n])
  BY <1>1, <1>9 DEF Is
<1>11. \A n \in 0..Len(cell) : chosen[n] = f[n]
  <2> DEFINE same == {n \in 0..Len(cell) : chosen[n] = f[n]}
  <2>1. 0 \in same
    BY <1>1, <1>6, <1>10
  <2>2. \A n \in 1..Len(cell) : n - 1 \in same => n \in same
    BY <1>1, <1>6, <1>10
  <2> HIDE DEF same
  <2>3. \A n \in 0..Len(cell) : n \in same
    BY <1>1, <2>1, <2>2, UpTo
  <2> QED
    BY <2>3 DEF same
<1>12. Doubled(cell) = f[Len(cell)]
  BY <1>1, <1>8, <1>11
<1> QED
  BY <1>6, <1>12

LEMMA CellTextType ==
    ASSUME NEW C, Quote \in C, NEW cell \in Seq(C)
    PROVE  CellText(cell) \in Seq(C)
<1>1. Doubled(cell) \in Seq(C)
  <2>1. Len(cell) \in Nat /\ Len(cell) \in 0..Len(cell)
    OBVIOUS
  <2> QED
    BY <2>1, DoubledSteps
<1>2. <<Quote>> \in Seq(C)
  OBVIOUS
<1> QED
  BY <1>1, <1>2 DEF CellText

\* What is written of the first cells of a row.
LEMMA RowSteps ==
    ASSUME NEW C, Quote \in C, Comma \in C, NEW row \in Seq(Seq(C))
    PROVE  \E f \in [0..Len(row) -> Seq(C)] :
            /\ f[0] = <<>> /\ RowText(row) = f[Len(row)]
            /\ \A n \in 1..Len(row) : f[n] = WithCell(f[n - 1], row[n], n)
<1> DEFINE Is(f) == f = [n \in 0..Len(row) |-> IF n = 0 THEN <<>> ELSE WithCell(f[n - 1], row[n], n)]
           step == [n \in 1..Len(row) |-> [v \in Seq(C) |-> WithCell(v, row[n], n)]]
<1>1. Len(row) \in Nat /\ \A n \in 1..Len(row) : row[n] \in Seq(C)
  OBVIOUS
<1>2. ASSUME NEW n \in 1..Len(row), NEW v \in Seq(C) PROVE WithCell(v, row[n], n) \in Seq(C)
  <2>1. CellText(row[n]) \in Seq(C)
    BY <1>1, CellTextType
  <2>2. Append(v, Comma) \in Seq(C)
    OBVIOUS
  <2> QED
    BY <2>1, <2>2 DEF WithCell
<1>3. step \in [1..Len(row) -> [Seq(C) -> Seq(C)]]
  BY <1>2
<1>4. \A n \in 1..Len(row), v \in Seq(C) : step[n][v] = WithCell(v, row[n], n)
  OBVIOUS
<1> HIDE DEF step, Is
<1>5. PICK f \in [0..Len(row) -> Seq(C)] : IsLoop(f, Len(row), <<>>, step)
  <2>1. Len(row) \in Nat /\ <<>> \in Seq(C)
    OBVIOUS
  <2> QED
    BY <1>3, <2>1, LoopExists
<1>6. f[0] = <<>> /\ \A n \in 1..Len(row) : f[n - 1] \in Seq(C) /\ f[n] = WithCell(f[n - 1], row[n], n)
  <2>1. \A n \in 1..Len(row) : n - 1 \in 0..Len(row)
    BY <1>1
  <2>2. \A n \in 1..Len(row) : f[n - 1] \in Seq(C) /\ f[n] = step[n][f[n - 1]]
    BY <1>5, <2>1 DEF IsLoop
  <2> QED
    BY <1>4, <1>5, <2>2 DEF IsLoop
<1>7. Is(f)
  <2> DEFINE right == [n \in 0..Len(row) |-> IF n = 0 THEN <<>> ELSE WithCell(f[n - 1], row[n], n)]
  <2>1. ASSUME NEW n \in 0..Len(row) PROVE f[n] = right[n]
    <3>1. n = 0 \/ n \in 1..Len(row)
      BY <1>1
    <3> QED
      BY <1>6, <3>1
  <2> QED
    BY <1>5, <2>1 DEF Is
<1> DEFINE chosen == CHOOSE g : Is(g)
<1>8. RowText(row) = chosen[Len(row)]
  BY DEF RowText, Is
<1>9. Is(chosen)
  BY <1>7
<1> HIDE DEF chosen
<1>10. chosen[0] = <<>> /\ \A n \in 1..Len(row) : chosen[n] = WithCell(chosen[n - 1], row[n], n)
  BY <1>1, <1>9, SMTT(30) DEF Is
<1>11. \A n \in 0..Len(row) : chosen[n] = f[n]
  <2> DEFINE same == {n \in 0..Len(row) : chosen[n] = f[n]}
  <2>1. 0 \in same
    BY <1>1, <1>6, <1>10
  <2>2. \A n \in 1..Len(row) : n - 1 \in same => n \in same
    BY <1>1, <1>6, <1>10
  <2> HIDE DEF same
  <2>3. \A n \in 0..Len(row) : n \in same
    BY <1>1, <2>1, <2>2, UpTo
  <2> QED
    BY <2>3 DEF same
<1>12. RowText(row) = f[Len(row)]
  BY <1>1, <1>8, <1>11
<1> QED
  BY <1>6, <1>12

LEMMA RowTextType ==
    ASSUME NEW C, Quote \in C, Comma \in C, NEW row \in Seq(Seq(C))
    PROVE  RowText(row) \in Seq(C)
<1>1. Len(row) \in Nat /\ Len(row) \in 0..Len(row)
  OBVIOUS
<1> QED
  BY <1>1, RowSteps

\* The rows with a text among the first ones.
LEMMA FilledSteps ==
    ASSUME NEW S, NEW rows \in Seq(S)
    PROVE  \E f \in [0..Len(rows) -> Seq(S)] :
            /\ f[0] = <<>> /\ Filled(rows) = f[Len(rows)]
            /\ \A n \in 1..Len(rows) : f[n] = WithRow(f[n - 1], rows[n])
<1> DEFINE Is(f) == f = [n \in 0..Len(rows) |-> IF n = 0 THEN <<>> ELSE WithRow(f[n - 1], rows[n])]
           step == [n \in 1..Len(rows) |-> [v \in Seq(S) |-> WithRow(v, rows[n])]]
<1>1. Len(rows) \in Nat /\ \A n \in 1..Len(rows) : rows[n] \in S
  OBVIOUS
<1>2. ASSUME NEW n \in 1..Len(rows), NEW v \in Seq(S) PROVE WithRow(v, rows[n]) \in Seq(S)
  BY <1>1 DEF WithRow
<1>3. step \in [1..Len(rows) -> [Seq(S) -> Seq(S)]]
  BY <1>2
<1>4. \A n \in 1..Len(rows), v \in Seq(S) : step[n][v] = WithRow(v, rows[n])
  OBVIOUS
<1> HIDE DEF step, Is
<1>5. PICK f \in [0..Len(rows) -> Seq(S)] : IsLoop(f, Len(rows), <<>>, step)
  <2>1. Len(rows) \in Nat /\ <<>> \in Seq(S)
    OBVIOUS
  <2> QED
    BY <1>3, <2>1, LoopExists
<1>6. f[0] = <<>> /\ \A n \in 1..Len(rows) : f[n - 1] \in Seq(S) /\ f[n] = WithRow(f[n - 1], rows[n])
  <2>1. \A n \in 1..Len(rows) : n - 1 \in 0..Len(rows)
    BY <1>1
  <2>2. \A n \in 1..Len(rows) : f[n - 1] \in Seq(S) /\ f[n] = step[n][f[n - 1]]
    BY <1>5, <2>1 DEF IsLoop
  <2> QED
    BY <1>4, <1>5, <2>2 DEF IsLoop
<1>7. Is(f)
  <2> DEFINE right == [n \in 0..Len(rows) |-> IF n = 0 THEN <<>> ELSE WithRow(f[n - 1], rows[n])]
  <2>1. ASSUME NEW n \in 0..Len(rows) PROVE f[n] = right[n]
    <3>1. n = 0 \/ n \in 1..Len(rows)
      BY <1>1
    <3> QED
      BY <1>6, <3>1
  <2> QED
    BY <1>5, <2>1 DEF Is
<1> DEFINE chosen == CHOOSE g : Is(g)
<1>8. Filled(rows) = chosen[Len(rows)]
  BY DEF Filled, Is
<1>9. Is(chosen)
  BY <1>7
<1> HIDE DEF chosen
<1>10. chosen[0] = <<>> /\ \A n \in 1..Len(rows) : chosen[n] = WithRow(chosen[n - 1], rows[n])
  BY <1>1, <1>9 DEF Is
<1>11. \A n \in 0..Len(rows) : chosen[n] = f[n]
  <2> DEFINE same == {n \in 0..Len(rows) : chosen[n] = f[n]}
  <2>1. 0 \in same
    BY <1>1, <1>6, <1>10
  <2>2. \A n \in 1..Len(rows) : n - 1 \in same => n \in same
    BY <1>1, <1>6, <1>10
  <2> HIDE DEF same
  <2>3. \A n \in 0..Len(rows) : n \in same
    BY <1>1, <2>1, <2>2, UpTo
  <2> QED
    BY <2>3 DEF same
<1>12. Filled(rows) = f[Len(rows)]
  BY <1>1, <1>8, <1>11
<1> QED
  BY <1>6, <1>12

-----------------------------------------------------------------------------
(* parseCsv, one character after the other *)

ReadStates ==
    [rows : Seq(Seq(Seq(Characters))), row : Seq(Seq(Characters)), value : Seq(Characters),
     quoted : BOOLEAN, escaped : BOOLEAN]

LEMMA SpecialCharacters == {Quote, Comma, Newline, Return} \subseteq Characters
BY DEF Characters, Specials

LEMMA ChompedType ==
    ASSUME NEW value \in Seq(Characters)
    PROVE  Chomped(value) \in Seq(Characters)
BY DEF Chomped, Front

LEMMA WithRowType ==
    ASSUME NEW S, NEW rows \in Seq(S), NEW row \in S
    PROVE  WithRow(rows, row) \in Seq(S)
BY DEF WithRow

LEMMA RowEndsType ==
    ASSUME NEW s \in ReadStates
    PROVE  /\ RowEnds(s) \in ReadStates
           /\ RowEnds(s).rows = WithRow(s.rows, Append(s.row, Chomped(s.value)))
<1>1. Append(s.row, Chomped(s.value)) \in Seq(Seq(Characters)) /\ s.rows \in Seq(Seq(Seq(Characters)))
  BY ChompedType DEF ReadStates
<1>2. WithRow(s.rows, Append(s.row, Chomped(s.value))) \in Seq(Seq(Seq(Characters)))
  BY <1>1, WithRowType
<1>3. <<>> \in Seq(Seq(Characters)) /\ <<>> \in Seq(Characters)
  OBVIOUS
<1> QED
  BY <1>2, <1>3 DEF RowEnds, ReadStates

LEMMA ReadCharType ==
    ASSUME NEW s \in ReadStates, NEW char \in Characters, NEW following
    PROVE  ReadChar(s, char, following) \in ReadStates
<1>1. /\ Append(s.value, char) \in Seq(Characters) /\ Append(s.row, s.value) \in Seq(Seq(Characters))
      /\ Append(s.value, Quote) \in Seq(Characters) /\ <<>> \in Seq(Characters)
  BY SpecialCharacters DEF ReadStates
<1>2. [s EXCEPT !.escaped = FALSE] \in ReadStates
  BY DEF ReadStates
<1>3. InQuotes(s, char, following) \in ReadStates
  BY <1>1 DEF ReadStates, InQuotes
<1>4. Unquoted(s, char) \in ReadStates
  <2>1. CASE char = Newline /\ char # Quote /\ char # Comma
    BY <2>1, RowEndsType DEF Unquoted
  <2>2. CASE char # Newline \/ char = Quote \/ char = Comma
    <3>1. [s EXCEPT !.quoted = TRUE] \in ReadStates
      BY DEF ReadStates
    <3>2. [s EXCEPT !.row = Append(@, s.value), !.value = <<>>] \in ReadStates
      BY <1>1 DEF ReadStates
    <3>3. [s EXCEPT !.value = Append(@, char)] \in ReadStates
      BY <1>1 DEF ReadStates
    <3> QED
      BY TableAssumption, <2>2, <3>1, <3>2, <3>3 DEF Unquoted
  <2> QED
    BY <2>1, <2>2
<1> QED
  BY <1>2, <1>3, <1>4 DEF ReadChar

LEMMA ReadSteps ==
    ASSUME NEW chars \in Seq(Characters), NEW following
    PROVE  \E f \in [0..Len(chars) -> ReadStates] :
            /\ f[0] = Unread /\ ReadChars(chars, following) = f[Len(chars)]
            /\ \A n \in 1..Len(chars) :
                f[n] = ReadChar(f[n - 1], chars[n], IF n < Len(chars) THEN chars[n + 1] ELSE following)
<1> DEFINE Upcoming(n) == IF n < Len(chars) THEN chars[n + 1] ELSE following
           Is(f) == f = [n \in 0..Len(chars) |-> IF n = 0 THEN Unread ELSE ReadChar(f[n - 1], chars[n], Upcoming(n))]
           step == [n \in 1..Len(chars) |-> [s \in ReadStates |-> ReadChar(s, chars[n], Upcoming(n))]]
<1>1. Len(chars) \in Nat /\ \A n \in 1..Len(chars) : chars[n] \in Characters
  OBVIOUS
<1>2. ASSUME NEW n \in 1..Len(chars), NEW s \in ReadStates PROVE ReadChar(s, chars[n], Upcoming(n)) \in ReadStates
  BY <1>1, ReadCharType
<1>3. step \in [1..Len(chars) -> [ReadStates -> ReadStates]]
  BY <1>2
<1>4. \A n \in 1..Len(chars), s \in ReadStates : step[n][s] = ReadChar(s, chars[n], Upcoming(n))
  OBVIOUS
<1>5. Unread \in ReadStates
  BY DEF Unread, ReadStates
<1>8. ReadChars(chars, following) = (CHOOSE f : Is(f))[Len(chars)]
  BY DEF ReadChars, Is
<1> HIDE DEF step, Is, Upcoming
<1>6. PICK f \in [0..Len(chars) -> ReadStates] : IsLoop(f, Len(chars), Unread, step)
  BY <1>1, <1>3, <1>5, LoopExists
<1>7. f[0] = Unread /\ \A n \in 1..Len(chars) : f[n - 1] \in ReadStates /\ f[n] = ReadChar(f[n - 1], chars[n], Upcoming(n))
  <2>1. \A n \in 1..Len(chars) : n - 1 \in 0..Len(chars)
    BY <1>1
  <2>2. \A n \in 1..Len(chars) : f[n - 1] \in ReadStates /\ f[n] = step[n][f[n - 1]]
    BY <1>6, <2>1 DEF IsLoop
  <2> QED
    BY <1>4, <1>6, <2>2 DEF IsLoop
<1>9. Is(f)
  <2> DEFINE right == [n \in 0..Len(chars) |-> IF n = 0 THEN Unread ELSE ReadChar(f[n - 1], chars[n], Upcoming(n))]
  <2>1. ASSUME NEW n \in 0..Len(chars) PROVE f[n] = right[n]
    <3>1. n = 0 \/ n \in 1..Len(chars)
      BY <1>1
    <3> QED
      BY <1>7, <3>1
  <2> QED
    BY <1>6, <2>1 DEF Is
<1> DEFINE chosen == CHOOSE g : Is(g)
<1>10. Is(chosen)
  BY <1>9
<1>11. ReadChars(chars, following) = chosen[Len(chars)]
  BY <1>8
<1> HIDE DEF chosen
<1>12. chosen[0] = Unread /\ \A n \in 1..Len(chars) : chosen[n] = ReadChar(chosen[n - 1], chars[n], Upcoming(n))
  BY <1>1, <1>10 DEF Is
<1>13. \A n \in 0..Len(chars) : chosen[n] = f[n]
  <2> DEFINE same == {n \in 0..Len(chars) : chosen[n] = f[n]}
  <2>1. 0 \in same
    BY <1>1, <1>7, <1>12
  <2>2. \A n \in 1..Len(chars) : n - 1 \in same => n \in same
    BY <1>1, <1>7, <1>12
  <2> HIDE DEF same
  <2>3. \A n \in 0..Len(chars) : n \in same
    BY <1>1, <2>1, <2>2, UpTo
  <2> QED
    BY <2>3 DEF same
<1>14. ReadChars(chars, following) = f[Len(chars)]
  BY <1>1, <1>11, <1>13
<1> QED
  BY <1>7, <1>14 DEF Upcoming

\* One more character is read after those before it.
LEMMA ReadAppend ==
    ASSUME NEW chars \in Seq(Characters), NEW char \in Characters, NEW following
    PROVE  ReadChars(Append(chars, char), following) = ReadChar(ReadChars(chars, char), char, following)
<1> DEFINE longer == Append(chars, char)
<1>1. /\ longer \in Seq(Characters) /\ Len(longer) = Len(chars) + 1 /\ Len(chars) \in Nat
      /\ longer[Len(chars) + 1] = char /\ \A n \in 1..Len(chars) : longer[n] = chars[n]
  OBVIOUS
<1> HIDE DEF longer
<1>2. PICK f \in [0..Len(longer) -> ReadStates] :
        /\ f[0] = Unread /\ ReadChars(longer, following) = f[Len(longer)]
        /\ \A n \in 1..Len(longer) :
            f[n] = ReadChar(f[n - 1], longer[n], IF n < Len(longer) THEN longer[n + 1] ELSE following)
  BY <1>1, ReadSteps
<1>3. PICK g \in [0..Len(chars) -> ReadStates] :
        /\ g[0] = Unread /\ ReadChars(chars, char) = g[Len(chars)]
        /\ \A n \in 1..Len(chars) :
            g[n] = ReadChar(g[n - 1], chars[n], IF n < Len(chars) THEN chars[n + 1] ELSE char)
  BY ReadSteps
<1>4. \A n \in 0..Len(chars) : f[n] = g[n]
  <2> DEFINE same == {n \in 0..Len(chars) : f[n] = g[n]}
  <2>1. 0 \in same
    BY <1>1, <1>2, <1>3
  <2>2. ASSUME NEW n \in 1..Len(chars), n - 1 \in same PROVE n \in same
    <3>1. /\ longer[n] = chars[n]
          /\ (IF n < Len(longer) THEN longer[n + 1] ELSE following) = (IF n < Len(chars) THEN chars[n + 1] ELSE char)
      <4>1. CASE n < Len(chars)
        <5>1. n + 1 \in 1..Len(chars) /\ n < Len(longer)
          BY <1>1, <4>1
        <5> QED
          BY <1>1, <4>1, <5>1
      <4>2. CASE ~(n < Len(chars))
        <5>1. n = Len(chars) /\ n < Len(longer)
          BY <1>1, <4>2
        <5> QED
          BY <1>1, <4>2, <5>1
      <4> QED
        BY <4>1, <4>2
    <3>2. n \in 1..Len(longer) /\ f[n - 1] = g[n - 1]
      BY <1>1, <2>2
    <3> QED
      BY <1>2, <1>3, <3>1, <3>2
  <2> HIDE DEF same
  <2>3. \A n \in 0..Len(chars) : n \in same
    BY <1>1, <2>1, <2>2, UpTo
  <2> QED
    BY <2>3 DEF same
<1>5. f[Len(longer)] = ReadChar(f[Len(chars)], char, following)
  <2>1. Len(longer) \in 1..Len(longer) /\ Len(longer) - 1 = Len(chars) /\ ~(Len(longer) < Len(longer))
    BY <1>1
  <2> QED
    BY <1>1, <1>2, <2>1
<1>6. f[Len(chars)] = ReadChars(chars, char)
  BY <1>1, <1>3, <1>4
<1> QED
  BY <1>2, <1>5, <1>6 DEF longer

LEMMA ReadNothing ==
    ASSUME NEW following
    PROVE  ReadChars(<<>>, following) = Unread
<1>1. <<>> \in Seq(Characters) /\ Len(<<>>) = 0
  OBVIOUS
<1>2. PICK f : f[0] = Unread /\ ReadChars(<<>>, following) = f[Len(<<>>)]
  BY <1>1, ReadSteps, ZenonT(40)
<1> QED
  BY <1>1, <1>2

LEMMA ReadType ==
    ASSUME NEW chars \in Seq(Characters), NEW following
    PROVE  ReadChars(chars, following) \in ReadStates
<1>1. Len(chars) \in Nat /\ Len(chars) \in 0..Len(chars)
  OBVIOUS
<1>2. PICK f \in [0..Len(chars) -> ReadStates] : ReadChars(chars, following) = f[Len(chars)]
  BY ReadSteps
<1> QED
  BY <1>1, <1>2

-----------------------------------------------------------------------------
(* Where the reader is after some characters, whatever follows them *)

Reads(chars, s) == \A following : ReadChars(chars, following) = s

Between(rows, row, value) == [rows |-> rows, row |-> row, value |-> value, quoted |-> FALSE, escaped |-> FALSE]
Within(rows, row, value) == [rows |-> rows, row |-> row, value |-> value, quoted |-> TRUE, escaped |-> FALSE]

LEMMA ReadPlain ==
    ASSUME NEW chars \in Seq(Characters), NEW char \in Characters \ Specials, NEW rows, NEW row, NEW value,
           Reads(chars, Between(rows, row, value))
    PROVE  Reads(Append(chars, char), Between(rows, row, Append(value, char)))
<1> SUFFICES ASSUME NEW following
             PROVE  ReadChars(Append(chars, char), following) = Between(rows, row, Append(value, char))
  BY DEF Reads
<1>1. ReadChars(Append(chars, char), following) = ReadChar(Between(rows, row, value), char, following)
  BY ReadAppend DEF Reads
<1>2. char # Quote /\ char # Comma /\ char # Newline
  BY DEF Specials
<1> QED
  BY <1>1, <1>2 DEF ReadChar, Unquoted, Between

LEMMA ReadComma ==
    ASSUME NEW chars \in Seq(Characters), NEW rows, NEW row, NEW value,
           ReadChars(chars, Comma) = Between(rows, row, value)
    PROVE  Reads(Append(chars, Comma), Between(rows, Append(row, value), <<>>))
<1> SUFFICES ASSUME NEW following
             PROVE  ReadChars(Append(chars, Comma), following) = Between(rows, Append(row, value), <<>>)
  BY DEF Reads
<1>1. ReadChars(Append(chars, Comma), following) = ReadChar(Between(rows, row, value), Comma, following)
  BY ReadAppend, SpecialCharacters
<1> QED
  BY <1>1, TableAssumption DEF ReadChar, Unquoted, Between

LEMMA ReadReturn ==
    ASSUME NEW chars \in Seq(Characters), NEW rows, NEW row, NEW value,
           ReadChars(chars, Return) = Between(rows, row, value)
    PROVE  Reads(Append(chars, Return), Between(rows, row, Append(value, Return)))
<1> SUFFICES ASSUME NEW following
             PROVE  ReadChars(Append(chars, Return), following) = Between(rows, row, Append(value, Return))
  BY DEF Reads
<1>1. ReadChars(Append(chars, Return), following) = ReadChar(Between(rows, row, value), Return, following)
  BY ReadAppend, SpecialCharacters
<1> QED
  BY <1>1, TableAssumption DEF ReadChar, Unquoted, Between

LEMMA ReadNewline ==
    ASSUME NEW chars \in Seq(Characters), NEW rows, NEW row, NEW value,
           ReadChars(chars, Newline) = Between(rows, row, value)
    PROVE  Reads(Append(chars, Newline), Between(WithRow(rows, Append(row, Chomped(value))), <<>>, <<>>))
<1> SUFFICES ASSUME NEW following
             PROVE  ReadChars(Append(chars, Newline), following)
                        = Between(WithRow(rows, Append(row, Chomped(value))), <<>>, <<>>)
  BY DEF Reads
<1>1. ReadChars(Append(chars, Newline), following) = ReadChar(Between(rows, row, value), Newline, following)
  BY ReadAppend, SpecialCharacters
<1>2. ReadChar(Between(rows, row, value), Newline, following) = RowEnds(Between(rows, row, value))
  BY TableAssumption DEF ReadChar, Unquoted, Between
<1> QED
  BY <1>1, <1>2 DEF RowEnds, Between

LEMMA ReadOpening ==
    ASSUME NEW chars \in Seq(Characters), NEW rows, NEW row, NEW value,
           Reads(chars, Between(rows, row, value))
    PROVE  Reads(Append(chars, Quote), Within(rows, row, value))
<1> SUFFICES ASSUME NEW following
             PROVE  ReadChars(Append(chars, Quote), following) = Within(rows, row, value)
  BY DEF Reads
<1>1. ReadChars(Append(chars, Quote), following) = ReadChar(Between(rows, row, value), Quote, following)
  BY ReadAppend, SpecialCharacters DEF Reads
<1> QED
  BY <1>1, TableAssumption DEF ReadChar, Unquoted, Between, Within

LEMMA ReadClosing ==
    ASSUME NEW chars \in Seq(Characters), NEW rows, NEW row, NEW value, NEW following, following # Quote,
           Reads(chars, Within(rows, row, value))
    PROVE  ReadChars(Append(chars, Quote), following) = Between(rows, row, value)
<1>1. ReadChars(Append(chars, Quote), following) = ReadChar(Within(rows, row, value), Quote, following)
  BY ReadAppend, SpecialCharacters DEF Reads
<1> QED
  BY <1>1 DEF ReadChar, InQuotes, Between, Within

LEMMA ReadQuoted ==
    ASSUME NEW chars \in Seq(Characters), NEW char \in Characters, NEW rows, NEW row, NEW value,
           Reads(chars, Within(rows, row, value))
    PROVE  /\ WithChar(chars, char) \in Seq(Characters)
           /\ Reads(WithChar(chars, char), Within(rows, row, Append(value, char)))
<1>1. CASE char = Quote
  <2> DEFINE once == Append(chars, Quote)
             twice == Append(once, Quote)
             skips == [rows |-> rows, row |-> row, value |-> Append(value, Quote), quoted |-> TRUE, escaped |-> TRUE]
  <2>1. once \in Seq(Characters) /\ twice \in Seq(Characters) /\ chars \o <<Quote, Quote>> = twice
    BY SpecialCharacters
  <2>2. ReadChars(once, Quote) = skips
    <3>1. ReadChars(once, Quote) = ReadChar(Within(rows, row, value), Quote, Quote)
      BY ReadAppend, SpecialCharacters DEF Reads
    <3> QED
      BY <3>1 DEF ReadChar, InQuotes, Within
  <2>3. twice = Append(once, Quote)
    OBVIOUS
  <2>4. \A following : ReadChar(skips, Quote, following) = Within(rows, row, Append(value, Quote))
    BY DEF ReadChar, Within
  <2>5. WithChar(chars, char) = twice
    BY <1>1, <2>1 DEF WithChar
  <2> HIDE DEF once, twice, skips
  <2>6. ASSUME NEW following
        PROVE  ReadChars(twice, following) = Within(rows, row, Append(value, Quote))
    <3>1. ReadChars(twice, following) = ReadChar(skips, Quote, following)
      BY <2>1, <2>2, <2>3, ReadAppend, SpecialCharacters
    <3> QED
      BY <2>4, <3>1
  <2>7. Reads(twice, Within(rows, row, Append(value, char)))
    BY <1>1, <2>6 DEF Reads
  <2> QED
    BY <2>1, <2>5, <2>7
<1>2. CASE char # Quote
  <2>1. ASSUME NEW following
        PROVE  ReadChars(Append(chars, char), following) = Within(rows, row, Append(value, char))
    <3>1. ReadChars(Append(chars, char), following) = ReadChar(Within(rows, row, value), char, following)
      BY ReadAppend DEF Reads
    <3> QED
      BY <1>2, <3>1 DEF ReadChar, InQuotes, Within
  <2>2. WithChar(chars, char) = Append(chars, char) /\ Append(chars, char) \in Seq(Characters)
    BY <1>2 DEF WithChar
  <2> QED
    BY <2>1, <2>2 DEF Reads
<1> QED
  BY <1>1, <1>2

LEMMA JoinedAgain ==
    ASSUME NEW a \in Seq(Characters), NEW b \in Seq(Characters), NEW c \in Seq(Characters)
    PROVE  (a \o b) \o c = a \o (b \o c)
BY ConcatAssociative

-----------------------------------------------------------------------------
(* A cell is read as it was written. *)

LEMMA ReadPlainCell ==
    ASSUME NEW chars \in Seq(Characters), NEW cell \in Seq(Characters), NEW rows, NEW row,
           Range(cell) \intersect Specials = {}, Reads(chars, Between(rows, row, <<>>))
    PROVE  Reads(chars \o cell, Between(rows, row, cell))
<1> DEFINE start(n) == SubSeq(cell, 1, n)
           read == {n \in 0..Len(cell) : Reads(chars \o start(n), Between(rows, row, start(n)))}
<1>1. Len(cell) \in Nat
  OBVIOUS
<1>2. 0 \in read
  <2>1. start(0) = <<>> /\ chars \o <<>> = chars /\ 0 \in 0..Len(cell)
    BY <1>1
  <2> HIDE DEF start
  <2>2. Reads(chars \o start(0), Between(rows, row, start(0)))
    BY <2>1
  <2> QED
    BY <2>1, <2>2
<1>3. ASSUME NEW n \in 1..Len(cell), n - 1 \in read PROVE n \in read
  <2>1. /\ start(n - 1) \in Seq(Characters) /\ cell[n] \in Characters
        /\ start(n) = Append(start(n - 1), cell[n])
    BY PrefixGrows
  <2>2. cell[n] \notin Specials
    BY DEF Range
  <2> HIDE DEF start
  <2>3. /\ chars \o start(n - 1) \in Seq(Characters)
        /\ chars \o start(n) = Append(chars \o start(n - 1), cell[n])
    BY <2>1, JoinedGrows
  <2>4. Reads(Append(chars \o start(n - 1), cell[n]), Between(rows, row, Append(start(n - 1), cell[n])))
    BY <1>3, <2>1, <2>2, <2>3, ReadPlain
  <2>5. n \in 0..Len(cell)
    OBVIOUS
  <2> QED
    BY <2>1, <2>3, <2>4, <2>5
<1>4. start(Len(cell)) = cell
  OBVIOUS
<1> HIDE DEF read, start
<1>5. \A n \in 0..Len(cell) : n \in read
  BY <1>1, <1>2, <1>3, UpTo
<1>6. Len(cell) \in read
  BY <1>1, <1>5
<1> QED
  BY <1>4, <1>6 DEF read

LEMMA ReadQuotedCell ==
    ASSUME NEW chars \in Seq(Characters), NEW cell \in Seq(Characters), NEW rows, NEW row,
           NEW following, following # Quote, Reads(chars, Between(rows, row, <<>>))
    PROVE  ReadChars(chars \o (<<Quote>> \o Doubled(cell) \o <<Quote>>), following) = Between(rows, row, cell)
<1> DEFINE opened == Append(chars, Quote)
           start(n) == SubSeq(cell, 1, n)
<1>1. /\ Len(cell) \in Nat /\ Quote \in Characters
      /\ opened \in Seq(Characters) /\ Reads(opened, Within(rows, row, <<>>))
  BY ReadOpening, SpecialCharacters
<1>2. PICK f \in [0..Len(cell) -> Seq(Characters)] :
        /\ f[0] = <<>> /\ Doubled(cell) = f[Len(cell)]
        /\ \A n \in 1..Len(cell) : f[n] = WithChar(f[n - 1], cell[n])
  BY <1>1, DoubledSteps
<1> DEFINE read == {n \in 0..Len(cell) : Reads(opened \o f[n], Within(rows, row, start(n)))}
<1> HIDE DEF opened
<1>3. 0 \in read
  <2>1. start(0) = <<>> /\ opened \o f[0] = opened /\ 0 \in 0..Len(cell)
    BY <1>1, <1>2
  <2> HIDE DEF start
  <2>2. Reads(opened \o f[0], Within(rows, row, start(0)))
    BY <1>1, <2>1
  <2> QED
    BY <2>1, <2>2
<1>4. ASSUME NEW n \in 1..Len(cell), n - 1 \in read PROVE n \in read
  <2>1. cell[n] \in Characters /\ start(n) = Append(start(n - 1), cell[n])
    BY PrefixGrows
  <2> HIDE DEF start
  <2>2. n \in 0..Len(cell) /\ n - 1 \in 0..Len(cell)
    OBVIOUS
  <2> DEFINE written == f[n - 1]
             added == IF cell[n] = Quote THEN <<Quote, Quote>> ELSE <<cell[n]>>
  <2>3. written \in Seq(Characters) /\ added \in Seq(Characters)
    <3>1. <<Quote, Quote>> \in Seq(Characters) /\ <<cell[n]>> \in Seq(Characters)
      BY <1>1, <2>1
    <3> QED
      BY <1>2, <2>2, <3>1
  <2>4. opened \o f[n] = WithChar(opened \o f[n - 1], cell[n])
    <3>1. f[n] = written \o added /\ WithChar(opened \o written, cell[n]) = (opened \o written) \o added
      BY <1>2 DEF WithChar
    <3> HIDE DEF written, added
    <3>2. (opened \o written) \o added = opened \o (written \o added)
      <4>1. opened \in Seq(Characters) /\ written \in Seq(Characters) /\ added \in Seq(Characters)
        BY <1>1, <2>3
      <4> QED
        BY <4>1, JoinedAgain, ZenonT(40)
    <3> QED
      BY <3>1, <3>2 DEF written
  <2>5. Reads(WithChar(opened \o f[n - 1], cell[n]), Within(rows, row, Append(start(n - 1), cell[n])))
    <3> HIDE DEF added
    <3>1. opened \o f[n - 1] \in Seq(Characters)
      BY <1>1, <2>3
    <3> HIDE DEF read
    <3>2. Reads(opened \o f[n - 1], Within(rows, row, start(n - 1)))
      BY <1>4 DEF read
    <3> QED
      BY <2>1, <3>1, <3>2, ReadQuoted
  <2> QED
    BY <2>1, <2>2, <2>4, <2>5
<1>5. start(Len(cell)) = cell
  OBVIOUS
<1> HIDE DEF read, start
<1>6. Len(cell) \in read
  <2>1. \A n \in 0..Len(cell) : n \in read
    BY <1>1, <1>3, <1>4, UpTo
  <2> QED
    BY <1>1, <2>1
<1>7. Reads(opened \o Doubled(cell), Within(rows, row, cell)) /\ Doubled(cell) \in Seq(Characters)
  BY <1>1, <1>2, <1>5, <1>6 DEF read
<1>8. ReadChars(Append(opened \o Doubled(cell), Quote), following) = Between(rows, row, cell)
  <2> DEFINE written == opened \o Doubled(cell)
  <2>1. written \in Seq(Characters)
    BY <1>1, <1>7
  <2>2. Reads(written, Within(rows, row, cell))
    BY <1>7
  <2> HIDE DEF written
  <2>3. ReadChars(Append(written, Quote), following) = Between(rows, row, cell)
    BY <2>1, <2>2, ReadClosing
  <2> QED
    BY <2>3 DEF written
<1>9. chars \o (<<Quote>> \o Doubled(cell) \o <<Quote>>) = Append(opened \o Doubled(cell), Quote)
  BY <1>1, <1>7, SMTT(30) DEF opened
<1> QED
  BY <1>8, <1>9

LEMMA ReadCell ==
    ASSUME NEW chars \in Seq(Characters), NEW cell \in Seq(Characters), NEW rows, NEW row,
           NEW following, following # Quote, Reads(chars, Between(rows, row, <<>>))
    PROVE  ReadChars(chars \o CellText(cell), following) = Between(rows, row, cell)
<1>1. CASE Range(cell) \intersect Specials = {}
  BY <1>1, ReadPlainCell DEF CellText, Reads
<1>2. CASE Range(cell) \intersect Specials # {}
  BY <1>2, ReadQuotedCell DEF CellText
<1> QED
  BY <1>1, <1>2

\* A row is read as it was written, its last cell when something follows it.
LEMMA ReadRow ==
    ASSUME NEW chars \in Seq(Characters), NEW row \in Seq(Seq(Characters)), row # <<>>, NEW rows,
           NEW following, following # Quote, Reads(chars, Between(rows, <<>>, <<>>))
    PROVE  ReadChars(chars \o RowText(row), following)
            = Between(rows, SubSeq(row, 1, Len(row) - 1), row[Len(row)])
<1> DEFINE start(n) == SubSeq(row, 1, n)
<1>1. Len(row) \in Nat /\ Len(row) \in 1..Len(row) /\ Quote \in Characters /\ Comma \in Characters /\ Comma # Quote
  BY SpecialCharacters, TableAssumption
<1>2. PICK f \in [0..Len(row) -> Seq(Characters)] :
        /\ f[0] = <<>> /\ RowText(row) = f[Len(row)]
        /\ \A n \in 1..Len(row) : f[n] = WithCell(f[n - 1], row[n], n)
  BY <1>1, RowSteps
<1> DEFINE read == {n \in 0..Len(row) : n > 0 => \A next : next # Quote =>
                        ReadChars(chars \o f[n], next) = Between(rows, start(n - 1), row[n])}
<1>3. 0 \in read
  BY <1>1
<1>4. ASSUME NEW n \in 1..Len(row), n - 1 \in read PROVE n \in read
  <2>1. row[n] \in Seq(Characters) /\ CellText(row[n]) \in Seq(Characters)
    BY <1>1, CellTextType
  <2>2. n \in 0..Len(row) /\ n - 1 \in 0..Len(row) /\ f[n - 1] \in Seq(Characters)
    <3>1. n \in 0..Len(row) /\ n - 1 \in 0..Len(row)
      BY <1>1
    <3> QED
      BY <1>2, <3>1
  <2>3. f[n] = WithCell(f[n - 1], row[n], n)
    BY <1>2
  <2>4. CASE n = 1
    <3>1. f[n] = CellText(row[n])
      <4>1. f[n - 1] = <<>>
        BY <1>2, <2>4
      <4>2. f[n] = <<>> \o CellText(row[n])
        BY <2>3, <2>4, <4>1 DEF WithCell
      <4> QED
        BY <2>1, <4>2
    <3>3. start(n - 1) = <<>>
      BY <2>4
    <3> HIDE DEF start
    <3>2. \A next : next # Quote => ReadChars(chars \o f[n], next) = Between(rows, <<>>, row[n])
      BY <2>1, <3>1, ReadCell
    <3> QED
      BY <2>2, <2>4, <3>3, <3>2
  <2>5. CASE n # 1
    <3> DEFINE before == chars \o f[n - 1]
               comma == Append(before, Comma)
    <3>1. before \in Seq(Characters) /\ comma \in Seq(Characters) /\ n - 1 \in 1..Len(row)
      BY <1>1, <2>2, <2>5
    <3>2. start(n - 1) = Append(start(n - 2), row[n - 1])
      <4>1. start(n - 1) = Append(SubSeq(row, 1, n - 1 - 1), row[n - 1])
        BY <3>1, PrefixGrows
      <4> QED
        BY <4>1
    <3>3. chars \o f[n] = comma \o CellText(row[n])
      <4> DEFINE written == f[n - 1]
                 added == CellText(row[n])
      <4>1. f[n] = Append(written, Comma) \o added
        BY <2>3, <2>5 DEF WithCell
      <4>2. written \in Seq(Characters) /\ added \in Seq(Characters)
        BY <2>1, <2>2
      <4> HIDE DEF written, added
      <4>3. Append(written, Comma) \in Seq(Characters) /\ chars \o Append(written, Comma) = Append(chars \o written, Comma)
        BY <1>1, <4>2, SMTT(30)
      <4>4. chars \o (Append(written, Comma) \o added) = (chars \o Append(written, Comma)) \o added
        <5>1. /\ chars \in Seq(Characters) /\ Append(written, Comma) \in Seq(Characters)
              /\ added \in Seq(Characters)
          BY <4>2, <4>3
        <5> QED
          BY <5>1, JoinedAgain
      <4> QED
        BY <4>1, <4>3, <4>4 DEF written, added
    <3>4. ReadChars(before, Comma) = Between(rows, start(n - 1 - 1), row[n - 1])
      BY <1>1, <1>4, <2>5
    <3>5. n - 1 - 1 = n - 2
      OBVIOUS
    <3> HIDE DEF before, start
    <3>6. Reads(comma, Between(rows, start(n - 1), <<>>))
      BY <3>1, <3>2, <3>4, <3>5, ReadComma
    <3> HIDE DEF comma
    <3>7. \A next : next # Quote =>
            ReadChars(comma \o CellText(row[n]), next) = Between(rows, start(n - 1), row[n])
      BY <2>1, <3>1, <3>6, ReadCell
    <3> QED
      BY <2>2, <3>3, <3>7
  <2> QED
    BY <2>4, <2>5
<1> HIDE DEF read
<1>5. Len(row) \in read
  <2>1. \A n \in 0..Len(row) : n \in read
    BY <1>1, <1>3, <1>4, UpTo
  <2> QED
    BY <1>1, <2>1
<1> QED
  BY <1>1, <1>2, <1>5 DEF read

-----------------------------------------------------------------------------
(* A line is read as the row that was written. *)

AtLine(rows) == Between(rows, <<>>, <<>>)
LineEnds == {<<Newline>>, <<Return, Newline>>}
KeepsEnd(cell) == cell = <<>> \/ Last(cell) # Return

LEMMA ChompedCell ==
    ASSUME NEW cell \in Seq(Characters), KeepsEnd(cell)
    PROVE  Chomped(cell) = cell /\ Chomped(Append(cell, Return)) = cell
<1>1. Chomped(cell) = cell
  BY DEF Chomped, KeepsEnd
<1>2. /\ Append(cell, Return) # <<>> /\ Last(Append(cell, Return)) = Return
      /\ Front(Append(cell, Return)) = cell
  BY SpecialCharacters DEF Last, Front
<1> QED
  BY <1>1, <1>2 DEF Chomped

LEMMA WholeRow ==
    ASSUME NEW row \in Seq(Seq(Characters)), row # <<>>
    PROVE  /\ Len(row) \in 1..Len(row) /\ row[Len(row)] \in Seq(Characters)
           /\ Append(SubSeq(row, 1, Len(row) - 1), row[Len(row)]) = row
<1>1. Len(row) \in 1..Len(row) /\ SubSeq(row, 1, Len(row)) = row
  OBVIOUS
<1> QED
  BY <1>1, PrefixGrows

LEMMA ReadLine ==
    ASSUME NEW chars \in Seq(Characters), NEW row \in Seq(Seq(Characters)), row # <<>>, KeepsEnd(row[Len(row)]),
           NEW rows, Reads(chars, AtLine(rows))
    PROVE  /\ ParseCsv(chars \o RowText(row)) = WithRow(rows, row)
           /\ \A ending \in LineEnds :
                Reads((chars \o RowText(row)) \o ending, AtLine(WithRow(rows, row)))
<1> DEFINE before == SubSeq(row, 1, Len(row) - 1)
           last == row[Len(row)]
           written == chars \o RowText(row)
<1>1. last \in Seq(Characters) /\ Append(before, last) = row
  BY WholeRow
<1>2. written \in Seq(Characters)
  BY RowTextType, SpecialCharacters
<1>3. \A following : following # Quote => ReadChars(written, following) = Between(rows, before, last)
  BY ReadRow DEF AtLine
<1>4. Chomped(last) = last /\ Chomped(Append(last, Return)) = last
  BY <1>1, ChompedCell
<1> HIDE DEF before, last, written
<1>5. ParseCsv(written) = WithRow(rows, row)
  <2>1. ReadChars(written, EndOfText) = Between(rows, before, last)
    BY <1>3, TableAssumption
  <2>2. RowEnds(Between(rows, before, last)).rows = WithRow(rows, Append(before, Chomped(last)))
    BY DEF RowEnds, Between
  <2> QED
    BY <1>1, <1>4, <2>1, <2>2 DEF ParseCsv
<1>6. Reads(written \o <<Newline>>, AtLine(WithRow(rows, row)))
  <2>1. ReadChars(written, Newline) = Between(rows, before, last)
    BY <1>3, TableAssumption
  <2>2. Reads(Append(written, Newline), Between(WithRow(rows, Append(before, Chomped(last))), <<>>, <<>>))
    BY <1>2, <2>1, ReadNewline
  <2>3. written \o <<Newline>> = Append(written, Newline)
    BY <1>2, SpecialCharacters
  <2> QED
    BY <1>1, <1>4, <2>2, <2>3 DEF AtLine
<1>7. Reads(written \o <<Return, Newline>>, AtLine(WithRow(rows, row)))
  <2> DEFINE returned == Append(written, Return)
  <2>1. ReadChars(written, Return) = Between(rows, before, last)
    BY <1>3, TableAssumption
  <2>2. returned \in Seq(Characters) /\ Reads(returned, Between(rows, before, Append(last, Return)))
    BY <1>2, <2>1, ReadReturn, SpecialCharacters
  <2>3. written \o <<Return, Newline>> = Append(returned, Newline)
    BY <1>2, SpecialCharacters
  <2> HIDE DEF returned
  <2>4. ReadChars(returned, Newline) = Between(rows, before, Append(last, Return))
    BY <2>2 DEF Reads
  <2>5. Reads(Append(returned, Newline),
              Between(WithRow(rows, Append(before, Chomped(Append(last, Return)))), <<>>, <<>>))
    BY <2>2, <2>4, ReadNewline
  <2> QED
    BY <1>1, <1>4, <2>3, <2>5 DEF AtLine
<1> QED
  BY <1>5, <1>6, <1>7 DEF written, LineEnds

LEMMA ParseAtLine ==
    ASSUME NEW chars, NEW rows, Reads(chars, AtLine(rows))
    PROVE  ParseCsv(chars) = rows
<1>1. ReadChars(chars, EndOfText) = Between(rows, <<>>, <<>>)
  BY DEF Reads, AtLine
<1>2. Append(<<>>, Chomped(<<>>)) = <<<<>>>>
  BY DEF Chomped
<1>3. ~IsFilled(<<<<>>>>)
  BY DEF IsFilled
<1>4. RowEnds(Between(rows, <<>>, <<>>)).rows = WithRow(rows, Append(<<>>, Chomped(<<>>)))
  BY DEF RowEnds, Between
<1> QED
  BY <1>1, <1>2, <1>3, <1>4 DEF ParseCsv, WithRow

-----------------------------------------------------------------------------
(* The rows with a text, and the characters of a row *)

LEMMA FilledAppend ==
    ASSUME NEW S, NEW rows \in Seq(S), NEW row \in S
    PROVE  /\ Filled(rows) \in Seq(S)
           /\ Filled(Append(rows, row)) = WithRow(Filled(rows), row)
<1> DEFINE longer == Append(rows, row)
<1>1. /\ longer \in Seq(S) /\ Len(longer) = Len(rows) + 1 /\ Len(rows) \in Nat
      /\ longer[Len(rows) + 1] = row /\ \A n \in 1..Len(rows) : longer[n] = rows[n]
  OBVIOUS
<1> HIDE DEF longer
<1>2. PICK f \in [0..Len(longer) -> Seq(S)] :
        /\ f[0] = <<>> /\ Filled(longer) = f[Len(longer)]
        /\ \A n \in 1..Len(longer) : f[n] = WithRow(f[n - 1], longer[n])
  BY <1>1, FilledSteps
<1>3. PICK g \in [0..Len(rows) -> Seq(S)] :
        /\ g[0] = <<>> /\ Filled(rows) = g[Len(rows)]
        /\ \A n \in 1..Len(rows) : g[n] = WithRow(g[n - 1], rows[n])
  BY FilledSteps
<1> DEFINE same == {n \in 0..Len(rows) : f[n] = g[n]}
<1>4. 0 \in same
  BY <1>1, <1>2, <1>3
<1>5. ASSUME NEW n \in 1..Len(rows), n - 1 \in same PROVE n \in same
  BY <1>1, <1>2, <1>3, <1>5
<1> HIDE DEF same
<1>6. \A n \in 0..Len(rows) : n \in same
  BY <1>1, <1>4, <1>5, UpTo
<1>7. f[Len(rows)] = Filled(rows) /\ Filled(rows) \in Seq(S)
  BY <1>1, <1>3, <1>6 DEF same
<1>8. f[Len(longer)] = WithRow(f[Len(rows)], row)
  <2>1. Len(longer) \in 1..Len(longer) /\ Len(longer) - 1 = Len(rows)
    BY <1>1
  <2> QED
    BY <1>1, <1>2, <2>1
<1> QED
  BY <1>2, <1>7, <1>8 DEF longer

LEMMA FilledNothing == Filled(<<>>) = <<>>
<1>1. <<>> \in Seq({}) /\ Len(<<>>) = 0
  OBVIOUS
<1>2. PICK f : f[0] = <<>> /\ Filled(<<>>) = f[Len(<<>>)]
  BY <1>1, FilledSteps, ZenonT(40)
<1> QED
  BY <1>1, <1>2

\* The text of a row ends with a comma, a quote or a character of a cell without specials.
LEMMA CellTextEnds ==
    ASSUME NEW cell \in Seq(Characters), CellText(cell) # <<>>
    PROVE  CellText(cell)[Len(CellText(cell))] # Newline
<1>1. CASE Range(cell) \intersect Specials = {}
  <2>1. CellText(cell) = cell /\ Len(cell) \in DOMAIN cell
    BY <1>1 DEF CellText
  <2>2. cell[Len(cell)] \notin Specials
    BY <1>1, <2>1 DEF Range
  <2> QED
    BY <2>1, <2>2 DEF Specials
<1>2. CASE Range(cell) \intersect Specials # {}
  <2> DEFINE doubled == Doubled(cell)
  <2>1. doubled \in Seq(Characters)
    <3>1. Len(cell) \in Nat /\ Len(cell) \in 0..Len(cell)
      OBVIOUS
    <3> QED
      BY <3>1, DoubledSteps, SpecialCharacters
  <2>2. CellText(cell) = <<Quote>> \o doubled \o <<Quote>>
    BY <1>2 DEF CellText
  <2> HIDE DEF doubled
  <2>3. (<<Quote>> \o doubled \o <<Quote>>)[Len(<<Quote>> \o doubled \o <<Quote>>)] = Quote
    BY <2>1, SpecialCharacters
  <2> QED
    BY <2>2, <2>3, TableAssumption
<1> QED
  BY <1>1, <1>2

LEMMA RowTextEnds ==
    ASSUME NEW row \in Seq(Seq(Characters)), RowText(row) # <<>>
    PROVE  RowText(row)[Len(RowText(row))] # Newline
<1>1. Len(row) \in Nat /\ Quote \in Characters /\ Comma \in Characters /\ Comma # Newline
  BY SpecialCharacters, TableAssumption
<1>2. PICK f \in [0..Len(row) -> Seq(Characters)] :
        /\ f[0] = <<>> /\ RowText(row) = f[Len(row)]
        /\ \A n \in 1..Len(row) : f[n] = WithCell(f[n - 1], row[n], n)
  BY <1>1, RowSteps
<1> DEFINE ends == {n \in 0..Len(row) : f[n] = <<>> \/ f[n][Len(f[n])] # Newline}
<1>3. 0 \in ends
  BY <1>1, <1>2
<1>4. ASSUME NEW n \in 1..Len(row), n - 1 \in ends PROVE n \in ends
  <2> DEFINE added == CellText(row[n])
             before == IF n = 1 THEN f[n - 1] ELSE Append(f[n - 1], Comma)
  <2>1. row[n] \in Seq(Characters) /\ n \in 0..Len(row) /\ n - 1 \in 0..Len(row)
    BY <1>1
  <2>2. added \in Seq(Characters) /\ (added # <<>> => added[Len(added)] # Newline)
    BY <1>1, <2>1, CellTextType, CellTextEnds
  <2>3. f[n - 1] \in Seq(Characters)
    BY <1>2, <2>1
  <2>4. before \in Seq(Characters) /\ (before # <<>> => before[Len(before)] # Newline)
    BY <1>1, <1>2, <2>3
  <2>5. f[n] = before \o added
    BY <1>2 DEF WithCell
  <2> HIDE DEF before, added
  <2>6. CASE added = <<>>
    <3>1. f[n] = before
      BY <2>4, <2>5, <2>6
    <3> QED
      BY <2>1, <2>4, <3>1
  <2>7. CASE added # <<>>
    <3>1. (before \o added)[Len(before \o added)] = added[Len(added)]
      BY <2>2, <2>4, <2>7
    <3> QED
      BY <2>1, <2>2, <2>5, <2>7, <3>1
  <2> QED
    BY <2>6, <2>7
<1> HIDE DEF ends
<1>5. Len(row) \in ends
  <2>1. \A n \in 0..Len(row) : n \in ends
    BY <1>1, <1>3, <1>4, UpTo
  <2> QED
    BY <1>1, <2>1
<1> QED
  BY <1>2, <1>5 DEF ends

\* A row without a line end in its cells is written without one.
LEMMA CellTextOneLine ==
    ASSUME NEW cell \in Seq(Characters), Newline \notin Range(cell)
    PROVE  \A n \in 1..Len(CellText(cell)) : CellText(cell)[n] # Newline
<1>1. CASE Range(cell) \intersect Specials = {}
  BY <1>1 DEF CellText, Range
<1>2. CASE Range(cell) \intersect Specials # {}
  <2>1. Len(cell) \in Nat /\ Quote \in Characters /\ Quote # Newline
    BY SpecialCharacters, TableAssumption
  <2>2. PICK f \in [0..Len(cell) -> Seq(Characters)] :
          /\ f[0] = <<>> /\ Doubled(cell) = f[Len(cell)]
          /\ \A n \in 1..Len(cell) : f[n] = WithChar(f[n - 1], cell[n])
    BY <2>1, DoubledSteps
  <2> DEFINE oneLine == {n \in 0..Len(cell) : \A k \in 1..Len(f[n]) : f[n][k] # Newline}
  <2>3. 0 \in oneLine
    BY <2>1, <2>2
  <2>4. ASSUME NEW n \in 1..Len(cell), n - 1 \in oneLine PROVE n \in oneLine
    <3> DEFINE added == IF cell[n] = Quote THEN <<Quote, Quote>> ELSE <<cell[n]>>
    <3>1. n \in 0..Len(cell) /\ n - 1 \in 0..Len(cell) /\ cell[n] \in Characters /\ cell[n] # Newline
      BY <2>1 DEF Range
    <3>2. added \in Seq(Characters) /\ \A k \in 1..Len(added) : added[k] # Newline
      <4>1. CASE cell[n] = Quote
        <5>1. added = <<Quote, Quote>>
          BY <4>1
        <5> HIDE DEF added
        <5> QED
          BY <2>1, <5>1
      <4>2. CASE cell[n] # Quote
        <5>1. added = <<cell[n]>>
          BY <4>2
        <5> HIDE DEF added
        <5> QED
          BY <3>1, <5>1
      <4> QED
        BY <4>1, <4>2
    <3>3. f[n - 1] \in Seq(Characters) /\ f[n] = f[n - 1] \o added
      BY <2>2, <3>1 DEF WithChar
    <3>4. \A k \in 1..Len(f[n - 1]) : f[n - 1][k] # Newline
      BY <2>4
    <3> HIDE DEF added
    <3>5. \A k \in 1..Len(f[n - 1] \o added) : (f[n - 1] \o added)[k] # Newline
      BY <3>2, <3>3, <3>4
    <3> QED
      BY <3>1, <3>3, <3>5
  <2> HIDE DEF oneLine
  <2>5. Len(cell) \in oneLine
    <3>1. \A n \in 0..Len(cell) : n \in oneLine
      BY <2>1, <2>3, <2>4, UpTo
    <3> QED
      BY <2>1, <3>1
  <2> DEFINE doubled == Doubled(cell)
  <2>6. doubled \in Seq(Characters) /\ \A k \in 1..Len(doubled) : doubled[k] # Newline
    BY <2>1, <2>2, <2>5 DEF oneLine
  <2>7. CellText(cell) = <<Quote>> \o doubled \o <<Quote>>
    BY <1>2 DEF CellText
  <2> HIDE DEF doubled
  <2>8. \A k \in 1..Len(<<Quote>> \o doubled \o <<Quote>>) : (<<Quote>> \o doubled \o <<Quote>>)[k] # Newline
    BY <2>1, <2>6
  <2> QED
    BY <2>7, <2>8
<1> QED
  BY <1>1, <1>2

LEMMA RowTextOneLine ==
    ASSUME NEW row \in Seq(Seq(Characters)), \A n \in DOMAIN row : Newline \notin Range(row[n])
    PROVE  \A n \in 1..Len(RowText(row)) : RowText(row)[n] # Newline
<1>1. Len(row) \in Nat /\ Quote \in Characters /\ Comma \in Characters /\ Comma # Newline
  BY SpecialCharacters, TableAssumption
<1>2. PICK f \in [0..Len(row) -> Seq(Characters)] :
        /\ f[0] = <<>> /\ RowText(row) = f[Len(row)]
        /\ \A n \in 1..Len(row) : f[n] = WithCell(f[n - 1], row[n], n)
  BY <1>1, RowSteps
<1> DEFINE oneLine == {n \in 0..Len(row) : \A k \in 1..Len(f[n]) : f[n][k] # Newline}
<1>3. 0 \in oneLine
  BY <1>1, <1>2
<1>4. ASSUME NEW n \in 1..Len(row), n - 1 \in oneLine PROVE n \in oneLine
  <2> DEFINE added == CellText(row[n])
             before == IF n = 1 THEN f[n - 1] ELSE Append(f[n - 1], Comma)
  <2>1. row[n] \in Seq(Characters) /\ n \in 0..Len(row) /\ n - 1 \in 0..Len(row) /\ Newline \notin Range(row[n])
    BY <1>1
  <2>2. added \in Seq(Characters) /\ \A k \in 1..Len(added) : added[k] # Newline
    BY <1>1, <2>1, CellTextType, CellTextOneLine
  <2>3. f[n - 1] \in Seq(Characters) /\ \A k \in 1..Len(f[n - 1]) : f[n - 1][k] # Newline
    BY <1>2, <1>4, <2>1
  <2>4. before \in Seq(Characters) /\ \A k \in 1..Len(before) : before[k] # Newline
    <3>1. CASE n = 1
      BY <2>3, <3>1
    <3>2. CASE n # 1
      <4> DEFINE start == f[n - 1]
      <4>1. before = Append(start, Comma) /\ start \in Seq(Characters) /\ \A k \in 1..Len(start) : start[k] # Newline
        BY <2>3, <3>2
      <4> HIDE DEF start
      <4>2. \A k \in 1..Len(Append(start, Comma)) : Append(start, Comma)[k] # Newline
        <5>1. start \o <<Comma>> = Append(start, Comma) /\ <<Comma>> \in Seq(Characters)
              /\ \A k \in 1..Len(<<Comma>>) : <<Comma>>[k] # Newline
          BY <1>1, <4>1
        <5> DEFINE comma == <<Comma>>
        <5> HIDE DEF comma
        <5>2. \A k \in 1..Len(start \o comma) : (start \o comma)[k] # Newline
          BY <4>1, <5>1 DEF comma
        <5> QED
          BY <5>1, <5>2 DEF comma
      <4>3. Append(start, Comma) \in Seq(Characters)
        BY <1>1, <4>1
      <4> HIDE DEF before
      <4> QED
        BY <4>1, <4>2, <4>3
    <3> QED
      BY <3>1, <3>2
  <2>5. f[n] = before \o added
    BY <1>2 DEF WithCell
  <2> HIDE DEF before, added
  <2>6. \A k \in 1..Len(before \o added) : (before \o added)[k] # Newline
    BY <2>2, <2>4
  <2> QED
    BY <2>1, <2>5, <2>6
<1> HIDE DEF oneLine
<1>5. Len(row) \in oneLine
  <2>1. \A n \in 0..Len(row) : n \in oneLine
    BY <1>1, <1>3, <1>4, UpTo
  <2> QED
    BY <1>1, <2>1
<1> QED
  BY <1>2, <1>5 DEF oneLine

LEMMA FirstStays ==
    ASSUME NEW S, NEW list \in Seq(S), list # <<>>, NEW entry \in S
    PROVE  Append(list, entry) # <<>> /\ Append(list, entry)[1] = list[1]
<1>1. Len(list) \in Nat \ {0}
  BY EmptySeq
<1>2. 1 \in 1..Len(list) /\ Len(Append(list, entry)) = Len(list) + 1
  BY <1>1
<1> QED
  BY <1>1, <1>2

\* Whatever follows the first row, it stays the first row.
LEMMA FirstRowStays ==
    ASSUME NEW chars \in Seq(Characters), NEW tail \in Seq(Characters), NEW header,
           Reads(chars, AtLine(<<header>>))
    PROVE  ParseCsv(chars \o tail) # <<>> /\ ParseCsv(chars \o tail)[1] = header
<1> DEFINE start(n) == SubSeq(tail, 1, n)
           First(s) == s.rows # <<>> /\ s.rows[1] = header
           stays == {n \in 0..Len(tail) : \A following : First(ReadChars(chars \o start(n), following))}
<1>1. Len(tail) \in Nat
  OBVIOUS
<1>2. ASSUME NEW rows \in Seq(Seq(Seq(Characters))), rows # <<>>, rows[1] = header, NEW row \in Seq(Seq(Characters))
      PROVE  WithRow(rows, row) # <<>> /\ WithRow(rows, row)[1] = header
  <2>1. WithRow(rows, row) = rows \/ WithRow(rows, row) = Append(rows, row)
    BY DEF WithRow
  <2>2. Append(rows, row) # <<>> /\ Append(rows, row)[1] = rows[1]
    BY <1>2, FirstStays
  <2> QED
    BY <1>2, <2>1, <2>2
<1>3. ASSUME NEW s \in ReadStates, First(s) PROVE First(RowEnds(s))
  <2>1. RowEnds(s).rows = WithRow(s.rows, Append(s.row, Chomped(s.value)))
    BY RowEndsType
  <2>2. s.rows \in Seq(Seq(Seq(Characters))) /\ Append(s.row, Chomped(s.value)) \in Seq(Seq(Characters))
    BY ChompedType DEF ReadStates
  <2> QED
    BY <1>2, <1>3, <2>1, <2>2
<1>4. ASSUME NEW s \in ReadStates, First(s), NEW char \in Characters, NEW following
      PROVE  First(ReadChar(s, char, following))
  <2>1. \/ ReadChar(s, char, following) = RowEnds(s)
        \/ ReadChar(s, char, following).rows = s.rows
    BY TableAssumption DEF ReadChar, InQuotes, Unquoted, ReadStates
  <2> QED
    BY <1>3, <1>4, <2>1
<1>5. 0 \in stays
  <2>1. start(0) = <<>> /\ chars \o <<>> = chars
    OBVIOUS
  <2>2. <<header>> # <<>> /\ <<header>>[1] = header
    OBVIOUS
  <2>3. \A following : ReadChars(chars, following).rows = <<header>>
    BY DEF Reads, AtLine, Between
  <2> HIDE DEF start
  <2>4. \A following : First(ReadChars(chars \o start(0), following))
    BY <2>1, <2>2, <2>3
  <2> QED
    BY <1>1, <2>4
<1>6. ASSUME NEW n \in 1..Len(tail), n - 1 \in stays PROVE n \in stays
  <2> DEFINE before == chars \o start(n - 1)
  <2>1. start(n - 1) \in Seq(Characters) /\ tail[n] \in Characters /\ start(n) = Append(start(n - 1), tail[n])
    BY PrefixGrows
  <2>5. \A following : First(ReadChars(before, following))
    BY <1>6
  <2> HIDE DEF start, First
  <2>2. before \in Seq(Characters) /\ chars \o start(n) = Append(before, tail[n])
    BY <2>1, JoinedGrows
  <2> HIDE DEF before
  <2>3. \A following : First(ReadChars(Append(before, tail[n]), following))
    <3> SUFFICES ASSUME NEW following PROVE First(ReadChars(Append(before, tail[n]), following))
      OBVIOUS
    <3>1. ReadChars(before, tail[n]) \in ReadStates /\ First(ReadChars(before, tail[n]))
      BY <2>2, <2>5, ReadType
    <3>2. ReadChars(Append(before, tail[n]), following) = ReadChar(ReadChars(before, tail[n]), tail[n], following)
      BY <2>1, <2>2, ReadAppend
    <3> QED
      BY <1>4, <2>1, <3>1, <3>2
  <2>4. n \in 0..Len(tail)
    OBVIOUS
  <2> QED
    BY <2>2, <2>3, <2>4
<1>7. start(Len(tail)) = tail
  OBVIOUS
<1> HIDE DEF stays, start
<1>8. Len(tail) \in stays
  <2>1. \A n \in 0..Len(tail) : n \in stays
    BY <1>1, <1>5, <1>6, UpTo
  <2> QED
    BY <1>1, <2>1
<1>9. First(ReadChars(chars \o tail, EndOfText))
  BY <1>7, <1>8 DEF stays
<1>10. ReadChars(chars \o tail, EndOfText) \in ReadStates
  <2>1. chars \o tail \in Seq(Characters)
    OBVIOUS
  <2> QED
    BY <2>1, ReadType
<1> HIDE DEF First
<1>11. First(RowEnds(ReadChars(chars \o tail, EndOfText)))
  BY <1>3, <1>9, <1>10
<1> QED
  BY <1>11 DEF ParseCsv, First

-----------------------------------------------------------------------------
(* Tables: what has been written, and what is read of it *)

Rows == {row \in Seq(Seq(Characters)) : row # <<>> /\ KeepsEnd(row[Len(row)])}

OneLine(row) == \A k \in DOMAIN row : Newline \notin Range(row[k])
IsAtLine == text = <<>> \/ text[Len(text)] = Newline
Newlines(m) == {n \in 1..m : text[n] = Newline}

TableTyped ==
    /\ lineEnd \in LineEnds /\ table \in Seq(Rows) /\ text \in Seq(Characters)
    /\ table = <<>> <=> text = <<>>
    /\ table # <<>> => table[1] \in Headers

TextRead ==
    /\ ParseCsv(text) = Filled(table)
    /\ IsAtLine => Reads(text, AtLine(Filled(table)))

HeaderWritten ==
    table # <<>> =>
        \/ Len(table) = 1 /\ text = RowText(table[1])
        \/ \E rest \in Seq(Characters) : text = (RowText(table[1]) \o lineEnd) \o rest

LinesRead ==
    (\A n \in DOMAIN table : OneLine(table[n])) =>
        /\ IsAtLine => Cardinality(Newlines(Len(text))) = Len(table)
        /\ \A m \in 1..Len(text) : text[m] = Newline =>
            /\ Cardinality(Newlines(m)) <= Len(table)
            /\ Reads(SubSeq(text, 1, m), AtLine(Filled(SubSeq(table, 1, Cardinality(Newlines(m))))))

ColumnsNamed ==
    columns # <<>> => table # <<>> /\ [n \in DOMAIN columns |-> columns[n].name] = HeaderOf(table)

TableInvariant ==
    /\ TableTyped /\ TextRead /\ HeaderWritten /\ LinesRead /\ ColumnsNamed
    /\ OfferedColumns /\ PointsKeepTheirRows

LEMMA RowsToWriteTyped ==
    ASSUME NEW row \in RowsToWrite
    PROVE  row \in Rows /\ (table = <<>> => row \in Headers)
<1>1. CASE table = <<>>
  <2>1. row \in Headers
    BY <1>1 DEF RowsToWrite
  <2>2. row \in Seq(Seq(Characters)) /\ IsFilled(row) /\ \A n \in DOMAIN row : KeepsEnd(row[n])
    BY <2>1, TableAssumption DEF KeepsEnd
  <2>3. row # <<>> /\ Len(row) \in DOMAIN row
    BY <2>2 DEF IsFilled
  <2> QED
    BY <2>1, <2>2, <2>3 DEF Rows
<1>2. CASE table # <<>>
  <2>1. row \in DataRows
    BY <1>2 DEF RowsToWrite
  <2>2. row \in Seq(Seq(Characters)) /\ row # <<>> /\ \A n \in DOMAIN row : KeepsEnd(row[n])
    BY <2>1, TableAssumption DEF KeepsEnd
  <2>3. Len(row) \in DOMAIN row
    BY <2>2
  <2> QED
    BY <1>2, <2>2, <2>3 DEF Rows
<1> QED
  BY <1>1, <1>2

LEMMA LineEndsTyped ==
    ASSUME NEW ending \in LineEnds
    PROVE  /\ ending \in Seq(Characters) /\ ending # <<>> /\ Len(ending) \in 1..2 /\ ending[Len(ending)] = Newline
           /\ \A n \in 1..(Len(ending) - 1) : ending[n] # Newline
<1>1. CASE ending = <<Newline>>
  BY <1>1, SpecialCharacters
<1>2. CASE ending = <<Return, Newline>>
  <2>1. ending \in Seq(Characters) /\ Len(ending) = 2 /\ ending[2] = Newline /\ ending[1] = Return
    BY <1>2, SpecialCharacters
  <2> QED
    BY <2>1, TableAssumption
<1> QED
  BY <1>1, <1>2 DEF LineEnds

LEMMA LastJoined ==
    ASSUME NEW a \in Seq(Characters), NEW b \in Seq(Characters), b # <<>>
    PROVE  a \o b # <<>> /\ (a \o b)[Len(a \o b)] = b[Len(b)]
<1>1. Len(a) \in Nat /\ Len(b) \in Nat \ {0} /\ Len(a \o b) = Len(a) + Len(b)
  BY EmptySeq
<1> QED
  BY <1>1

LEMMA TableTypedInit ==
    ASSUME TablesInit
    PROVE  TableInvariant
<1>1. TableTyped
  BY DEF TablesInit, TableTyped, LineEnds
<1>2. Reads(<<>>, AtLine(<<>>))
  BY ReadNothing DEF Reads, AtLine, Between, Unread
<1>3. TextRead
  BY <1>2, FilledNothing, ParseAtLine DEF TablesInit, TextRead
<1>4. HeaderWritten /\ ColumnsNamed
  BY DEF TablesInit, HeaderWritten, ColumnsNamed
<1>5. LinesRead
  <2>1. text = <<>> /\ table = <<>> /\ Len(text) = 0 /\ Len(table) = 0 /\ 1..0 = {}
    BY DEF TablesInit
  <2>2. Newlines(0) = {} /\ Cardinality({}) = 0
    BY <2>1, FS_EmptySet DEF Newlines
  <2> QED
    BY <2>1, <2>2 DEF LinesRead
<1>6. OfferedColumns /\ PointsKeepTheirRows
  BY DEF TablesInit, OfferedColumns, PointsKeepTheirRows
<1> QED
  BY <1>1, <1>3, <1>4, <1>5, <1>6 DEF TableInvariant

\* What writing a row does to the table and to its text.
LEMMA RowWritten ==
    ASSUME TableInvariant, NEW row \in RowsToWrite, NEW ending \in {<<>>, lineEnd}, WriteRow(row, ending)
    PROVE  /\ row \in Rows /\ IsAtLine /\ RowText(row) \in Seq(Characters)
           /\ table' \in Seq(Rows) /\ table' = Append(table, row) /\ lineEnd' = lineEnd
           /\ text' \in Seq(Characters) /\ text' # <<>> /\ text' = (text \o RowText(row)) \o ending
           /\ ending = <<>> => text' = text \o RowText(row) /\ ~IsAtLine'
           /\ ending = lineEnd => IsAtLine'
           /\ Len(text') = Len(text) + Len(RowText(row)) + Len(ending)
<1> DEFINE line == RowText(row)
<1>1. /\ row \in Rows /\ row \in Seq(Seq(Characters))
      /\ table \in Seq(Rows) /\ text \in Seq(Characters) /\ lineEnd \in LineEnds
  BY RowsToWriteTyped DEF TableInvariant, TableTyped, Rows
<1>2. line \in Seq(Characters) /\ (line # <<>> => line[Len(line)] # Newline)
  BY <1>1, RowTextType, RowTextEnds, SpecialCharacters
<1>3. /\ table' = Append(table, row) /\ lineEnd' = lineEnd /\ text' = (text \o line) \o ending
      /\ line \o ending # <<>> /\ (table # <<>> => Last(text) = Newline)
  <2>1. text \o RowText(row) \o ending = (text \o RowText(row)) \o ending
    OBVIOUS
  <2> QED
    BY <2>1 DEF WriteRow
<1>4. IsAtLine
  BY <1>3 DEF IsAtLine, TableInvariant, TableTyped, Last
<1>5. ending \in Seq(Characters)
  <2>1. <<>> \in Seq(Characters) /\ lineEnd \in Seq(Characters)
    BY <1>1, LineEndsTyped
  <2> QED
    BY <2>1
<1> HIDE DEF line
<1>6. table' \in Seq(Rows) /\ text' \in Seq(Characters) /\ Len(text') = Len(text) + Len(line) + Len(ending)
  BY <1>1, <1>2, <1>3, <1>5
<1>7. text' # <<>>
  <2>1. Len(line \o ending) # 0
    BY <1>2, <1>3, <1>5, EmptySeq
  <2>2. Len(text') # 0
    BY <1>1, <1>2, <1>3, <1>5, <2>1
  <2> QED
    BY <2>2
<1>8. ASSUME ending = <<>> PROVE text' = text \o line /\ ~IsAtLine'
  <2>1. text' = text \o line /\ line # <<>>
    BY <1>1, <1>2, <1>3, <1>8
  <2>2. Len(line) \in Nat \ {0}
    BY <1>2, <2>1, EmptySeq
  <2>3. text'[Len(text')] = line[Len(line)]
    BY <1>1, <1>2, <2>1, <2>2
  <2> QED
    BY <1>2, <1>7, <2>1, <2>3 DEF IsAtLine
<1>9. ASSUME ending = lineEnd PROVE IsAtLine'
  <2>1. Len(ending) \in 1..2 /\ ending[Len(ending)] = Newline
    BY <1>1, <1>9, LineEndsTyped
  <2> DEFINE before == text \o line
  <2>2. before \in Seq(Characters) /\ text' = before \o ending
    BY <1>1, <1>2, <1>3
  <2> HIDE DEF before
  <2>3. text'[Len(text')] = ending[Len(ending)]
    <3>1. ending # <<>>
      BY <2>1
    <3> QED
      BY <1>5, <2>2, <3>1, LastJoined
  <2> QED
    BY <2>1, <2>3 DEF IsAtLine
<1> QED
  BY <1>1, <1>2, <1>3, <1>4, <1>6, <1>7, <1>8, <1>9 DEF line

LEMMA TextReadStep ==
    ASSUME TableInvariant, NEW row \in RowsToWrite, NEW ending \in {<<>>, lineEnd}, WriteRow(row, ending)
    PROVE  TableTyped' /\ TextRead'
<1>1. /\ row \in Rows /\ IsAtLine
      /\ table' \in Seq(Rows) /\ table' = Append(table, row) /\ lineEnd' = lineEnd
      /\ text' \in Seq(Characters) /\ text' # <<>> /\ text' = (text \o RowText(row)) \o ending
      /\ ending = <<>> => text' = text \o RowText(row) /\ ~IsAtLine'
  BY RowWritten
<1>2. /\ table \in Seq(Rows) /\ text \in Seq(Characters) /\ lineEnd \in LineEnds
      /\ row \in Seq(Seq(Characters)) /\ row # <<>> /\ KeepsEnd(row[Len(row)])
      /\ Reads(text, AtLine(Filled(table)))
  BY <1>1 DEF TableInvariant, TableTyped, TextRead, Rows
<1>3. TableTyped'
  <2>1. table' # <<>>
    <3>1. table \in Seq(Rows) /\ row \in Rows
      BY <1>1, <1>2
    <3>2. Append(table, row) # <<>>
      BY <3>1, AppendProperties
    <3> QED
      BY <1>1, <3>2
  <2>2. CASE table = <<>>
    <3>1. row \in Headers /\ table'[1] = row
      BY <1>1, <2>2, RowsToWriteTyped
    <3> QED
      BY <1>1, <1>2, <2>1, <3>1 DEF TableTyped
  <2>3. CASE table # <<>>
    <3>1. table'[1] = table[1]
      BY <1>1, <1>2, <2>3, FirstStays
    <3> QED
      BY <1>1, <1>2, <2>1, <2>3, <3>1 DEF TableTyped, TableInvariant
  <2> QED
    BY <2>2, <2>3
<1>4. Filled(table') = WithRow(Filled(table), row)
  BY <1>1, <1>2, FilledAppend
<1>5. /\ ParseCsv(text \o RowText(row)) = WithRow(Filled(table), row)
      /\ \A some \in LineEnds : Reads((text \o RowText(row)) \o some, AtLine(WithRow(Filled(table), row)))
  BY <1>2, ReadLine
<1>6. CASE ending = <<>>
  BY <1>1, <1>3, <1>4, <1>5, <1>6 DEF TextRead
<1>7. CASE ending = lineEnd
  <2>1. Reads(text', AtLine(Filled(table')))
    BY <1>1, <1>2, <1>4, <1>5, <1>7
  <2>2. ParseCsv(text') = Filled(table')
    BY <2>1, ParseAtLine
  <2> QED
    BY <1>3, <2>1, <2>2 DEF TextRead
<1> QED
  BY <1>3, <1>6, <1>7

LEMMA HeaderWrittenStep ==
    ASSUME TableInvariant, NEW row \in RowsToWrite, NEW ending \in {<<>>, lineEnd}, WriteRow(row, ending)
    PROVE  HeaderWritten'
<1>1. /\ row \in Rows /\ IsAtLine /\ RowText(row) \in Seq(Characters)
      /\ table' \in Seq(Rows) /\ table' = Append(table, row) /\ lineEnd' = lineEnd
      /\ text' \in Seq(Characters) /\ text' # <<>> /\ text' = (text \o RowText(row)) \o ending
  BY RowWritten
<1>2. /\ table \in Seq(Rows) /\ text \in Seq(Characters) /\ lineEnd \in LineEnds /\ lineEnd \in Seq(Characters)
      /\ (table = <<>> <=> text = <<>>)
  BY LineEndsTyped DEF TableInvariant, TableTyped
<1>3. ending \in Seq(Characters)
  <2>1. <<>> \in Seq(Characters)
    OBVIOUS
  <2> QED
    BY <1>2, <2>1
<1>4. CASE table = <<>>
  <2> DEFINE line == RowText(row)
  <2>1. Len(table') = 1 /\ table'[1] = row /\ text = <<>>
    BY <1>1, <1>2, <1>4
  <2>2. text \o line = line
    BY <1>1, <2>1
  <2>3. CASE ending = <<>>
    <3>1. text' = RowText(table'[1])
      BY <1>1, <2>1, <2>2, <2>3
    <3> QED
      BY <2>1, <3>1 DEF HeaderWritten
  <2>4. CASE ending = lineEnd
    <3> DEFINE whole == line \o lineEnd
    <3>1. text' = whole /\ whole \in Seq(Characters)
      BY <1>1, <1>2, <2>2, <2>4
    <3>2. whole = RowText(table'[1]) \o lineEnd'
      BY <1>1, <2>1
    <3> HIDE DEF whole
    <3>3. text' = whole \o <<>> /\ <<>> \in Seq(Characters)
      BY <3>1
    <3> QED
      BY <3>2, <3>3 DEF HeaderWritten
  <2> QED
    BY <2>3, <2>4
<1>5. CASE table # <<>>
  <2>1. table'[1] = table[1] /\ table[1] \in Rows
    BY <1>1, <1>2, <1>5, FirstStays, SMTT(30)
  <2>2. RowText(table[1]) \in Seq(Characters)
    <3>1. table[1] \in Seq(Seq(Characters))
      BY <2>1 DEF Rows
    <3> QED
      BY <3>1, RowTextType, SpecialCharacters
  <2>3. text # RowText(table[1])
    <3>1. text # <<>> /\ text[Len(text)] = Newline /\ table[1] \in Seq(Seq(Characters))
      BY <1>1, <1>2, <1>5, <2>1 DEF IsAtLine, Rows
    <3> QED
      BY <3>1, RowTextEnds
  <2>4. PICK rest \in Seq(Characters) : text = (RowText(table[1]) \o lineEnd) \o rest
    BY <1>5, <2>3 DEF TableInvariant, HeaderWritten
  <2> DEFINE first == RowText(table[1]) \o lineEnd
             line == RowText(row)
             longer == (rest \o line) \o ending
  <2>5. first \in Seq(Characters) /\ line \in Seq(Characters) /\ longer \in Seq(Characters)
    BY <1>1, <1>2, <1>3, <2>2
  <2>6. text' = ((first \o rest) \o line) \o ending /\ first = RowText(table'[1]) \o lineEnd'
    BY <1>1, <2>1, <2>4
  <2> HIDE DEF first, line
  <2>7. ((first \o rest) \o line) \o ending = first \o longer
    <3> DEFINE middle == rest \o line
    <3>1. middle \in Seq(Characters)
      BY <2>5
    <3>2. (first \o rest) \o line = first \o middle
      BY <2>5, JoinedAgain, SMTT(30)
    <3> HIDE DEF middle
    <3>3. (first \o middle) \o ending = first \o (middle \o ending)
      <4>1. first \in Seq(Characters) /\ middle \in Seq(Characters) /\ ending \in Seq(Characters)
        BY <1>3, <2>5, <3>1
      <4> QED
        BY <4>1, JoinedAgain
    <3> QED
      BY <3>2, <3>3 DEF middle
  <2> HIDE DEF longer
  <2> QED
    BY <2>5, <2>6, <2>7 DEF HeaderWritten
<1> QED
  BY <1>4, <1>5

LEMMA LineAdded ==
    ASSUME NEW a \in Seq(Characters), NEW b \in Seq(Characters), NEW c \in Seq(Characters),
           \A n \in 1..Len(b) : b[n] # Newline, \A n \in 1..(Len(c) - 1) : c[n] # Newline
    PROVE  /\ \A n \in 1..Len(a) : ((a \o b) \o c)[n] = a[n]
           /\ \A n \in Len(a) + 1..Len((a \o b) \o c) - 1 : ((a \o b) \o c)[n] # Newline
<1> DEFINE ab == a \o b
           abc == ab \o c
<1>1. /\ ab \in Seq(Characters) /\ Len(ab) = Len(a) + Len(b) /\ Len(a) \in Nat /\ Len(b) \in Nat /\ Len(c) \in Nat
      /\ \A n \in 1..Len(a) : ab[n] = a[n]
      /\ \A n \in Len(a) + 1..Len(a) + Len(b) : ab[n] = b[n - Len(a)]
  OBVIOUS
<1> HIDE DEF ab
<1>2. /\ Len(abc) = Len(ab) + Len(c)
      /\ \A n \in 1..Len(ab) : abc[n] = ab[n]
      /\ \A n \in Len(ab) + 1..Len(ab) + Len(c) : abc[n] = c[n - Len(ab)]
  <2>1. ab \in Seq(Characters) /\ Len(ab) \in Nat /\ Len(c) \in Nat
    BY <1>1
  <2>2. Len(abc) = Len(ab) + Len(c)
    BY <2>1
  <2>3. \A n \in 1..Len(ab) : abc[n] = ab[n]
    BY <2>1
  <2>4. \A n \in Len(ab) + 1..Len(ab) + Len(c) : abc[n] = c[n - Len(ab)]
    BY <2>1
  <2> QED
    BY <2>2, <2>3, <2>4
<1> HIDE DEF abc
<1>3. \A n \in 1..Len(a) : abc[n] = a[n]
  BY <1>1, <1>2
<1>4. ASSUME NEW n \in Len(a) + 1..Len(abc) - 1 PROVE abc[n] # Newline
  <2>1. CASE n <= Len(ab)
    <3>1. n - Len(a) \in 1..Len(b) /\ n \in 1..Len(ab) /\ n \in Len(a) + 1..Len(a) + Len(b)
      BY <1>1, <2>1
    <3> QED
      BY <1>1, <1>2, <3>1
  <2>2. CASE ~(n <= Len(ab))
    <3>1. n - Len(ab) \in 1..(Len(c) - 1) /\ n \in Len(ab) + 1..Len(ab) + Len(c)
      BY <1>1, <1>2, <2>2
    <3> QED
      BY <1>2, <3>1
  <2> QED
    BY <2>1, <2>2
<1> QED
  BY <1>3, <1>4 DEF ab, abc

LEMMA FirstOnes ==
    ASSUME NEW S, NEW list \in Seq(S)
    PROVE  /\ SubSeq(list, 1, Len(list)) = list
           /\ \A k \in 0..Len(list) :
                /\ SubSeq(list, 1, k) \in Seq(S) /\ Len(SubSeq(list, 1, k)) = k
                /\ \A n \in 1..k : SubSeq(list, 1, k)[n] = list[n]
OBVIOUS

LEMMA LinesReadStep ==
    ASSUME TableInvariant, NEW row \in RowsToWrite, NEW ending \in {<<>>, lineEnd}, WriteRow(row, ending),
           TextRead'
    PROVE  LinesRead'
<1> DEFINE was(m) == {n \in 1..m : text[n] = Newline}
           now(m) == {n \in 1..m : text'[n] = Newline}
<1> SUFFICES ASSUME \A n \in DOMAIN table' : OneLine(table'[n])
             PROVE  /\ IsAtLine' => Cardinality(now(Len(text'))) = Len(table')
                    /\ \A m \in 1..Len(text') : text'[m] = Newline =>
                        /\ Cardinality(now(m)) <= Len(table')
                        /\ Reads(SubSeq(text', 1, m), AtLine(Filled(SubSeq(table', 1, Cardinality(now(m))))))
  BY DEF LinesRead, Newlines
<1>1. /\ row \in Rows /\ IsAtLine /\ RowText(row) \in Seq(Characters)
      /\ table' \in Seq(Rows) /\ table' = Append(table, row) /\ lineEnd' = lineEnd
      /\ text' \in Seq(Characters) /\ text' # <<>> /\ text' = (text \o RowText(row)) \o ending
      /\ ending = <<>> => ~IsAtLine'
      /\ ending = lineEnd => IsAtLine'
      /\ Len(text') = Len(text) + Len(RowText(row)) + Len(ending)
  BY RowWritten
<1>2. /\ table \in Seq(Rows) /\ text \in Seq(Characters) /\ lineEnd \in LineEnds /\ LinesRead
      /\ Len(table) \in Nat /\ Len(text) \in Nat
  BY DEF TableInvariant, TableTyped
<1>3. /\ Len(table') = Len(table) + 1 /\ table'[Len(table) + 1] = row
      /\ \A n \in 1..Len(table) : table'[n] = table[n]
  BY <1>1, <1>2
<1>4. (\A n \in DOMAIN table : OneLine(table[n])) /\ OneLine(row)
  <2>1. DOMAIN table = 1..Len(table) /\ DOMAIN table' = 1..Len(table')
    BY <1>1, <1>2
  <2>2. Len(table) + 1 \in DOMAIN table' /\ \A n \in 1..Len(table) : n \in DOMAIN table'
    BY <1>2, <1>3, <2>1
  <2> QED
    BY <1>3, <2>1, <2>2
<1>5. /\ IsAtLine => Cardinality(was(Len(text))) = Len(table)
      /\ \A m \in 1..Len(text) : text[m] = Newline =>
            /\ Cardinality(was(m)) <= Len(table)
            /\ Reads(SubSeq(text, 1, m), AtLine(Filled(SubSeq(table, 1, Cardinality(was(m))))))
  BY <1>2, <1>4 DEF LinesRead, Newlines
<1>6. /\ \A n \in 1..Len(text) : text'[n] = text[n]
      /\ \A n \in Len(text) + 1..Len(text') - 1 : text'[n] # Newline
  <2>1. \A n \in 1..Len(RowText(row)) : RowText(row)[n] # Newline
    BY <1>1, <1>4, RowTextOneLine DEF OneLine, Rows
  <2>2. ending \in Seq(Characters) /\ \A n \in 1..(Len(ending) - 1) : ending[n] # Newline
    <3>1. CASE ending = <<>>
      BY <3>1
    <3>2. CASE ending = lineEnd
      BY <1>2, <3>2, LineEndsTyped
    <3> QED
      BY <3>1, <3>2
  <2> DEFINE line == RowText(row)
  <2>3. line \in Seq(Characters) /\ text' = (text \o line) \o ending /\ \A n \in 1..Len(line) : line[n] # Newline
    BY <1>1, <2>1
  <2> HIDE DEF line
  <2> QED
    BY <1>2, <2>2, <2>3, LineAdded, ZenonT(40)
<1>7. Len(text) <= Len(text') /\ Len(text') \in Nat
  <2>1. Len(RowText(row)) \in Nat /\ Len(ending) \in Nat
    <3>1. CASE ending = <<>>
      BY <1>1, <3>1
    <3>2. CASE ending = lineEnd
      BY <1>1, <1>2, <3>2, LineEndsTyped
    <3> QED
      BY <3>1, <3>2
  <2> QED
    BY <1>1, <1>2, <2>1
<1>8. ASSUME NEW m \in 1..Len(text), text'[m] = Newline
      PROVE  /\ Cardinality(now(m)) <= Len(table')
             /\ Reads(SubSeq(text', 1, m), AtLine(Filled(SubSeq(table', 1, Cardinality(now(m))))))
  <2>1. text[m] = Newline
    BY <1>6, <1>8
  <2>2. now(m) = was(m)
    BY <1>2, <1>6
  <2>3. SubSeq(text', 1, m) = SubSeq(text, 1, m)
    <3>1. /\ SubSeq(text', 1, m) \in Seq(Characters) /\ SubSeq(text, 1, m) \in Seq(Characters)
          /\ Len(SubSeq(text', 1, m)) = m /\ Len(SubSeq(text, 1, m)) = m
          /\ \A n \in 1..m : SubSeq(text', 1, m)[n] = text'[n] /\ SubSeq(text, 1, m)[n] = text[n]
      BY <1>1, <1>2, <1>7, SMTT(30)
    <3>2. \A n \in 1..m : text'[n] = text[n]
      BY <1>2, <1>6
    <3> QED
      BY <3>1, <3>2, SeqEqual
  <2>4. IsFiniteSet(was(m)) /\ Cardinality(was(m)) \in Nat
    <3>1. IsFiniteSet(1..m)
      BY <1>2, FS_Interval
    <3> QED
      BY <3>1, FS_Subset, FS_CardinalityType
  <2> DEFINE k == Cardinality(was(m))
  <2>5. k \in 0..Len(table) /\ k <= Len(table') /\ Reads(SubSeq(text, 1, m), AtLine(Filled(SubSeq(table, 1, k))))
    BY <1>2, <1>3, <1>5, <2>1, <2>4
  <2> HIDE DEF k
  <2>6. SubSeq(table', 1, k) = SubSeq(table, 1, k)
    <3>1. /\ SubSeq(table', 1, k) \in Seq(Rows) /\ SubSeq(table, 1, k) \in Seq(Rows)
          /\ Len(SubSeq(table', 1, k)) = k /\ Len(SubSeq(table, 1, k)) = k
          /\ \A n \in 1..k : SubSeq(table', 1, k)[n] = table'[n] /\ SubSeq(table, 1, k)[n] = table[n]
      <4>1. k \in 0..Len(table) /\ k \in 0..Len(table')
        BY <1>2, <1>3, <2>5
      <4> QED
        BY <1>1, <1>2, <4>1, FirstOnes
    <3>2. \A n \in 1..k : table'[n] = table[n]
      BY <1>2, <1>3, <2>5
    <3> QED
      BY <3>1, <3>2, SeqEqual
  <2> QED
    BY <2>2, <2>3, <2>5, <2>6 DEF k
<1>9. ASSUME ending = lineEnd
      PROVE  /\ Cardinality(now(Len(text'))) = Len(table')
             /\ Reads(SubSeq(text', 1, Len(text')), AtLine(Filled(SubSeq(table', 1, Len(table')))))
  <2> DEFINE last == Len(text')
  <2>1. IsAtLine' /\ text'[last] = Newline /\ last \in Nat /\ Len(text) < last
    <3>1. Len(ending) \in 1..2 /\ Len(RowText(row)) \in Nat
      BY <1>1, <1>2, <1>9, LineEndsTyped
    <3> QED
      BY <1>1, <1>2, <1>9, <3>1, SMTT(30) DEF IsAtLine
  <2>2. now(last) = was(Len(text)) \union {last} /\ last \notin was(Len(text))
    <3>1. \A n \in 1..last : n \in 1..Len(text) \/ n \in Len(text) + 1..last - 1 \/ n = last
      BY <1>2, <2>1
    <3>2. \A n \in 1..Len(text) : n \in 1..last
      BY <1>2, <2>1
    <3> QED
      BY <1>2, <1>6, <2>1, <3>1, <3>2
  <2>3. Cardinality(now(last)) = Len(table')
    <3> DEFINE before == was(Len(text))
    <3>1. IsFiniteSet(before)
      <4>1. IsFiniteSet(1..Len(text)) /\ before \subseteq 1..Len(text)
        BY <1>2, FS_Interval
      <4> QED
        BY <4>1, FS_Subset
    <3>2. Cardinality(before) = Len(table)
      BY <1>1, <1>5
    <3>3. now(last) = before \union {last} /\ last \notin before
      BY <2>2
    <3> HIDE DEF before
    <3>4. Cardinality(before \union {last}) = Len(table) + 1
      BY <3>1, <3>2, <3>3, FS_AddElement
    <3> QED
      BY <1>3, <3>3, <3>4
  <2>4. SubSeq(text', 1, last) = text' /\ SubSeq(table', 1, Len(table')) = table'
    <3>1. text' \in Seq(Characters) /\ table' \in Seq(Rows)
      BY <1>1
    <3> QED
      BY <3>1, FirstOnes
  <2>5. Reads(text', AtLine(Filled(table')))
    BY <2>1 DEF TextRead
  <2> QED
    BY <2>3, <2>4, <2>5
<1>10. ASSUME NEW m \in 1..Len(text'), text'[m] = Newline
       PROVE  m \in 1..Len(text) \/ (ending = lineEnd /\ m = Len(text'))
  <2>1. m \in 1..Len(text) \/ m \in Len(text) + 1..Len(text') - 1 \/ m = Len(text')
    BY <1>2, <1>7
  <2>2. ending = <<>> => text'[Len(text')] # Newline
    BY <1>1 DEF IsAtLine
  <2> QED
    BY <1>6, <1>10, <2>1, <2>2
<1>11. Len(table') <= Len(table')
  BY <1>2, <1>3
<1> HIDE DEF now, was
<1> QED
  BY <1>1, <1>8, <1>9, <1>10, <1>11

LEMMA GreatestOf ==
    ASSUME NEW bound \in Nat, NEW S \in SUBSET (0..bound), S # {}
    PROVE  Max(S) \in S /\ \A n \in S : n <= Max(S)
<1> DEFINE below == {bound - n : n \in S}
<1>1. below \in SUBSET Nat /\ below # {}
  <2>1. \A n \in S : bound - n \in Nat
    OBVIOUS
  <2>2. PICK n \in S : TRUE
    OBVIOUS
  <2>3. bound - n \in below
    OBVIOUS
  <2> QED
    BY <2>1, <2>3
<1>2. Min(below) \in below /\ \A n \in below : Min(below) <= n
  BY <1>1, LeastOf
<1>3. PICK k \in S : Min(below) = bound - k
  BY <1>2
<1>4. ASSUME NEW n \in S PROVE n <= k
  <2>1. bound - k <= bound - n
    BY <1>2, <1>3
  <2> QED
    BY <2>1
<1>5. \E x1 \in S : \A y1 \in S : x1 >= y1
  BY <1>3, <1>4
<1>6. Max(S) \in S /\ \A y1 \in S : Max(S) >= y1
  BY <1>5 DEF Max
<1> QED
  BY <1>6

\* The first row has a text, and is read from it.
LEMMA HeaderText ==
    ASSUME TableInvariant, table # <<>>
    PROVE  /\ table[1] \in Seq(Seq(Characters)) /\ IsFilled(table[1])
           /\ RowText(table[1]) \in Seq(Characters) /\ RowText(table[1]) # <<>>
           /\ Len(RowText(table[1])) + 2 <= SampleBytes
           /\ ParseCsv(RowText(table[1])) = <<table[1]>>
           /\ RowText(table[1]) \o lineEnd \in Seq(Characters)
           /\ Reads(RowText(table[1]) \o lineEnd, AtLine(<<table[1]>>))
<1> DEFINE header == table[1]
           line == RowText(header)
<1>1. header \in Headers /\ header \in Rows /\ lineEnd \in LineEnds /\ lineEnd \in Seq(Characters)
  <2>1. table \in Seq(Rows) /\ header \in Headers /\ lineEnd \in LineEnds
    BY DEF TableInvariant, TableTyped
  <2>2. header \in Rows
    <3>1. Len(table) \in Nat \ {0}
      BY <2>1, EmptySeq
    <3> QED
      BY <2>1, <3>1
  <2> QED
    BY <2>1, <2>2, LineEndsTyped
<1>2. /\ header \in Seq(Seq(Characters)) /\ header # <<>> /\ KeepsEnd(header[Len(header)])
      /\ IsFilled(header) /\ Len(RowText(header)) + 2 <= SampleBytes
  BY <1>1, TableAssumption DEF Rows
<1>3. line \in Seq(Characters)
  BY <1>2, RowTextType, SpecialCharacters
<1>4. Reads(<<>>, AtLine(<<>>)) /\ <<>> \in Seq(Characters)
  BY ReadNothing DEF Reads, AtLine, Between, Unread
<1>5. /\ ParseCsv(<<>> \o RowText(header)) = WithRow(<<>>, header)
      /\ \A ending \in LineEnds : Reads((<<>> \o RowText(header)) \o ending, AtLine(WithRow(<<>>, header)))
  <2> HIDE DEF header
  <2> QED
    BY <1>2, <1>4, ReadLine
<1>6. WithRow(<<>>, header) = <<header>>
  BY <1>2 DEF WithRow
<1>7. <<>> \o line = line
  BY <1>3
<1>8. ParseCsv(line) = <<header>> /\ Reads(line \o lineEnd, AtLine(<<header>>))
  BY <1>1, <1>5, <1>6, <1>7
<1>9. line # <<>>
  <2>1. ParseCsv(<<>>) = <<>>
    BY <1>4, ParseAtLine
  <2> QED
    BY <1>8, <2>1
<1>10. line \o lineEnd \in Seq(Characters)
  BY <1>1, <1>3
<1> QED
  BY <1>2, <1>3, <1>8, <1>9, <1>10

\* The first row of the whole text.
LEMMA TextFirst ==
    ASSUME TableInvariant, table # <<>>
    PROVE  ParseCsv(text) # <<>> /\ ParseCsv(text)[1] = table[1]
<1>1. CASE text = RowText(table[1])
  <2>1. ParseCsv(text) = <<table[1]>>
    BY <1>1, HeaderText
  <2> QED
    BY <2>1
<1>2. CASE \E rest \in Seq(Characters) : text = (RowText(table[1]) \o lineEnd) \o rest
  <2> DEFINE first == RowText(table[1]) \o lineEnd
  <2>1. first \in Seq(Characters) /\ Reads(first, AtLine(<<table[1]>>))
    BY HeaderText
  <2>2. PICK rest \in Seq(Characters) : text = first \o rest
    BY <1>2
  <2> HIDE DEF first
  <2> QED
    BY <2>1, <2>2, FirstRowStays
<1> QED
  BY <1>1, <1>2 DEF TableInvariant, HeaderWritten

\* A head that is cut ends with its last line end, at the end of the first row or after it.
LEMMA HeadCut ==
    ASSUME TableInvariant, table # <<>>, Len(text) > SampleBytes
    PROVE  \E m \in 1..SampleBytes :
            /\ ReadCsvHead(text) = SubSeq(text, 1, m) /\ text[m] = Newline
            /\ \A n \in 1..SampleBytes : text[n] = Newline => n <= m
            /\ ParseCsv(SubSeq(text, 1, m)) # <<>> /\ ParseCsv(SubSeq(text, 1, m))[1] = table[1]
<1> DEFINE line == RowText(table[1])
           first == line \o lineEnd
           head == SubSeq(text, 1, SampleBytes)
           newlines == {n \in DOMAIN head : head[n] = Newline /\ n > 1}
<1>1. /\ line \in Seq(Characters) /\ line # <<>> /\ Len(line) + 2 <= SampleBytes
      /\ first \in Seq(Characters) /\ Reads(first, AtLine(<<table[1]>>))
  BY HeaderText
<1>2. /\ SampleBytes \in Nat /\ text \in Seq(Characters) /\ Len(text) \in Nat
      /\ lineEnd \in Seq(Characters) /\ Len(lineEnd) \in 1..2 /\ lineEnd[Len(lineEnd)] = Newline
  BY TableAssumption, LineEndsTyped DEF TableInvariant, TableTyped
<1>3. PICK rest \in Seq(Characters) : text = first \o rest
  <2>1. text # line
    BY <1>1, <1>2
  <2> QED
    BY <2>1 DEF TableInvariant, HeaderWritten
<1> DEFINE p == Len(first)
<1>4. p \in 2..SampleBytes /\ first[p] = Newline
  <2>1. Len(line) \in Nat \ {0} /\ p = Len(line) + Len(lineEnd)
    BY <1>1, <1>2, EmptySeq
  <2>2. lineEnd # <<>>
    BY LineEndsTyped DEF TableInvariant, TableTyped
  <2>3. first[p] = Newline
    BY <1>1, <1>2, <2>2, LastJoined
  <2> HIDE DEF p
  <2>4. p \in 2..SampleBytes
    <3> DEFINE a == Len(line)
               b == Len(lineEnd)
    <3>1. a \in Nat \ {0} /\ b \in 1..2 /\ a + 2 <= SampleBytes /\ SampleBytes \in Nat /\ p = a + b
      BY <1>1, <1>2, <2>1
    <3> HIDE DEF a, b
    <3> QED
      BY <3>1
  <2> QED
    BY <2>3, <2>4
<1> HIDE DEF line
<1>5. /\ head \in Seq(Characters) /\ Len(head) = SampleBytes /\ DOMAIN head = 1..SampleBytes
      /\ \A n \in 1..SampleBytes : head[n] = text[n]
  <2>1. SampleBytes \in 0..Len(text)
    BY <1>2
  <2> QED
    BY <1>2, <2>1, FirstOnes
<1>6. text[p] = Newline
  <2> HIDE DEF first
  <2> QED
    BY <1>1, <1>3, <1>4
<1>7. newlines \in SUBSET (0..SampleBytes) /\ p \in newlines
  BY <1>2, <1>4, <1>5, <1>6
<1> DEFINE m == Max(newlines)
<1> HIDE DEF first, head
<1>8. m \in newlines /\ \A n \in newlines : n <= m
  BY <1>2, <1>7, GreatestOf
<1>9. m \in 1..SampleBytes /\ text[m] = Newline /\ p <= m
  BY <1>2, <1>5, <1>7, <1>8
<1>10. ReadCsvHead(text) = SubSeq(head, 1, m)
  <2>1. ~(Len(text) <= SampleBytes) /\ newlines # {}
    BY <1>2, <1>7
  <2> QED
    BY <2>1 DEF ReadCsvHead, head
<1> HIDE DEF newlines, m
<1>11. SubSeq(head, 1, m) = SubSeq(text, 1, m)
  <2>1. m \in 0..Len(head) /\ m \in 0..Len(text)
    BY <1>2, <1>5, <1>9
  <2>2. /\ SubSeq(head, 1, m) \in Seq(Characters) /\ Len(SubSeq(head, 1, m)) = m
        /\ \A n \in 1..m : SubSeq(head, 1, m)[n] = head[n]
    BY <1>5, <2>1, FirstOnes
  <2>3. /\ SubSeq(text, 1, m) \in Seq(Characters) /\ Len(SubSeq(text, 1, m)) = m
        /\ \A n \in 1..m : SubSeq(text, 1, m)[n] = text[n]
    BY <1>2, <2>1, FirstOnes
  <2>4. \A n \in 1..m : head[n] = text[n]
    BY <1>2, <1>5, <1>9
  <2> QED
    BY <2>2, <2>3, <2>4, SeqEqual
<1>12. ASSUME NEW n \in 1..SampleBytes, text[n] = Newline PROVE n <= m
  <2>1. CASE n > 1
    BY <1>5, <1>8, <1>12, <2>1 DEF newlines
  <2>2. CASE n = 1
    BY <1>9, <2>2
  <2> QED
    BY <1>2, <2>1, <2>2
<1>13. \E tail \in Seq(Characters) : SubSeq(text, 1, m) = first \o tail
  <2> DEFINE tail == SubSeq(rest, 1, m - p)
  <2>1. m - p \in 0..Len(rest) /\ p \in Nat /\ m <= Len(text) /\ Len(text) = p + Len(rest) /\ m \in Nat /\ m - p \in Nat
    BY <1>1, <1>2, <1>3, <1>4, <1>9
  <2>2. tail \in Seq(Characters) /\ Len(tail) = m - p /\ \A n \in 1..(m - p) : tail[n] = rest[n]
    BY <2>1, FirstOnes
  <2> HIDE DEF tail
  <2>3. /\ first \o tail \in Seq(Characters) /\ Len(first \o tail) = m
        /\ \A n \in 1..p : (first \o tail)[n] = first[n]
        /\ \A n \in p + 1..m : (first \o tail)[n] = tail[n - p]
    BY <1>1, <2>1, <2>2
  <2>4. /\ \A n \in 1..p : text[n] = first[n]
        /\ \A n \in p + 1..Len(text) : text[n] = rest[n - p]
    BY <1>1, <1>3, <2>1
  <2>5. /\ SubSeq(text, 1, m) \in Seq(Characters) /\ Len(SubSeq(text, 1, m)) = m
        /\ \A n \in 1..m : SubSeq(text, 1, m)[n] = text[n]
    <3>1. m \in 0..Len(text)
      BY <1>2, <2>1
    <3> QED
      BY <1>2, <3>1, FirstOnes
  <2>6. ASSUME NEW n \in 1..m PROVE SubSeq(text, 1, m)[n] = (first \o tail)[n]
    <3>1. CASE n <= p
      <4>1. n \in 1..p
        BY <2>1, <3>1
      <4> QED
        BY <2>3, <2>4, <2>5, <4>1
    <3>2. CASE ~(n <= p)
      <4>1. n \in p + 1..m /\ n \in p + 1..Len(text) /\ n - p \in 1..(m - p)
        BY <1>2, <2>1, <3>2
      <4> QED
        BY <2>2, <2>3, <2>4, <2>5, <4>1
    <3> QED
      BY <3>1, <3>2
  <2> HIDE DEF p
  <2>7. SubSeq(text, 1, m) = first \o tail
    BY <2>3, <2>5, <2>6, SeqEqual
  <2> QED
    BY <2>2, <2>7
<1>14. ParseCsv(SubSeq(text, 1, m)) # <<>> /\ ParseCsv(SubSeq(text, 1, m))[1] = table[1]
  <2>1. PICK tail \in Seq(Characters) : SubSeq(text, 1, m) = first \o tail
    BY <1>13
  <2>2. ParseCsv(first \o tail) # <<>> /\ ParseCsv(first \o tail)[1] = table[1]
    BY <1>1, FirstRowStays
  <2> QED
    BY <2>1, <2>2
<1> QED
  BY <1>9, <1>10, <1>11, <1>12, <1>14

LEMMA HeadFirst ==
    ASSUME TableInvariant, table # <<>>
    PROVE  ParseCsv(ReadCsvHead(text)) # <<>> /\ ParseCsv(ReadCsvHead(text))[1] = table[1]
<1>1. Len(text) \in Nat /\ SampleBytes \in Nat
  BY TableAssumption DEF TableInvariant, TableTyped
<1>2. CASE Len(text) <= SampleBytes
  <2>1. ReadCsvHead(text) = text
    BY <1>1, <1>2 DEF ReadCsvHead
  <2> QED
    BY <2>1, TextFirst
<1>3. CASE Len(text) > SampleBytes
  BY <1>3, HeadCut
<1> QED
  BY <1>1, <1>2, <1>3

LEMMA TableAsWas ==
    ASSUME TableInvariant, UNCHANGED <<table, text, lineEnd>>
    PROVE  TableTyped' /\ TextRead' /\ HeaderWritten' /\ LinesRead'
<1>1. table' = table /\ text' = text /\ lineEnd' = lineEnd
  OBVIOUS
<1>2. TableTyped' /\ TextRead'
  BY <1>1 DEF TableInvariant, TableTyped, TextRead, IsAtLine
<1>3. HeaderWritten'
  BY <1>1 DEF TableInvariant, HeaderWritten
<1>4. LinesRead'
  BY <1>1 DEF TableInvariant, LinesRead, IsAtLine, Newlines
<1> QED
  BY <1>2, <1>3, <1>4

\* The rows that are read of the head are the complete rows of the table.
LEMMA HeadRead ==
    ASSUME TableInvariant, table # <<>>, \A n \in DOMAIN table : OneLine(table[n])
    PROVE  ParseCsv(ReadCsvHead(text)) =
            Filled(SubSeq(table, 1,
                IF Len(text) <= SampleBytes THEN Len(table)
                ELSE Cardinality({n \in DOMAIN text :
                        text[n] = Newline /\ (n <= SampleBytes \/ Len(text) <= SampleBytes)})))
<1> DEFINE ends == {n \in DOMAIN text : text[n] = Newline /\ (n <= SampleBytes \/ Len(text) <= SampleBytes)}
<1>1. /\ Len(text) \in Nat /\ SampleBytes \in Nat /\ table \in Seq(Rows) /\ text \in Seq(Characters)
      /\ DOMAIN text = 1..Len(text)
  BY TableAssumption DEF TableInvariant, TableTyped
<1>2. CASE Len(text) <= SampleBytes
  <2>1. ReadCsvHead(text) = text
    BY <1>1, <1>2 DEF ReadCsvHead
  <2>2. SubSeq(table, 1, Len(table)) = table
    BY <1>1, FirstOnes
  <2>3. ParseCsv(text) = Filled(table)
    BY DEF TableInvariant, TextRead
  <2> QED
    BY <1>2, <2>1, <2>2, <2>3
<1>3. CASE ~(Len(text) <= SampleBytes)
  <2>1. Len(text) > SampleBytes
    BY <1>1, <1>3
  <2>2. PICK m \in 1..SampleBytes :
            /\ ReadCsvHead(text) = SubSeq(text, 1, m) /\ text[m] = Newline
            /\ \A n \in 1..SampleBytes : text[n] = Newline => n <= m
    BY <2>1, HeadCut
  <2>3. m \in 1..Len(text)
    BY <1>1, <2>1
  <2>4. Reads(SubSeq(text, 1, m), AtLine(Filled(SubSeq(table, 1, Cardinality(Newlines(m))))))
    BY <2>2, <2>3 DEF TableInvariant, LinesRead
  <2>5. ParseCsv(SubSeq(text, 1, m)) = Filled(SubSeq(table, 1, Cardinality(Newlines(m))))
    BY <2>4, ParseAtLine
  <2>6. ends = Newlines(m)
    <3>1. ASSUME NEW n \in ends PROVE n \in Newlines(m)
      <4>1. n \in 1..SampleBytes /\ text[n] = Newline
        BY <1>1, <1>3
      <4>2. n \in 1..m
        BY <1>1, <2>2, <4>1
      <4> QED
        BY <4>1, <4>2 DEF Newlines
    <3>2. ASSUME NEW n \in Newlines(m) PROVE n \in ends
      <4>1. n \in 1..m /\ text[n] = Newline
        BY DEF Newlines
      <4>2. n \in DOMAIN text /\ n <= SampleBytes
        BY <1>1, <2>1, <2>3, <4>1
      <4> QED
        BY <4>1, <4>2
    <3> QED
      BY <3>1, <3>2
  <2> HIDE DEF ends
  <2>7. ParseCsv(ReadCsvHead(text)) = Filled(SubSeq(table, 1, Cardinality(ends)))
    BY <2>2, <2>5, <2>6
  <2> QED
    BY <1>3, <2>7 DEF ends
<1> QED
  BY <1>2, <1>3

LEMMA TableOpened ==
    ASSUME TableInvariant, OpenTable
    PROVE  ColumnsNamed' /\ OfferedColumns'
<1> DEFINE rows == ParseCsv(ReadCsvHead(text))
           header == HeaderOf(rows)
<1>1. /\ table' = table /\ text' = text /\ table # <<>> /\ columns' = CsvColumnInfo(ReadCsvHead(text))
  BY DEF OpenTable
<1>2. header = HeaderOf(table)
  <2>1. rows[1] = table[1]
    BY <1>1, HeadFirst
  <2> HIDE DEF rows
  <2> QED
    BY <2>1 DEF HeaderOf
<1>3. columns' = [column \in DOMAIN header |-> [name |-> header[column], numeric |-> IsNumericColumn(rows, column)]]
  BY <1>1 DEF CsvColumnInfo
<1> HIDE DEF rows
<1>4. [n \in DOMAIN columns' |-> columns'[n].name] = HeaderOf(table)
  <2>1. header = [n \in DOMAIN header |-> header[n]]
    BY DEF HeaderOf
  <2>2. DOMAIN columns' = DOMAIN header /\ \A n \in DOMAIN header : columns'[n].name = header[n]
    BY <1>3
  <2> HIDE DEF header
  <2>3. [n \in DOMAIN columns' |-> columns'[n].name] = [n \in DOMAIN header |-> header[n]]
    BY <2>2
  <2> QED
    BY <1>2, <2>1, <2>3
<1>5. \A n \in DOMAIN columns' : columns'[n].numeric = IsNumericColumn(rows, n)
  BY <1>3
<1>6. ColumnsNamed'
  BY <1>1, <1>4 DEF ColumnsNamed
<1>7. OfferedColumns'
  <2> SUFFICES ASSUME \A n \in DOMAIN table : \A k \in DOMAIN table[n] : Newline \notin Range(table[n][k])
               PROVE  \A n \in DOMAIN columns' : columns'[n].numeric <=>
                        IsNumericColumn(Filled(SubSeq(table, 1,
                            IF Len(text) <= SampleBytes THEN Len(table)
                            ELSE Cardinality({k \in DOMAIN text :
                                    text[k] = Newline /\ (k <= SampleBytes \/ Len(text) <= SampleBytes)}))), n)
    BY <1>1, <1>4 DEF OfferedColumns
  <2>1. \A n \in DOMAIN table : OneLine(table[n])
    BY DEF OneLine
  <2> QED
    BY <1>1, <1>5, <2>1, HeadRead DEF rows
<1> QED
  BY <1>6, <1>7

\* What is answered for columns of the table keeps its rows.
LEMMA AnswerKeepsRows ==
    ASSUME NEW chars, ParseCsv(chars) \in Seq(Rows), ParseCsv(chars) # <<>>,
           NEW shown, shown.limit \in Nat, shown.answer = CsvToPointData(chars, shown.names, shown.limit),
           \A axis \in DOMAIN shown.names :
                \E column \in DOMAIN HeaderOf(ParseCsv(chars)) :
                    HeaderOf(ParseCsv(chars))[column] = shown.names[axis]
    PROVE  KeepsRows(ParseCsv(chars), shown)
<1> DEFINE written == ParseCsv(chars)
           header == HeaderOf(written)
           indexes == [axis \in DOMAIN shown.names |-> IndexOf(header, shown.names[axis])]
           accepted == AcceptedRows(written, indexes)
           arrays == PointArrays(header, accepted)
           answer == shown.answer
           points == [n \in DOMAIN accepted |-> [axis \in DOMAIN indexes |-> NumberAt(accepted[n], indexes[axis])]]
           drawing == [error |-> "none", arrays |-> arrays, skipped |-> Len(Tail(written)) - Len(accepted),
                       invalid |-> InvalidCells(arrays, accepted), points |-> points]
<1>1. DOMAIN header \in SUBSET Nat /\ 0 \notin DOMAIN header
  <2>1. written[1] \in Rows
    <3>1. Len(written) \in Nat \ {0}
      BY EmptySeq
    <3> QED
      BY <3>1
  <2>2. DOMAIN header = 1..Len(written[1]) /\ Len(written[1]) \in Nat
    BY <2>1 DEF HeaderOf, Rows
  <2> HIDE DEF header
  <2> QED
    BY <2>2
<1>2. ASSUME NEW axis \in DOMAIN shown.names PROVE IndexOf(header, shown.names[axis]) # 0
  <2> DEFINE named == {column \in DOMAIN header : header[column] = shown.names[axis]}
  <2>1. named # {} /\ named \in SUBSET Nat /\ 0 \notin named
    BY <1>1
  <2>2. IndexOf(header, shown.names[axis]) = Min(named)
    BY <2>1 DEF IndexOf
  <2> HIDE DEF named
  <2>3. Min(named) \in named
    BY <2>1, LeastOf
  <2> QED
    BY <2>1, <2>2, <2>3
<1>3. 0 \notin Range(indexes)
  BY <1>2 DEF Range
<1>4. answer = IF Len(accepted) > shown.limit THEN NotDrawn("too many")
               ELSE IF accepted = <<>> THEN NotDrawn("no points") ELSE drawing
  <2> DEFINE unnamed == 0 \in Range(indexes)
             outcome == IF Len(accepted) > shown.limit THEN NotDrawn("too many")
                        ELSE IF accepted = <<>> THEN NotDrawn("no points") ELSE drawing
  <2>1. CsvToPointData(chars, shown.names, shown.limit) =
            CASE written = <<>> -> NotDrawn("empty")
              [] written # <<>> /\ unnamed -> NotDrawn("not found")
              [] OTHER -> outcome
    BY DEF CsvToPointData
  <2>2. written # <<>> /\ ~unnamed
    BY <1>3
  <2> HIDE DEF outcome, unnamed, written
  <2>3. CsvToPointData(chars, shown.names, shown.limit) = outcome
    BY <2>1, <2>2
  <2> QED
    BY <2>3 DEF outcome
<1> HIDE DEF points, arrays, accepted
<1>5. answer.error = IF accepted = <<>> THEN "no points"
                     ELSE IF Len(accepted) > shown.limit THEN "too many" ELSE "none"
  <2> HIDE DEF answer
  <2>1. CASE accepted = <<>>
    <3>1. ~(Len(accepted) > shown.limit)
      BY <2>1
    <3> QED
      BY <1>4, <2>1, <3>1 DEF NotDrawn
  <2>2. CASE accepted # <<>>
    BY <1>4, <2>2 DEF NotDrawn
  <2> QED
    BY <2>1, <2>2
<1>6. ASSUME answer.error = "none"
      PROVE  answer.points = points /\ answer.skipped = Len(written) - 1 - Len(accepted) /\ answer.arrays = arrays
  <2> HIDE DEF answer
  <2>1. answer = drawing
    BY <1>4, <1>6 DEF NotDrawn
  <2>2. Len(Tail(written)) = Len(written) - 1
    OBVIOUS
  <2> QED
    BY <2>1, <2>2
<1>7. ASSUME NEW column \in DOMAIN header
      PROVE  LET values == [n \in DOMAIN accepted |-> NumberAt(accepted[n], column)] IN
             IF header[column] # <<>> /\ \E n \in DOMAIN accepted : values[n] # NaN
             THEN arrays[column] = [name |-> header[column], values |-> values]
             ELSE column \notin DOMAIN arrays
  BY DEF arrays, PointArrays
<1>8. ASSUME answer.error = "none", NEW column \in DOMAIN header
      PROVE  LET values == [n \in DOMAIN accepted |-> NumberAt(accepted[n], column)] IN
             IF header[column] # <<>> /\ \E n \in DOMAIN accepted : values[n] # NaN
             THEN answer.arrays[column] = [name |-> header[column], values |-> values]
             ELSE column \notin DOMAIN answer.arrays
  BY <1>6, <1>7, <1>8
<1> QED
  BY <1>5, <1>6, <1>8 DEF KeepsRows, points, accepted

LEMMA TableDrawn ==
    ASSUME TableInvariant, NEW x \in DOMAIN columns, NEW y \in DOMAIN columns, NEW z \in DOMAIN columns,
           NEW limit \in TableLimits, DrawTable(<<columns[x].name, columns[y].name, columns[z].name>>, limit)
    PROVE  PointsKeepTheirRows'
<1> DEFINE names == <<columns[x].name, columns[y].name, columns[z].name>>
           written == Filled(table)
           header == HeaderOf(written)
<1>1. columns # <<>> /\ table # <<>>
  <2>1. columns # <<>>
    <3>1. DOMAIN <<>> = {}
      OBVIOUS
    <3> QED
      BY <3>1
  <2> QED
    BY <2>1 DEF TableInvariant, ColumnsNamed
<1>2. ParseCsv(text) = written /\ written # <<>> /\ written[1] = table[1]
  BY <1>1, TextFirst DEF TableInvariant, TextRead
<1>3. written \in Seq(Rows) /\ limit \in Nat
  <2>1. table \in Seq(Rows) /\ limit \in Nat
    BY TableAssumption DEF TableInvariant, TableTyped
  <2>2. written \in Seq(Rows)
    <3>1. Len(table) \in Nat /\ Len(table) \in 0..Len(table)
      BY <2>1
    <3>2. PICK f \in [0..Len(table) -> Seq(Rows)] : Filled(table) = f[Len(table)]
      BY <2>1, FilledSteps
    <3> QED
      BY <3>1, <3>2
  <2> QED
    BY <2>1, <2>2
<1> HIDE DEF written
<1>4. header = HeaderOf(table)
  BY <1>2 DEF HeaderOf
<1>5. \A axis \in DOMAIN names : \E column \in DOMAIN header : header[column] = names[axis]
  <2>1. [k \in DOMAIN columns |-> columns[k].name] = HeaderOf(table)
    BY <1>1 DEF TableInvariant, ColumnsNamed
  <2>2. \A k \in DOMAIN columns : k \in DOMAIN header /\ header[k] = columns[k].name
    <3>1. header = [k \in DOMAIN columns |-> columns[k].name]
      BY <1>4, <2>1
    <3> HIDE DEF header
    <3> QED
      BY <3>1
  <2>3. names[1] = columns[x].name /\ names[2] = columns[y].name /\ names[3] = columns[z].name /\ DOMAIN names = 1..3
    OBVIOUS
  <2> HIDE DEF header, names
  <2>4. \A axis \in DOMAIN names : axis = 1 \/ axis = 2 \/ axis = 3
    BY <2>3
  <2> QED
    BY <2>2, <2>3, <2>4
<1>6. /\ table' = table
      /\ drawn' = [names |-> names, limit |-> limit, answer |-> CsvToPointData(text, names, limit)]
  BY DEF DrawTable
<1> HIDE DEF names, header
<1>7. drawn'.names = names /\ drawn'.limit = limit /\ drawn'.answer = CsvToPointData(text, names, limit)
  BY <1>6
<1>8. KeepsRows(written, drawn')
  <2>1. ParseCsv(text) \in Seq(Rows) /\ ParseCsv(text) # <<>>
    BY <1>2, <1>3
  <2>2. \A axis \in DOMAIN drawn'.names :
            \E column \in DOMAIN HeaderOf(ParseCsv(text)) : HeaderOf(ParseCsv(text))[column] = drawn'.names[axis]
    BY <1>2, <1>5, <1>7 DEF header
  <2>3. KeepsRows(ParseCsv(text), drawn')
    BY <1>3, <1>7, <2>1, <2>2, AnswerKeepsRows
  <2> QED
    BY <1>2, <2>3
<1> QED
  BY <1>6, <1>8 DEF PointsKeepTheirRows, written

LEMMA TableStep ==
    ASSUME TableInvariant, [TablesNext]_tableVars
    PROVE  TableInvariant'
<1>1. CASE \E row \in RowsToWrite, ending \in {<<>>, lineEnd} : WriteRow(row, ending)
  <2>1. PICK row \in RowsToWrite, ending \in {<<>>, lineEnd} : WriteRow(row, ending)
    BY <1>1
  <2>2. TableTyped' /\ TextRead' /\ HeaderWritten' /\ LinesRead'
    BY <2>1, TextReadStep, HeaderWrittenStep, LinesReadStep
  <2>3. columns' = <<>> /\ drawn' = NothingDrawn
    BY <2>1 DEF WriteRow
  <2>4. ColumnsNamed' /\ OfferedColumns' /\ PointsKeepTheirRows'
    BY <2>3 DEF ColumnsNamed, OfferedColumns, PointsKeepTheirRows, NothingDrawn
  <2> QED
    BY <2>2, <2>4 DEF TableInvariant
<1>2. CASE OpenTable
  <2>1. TableTyped' /\ TextRead' /\ HeaderWritten' /\ LinesRead'
    BY <1>2, TableAsWas DEF OpenTable
  <2>2. ColumnsNamed' /\ OfferedColumns'
    BY <1>2, TableOpened
  <2>3. PointsKeepTheirRows'
    BY <1>2 DEF OpenTable, TableInvariant, PointsKeepTheirRows
  <2> QED
    BY <2>1, <2>2, <2>3 DEF TableInvariant
<1>3. CASE \E names \in Coordinates, limit \in TableLimits : DrawTable(names, limit)
  <2>1. PICK x \in DOMAIN columns, y \in DOMAIN columns, z \in DOMAIN columns, limit \in TableLimits :
            DrawTable(<<columns[x].name, columns[y].name, columns[z].name>>, limit)
    <3>1. PICK names \in Coordinates, limit \in TableLimits : DrawTable(names, limit)
      BY <1>3
    <3>2. PICK x \in DOMAIN columns, y \in DOMAIN columns, z \in DOMAIN columns :
            names = <<columns[x].name, columns[y].name, columns[z].name>>
      BY <3>1 DEF Coordinates
    <3> QED
      BY <3>1, <3>2
  <2>2. UNCHANGED <<table, text, lineEnd, columns>>
    BY <2>1 DEF DrawTable
  <2>3. TableTyped' /\ TextRead' /\ HeaderWritten' /\ LinesRead'
    BY <2>2, TableAsWas
  <2>4. ColumnsNamed' /\ OfferedColumns'
    BY <2>2 DEF TableInvariant, ColumnsNamed, OfferedColumns
  <2>5. PointsKeepTheirRows'
    BY <2>1, TableDrawn
  <2> QED
    BY <2>3, <2>4, <2>5 DEF TableInvariant
<1>4. CASE UNCHANGED tableVars
  <2>1. UNCHANGED <<table, text, lineEnd, columns, drawn>>
    BY <1>4 DEF tableVars
  <2>2. TableTyped' /\ TextRead' /\ HeaderWritten' /\ LinesRead'
    BY <2>1, TableAsWas
  <2>3. ColumnsNamed' /\ OfferedColumns' /\ PointsKeepTheirRows'
    BY <2>1 DEF TableInvariant, ColumnsNamed, OfferedColumns, PointsKeepTheirRows
  <2> QED
    BY <2>2, <2>3 DEF TableInvariant
<1> QED
  BY <1>1, <1>2, <1>3, <1>4 DEF TablesNext

(* What has been read of a text is what was written into it: its rows, its *)
(* header and, line by line, its beginnings; an invariant of writing rows, *)
(* of opening the table and of drawing it (csvToPoints.ts).                *)
THEOREM TablesInvariant == TablesSpec => []TableInvariant
<1>1. TablesInit => TableInvariant
  BY TableTypedInit
<1>2. TableInvariant /\ [TablesNext]_tableVars => TableInvariant'
  BY TableStep
<1> QED
  BY <1>1, <1>2, PTL DEF TablesSpec

(* The columns that are offered are those of the table, numeric exactly    *)
(* when the complete rows of the head hold numbers, and the points that    *)
(* are drawn are its rows with three finite coordinates, each with the     *)
(* values of its own row (csvColumnInfo, csvToPointData).                  *)
THEOREM TableDrawnAsWritten == TablesSpec => []TableIsDrawn
<1>1. TableInvariant => TableIsDrawn
  BY DEF TableInvariant, TableIsDrawn
<1> QED
  BY <1>1, TablesInvariant, PTL

=============================================================================
