# Verification of MyParaview-Web

MyParaview-Web is a ParaView-like web application: a FastAPI back end
(`src/backend/app`) that stores datasets, runs jobs on them and hands out
artifacts, and a React/vtk.js front end (`src/frontend/src`). This directory holds
TLA+ models of the parts whose correctness depends on order, failure and
concurrency, the TLC configurations that check them on small instances, and
proofs, checked by TLAPS, of what matters most for every instance.

- [Inventory](#inventory): the parts of the system, their state, what is hard
- [Modules](#modules): which module models which part, and how
- [Properties](#properties), and the [runs](#runs) that check them, their [bounds](#bounds) and [fairness](#fairness)
- [Proofs](#proofs): what holds for every value of the constants, and why
- [What is found](#findings), [what is abstracted and left out](#abstractions)
- [Plan](#plan)

## Inventory

### How the parts interact

Every API request runs in its own database session. Requests that change a
project's data run inside `locked_project` (project_locks.py): a transaction that
locks the project's row on PostgreSQL and takes the write lock of the whole
database (`BEGIN IMMEDIATE`) on SQLite. `POST /jobs` commits a `Job` row and then
hands it to the job manager: a thread pool in the same process (`JobManager`) or a
Redis queue that worker processes read (`RQJobManager`, rq_worker.py). A worker
runs the body of the job (services.py), which writes an object to the store,
commits an `Artifact` row, and publishes the job's status. Objects are never deleted
inside a transaction: whoever removes the last row that names an object commits an
`ObjectDeletionOutbox` row, and drains (after a request, at a worker's end, periodically in
the API) carry it out.

### Components

| Component | State | Operations | What is hard | Correct when |
|---|---|---|---|---|
| Job lifecycle (jobs.py, services.py, routers/jobs.py) | `Job.status`, `Job.result`, `Artifact` rows, objects | create, claim, produce, persist, publish success/failure/cancel, rollback, cleanup, cancel, project deletion | cancel against publication, duplicate deliveries on one stable object key, crash between object, row and status | a succeeded job has its output, a lost one owns nothing, terminal statuses are final, nothing is orphaned |
| RQ back end (jobs.py, rq_worker.py, main.py) | RQ's queue, retries, started registry | enqueue, deliver, retry, abandon, failure callback, reconcile at API start | commit-then-enqueue, lost answers, live workhorses that RQ believes dead | every accepted job settles |
| Local back end (jobs.py) | pool, registry of cancel events | submit, run, cancel, recover at start | event against persisted status, crash of everything at once | as above; a refusal to cancel is honest |
| Deletion outbox (jobs.py) | `ObjectDeletionOutbox` rows | enqueue, select, cross the job's lease, confirm, erase, acknowledge, defer | concurrent drains, stale snapshots, late writers, crash between erase and acknowledge | every intent is carried out, no live object is erased |
| Ingest (services.py, routers/datasets.py) | `Dataset.status`, metadata | ingest, reset on interruption | final commit without a look at the job's status | a dataset is not left in `ingesting`, ready implies metadata |
| Projects, members, roles (routers/projects.py, auth.py, access.py) | `Project`, `ProjectMember`, `User` | create, list, put/delete member, delete project | two admins removed at once, role revoked before the lock is taken | a project keeps an admin; no change without the role at commit time |
| Uploads (routers/datasets.py, bundles.py, validation.py) | objects, `Dataset`, `DatasetFile` | upload file, PVD, bundle; delete | object before row, project deleted meanwhile, compensation that fails | no row without object, no object without row or outbox entry |
| Artifacts (routers/artifacts.py, responses.py) | `Artifact`, path leases | upload, download, promote to dataset | download against deletion | a download that started can finish |
| Object store (storage.py) | files, leases, pending deletes, S3 cache | acquire/release path, delete, evict | eviction and deletion under leases, fork | a leased file stays, a deferred deletion happens |
| Pipelines (routers/pipelines.py, pipeline_lifecycle.py) | `Pipeline.input_pipeline_id` graph | create, rename, delete, resolve a chain | cycles, inputs deleted under a chain | chains are finite and stay in one project |
| Render sessions (routers/sessions.py, broker.py) | `RenderSession`, remote session at the broker | create, get (expire), delete, proxy | remote session before row; expiry in three places | no remote session without row or deletion attempt |
| Assist proposals (routers/assist.py) | `AssistProposal.status` | propose, apply, dismiss, compensate | apply twice, queue down after commit | at most one job per applied proposal |
| Job stream (routers/jobs.py) | SSE cursor | snapshot, filter | equal timestamps, commits behind the cursor | the last snapshot of every job is delivered |
| Worker processes (worker.py, workers/pv_worker.py) | process tree, deadline | spawn, poll, terminate, kill | cancel against exit | no process outlives its job |
| Connection and scope (useServerConnection, useProjectScope) | attempt and ticket counters | connect, retry, disconnect, switch | answers of older attempts and of a project that was left | state belongs to the last attempt and the selected project |
| Page handlers (useProjectResources, useDatasetJobs, useDatasetUpload, usePipelineActions, useRemoteSession, useLocalDatasets, useDeepLink) | lists, selection, restored view, pending buttons, remote session | select, upload, promote, run a job, restore, stream | handlers that outlive a switch and go on after each await | what is shown is of this project and dataset; buttons are released; the last choice wins |
| Jobs in the browser (useJobPolling, lib/job.ts) | merged snapshots, jobs being canceled | poll, follow, cancel, merge | snapshots out of order, failing polls, switches | no job goes back; a cancel button settles; an end is shown |
| Display history (useDisplayState, viewState) | past, present, future, refs between renders | edit, undo, redo, reset, restore | effects that run after the next event; the limit | an edit is one entry, undo is none |
| Playback (useTimestepPlayback) | loaded frame, timer | tick, seek, load completion | completions of frames that were left | a frame is left only after its load |
| Viewer and comparison (VtkViewer, ComparisonViewport, contextPool, viewer/*) | leases, scenes, controllers, cameras | mount, rebuild, finish, fail, pick, measure, compare | rebuilds and failures of two panes at the limit of contexts | leases are those of the scenes; panes agree; answers are of the last click |
| Formats and numerics (vtkXml, structuredGrid, vtu, csvToPoints, colormap, vectorGlyph, localDataset) | the registry of colour maps, blob URLs | parse, combine, register, sample | extents, strides, block headers, name clashes | agree with a reference definition |
| Statistics and metadata readers (metadata.py, stats.py) | none | parse | ranges | agree with the files |


Configuration, migrations, audit logging, presentation (panels, translations), the
Python link builder and deployment files have no behaviour of this kind.

## Modules

| Module | Models | Composes |
|---|---|---|
| `JobTables` | the rows and objects of jobs, and every database transaction on them | |
| `ObjectOutbox` | `drain_object_deletions`, one action per transaction or store call | `JobTables` |
| `JobRunner` | `_run_job` and `_run_artifact_job` inside `job_execution_lock`; the shared invariants | `ObjectOutbox` |
| `RQJobs` | the Redis/RQ back end and the API around it | `JobRunner` |
| `LocalJobs` | the thread-pool back end and the API around it | `JobRunner` |
| `JobLifecycle` | abstract: what clients see of a job | |
| `IngestDataset` | `run_ingest`, the ingest endpoint and every transaction that moves a dataset's status | |
| `ObjectCache` | `S3ObjectStore` in one process: leases, deferred deletion, cache and eviction | |
| `ServerConnection` | `useServerConnection`: attempts and their late answers | |
| `ProjectScope` | `useProjectScope`: current project, selection, tickets; the calls in flight | `ServerConnection` |
| `Workspace` | App.tsx with the handlers that wait for the server | `ProjectScope` |
| `JobBoard` | `useJobPolling`, `api.pollJob`, cancel requests and `mergeJobSnapshots` | |
| `DisplayHistory` | the undo history as functions | |
| `Display` | the display's state, history, playback and the scene's reports to them | `DisplayHistory` |
| `SceneReports` | abstract: what a viewer reports of its frames | |
| `Viewer` | scenes, the pool of contexts, loads, picks and tools of any number of panes | |
| `Comparison` | the two panes of the page: what each shows, and their cameras | `Viewer`, refines `SceneReports` |
| `Surfaces`, `DataArrays`, `LocalFiles`, `Palette`, `Tables`, `VectorGlyphs` | the algorithms between files and the screen | |
| `MCRQJobs`, `MCLocalJobs`, `MCIngestDataset`, `MCObjectCache`, `MCWorkspace`, `MCJobBoard`, `MCDisplay`, `MCComparison`, `MCFormats` | the instances that TLC checks | |
| `JobRunnerProofs`, `RQJobsProofs`, `LocalJobsProofs`, `WorkspaceProofs` | lemmas and theorems | the modules they are named after |
| `InputProofs` | lemmas and theorems about what comes in | `IngestDataset`, `Tables` |
| `EvictionProofs` | lemmas and theorems about what makes room at a limit | `ObjectCache`, `Palette` |
| `LateAnswersProofs` | lemmas and theorems about answers that come late | `Comparison`, `JobBoard` |
| `DisplayProofs` | lemmas and theorems about what is on the screen | `Display`, `VectorGlyphs`, `LocalFiles` |

### The server

**Tables.** `status`, `result`, `artifact`, `outbox` are the columns and rows the code
commits; `object` is the store. A transaction is one operator: it waits for the locks the
code takes (`ProjectFree`, `RowFree`), decides on the committed values and changes
them. The cancel request alone spans several steps (`cancelTx`: read, signalled, marked,
dropped), because it keeps `locked_project` from its first read to its commit and other
processes act in between. The two databases differ exactly there (`Dialect`): on
SQLite the request holds the write lock of the database, so nothing else commits;
on PostgreSQL it holds the project's row, and the job's row only from `locked_job`
on. `persist_job_artifact` waits for the project's lock as well; the publications do
not.

**Worker.** `pc` is the program counter of a worker: a step ends wherever another process can act.
`raised` is the exception in flight, so the unwinding through `rollback_job_artifact`,
`_publish_canceled`/`_publish_failure` and the `finally` blocks takes the path the
code takes. `BodyError` covers every failure that `_run_job` or `run_persisted_job` turns into a failed job, and RQ's
timeout, which is raised there too; `Escape` covers the failures that nothing catches: those of the lease, of reading and claiming the
job (jobs.py:621 is before the `try`) and of publishing an end from an `except` clause. They leave through the `finally` blocks,
and the back end hears them: RQ counts a failed delivery, the pool drops them with the Future. Each back end passes its own
cancellation signal: the persisted status (RQ) or event and status (local).

**RQ.** Redis and RQ are external. What the code relies on is modelled: a unique id is enqueued
once, a started message has a holder, a delivery that dies or is abandoned is
retried while `retries_left` allows and ends in `handle_terminal_failure`, which may fail itself. The start of the API
(`ApiStart`, `Reconcile`, `ApiReady`) and that of a worker process (`StartWorker`, `Requeue`) read the queued rows first and
enqueue them one by one afterwards, and may die in between. An abandoned
workhorse lives on, so two workers may hold deliveries of one job, and the lease
(`job_execution_lock`) serialises them.

**Local.** `TakeJob` .. `Finish` are `JobManager._run`; `BeforeTerminal` pops the event under the
manager's lock, `SignalCancel`/`RefuseCancel` are the two outcomes of `JobManager.cancel`'s
look-up under the same lock. A crash takes the process with its threads, sessions and
registry; `StartProcess` and `RecoverJob` are `recover_interrupted_jobs`.

**Ingest.** An ingest job has no artifact: what it changes is `Dataset.status`, in
transactions of its own beside those on its job. `IngestDataset` models one dataset. The
worker's steps follow `run_ingest`: `Claim`, `Reserve` ("ingesting"), `CheckCanceled`,
`Parse`, `CheckCanceled`, `WriteMetadata` ("ready"), `Decide`, `PublishSuccess`, with
`Revert` and `MarkError` for its two exception handlers. `EndJob` is every transaction that
ends a job early, with `_reset_interrupted_ingest` in it. The lease of `JobRunner` is reduced
to its effect: a delivery waits until no other worker has the job. RQ's steps are those of
`RQJobs`, with the number of abandonments and deaths bounded, since the properties
depend on which of them happen at all.

**Object cache.** Each thread of a process runs one call of the store at a time: `AcquireLease`, `Look`, `Download`
and `Release` are a read with its response (`acquire_path`, `path_for`, `LeasedFileResponse`), `Save`, `Upload`,
`Place` and, for `copy_in`, `StatCopy` a write, `Delete`, `EraseRemote` and `EraseLocal` a deletion. A download, a
write and a release with the flag set go through `_evict_cache`: `StartEviction` takes the cache lock and lists
the directory, `CountFile`, `ExpireFile` and `UnlinkExpired` are its first loop, `EvictFile` and
`UnlinkOldest` the second, `EndEviction` sets `_needs_eviction`. Key locks are a map of keys to
stripes, so keys may collide; steps under the lease lock are atomic. Other processes have other caches
(docs/server-deployment-memo.md:235) and appear as `ElsewhereStored` and `ElsewhereDeleted`.
That a key being deleted is not written comes from the job modules (`RowInv`).

**Refinement.** Both back ends implement `JobLifecycle` on SQLite, under the mapping
`phase <- status`, `output <-` the succeeded jobs whose row and object are there. So
for a client the output appears in the same step as the success and stays until
the project is deleted, whatever the five stores of state do in between.

### The browser

JavaScript runs one callback at a time, so an action is a handler up to its next `await`,
the continuation of one when an answer comes, or the effects of a render.

**Workspace.** A call in flight is a record: what was asked, for which dataset, with which
button's flag, and the ticket that its handler captured. `useProjectScope` compares two counters with their
values at the capture; the model keeps the outcome of that comparison in the call
("fresh", "current" after a newer selection, "stale" after a switch), so the counters need no bound.
Answers are taken from `calls` in any order, as successes or failures, and a continuation does what the code does after its
`await`: look at the ticket, or not, then change state, then ask again. What is on the screen is known by where it came from:
`lists`, `jobs` and `artifacts` are the projects or datasets whose rows are shown, `view` the dataset
whose display settings are applied. `choice` is not in the code: it is the dataset the user asked for last,
and `LatestChoiceWins` speaks of it. `connection`, `attempt` and `handshakes` are the state of
`useServerConnection`, with its ref to the newest attempt.

**Job board.** A snapshot maps jobs to `[status, version]`, where the version stands for `updated_at`. A request is
served by the server in one step (`Served`) and delivered in another, so every answer may be old. The poll loop
(`PollAgain`, `Polled`), the handlers that follow one job and the cancel requests all merge into
`board`; a switch makes the tickets stale, aborts nothing on the server, and starts a new loop.

**Display.** `page` is React's state as it is rendered, `refs` what lives between renders: the stacks,
the last recorded snapshot, the automatic timestep, the scene's frame, the playback's timer.
A handler leaves a next page and refs; the effects of the render that is on the screen are flushed before the
next one. React runs them at once after a click or a key, and otherwise some
time later: then `pending` holds and timers, answers and events may come first (`Handled`, `EffectsRun`).
A snapshot's fourteen fields are known by three: the look that survives another dataset, the view that does not,
and the timestep, which the playback changes without an entry.

**Viewer and comparison.** A scene has a number, the file it was built for and how far it has come; `leases` are the scenes that hold a
context of the pool. A render leaves effects behind: all cleanups first, then the new scenes, as React does it. Loads
are aborted but may end all the same; picks, measures and the widgets' events name the scene they
were made in. `Comparison` adds what each pane is rendered with and the cameras, and shows that
the primary pane refines `SceneReports`, on which `Display` relies when it takes the reports of its scene.

**Files.** `MCFormats` checks six modules side by side, one topic per behaviour. In each, an external writer or a user makes any
input within the bounds, the code's algorithm is an operator on it, and the properties compare the result with a definition
that does not follow the code: boundary faces by counting the cells at each face, arrays by what was written, timesteps by the collection's
list, and so on. `Palette` and `LocalFiles` have state of their own: the registry of imported colour maps with the viewers and undo stacks that
refer to it, and the blob URLs of open files.

## Properties

A property that is one name in a run may be a conjunction of named parts; the parts are in brackets.

| Property | Says | Could be broken by |
|---|---|---|
| `JobsOwnTheirObjects` (`SucceededOwnsArtifact`, `NoOrphanedObject`, `LoserOwnsNothing`) | a succeeded job has result, row and object; a lost one neither row nor result, and its object has a deletion intent | a rollback, drain or cancel that races with the publication; a crash before the row is staged; a drain before the late write |
| `ObjectOfLiveJobIsKept` | no step removes the object of an active or succeeded job | duplicate deliveries, stale drains |
| `ImplementsLifecycle` | refinement of `JobLifecycle`: terminal statuses are final, output and success appear together | claim, publication and recovery against cancellation |
| `RefusalIsHonest` | a local cancel is refused only if nothing can be canceled, or after an exception that nothing caught | the registry emptied too early |
| `JobSettles`, `OutboxDrains` | jobs end, with the exceptions named under [fairness](#fairness); intents are carried out | lost submissions, forgotten recovery, rows without a job |
| `IngestsExclude` (`OneActiveIngest`, `OneIngestInBody`) | a dataset has one active ingest, and one body that writes it | a queued ingest that has not reserved the dataset yet |
| `ReservationHasOwner`, `ReservationEnds` | "ingesting" has a job or worker that will release it, and does end | a cancellation before the reservation, a death after it |
| `ReadyIsKept` | "ready" is taken back only by a new ingest | late reverts, resets, swallowed errors |
| `LeasedFileStays` | a path handed out stays a file until its release | a lookup beside an eviction, a miscounted lease |
| `DeletedIsUncached` | a deleted object's copy ends with its leases and never comes back | a download beside the deletion, a forgotten deferral |
| `LimitKept` (`LimitRemembered`, `IdleWithinLimit`) | an oversized cache is remembered, and shrinks by the time the store is idle | a flag read while an eviction is about to set it |
| `CallsEnd` | every call of the store ends | an eviction under a key lock |
| `ConnectionSettles` | "connecting" has an attempt that will answer; capabilities are those of the last attempt | the answer of a superseded attempt |
| `PageOfProject` | lists, selection and view belong to the current project and the dataset on the screen | an answer after a switch, a restored view after another selection |
| `ArtifactsOfSelection` | artifacts are those of the dataset on the screen | a refresh that ends after a newer selection |
| `LatestChoiceWins` | a server's dataset that comes up is the one asked for last | an upload or a restored pipeline that ends late |
| `RemoteOfProject` | a streamed session belongs to the current project | a session created for a project that was left |
| `PendingHasHandler` | a pending button has a handler of this project that will release it | handlers that release, or fail to release, after a switch |
| `CancelsSettle` | a job is marked as being canceled exactly while one request for it waits | a switch or a failure between the two |
| `NeverRegresses` | no job on the page goes back to an older version | answers out of order |
| `EndsAreShown` | the end of a job is seen on its project's page | a failed poll, a switch there and back |
| `HistoryFollows` | once effects have run the recorded snapshot is the one shown; the history stays within its limit | effects that run after the next handler |
| `EditsAreEntries` (`EditIsUndoable`, `UndoIsNoEdit`) | an edit is one entry that undo takes back; undo and redo make none | recording an undo as an edit, an entry lost at the limit |
| `NoFrameSkipped` | the playback leaves a frame only after it was rendered | the completion of a frame that was left |
| `PlaybackGoesOn` | a playback goes on or has stopped | a timer that is cleared and not set again |
| `NoPaneRefused`, `PanesOfScenes` | no pane is refused a context; leases, controllers and measures are those of the scenes on the page | cleanup after construction, a failed scene that keeps its lease |
| `ComparedPanes` | panes in step look from one camera; a collection compared with itself starts with two timesteps | a late load that applies its own camera |
| `ProbeAnswersLastClick` | a probe's answer is of the scene on the screen and of the last click | a pick answered after a rebuild |
| `ScenesReport` | refinement of `SceneReports` by the primary pane | a report of an aborted load |
| `ValuesFollow`, `BoundaryOfSolids` | every value stays with its point or cell; the surface of solids is closed and the same for grids and hexahedra | strides, degenerate axes, faces shared by different cells |
| `ReadAsWritten` | an accepted array is read as it was written | header widths, padding, short last blocks |
| `LocalStepsPlay` | each timestep plays the file that the collection lists, and its URL is not revoked | name clashes, replaced datasets |
| `TableIsDrawn` (`OfferedColumns`, `PointsKeepTheirRows`) | columns that are offered exist, points keep their rows and their axes | quotes, blank cells, duplicate names, exchanged axes |
| `ArrowsOfArray` | arrows are distinct points of the chosen array, spread over all of it | rounding, disposal |
| `RegistryServesScreen` (`HeldMapStays`, `RegisteredToBeShown`) | a map that a viewer draws with stays registered, with its stops unless a preset of its own id is imported; a map enters with an imported preset that is shown or with a readable view, never with one that `parseViewState` refuses | eviction of the registry at its limit, a saved view that brings another definition of a known id |

## Runs

| Run | Module / cfg | Shows | Distinct states |
|---|---|---|---|
| `rq_sqlite` | MCRQJobs / RQSqlite | tables, store, outbox and refinement with duplicate deliveries and a worker process that starts | 1,462,481 |
| `rq_liveness` | MCRQJobs / RQLiveness | jobs settle, the outbox drains, on PostgreSQL | 78,932 |
| `local_postgres` | MCLocalJobs / LocalPostgres | honest refusals; jobs end through crashes | 11,950 |
| `ingest` | MCIngestDataset / Ingest | three ingests with cancellations and abandoned deliveries, or with deaths, retries and failing transactions | 497,614 |
| `ingest_stuck` | MCIngestDataset / IngestStuck | a reservation that lasts for ever (expected violation) | 87 |
| `cache` | MCObjectCache / Cache | leases, deferred deletion, expiry, the limit restored, every call ends | 100,989 |
| `workspace` | MCWorkspace / Workspace | connections, projects, selections, local data, remote sessions | 1,412,974 |
| `dataset_jobs` | MCWorkspace / DatasetJobs | jobs, uploads, promotions, pipelines, a deep link | 1,500,393 |
| `job_board` | MCJobBoard / JobBoard | polls, followed jobs and cancellations of two projects | 123,835 |
| `display` | MCDisplay / Display | edits, undo and the playback of a collection | 79,058 |
| `comparison` | MCComparison / Comparison | two panes and two contexts; refinement of `SceneReports` | 1,138,555 |
| `formats` | MCFormats / Formats | the algorithms between files and the screen | 332,448 |

Six further configurations (`RQStaleCancel`, `IngestOverwritten`, `CacheCopyLost`, `LostServer`,
`RemoteOfOther`, `UndoCrosses`) each check one property that the code violates, with
`tlc -config <name>.cfg MC<module>`; see the [findings](#findings).

Deadlock is checked in the runs of the job modules: clients may always do something, or the
outbox is polled. The others really may stop: `IngestDataset` when all jobs of the instance have been
started and the project is gone, `ObjectCache` when its calls are used up, the browser's modules when their bounded
calls, attempts or clicks are. `CallsEnd`, `ConnectionSettles`, `PendingHasHandler` and `CancelsSettle` say that nobody is left waiting
there.

### Bounds

- Job runs: one job, created once. Jobs meet only in the database lock of SQLite, in the pool and in drains,
  which act on one row at a time; the proofs hold for any number of them. Two workers in `rq_sqlite`: a duplicate delivery needs a second
  one, and a third would wait for the same lease. One worker in `rq_liveness`, where fairness makes the search
  dear: the lease order that a second one adds is in `rq_sqlite`. One API process that drains; together with the workers' own drains two or three drains overlap.
  `MaxRetries = 1`: a first delivery, a retry and the failure callback.
  `MaxStarts`: worker processes start in `rq_sqlite` only. A start can bring a job nearer to its end but cannot be relied on, so
  `rq_liveness` and `RQStaleCancel` have none.
  `MaxFaults` counts crashes of the API (RQ) or of the process (local) and cancel requests that
  fail at commit. Worker crashes and abandonments need no bound of their own: retries limit them. Errors
  of bodies, store and drains are unbounded.
- `ingest`: three jobs and two workers, so that a third ingest can start while the worker of a first,
  canceled one still runs beside the second. A behaviour has cancellations and abandonments, or deaths and failing transactions
  (`EitherSpec`), because together they violate `ReservationEnds`; each side has its own bound of one or two.
- `cache`: two threads and five calls (`MaxCalls`) on two keys with a common lock, where one object
  fills the cache alone and the other does so half. A violation
  needs a reader, a thread that evicts or deletes, and the calls that filled the cache before. An object
  above the limit and keys with different locks are left to other instances; what is said of leases, deletions and the limit is proved for all of them.
- `workspace`, `dataset_jobs`: two projects of one server, two calls in flight at a time (`MaxCalls`, handlers start while there is room; one
  handler may still send several). Two races need two calls, and the proofs hold for any number. The handlers are split over the two runs
  (`Handlers`): connections with two servers and two attempts in the first, two datasets and the deep link in the second.
- `job_board`: two projects with a job each, two handlers at a time. Versions grow with the five statuses.
- `display`: a collection of two frames, an image (whose default colour array is an effect of its own), two looks, one view each,
  `Limit = 2`, so that the stacks overflow; the code's fifty differ in nothing else.
- `comparison`: two panes and two contexts as in the code, three scenes that something still refers to
  (`MaxScenes`; numbers of scenes that nothing refers to are reused), one click that is not answered (`MaxClicks`). `Uses` says what one behaviour
  uses (the choice, the cameras, or the tools of one pane), since the tools of two panes do not meet.
- `formats`: extents of at most three points per axis, cells of the solid shapes that share faces beside flat ones, one or two pieces; documents with two arrays and
  blocks of four bytes; selections of the names that clash, hide or lack an extension; tables of three columns and three rows, the first of them the names; a registry of four maps for five ids;
  arrays of six points. Each bound is above the ones in the code's case distinctions (one cell thick, a short last block, two files of one
  name, a quoted line end, limit below and above the count).

### Fairness

Liveness is checked under `FairSpec` (in `Display`, `Spec`). Weak fairness: a live worker takes its next step
(RQ's job timeout and the worker's own bound the producer), a queued message is delivered,
the failure callback runs, requests end, the services restart (`restart: unless-stopped` in
infra/docker-compose.yml), the periodic drain comes again. Strong fairness: erasing and acknowledging,
since outages of the store or database and downloads holding a path end; and,
for local threads, getting a database lock that requests take and free. A thread of the object
store goes on when it can, and a response ends when the client has read or gone (the `finally` of
`LeasedFileResponse.__call__`). In the browser, the timer of the poll loop fires and requests are answered or fail
(the `finally` of `poll` sets the timer in either case); strong fairness says that of the polls of a
project some are served and succeed. A render's effects run, a frame loads or fails, a timer that is not
cleared fires. Nothing forces client requests, clicks, crashes, errors or outages. `JobSettles` of the RQ back end excepts
`Stranded` jobs: those that no process has, that no open request is about and that nothing will hand to RQ. A cancel request removed the message and then
failed to commit (jobs.py:870); the failure callback of the last delivery failed; or RQ never had the message and the API that is up
has given it up, because Redis was down when it started (main.py:64) or Redis and the database were when it submitted. A
job whose API is down, starting or still submitting is not stranded: the start of the API has to enqueue it, and a start that does not
(`StartWithoutReconciling`) violates the property. `JobSettles` of the local back end excepts the jobs in `swallowed`, whose thread
ended with an exception that nothing caught; only another start ends those, and nothing forces one.

## Proofs

TLAPS checks every obligation. All constants are arbitrary (jobs, workers, servers, keys, threads, projects, datasets, calls,
bounds), under the assumptions that the modules name: null values are not members of the sets they complete,
bounds are naturals, maps have the domains they need, the dialect is one of two. None of the bounds of the runs
is in a theorem.

**Jobs.** None of the safety invariants is inductive alone. `RunnerInv`
(JobRunner) adds what the code's comments argue with:

- `LeaseInv`: a worker between taking and releasing the lease holds the lease of its job
  (so no two workers run one job, even when RQ believes they may);
- `StagedInv`: what the worker of an active job has produced and persisted is still
  there (so success is published over a complete output);
- `RowInv`: only lost or deleted jobs have outbox rows, also in the snapshots of drains
  (rows never become undrainable, since lost jobs stay lost);
- `DrainInv`: a row past the barrier belongs to a job nobody will write for (`Quiet`), and
  an erased object stays erased until the acknowledgement;
- `CleanInv`: a lost job without a row has no object and nobody will write one; a succeeded job is quiet;
- `CancelInv`: a project cannot disappear under an open cancel request.

`NoOrphanedObject` and the step predicates follow from it. `JobRunnerProofs` proves one lemma per action of the
worker, the drain and the cancel request (`ClaimInv`, `PersistInv`, `AckRowInv`, ...), with
one step per conjunct the action can disturb; the lemmas `FrameInv`, `MoveInv`, `LoseInv`,
`DrainMoveInv` carry the parts that many actions share. `RQJobsProofs` and
`LocalJobsProofs` add the types of their own variables, that jobs unknown to the
database are unknown to the queue or pool (`KnownJobs`) and, for the local back
end, that the event of a running job stays registered until the decision
(`RegistryInv`). The action properties follow from `JobStepOK`, proved of every
step under the invariant.

| Theorem (RQJobsProofs / LocalJobsProofs) | Property |
|---|---|
| `RQInvariance`, `LocalInvariance` | the inductive invariants |
| `RQTypeCorrect`, `LocalTypeCorrect` | `TypeOK` |
| `RQJobsOwnTheirObjects`, `LocalJobsOwnTheirObjects` | `JobsOwnTheirObjects`, and a theorem for each of its parts |
| `RQTerminalNeverReopens`, `LocalTerminalNeverReopens` | `TerminalNeverReopens`: a lost or finished job is never active again |
| `RQObjectOfLiveJobIsKept`, `LocalObjectOfLiveJobIsKept` | `ObjectOfLiveJobIsKept` |
| `LocalRefusalIsHonest` | `RefusalIsHonest` |
| `RQTerminalIsFinal` | `TerminalIsFinal`, on SQLite |
| `RQImplementsLifecycle`, `LocalImplementsLifecycle` | `ImplementsLifecycle`, on SQLite |

**The refinement.** On SQLite `LifecycleInv` is added: a worker past its claim never
finds its job queued again, and the status an open cancel request has read is still the job's (no other
transaction commits meanwhile). Then every step changes the status of at most one job, by an edge of
the lifecycle (`ClientStep`), and by `SucceededOwnsArtifact`, before and after, the output
of the mapping is exactly the set of succeeded jobs (`LifecycleStep`). On PostgreSQL the
assumption fails, see the findings.

**Ingest.** `InputProofs` first proves `Inv`: types, `OneActiveIngest`, and that a worker
with a job is its only one and was handed a message of it (`WorkersInv`). `ReservationHasOwner` is then
proved twice, each time under one assumption on the bounds, and the violated runs show that
one of the two is needed. `Unfailing` (no deaths, no failing transactions, any number of
cancellations and abandonments): `OwnerInv` strengthens the property, since an owning job must
not be about to succeed. `Calm` (no cancellations, no abandonments, any number of deaths
and faults): `CalmInv` says that the dataset's status is what the one worker in the body has
made it, which also gives the theorems below.

| Theorem (InputProofs) | Property |
|---|---|
| `IngestInvariance`, `IngestTypeCorrect`, `IngestOneActive` | `Inv`, `TypeOK`, `OneActiveIngest` |
| `IngestOwnerUnfailing`, `IngestOwnerCalm` | `ReservationHasOwner`, under `Unfailing` or `Calm` |
| `IngestExclusion`, `IngestReadyIsKept` | `IngestsExclude`, `ReadyIsKept`, under `Calm` |
| `IngestOneInBody`, `IngestSucceededIsReady` | under `Calm` |

**Object cache.** `EvictionProofs` holds for any finite sets of threads and keys, any sizes, limit and expiry, and any
map of keys to key locks. The count of leases is the cardinality of a set of threads (`LeaseCount`, by the
theorems on finite sets), so a count of zero means no reader and the last release of a file is its only one. That is
not enough: between an eviction's look at the count and its unlink a reader may lease
the file. `LockInv` closes the gap: who unlinks holds the file's key lock and nobody has found that
file, since the lookup needs the same lock. `DeletedInv` adds that a deleted object has no remote copy, no
writer, and a deferred deletion if it is still cached.

The limit needs to know what an eviction under way has counted (`ScanInv`): every file that lies in the directory is one
that it has listed, unless another eviction is about to start; and a file that it has to leave is leased, so that somebody will release it and
look at the flag. So an eviction that ends either leaves a cache within its limit or sets the flag
(`LimitRemembered`), and with no lease left and nobody about to evict the cache fits, or holds one file that is above the limit by itself (`UnusedFit`). Sums of sizes are
the cardinality of a union of disjoint sets (`BytesOf`), so the theorems on finite sets take the place of an induction.

| Theorem (EvictionProofs) | Property |
|---|---|
| `CacheInvariant` | the inductive invariant |
| `CacheType` | `TypeOK`; a count is never negative |
| `CacheLeasedFile` | `LeasedFileStays` |
| `CacheDeleted` | `DeletedIsUncached` |
| `CacheLimitInvariant`, `CacheLimit` | its inductive invariant, `LimitKept` |

**Colour maps.** `RegistryOK` says that the registry has one entry per id, stays within its limit, and that an entry has stops which came with
its id, in a preset or in a saved view. That an id determines its stops is not assumed: the id of an embedded map is not recomputed.
The eviction takes the first entry that no viewer holds, and adding, replacing and dropping an entry leave the others as they are
(`RemoveAtOK` and the lemmas before it).

| Theorem (EvictionProofs) | Property |
|---|---|
| `PaletteRegistry` | the inductive invariant |
| `PaletteServesScreen` | `RegistryServesScreen` |

**Job board.** Both properties rest on what requests hold while they wait (`CallOK`): an answer is never newer than the server's
job, a call that is not stale speaks of jobs of the current project only, and no two cancel
requests share a job (`CancelingHasCall`, which is part of the property). `MergeKeeps` says of the merge that it
keeps each job's version or raises it; a switch empties the board, so its domain has no job in common with the next one.

| Theorem (LateAnswersProofs) | Property |
|---|---|
| `BoardInvariance` | the inductive invariant |
| `BoardCancelsSettle` | `CancelsSettle` |
| `BoardNeverRegresses` | `NeverRegresses` |

**Panes.** Any number of panes, files, scenes and clicks, and at least as many contexts as panes, as in the code (two and two). `PanesInv` ties
what the pool, the controllers, the picks and the measures name to the scenes that the panes have; a number of a scene belongs to
one pane and is taken again only when nothing refers to it. That nobody is refused a context follows from the order of React's effects: within a render
every cleanup comes before the first new scene, so the leases at that moment are those of panes that keep their scene, fewer than there are contexts.
`ComparisonInv` adds what each pane is rendered with and whose camera it has. The refinement maps the primary pane's load
and report to `SceneReports`: the lemmas say of each action that it is one step of that specification or leaves its variables alone.

| Theorem (LateAnswersProofs) | Property |
|---|---|
| `PanesInvariance` | the inductive invariant |
| `PanesBelongToScenes`, `PanesNeverRefused` | `PanesOfScenes`, `NoPaneRefused` |
| `ProbeTellsLastClick` | `ProbeAnswersLastClick` |
| `PanesCompare` | `ComparedPanes` |
| `PrimaryReports` | `ScenesReport`, the refinement of `SceneReports` |

**Workspace.** The connection comes first: attempts have one handshake each, the last one asks the server that the
page names, and the connection's epoch is behind every attempt that may still succeed (`AttemptsInv`). For the page
the argument is that of `useProjectScope`: `CallOK` says of every call in flight that its data are of its project (`Sound`), that a
ticket which is not stale names the current project, and that a selection whose ticket is fresh asks for `choice`.
`OvertakenHolds` and `AskInv` carry these through switches and new
requests, `AnswerInv` through an answer; then one lemma per handler and per continuation shows
`Page` (lists, selection, view, artifacts and session belong together) and `PendingHasHandler`.

| Theorem (WorkspaceProofs) | Property |
|---|---|
| `PageInvariance` | the inductive invariant |
| `PageConnection` | `ConnectionSettles` |
| `PageShowsItsProject` | `PageOfProject` |
| `PageArtifacts`, `PageRemote`, `PageButtons` | `ArtifactsOfSelection`, `RemoteOfProject`, `PendingHasHandler` |
| `PageFollowsChoice` | `LatestChoiceWins` |

**Display.** What a handler leaves and what effects find differ, so the invariant has two parts. `LeftOK` holds always:
the types, both stacks together within the limit, and that the page never counts a frame as loaded that its scene
is still loading. `Settled` holds when no effects are pending: the recorded snapshot is the one shown, no automatic timestep is left
over, defaults are applied, the scene is of the frame on the page, and a timer is set only
where the playback runs. `EffectsOK` proves that effects keep the first and `HandledInv` that, whether they run at once or
later, the second holds when it must; after that each handler only has to leave refs and a page in order.

| Theorem (DisplayProofs) | Property |
|---|---|
| `DisplayInvariance` | the inductive invariant |
| `DisplayHistoryFollows` | `HistoryFollows` |
| `DisplayEditsAreEntries` | `EditsAreEntries` |
| `DisplayNoFrameSkipped` | `NoFrameSkipped` |

**Arrows.** The code takes every point whose ordinal among the points with a vector is one of `limit` quotients. By the division lemmas
(`QuotientGrows`, `OrdinalsSpread`) these grow strictly from the first ordinal to the last, and each is the rank of exactly one
point (`PointAtOrdinal`, by a bijection from points to ranks), so the sample has as many points as the limit allows and ends at both ends of the array. `GlyphsInv`
is the stateful half: what the renderer draws is what the controller owns.

**Local files.** Paths and lists of timesteps have any length, so what the code computes of them in a loop needs induction. The
library's induction theorems take an operator as a parameter, which the provers cannot instantiate; `UpTo` states
the one induction that is needed about a set instead (what holds at 0 and goes on from each number to the next holds up to the last), from the existence of a least counterexample. From it
come what a normalised path is (`NormalizedClean`, `NormalizedAppend`, `NormalizedJoined`: where a path leads depends on where its directory
is only) and what the reading of a collection keeps (`FirstPartsListed`). Timesteps with times of their own can be sorted, by their ranks (`SortExists`), so the `CHOOSE` of the sort means something.
The state needs `LocalInv`: the URLs of open datasets are disjoint and none is above the last one made.

| Theorem (DisplayProofs) | Property |
|---|---|
| `GlyphsInvariant`, `GlyphsShowArray` | its inductive invariant, `ArrowsOfArray` |
| `LocalInvariant`, `LocalShowsFiles` | its inductive invariant, `LocalStepsPlay` |

**Tables.** The file is any text that a writer of CSV makes of any cells, with quotes where they are needed, either line end, and a last
line that may lack it. What `parseCsv` reads of a text grows by one character (`ReadAppend`), and again by `UpTo` come the lemmas about
a cell in quotes or without (`ReadCell`), a row (`ReadRow`) and a line (`ReadLine`): wherever a line starts, reading it adds its row and leaves
the reader at the start of the next. `TableInvariant` says that for the whole text (`TextRead`). The head that `readCsvHead` keeps is cut after its
last line end (`HeadCut`); `HeaderWritten` says that the first row is in it, and `LinesRead` that what is read of any beginning of the text that ends with a line
end is that many rows of the table. That needs cells without line ends, as `OfferedColumns` does: of a row that is cut
after a line end in quotes, the code keeps a part. `TableAssumption` has what a table must be like: a first row with a text that fits into the head with its
line end, and no cell that ends with a carriage return, which `parseCsv` takes away from the end of a row whether it was quoted or not. The proof also
showed that a last line without any text or line end is no line: `WriteRow` now has that guard.

| Theorem (InputProofs) | Property |
|---|---|
| `TablesInvariant`, `TableDrawnAsWritten` | the inductive invariant, `TableIsDrawn` |

**Model-checked only.** `JobSettles`, `OutboxDrains`, `ReservationEnds`, `CallsEnd`, `EndsAreShown` and `PlaybackGoesOn`: liveness under
fairness is out of this prover's reach. `ValuesFollow` and `BoundaryOfSolids` (which faces the cells of a mesh have) and `ReadAsWritten` (encoded
arrays): each is about a reader that goes over its input with several loops, or counts enumerated faces, and would need an induction for every one of them.

## Findings

`ingest_stuck`: `run_ingest` reserves the dataset (services.py:136) without looking at its job. A
cancellation that commits between the claim and the reservation has nothing to reset;
if the worker then dies (or its revert fails), nothing else will: the retry
finds a canceled job and returns, and the failure callback and the start's recovery skip jobs that
are not active. The dataset stays "ingesting" and the endpoint answers 409, although the
docstring (services.py:126) rules that out.

The following are configurations to run by hand; each ends with a counterexample.

`LocalPostgres.cfg` with `EveryJobEnds` as its only property: "persist all job failures" (jobs.py:635) holds for failures inside the `try` block
of `_run_job`. An error of the database or of the lock in `job_execution_lock`, in `_claim_job` (jobs.py:621), or in `_publish_failure` and
`_publish_canceled` themselves leaves `JobManager._run`. The pool keeps it in a Future that `submit` dropped; the `finally` block has taken
the event away (jobs.py:768), so a cancel request is answered with 409 although the job is active, and stays so until the process
starts again. `RefusalIsHonest` without its last disjunct fails in the same state. RQ counts such an exception as a failed delivery and comes back.

`RQStaleCancel` (`SuccessIsNotRevoked`): on PostgreSQL, `cancel_job` loads the job and finds it running
(routers/jobs.py:206); a worker's `_publish_success`, which locks only the job's row, commits
success; `locked_job` in `_mark_canceled` then gets the row lock, but its `SELECT ... FOR
UPDATE` does not refresh the instance the session already holds (no
`populate_existing`), so the check at jobs.py:733 sees an active job, and the commit turns
a succeeded job into a canceled one and hands its artifact to the outbox. On
SQLite the request holds the write lock from its start and the lifecycle is implemented. The
consistency of tables, outbox and store (`JobsOwnTheirObjects`) survives the race on both databases.

`IngestOverwritten` (`ReadyIsNotOverwritten`): a cancellation releases the dataset at once (jobs.py:738), so the next ingest may
succeed while the canceled worker still parses. When that worker notices, it sets the dataset
to "registered" whatever it is by then (services.py:170) and a ready dataset is no longer
viewable until it is ingested again.

`CacheCopyLost` (`CopyInSeesItsFile`): `copy_in` of the S3 store asks for the size of its cached file (storage.py:331) after its own
eviction, without a lock or a lease. The eviction of another thread spares that thread's file only and may
remove this one first, when the cache is small for what is in use: the call then raises `FileNotFoundError`,
and a job or a promotion fails although its object is stored.

`LostServer` (`LostServerIsGone`): the effect that lists the projects (App.tsx:457) has no ticket and no cleanup. Its answer may come after a
disconnect or another attempt, and puts the projects of the lost server back on the page; with a deep link it switches to one of them.

`RemoteOfOther` (`RemoteOfSelection`): `startRemote` looks at its ticket's project only. A selection that was under way at
the click ends before `createSession` answers, and the session of the previous dataset is then streamed beside the new selection. The comment at
useRemoteSession.ts:32 names that as what must not happen.

`UndoCrosses` (`HistoryOfDataset`): `reset` empties both stacks "so undo never crosses a dataset/project boundary"
(useDisplayState.ts:317). When it is called between a render and its effects, for instance after a fetched row or a loaded frame has changed the
page, the recording effect of that earlier render runs after it and puts the previous dataset's snapshots back onto the stacks.

A last one has no configuration: `OnlyUserSwitches` (Workspace) is violated by the same effect, which runs again
whenever the display changes, since `switchProject` depends on it (App.tsx:467), and follows the deep link again after the user has chosen
another project. `DatasetJobs.cfg` with `Environments <- ServerPage`, `Handlers = {"edit"}` and this one property shows it.

## Abstractions

- Each job writes one artifact under its stable key, so keys are jobs. Suffix variants of
  a key (`_job_object_suffixes`) stand for one object.
- Each job of the job modules has a project of its own. Jobs of one project meet only in the project's lock.
- The outbox is a set: two rows of one key and scope collapse into one, which is the
  harder case, since one acknowledgement then consumes both intents.
- Drains take rows in any order and without a batch limit.
- The API's drains cover those of the RQ worker's `main` at its start, which select the same rows; its reconciliation is modelled (`StartWorker`).
- Job kinds differ in their producers only; ingest jobs, which write a dataset instead of
  an artifact, have the module `IngestDataset`.
- `IngestDataset` has one dataset, started jobs that are never lost before their submission
  (`RQJobs` has that), and atomic transactions, as on SQLite. The local back end differs in the recovery at
  start, which is `EndJob` of every active job, and in the event, which only makes a cancellation
  visible earlier. The metadata are a function of the immutable object and left out.
- `ObjectCache` leaves the order and the age of files open (any file may be the oldest, and any may have expired), covers one life of a process
  (no restart, no `reset_after_fork`), and gives each thread one call at a time: a job that copies while it
  holds a path is two threads of the model. Partial files are skipped by evictions and left out.
- The content of objects, artifacts, logs and progress is left out. The checks of
  `persist_job_artifact` and `_validate_existing_artifact` on names and types of an existing artifact
  row are taken to succeed, since the same job computes the same values.
- `Workspace` runs the effects of a state change in the step that makes it; what they do depends on nothing that
  could change in between. Rows that change in place (tags, renames, roles) and errors on the screen are left out. The server is one
  whose rows do not change while they are listed.
- `JobBoard` takes the versions of one job's snapshots to grow with its status, as `updated_at` does, without ties, and is checked with one poll loop per
  page. A change of the language, which starts that loop anew (useJobPolling.ts:59), is left out: it drops the poll under way and asks again.
- The pieces of a VTU file have the same point arrays, as the format asks; the reader does not look (vtu.ts:95), and `ReadMeshPiece` takes it from the file.
- X, Y and Z of a table are three of the numeric columns, as the page offers them. A saved view may name other columns, which the same function draws.
- Nothing in the code keeps a colour map registered that only an undo stack or a restored view that waits for its dataset refers to.
  `Palette` evicts such maps as the code does; an `Undo` may then show a map that is gone, and rendering it throws. A view whose pipeline has no reader is refused
  after its map was registered (usePipelineActions.ts:72-84), so its map stays.
- `Display` leaves out the comparison's second timestep, which `Comparison` has, and fields that are not in a snapshot (axes, runtime range).
- `Viewer` and `Comparison` know a file by dataset and timestep, and a camera by whom it was fitted to or that it was turned. What vtk.js draws is not modelled.
- The format modules know bytes, values and names by where they come from, never by their contents; image data and slices are left out.

Not modelled: the server's side of projects, members, uploads, promotions, pipelines, render sessions, assist proposals and the job
stream; the supervision of worker processes; the readers of statistics and metadata; presentation. `PROJECT.json` says of each why.

## Plan

Modelled, checked and proved: the job back ends with their outbox, the ingest of a dataset, the object cache, and the browser's
connection, project scope, handlers, job board, display, panes, colour maps, arrows, local files and tables. Modelled and checked: surfaces and data arrays.

Left to model, in this order:

1. `ProjectMembers`: roles at commit time and the last admin; proof by the project's lock.
2. `Uploads`: objects before rows, compensation, project deletion, promotion.
3. `OutboxOrder`: batch, `created_at` order and deferral; no row starves.
4. `RenderSessions`, `AssistProposals`, `Pipelines`, `JobStream`, `WorkerProcess`.

Proofs worth adding: `ReadAsWritten`, by the induction of `UpTo` over arrays and blocks; `ValuesFollow` for structured
grids, where the index arithmetic of points and cells is closed.
