------------------------------- MODULE Workspace -------------------------------
(***************************************************************************)
(* App.tsx with the hooks that talk to the server about projects and       *)
(* datasets: useProjectResources, useDatasetJobs, useDatasetUpload,        *)
(* usePipelineActions, useLocalDatasets, useRemoteSession and useDeepLink. *)
(* Every handler runs to its first await, and goes on when the answer      *)
(* comes; answers come in any order, late, or as failures. The effects     *)
(* that React runs for a state change belong to the step that makes it.    *)
(*                                                                         *)
(* Data are known by where they came from: lists, jobs and artifacts are   *)
(* the sets of the projects or datasets whose rows are on the screen, view *)
(* is the dataset whose settings the display shows, if not the defaults.   *)
(* Left out for that reason: what changes rows in place (tags, renaming    *)
(* and deleting pipelines, the summary of a local scene) and the banners.  *)
(***************************************************************************)
EXTENDS ProjectScope

CONSTANTS
    Kinds,          \* the buttons that start a dataset job
    DeepLink,       \* the page's [project, dataset, list]; list is where it looks
    Handlers        \* bound: the groups of handlers that are called

VARIABLES
    auth,           \* whether OIDC has settled, and how
    projects,       \* the servers whose projects are listed
    lists,          \* datasets, pipelines and members
    artifacts, jobs,
    shown,          \* selectedDatasetId
    view,
    choice,         \* history: the selection a user asked for last, if still to respect
    locals,         \* the browser-local datasets
    linkApplied,    \* deepLinkAppliedRef
    pending,        \* exportPending, convertPending, ..., and clientExportPending
    promoting,      \* promotePendingIds, by the dataset of the artifact
    busy,
    remote,         \* the dataset that remoteSession streams
    remotePending

listVars == <<projects, lists, artifacts, jobs>>
shownVars == <<shown, view, choice, locals, linkApplied>>
flagVars == <<pending, promoting, busy>>
remoteVars == <<remote, remotePending>>
vars == <<connectionVars, scopeVars, calls, auth, listVars, shownVars, flagVars, remoteVars>>

Lists == {"datasets", "pipelines", "members"}
NoLists == [l \in Lists |-> {}]
ClientExport == "client"
NoFlag == "none"

\* A kind of job is none of the other things that calls are marked with.
ASSUME WorkspaceAssumption ==
    /\ Kinds \intersect (Lists \union {ClientExport, NoFlag, "restore"}) = {}
    /\ DeepLink \in [project : MaybeProjects, dataset : MaybeDatasets, list : {"datasets", "pipelines"}]

TypeOK ==
    /\ ConnectionTypeOK /\ ScopeTypeOK
    /\ auth \in {"settling", "ready", "signedOut"}
    /\ projects \subseteq Bases
    /\ lists \in [Lists -> SUBSET Projects]
    /\ artifacts \subseteq Datasets /\ jobs \subseteq Projects
    /\ {shown, view, choice, remote} \subseteq MaybeDatasets
    /\ locals \subseteq LocalDatasets
    /\ pending \subseteq Kinds \union {ClientExport} /\ promoting \subseteq Datasets
    /\ {linkApplied, busy, remotePending} \subseteq BOOLEAN

Init ==
    /\ ConnectionInit /\ ScopeInit
    /\ auth = "settling"
    /\ projects = {} /\ lists = NoLists /\ artifacts = {} /\ jobs = {}
    /\ shown = NoDataset /\ view = NoDataset /\ choice = NoDataset
    /\ locals = {} /\ linkApplied = FALSE
    /\ pending = {} /\ promoting = {} /\ busy = FALSE
    /\ remote = NoDataset /\ remotePending = FALSE

-----------------------------------------------------------------------------
(* What handlers share *)

\* The effect that lists the projects depends on switchProject, and so on every
\* change of the display: each of them lists the projects again.
ListProjectsCall == [RequestOf(NoProject, "listProjects", NoDataset, NoFlag) EXCEPT !.ticket = "stale"]

ListedAgain(changed) == IF changed /\ auth = "ready" THEN {ListProjectsCall} ELSE {}

\* The display shows d's settings from here on, or the defaults.
ShowView(d, waiting) ==
    /\ view' = d
    /\ calls' = waiting \union ListedAgain(Connected /\ view # d)

SwitchedTo(project, waiting) ==
    /\ currentProject' = project /\ selected' = NoDataset
    /\ lists' = NoLists /\ artifacts' = {} /\ jobs' = {}
    /\ shown' = NoDataset /\ choice' = NoDataset
    /\ pending' = {} /\ promoting' = {} /\ busy' = FALSE
    /\ remote' = NoDataset
    /\ ShowView(NoDataset, SwitchedAway(waiting) \union
                  {RequestOf(project, "list", NoDataset, l) : l \in Lists})
    /\ UNCHANGED <<locals, linkApplied, remotePending>>

\* The selection of d is made: the display starts over, a session of another
\* dataset stops, and the artifacts of d are asked for.
Selected(d, restored, waiting) ==
    /\ shown' = d /\ selected' = d
    /\ remote' = IF remote = d THEN d ELSE NoDataset
    /\ artifacts' = {}
    /\ ShowView(restored, waiting)

\* The effect that drops the server's resources when the connection is lost.
ServerLost ==
    /\ projects' = {}
    /\ IF HasTicket
       THEN /\ currentProject' = NoProject /\ selected' = NoDataset
            /\ calls' = SwitchedAway(calls)
            /\ lists' = NoLists /\ artifacts' = {} /\ jobs' = {}
       ELSE UNCHANGED <<scopeVars, calls, lists, artifacts, jobs>>
    /\ shown' = IF shown \in locals THEN shown ELSE NoDataset
    /\ choice' = NoDataset
    /\ remote' = NoDataset
    /\ UNCHANGED <<auth, view, locals, linkApplied, flagVars, remotePending>>

-----------------------------------------------------------------------------
(* Connection and sign-in *)

Rest == <<scopeVars, calls, auth, listVars, shownVars, flagVars, remoteVars>>

UserConnects(base) == Connect(base) /\ IF Connected THEN ServerLost ELSE UNCHANGED Rest
UserDisconnects == Disconnect /\ IF Connected THEN ServerLost ELSE UNCHANGED Rest
UserRetries == ~Connected /\ Retry /\ UNCHANGED Rest
UserMistypes == ConnectInvalid /\ UNCHANGED Rest
ServerFails(h) == HealthFails(h) /\ UNCHANGED Rest
ServerIsHealthy(h) == HealthAnswers(h) /\ UNCHANGED Rest

ServerDescribes(h, described) ==
    /\ CapabilitiesAnswer(h, described)
    /\ calls' = calls \union ListedAgain(connection'.epoch # connection.epoch)
    /\ UNCHANGED <<scopeVars, auth, listVars, shownVars, flagVars, remoteVars>>

AuthSettles(signedIn) ==
    /\ auth = "settling"
    /\ auth' = IF signedIn THEN "ready" ELSE "signedOut"
    /\ calls' = IF signedIn /\ Connected THEN calls \union {ListProjectsCall} ELSE calls
    /\ UNCHANGED <<connectionVars, scopeVars, listVars, shownVars, flagVars, remoteVars>>

-----------------------------------------------------------------------------
(* Projects *)

\* The project menu of a page that lists the project.
SwitchProject(p) ==
    /\ Connected /\ Room
    /\ BaseOf[p] \in projects /\ p # currentProject
    /\ SwitchedTo(p, calls)
    /\ UNCHANGED <<connectionVars, auth, projects>>

CreateProject ==
    /\ Connected /\ Room
    /\ calls' = calls \union {Request("createProject", NoDataset, NoFlag)}
    /\ UNCHANGED <<connectionVars, scopeVars, auth, listVars, shownVars, flagVars, remoteVars>>

\* A ticket of no project is null; then only a page without a project switches.
ProjectCreated(c, p) ==
    /\ c \in calls /\ c.op = "createProject" /\ BaseOf[p] = c.base
    /\ projects' = projects \union {c.base}
    /\ IF IF c.project # NoProject THEN StillCurrent(c) ELSE ~HasTicket
       THEN SwitchedTo(p, calls \ {c})
       ELSE /\ calls' = calls \ {c}
            /\ UNCHANGED <<scopeVars, lists, artifacts, jobs, shownVars, flagVars, remoteVars>>
    /\ UNCHANGED <<connectionVars, auth>>

ProjectsListed(c) ==
    /\ c \in calls /\ c.op = "listProjects" /\ c.base # NoBase
    /\ projects' = {c.base}
    /\ IF /\ DeepLink.project # NoProject /\ currentProject # DeepLink.project
          /\ BaseOf[DeepLink.project] = c.base
       THEN SwitchedTo(DeepLink.project, calls \ {c})
       ELSE /\ calls' = calls \ {c}
            /\ UNCHANGED <<scopeVars, lists, artifacts, jobs, shownVars, flagVars, remoteVars>>
    /\ UNCHANGED <<connectionVars, auth>>

\* An answer of a project's list: a list that fails stays, but for the members.
ListAnswers(c, ok) ==
    /\ c \in calls /\ c.op = "list" /\ (ok => Answerable(c))
    /\ calls' = calls \ {c}
    /\ lists' = IF StillCurrent(c) /\ (ok \/ c.flag = "members")
                THEN [lists EXCEPT ![c.flag] = IF ok THEN {c.project} ELSE {}] ELSE lists
    /\ UNCHANGED <<connectionVars, scopeVars, auth, projects, artifacts, jobs, shownVars,
                   flagVars, remoteVars>>

\* putMember and deleteMember read the membership again.
ChangeMembers ==
    /\ HasTicket /\ currentProject \in lists["members"] /\ Room
    /\ calls' = calls \union {Request("member", NoDataset, NoFlag)}
    /\ UNCHANGED <<connectionVars, scopeVars, auth, listVars, shownVars, flagVars, remoteVars>>

MembersChanged(c) ==
    /\ c \in calls /\ c.op = "member" /\ Answerable(c)
    /\ calls' = (calls \ {c}) \union
         (IF StillCurrent(c) THEN {Request("list", NoDataset, "members")} ELSE {})
    /\ UNCHANGED <<connectionVars, scopeVars, auth, listVars, shownVars, flagVars, remoteVars>>

\* savePipeline adds the new row to the list on the screen.
SavePipeline ==
    /\ HasTicket /\ Connected /\ shown \in Datasets /\ Room
    /\ calls' = calls \union {Request("savePipeline", NoDataset, NoFlag)}
    /\ UNCHANGED <<connectionVars, scopeVars, auth, listVars, shownVars, flagVars, remoteVars>>

PipelineSaved(c) ==
    /\ c \in calls /\ c.op = "savePipeline" /\ Answerable(c)
    /\ calls' = calls \ {c}
    /\ lists' = IF StillCurrent(c) THEN [lists EXCEPT !["pipelines"] = @ \union {c.project}]
                ELSE lists
    /\ UNCHANGED <<connectionVars, scopeVars, auth, projects, artifacts, jobs, shownVars,
                   flagVars, remoteVars>>

-----------------------------------------------------------------------------
(* Selection *)

Listed(d) == Connected /\ ProjectOf[d] \in lists["datasets"]

\* selectDataset of a server dataset: a new selection overtakes the older ones.
AskFor(d, flag) ==
    /\ HasTicket
    /\ choice' = d
    /\ calls' = Overtaken(calls) \union {Request("select", d, flag)}
    /\ UNCHANGED scopeVars

SelectDataset(d) ==
    /\ Room /\ Listed(d) /\ AskFor(d, NoFlag)
    /\ UNCHANGED <<connectionVars, auth, listVars, shown, view, locals, linkApplied,
                   flagVars, remoteVars>>

\* restorePipeline: the selection of the pipeline's dataset, then its view.
RestorePipeline(d) ==
    /\ Room /\ currentProject = ProjectOf[d] /\ currentProject \in lists["pipelines"]
    /\ AskFor(d, "restore")
    /\ UNCHANGED <<connectionVars, auth, listVars, shown, view, locals, linkApplied,
                   flagVars, remoteVars>>

ApplyDeepLink ==
    /\ ~linkApplied /\ DeepLink.project # NoProject /\ currentProject = DeepLink.project
    /\ DeepLink.dataset \in Datasets /\ ProjectOf[DeepLink.dataset] \in lists[DeepLink.list]
    /\ linkApplied' = TRUE
    /\ AskFor(DeepLink.dataset, IF DeepLink.list = "pipelines" THEN "restore" ELSE NoFlag)
    /\ UNCHANGED <<connectionVars, auth, listVars, shown, view, locals, flagVars, remoteVars>>

DatasetAnswers(c) ==
    /\ c \in calls /\ c.op = "select" /\ Answerable(c)
    /\ IF StillLatest(c)
       THEN /\ Selected(c.dataset, IF c.flag = "restore" THEN c.dataset ELSE NoDataset,
                        (calls \ {c}) \union {Request("listArtifacts", c.dataset, NoFlag)})
       ELSE calls' = calls \ {c} /\ UNCHANGED <<selected, shown, view, artifacts, remote>>
    /\ UNCHANGED <<connectionVars, currentProject, auth, projects, lists, jobs, choice, locals,
                   linkApplied, flagVars, remotePending>>

DatasetFails(c) ==
    /\ c \in calls /\ c.op = "select"
    /\ calls' = calls \ {c}
    /\ choice' = IF StillLatest(c) THEN NoDataset ELSE choice
    /\ UNCHANGED <<connectionVars, scopeVars, auth, listVars, shown, view, locals, linkApplied,
                   flagVars, remoteVars>>

\* A change of the display by its controls.
EditDisplay ==
    /\ shown # NoDataset /\ view # shown /\ Room
    /\ ShowView(shown, calls)
    /\ UNCHANGED <<connectionVars, scopeVars, auth, listVars, shown, choice, locals, linkApplied,
                   flagVars, remoteVars>>

-----------------------------------------------------------------------------
(* Browser-local datasets *)

SelectLocalDataset(d, waiting) ==
    /\ choice' = d
    /\ Selected(d, NoDataset, Overtaken(waiting))
    /\ UNCHANGED <<connectionVars, currentProject, auth, projects, lists, jobs, linkApplied, flagVars, remotePending>>

SelectLocal(d) == d \in locals /\ d # shown /\ SelectLocalDataset(d, calls) /\ UNCHANGED locals

\* openLocal and openLocalSample read the files, then select what they hold.
OpenLocal(d) ==
    /\ Room /\ d \notin locals
    /\ calls' = calls \union {[ListProjectsCall EXCEPT !.op = "openLocal", !.dataset = d]}
    /\ UNCHANGED <<connectionVars, scopeVars, auth, listVars, shownVars, flagVars, remoteVars>>

LocalOpened(c) ==
    /\ c \in calls /\ c.op = "openLocal"
    /\ locals' = locals \union {c.dataset}
    /\ SelectLocalDataset(c.dataset, calls \ {c})

RemoveLocal(d) ==
    /\ d \in locals
    /\ locals' = locals \ {d}
    /\ shown' = IF shown = d THEN NoDataset ELSE shown
    /\ UNCHANGED <<connectionVars, scopeVars, calls, auth, listVars, view, choice, linkApplied,
                   flagVars, remoteVars>>

-----------------------------------------------------------------------------
(* Dataset jobs *)

ServerSelected == Connected /\ HasTicket /\ shown \in Datasets

RunDatasetJob(kind) ==
    /\ ServerSelected /\ Room /\ kind \notin pending
    /\ pending' = pending \union {kind}
    /\ calls' = calls \union {Request("createJob", selected, kind)}
    /\ UNCHANGED <<connectionVars, scopeVars, auth, listVars, shownVars, promoting, busy, remoteVars>>

\* runPipeline and onAssistJobCreated track a job no button waits for.
RunUnflaggedJob ==
    /\ HasTicket /\ Connected /\ currentProject \in lists["pipelines"] /\ Room
    /\ calls' = calls \union {Request("createJob", NoDataset, NoFlag)}
    /\ UNCHANGED <<connectionVars, scopeVars, auth, listVars, shownVars, flagVars, remoteVars>>

JobShown(c) == IF StillCurrent(c) THEN jobs \union {c.project} ELSE jobs
FlagClearedIfLatest(c) == IF StillLatest(c) THEN pending \ {c.flag} ELSE pending
FlagCleared(c) == IF StillCurrent(c) THEN pending \ {c.flag} ELSE pending

JobCreated(c) ==
    /\ c \in calls /\ c.op = "createJob" /\ Answerable(c)
    /\ jobs' = JobShown(c)
    /\ calls' = (calls \ {c}) \union {Continue(c, "pollJob")}
    /\ UNCHANGED <<connectionVars, scopeVars, auth, projects, lists, artifacts, shownVars,
                   flagVars, remoteVars>>

\* One answer of the poll: the job goes on, has failed, or has succeeded; then
\* the artifacts of the dataset selected by now are read before the flag clears.
JobPolled(c, outcome) ==
    /\ c \in calls /\ c.op = "pollJob" /\ Answerable(c)
    /\ jobs' = JobShown(c)
    /\ CASE outcome = "active" ->
              /\ calls' = (calls \ {c}) \union {Continue(c, "pollJob")}
              /\ UNCHANGED pending
         [] outcome = "succeeded" /\ StillCurrent(c) /\ selected # NoDataset ->
              /\ calls' = (calls \ {c}) \union {Request("listArtifacts", selected, c.flag)}
              /\ UNCHANGED pending
         [] OTHER -> calls' = calls \ {c} /\ pending' = FlagCleared(c)
    /\ UNCHANGED <<connectionVars, scopeVars, auth, projects, lists, artifacts, shownVars,
                   promoting, busy, remoteVars>>

ArtifactsListed(c, ok) ==
    /\ c \in calls /\ c.op = "listArtifacts" /\ (ok => Answerable(c) /\ c.dataset \in Datasets)
    /\ calls' = calls \ {c}
    /\ artifacts' = IF ok /\ StillSelected(c) THEN {c.dataset} ELSE artifacts
    /\ pending' = FlagCleared(c)
    /\ UNCHANGED <<connectionVars, scopeVars, auth, projects, lists, jobs, shownVars,
                   promoting, busy, remoteVars>>

\* onScreenshotCaptured and onGeometryExported store what the viewer hands over.
UploadArtifact(flag) ==
    /\ ServerSelected /\ Room /\ flag \notin pending
    /\ pending' = IF flag = ClientExport THEN pending \union {flag} ELSE pending
    /\ calls' = calls \union {Request("uploadArtifact", shown, flag)}
    /\ UNCHANGED <<connectionVars, scopeVars, auth, listVars, shownVars, promoting, busy, remoteVars>>

ArtifactUploaded(c, ok) ==
    /\ c \in calls /\ c.op = "uploadArtifact" /\ (ok => Answerable(c))
    /\ calls' = calls \ {c}
    /\ artifacts' = IF ok /\ StillSelected(c) THEN artifacts \union {c.dataset} ELSE artifacts
    /\ pending' = pending \ {c.flag}
    /\ UNCHANGED <<connectionVars, scopeVars, auth, projects, lists, jobs, shownVars,
                   promoting, busy, remoteVars>>

\* promoteArtifact: a dataset made of an artifact, then its ingest.
PromoteArtifact(d) ==
    /\ HasTicket /\ Connected /\ d \in artifacts \ promoting /\ Room
    /\ promoting' = promoting \union {d}
    /\ calls' = calls \union {Request("promote", d, NoFlag)}
    /\ UNCHANGED <<connectionVars, scopeVars, auth, listVars, shownVars, pending, busy, remoteVars>>

ArtifactPromoted(c) ==
    /\ c \in calls /\ c.op = "promote" /\ Answerable(c)
    /\ jobs' = JobShown(c)
    /\ calls' = (calls \ {c}) \union {Continue(c, "pollPromoted")}
    /\ UNCHANGED <<connectionVars, scopeVars, auth, projects, lists, artifacts, shownVars,
                   flagVars, remoteVars>>

\* The ingest of the promoted dataset ends, and the datasets are read again.
PromotedIngested(c) ==
    /\ c \in calls /\ c.op = "pollPromoted" /\ Answerable(c)
    /\ jobs' = JobShown(c)
    /\ IF StillCurrent(c)
       THEN calls' = (calls \ {c}) \union {Continue(c, "promoteList")} /\ UNCHANGED promoting
       ELSE calls' = calls \ {c} /\ promoting' = promoting \ {c.dataset}
    /\ UNCHANGED <<connectionVars, scopeVars, auth, projects, lists, artifacts, shownVars,
                   pending, busy, remoteVars>>

PromotedListed(c, ok) ==
    /\ c \in calls /\ c.op = "promoteList" /\ (ok => Answerable(c))
    /\ calls' = calls \ {c}
    /\ lists' = IF ok /\ StillCurrent(c) THEN [lists EXCEPT !["datasets"] = {c.project}] ELSE lists
    /\ promoting' = promoting \ {c.dataset}
    /\ UNCHANGED <<connectionVars, scopeVars, auth, projects, artifacts, jobs, shownVars,
                   pending, busy, remoteVars>>

-----------------------------------------------------------------------------
(* Upload *)

\* The finished upload is selected unless another selection began meanwhile.
Upload(d) ==
    /\ HasTicket /\ Connected /\ ProjectOf[d] = currentProject /\ Room
    /\ busy' = TRUE
    /\ choice' = NoDataset
    /\ calls' = calls \union {Request("upload", d, NoFlag)}
    /\ UNCHANGED <<connectionVars, scopeVars, auth, listVars, shown, view, locals, linkApplied,
                   pending, promoting, remoteVars>>

\* The dataset is stored, and then its ingest asked for.
Uploaded(c) ==
    /\ c \in calls /\ c.op = "upload" /\ Answerable(c)
    /\ calls' = (calls \ {c}) \union {Continue(c, "pollIngest")}
    /\ busy' = (busy \/ StillCurrent(c))
    /\ UNCHANGED <<connectionVars, scopeVars, auth, listVars, shownVars, pending, promoting, remoteVars>>

UploadIngested(c, ended) ==
    /\ c \in calls /\ c.op = "pollIngest" /\ Answerable(c)
    /\ jobs' = JobShown(c)
    /\ busy' = (busy \/ StillCurrent(c))
    /\ calls' = (calls \ {c}) \union
         (IF ~ended THEN {Continue(c, "pollIngest")}
          ELSE IF StillCurrent(c) THEN {Continue(c, "uploadList")} ELSE {})
    /\ UNCHANGED <<connectionVars, scopeVars, auth, projects, lists, artifacts, shownVars,
                   pending, promoting, remoteVars>>

UploadListed(c, ok) ==
    /\ c \in calls /\ c.op = "uploadList" /\ (ok => Answerable(c))
    /\ lists' = IF ok /\ StillCurrent(c) THEN [lists EXCEPT !["datasets"] = {c.project}] ELSE lists
    /\ IF StillLatest(c)
       THEN /\ selected' = c.dataset
            /\ shown' = c.dataset /\ artifacts' = {}
            /\ ShowView(NoDataset, Overtaken(calls \ {c}) \union
                          {Request("listArtifacts", c.dataset, NoFlag)})
       ELSE calls' = calls \ {c} /\ UNCHANGED <<selected, shown, artifacts, view>>
    /\ busy' = (busy /\ ~StillCurrent(c))
    /\ UNCHANGED <<connectionVars, currentProject, auth, projects, jobs, choice, locals,
                   linkApplied, pending, promoting, remoteVars>>

-----------------------------------------------------------------------------
(* Remote session *)

StartRemote ==
    /\ ServerSelected /\ ~remotePending /\ Room
    /\ remotePending' = TRUE
    /\ calls' = calls \union {Request("createSession", selected, NoFlag)}
    /\ UNCHANGED <<connectionVars, scopeVars, auth, listVars, shownVars, flagVars, remote>>

RemoteStartedUnchecked(c) ==
    /\ c \in calls /\ c.op = "createSession" /\ Answerable(c)
    /\ calls' = calls \ {c}
    /\ remotePending' = FALSE
    /\ remote' = c.dataset
    /\ UNCHANGED <<connectionVars, scopeVars, auth, listVars, shownVars, flagVars>>
RemoteStarted(c) ==
    /\ c \in calls /\ c.op = "createSession" /\ Answerable(c)
    /\ calls' = calls \ {c}
    /\ remotePending' = FALSE
    /\ remote' = IF StillCurrent(c) THEN c.dataset ELSE remote
    /\ UNCHANGED <<connectionVars, scopeVars, auth, listVars, shownVars, flagVars>>

StopRemote ==
    /\ remote # NoDataset /\ ~remotePending /\ Room
    /\ remotePending' = TRUE
    /\ calls' = calls \union {Request("deleteSession", remote, NoFlag)}
    /\ UNCHANGED <<connectionVars, scopeVars, auth, listVars, shownVars, flagVars, remote>>

RemoteStopped(c) ==
    /\ c \in calls /\ c.op = "deleteSession"
    /\ calls' = calls \ {c}
    /\ remote' = NoDataset /\ remotePending' = FALSE
    /\ UNCHANGED <<connectionVars, scopeVars, auth, listVars, shownVars, flagVars>>

-----------------------------------------------------------------------------
\* A request that fails ends its handler, which clears what its finally clears.
CallFails(c) ==
    /\ c \in calls
    /\ c.op \in {"listProjects", "createProject", "member", "savePipeline", "openLocal", "createJob",
                 "pollJob", "promote", "pollPromoted", "upload", "pollIngest", "createSession"}
    /\ calls' = calls \ {c}
    /\ pending' = IF c.op \in {"createJob", "pollJob"} THEN FlagCleared(c) ELSE pending
    /\ promoting' = IF c.op \in {"promote", "pollPromoted"} THEN promoting \ {c.dataset} ELSE promoting
    /\ busy' = (busy /\ ~(c.op \in {"upload", "pollIngest"} /\ StillCurrent(c)))
    /\ remotePending' = (remotePending /\ c.op # "createSession")
    /\ UNCHANGED <<connectionVars, scopeVars, auth, listVars, shownVars, remote>>

\* The handlers that an instance leaves out are not called.
ConnectionNext ==
    \/ \E b \in Bases : UserConnects(b)
    \/ UserDisconnects \/ UserRetries \/ ("mistype" \in Handlers /\ UserMistypes)
    \/ \E h \in handshakes : ServerFails(h) \/ ServerIsHealthy(h)
    \/ \E h \in handshakes, described \in BOOLEAN : ServerDescribes(h, described)
    \/ \E signedIn \in BOOLEAN : AuthSettles(signedIn)

UserNext ==
    \/ \E p \in Projects : SwitchProject(p)
    \/ \E d \in Datasets : SelectDataset(d)
    \/ "create" \in Handlers /\ CreateProject
    \/ "edit" \in Handlers /\ EditDisplay
    \/ "members" \in Handlers /\ ChangeMembers
    \/ "pipelines" \in Handlers /\ (SavePipeline \/ \E d \in Datasets : RestorePipeline(d))
    \/ "upload" \in Handlers /\ \E d \in Datasets : Upload(d)
    \/ "local" \in Handlers /\ \E d \in LocalDatasets : SelectLocal(d) \/ OpenLocal(d) \/ RemoveLocal(d)
    \/ "jobs" \in Handlers /\ (RunUnflaggedJob \/ \E kind \in Kinds : RunDatasetJob(kind))
    \/ "artifacts" \in Handlers /\ \/ \E d \in Datasets : PromoteArtifact(d)
                                   \/ \E flag \in {ClientExport, NoFlag} : UploadArtifact(flag)
    \/ "remote" \in Handlers /\ (StartRemote \/ StopRemote)

AnswerNext ==
    \/ \E c \in calls, p \in Projects : ProjectCreated(c, p)
    \/ \E c \in calls :
         \/ ProjectsListed(c) \/ MembersChanged(c) \/ PipelineSaved(c)
         \/ DatasetAnswers(c) \/ DatasetFails(c) \/ LocalOpened(c)
         \/ JobCreated(c) \/ ArtifactPromoted(c) \/ PromotedIngested(c)
         \/ Uploaded(c) \/ RemoteStarted(c) \/ RemoteStopped(c) \/ CallFails(c)
    \/ \E c \in calls, ok \in BOOLEAN :
         \/ ListAnswers(c, ok) \/ ArtifactsListed(c, ok) \/ ArtifactUploaded(c, ok)
         \/ PromotedListed(c, ok) \/ UploadIngested(c, ok) \/ UploadListed(c, ok)
    \/ \E c \in calls, outcome \in {"active", "succeeded", "ended"} : JobPolled(c, outcome)

Next == ConnectionNext \/ UserNext \/ AnswerNext \/ ApplyDeepLink

Spec == Init /\ [][Next]_vars

-----------------------------------------------------------------------------
(* Properties *)

\* Whatever answers come late, the datasets, pipelines, members and jobs on the
\* screen are those of the project the page is on (the tickets of useProjectScope).
ListsOfProject ==
    \A shownProjects \in {lists[l] : l \in Lists} \union {jobs} :
        shownProjects \subseteq {currentProject} \ {NoProject}

\* The artifacts on the screen are those of the dataset on the screen.
ArtifactsOfSelection == artifacts \subseteq {shown}

\* A server dataset is shown only in its own project, and the ref that the handlers
\* read for it says the same as the state that is rendered.
SelectionOfProject ==
    shown \in Datasets => currentProject = ProjectOf[shown] /\ selected = shown

\* Settings restored from a pipeline, or made by hand, are never shown for a dataset
\* other than the one they belong to.
ViewOfSelection == shown # NoDataset => view \in {shown, NoDataset}

\* Together: everything that the page shows belongs to its project and dataset.
PageOfProject == TypeOK /\ ListsOfProject /\ SelectionOfProject /\ ViewOfSelection

\* A button that waits for a job does so only while a handler of this project that
\* will release it is still waiting: no button stays disabled for good.
PendingHasHandler ==
    \A flag \in pending :
        HasTicket => \E c \in calls : c.flag = flag /\ (StillCurrent(c) \/ flag = ClientExport)

\* A server dataset that comes up on the screen is the one asked for last: neither
\* an older selection nor a finished upload takes the screen from the user's choice.
LatestChoiceWins ==
    [][shown' # shown /\ shown' \in Datasets /\ choice # NoDataset => shown' = choice]_vars

\* A remote session on the screen belongs to the project the page is on; a late
\* answer of createSession never brings back one of a project that was left.
RemoteOfProject == remote # NoDataset => HasTicket /\ ProjectOf[remote] = currentProject

\* A page that has lost its server shows nothing of it.
LostServerIsGone == ~Connected => projects = {} /\ ~HasTicket /\ remote = NoDataset

\* The remote session that the viewer streams is of the dataset on the screen.
RemoteOfSelection == remote # NoDataset => remote = shown

\* Once the user is on a project, only the user leaves it for another.
OnlyUserSwitches ==
    [][HasTicket /\ currentProject' \in Projects \ {currentProject}
       => \E p \in Projects : SwitchProject(p) \/ \E c \in calls : ProjectCreated(c, p)]_vars
=============================================================================
