------------------------------- MODULE JobBoard -------------------------------
(***************************************************************************)
(* The list of jobs on the page (useJobPolling, mergeJobSnapshots): a loop *)
(* polls the jobs of the current project, the handlers that started a job  *)
(* poll that one (api.pollJob), and cancel requests answer with the job.   *)
(* All of them merge what the server said some time ago into one list.     *)
(*                                                                         *)
(* A snapshot is a function from jobs to [status, version]; version stands *)
(* for updated_at. A request gets its answer from the server at one time   *)
(* and delivers it at another. "stale" says that the project was switched  *)
(* since the request's ticket was captured, or its effect cleaned up.      *)
(***************************************************************************)
EXTENDS Integers, FiniteSets

CONSTANTS
    Projects, NoProject,
    Jobs,
    ProjectOf,          \* the project of each job
    MaxCalls            \* bound: handlers start while fewer calls wait

ASSUME JobBoardAssumption ==
    /\ NoProject \notin Projects
    /\ ProjectOf \in [Jobs -> Projects]
    /\ MaxCalls \in Nat

VARIABLES
    server,             \* the jobs in the database
    project,            \* the current project
    timer,              \* the poll loop waits for its timer
    calls,              \* the requests that have not been answered
    board,              \* jobs: a snapshot
    canceling           \* cancelingRef

boardVars == <<server, project, timer, calls, board, canceling>>

Active == {"queued", "running"}             \* isCancellable
Terminal == {"succeeded", "failed", "canceled"}
Job == [status : Active \union Terminal, version : Nat \ {0}]
NotYet == [status |-> "none", version |-> 0]
NoJobs == [j \in {} |-> NotYet]            \* also what a request holds before its answer

Exists(j) == server[j] # NotYet

BoardTypeOK ==
    /\ server \in [Jobs -> Job \union {NotYet}]
    /\ project \in Projects \union {NoProject}
    /\ timer \in BOOLEAN
    /\ \A c \in calls : /\ c.op \in {"list", "track", "cancel"}
                        /\ c.jobs \subseteq Jobs /\ {c.stale, c.served} \subseteq BOOLEAN
    /\ \A j \in DOMAIN board : ProjectOf[j] = project /\ board[j].version \in 1..server[j].version
    /\ canceling \subseteq Jobs

\* A job that the list has in a newer version stays as it is.
MergeLatest(current, incoming) ==
    [j \in DOMAIN current \union DOMAIN incoming |->
        IF j \in DOMAIN incoming THEN incoming[j] ELSE current[j]]
MergeJobSnapshots(current, incoming) ==
    [j \in DOMAIN current \union DOMAIN incoming |->
        IF j \notin DOMAIN incoming
           \/ (j \in DOMAIN current /\ current[j].version > incoming[j].version)
        THEN current[j] ELSE incoming[j]]

Request(op, jobs) == [op |-> op, jobs |-> jobs, stale |-> FALSE, served |-> FALSE, answer |-> NoJobs]
ListRequest(p) == Request("list", {j \in Jobs : ProjectOf[j] = p})
Room == Cardinality(calls) < MaxCalls

BoardInit ==
    /\ server = [j \in Jobs |-> NotYet]
    /\ project = NoProject /\ timer = FALSE
    /\ calls = {} /\ board = NoJobs /\ canceling = {}

-----------------------------------------------------------------------------
(* The server *)

Touched(j, status) == [status |-> status, version |-> server[j].version + 1]

\* A job is created, starts, or ends.
JobProceeds(j) ==
    /\ \/ ~Exists(j) /\ server' = [server EXCEPT ![j] = Touched(j, "queued")]
       \/ /\ server[j].status = "queued"
          /\ server' = [server EXCEPT ![j] = Touched(j, "running")]
       \/ /\ server[j].status = "running"
          /\ \E status \in {"succeeded", "failed"} : server' = [server EXCEPT ![j] = Touched(j, status)]
    /\ UNCHANGED <<project, timer, calls, board, canceling>>

\* The server answers a request; a cancel request ends a job that is active.
Served(c) ==
    /\ c \in calls /\ ~c.served
    /\ LET changed == [j \in Jobs |->
                IF c.op = "cancel" /\ j \in c.jobs /\ server[j].status \in Active
                THEN Touched(j, "canceled") ELSE server[j]]
       IN /\ server' = changed
          /\ calls' = (calls \ {c}) \union
                {[c EXCEPT !.served = TRUE, !.answer = [j \in {k \in c.jobs : Exists(k)} |-> changed[j]]]}
    /\ UNCHANGED <<project, timer, board, canceling>>

-----------------------------------------------------------------------------
(* The poll loop *)

\* Another project, or none once the server is lost: the effect of the old project
\* is cleaned up, and one for the new project asks at once.
Switch(p) ==
    /\ p # project /\ Room
    /\ project' = p
    /\ timer' = FALSE
    /\ calls' = {[c EXCEPT !.stale = TRUE] : c \in calls}
                    \union (IF p = NoProject THEN {} ELSE {ListRequest(p)})
    /\ board' = NoJobs
    /\ UNCHANGED <<server, canceling>>

PollAgain ==
    /\ timer
    /\ timer' = FALSE
    /\ calls' = calls \union {ListRequest(project)}
    /\ UNCHANGED <<server, project, board, canceling>>

PolledOnce(c, ok) ==
    /\ c \in calls /\ c.op = "list" /\ (ok => c.served)
    /\ calls' = calls \ {c}
    /\ board' = IF ok /\ ~c.stale THEN MergeJobSnapshots(board, c.answer) ELSE board
    /\ timer' = (timer \/ (ok /\ ~c.stale))
    /\ UNCHANGED <<server, project, canceling>>
Polled(c, ok) ==
    /\ c \in calls /\ c.op = "list" /\ (ok => c.served)
    /\ calls' = calls \ {c}
    /\ board' = IF ok /\ ~c.stale THEN MergeJobSnapshots(board, c.answer) ELSE board
    /\ timer' = (timer \/ ~c.stale)
    /\ UNCHANGED <<server, project, canceling>>

-----------------------------------------------------------------------------
(* Jobs that handlers follow, and cancel requests *)

Ended(c) == \A j \in DOMAIN c.answer : c.answer[j].status \in Terminal

\* The handler that created j asks for it until it has ended.
Track(j) ==
    /\ project = ProjectOf[j] /\ Exists(j) /\ Room
    /\ calls' = calls \union {Request("track", {j})}
    /\ UNCHANGED <<server, project, timer, board, canceling>>

Tracked(c, ok) ==
    /\ c \in calls /\ c.op = "track" /\ (ok => c.served)
    /\ calls' = (calls \ {c}) \union
         (IF ok /\ ~Ended(c) THEN {[Request("track", c.jobs) EXCEPT !.stale = c.stale]} ELSE {})
    /\ board' = IF ok /\ ~c.stale THEN MergeJobSnapshots(board, c.answer) ELSE board
    /\ UNCHANGED <<server, project, timer, canceling>>

CancelJob(j) ==
    /\ j \in DOMAIN board /\ board[j].status \in Active
    /\ j \notin canceling /\ Room
    /\ canceling' = canceling \union {j}
    /\ calls' = calls \union {Request("cancel", {j})}
    /\ UNCHANGED <<server, project, timer, board>>

CanceledIfCurrent(c, ok) ==
    /\ c \in calls /\ c.op = "cancel" /\ (ok => c.served)
    /\ calls' = calls \ {c}
    /\ board' = IF ok /\ ~c.stale THEN MergeJobSnapshots(board, c.answer) ELSE board
    /\ canceling' = IF c.stale THEN canceling ELSE canceling \ c.jobs
    /\ UNCHANGED <<server, project, timer>>
Canceled(c, ok) ==
    /\ c \in calls /\ c.op = "cancel" /\ (ok => c.served)
    /\ calls' = calls \ {c}
    /\ board' = IF ok /\ ~c.stale THEN MergeJobSnapshots(board, c.answer) ELSE board
    /\ canceling' = canceling \ c.jobs
    /\ UNCHANGED <<server, project, timer>>

-----------------------------------------------------------------------------
BoardNext ==
    \/ \E p \in Projects \union {NoProject} : Switch(p)
    \/ PollAgain
    \/ \E j \in Jobs : JobProceeds(j) \/ Track(j) \/ CancelJob(j)
    \/ \E c \in calls : Served(c)
    \/ \E c \in calls, ok \in BOOLEAN : Polled(c, ok) \/ Tracked(c, ok) \/ Canceled(c, ok)

BoardSpec == BoardInit /\ [][BoardNext]_boardVars

(* Timers run and requests come to an end; of the polls of a project that  *)
(* is not left, not all are lost. Nothing is assumed of users and jobs.    *)
BoardFairness ==
    /\ WF_boardVars(PollAgain)
    /\ WF_boardVars(\E c \in calls, ok \in BOOLEAN : Polled(c, ok))
    /\ SF_boardVars(\E c \in calls : ~c.stale /\ c.op = "list" /\ Served(c))
    /\ SF_boardVars(\E c \in calls : ~c.stale /\ Polled(c, TRUE))

BoardFairSpec == BoardSpec /\ BoardFairness

-----------------------------------------------------------------------------
(* Properties *)

(* A job on the page never goes back to an older version, in whatever      *)
(* order the answers of the poll loop, of the handlers that follow a job   *)
(* and of cancel requests arrive (mergeJobSnapshots).                      *)
NeverRegresses ==
    [][\A j \in DOMAIN board \intersect DOMAIN board' : board[j].version <= board'[j].version]_boardVars

(* A job is marked as being canceled exactly while one request to cancel   *)
(* it is under way, also across switches of the project: no job is asked   *)
(* for twice, and none stays marked and can never be canceled again        *)
(* (cancelJob's guard and its finally).                                    *)
CancelingHasCall ==
    LET cancels == {c \in calls : c.op = "cancel"} IN
    /\ canceling = UNION {c.jobs : c \in cancels}
    /\ \A c, d \in cancels : c # d => c.jobs \intersect d.jobs = {}

(* The end of a job is seen on the page of its project, unless the user    *)
(* leaves it: polls that fail, late answers and switches never stop the    *)
(* loop (poll's finally).                                                  *)
EndsAreShown ==
    \A j \in Jobs :
        (project = ProjectOf[j] /\ server[j].status \in Terminal)
            ~> (project # ProjectOf[j] \/ (j \in DOMAIN board /\ board[j].status \in Terminal))

(* Together: the board is well formed, and every cancellation settles.     *)
CancelsSettle == BoardTypeOK /\ CancelingHasCall
=============================================================================
