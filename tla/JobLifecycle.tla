----------------------------- MODULE JobLifecycle -----------------------------
(***************************************************************************)
(* What the jobs API promises its clients, whatever runs the jobs: a job   *)
(* that was accepted is queued, runs, and ends once; its output is there   *)
(* from the moment it succeeds until its project is deleted, and at no     *)
(* other time.                                                             *)
(***************************************************************************)
CONSTANT Jobs

VARIABLES
    phase,      \* the status a client reads
    output      \* the jobs whose artifact a client can download

vars == <<phase, output>>

Unfinished == {"queued", "running"}
Unsuccessful == {"failed", "canceled"}

Init ==
    /\ phase = [j \in Jobs |-> "absent"]
    /\ output = {}

Accept(j) ==
    /\ phase[j] = "absent"
    /\ phase' = [phase EXCEPT ![j] = "queued"]
    /\ UNCHANGED output

Start(j) ==
    /\ phase[j] = "queued"
    /\ phase' = [phase EXCEPT ![j] = "running"]
    /\ UNCHANGED output

Succeed(j) ==
    /\ phase[j] = "running"
    /\ phase' = [phase EXCEPT ![j] = "succeeded"]
    /\ output' = output \cup {j}

Lose(j) ==
    /\ phase[j] \in Unfinished
    /\ \E end \in Unsuccessful : phase' = [phase EXCEPT ![j] = end]
    /\ UNCHANGED output

Remove(j) ==
    /\ phase[j] \in Unsuccessful \cup {"succeeded"}
    /\ phase' = [phase EXCEPT ![j] = "deleted"]
    /\ output' = output \ {j}

Next ==
    \E j \in Jobs : Accept(j) \/ Start(j) \/ Succeed(j) \/ Lose(j) \/ Remove(j)

Spec == Init /\ [][Next]_vars
=============================================================================
