----------------------------- MODULE ProjectScope -----------------------------
(***************************************************************************)
(* useProjectScope: the refs that say which project and which dataset the  *)
(* page is about, and the tickets that a handler captures before it waits. *)
(* A ticket compares two counters with what they were when it was captured;*)
(* the counters only grow, so here a ticket says whether they have grown:  *)
(* "fresh" while neither has, "current" once a selection has begun since,  *)
(* "stale" once the project was switched.                                  *)
(*                                                                         *)
(* A call in flight is a record of what it asked (op, dataset, flag), of   *)
(* the project and the ticket its handler holds and of the base URL it was *)
(* sent to, which is a global of api.ts. Calls that agree in all of these  *)
(* are one element of the set calls: their answers do the same. Bound:     *)
(* handlers start while fewer than MaxCalls calls wait.                    *)
(***************************************************************************)
EXTENDS ServerConnection

CONSTANTS
    Projects, NoProject,
    Datasets, LocalDatasets, NoDataset,
    BaseOf,             \* the server of each project
    ProjectOf,          \* the project of each server dataset
    MaxCalls

ASSUME ScopeAssumption ==
    /\ NoProject \notin Projects
    /\ NoDataset \notin Datasets \union LocalDatasets
    /\ Datasets \intersect LocalDatasets = {}
    /\ BaseOf \in [Projects -> Bases]
    /\ ProjectOf \in [Datasets -> Projects]
    /\ MaxCalls \in Nat

VARIABLES
    currentProject,     \* currentProjectRef and currentProjectId
    selected,           \* selectedDatasetRef
    calls               \* the requests that wait for an answer

scopeVars == <<currentProject, selected>>

MaybeProjects == Projects \union {NoProject}
MaybeDatasets == Datasets \union LocalDatasets \union {NoDataset}

ScopeInit == currentProject = NoProject /\ selected = NoDataset /\ calls = {}

ScopeTypeOK ==
    /\ currentProject \in MaybeProjects
    /\ selected \in MaybeDatasets
    /\ \A c \in calls : /\ c.ticket \in {"fresh", "current", "stale"}
                        /\ c.project \in MaybeProjects /\ c.dataset \in MaybeDatasets
                        /\ c.base \in MaybeBases

-----------------------------------------------------------------------------
\* A request sent now, with the ticket captured now: capture()'s null is NoProject.
RequestOf(project, op, dataset, flag) ==
    [op |-> op, dataset |-> dataset, flag |-> flag, base |-> connection.apiBase,
     project |-> project, ticket |-> "fresh"]

Request(op, dataset, flag) == RequestOf(currentProject, op, dataset, flag)

\* The handler of call c sends its next request, with the same ticket.
Continue(c, op) == [c EXCEPT !.op = op, !.base = connection.apiBase]

WhateverProject(c) == TRUE
StillCurrent(c) == c.ticket # "stale"
LatestOfProject(c) == c.ticket # "stale"
StillLatest(c) == c.ticket = "fresh"
SelectedProject(c) == StillCurrent(c)
StillSelected(c) == StillLatest(c) /\ selected = c.dataset

\* What beginProjectSwitch, and a selection that begins, make of the tickets held.
SwitchedAway(held) == {[c EXCEPT !.ticket = "stale"] : c \in held}
Overtaken(held) ==
    {[c EXCEPT !.ticket = IF c.ticket = "stale" THEN "stale" ELSE "current"] : c \in held}

\* A server answers for its own projects; a request without a base URL fails.
Answerable(c) == c.project # NoProject /\ c.base = BaseOf[c.project]

HasTicket == currentProject # NoProject
Room == Cardinality(calls) < MaxCalls
=============================================================================
