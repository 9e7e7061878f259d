----------------------------- MODULE MCWorkspace -----------------------------
(* Workspace for model checking: server a holds two projects, server b none. *)
EXTENDS Workspace

CONSTANTS a, b, p, q, d1, d2

MCBaseOf == [x \in Projects |-> a]
MCProjectOf == [x \in Datasets |-> p]
StaticPage == {[appMode |-> "unset", apiBase |-> NoBase, dev |-> FALSE]}
ServerPage == {[appMode |-> "unset", apiBase |-> a, dev |-> FALSE]}
NoLink == [project |-> NoProject, dataset |-> NoDataset, list |-> "datasets"]
PipelineLink == [project |-> p, dataset |-> d1, list |-> "pipelines"]
=============================================================================
