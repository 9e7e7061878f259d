---------------------------- MODULE MCIngestDataset --------------------------
(* IngestDataset for model checking. A behaviour has cancellations or it   *)
(* has deaths and failing transactions; with both, a reservation can last  *)
(* for ever (IngestStuck.cfg). The actions that are fair cancel, kill and  *)
(* fail nothing, so the restriction does not touch the fairness.           *)
EXTENDS IngestDataset, TLC

Undisturbed == spent.deaths = 0 /\ spent.faults = 0
EitherNext == Next /\ (Uncanceled \/ Undisturbed)'
EitherSpec == Init /\ [][EitherNext]_vars /\ Fairness

Symmetry == Permutations(Workers) \cup Permutations(Jobs)
=============================================================================
