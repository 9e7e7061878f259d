----------------------------- MODULE MCLocalJobs -----------------------------
(* LocalJobs for model checking: jobs, and the pool's threads, are          *)
(* interchangeable.                                                         *)
EXTENDS LocalJobs, TLC

JobThreadSymmetry == Permutations(Jobs) \cup Permutations(Workers)
=============================================================================
