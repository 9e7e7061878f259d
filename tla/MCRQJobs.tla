------------------------------ MODULE MCRQJobs ------------------------------
(* RQJobs for model checking: workers are interchangeable.                 *)
EXTENDS RQJobs, TLC

WorkerSymmetry == Permutations(Workers)
=============================================================================
