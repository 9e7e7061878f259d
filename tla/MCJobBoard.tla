------------------------------ MODULE MCJobBoard ------------------------------
(* A job in each of two projects. *)
EXTENDS JobBoard

CONSTANTS p, q, i, j

MCProjectOf == [x \in Jobs |-> IF x = i THEN p ELSE q]
=============================================================================
