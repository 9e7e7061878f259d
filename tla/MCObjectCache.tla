---------------------------- MODULE MCObjectCache ----------------------------
(* ObjectCache for model checking: two keys share a key lock and a third   *)
(* has its own; one of them is larger than the others.                     *)
EXTENDS ObjectCache, TLC

CONSTANTS k1, k2, k3, s1, s2

MCStripe == [k \in Keys |-> IF k = k3 THEN s2 ELSE s1]
EqualWeight == [k \in Keys |-> 1]
UnequalWeight == [k \in Keys |-> IF k = k1 THEN 2 ELSE 1]

Symmetry == Permutations(Threads)
=============================================================================
