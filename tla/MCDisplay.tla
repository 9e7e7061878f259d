------------------------------ MODULE MCDisplay ------------------------------
(* A collection of two frames and an image, each with a view of its own. *)
EXTENDS Display, TLC

CONSTANTS c, i, cv, iv, plain, wire

MCDatasets == {c, i}
MCCollections == {c}
MCImages == {i}
MCViews == (c :> {cv}) @@ (i :> {iv})
MCFirstView == (c :> cv) @@ (i :> iv)
MCPipelines == {[dataset |-> c, look |-> wire, view |-> cv, step |-> 1]}

=============================================================================
