---------------------------- MODULE MCComparison ----------------------------
(* A collection of surfaces with two timesteps, and an image. *)
EXTENDS Comparison

CONSTANTS coll, image

MCFiles == [of : {coll}, step : {0, 1}] \union [of : {image}, step : {0}]
MCSurfaces == [of : {coll}, step : {0, 1}]
MCUses == {{"cameras"}, {"choice"}} \union {{p} : p \in Panes}

=============================================================================
