--------------------------- MODULE MCPackedLaunch ---------------------------
(* Invocations of PackedLaunch that follow one another, for TLC. *)
EXTENDS PackedLaunch

MCLayerIds == <<1, 14>>

(* The rows of one rank are there already; of the other's, those of no layer, or of one. *)
MCOldShards ==
    {[r \in Ranks |-> IF r = 0 THEN {} ELSE Layers], [r \in Ranks |-> IF r = 0 THEN Layers ELSE {1}]}

(* Every row of both tables belongs to one rank, and the layers differ in length. *)
ASSUME TablesWhole == RowsOwned
=============================================================================
