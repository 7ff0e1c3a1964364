--------------------------- MODULE MCFinalWindow ---------------------------
(* Small windows and prompts of FinalWindow for TLC: the block, the alignment  *)
(* and the window stand in the deployment's proportions (64, 128, 128).  One   *)
(* configuration has YOCO off and chunks larger than a window, one has both    *)
(* overlays on and chunks small enough to fill the reservation.                *)
EXTENDS FinalWindow

MCConfigs ==
  {[final |-> TRUE, keep |-> 0, inFlight |-> 33, tokens |-> 36,
    prompts |-> {9, 27, 33}, chunks |-> {5, 16}],
   [final |-> TRUE, keep |-> 10, inFlight |-> 17, tokens |-> 48,
    prompts |-> {9, 38}, chunks |-> {5, 8}]}
=============================================================================
