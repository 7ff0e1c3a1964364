----------------------------- MODULE MCCoopMoe -----------------------------
(* Small shapes of the cooperative MoE kernels for TLC: one with two rows and  *)
(* runs that span them, one with several chunks and several blocks per chunk.  *)
EXTENDS CoopMoe

MCShapes ==
  {[topk |-> 2, rows |-> 2, experts |-> 2, chunksI |-> 1, chunksH |-> 1,
    gpcA |-> 1, gpcB |-> 1],
   [topk |-> 2, rows |-> 1, experts |-> 2, chunksI |-> 1, chunksH |-> 2,
    gpcA |-> 2, gpcB |-> 1]}
=============================================================================
