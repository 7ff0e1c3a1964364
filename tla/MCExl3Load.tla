---------------------------- MODULE MCExl3Load ----------------------------
(* One layer of each kind that the checkpoint packs, alone and on two ranks:   *)
(* routed experts, an expert whose K the map gets wrong, plain, row- and        *)
(* column-parallel linears, merged ones (shared experts with mixed K, the       *)
(* unsharded compressor), the grouped wo_a, lm_head, and a dense router.        *)
EXTENDS Exl3Load

MCKMap == [layers |-> 2, mtp |-> 4, wk |-> 8, attn |-> 5, head |-> 6,
           shared |-> [l \in {0} |-> 5], engram |-> [l \in {1} |-> 5],
           routed |-> [l \in {0, 1} |-> IF l = 0 THEN 3 ELSE 2]]

Prefix(kind, layer) == [kind |-> kind, layer |-> layer, mtp |-> FALSE]
Linear(kind, parallel, in, outs, ks) ==
  {[class |-> "LinearBase", prefix |-> Prefix(kind, 0), tp |-> t, parallel |-> parallel, in |-> in,
    outs |-> outs, groups |-> 0, ks |-> ks, experts |-> 0, inter |-> 0] : t \in 1..2}
Experts(layer, k) ==
  {[class |-> "RoutedExperts", prefix |-> Prefix("experts", layer), tp |-> t, parallel |-> "none", in |-> 4,
    outs |-> <<>>, groups |-> 0, ks |-> <<k, k, k>>, experts |-> 2, inter |-> 2] : t \in 1..2}

MCShapes ==
  Experts(0, 3) \cup Experts(1, 3) \cup Experts(2, 4)
  \cup Linear("attn", "col", 2, <<4>>, <<5>>)
  \cup Linear("attn", "row", 4, <<2>>, <<4>>)
  \cup Linear("attn", "row", 3, <<2>>, <<4>>)
  \cup Linear("indexer.wk", "none", 2, <<2>>, <<8>>)
  \cup Linear("engram", "none", 2, <<2>>, <<5>>)
  \cup Linear("shared_expert", "col", 2, <<2, 4>>, <<4, 5>>)
  \cup Linear("attn", "none", 2, <<2, 1>>, <<5, 5>>)
  \cup Linear("gate", "none", 2, <<2>>, <<3>>)
  \cup {[s EXCEPT !.groups = 4] : s \in Linear("attn", "col", 2, <<4>>, <<5>>)}
  \cup {[s EXCEPT !.class = "ParallelLMHead"] : s \in Linear("lm_head", "col", 2, <<4>>, <<6>>)}
  \cup {[s EXCEPT !.prefix.mtp = TRUE] : s \in Linear("main_proj", "none", 2, <<2>>, <<4>>)}
=============================================================================
