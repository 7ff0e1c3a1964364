---------------------------- MODULE MCMoeDispatch ----------------------------
(* A small layer of MoeDispatch for TLC: two local experts of three, two picks *)
(* a token, two buffer rows per expert.                                        *)
EXTENDS MoeDispatch, TLC

\* Two experts of one rank, one or both elsewhere, a padded pick.
MCRoutes == {0 :> a @@ 1 :> b : <<a, b>> \in {<<0, 1>>, <<2, 0>>, <<1, 2>>, <<-1, 1>>}}

\* No expert parallelism, and a rank that has the global experts 2 and 0.
MCMaps == {[given |-> FALSE, to |-> <<>>],
           [given |-> TRUE, to |-> 0 :> 1 @@ 1 :> -1 @@ 2 :> 0]}

\* Equal keys in token order, and in reverse.
MCTies ==
  LET S == (0..MaxTokens - 1) \X (0..TopK - 1)
  IN  {[s \in S |-> s[1] * TopK + s[2]], [s \in S |-> -(s[1] * TopK + s[2])]}

Base(name) ==
  [f \in {"grouped", "kernel", "batched", "sorted"} |-> f = name]
  @@ [fused |-> TRUE, rowTile |-> FALSE, shared |-> TRUE, k4mcg |-> TRUE,
      groupedEligible |-> FALSE, gemmSymbols |-> TRUE, moeSymbols |-> FALSE]
Every(name, flags) == {f @@ Base(name) : f \in [flags -> BOOLEAN]}

\* Every tier asked for, with each combination of what the load and the call
\* look at for it; and the loop alone.
MCSettings ==
  Every("legacy", {"fused", "rowTile"})
  \cup Every("sorted", {"rowTile", "shared"})
  \cup Every("batched", {"rowTile", "shared"})
  \cup Every("kernel", {"rowTile", "shared", "k4mcg", "gemmSymbols"})
  \cup Every("grouped", {"rowTile", "shared", "k4mcg", "groupedEligible",
                         "gemmSymbols", "moeSymbols"})
=============================================================================
