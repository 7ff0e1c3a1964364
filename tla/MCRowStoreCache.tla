--------------------------- MODULE MCRowStoreCache ---------------------------
(* Small instances of RowStoreCache for TLC. *)
EXTENDS RowStoreCache, TLC

\* Shards packed for this rank, for another rank, another layer or another
\* table, complete or cut short.
MCShards ==
  {h \in [layer : {Layer, Foreign}, lo : {0, 1}, hi : {2, RowCount},
          rows : {RowCount, RowCount + 1}, whole : BOOLEAN] :
     h.layer = Foreign => h.rows = RowCount}

Symmetry == Permutations(Threads)
=============================================================================
