--------------------------- MODULE MCRowStorePool ---------------------------
(* Small instances of RowStorePool for TLC. *)
EXTENDS RowStorePool, TLC

\* Callers are interchangeable, and so are workers (safety runs only).
Symmetry == Permutations(Callers) \cup Permutations(Workers)
=============================================================================
