------------------------------ MODULE RowLookup ------------------------------
(***************************************************************************)
(* What row_store_lookup promises its caller, with no threads in sight: a  *)
(* lookup fills the caller's output rows, each one exactly once, returns   *)
(* only when all of them are filled, and nothing touches the rows of a     *)
(* caller that has returned.                                               *)
(***************************************************************************)
EXTENDS Integers

CONSTANTS Callers,   \* threads that call row_store_lookup
          MaxCount   \* bound on Work.count

VARIABLES busy,      \* busy[c]: c is inside row_store_lookup
          count,     \* count[c]: Work.count of c's latest call
          rows       \* rows[c]: the output indices written for that call

vars == <<busy, count, rows>>

Init ==
  /\ busy = [c \in Callers |-> FALSE]
  /\ count = [c \in Callers |-> 0]
  /\ rows = [c \in Callers |-> {}]

Begin(c) ==
  /\ ~busy[c]
  /\ busy' = [busy EXCEPT ![c] = TRUE]
  /\ \E n \in 0..MaxCount : count' = [count EXCEPT ![c] = n]
  /\ rows' = [rows EXCEPT ![c] = {}]

\* The parallel path writes one row, the serial path all of them.
Write(c) ==
  /\ busy[c]
  /\ \E S \in SUBSET ((0..(count[c] - 1)) \ rows[c]) :
       rows' = [rows EXCEPT ![c] = @ \cup S]
  /\ UNCHANGED <<busy, count>>

Return(c) ==
  /\ busy[c]
  /\ rows[c] = 0..(count[c] - 1)
  /\ busy' = [busy EXCEPT ![c] = FALSE]
  /\ UNCHANGED <<count, rows>>

Next == \E c \in Callers : Begin(c) \/ Write(c) \/ Return(c)

Spec == Init /\ [][Next]_vars
=============================================================================
