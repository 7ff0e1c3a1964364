------------------------------ MODULE YocoPlan ------------------------------
(***************************************************************************)
(* The row plan of dsv41_yoco.py: which rows of a step the decoder layers   *)
(* run when prefills are truncated to their last `keep` tokens.             *)
(*                                                                         *)
(* A batch is the sequence of the scheduled requests, decodes first.  An    *)
(* entry has the request (r), its rows in this step (n), the position of    *)
(* the first one (start), prefill_len, and whether it is prefilling.  A row *)
(* is a pair of a request and a position.                                   *)
(***************************************************************************)
EXTENDS Integers, Sequences

AtLeast(a, b) == IF a < b THEN b ELSE a
AtMost(a, b) == IF a < b THEN a ELSE b

\* One sequence after the other.
Concat(seqs) ==
  LET first[i \in 0..Len(seqs)] == IF i = 0 THEN <<>> ELSE first[i - 1] \o seqs[i]
  IN first[Len(seqs)]

RowsOf(e) == [i \in 1..e.n |-> <<e.r, e.start + i - 1>>]
RowsOfBatch(batch) == Concat([i \in DOMAIN batch |-> RowsOf(batch[i])])

\* query_start_loc: rows of the batch before its i-th request.
StartLoc(batch, i) ==
  LET loc[k \in 1..Len(batch)] == IF k = 1 THEN 0 ELSE loc[k - 1] + batch[k - 1].n
  IN loc[i]

Truncated(e, keep) == e.prefilling /\ e.prefill > keep

\* Some prefilling request is longer than keep: KeepPlan.needed and
\* _dsv41_yoco_need_eager.
Needed(batch, keep) == \E i \in DOMAIN batch : Truncated(batch[i], keep)

LowerBound(e, keep) == IF Truncated(e, keep) THEN e.prefill - keep ELSE 0

\* The whole chunk lies below the kept positions: one row stays, to keep the
\* request in the batch.
Placeholder(e, keep) == Truncated(e, keep) /\ LowerBound(e, keep) - e.start >= e.n

\* Rows of the entry that are dropped.
FirstKept(e, keep) ==
  IF Placeholder(e, keep) THEN e.n - 1
  ELSE IF Truncated(e, keep) THEN AtLeast(LowerBound(e, keep) - e.start, 0)
  ELSE 0

\* keep_idx: the rows of the batch that are kept.
KeepIdx(batch, keep) ==
  Concat([i \in DOMAIN batch |->
    [j \in 1..(batch[i].n - FirstKept(batch[i], keep)) |->
       StartLoc(batch, i) + FirstKept(batch[i], keep) + j]])

\* The batch the decoder sees: compact_qsl, and what each request's rows may see
\* and store.  A placeholder stores nothing.
Compact(batch, keep) ==
  [i \in DOMAIN batch |->
     LET e == batch[i]
         first == FirstKept(e, keep)
     IN [r |-> e.r, n |-> e.n - first, start |-> e.start + first,
         lower |-> LowerBound(e, keep), store |-> ~Placeholder(e, keep)]]

\* The same for the untruncated step.
Full(batch) ==
  [i \in DOMAIN batch |->
     [r |-> batch[i].r, n |-> batch[i].n, start |-> batch[i].start,
      lower |-> 0, store |-> TRUE]]

Gather(x, idx) == [i \in DOMAIN idx |-> x[idx[i]]]

\* StepPlan._scatter: kept rows back to their places, zero elsewhere.
Scatter(x, idx, rows, zero) ==
  [j \in 1..rows |-> IF \E i \in DOMAIN idx : idx[i] = j
                     THEN x[CHOOSE i \in DOMAIN idx : idx[i] = j] ELSE zero]
=============================================================================
