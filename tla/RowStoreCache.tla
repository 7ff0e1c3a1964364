---------------------------- MODULE RowStoreCache ----------------------------
(***************************************************************************)
(* One Store of overlay/row_store.cpp: how EngramFileBackend opens it,     *)
(* gives it this rank's rows and attaches a repacked shard, and how        *)
(* concurrent threads then serve ids from it (serve, fetch_row) through    *)
(* the set-associative cache with striped locks.                           *)
(*                                                                         *)
(* A row is a weight and a scale part, each tagged with the row it really  *)
(* belongs to, so that a torn, stale or foreign row is visible.  Backing   *)
(* files never change while the store is open.  The hit, miss and read     *)
(* counters are left out.                                                  *)
(***************************************************************************)
EXTENDS Integers

CONSTANTS Threads,    \* pool threads and callers serving ids
          NoOne,      \* no thread, no pinned shard, no packed shard
          Foreign,    \* data of another layer
          Layer,      \* this store's Engram layer
          RowCount,   \* Store.rows
          SetCount,   \* cache sets if there is a budget
          Ways,       \* 1..16 in the code
          LockCount,  \* 256 in the code
          Shards      \* packed files that may lie at this rank's path

ASSUME CacheAssumption ==
  /\ NoOne \notin Threads \cup Int
  /\ RowCount \in Nat
  /\ SetCount \in Nat \ {0} /\ Ways \in Nat \ {0} /\ LockCount \in Nat \ {0}
  /\ Shards \subseteq [layer : {Layer, Foreign}, lo : Nat, hi : Nat, rows : Nat,
                       whole : BOOLEAN]
  /\ NoOne \notin Shards
  /\ Layer # Foreign

VARIABLES setup,                    \* how far _make_init has come
          row_lo, row_hi, sets, resident, scales, packed_fd,
          locks, keys, cache, victim,
          pc, req, row, way         \* per serving thread

config == <<setup, row_lo, row_hi, sets, resident, scales, packed_fd>>
table == <<locks, keys, cache, victim>>
vars == <<config, table, pc, req, row, way>>

Zeros == [w |-> NoOne, s |-> NoOne]
Data(id) == [w |-> id, s |-> id]

SetOf(id) == id % SetCount
LockOf(id) == SetOf(id) % LockCount

Init ==
  /\ setup = "open"
  /\ row_lo = 0 /\ row_hi = 0 /\ sets = 0 /\ resident = FALSE
  /\ scales = NoOne /\ packed_fd = NoOne
  /\ locks = [l \in 0..(LockCount - 1) |-> NoOne]
  /\ keys = [e \in 0..(SetCount - 1) |-> [w \in 0..(Ways - 1) |-> 0]]
  /\ cache = [e \in 0..(SetCount - 1) |-> [w \in 0..(Ways - 1) |-> Zeros]]
  /\ victim = [e \in 0..(SetCount - 1) |-> 0]
  /\ pc = [t \in Threads |-> "idle"]
  /\ req = [t \in Threads |-> -1]
  /\ row = [t \in Threads |-> Zeros]
  /\ way = [t \in Threads |-> 0]
-----------------------------------------------------------------------------
(* _make_init: row_store_open, row_store_range, row_store_attach_packed *)
\* fail(), or the RuntimeError of _make_init: no lookup ever runs again.
Abort == /\ setup' = "aborted"
         /\ UNCHANGED <<row_lo, row_hi, sets, resident, scales, packed_fd>>

row_store_open ==
  /\ setup = "open"
  /\ \/ /\ \E ram \in BOOLEAN, budget \in {0, SetCount} :
             /\ resident' = ram
             /\ sets' = IF ram THEN 0 ELSE budget
        /\ row_lo' = 0 /\ row_hi' = RowCount
        /\ setup' = "range"
        /\ UNCHANGED <<scales, packed_fd>>
     \/ Abort
  /\ UNCHANGED <<table, pc, req, row, way>>

\* The scale rows are pinned from row_lo on, unless that is switched off or fails.
row_store_range ==
  /\ setup = "range"
  /\ \E lo, hi \in 0..(RowCount + 1) :
       IF lo > hi \/ hi > RowCount
       THEN Abort
       ELSE /\ row_lo' = lo /\ row_hi' = hi
            /\ scales' \in IF hi > lo THEN {NoOne, lo} ELSE {NoOne}
            /\ setup' = "attach"
            /\ UNCHANGED <<sets, resident, packed_fd>>
  /\ UNCHANGED <<table, pc, req, row, way>>

\* Mutant: a shard of the right size is taken for this rank's.
HeaderMatchesAnyLo(h) ==
  h.layer = Layer /\ h.hi = row_hi /\ h.rows = RowCount

HeaderMatches(h) ==
  h.layer = Layer /\ h.lo = row_lo /\ h.hi = row_hi /\ h.rows = RowCount

row_store_attach_packed ==
  /\ setup = "attach"
  /\ \/ setup' = "ready" /\ UNCHANGED packed_fd          \* no file
     \/ setup' = "aborted" /\ UNCHANGED packed_fd        \* too short for a header
     \/ \E h \in Shards :
          /\ IF ~HeaderMatches(h) THEN setup' = "ready" /\ UNCHANGED packed_fd
             ELSE IF ~h.whole THEN setup' = "aborted" /\ UNCHANGED packed_fd
             ELSE setup' = "ready" /\ packed_fd' = h
  /\ UNCHANGED <<row_lo, row_hi, sets, resident, scales, table, pc, req, row, way>>
-----------------------------------------------------------------------------
(* serve and fetch_row *)
Owned(id) == row_lo <= id /\ id < row_hi

Finish(t, r) == /\ row' = [row EXCEPT ![t] = r]
                /\ pc' = [pc EXCEPT ![t] = "done"]

serve(t) ==
  /\ setup = "ready"
  /\ pc[t] = "idle"
  /\ \E id \in -1..RowCount :
       /\ req' = [req EXCEPT ![t] = id]
       /\ \/ /\ id >= RowCount
             /\ Abort
             /\ UNCHANGED <<pc, row>>
          \/ /\ id < RowCount /\ (id < 0 \/ ~Owned(id))
             /\ Finish(t, Zeros)
             /\ UNCHANGED config
          \/ /\ id < RowCount /\ id >= 0 /\ Owned(id)
             /\ pc' = [pc EXCEPT ![t] = IF sets > 0 THEN "probe" ELSE "read"]
             /\ UNCHANGED <<row, config>>
  /\ UNCHANGED <<table, way>>

Unlocked(id) == locks[LockOf(id)] = NoOne

\* The ways are searched in order, under the set's lock.
Hit(t, w) == /\ keys[SetOf(req[t])][w] = req[t] + 1
             /\ \A v \in 0..(w - 1) : keys[SetOf(req[t])][v] # req[t] + 1

Probe(t) ==
  /\ setup = "ready"
  /\ pc[t] = "probe"
  /\ Unlocked(req[t])
  /\ \/ \E w \in 0..(Ways - 1) :
          /\ Hit(t, w)
          /\ Finish(t, cache[SetOf(req[t])][w])
     \/ /\ \A w \in 0..(Ways - 1) : ~Hit(t, w)
        /\ pc' = [pc EXCEPT ![t] = "read"]
        /\ UNCHANGED row
  /\ UNCHANGED <<config, table, req, way>>

Fill(t, r) == /\ row' = [row EXCEPT ![t] = r]
              /\ pc' = [pc EXCEPT ![t] = IF sets > 0 THEN "fill" ELSE "done"]

\* One read from the packed shard, or the weight from the checkpoint.
ReadRow(t) ==
  /\ setup = "ready"
  /\ pc[t] = "read"
  /\ \/ /\ packed_fd # NoOne
        /\ Fill(t, Data(IF packed_fd.layer = Layer
                        THEN packed_fd.lo + (req[t] - row_lo) ELSE Foreign))
     \/ /\ packed_fd = NoOne
        /\ row' = [row EXCEPT ![t].w = req[t]]
        /\ pc' = [pc EXCEPT ![t] = "scale"]
  /\ UNCHANGED <<config, table, req, way>>

ReadScale(t) ==
  /\ setup = "ready"
  /\ pc[t] = "scale"
  /\ Fill(t, [row[t] EXCEPT !.s = IF scales # NoOne THEN scales + (req[t] - row_lo)
                                  ELSE req[t]])
  /\ UNCHANGED <<config, table, req, way>>

\* A short or failed direct read; memory copies do not fail.
ReadFails(t) ==
  /\ setup = "ready"
  /\ \/ pc[t] = "read" /\ ~(resident /\ packed_fd = NoOne)
     \/ pc[t] = "scale" /\ ~resident /\ scales = NoOne
  /\ Abort
  /\ UNCHANGED <<table, pc, req, row, way>>

LockAndChoose(t) ==
  /\ locks' = [locks EXCEPT ![LockOf(req[t])] = t]
  /\ way' = [way EXCEPT ![t] = victim[SetOf(req[t])] % Ways]
  /\ pc' = [pc EXCEPT ![t] = "copy_weight"]
  /\ UNCHANGED <<config, keys, cache, req, row>>

\* Mutant: the fill does not take the lock of its set.
FillBeginUnlocked(t) ==
  /\ setup = "ready" /\ pc[t] = "fill"
  /\ victim' = [victim EXCEPT ![SetOf(req[t])] = (@ + 1) % Ways]
  /\ LockAndChoose(t)

FillBegin(t) ==
  /\ setup = "ready"
  /\ pc[t] = "fill"
  /\ Unlocked(req[t])
  /\ victim' = [victim EXCEPT ![SetOf(req[t])] = (@ + 1) % Ways]
  /\ LockAndChoose(t)

\* The memcpy into the cache, in two parts so that it can be seen half done.
CopyWeight(t) ==
  /\ setup = "ready"
  /\ pc[t] = "copy_weight"
  /\ cache' = [cache EXCEPT ![SetOf(req[t])][way[t]].w = row[t].w]
  /\ pc' = [pc EXCEPT ![t] = "copy_scale"]
  /\ UNCHANGED <<config, locks, keys, victim, req, row, way>>

CopyScale(t) ==
  /\ setup = "ready"
  /\ pc[t] = "copy_scale"
  /\ cache' = [cache EXCEPT ![SetOf(req[t])][way[t]].s = row[t].s]
  /\ pc' = [pc EXCEPT ![t] = "key"]
  /\ UNCHANGED <<config, locks, keys, victim, req, row, way>>

\* Mutant: the lock is not given back.
FillEndLocked(t) ==
  /\ setup = "ready"
  /\ pc[t] = "key"
  /\ keys' = [keys EXCEPT ![SetOf(req[t])][way[t]] = req[t] + 1]
  /\ pc' = [pc EXCEPT ![t] = "done"]
  /\ UNCHANGED <<config, locks, cache, victim, req, row, way>>

FillEnd(t) ==
  /\ setup = "ready"
  /\ pc[t] = "key"
  /\ keys' = [keys EXCEPT ![SetOf(req[t])][way[t]] = req[t] + 1]
  /\ locks' = [locks EXCEPT ![LockOf(req[t])] = NoOne]
  /\ pc' = [pc EXCEPT ![t] = "done"]
  /\ UNCHANGED <<config, cache, victim, req, row, way>>

\* The row is copied to Work's output; the thread's locals end.
Deliver(t) ==
  /\ setup = "ready"
  /\ pc[t] = "done"
  /\ pc' = [pc EXCEPT ![t] = "idle"]
  /\ req' = [req EXCEPT ![t] = -1]
  /\ row' = [row EXCEPT ![t] = Zeros]
  /\ way' = [way EXCEPT ![t] = 0]
  /\ UNCHANGED <<config, table>>
-----------------------------------------------------------------------------
fetch_row(t) == \/ Probe(t) \/ ReadRow(t) \/ ReadScale(t) \/ FillBegin(t)
                \/ CopyWeight(t) \/ CopyScale(t) \/ FillEnd(t)

_make_init == row_store_open \/ row_store_range \/ row_store_attach_packed

Next == \/ _make_init
        \/ \E t \in Threads : serve(t) \/ fetch_row(t) \/ ReadFails(t) \/ Deliver(t)

Spec == Init /\ [][Next]_vars

(* A thread in fetch_row keeps running and gets a lock that is free again   *)
(* and again; nothing forces a read to succeed or a caller to come.         *)
FairSpec == Spec /\ \A t \in Threads : /\ WF_vars(fetch_row(t) \/ Deliver(t))
                                       /\ SF_vars(Probe(t)) /\ SF_vars(FillBegin(t))
-----------------------------------------------------------------------------
PC == {"idle", "probe", "read", "scale", "fill", "copy_weight", "copy_scale",
       "key", "done"}
Part == Int \cup {NoOne, Foreign}
Row == [w : Part, s : Part]

TypeOK ==
  /\ setup \in {"open", "range", "attach", "ready", "aborted"}
  /\ row_lo \in 0..RowCount /\ row_hi \in 0..RowCount
  /\ sets \in {0, SetCount} /\ resident \in BOOLEAN
  /\ scales \in 0..RowCount \cup {NoOne}
  /\ packed_fd \in Shards \cup {NoOne}
  /\ locks \in [0..(LockCount - 1) -> Threads \cup {NoOne}]
  /\ keys \in [0..(SetCount - 1) -> [0..(Ways - 1) -> 0..RowCount]]
  /\ cache \in [0..(SetCount - 1) -> [0..(Ways - 1) -> Row]]
  /\ victim \in [0..(SetCount - 1) -> 0..(Ways - 1)]
  /\ pc \in [Threads -> PC]
  /\ req \in [Threads -> -1..RowCount]
  /\ row \in [Threads -> Row]
  /\ way \in [Threads -> 0..(Ways - 1)]

(* Whatever the source (cache, packed shard, checkpoint, pinned scales) and *)
(* whoever else is filling the cache, a served id gets its own row, and an  *)
(* id this rank does not own, or DEAD_ID, gets zeros.                       *)
ServedRight ==
  \A t \in Threads : pc[t] = "done" =>
    row[t] = IF req[t] >= 0 /\ Owned(req[t]) THEN Data(req[t]) ELSE Zeros

(* An entry whose set is not being filled holds the row its key names.      *)
CacheCoherent ==
  \A e \in 0..(SetCount - 1), w \in 0..(Ways - 1) :
    keys[e][w] > 0 /\ locks[e % LockCount] = NoOne =>
      /\ SetOf(keys[e][w] - 1) = e
      /\ cache[e][w] = Data(keys[e][w] - 1)

(* Every id being served is delivered, unless the process aborts.           *)
FetchCompletes ==
  \A t \in Threads : pc[t] # "idle" ~> (pc[t] = "idle" \/ setup = "aborted")
-----------------------------------------------------------------------------
(* The inductive invariant behind ServedRight and CacheCoherent.            *)
Fetching == {"probe", "read", "scale", "fill", "copy_weight", "copy_scale", "key"}
Copying == {"copy_weight", "copy_scale", "key"}

\* What is pinned or attached belongs to the rows this rank owns.
ConfigInv ==
  /\ scales # NoOne => scales = row_lo
  /\ packed_fd # NoOne => packed_fd.layer = Layer /\ packed_fd.lo = row_lo
  /\ setup \in {"open", "range"} => scales = NoOne /\ packed_fd = NoOne
  /\ setup = "attach" => packed_fd = NoOne
  /\ setup \in {"open", "range", "attach"} => \A t \in Threads : pc[t] = "idle"

\* What each thread has in its hands.
ThreadInv ==
  \A t \in Threads :
    /\ pc[t] \in Fetching => req[t] \in Nat /\ req[t] < RowCount /\ Owned(req[t])
    /\ pc[t] = "scale" => row[t].w = req[t]
    /\ pc[t] \in {"fill"} \cup Copying => row[t] = Data(req[t])

LockInv ==
  \A t \in Threads, l \in 0..(LockCount - 1) :
    locks[l] = t <=> pc[t] \in Copying /\ LockOf(req[t]) = l

\* A slot is being written by a thread, or empty, or holds what its key says.
SlotInv ==
  /\ \A e \in 0..(SetCount - 1), w \in 0..(Ways - 1) :
       \/ \E t \in Threads : pc[t] \in Copying /\ SetOf(req[t]) = e /\ way[t] = w
       \/ keys[e][w] = 0
       \/ SetOf(keys[e][w] - 1) = e /\ cache[e][w] = Data(keys[e][w] - 1)
  /\ \A t \in Threads :
       /\ pc[t] \in {"copy_scale", "key"} => cache[SetOf(req[t])][way[t]].w = req[t]
       /\ pc[t] = "key" => cache[SetOf(req[t])][way[t]].s = req[t]

IInv == TypeOK /\ ConfigInv /\ ThreadInv /\ LockInv /\ SlotInv /\ ServedRight
=============================================================================
