------------------------- MODULE RowStoreCacheProofs -------------------------
(***************************************************************************)
(* Proofs about RowStoreCache for any table, cache geometry and threads.   *)
(*                                                                         *)
(* IInv is inductive.  ThreadInv says what each thread holds, LockInv that *)
(* a set's lock is held exactly while a thread copies into the set, and    *)
(* SlotInv that a slot is being written, is empty, or holds the row its    *)
(* key names.  Two threads never copy into one set (Exclusive), so a copy  *)
(* disturbs no slot but the one it owns.                                   *)
(***************************************************************************)
EXTENDS RowStoreCache, TLAPS

LEMMA ModRange == \A a \in Int, n \in Nat \ {0} : a % n \in 0..(n - 1)
OBVIOUS

LEMMA SetRange == \A id \in Int : SetOf(id) \in 0..(SetCount - 1)
BY ModRange, CacheAssumption DEF SetOf

LEMMA LockRange == \A id \in Int : LockOf(id) \in 0..(LockCount - 1)
<1> TAKE id \in Int
<1>1. SetOf(id) \in Int
  BY SetRange, CacheAssumption
<1>2. LockCount \in Nat \ {0}
  BY CacheAssumption
<1> QED
  BY <1>1, <1>2, ModRange DEF LockOf

-----------------------------------------------------------------------------
(* Type correctness *)
LEMMA DataTyped == \A id \in Int : Data(id) \in Row /\ Zeros \in Row
BY DEF Data, Zeros, Row, Part

LEMMA ServeTyped ==
  ASSUME TypeOK, NEW t \in Threads, serve(t)
  PROVE  TypeOK'
<1>1. PICK id \in -1..RowCount : req' = [req EXCEPT ![t] = id]
  BY DEF serve
<1>2. req' \in [Threads -> -1..RowCount]
  BY <1>1 DEF TypeOK
<1>3. pc' \in [Threads -> PC]
  BY DEF serve, TypeOK, Finish, PC
<1>4. row' \in [Threads -> Row]
  <2>1. row' = row \/ row' = [row EXCEPT ![t] = Zeros]
    BY DEF serve, Finish
  <2>2. Zeros \in Row
    BY DataTyped
  <2> QED
    BY <2>1, <2>2 DEF TypeOK
<1>5. /\ setup' \in {setup, "aborted"}
      /\ UNCHANGED <<row_lo, row_hi, sets, resident, scales, packed_fd>>
  BY DEF serve, Abort, config
<1>6. UNCHANGED <<locks, keys, cache, victim, way>>
  BY DEF serve, table
<1> QED
  BY <1>2, <1>3, <1>4, <1>5, <1>6 DEF TypeOK

\* Enough for the steps that change one thread's row and pc.
LEMMA RowPcTyped ==
  ASSUME TypeOK, NEW t \in Threads, NEW r \in Row, NEW p \in PC,
         row' = [row EXCEPT ![t] = r] \/ row' = row,
         pc' = [pc EXCEPT ![t] = p],
         UNCHANGED <<config, table, req, way>>
  PROVE  TypeOK'
<1>1. row' \in [Threads -> Row] /\ pc' \in [Threads -> PC]
  BY DEF TypeOK
<1> QED
  BY <1>1 DEF TypeOK, config, table

LEMMA EntryTyped ==
  ASSUME TypeOK, NEW t \in Threads, req[t] \in Int
  PROVE  /\ cache[SetOf(req[t])] \in [0..(Ways - 1) -> Row]
         /\ \A w \in 0..(Ways - 1) : cache[SetOf(req[t])][w] \in Row
         /\ SetOf(req[t]) \in 0..(SetCount - 1)
         /\ LockOf(req[t]) \in 0..(LockCount - 1)
         /\ way[t] \in 0..(Ways - 1)
BY SetRange, LockRange DEF TypeOK

LEMMA ProbeTyped ==
  ASSUME TypeOK, ThreadInv, NEW t \in Threads, Probe(t)
  PROVE  TypeOK'
<1>1. req[t] \in Int
  BY DEF TypeOK
<1>2. Zeros \in Row
  BY DataTyped
<1>3. PICK r \in Row, p \in PC : /\ row' = [row EXCEPT ![t] = r] \/ row' = row
                                 /\ pc' = [pc EXCEPT ![t] = p]
  BY <1>1, <1>2, EntryTyped DEF Probe, Finish, PC
<1>4. UNCHANGED <<config, table, req, way>>
  BY DEF Probe
<1> QED
  BY <1>3, <1>4, RowPcTyped

LEMMA ReadRowTyped ==
  ASSUME TypeOK, NEW t \in Threads, ReadRow(t)
  PROVE  TypeOK'
<1>1. UNCHANGED <<config, table, req, way>>
  BY DEF ReadRow
<1>2. CASE packed_fd # NoOne
  <2> DEFINE x == IF packed_fd.layer = Layer
                  THEN packed_fd.lo + (req[t] - row_lo) ELSE Foreign
  <2>1. packed_fd.lo \in Int /\ req[t] \in Int /\ row_lo \in Int
    BY <1>2, CacheAssumption DEF TypeOK
  <2>2. Data(x) \in Row
    BY <2>1 DEF Data, Row, Part
  <2>3. row' = [row EXCEPT ![t] = Data(x)]
    BY <1>2 DEF ReadRow, Fill
  <2>4. PICK p \in PC : pc' = [pc EXCEPT ![t] = p]
    BY <1>2 DEF ReadRow, Fill, PC
  <2> HIDE DEF x
  <2> QED
    BY <1>1, <2>2, <2>3, <2>4, RowPcTyped
<1>3. CASE packed_fd = NoOne
  <2> DEFINE r == [row[t] EXCEPT !.w = req[t]]
  <2>1. row[t] \in Row /\ req[t] \in Int
    BY DEF TypeOK
  <2>2. r \in Row
    BY <2>1 DEF Row, Part
  <2>3. row' = [row EXCEPT ![t] = r]
    BY <1>3 DEF ReadRow, TypeOK
  <2>4. pc' = [pc EXCEPT ![t] = "scale"] /\ "scale" \in PC
    BY <1>3 DEF ReadRow, PC
  <2> HIDE DEF r
  <2> QED
    BY <1>1, <2>2, <2>3, <2>4, RowPcTyped
<1> QED
  BY <1>2, <1>3

LEMMA ReadScaleTyped ==
  ASSUME TypeOK, NEW t \in Threads, ReadScale(t)
  PROVE  TypeOK'
<1> DEFINE x == IF scales # NoOne THEN scales + (req[t] - row_lo) ELSE req[t]
           r == [row[t] EXCEPT !.s = x]
<1>1. UNCHANGED <<config, table, req, way>>
  BY DEF ReadScale
<1>2. x \in Int /\ row[t] \in Row
  BY CacheAssumption DEF TypeOK
<1>3. r \in Row
  <2> HIDE DEF x
  <2> QED BY <1>2 DEF Row, Part
<1>4. row' = [row EXCEPT ![t] = r]
  BY DEF ReadScale, Fill
<1>5. PICK p \in PC : pc' = [pc EXCEPT ![t] = p]
  BY DEF ReadScale, Fill, PC
<1> HIDE DEF r
<1> QED
  BY <1>1, <1>3, <1>4, <1>5, RowPcTyped

LEMMA FillBeginTyped ==
  ASSUME TypeOK, NEW t \in Threads, FillBegin(t)
  PROVE  TypeOK'
<1> USE DEF FillBegin, LockAndChoose
<1>1. UNCHANGED <<config, keys, cache, req, row>>
  OBVIOUS
<1>2. req[t] \in Int
  BY DEF TypeOK
<1>3. SetOf(req[t]) \in 0..(SetCount - 1) /\ LockOf(req[t]) \in 0..(LockCount - 1)
  BY <1>2, EntryTyped
<1>4. locks' \in [0..(LockCount - 1) -> Threads \cup {NoOne}]
  BY <1>3 DEF TypeOK
<1>5. victim[SetOf(req[t])] \in Nat /\ Ways \in Nat \ {0}
  BY <1>3, CacheAssumption DEF TypeOK
<1>6. /\ victim[SetOf(req[t])] % Ways \in 0..(Ways - 1)
      /\ (victim[SetOf(req[t])] + 1) % Ways \in 0..(Ways - 1)
  <2> DEFINE v == victim[SetOf(req[t])]
  <2>1. v \in Int /\ v + 1 \in Int
    BY <1>5
  <2> HIDE DEF v
  <2>2. v % Ways \in 0..(Ways - 1) /\ (v + 1) % Ways \in 0..(Ways - 1)
    BY <1>5, <2>1, ModRange
  <2> QED
    BY <2>2 DEF v
<1>7. way' \in [Threads -> 0..(Ways - 1)]
  BY <1>6 DEF TypeOK
<1>8. victim' \in [0..(SetCount - 1) -> 0..(Ways - 1)]
  BY <1>6 DEF TypeOK
<1>9. pc' \in [Threads -> PC]
  BY DEF TypeOK, PC
<1> QED
  BY <1>1, <1>4, <1>7, <1>8, <1>9 DEF TypeOK, config

\* What a copy does to the slot of the thread and to every other slot.
LEMMA CopyFrame ==
  ASSUME TypeOK, NEW t \in Threads, NEW x \in Part,
         \/ cache' = [cache EXCEPT ![SetOf(req[t])][way[t]].w = x]
         \/ cache' = [cache EXCEPT ![SetOf(req[t])][way[t]].s = x]
  PROVE  /\ cache' \in [0..(SetCount - 1) -> [0..(Ways - 1) -> Row]]
         /\ \A e \in 0..(SetCount - 1), w \in 0..(Ways - 1) :
              e # SetOf(req[t]) \/ w # way[t] => cache'[e][w] = cache[e][w]
<1> DEFINE e0 == SetOf(req[t])
           w0 == way[t]
<1>1. /\ e0 \in 0..(SetCount - 1) /\ w0 \in 0..(Ways - 1)
      /\ cache \in [0..(SetCount - 1) -> [0..(Ways - 1) -> Row]]
  BY EntryTyped DEF TypeOK
<1>2. PICK r \in Row : cache' = [cache EXCEPT ![e0][w0] = r]
  <2>1. cache[e0][w0] \in Row
    BY <1>1
  <2>2. /\ [cache[e0][w0] EXCEPT !.w = x] \in Row
        /\ [cache[e0][w0] EXCEPT !.s = x] \in Row
    BY <2>1 DEF Row
  <2> QED
    BY <2>2
<1> HIDE DEF e0, w0
<1>3. cache' = [cache EXCEPT ![e0] = [cache[e0] EXCEPT ![w0] = r]]
  BY <1>1, <1>2
<1>4. [cache[e0] EXCEPT ![w0] = r] \in [0..(Ways - 1) -> Row]
  BY <1>1
<1> QED
  BY <1>1, <1>3, <1>4 DEF e0, w0

LEMMA CopyTyped ==
  ASSUME TypeOK, NEW t \in Threads, CopyWeight(t) \/ CopyScale(t)
  PROVE  TypeOK'
<1>1. row[t].w \in Part /\ row[t].s \in Part
  BY DEF TypeOK, Row
<1>2. cache' \in [0..(SetCount - 1) -> [0..(Ways - 1) -> Row]]
  BY <1>1, CopyFrame DEF CopyWeight, CopyScale
<1>3. pc' \in [Threads -> PC]
  BY DEF TypeOK, CopyWeight, CopyScale, PC
<1>4. UNCHANGED <<config, locks, keys, victim, req, row, way>>
  BY DEF CopyWeight, CopyScale
<1> QED
  BY <1>2, <1>3, <1>4 DEF TypeOK, config

LEMMA FillEndTyped ==
  ASSUME TypeOK, ThreadInv, NEW t \in Threads, FillEnd(t)
  PROVE  TypeOK'
<1> DEFINE e0 == SetOf(req[t])
<1>1. /\ e0 \in 0..(SetCount - 1) /\ way[t] \in 0..(Ways - 1)
      /\ LockOf(req[t]) \in 0..(LockCount - 1)
  BY EntryTyped DEF TypeOK
<1>2. req[t] + 1 \in 0..RowCount
  BY CacheAssumption DEF FillEnd, ThreadInv, Fetching
<1>3. keys' = [keys EXCEPT ![e0] = [keys[e0] EXCEPT ![way[t]] = req[t] + 1]]
  BY DEF FillEnd
<1> HIDE DEF e0
<1>4. [keys[e0] EXCEPT ![way[t]] = req[t] + 1] \in [0..(Ways - 1) -> 0..RowCount]
  BY <1>1, <1>2 DEF TypeOK
<1>5. keys' \in [0..(SetCount - 1) -> [0..(Ways - 1) -> 0..RowCount]]
  BY <1>1, <1>3, <1>4 DEF TypeOK
<1>6. /\ locks' \in [0..(LockCount - 1) -> Threads \cup {NoOne}]
      /\ pc' \in [Threads -> PC]
  BY <1>1 DEF FillEnd, TypeOK, PC
<1>7. UNCHANGED <<config, cache, victim, req, row, way>>
  BY DEF FillEnd
<1> QED
  BY <1>5, <1>6, <1>7 DEF TypeOK, config

LEMMA DeliverTyped ==
  ASSUME TypeOK, NEW t \in Threads, Deliver(t)
  PROVE  TypeOK'
<1>1. /\ -1 \in -1..RowCount /\ 0 \in 0..(Ways - 1) /\ Zeros \in Row
      /\ "idle" \in PC
  BY CacheAssumption, DataTyped DEF PC
<1>2. /\ pc' \in [Threads -> PC] /\ req' \in [Threads -> -1..RowCount]
      /\ row' \in [Threads -> Row] /\ way' \in [Threads -> 0..(Ways - 1)]
  BY <1>1 DEF Deliver, TypeOK
<1>3. UNCHANGED <<config, table>>
  BY DEF Deliver
<1> QED
  BY <1>2, <1>3 DEF TypeOK, config, table

LEMMA TypeStep == TypeOK /\ ThreadInv /\ [Next]_vars => TypeOK'
<1> SUFFICES ASSUME TypeOK, ThreadInv, [Next]_vars PROVE TypeOK'
  OBVIOUS
<1>1. ASSUME row_store_open PROVE TypeOK'
  <2>1. sets' \in {0, SetCount} /\ resident' \in BOOLEAN
    BY <1>1 DEF row_store_open, Abort, TypeOK
  <2>2. row_lo' \in 0..RowCount /\ row_hi' \in 0..RowCount
    <3>1. (row_lo' = 0 /\ row_hi' = RowCount) \/ UNCHANGED <<row_lo, row_hi>>
      BY <1>1 DEF row_store_open, Abort
    <3>2. 0 \in 0..RowCount /\ RowCount \in 0..RowCount
      BY CacheAssumption
    <3>3. row_lo \in 0..RowCount /\ row_hi \in 0..RowCount
      BY DEF TypeOK
    <3> QED
      BY <3>1, <3>2, <3>3
  <2>3. /\ setup' \in {"range", "aborted"}
        /\ UNCHANGED <<scales, packed_fd, table, pc, req, row, way>>
    BY <1>1 DEF row_store_open, Abort
  <2> QED
    BY <2>1, <2>2, <2>3 DEF TypeOK, table
<1>2. ASSUME row_store_range PROVE TypeOK'
  <2>1. PICK lo \in 0..(RowCount + 1), hi \in 0..(RowCount + 1) :
          IF lo > hi \/ hi > RowCount
          THEN Abort
          ELSE /\ row_lo' = lo /\ row_hi' = hi
               /\ scales' \in IF hi > lo THEN {NoOne, lo} ELSE {NoOne}
               /\ setup' = "attach"
               /\ UNCHANGED <<sets, resident, packed_fd>>
    BY <1>2 DEF row_store_range
  <2>2. /\ row_lo' \in 0..RowCount /\ row_hi' \in 0..RowCount
        /\ scales' \in 0..RowCount \cup {NoOne}
    <3>1. CASE lo > hi \/ hi > RowCount
      BY <2>1, <3>1 DEF Abort, TypeOK
    <3>2. CASE ~(lo > hi \/ hi > RowCount)
      <4>1. lo \in 0..RowCount /\ hi \in 0..RowCount
        BY <3>2, CacheAssumption
      <4>2. row_lo' = lo /\ row_hi' = hi /\ scales' \in {NoOne, lo}
        BY <2>1, <3>2
      <4> QED
        BY <4>1, <4>2
    <3> QED
      BY <3>1, <3>2
  <2>3. /\ setup' \in {"attach", "aborted"}
        /\ UNCHANGED <<sets, resident, packed_fd, table, pc, req, row, way>>
    BY <1>2, <2>1 DEF row_store_range, Abort
  <2> QED
    BY <2>2, <2>3 DEF TypeOK, table
<1>3. ASSUME row_store_attach_packed PROVE TypeOK'
  BY <1>3 DEF row_store_attach_packed, TypeOK, table
<1>4. ASSUME NEW t \in Threads, ReadFails(t) PROVE TypeOK'
  BY <1>4 DEF ReadFails, Abort, TypeOK, table
<1>5. CASE UNCHANGED vars
  BY <1>5 DEF vars, config, table, TypeOK
<1> QED
  BY <1>1, <1>2, <1>3, <1>4, <1>5, ServeTyped, ProbeTyped, ReadRowTyped,
     ReadScaleTyped, FillBeginTyped, CopyTyped, FillEndTyped, DeliverTyped
     DEF Next, _make_init, fetch_row

-----------------------------------------------------------------------------
(* Configuration *)
LEMMA ConfigStep ==
  TypeOK /\ ConfigInv /\ [Next]_vars
  => ConfigInv'
<1> SUFFICES ASSUME TypeOK /\ ConfigInv, [Next]_vars
             PROVE  ConfigInv'
  OBVIOUS
<1> USE CacheAssumption
        DEF config, Finish, Fill, Abort, LockAndChoose, TypeOK, ConfigInv,
            HeaderMatches
<1>1. ASSUME row_store_open PROVE ConfigInv'
  BY <1>1 DEF row_store_open
<1>2. ASSUME row_store_range PROVE ConfigInv'
  BY <1>2 DEF row_store_range
<1>3. ASSUME row_store_attach_packed PROVE ConfigInv'
  BY <1>3 DEF row_store_attach_packed
<1>4. ASSUME NEW t \in Threads, serve(t) PROVE ConfigInv'
  BY <1>4 DEF serve
<1>5. ASSUME NEW t \in Threads, Probe(t) PROVE ConfigInv'
  BY <1>5 DEF Probe
<1>6. ASSUME NEW t \in Threads, ReadRow(t) PROVE ConfigInv'
  BY <1>6 DEF ReadRow
<1>7. ASSUME NEW t \in Threads, ReadScale(t) PROVE ConfigInv'
  BY <1>7 DEF ReadScale
<1>8. ASSUME NEW t \in Threads, ReadFails(t) PROVE ConfigInv'
  BY <1>8 DEF ReadFails
<1>9. ASSUME NEW t \in Threads, FillBegin(t) PROVE ConfigInv'
  BY <1>9 DEF FillBegin
<1>10. ASSUME NEW t \in Threads, CopyWeight(t) PROVE ConfigInv'
  BY <1>10 DEF CopyWeight
<1>11. ASSUME NEW t \in Threads, CopyScale(t) PROVE ConfigInv'
  BY <1>11 DEF CopyScale
<1>12. ASSUME NEW t \in Threads, FillEnd(t) PROVE ConfigInv'
  BY <1>12 DEF FillEnd
<1>13. ASSUME NEW t \in Threads, Deliver(t) PROVE ConfigInv'
  BY <1>13 DEF Deliver
<1>14. CASE UNCHANGED vars
  BY <1>14 DEF vars
<1>15. QED
  BY <1>1, <1>2, <1>3, <1>4, <1>5, <1>6, <1>7, <1>8, <1>9, <1>10, <1>11,
     <1>12, <1>13, <1>14
     DEF Next, _make_init, fetch_row

-----------------------------------------------------------------------------
(* Threads *)
\* A step of a thread, but not of _make_init, leaves the rest alone.
LEMMA OneThread ==
  ASSUME TypeOK, NEW t \in Threads,
         serve(t) \/ fetch_row(t) \/ ReadFails(t) \/ Deliver(t)
  PROVE  /\ UNCHANGED <<row_lo, row_hi, sets>>
         /\ \A u \in Threads \ {t} : /\ pc'[u] = pc[u] /\ req'[u] = req[u]
                                     /\ row'[u] = row[u] /\ way'[u] = way[u]
<1> USE DEF TypeOK, config
<1>1. CASE serve(t)
  BY <1>1 DEF serve, Abort, Finish
<1>2. CASE Probe(t)
  BY <1>2 DEF Probe, Finish
<1>3. CASE ReadRow(t) \/ ReadScale(t)
  BY <1>3 DEF ReadRow, ReadScale, Fill
<1>4. CASE FillBegin(t)
  BY <1>4 DEF FillBegin, LockAndChoose
<1>5. CASE CopyWeight(t) \/ CopyScale(t) \/ FillEnd(t) \/ Deliver(t)
  BY <1>5 DEF CopyWeight, CopyScale, FillEnd, Deliver
<1>6. CASE ReadFails(t)
  BY <1>6 DEF ReadFails, Abort
<1> QED
  BY <1>1, <1>2, <1>3, <1>4, <1>5, <1>6 DEF fetch_row

\* What thread t holds; ThreadInv and ServedRight say it of every thread.
Held(t) ==
  /\ pc[t] \in Fetching => req[t] \in Nat /\ req[t] < RowCount /\ Owned(req[t])
  /\ pc[t] = "scale" => row[t].w = req[t]
  /\ pc[t] \in {"fill"} \cup Copying => row[t] = Data(req[t])
  /\ pc[t] = "done" =>
       row[t] = IF req[t] >= 0 /\ Owned(req[t]) THEN Data(req[t]) ELSE Zeros

LEMMA HeldAll == ThreadInv /\ ServedRight <=> \A t \in Threads : Held(t)
BY DEF ThreadInv, ServedRight, Held

LEMMA HeldFrame ==
  ASSUME NEW u \in Threads, Held(u), UNCHANGED <<row_lo, row_hi>>,
         pc'[u] = pc[u], req'[u] = req[u], row'[u] = row[u]
  PROVE  Held(u)'
BY DEF Held, Owned

LEMMA ServeHeld ==
  ASSUME TypeOK, NEW t \in Threads, Held(t), serve(t)
  PROVE  Held(t)'
<1>1. PICK id \in -1..RowCount :
        /\ req' = [req EXCEPT ![t] = id]
        /\ \/ /\ id >= RowCount
              /\ Abort
              /\ UNCHANGED <<pc, row>>
           \/ /\ id < RowCount /\ (id < 0 \/ ~Owned(id))
              /\ Finish(t, Zeros)
              /\ UNCHANGED config
           \/ /\ id < RowCount /\ id >= 0 /\ Owned(id)
              /\ pc' = [pc EXCEPT ![t] = IF sets > 0 THEN "probe" ELSE "read"]
              /\ UNCHANGED <<row, config>>
  BY DEF serve
<1>2. req'[t] = id /\ id \in Int /\ RowCount \in Nat
  BY <1>1, CacheAssumption DEF TypeOK
<1>3. UNCHANGED <<row_lo, row_hi>>
  BY OneThread
<1>4. CASE pc'[t] = "idle"
  BY <1>4 DEF Held, Fetching, Copying
<1>5. CASE (id < 0 \/ ~Owned(id)) /\ Finish(t, Zeros)
  <2>1. pc'[t] = "done" /\ row'[t] = Zeros
    BY <1>5 DEF Finish, TypeOK
  <2>2. ~(id >= 0 /\ Owned(id))
    BY <1>2, <1>5
  <2>3. ~(req'[t] >= 0 /\ row_lo' <= req'[t] /\ req'[t] < row_hi')
    BY <1>2, <1>3, <2>2 DEF Owned
  <2> QED
    BY <2>1, <2>3 DEF Held, Owned, Fetching, Copying
<1>6. CASE /\ id < RowCount /\ id >= 0 /\ Owned(id)
           /\ pc' = [pc EXCEPT ![t] = IF sets > 0 THEN "probe" ELSE "read"]
  <2>1. pc'[t] \in {"probe", "read"}
    BY <1>6 DEF TypeOK
  <2>2. id \in Nat /\ row_lo' <= id /\ id < row_hi'
    BY <1>2, <1>3, <1>6 DEF Owned
  <2> QED
    BY <1>2, <1>6, <2>1, <2>2 DEF Held, Owned, Fetching, Copying
<1>7. pc[t] = "idle"
  BY DEF serve
<1> QED
  BY <1>1, <1>4, <1>5, <1>6, <1>7

\* A hit returns an entry whose set nobody is filling.
LEMMA HitRow ==
  ASSUME TypeOK, LockInv, SlotInv, NEW t \in Threads, req[t] \in Nat,
         Unlocked(req[t]), NEW w \in 0..(Ways - 1),
         keys[SetOf(req[t])][w] = req[t] + 1
  PROVE  cache[SetOf(req[t])][w] = Data(req[t])
<1> DEFINE e == SetOf(req[t])
<1>1. e \in 0..(SetCount - 1) /\ LockOf(req[t]) \in 0..(LockCount - 1)
  BY EntryTyped
<1>2. ~\E u \in Threads : pc[u] \in Copying /\ SetOf(req[u]) = e
  <2> SUFFICES ASSUME NEW u \in Threads, pc[u] \in Copying, SetOf(req[u]) = e
               PROVE  FALSE
    OBVIOUS
  <2>1. LockOf(req[u]) = LockOf(req[t])
    BY DEF LockOf
  <2>2. locks[LockOf(req[t])] = u
    BY <1>1, <2>1 DEF LockInv
  <2> QED
    BY <2>2, CacheAssumption DEF Unlocked
<1>3. keys[e][w] # 0 /\ keys[e][w] - 1 = req[t]
  OBVIOUS
<1> QED
  BY <1>1, <1>2, <1>3 DEF SlotInv

LEMMA ProbeHeld ==
  ASSUME TypeOK, LockInv, SlotInv, NEW t \in Threads, Held(t), Probe(t)
  PROVE  Held(t)'
<1>1. /\ UNCHANGED <<row_lo, row_hi, req>> /\ Unlocked(req[t])
      /\ pc[t] = "probe"
  BY DEF Probe, config
<1>2. req[t] \in Nat /\ req[t] < RowCount /\ Owned(req[t])
  BY <1>1 DEF Held, Fetching
<1>3. CASE pc'[t] = "read"
  BY <1>1, <1>2, <1>3 DEF Held, Owned, Fetching, Copying
<1>4. CASE pc'[t] # "read"
  <2>1. PICK w \in 0..(Ways - 1) :
          Hit(t, w) /\ Finish(t, cache[SetOf(req[t])][w])
    BY <1>4 DEF Probe, TypeOK
  <2>2. cache[SetOf(req[t])][w] = Data(req[t])
    BY <1>1, <1>2, <2>1, HitRow DEF Hit
  <2>3. pc'[t] = "done" /\ row'[t] = Data(req[t])
    BY <2>1, <2>2 DEF Finish, TypeOK
  <2>4. req[t] >= 0
    BY <1>2
  <2> QED
    BY <1>1, <1>2, <2>3, <2>4 DEF Held, Owned, Fetching, Copying
<1> QED
  BY <1>3, <1>4

LEMMA ReadHeld ==
  ASSUME TypeOK, ConfigInv, NEW t \in Threads, Held(t),
         ReadRow(t) \/ ReadScale(t)
  PROVE  Held(t)'
<1>1. UNCHANGED <<row_lo, row_hi, req>> /\ pc[t] \in {"read", "scale"}
  BY DEF ReadRow, ReadScale, config
<1>2. req[t] \in Nat /\ req[t] < RowCount /\ Owned(req[t])
  BY <1>1 DEF Held, Fetching
<1>3. \/ pc'[t] = "scale" /\ row'[t].w = req[t]
      \/ pc'[t] \in {"fill", "done"} /\ row'[t] = Data(req[t])
  <2>1. CASE ReadRow(t) /\ packed_fd # NoOne
    <3>1. /\ packed_fd.layer = Layer /\ packed_fd.lo = row_lo
          /\ row_lo \in Int /\ req[t] \in Int
      BY <2>1 DEF ConfigInv, TypeOK
    <3>2. packed_fd.lo + (req[t] - row_lo) = req[t]
      BY <3>1
    <3>3. Fill(t, Data(req[t]))
      BY <2>1, <3>1, <3>2 DEF ReadRow
    <3> QED
      BY <3>3 DEF Fill, TypeOK
  <2>2. CASE ReadRow(t) /\ packed_fd = NoOne
    <3>1. row' = [row EXCEPT ![t].w = req[t]] /\ pc' = [pc EXCEPT ![t] = "scale"]
      BY <2>2 DEF ReadRow
    <3>2. row'[t] = [row[t] EXCEPT !.w = req[t]] /\ row[t] \in Row
      BY <3>1 DEF TypeOK
    <3> QED
      BY <3>1, <3>2 DEF TypeOK, Row
  <2>3. CASE ReadScale(t)
    <3>1. scales # NoOne => scales + (req[t] - row_lo) = req[t]
      BY DEF ConfigInv, TypeOK
    <3>2. Fill(t, [row[t] EXCEPT !.s = req[t]])
      BY <2>3, <3>1 DEF ReadScale
    <3>3. row[t] \in Row /\ row[t].w = req[t]
      BY <2>3 DEF ReadScale, Held, TypeOK
    <3>4. [row[t] EXCEPT !.s = req[t]] = Data(req[t])
      BY <3>3 DEF Data, Row
    <3> QED
      BY <3>2, <3>4 DEF Fill, TypeOK
  <2> QED
    BY <2>1, <2>2, <2>3
<1>4. req[t] >= 0
  BY <1>2
<1> QED
  BY <1>1, <1>2, <1>3, <1>4 DEF Held, Owned, Fetching, Copying

LEMMA FillHeld ==
  ASSUME TypeOK, NEW t \in Threads, Held(t),
         \/ FillBegin(t) \/ CopyWeight(t) \/ CopyScale(t) \/ FillEnd(t)
         \/ Deliver(t) \/ ReadFails(t)
  PROVE  Held(t)'
<1>1. UNCHANGED <<row_lo, row_hi>>
  BY OneThread DEF fetch_row
<1>2. CASE Deliver(t)
  <2>1. pc'[t] = "idle"
    BY <1>2 DEF Deliver, TypeOK
  <2> QED
    BY <2>1 DEF Held, Fetching, Copying
<1>3. CASE ReadFails(t)
  BY <1>1, <1>3, HeldFrame DEF ReadFails
<1>4. CASE FillBegin(t) \/ CopyWeight(t) \/ CopyScale(t) \/ FillEnd(t)
  <2>1. /\ pc[t] \in {"fill"} \cup Copying
        /\ pc'[t] \in Copying \cup {"done"}
        /\ UNCHANGED <<req, row>>
    BY <1>4 DEF FillBegin, LockAndChoose, CopyWeight, CopyScale, FillEnd, TypeOK,
                Copying
  <2>2. req[t] \in Nat /\ req[t] < RowCount /\ Owned(req[t])
    BY <2>1 DEF Held, Fetching, Copying
  <2>3. row[t] = Data(req[t]) /\ req[t] >= 0
    BY <2>1, <2>2 DEF Held
  <2> QED
    BY <1>1, <2>1, <2>2, <2>3 DEF Held, Owned, Fetching, Copying
<1> QED
  BY <1>2, <1>3, <1>4

LEMMA HeldStep ==
  TypeOK /\ ConfigInv /\ LockInv /\ SlotInv /\ ThreadInv /\ ServedRight /\ [Next]_vars
  => (ThreadInv /\ ServedRight)'
<1> SUFFICES ASSUME TypeOK, ConfigInv, LockInv, SlotInv, ThreadInv, ServedRight,
                    [Next]_vars, NEW u \in Threads
             PROVE  Held(u)'
  BY DEF ThreadInv, ServedRight, Held
<1>1. Held(u)
  BY HeldAll
<1>2. ASSUME _make_init PROVE Held(u)'
  <2>1. UNCHANGED <<pc, req, row>>
    BY <1>2 DEF _make_init, row_store_open, row_store_range, row_store_attach_packed
  <2>2. CASE row_store_attach_packed
    BY <1>1, <2>1, <2>2, HeldFrame DEF row_store_attach_packed
  <2>3. CASE row_store_open \/ row_store_range
    <3>1. pc'[u] = "idle"
      BY <2>1, <2>3 DEF row_store_open, row_store_range, ConfigInv
    <3> QED
      BY <3>1 DEF Held, Fetching, Copying
  <2> QED
    BY <1>2, <2>2, <2>3 DEF _make_init
<1>3. ASSUME NEW t \in Threads, serve(t) \/ fetch_row(t) \/ ReadFails(t) \/ Deliver(t)
      PROVE  Held(u)'
  <2>1. CASE u = t
    BY <1>1, <1>3, <2>1, ServeHeld, ProbeHeld, ReadHeld, FillHeld DEF fetch_row
  <2>2. CASE u # t
    <3>1. /\ UNCHANGED <<row_lo, row_hi>>
          /\ pc'[u] = pc[u] /\ req'[u] = req[u] /\ row'[u] = row[u]
      BY <1>3, <2>2, OneThread
    <3> QED
      BY <1>1, <3>1, HeldFrame
  <2> QED
    BY <2>1, <2>2
<1>4. CASE UNCHANGED vars
  BY <1>1, <1>4, HeldFrame DEF vars, config
<1> QED
  BY <1>2, <1>3, <1>4 DEF Next

-----------------------------------------------------------------------------
(* Locks *)
LEMMA LockFrame ==
  ASSUME LockInv, UNCHANGED locks,
         \A u \in Threads : /\ pc'[u] \in Copying <=> pc[u] \in Copying
                            /\ pc[u] \in Copying => req'[u] = req[u]
  PROVE  LockInv'
BY DEF LockInv

LEMMA FillBeginLock ==
  ASSUME TypeOK, LockInv, NEW t \in Threads, FillBegin(t)
  PROVE  LockInv'
<1> DEFINE k == LockOf(req[t])
<1>1. /\ k \in 0..(LockCount - 1) /\ locks[k] = NoOne
      /\ locks' = [locks EXCEPT ![k] = t] /\ UNCHANGED req
  BY EntryTyped DEF FillBegin, LockAndChoose, Unlocked, TypeOK
<1>2. /\ pc[t] \notin Copying /\ pc'[t] \in Copying
      /\ \A u \in Threads \ {t} : pc'[u] = pc[u]
  BY DEF FillBegin, LockAndChoose, TypeOK, Copying
<1>3. \A u \in Threads : pc[u] \in Copying => LockOf(req[u]) # k
  BY <1>1, CacheAssumption DEF LockInv
<1> SUFFICES ASSUME NEW u \in Threads, NEW l \in 0..(LockCount - 1)
             PROVE  locks'[l] = u <=> pc'[u] \in Copying /\ LockOf(req[u]) = l
  BY <1>1 DEF LockInv
<1>4. locks[l] = u <=> pc[u] \in Copying /\ LockOf(req[u]) = l
  BY DEF LockInv
<1>5. locks'[l] = IF l = k THEN t ELSE locks[l]
  BY <1>1 DEF TypeOK
<1> HIDE DEF k
<1>6. CASE u = t
  <2>1. pc[u] \notin Copying /\ pc'[u] \in Copying
    BY <1>2, <1>6
  <2> QED
    BY <1>4, <1>5, <1>6, <2>1 DEF k
<1>7. CASE u # t
  <2>1. pc'[u] = pc[u]
    BY <1>2, <1>7
  <2>2. l = k => locks'[l] # u /\ ~(pc[u] \in Copying /\ LockOf(req[u]) = l)
    BY <1>3, <1>5, <1>7
  <2> QED
    BY <1>4, <1>5, <2>1, <2>2
<1> QED
  BY <1>6, <1>7

LEMMA FillEndLock ==
  ASSUME TypeOK, LockInv, NEW t \in Threads, FillEnd(t)
  PROVE  LockInv'
<1> DEFINE k == LockOf(req[t])
<1>1. /\ k \in 0..(LockCount - 1)
      /\ locks' = [locks EXCEPT ![k] = NoOne] /\ UNCHANGED req
  BY EntryTyped DEF FillEnd, TypeOK
<1>2. /\ pc[t] \in Copying /\ pc'[t] \notin Copying
      /\ \A u \in Threads \ {t} : pc'[u] = pc[u]
  BY DEF FillEnd, TypeOK, Copying
<1>3. locks[k] = t
  BY <1>1, <1>2 DEF LockInv
<1> SUFFICES ASSUME NEW u \in Threads, NEW l \in 0..(LockCount - 1)
             PROVE  locks'[l] = u <=> pc'[u] \in Copying /\ LockOf(req[u]) = l
  BY <1>1 DEF LockInv
<1>4. locks[l] = u <=> pc[u] \in Copying /\ LockOf(req[u]) = l
  BY DEF LockInv
<1>5. locks'[l] = IF l = k THEN NoOne ELSE locks[l]
  BY <1>1 DEF TypeOK
<1>6. u # NoOne
  BY CacheAssumption
<1>7. CASE u = t
  <2>1. l # k => locks[l] # t
    BY <1>2, <1>4, <1>7
  <2> QED
    BY <1>2, <1>5, <1>6, <1>7, <2>1
<1>8. CASE u # t
  <2>1. pc'[u] = pc[u]
    BY <1>2, <1>8
  <2>2. l = k => ~(pc[u] \in Copying /\ LockOf(req[u]) = l)
    BY <1>3, <1>4, <1>8
  <2> QED
    BY <1>4, <1>5, <1>6, <2>1, <2>2
<1> QED
  BY <1>7, <1>8

\* The steps that neither take nor release a lock.
LEMMA OtherLock ==
  ASSUME TypeOK, LockInv, NEW t \in Threads,
         \/ serve(t) \/ Probe(t) \/ ReadRow(t) \/ ReadScale(t) \/ ReadFails(t)
         \/ CopyWeight(t) \/ CopyScale(t) \/ Deliver(t)
  PROVE  LockInv'
<1>1. UNCHANGED locks
  BY DEF serve, Probe, ReadRow, ReadScale, ReadFails, CopyWeight, CopyScale, Deliver,
         table
<1>2. pc'[t] \in Copying <=> pc[t] \in Copying
  BY DEF serve, Probe, ReadRow, ReadScale, ReadFails, CopyWeight, CopyScale, Deliver,
         Finish, Fill, TypeOK, Copying
<1>3. pc[t] \in Copying => req'[t] = req[t]
  BY DEF serve, Probe, ReadRow, ReadScale, ReadFails, CopyWeight, CopyScale, Deliver,
         Copying
<1>4. \A u \in Threads \ {t} : pc'[u] = pc[u] /\ req'[u] = req[u]
  BY OneThread DEF fetch_row
<1> QED
  BY <1>1, <1>2, <1>3, <1>4, LockFrame

LEMMA LockStep == TypeOK /\ LockInv /\ [Next]_vars => LockInv'
<1> SUFFICES ASSUME TypeOK, LockInv, [Next]_vars PROVE LockInv'
  OBVIOUS
<1>1. ASSUME _make_init PROVE LockInv'
  BY <1>1 DEF _make_init, row_store_open, row_store_range, row_store_attach_packed,
              table, LockInv
<1>2. CASE UNCHANGED vars
  BY <1>2 DEF vars, table, LockInv
<1> QED
  BY <1>1, <1>2, FillBeginLock, FillEndLock, OtherLock DEF Next, fetch_row

-----------------------------------------------------------------------------
(* Slots *)
LEMMA Exclusive ==
  ASSUME TypeOK, LockInv, NEW t \in Threads, NEW u \in Threads,
         pc[t] \in Copying, pc[u] \in Copying, SetOf(req[t]) = SetOf(req[u])
  PROVE  t = u
<1>1. LockOf(req[t]) = LockOf(req[u]) /\ LockOf(req[t]) \in 0..(LockCount - 1)
  BY EntryTyped DEF LockOf, TypeOK
<1> QED
  BY <1>1 DEF LockInv

\* A slot that no thread is writing holds what its key says.
Settled(e, w) ==
  \/ \E t \in Threads : pc[t] \in Copying /\ SetOf(req[t]) = e /\ way[t] = w
  \/ keys[e][w] = 0
  \/ SetOf(keys[e][w] - 1) = e /\ cache[e][w] = Data(keys[e][w] - 1)

\* A thread that has copied a part finds it in its slot.
Copied(t) ==
  /\ pc[t] \in {"copy_scale", "key"} => cache[SetOf(req[t])][way[t]].w = req[t]
  /\ pc[t] = "key" => cache[SetOf(req[t])][way[t]].s = req[t]

LEMMA SlotAll ==
  SlotInv <=> /\ \A e \in 0..(SetCount - 1), w \in 0..(Ways - 1) : Settled(e, w)
              /\ \A t \in Threads : Copied(t)
BY DEF SlotInv, Settled, Copied

LEMMA SlotFrame ==
  ASSUME SlotInv, UNCHANGED <<keys, cache>>,
         \A u \in Threads :
           /\ pc[u] \in Copying => /\ pc'[u] \in Copying
                                   /\ req'[u] = req[u] /\ way'[u] = way[u]
           /\ pc'[u] \in {"copy_scale", "key"} => pc'[u] = pc[u]
  PROVE  SlotInv'
<1>1. ASSUME NEW e \in 0..(SetCount - 1), NEW w \in 0..(Ways - 1)
      PROVE  Settled(e, w)'
  <2>1. Settled(e, w)
    BY SlotAll
  <2> QED
    BY <2>1 DEF Settled
<1>2. ASSUME NEW u \in Threads PROVE Copied(u)'
  <2>1. Copied(u)
    BY SlotAll
  <2> QED
    BY <2>1 DEF Copied, Copying
<1> QED
  BY <1>1, <1>2 DEF SlotInv, Settled, Copied

LEMMA OtherSlot ==
  ASSUME TypeOK, SlotInv, NEW t \in Threads,
         \/ serve(t) \/ Probe(t) \/ ReadRow(t) \/ ReadScale(t) \/ ReadFails(t)
         \/ FillBegin(t) \/ Deliver(t)
  PROVE  SlotInv'
<1>1. UNCHANGED <<keys, cache>>
  BY DEF serve, Probe, ReadRow, ReadScale, ReadFails, FillBegin, LockAndChoose, Deliver,
         table
<1>2. pc[t] \notin Copying \/ UNCHANGED <<pc, req, way>>
  BY DEF serve, Probe, ReadRow, ReadScale, ReadFails, FillBegin, Deliver, Copying
<1>3. pc'[t] \in {"copy_scale", "key"} => pc'[t] = pc[t]
  BY DEF serve, Probe, ReadRow, ReadScale, ReadFails, FillBegin, LockAndChoose, Deliver,
         Finish, Fill, TypeOK
<1>4. \A u \in Threads \ {t} : /\ pc'[u] = pc[u] /\ req'[u] = req[u]
                               /\ way'[u] = way[u]
  BY OneThread DEF fetch_row
<1> QED
  BY <1>1, <1>2, <1>3, <1>4, SlotFrame

\* A copy disturbs no slot but its own, which its thread owns.
LEMMA CopySlot ==
  ASSUME TypeOK, ThreadInv, LockInv, SlotInv, NEW t \in Threads,
         CopyWeight(t) \/ CopyScale(t)
  PROVE  SlotInv'
<1>1. /\ pc[t] \in Copying /\ pc'[t] \in Copying
      /\ UNCHANGED <<keys, req, way>>
      /\ \A u \in Threads \ {t} : pc'[u] = pc[u]
  BY DEF CopyWeight, CopyScale, TypeOK, Copying
<1>2. row[t] = Data(req[t]) /\ req[t] \in Int
  BY <1>1 DEF ThreadInv, TypeOK
<1>3. \/ /\ pc'[t] = "copy_scale"
         /\ cache' = [cache EXCEPT ![SetOf(req[t])][way[t]].w = req[t]]
      \/ /\ pc[t] = "copy_scale" /\ pc'[t] = "key"
         /\ cache' = [cache EXCEPT ![SetOf(req[t])][way[t]].s = req[t]]
  BY <1>2 DEF CopyWeight, CopyScale, Data, TypeOK
<1>4. /\ SetOf(req[t]) \in 0..(SetCount - 1) /\ way[t] \in 0..(Ways - 1)
      /\ cache \in [0..(SetCount - 1) -> [0..(Ways - 1) -> Row]]
  BY <1>2, EntryTyped DEF TypeOK
<1>5. \A e \in 0..(SetCount - 1), w \in 0..(Ways - 1) :
        e # SetOf(req[t]) \/ w # way[t] => cache'[e][w] = cache[e][w]
  BY <1>2, <1>3, CopyFrame DEF Part
<1>6. ASSUME NEW e \in 0..(SetCount - 1), NEW w \in 0..(Ways - 1)
      PROVE  Settled(e, w)'
  <2>1. Settled(e, w)
    BY SlotAll
  <2>2. CASE e = SetOf(req[t]) /\ w = way[t]
    BY <1>1, <2>2 DEF Settled
  <2>3. CASE e # SetOf(req[t]) \/ w # way[t]
    BY <1>1, <1>5, <2>1, <2>3 DEF Settled
  <2> QED
    BY <2>2, <2>3
<1>7. Copied(t)'
  <2>1. cache[SetOf(req[t])][way[t]] \in Row
    BY <1>4
  <2>2. pc[t] = "copy_scale" => cache[SetOf(req[t])][way[t]].w = req[t]
    BY SlotAll DEF Copied
  <2>3. \/ /\ pc'[t] = "copy_scale"
           /\ cache'[SetOf(req[t])][way[t]]
                = [cache[SetOf(req[t])][way[t]] EXCEPT !.w = req[t]]
        \/ /\ pc[t] = "copy_scale" /\ pc'[t] = "key"
           /\ cache'[SetOf(req[t])][way[t]]
                = [cache[SetOf(req[t])][way[t]] EXCEPT !.s = req[t]]
    BY <1>3, <1>4, ZenonT(20)
  <2>4. \/ /\ pc'[t] = "copy_scale"
           /\ cache'[SetOf(req[t])][way[t]].w = req[t]
        \/ /\ pc'[t] = "key"
           /\ cache'[SetOf(req[t])][way[t]].w = req[t]
           /\ cache'[SetOf(req[t])][way[t]].s = req[t]
    BY <2>1, <2>2, <2>3 DEF Row
  <2> QED
    BY <1>1, <2>4 DEF Copied
<1>8. ASSUME NEW u \in Threads \ {t} PROVE Copied(u)'
  <2>1. CASE pc[u] \in Copying
    <3>1. SetOf(req[u]) # SetOf(req[t])
      BY <1>1, <2>1, Exclusive
    <3>2. SetOf(req[u]) \in 0..(SetCount - 1) /\ way[u] \in 0..(Ways - 1)
      BY EntryTyped DEF TypeOK
    <3>3. cache'[SetOf(req[u])][way[u]] = cache[SetOf(req[u])][way[u]]
      BY <1>5, <3>1, <3>2
    <3>4. Copied(u)
      BY SlotAll
    <3> QED
      BY <1>1, <3>3, <3>4 DEF Copied
  <2>2. CASE pc[u] \notin Copying
    BY <1>1, <2>2 DEF Copied, Copying
  <2> QED
    BY <2>1, <2>2
<1> QED
  BY <1>6, <1>7, <1>8 DEF SlotInv, Settled, Copied

\* The key is written last, when both parts are in the slot.
LEMMA FillEndSlot ==
  ASSUME TypeOK, ThreadInv, SlotInv, NEW t \in Threads, FillEnd(t)
  PROVE  SlotInv'
<1> DEFINE e0 == SetOf(req[t])
           w0 == way[t]
<1>1. /\ pc[t] = "key" /\ pc'[t] = "done" /\ UNCHANGED <<cache, req, way>>
      /\ keys' = [keys EXCEPT ![e0][w0] = req[t] + 1]
      /\ \A u \in Threads \ {t} : pc'[u] = pc[u]
  BY DEF FillEnd, TypeOK
<1>2. /\ e0 \in 0..(SetCount - 1) /\ w0 \in 0..(Ways - 1) /\ req[t] \in Int
      /\ keys \in [0..(SetCount - 1) -> [0..(Ways - 1) -> 0..RowCount]]
      /\ cache[e0][w0] \in Row
  BY EntryTyped DEF TypeOK
<1>3. cache[e0][w0] = Data(req[t])
  <2>1. cache[e0][w0].w = req[t] /\ cache[e0][w0].s = req[t]
    BY <1>1, SlotAll DEF Copied
  <2> QED
    BY <1>2, <2>1 DEF Row, Data
<1>4. keys'[e0][w0] - 1 = req[t]
  <2> HIDE DEF e0, w0
  <2>1. keys'[e0][w0] = req[t] + 1
    BY <1>1, <1>2
  <2> QED
    BY <1>2, <2>1
<1>5. ASSUME NEW e \in 0..(SetCount - 1), NEW w \in 0..(Ways - 1)
      PROVE  Settled(e, w)'
  <2>1. CASE e = e0 /\ w = w0
    BY <1>1, <1>3, <1>4, <2>1 DEF Settled
  <2>2. CASE e # e0 \/ w # w0
    <3>1. keys'[e][w] = keys[e][w]
      BY <1>1, <1>2, <2>2
    <3>2. Settled(e, w)
      BY SlotAll
    <3>3. \A u \in Threads :
            SetOf(req[u]) = e /\ way[u] = w => pc'[u] = pc[u]
      BY <1>1, <2>2
    <3> QED
      BY <1>1, <3>1, <3>2, <3>3 DEF Settled
  <2> QED
    BY <2>1, <2>2
<1>6. ASSUME NEW u \in Threads PROVE Copied(u)'
  <2>1. Copied(u)
    BY SlotAll
  <2> QED
    BY <1>1, <2>1 DEF Copied
<1> QED
  BY <1>5, <1>6 DEF SlotInv, Settled, Copied

LEMMA SlotStep ==
  TypeOK /\ ThreadInv /\ LockInv /\ SlotInv /\ [Next]_vars => SlotInv'
<1> SUFFICES ASSUME TypeOK, ThreadInv, LockInv, SlotInv, [Next]_vars PROVE SlotInv'
  OBVIOUS
<1>1. ASSUME _make_init PROVE SlotInv'
  <2>1. UNCHANGED <<table, pc, req, way>>
    BY <1>1 DEF _make_init, row_store_open, row_store_range, row_store_attach_packed
  <2> QED
    BY <2>1, SlotFrame DEF table
<1>2. CASE UNCHANGED vars
  BY <1>2, SlotFrame DEF vars, table
<1> QED
  BY <1>1, <1>2, OtherSlot, CopySlot, FillEndSlot DEF Next, fetch_row

-----------------------------------------------------------------------------
(* Theorems *)
LEMMA InitInv == Init => IInv
<1> SUFFICES ASSUME Init PROVE IInv
  OBVIOUS
<1>1. /\ 0 \in 0..RowCount /\ 0 \in 0..(Ways - 1) /\ -1 \in -1..RowCount
      /\ Zeros \in Row
  BY CacheAssumption, DataTyped
<1>2. TypeOK
  BY <1>1 DEF Init, TypeOK, PC
<1>3. ConfigInv /\ ThreadInv /\ ServedRight
  BY DEF Init, ConfigInv, ThreadInv, ServedRight, Fetching, Copying
<1>4. LockInv
  BY CacheAssumption DEF Init, LockInv, Copying
<1>5. SlotInv
  BY DEF Init, SlotInv
<1> QED
  BY <1>2, <1>3, <1>4, <1>5 DEF IInv

(* The inductive invariant of the store, for any number of threads, sets,   *)
(* ways and stripes, any owned range and any packed file at the rank's path.*)
THEOREM CacheInvariant == Spec => []IInv
<1>1. IInv /\ [Next]_vars => IInv'
  BY TypeStep, ConfigStep, HeldStep, LockStep, SlotStep DEF IInv
<1> QED
  BY InitInv, <1>1, PTL DEF Spec

(* Every variable of the store keeps its type.                              *)
THEOREM TypeCorrect == Spec => []TypeOK
<1>1. IInv => TypeOK
  BY DEF IInv
<1> QED
  BY CacheInvariant, <1>1, PTL

(* fetch_row gives every owned id its own row and every other id zeros,     *)
(* whatever its source and whoever fills the cache meanwhile.               *)
THEOREM RightRow == Spec => []ServedRight
<1>1. IInv => ServedRight
  BY DEF IInv
<1> QED
  BY CacheInvariant, <1>1, PTL

(* A slot whose set is unlocked is empty or holds the row of its key.       *)
THEOREM Coherent == Spec => []CacheCoherent
<1>1. ASSUME IInv PROVE CacheCoherent
  <2> SUFFICES ASSUME NEW e \in 0..(SetCount - 1), NEW w \in 0..(Ways - 1),
                      keys[e][w] > 0, locks[e % LockCount] = NoOne
               PROVE  /\ SetOf(keys[e][w] - 1) = e
                      /\ cache[e][w] = Data(keys[e][w] - 1)
    BY DEF CacheCoherent
  <2>1. TypeOK /\ LockInv /\ Settled(e, w)
    BY <1>1, SlotAll DEF IInv
  <2>2. ASSUME NEW t \in Threads, pc[t] \in Copying, SetOf(req[t]) = e PROVE FALSE
    <3>1. LockOf(req[t]) = e % LockCount /\ LockOf(req[t]) \in 0..(LockCount - 1)
      BY <2>1, <2>2, EntryTyped DEF LockOf, TypeOK
    <3> QED
      BY <2>1, <2>2, <3>1, CacheAssumption DEF LockInv
  <2>3. keys[e][w] # 0
    OBVIOUS
  <2> QED
    BY <2>1, <2>2, <2>3 DEF Settled
<1> QED
  BY CacheInvariant, <1>1, PTL
=============================================================================
