------------------------------- MODULE CoopMoe -------------------------------
(***************************************************************************)
(* The cooperative MoE kernels of extensions/cooperative_moe: what          *)
(* CoopLaunch puts on the stream for one decode call (rotation for more     *)
(* than one row, then kernel A, then kernel B) and how their thread blocks  *)
(* meet at completion counters that stay on the device from call to call.   *)
(*                                                                         *)
(* Every buffer is the set of its cells that hold this call's right value: *)
(* a cell computed from a stale or a missing input, or with the weights of *)
(* another slot's expert, is not in it.  So a call starts with all of them *)
(* empty, and only the counters and the run table carry over.              *)
(***************************************************************************)
EXTENDS Integers, FiniteSets

CONSTANTS Shapes,        \* the compiled shapes of the kernels and their layers
          RunRows,       \* ROWS = 8 slots of one expert per block
          THREADS        \* threads of a block, 512 in the code

\* A shape: slots per row (6 in the code), rows in a call (at most 8), local
\* experts, 128-chunks of the activation (9) and of an output row (40), and
\* tile_gpc of either kernel: blocks per chunk, 1 or 4.
ASSUME CoopAssumption ==
  /\ Shapes \subseteq [topk : Nat \ {0}, rows : Nat \ {0}, experts : Nat \ {0},
                       chunksI : Nat \ {0}, chunksH : Nat \ {0},
                       gpcA : Nat \ {0}, gpcB : Nat \ {0}]
  /\ RunRows \in Nat \ {0} /\ THREADS \in Nat \ {0}

VARIABLES shape,                       \* the shape of the layers, fixed at load
          stage,                       \* what the stream runs
          bsz, route,                  \* rows of the call; slot -> local expert
          ctr_a, ctr_b, runs,          \* device state that outlives a call
          had, gu, act_out, d_out, out,   \* right cells of the buffers
          at, r                        \* per block: next step, row of its run

stream == <<shape, stage, bsz, route>>
buffers == <<had, gu, act_out, d_out, out>>
vars == <<stream, ctr_a, ctr_b, runs, buffers, at, r>>

TopK == shape.topk
MaxRows == shape.rows
ExpertCount == shape.experts   \* n_local; as a route it means "no local expert"
ChunksI == shape.chunksI
ChunksH == shape.chunksH
GpcA == shape.gpcA
GpcB == shape.gpcB

Slots == 0..(MaxRows * TopK - 1)
CtrA == 0..(MaxRows * TopK * ChunksI - 1)
CtrB == 0..(MaxRows * ChunksH - 1)
Projs == {"gate", "up"}

NgA == ChunksI * GpcA
NgB == ChunksH * GpcB
GridA(rows) == rows * TopK * 2 * NgA
GridB(rows) == rows * TopK * NgB
Blocks == 0..(IF GridA(MaxRows) > GridB(MaxRows) THEN GridA(MaxRows) - 1
              ELSE GridB(MaxRows) - 1)

Active(s) == s < bsz * TopK /\ route[s] < ExpertCount
ActiveSlots == {s \in Slots : Active(s)}
RowOf(s) == s \div TopK
SlotsOf(row) == {s \in ActiveSlots : RowOf(s) = row}

Ready(grid) == [b \in Blocks |-> IF b < grid THEN "gemv" ELSE "done"]
Idle == [b \in Blocks |-> "done"]

Init ==
  /\ shape \in Shapes /\ stage = "idle"
  /\ bsz = 1 /\ route = [s \in Slots |-> ExpertCount]
  /\ ctr_a = [i \in CtrA |-> 0] /\ ctr_b = [i \in CtrB |-> 0]
  /\ runs = [n |-> 0, start |-> <<>>, order |-> <<>>]
  /\ had = {} /\ gu = {} /\ act_out = {} /\ d_out = {} /\ out = {}
  /\ at = Idle /\ r = [b \in Blocks |-> 0]
-----------------------------------------------------------------------------
(* The host *)
\* Mutant: after a failed launch the next call is made all the same.
BeginRetry(k, rows) ==
  \/ /\ stage' = k
     /\ at' = IF k = "a" THEN Ready(GridA(rows))
              ELSE IF k = "b" THEN Ready(GridB(rows)) ELSE Idle
     /\ r' = [b \in Blocks |-> 0]
  \/ stage' = "idle" /\ UNCHANGED <<at, r>>

\* The next kernel's turn: it runs, or its launch failed and the engine is ended
\* by CoopLaunch's RuntimeError.
Begin(k, rows) ==
  \/ /\ stage' = k
     /\ at' = IF k = "a" THEN Ready(GridA(rows))
              ELSE IF k = "b" THEN Ready(GridB(rows)) ELSE Idle
     /\ r' = [b \in Blocks |-> 0]
  \/ stage' = "dead" /\ UNCHANGED <<at, r>>

\* One eligible call.
goal50_coop_launch ==
  /\ stage \in {"idle", "done"}
  /\ \E rows \in 1..MaxRows, picks \in [Slots -> 0..ExpertCount] :
       /\ \A s \in Slots : s >= rows * TopK => picks[s] = ExpertCount
       /\ bsz' = rows /\ route' = picks
       /\ Begin(IF rows > 1 THEN "rot" ELSE "a", rows)
  /\ had' = {} /\ gu' = {} /\ act_out' = {} /\ d_out' = {} /\ out' = {}
  /\ UNCHANGED <<shape, ctr_a, ctr_b, runs>>
-----------------------------------------------------------------------------
(* Rotation kernel; its blocks share nothing, so it is one step *)
Rank(s) == Cardinality({u \in ActiveSlots : \/ route[u] < route[s]
                                            \/ route[u] = route[s] /\ u < s})
First(e) == Cardinality({u \in ActiveSlots : route[u] < e})

StartsRun(order, i) ==
  \/ i = 0
  \/ route[order[i - 1]] # route[order[i]]
  \/ (i - First(route[order[i]])) % RunRows = 0

build_runs ==
  LET n == Cardinality(ActiveSlots)
      order == [i \in 0..(n - 1) |-> CHOOSE s \in ActiveSlots : Rank(s) = i]
      starts == {i \in 0..(n - 1) : StartsRun(order, i)}
      StartOf(k) == CHOOSE i \in starts : Cardinality({j \in starts : j < i}) = k
  IN  [n |-> Cardinality(starts),
       start |-> [k \in 0..Cardinality(starts) |->
                    IF k < Cardinality(starts) THEN StartOf(k) ELSE n],
       order |-> order]

exl3_moe_coop_rot_kernel ==
  /\ stage = "rot"
  /\ runs' = build_runs
  /\ had' = Projs \X ActiveSlots
  /\ out' = {row \in 0..(bsz - 1) : SlotsOf(row) = {}} \X (0..(ChunksH - 1))
  /\ Begin("a", bsz)
  /\ UNCHANGED <<shape, bsz, route, ctr_a, ctr_b, gu, act_out, d_out>>

\* The slots of a block's run; none past the last run.
read_run(k) ==
  IF bsz = 1
  THEN IF k < TopK /\ Active(k) THEN [j \in 0..0 |-> k] ELSE <<>>
  ELSE IF k < runs.n
       THEN [j \in 0..(runs.start[k + 1] - runs.start[k] - 1) |->
               runs.order[runs.start[k] + j]]
       ELSE <<>>

RunLength(k) == Cardinality(DOMAIN read_run(k))

\* The counters a block clears at its start, in strides of the whole grid.
Share(b, grid, len) == {i \in 0..(len - 1) : (i \div THREADS) % grid = b}

\* The slots of a run that get a right result: the run's expert is theirs and
\* their input is right.
Multiplied(run, inputs) ==
  {run[j] : j \in {i \in DOMAIN run : /\ route[run[i]] = route[run[0]]
                                      /\ inputs[run[i]]}}

\* A block goes to the next row of its run, or ends.
NextRow(b, k) ==
  /\ at' = [at EXCEPT ![b] = IF r[b] + 1 < RunLength(k) THEN "arrive" ELSE "done"]
  /\ r' = [r EXCEPT ![b] = @ + 1]
-----------------------------------------------------------------------------
(* Kernel A *)
ProjOf(b) == IF b % 2 = 0 THEN "gate" ELSE "up"
RunOfA(b) == (b \div 2) \div NgA
GroupA(b) == (b \div 2) % NgA
ChunkA(b) == GroupA(b) \div GpcA
SlotA(b) == read_run(RunOfA(b))[r[b]]
IndexA(s, c) == s * ChunksI + c

\* The rotated inputs; at one row the block rotates its own.
Rotated(proj) == [s \in Slots |-> bsz = 1 \/ <<proj, s>> \in had]

\* Clear a share of ctr_b and multiply; at one row also write an empty row.
GemvA(b) ==
  LET run == read_run(RunOfA(b)) IN
  /\ stage = "a" /\ at[b] = "gemv"
  /\ ctr_b' = [i \in CtrB |->
                 IF i \in Share(b, GridA(bsz), MaxRows * ChunksH) THEN 0 ELSE ctr_b[i]]
  /\ at' = [at EXCEPT ![b] = IF RunLength(RunOfA(b)) = 0 THEN "done" ELSE "arrive"]
  /\ gu' = gu \cup ({ProjOf(b)} \X Multiplied(run, Rotated(ProjOf(b))) \X {GroupA(b)})
  /\ out' = IF /\ bsz = 1 /\ RunLength(RunOfA(b)) = 0
               /\ ProjOf(b) = "up" /\ RunOfA(b) = 0 /\ SlotsOf(0) = {}
            THEN out \cup {<<0, c>> : c \in {x \in 0..(ChunksH - 1) : x % NgA = GroupA(b)}}
            ELSE out
  /\ UNCHANGED <<stream, ctr_a, runs, had, act_out, d_out, r>>

ExpectedA == GpcA * 2

ArriveA(b) ==
  LET i == IndexA(SlotA(b), ChunkA(b)) IN
  /\ stage = "a" /\ at[b] = "arrive"
  /\ ctr_a' = [ctr_a EXCEPT ![i] = @ + 1]
  /\ IF ctr_a[i] = ExpectedA - 1
     THEN at' = [at EXCEPT ![b] = "epilogue"] /\ UNCHANGED r
     ELSE NextRow(b, RunOfA(b))
  /\ UNCHANGED <<stream, ctr_b, runs, buffers>>

GroupsOf(c, gpc) == (c * gpc)..((c + 1) * gpc - 1)

\* The last arrival at a chunk of a slot turns its partial sums into activations.
EpilogueA(b) ==
  LET s == SlotA(b)
      c == ChunkA(b)
  IN  /\ stage = "a" /\ at[b] = "epilogue"
      /\ act_out' = IF \A p \in Projs, g \in GroupsOf(c, GpcA) : <<p, s, g>> \in gu
                    THEN act_out \cup {<<s, c>>} ELSE act_out \ {<<s, c>>}
      /\ NextRow(b, RunOfA(b))
      /\ UNCHANGED <<stream, ctr_a, ctr_b, runs, had, gu, d_out, out>>

\* Kernel B starts when every block of A has ended.
FinishA ==
  /\ stage = "a" /\ \A b \in Blocks : at[b] = "done"
  /\ Begin("b", bsz)
  /\ UNCHANGED <<shape, bsz, route, ctr_a, ctr_b, runs, buffers>>
-----------------------------------------------------------------------------
(* Kernel B *)
RunOfB(b) == b \div NgB
GroupB(b) == b % NgB
ChunkB(b) == GroupB(b) \div GpcB
SlotB(b) == read_run(RunOfB(b))[r[b]]
IndexB(row, c) == row * ChunksH + c

ActivationsIn == [s \in Slots |-> \A c \in 0..(ChunksI - 1) : <<s, c>> \in act_out]

\* Clear a share of ctr_a for the next call and multiply.
GemvB(b) ==
  LET run == read_run(RunOfB(b)) IN
  /\ stage = "b" /\ at[b] = "gemv"
  /\ ctr_a' = [i \in CtrA |->
                 IF i \in Share(b, GridB(bsz), MaxRows * TopK * ChunksI)
                 THEN 0 ELSE ctr_a[i]]
  /\ at' = [at EXCEPT ![b] = IF RunLength(RunOfB(b)) = 0 THEN "done" ELSE "arrive"]
  /\ d_out' = d_out \cup (Multiplied(run, ActivationsIn) \X {GroupB(b)})
  /\ UNCHANGED <<stream, ctr_b, runs, had, gu, act_out, out, r>>

\* Mutant: a row is taken to have all its slots on this rank.
ExpectedBTopK(row) == TopK * GpcB

ExpectedB(row) == Cardinality(SlotsOf(row)) * GpcB

ArriveB(b) ==
  LET row == RowOf(SlotB(b))
      i == IndexB(row, ChunkB(b))
  IN  /\ stage = "b" /\ at[b] = "arrive"
      /\ ctr_b' = [ctr_b EXCEPT ![i] = @ + 1]
      /\ IF ctr_b[i] = ExpectedB(row) - 1
         THEN at' = [at EXCEPT ![b] = "epilogue"] /\ UNCHANGED r
         ELSE NextRow(b, RunOfB(b))
      /\ UNCHANGED <<stream, ctr_a, runs, buffers>>

\* The last arrival at a chunk of a row sums the row's slots.
ReduceB(b) ==
  LET row == RowOf(SlotB(b))
      c == ChunkB(b)
  IN  /\ stage = "b" /\ at[b] = "epilogue"
      /\ out' = IF \A s \in SlotsOf(row), g \in GroupsOf(c, GpcB) : <<s, g>> \in d_out
                THEN out \cup {<<row, c>>} ELSE out \ {<<row, c>>}
      /\ NextRow(b, RunOfB(b))
      /\ UNCHANGED <<stream, ctr_a, ctr_b, runs, had, gu, act_out, d_out>>

FinishB ==
  /\ stage = "b" /\ \A b \in Blocks : at[b] = "done"
  /\ stage' = "done"
  /\ UNCHANGED <<shape, bsz, route, ctr_a, ctr_b, runs, buffers, at, r>>
-----------------------------------------------------------------------------
exl3_moe_coop_a_kernel == \/ FinishA
                          \/ \E b \in Blocks : GemvA(b) \/ ArriveA(b) \/ EpilogueA(b)
exl3_moe_coop_b_kernel == \/ FinishB
                          \/ \E b \in Blocks : GemvB(b) \/ ArriveB(b) \/ ReduceB(b)

Next == \/ goal50_coop_launch \/ exl3_moe_coop_rot_kernel
        \/ exl3_moe_coop_a_kernel \/ exl3_moe_coop_b_kernel

Spec == Init /\ [][Next]_vars
-----------------------------------------------------------------------------
TypeOK ==
  /\ shape \in Shapes
  /\ stage \in {"idle", "rot", "a", "b", "done", "dead"}
  /\ bsz \in 1..MaxRows
  /\ route \in [Slots -> 0..ExpertCount]
  /\ ctr_a \in [CtrA -> 0..(GpcA * 2)]
  /\ ctr_b \in [CtrB -> 0..(TopK * GpcB)]
  /\ runs.n \in 0..(MaxRows * TopK)
  /\ had \subseteq Projs \X Slots
  /\ gu \subseteq Projs \X Slots \X (0..(NgA - 1))
  /\ act_out \subseteq Slots \X (0..(ChunksI - 1))
  /\ d_out \subseteq Slots \X (0..(NgB - 1))
  /\ out \subseteq (0..(MaxRows - 1)) \X (0..(ChunksH - 1))
  /\ at \in [Blocks -> {"gemv", "arrive", "epilogue", "done"}]
  /\ r \in [Blocks -> 0..RunRows]

(* When a call is over every chunk of every row of its output is right,     *)
(* rows without a local expert included, whatever earlier calls left on the *)
(* device.                                                                  *)
OutputRight ==
  stage = "done" => out = (0..(bsz - 1)) \X (0..(ChunksH - 1))

(* One block alone is the last to arrive at a chunk, after all the partial  *)
(* results it is going to read were stored, and the chunk is written once.  *)
LastArrival ==
  \A b \in Blocks : at[b] = "epilogue" =>
    /\ stage = "a" =>
         /\ <<SlotA(b), ChunkA(b)>> \notin act_out
         /\ \A p \in Projs, g \in GroupsOf(ChunkA(b), GpcA) : <<p, SlotA(b), g>> \in gu
         /\ \A d \in Blocks \ {b} : at[d] = "epilogue" =>
              <<SlotA(d), ChunkA(d)>> # <<SlotA(b), ChunkA(b)>>
    /\ stage = "b" =>
         /\ <<RowOf(SlotB(b)), ChunkB(b)>> \notin out
         /\ \A s \in SlotsOf(RowOf(SlotB(b))), g \in GroupsOf(ChunkB(b), GpcB) :
              <<s, g>> \in d_out
         /\ \A d \in Blocks \ {b} : at[d] = "epilogue" =>
              <<RowOf(SlotB(d)), ChunkB(d)>> # <<RowOf(SlotB(b)), ChunkB(b)>>

(* Every chunk of a call is written, once and right. *)
CallRight == TypeOK /\ OutputRight /\ LastArrival

(* While a kernel runs its counters count this call's arrivals, and nothing *)
(* an earlier call left; between calls the counters of kernel A are zero.   *)
Arrived(b) == IF at[b] = "epilogue" THEN r[b] + 1
              ELSE IF at[b] = "gemv" THEN 0 ELSE r[b]

\* The arrivals at a chunk of a slot, and at a chunk of a row: block and row of its run.
ArrivalsA(s, c) ==
  {a \in (0..(GridA(bsz) - 1)) \X (0..(RunRows - 1)) :
     ChunkA(a[1]) = c /\ a[2] < Arrived(a[1]) /\ read_run(RunOfA(a[1]))[a[2]] = s}
ArrivalsB(row, c) ==
  {a \in (0..(GridB(bsz) - 1)) \X (0..(RunRows - 1)) :
     ChunkB(a[1]) = c /\ a[2] < Arrived(a[1]) /\ RowOf(read_run(RunOfB(a[1]))[a[2]]) = row}

CountersExact ==
  /\ stage = "a" => \A s \in Slots, c \in 0..(ChunksI - 1) :
       ctr_a[IndexA(s, c)] = Cardinality(ArrivalsA(s, c))
  /\ stage = "b" => \A row \in 0..(bsz - 1), c \in 0..(ChunksH - 1) :
       ctr_b[IndexB(row, c)] = Cardinality(ArrivalsB(row, c))
  /\ stage \in {"idle", "rot", "done"} => \A i \in CtrA : ctr_a[i] = 0

-----------------------------------------------------------------------------
(* What CoopMoeProofs shows every step to keep, and CallRight and           *)
(* CountersExact follow from.                                               *)

\* The runs hold the active slots, each once, those of one expert in each run.
RunSet == 0..(bsz * TopK - 1)
RunsFit ==
  /\ \A k \in RunSet :
       /\ RunLength(k) \in 0..RunRows
       /\ read_run(k) \in [0..(RunLength(k) - 1) -> ActiveSlots]
       /\ \A j \in DOMAIN read_run(k) : route[read_run(k)[j]] = route[read_run(k)[0]]
  /\ \A s \in ActiveSlots : \E k \in RunSet : \E j \in DOMAIN read_run(k) : read_run(k)[j] = s
  /\ \A k, l \in RunSet : \A i \in DOMAIN read_run(k), j \in DOMAIN read_run(l) :
       read_run(k)[i] = read_run(l)[j] => k = l /\ i = j

EmptyRows == {row \in 0..(bsz - 1) : SlotsOf(row) = {}}
StageInv ==
  /\ stage \notin {"a", "b"} => \A b \in Blocks : at[b] = "done"
  /\ stage = "rot" => bsz > 1 /\ act_out = {} /\ out = {}
  /\ stage \in {"a", "b"} => RunsFit /\ (bsz = 1 \/ had = Projs \X ActiveSlots)
  /\ stage = "b" => ActiveSlots \X (0..(ChunksI - 1)) \subseteq act_out
  /\ OutputRight

\* Where a block of a kernel is in its run of so many slots.
Placed(b, length) ==
  /\ at[b] = "gemv" => r[b] = 0
  /\ at[b] \in {"arrive", "epilogue"} => r[b] < length
  /\ at[b] = "done" => r[b] = length
PlaceInv ==
  /\ stage = "a" => \A b \in Blocks : IF b < GridA(bsz) THEN Placed(b, RunLength(RunOfA(b))) ELSE at[b] = "done"
  /\ stage = "b" => \A b \in Blocks : IF b < GridB(bsz) THEN Placed(b, RunLength(RunOfB(b))) ELSE at[b] = "done"

\* A block past its start has stored its partial results and cleared its share of the
\* other kernel's counters.
StartedInv ==
  /\ stage = "a" =>
       /\ \A b \in 0..(GridA(bsz) - 1) : at[b] # "gemv" =>
            \A j \in DOMAIN read_run(RunOfA(b)) : <<ProjOf(b), read_run(RunOfA(b))[j], GroupA(b)>> \in gu
       /\ \A i \in CtrB : at[(i \div THREADS) % GridA(bsz)] # "gemv" => ctr_b[i] = 0
  /\ stage = "b" =>
       /\ \A b \in 0..(GridB(bsz) - 1) : at[b] # "gemv" =>
            \A j \in DOMAIN read_run(RunOfB(b)) : <<read_run(RunOfB(b))[j], GroupB(b)>> \in d_out
       /\ \A i \in CtrA : at[(i \div THREADS) % GridB(bsz)] # "gemv" => ctr_a[i] = 0

\* A counter that is full has its chunk written, or one block about to write it.
LastInv ==
  /\ stage = "a" =>
       /\ \A s \in ActiveSlots, c \in 0..(ChunksI - 1) :
            ctr_a[IndexA(s, c)] = ExpectedA <=>
              <<s, c>> \in act_out \/ \E b \in Blocks : at[b] = "epilogue" /\ SlotA(b) = s /\ ChunkA(b) = c
       /\ \A b \in Blocks : at[b] = "epilogue" =>
            /\ <<SlotA(b), ChunkA(b)>> \notin act_out
            /\ \A d \in Blocks \ {b} : at[d] = "epilogue" => <<SlotA(d), ChunkA(d)>> # <<SlotA(b), ChunkA(b)>>
  /\ stage = "b" =>
       /\ \A row \in (0..(bsz - 1)) \ EmptyRows, c \in 0..(ChunksH - 1) :
            ctr_b[IndexB(row, c)] = ExpectedB(row) <=>
              <<row, c>> \in out \/ \E b \in Blocks : at[b] = "epilogue" /\ RowOf(SlotB(b)) = row /\ ChunkB(b) = c
       /\ \A b \in Blocks : at[b] = "epilogue" =>
            /\ <<RowOf(SlotB(b)), ChunkB(b)>> \notin out
            /\ \A d \in Blocks \ {b} : at[d] = "epilogue" =>
                 <<RowOf(SlotB(d)), ChunkB(d)>> # <<RowOf(SlotB(b)), ChunkB(b)>>

\* The rows with no slot are written by the rotation or, one row alone, by the blocks of
\* kernel A that have started.
EmptyInv ==
  /\ stage = "a" =>
       /\ out \subseteq EmptyRows \X (0..(ChunksH - 1))
       /\ \A row \in EmptyRows, c \in 0..(ChunksH - 1) :
            <<row, c>> \in out \/ (bsz = 1 /\ at[2 * (c % NgA) + 1] = "gemv")
  /\ stage = "b" => /\ out \subseteq (0..(bsz - 1)) \X (0..(ChunksH - 1))
                    /\ EmptyRows \X (0..(ChunksH - 1)) \subseteq out

IInv == TypeOK /\ StageInv /\ PlaceInv /\ StartedInv /\ LastInv /\ EmptyInv /\ CountersExact
=============================================================================
