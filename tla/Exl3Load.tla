------------------------------ MODULE Exl3Load ------------------------------
(***************************************************************************)
(* Loading one packed layer of the checkpoint on the ranks of the server    *)
(* (exl3.py): the method a layer gets, the K its prefix promises, the       *)
(* loaders of routed experts and of linears with their tensor-parallel      *)
(* slices, the pinned buffer every copy goes through, the handles built     *)
(* afterwards, and the autotuning of their shapes before CUDA-graph capture *)
(* (patch_memory_log.py).                                                  *)
(*                                                                         *)
(* A matrix is a grid of tiles.  Ranks do not interact: they load one after *)
(* the other.  A unit <<e, i>> is a matrix of the checkpoint: gate, up and  *)
(* down (0, 1, 2) of expert e; or shard i of a linear, -1 if it has none.   *)
(***************************************************************************)
EXTENDS Integers, Sequences, FiniteSets

CONSTANTS Shapes,      \* the layers; see MCExl3Load
          KMap,        \* exl3_k_map.json
          TuneRows,    \* DSV41_EXL3_PRETUNE_SIZES
          CaptureRows, \* rows of the captured forwards
          MaxTuned     \* 144: more rows take the path without autotuning

Suffixes == <<"mul1", "suh", "svh", "trellis">>  \* in the order of a file
NoId == -1

VARIABLES
  shape, lost,  \* the layer, and the tensors its checkpoint lacks
  rank,
  phase,        \* "create", "load", "ready", "raised" or "dense"
  todo,         \* units not begun
  unit, pos,    \* the unit being read, and its next tensor
  stage,        \* what the pinned buffer holds
  pending,      \* destinations of copies that have not run
  param, stash, \* destination -> the slice it holds
  inners,       \* the handles of each rank, in order
  warm,         \* compile_or_warm_up_model is under way: the pretune is over
  tuned,        \* the <<handle shape, row bucket>> pairs that were autotuned
  untuned,      \* the handles the pretune passed over or did not get through
  captured      \* 0, or the rows of the forward that is captured

loadVars == <<shape, lost, rank, phase, todo, unit, pos, stage, pending, param, stash, inners, warm, tuned, untuned, captured>>

Lesser(a, b) == IF a < b THEN a ELSE b
Moe == shape.class = "RoutedExperts"
Tp == shape.tp
Uninit == [unit |-> <<-9, -9>>, suffix |-> "none", k |-> 0, rows |-> {}, cols |-> {}, scrambled |-> FALSE]
NoUnit == <<0, -2>>
-----------------------------------------------------------------------------
(* The layer *)

\* k_for_prefix: the K of a module prefix; a prefix is what its tests tell apart.
KFor(p) ==
  LET Of(map, default) == IF p.layer \in DOMAIN map THEN map[p.layer] ELSE default
  IN IF p.mtp \/ p.layer >= KMap.layers \/ p.kind = "main_proj" THEN KMap.mtp
     ELSE IF p.kind = "shared_expert" /\ p.layer \in DOMAIN KMap.shared THEN KMap.shared[p.layer]
     ELSE IF p.kind = "engram" /\ p.layer \in DOMAIN KMap.engram THEN KMap.engram[p.layer]
     ELSE IF p.kind = "experts" THEN Of(KMap.routed, 3)
     ELSE IF p.kind = "indexer.wk" THEN KMap.wk
     ELSE IF p.kind = "attn" THEN KMap.attn
     ELSE IF p.kind = "lm_head" THEN KMap.head
     ELSE 3

ASSUME LoadConstants ==
  \A s \in Shapes :
    /\ {s.tp, s.in} \subseteq Nat \ {0} /\ KFor(s.prefix) \in Nat
    /\ s.class = "RoutedExperts" =>
         s.experts \in Nat /\ s.inter \in Nat \ {0} /\ s.ks \in Seq(Nat) /\ Len(s.ks) \in {1, 3}
    /\ s.class # "RoutedExperts" =>
         /\ s.outs \in Seq(Nat) /\ s.outs # <<>> /\ s.groups \in Nat
         \* vLLM deals whole groups to the ranks of a column-parallel linear
         /\ s.groups > 0 => Len(s.outs) = 1 /\ s.parallel = "col" /\ s.groups % s.tp = 0

\* _skip_exl3_linear: modules the checkpoint stores dense.
Native(p) == p.kind \in {"vision", "gate", "embed", "markov_head", "weights_proj"}

\* get_quant_method
Packed ==
  \/ shape.class \in {"RoutedExperts", "ParallelLMHead"}
  \/ shape.class = "LinearBase" /\ ~Native(shape.prefix)

\* Sizes vLLM creates a linear with on one rank.
InPart == IF shape.parallel = "row" THEN shape.in \div Tp ELSE shape.in
Parts == [i \in DOMAIN shape.outs |->
            IF shape.parallel = "col" THEN shape.outs[i] \div Tp ELSE shape.outs[i]]
SumOf(sizes) == LET sum[i \in 0..Len(sizes)] == IF i = 0 THEN 0 ELSE sum[i - 1] + sizes[i]
                IN sum[Len(sizes)]

\* Slices of a grouped linear that one rank owns; 0 for any other.
LocalSlices == shape.groups \div Tp

\* create_weights: how a linear is sharded follows from its sizes.
Sharding ==
  IF InPart < shape.in THEN "row" ELSE IF SumOf(Parts) < SumOf(shape.outs) THEN "col" ELSE "none"

Units ==
  IF Moe THEN {<<e, i>> : e \in 0..(shape.experts - 1), i \in 0..2}
  ELSE IF shape.groups > 0 THEN {<<0, i>> : i \in 0..(shape.groups - 1)}
  ELSE IF Len(shape.outs) > 1 THEN {<<0, i>> : i \in 0..(Len(shape.outs) - 1)}
  ELSE {<<0, NoId>>}

Ins(u) == IF Moe /\ u[2] = 2 THEN shape.inter ELSE shape.in
Outs(u) ==
  IF Moe THEN (IF u[2] = 2 THEN shape.in ELSE shape.inter)
  ELSE IF shape.groups > 0 THEN shape.outs[1] \div shape.groups
  ELSE IF u[2] = NoId THEN shape.outs[1] ELSE shape.outs[u[2] + 1]
KOf(u) == shape.ks[IF u[2] = NoId \/ Len(shape.ks) = 1 THEN 1 ELSE u[2] + 1]

\* A tensor of the checkpoint.
Tensor(u, s) ==
  [unit |-> u, suffix |-> s, k |-> IF s = "trellis" THEN KOf(u) ELSE 0,
   rows |-> IF s \in {"trellis", "suh"} THEN 0..(Ins(u) - 1) ELSE {},
   cols |-> IF s \in {"trellis", "svh"} THEN 0..(Outs(u) - 1) ELSE {}, scrambled |-> FALSE]

Dims(v) ==
  IF v.suffix = "trellis" THEN <<Cardinality(v.rows), Cardinality(v.cols), v.k>>
  ELSE IF v.suffix = "mul1" THEN <<>>
  ELSE <<Cardinality(v.rows \cup v.cols)>>
Numel(dims) == LET prod[i \in 0..Len(dims)] == IF i = 0 THEN 1 ELSE prod[i - 1] * dims[i]
               IN prod[Len(dims)]
-----------------------------------------------------------------------------
(* Tensor-parallel slices *)

Divides(size) == size % Tp = 0

\* _narrow_tp: a rank's part of a dimension.
Chunk(r, size) == (r * (size \div Tp))..((r + 1) * (size \div Tp) - 1)

ShardCol(r, v) ==
  IF v.suffix \in {"trellis", "svh"} THEN [v EXCEPT !.cols = Chunk(r, Cardinality(v.cols))] ELSE v
ShardRow(r, v) ==
  IF v.suffix \in {"trellis", "suh"} THEN [v EXCEPT !.rows = Chunk(r, Cardinality(v.rows))] ELSE v

Shard(r, how, v) ==
  CASE how = "col" -> ShardCol(r, v) [] how = "row" -> ShardRow(r, v) [] OTHER -> v

\* Gate and up are cut by columns, down by rows; a grouped linear is not cut by columns,
\* its slices are dealt out whole.
How(u) ==
  IF Moe THEN (IF u[2] = 2 THEN "row" ELSE "col")
  ELSE IF shape.groups > 0 /\ Sharding = "col" THEN "none" ELSE Sharding

\* Cutting this tensor raises.
Uneven(how, v) ==
  \/ how = "col" /\ v.suffix \in {"trellis", "svh"} /\ ~Divides(Cardinality(v.cols))
  \/ how = "row" /\ v.suffix \in {"trellis", "suh"} /\ ~Divides(Cardinality(v.rows))
-----------------------------------------------------------------------------
Fresh ==
  /\ todo = {} /\ unit = NoUnit /\ pos = 1
  /\ stage = Uninit /\ pending = <<>> /\ param = <<>> /\ stash = <<>>

LoadInit ==
  /\ shape \in Shapes /\ rank = 0 /\ phase = "create" /\ Fresh
  \* the checkpoint is whole, or lacks a tensor, or one matrix
  /\ lost \in {{}} \cup {{<<u, Suffixes[i]>>} : u \in Units, i \in 1..4}
                   \cup {{<<u, Suffixes[i]>> : i \in 1..4} : u \in Units}
  /\ inners = [r \in 0..(Tp - 1) |-> <<>>] /\ captured = 0
  /\ warm = FALSE /\ tuned = {} /\ untuned = {}

\* create_weights
Create ==
  /\ phase = "create"
  /\ IF Packed THEN phase' = "load" /\ todo' = Units ELSE phase' = "dense" /\ UNCHANGED todo
  /\ UNCHANGED <<shape, lost, rank, unit, pos, stage, pending, param, stash, inners, warm, tuned, untuned, captured>>

\* The stream comes to the next matrix.
NextUnit ==
  /\ phase = "load" /\ unit = NoUnit
  /\ \E u \in todo : unit' = u /\ todo' = todo \ {u} /\ pos' = 1
  /\ UNCHANGED <<shape, lost, rank, phase, stage, pending, param, stash, inners, warm, tuned, untuned, captured>>

\* h2d_copy returns when the copy out of the pinned buffer has run.
Synchronous == pending = <<>>

\* The tensor just read is done with: the next one of the matrix.
Advance ==
  IF pos = 4 THEN unit' = NoUnit /\ pos' = 1 ELSE pos' = pos + 1 /\ UNCHANGED unit

\* The stream ends early: the file lacks the tensor.
Skip ==
  /\ phase = "load" /\ unit # NoUnit /\ <<unit, Suffixes[pos]>> \in lost
  /\ Advance
  /\ UNCHANGED <<shape, lost, rank, phase, todo, stage, pending, param, stash, inners, warm, tuned, untuned, captured>>

Here == Tensor(unit, Suffixes[pos])
Readable == phase = "load" /\ unit # NoUnit /\ <<unit, Suffixes[pos]>> \notin lost /\ Synchronous

Raise == phase' = "raised" /\ UNCHANGED <<unit, pos, stage, pending>>
Copy(v, dest) == stage' = v /\ pending' = Append(pending, dest) /\ Advance /\ UNCHANGED phase

\* Exl3MoEMethod._load_exl3
LoadExpert ==
  /\ Readable /\ Moe
  /\ LET v == Shard(rank, How(unit), Here)
         local == shape.inter \div Tp
         dest == CASE v.suffix = "trellis" ->
                        (IF unit[2] = 2 THEN <<local, shape.in, KFor(shape.prefix)>>
                                        ELSE <<shape.in, local, KFor(shape.prefix)>>)
                   [] v.suffix = "suh" -> <<IF unit[2] = 2 THEN local ELSE shape.in>>
                   [] v.suffix = "svh" -> <<IF unit[2] = 2 THEN shape.in ELSE local>>
                   [] OTHER -> <<1>>
     IN IF Uneven(How(unit), Here) \/ Numel(Dims(v)) # Numel(dest) THEN Raise
        \* a tensor of the right size and the wrong shape is reshaped
        ELSE Copy([v EXCEPT !.scrambled = Dims(v) \notin {dest, <<>>}], <<"param", unit, v.suffix>>)
  /\ UNCHANGED <<shape, lost, rank, todo, param, stash, inners, warm, tuned, untuned, captured>>

\* Mutant: the slice keeps its number in the checkpoint.
LocalIdGlobal == unit[2]

\* The number of a slice among this rank's.
LocalId == IF shape.groups > 0 /\ Tp > 1 THEN unit[2] - rank * LocalSlices ELSE unit[2]

\* A slice of a grouped linear that another rank owns.
ForeignSlice == shape.groups > 0 /\ Tp > 1 /\ LocalId \notin 0..(LocalSlices - 1)

\* Exl3LinearMethod._load
LoadLinear ==
  /\ Readable /\ ~Moe
  /\ LET v == Shard(rank, How(unit), Here)
         declared == IF v.suffix = "suh" THEN InPart ELSE SumOf(Parts)
     IN IF ForeignSlice THEN Advance /\ UNCHANGED <<phase, stage, pending>>
        ELSE IF Uneven(How(unit), Here) THEN Raise
        \* merged and grouped linears are kept apart until all is loaded
        ELSE IF unit[2] # NoId THEN Copy(v, <<"stash", <<0, LocalId>>, v.suffix>>)
        \* a plain linear takes any trellis, whatever K was promised
        ELSE IF v.suffix \in {"suh", "svh"} /\ Dims(v) # <<declared>> THEN Raise
        ELSE Copy(v, <<"param", unit, v.suffix>>)
  /\ UNCHANGED <<shape, lost, rank, todo, param, stash, inners, warm, tuned, untuned, captured>>

\* The copy out of the pinned buffer.
Dma ==
  /\ pending # <<>>
  /\ LET dest == Head(pending)
         Put(f) == [d \in DOMAIN f \cup {<<dest[2], dest[3]>>} |->
                      IF d = <<dest[2], dest[3]>> THEN stage ELSE f[d]]
     IN IF dest[1] = "param" THEN param' = Put(param) /\ UNCHANGED stash
        ELSE stash' = Put(stash) /\ UNCHANGED param
  /\ pending' = Tail(pending)
  /\ UNCHANGED <<shape, lost, rank, phase, todo, unit, pos, stage, inners, warm, tuned, untuned, captured>>
-----------------------------------------------------------------------------
(* After the load *)

Held(f, u, s) == IF <<u, s>> \in DOMAIN f THEN f[<<u, s>>] ELSE Uninit
Handle(f, u) == [trellis |-> Held(f, u, "trellis"), suh |-> Held(f, u, "suh"), svh |-> Held(f, u, "svh")]

Ids(f) == {d[1][2] : d \in DOMAIN f}

\* Mutant: as many parts as came.
PartsLoadedCame == Cardinality(Ids(stash))

\* Parts of a merged linear; a grouped one has as many as its last slice says.
PartsLoaded ==
  IF Len(Parts) > 1 THEN Len(Parts) ELSE 1 + CHOOSE i \in Ids(stash) : \A j \in Ids(stash) : j <= i

\* Routed experts: a marker that was not loaded raises.  A part without all of its
\* tensors raises as well (without its marker, when the handle is built).
Refused ==
  IF Moe THEN \E u \in Units : <<u, "mul1">> \notin DOMAIN param
  ELSE stash # <<>> /\ \E i \in 0..(PartsLoaded - 1), j \in 1..4 :
                          <<<<0, i>>, Suffixes[j]>> \notin DOMAIN stash

\* process_weights_after_loading
Process ==
  /\ phase = "load" /\ todo = {} /\ unit = NoUnit /\ Synchronous
  /\ IF Refused THEN phase' = "raised" /\ UNCHANGED inners
     ELSE /\ phase' = "ready"
          /\ inners' = [inners EXCEPT ![rank] =
               IF Moe THEN [i \in 1..(3 * shape.experts) |-> Handle(param, <<(i - 1) \div 3, (i - 1) % 3>>)]
               ELSE IF stash # <<>> THEN [i \in 1..PartsLoaded |-> Handle(stash, <<0, i - 1>>)]
               ELSE <<Handle(param, <<0, NoId>>)>>]
  /\ UNCHANGED <<shape, lost, rank, todo, unit, pos, stage, pending, param, stash, warm, tuned, untuned, captured>>

\* The other rank loads.
NextRank ==
  /\ phase = "ready" /\ rank + 1 < Tp /\ ~warm
  /\ rank' = rank + 1 /\ phase' = "create"
  /\ todo' = {} /\ unit' = NoUnit /\ pos' = 1
  /\ stage' = Uninit /\ pending' = <<>> /\ param' = <<>> /\ stash' = <<>>
  /\ UNCHANGED <<shape, lost, inners, warm, tuned, untuned, captured>>

ShapeKey(h) == <<Cardinality(h.suh.rows), Cardinality(h.svh.cols), h.trellis.k>>

\* Mutant: of a merged layer only the first handle is visited.
HandlesFirst == {inners[rank][1]}

\* iter_exl3_handles
Handles == {inners[rank][i] : i \in DOMAIN inners[rank]}

\* exllamav3's buckets: the next power of two, at most 16.
Bucket(rows) == CHOOSE b \in {1, 2, 4, 8, 16} :
                  /\ b >= Lesser(rows, 16)
                  /\ \A c \in {1, 2, 4, 8, 16} : c >= Lesser(rows, 16) => b <= c

\* The rows that are tuned reach every bucket.
ASSUME CaptureConstants ==
  /\ CaptureRows \subseteq Nat \ {0} /\ MaxTuned \in Nat
  /\ \A b \in {1, 2, 4, 8, 16} : \E m \in TuneRows : Bucket(m) = b

\* _pretune_exl3 and pretune_exl3_shapes, before compile_or_warm_up_model.  It reaches all
\* handles; none if it is switched off or the overlay has no such function; and some if a
\* handle's key raises, which passes it over, or a launch does, which ends it and is logged.
Pretune ==
  /\ phase = "ready" /\ rank = Tp - 1 /\ ~warm
  /\ \E reached \in SUBSET Handles :
       /\ untuned' = Handles \ reached
       /\ tuned' = {<<ShapeKey(h), Bucket(m)>> : h \in reached, m \in TuneRows}
  /\ warm' = TRUE
  /\ UNCHANGED <<shape, lost, rank, phase, todo, unit, pos, stage, pending, param, stash, inners, captured>>

\* A forward of that many rows is captured in a graph, whatever became of the pretune.
Capture ==
  /\ warm /\ captured = 0
  /\ \E rows \in CaptureRows : captured' = rows
  /\ UNCHANGED <<shape, lost, rank, phase, todo, unit, pos, stage, pending, param, stash, inners,
                 warm, tuned, untuned>>

LoadNext == \/ Create \/ NextUnit \/ Skip \/ LoadExpert \/ LoadLinear \/ Dma
        \/ Process \/ NextRank \/ Pretune \/ Capture

LoadSpec == LoadInit /\ [][LoadNext]_loadVars
-----------------------------------------------------------------------------
Loaded == phase = "ready" /\ lost = {}
ForeignTo(u) == Tp > 1 /\ u[2] - rank * LocalSlices \notin 0..(LocalSlices - 1)
LastOf(u) == u[2] = (IF Tp > 1 THEN (rank + 1) * LocalSlices ELSE shape.groups) - 1
Whole(r) == {inners[r][i] : i \in DOMAIN inners[r]}

(* Type invariant. *)
LoadTypeOK ==
  /\ phase \in {"create", "load", "ready", "raised", "dense"} /\ rank \in 0..(Tp - 1)
  /\ todo \subseteq Units /\ unit \in Units \cup {NoUnit} /\ pos \in 1..4
  /\ Len(pending) <= 1
  /\ \A d \in DOMAIN param : d[1] \in Units /\ param[d].suffix = d[2]
  \* a linear's parts are numbered as its handles will be
  /\ \A d \in DOMAIN stash : /\ d[1][2] \in 0..((IF shape.groups > 0 THEN LocalSlices ELSE Len(Parts)) - 1)
                             /\ stash[d].suffix = d[2]
  /\ warm \in BOOLEAN /\ captured \in {0} \cup CaptureRows

(* Each handle is one matrix of the checkpoint: its trellis, its K and the scales *)
(* of exactly the trellis's rows and columns, nothing reshaped, in the order in   *)
(* which apply() concatenates or pairs them, although every copy went through one *)
(* pinned buffer (h2d_copy, _load_exl3, _load).                                    *)
HandlesFit ==
  Loaded =>
    \A i \in DOMAIN inners[rank] :
      LET h == inners[rank][i]
          u == h.trellis.unit
      IN /\ h.suh.unit = u /\ h.svh.unit = u
         /\ h.trellis.rows = h.suh.rows /\ h.trellis.cols = h.svh.cols /\ h.trellis.k = KOf(u)
         /\ ~h.trellis.scrambled
         /\ u = IF Moe THEN <<(i - 1) \div 3, (i - 1) % 3>>
                ELSE IF shape.groups > 0 THEN <<0, rank * LocalSlices + i - 1>>
                ELSE IF Len(shape.outs) > 1 THEN <<0, i - 1>> ELSE <<0, NoId>>

(* Once all ranks have loaded, every tile of the layer's matrices is on exactly   *)
(* one of them, or on each where the layer is not sharded.                        *)
TilesOnce ==
  (Loaded /\ rank = Tp - 1) =>
    \A u \in Units : \A x \in 0..(Ins(u) - 1), y \in 0..(Outs(u) - 1) :
      LET having == {r \in 0..(Tp - 1) : \E h \in Whole(r) :
                       h.trellis.unit = u /\ x \in h.trellis.rows /\ y \in h.trellis.cols}
      IN IF Moe \/ shape.groups > 0 \/ Sharding # "none" THEN Cardinality(having) = 1
         ELSE having = 0..(Tp - 1)

(* What came up is the checkpoint's layer: the right matrices, each tile once.    *)
LayerRight == LoadTypeOK /\ HandlesFit /\ TilesOnce

(* A merged linear does not come up without one of its parts, nor a grouped one  *)
(* with a hole before its last slice; routed experts not without a marker.        *)
MissingRaised ==
  phase = "ready" =>
    IF Moe THEN \A u \in Units : <<u, "mul1">> \notin lost
    ELSE \A u \in Units : \A i \in 1..4 :
           (<<u, Suffixes[i]>> \in lost /\ u[2] # NoId) =>
             \* nothing of the last slice came, or it belongs to another rank
             /\ shape.groups > 0
             /\ ForeignTo(u) \/ (LastOf(u) /\ \A j \in 1..4 : <<u, Suffixes[j]>> \in lost)

(* A captured forward meets no EXL3 shape in a row bucket that was not autotuned   *)
(* before, be it in a merged linear or in an expert, but for the handles that the   *)
(* pretune left out: switched off, a key that raised, a launch that failed and was  *)
(* only logged (_pretune_exl3, pretune_exl3_shapes).                                *)
CaptureTuned ==
  captured \in 1..MaxTuned =>
    \A i \in DOMAIN inners[rank] :
      \/ inners[rank][i] \in untuned
      \/ <<ShapeKey(inners[rank][i]), Bucket(captured)>> \in tuned

\* What makes them inductive.  The slice of a unit's tensor that belongs on a rank, and
\* where a rank keeps it.
SuffixSet == {"mul1", "suh", "svh", "trellis"}
Offset(r) == IF shape.groups > 0 /\ ~Moe THEN r * LocalSlices ELSE 0
Own(r) == {u \in Units : shape.groups > 0 /\ ~Moe => u[2] - Offset(r) \in 0..(LocalSlices - 1)}
Slice(r, u, s) == Shard(r, How(u), Tensor(u, s))
InParam(u) == Moe \/ u[2] = NoId
StashKey(u) == <<0, u[2] - Offset(rank)>>
Dest(u, s) == IF InParam(u) THEN <<"param", u, s>> ELSE <<"stash", StashKey(u), s>>
Sound(u, s, v) ==
  <<u, s>> \notin lost /\ ~Uneven(How(u), Tensor(u, s)) /\ v = Slice(rank, u, s)

\* Nothing is held, or on its way, that is not a slice of this rank, in its place.
HeldInv ==
  /\ \A d \in DOMAIN param : \E u \in Own(rank), s \in SuffixSet :
       InParam(u) /\ d = <<u, s>> /\ Sound(u, s, param[d])
  /\ \A d \in DOMAIN stash : \E u \in Own(rank), s \in SuffixSet :
       ~InParam(u) /\ d = <<StashKey(u), s>> /\ Sound(u, s, stash[d])
  /\ pending # <<>> => \E u \in Own(rank), s \in SuffixSet :
       pending = <<Dest(u, s)>> /\ Sound(u, s, stage)
  /\ DOMAIN stash = {} => stash = <<>>

\* What was read, was there and is this rank's is held or on its way.
Has(u, s) ==
  \/ pending = <<Dest(u, s)>>
  \/ IF InParam(u) THEN <<u, s>> \in DOMAIN param ELSE <<StashKey(u), s>> \in DOMAIN stash
CompleteInv ==
  phase \in {"load", "ready"} =>
    \A u \in Own(rank) \ todo : \A j \in 1..4 :
      (u = unit => j < pos) /\ <<u, Suffixes[j]>> \notin lost => Has(u, Suffixes[j])

StageInv ==
  /\ shape \in Shapes
  /\ lost \subseteq Units \X SuffixSet /\ \A p, q \in lost : p[1] = q[1]
  /\ unit \notin todo
  /\ phase = "create" =>
       todo = {} /\ unit = NoUnit /\ pos = 1 /\ pending = <<>> /\ param = <<>> /\ stash = <<>>
  /\ phase = "ready" => todo = {} /\ unit = NoUnit /\ pending = <<>> /\ ~Refused

\* The handles of a rank that has loaded, from a whole checkpoint.
HandleCount ==
  IF Moe THEN 3 * shape.experts
  ELSE IF shape.groups > 0 THEN LocalSlices ELSE Len(shape.outs)
UnitAt(r, i) ==
  IF Moe THEN <<(i - 1) \div 3, (i - 1) % 3>>
  ELSE IF shape.groups > 0 THEN <<0, r * LocalSlices + i - 1>>
  ELSE IF Len(shape.outs) > 1 THEN <<0, i - 1>> ELSE <<0, NoId>>
Right(r, u) ==
  [trellis |-> Slice(r, u, "trellis"), suh |-> Slice(r, u, "suh"), svh |-> Slice(r, u, "svh")]
BuiltInv ==
  /\ DOMAIN inners = 0..(Tp - 1)
  /\ lost = {} =>
       \A r \in 0..rank : r < rank \/ phase = "ready" =>
         /\ inners[r] = [i \in 1..HandleCount |-> Right(r, UnitAt(r, i))]
         /\ \A u \in Own(r), s \in SuffixSet : ~Uneven(How(u), Tensor(u, s))

TuneInv ==
  /\ captured # 0 => warm
  /\ warm => /\ phase = "ready" /\ rank = Tp - 1 /\ untuned \subseteq Handles
             /\ tuned = {<<ShapeKey(h), Bucket(m)>> : h \in Handles \ untuned, m \in TuneRows}

LoadInv == LoadTypeOK /\ HeldInv /\ CompleteInv /\ StageInv /\ BuiltInv /\ TuneInv
=============================================================================
