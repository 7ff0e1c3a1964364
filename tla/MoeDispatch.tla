----------------------------- MODULE MoeDispatch -----------------------------
(* One routed-expert call of an EXL3 layer (overlay/exl3.py,                  *)
(* apply_exl3_experts and apply_exl3_fused_moe): the slots of a batch, one    *)
(* per token and pick, are sorted by local expert, and the experts are run by *)
(* the fused kernel and, where one is picked by more slots than its buffers   *)
(* hold, by one of six other paths.  Whatever the path, every slot of a local *)
(* expert is added to its token once.  The arithmetic is abstracted to which  *)
(* token was read, through which expert, and to which token it was added with *)
(* which slot's weight.                                                       *)
EXTENDS Integers, FiniteSets, Functions, Bags

CONSTANTS
  NExp,         \* experts of this rank; the id NExp marks a slot of no local one
  TopK,         \* picks of a token
  MaxTokens,    \* bound: tokens of a call
  Cap,          \* rows per expert the fused kernel has buffers for
  TileGu, TileDn, \* rows of a segment of the two grouped kernels
  Routes,       \* bound: what the router may pick for a token
  Maps,         \* bound: expert_map, [given : BOOLEAN, to : global id -> local id]
  Ties,         \* bound: how argsort may order equal keys (rankings of slots)
  Settings      \* bound: environment, checkpoint and image

ASSUME MoeConstants ==
  /\ {NExp, TopK, Cap, TileGu, TileDn} \subseteq Nat \ {0} /\ MaxTokens \in Nat
  \* the router picks an expert once for a token, so no expert has more slots
  \* than there are tokens
  /\ Routes \subseteq [0..TopK - 1 -> Int]
  /\ \A r \in Routes : \A i, j \in 0..TopK - 1 :
        i # j /\ r[i] = r[j] => r[i] = -1
  /\ \A m \in Maps : m.given \in BOOLEAN
  /\ \A m \in Maps : m.given =>
        \* a tensor over the global experts, which are no fewer
        /\ 0..NExp - 1 \subseteq DOMAIN m.to /\ DOMAIN m.to \subseteq Nat
        /\ \A g, h \in DOMAIN m.to : g # h /\ m.to[g] = m.to[h] => m.to[g] = -1
  /\ \A t \in Ties : /\ t \in [(0..MaxTokens - 1) \X (0..TopK - 1) -> Int]
                      /\ \A s, u \in DOMAIN t : t[s] = t[u] => s = u
  /\ Settings \subseteq
       [grouped : BOOLEAN, kernel : BOOLEAN, batched : BOOLEAN, sorted : BOOLEAN,
        fused : BOOLEAN, rowTile : BOOLEAN, shared : BOOLEAN, k4mcg : BOOLEAN,
        groupedEligible : BOOLEAN, gemmSymbols : BOOLEAN, moeSymbols : BOOLEAN]

Stale == [tok |-> -1, e |-> -1]   \* a scratch row written by an earlier call
Rows == 0..MaxTokens * TopK - 1
Experts == 0..NExp - 1

VARIABLES
  cfg,      \* what the layer was loaded with (an element of Settings)
  tier,     \* layer._exl3_fat_effective_tier
  pc,       \* where the call stands
  n,        \* tokens of the call
  ids,      \* topk_ids
  emap,     \* layer.expert_map
  order,    \* local.argsort(): the slots by local expert
  ready,    \* the main stream has computed expert_count
  copied,   \* the side stream has copied the counts to the pinned buffer
  host,     \* the counts as the host knows them
  launched, \* the fused kernel has been launched for the thin experts
  at,       \* next expert or row tile of a loop on the host
  h13, h13u, h2, \* scratch rows of the grouped kernels
  out       \* bag of what was added to the output

vars == <<cfg, tier, pc, n, ids, emap, order, ready, copied, host, launched,
          at, h13, h13u, h2, out>>
scratch == <<h13, h13u, h2>>
call == <<cfg, tier, n, ids, emap, order>>

-------------------------------------------------------------------------------
(* The tier of a layer, resolved when its weights are loaded.                 *)

\* The highest tier the environment asks for.
ConfiguredTier(c) ==
  IF c.grouped THEN "grouped" ELSE IF c.kernel THEN "kernel"
  ELSE IF c.batched THEN "batched" ELSE IF c.sorted THEN "sorted" ELSE "legacy"

\* "error": the load fails and nothing is served.
KernelTier(c) == IF c.gemmSymbols THEN "kernel" ELSE "error"

\* A mutant: the cap that the checkpoint puts on the tier is forgotten.
ResolveTierUncapped(c) ==
  LET want == ConfiguredTier(c) IN
  IF want = "grouped" THEN IF c.moeSymbols THEN "grouped" ELSE "error"
  ELSE IF want = "kernel" THEN KernelTier(c) ELSE want

ResolveTier(c) ==
  LET want == ConfiguredTier(c) IN
  CASE want = "legacy" -> "legacy"
    [] want \in {"kernel", "batched"} /\ ~c.shared -> "sorted"
    [] want = "grouped" /\ ~c.moeSymbols -> "error"
    [] want = "grouped" /\ c.moeSymbols /\ c.groupedEligible -> "grouped"
    [] want = "grouped" /\ c.moeSymbols /\ ~c.groupedEligible ->
         IF c.shared THEN KernelTier(c) ELSE "sorted"
    [] want = "kernel" /\ c.shared -> KernelTier(c)
    [] OTHER -> want

\* The flags apply_exl3_fused_moe derives again in each call.
WantKernel == cfg.kernel \/ cfg.grouped
WantBatched == cfg.batched \/ WantKernel
UseSorted == cfg.sorted \/ WantBatched
UseBatched == WantBatched /\ cfg.shared
UseKernel == UseBatched /\ WantKernel /\ cfg.k4mcg
UseGrouped == cfg.grouped /\ ~cfg.rowTile /\ tier = "grouped"

-------------------------------------------------------------------------------
(* Routing.                                                                   *)

Slots == (0..n - 1) \X (0..TopK - 1)
NumSlots == n * TopK

MapTopkToLocal(id, m) ==
  IF ~m.given THEN IF id \in Experts THEN id ELSE NExp
  ELSE IF id \in DOMAIN m.to /\ m.to[id] \in Experts THEN m.to[id] ELSE NExp

Local(s) == MapTopkToLocal(ids[s[1]][s[2]], emap)

\* The loop over unique ids looks an id up in its own way.
LoopExpert(id, m) ==
  LET e == IF m.given /\ id \in DOMAIN m.to THEN m.to[id] ELSE id
  IN  IF id >= 0 /\ e \in Experts THEN e ELSE NExp

\* local.argsort() under one of the orders of equal keys.
Argsort(k, tokens, tie) ==
  LET S == (0..tokens - 1) \X (0..TopK - 1)
      Before(r, s) == k[r] < k[s] \/ (k[r] = k[s] /\ tie[r] < tie[s])
  IN  [i \in 0..tokens * TopK - 1 |->
         CHOOSE s \in S : Cardinality({r \in S : Before(r, s)}) = i]

\* expert_count without the bucket of the slots of no local expert.
Counts == [e \in Experts |-> Cardinality({s \in Slots : Local(s) = e})]

\* The sum of what comes before an expert, and at NExp of everything.
ExclCumsum(f) ==
  LET before[e \in 0..NExp] == IF e = 0 THEN 0 ELSE before[e - 1] + f[e - 1] IN before
Total(f) == ExclCumsum(f)[NExp]
\* torch.searchsorted(inclusive cumsum, x, right=True), clamped to an expert
SearchSorted(f, x) ==
  LET e == Cardinality({d \in Experts : ExclCumsum(f)[d + 1] <= x})
  IN  IF e < NExp THEN e ELSE NExp - 1
MaxRows(f) == CHOOSE m \in {f[e] : e \in Experts} : \A e \in Experts : f[e] <= m
MinOf(a, b) == IF a < b THEN a ELSE b
MaxOf(a, b) == IF a > b THEN a ELSE b
CeilDiv(a, b) == (a + b - 1) \div b

\* What one row adds: token dst gets, with the weight of slot w, the output of
\* expert e for token src.
Contribution(dst, src, w, e) == [dst |-> dst, src |-> src, w |-> w, e |-> e]
SlotBy(s, e) == Contribution(s[1], s[1], s, e)
BagOf(adds) == [x \in Range(adds) |-> Cardinality({r \in DOMAIN adds : adds[r] = x})]

-------------------------------------------------------------------------------
(* The kernels.                                                               *)

\* exl3_moe: the rows of each expert follow one another in the sorted slots;
\* an expert of more than Cap rows is skipped.
FusedMoe(ec, slotAt) ==
  BagOf([r \in {x \in Experts \X Rows : x[2] < ec[x[1]] /\ ec[x[1]] <= Cap} |->
           SlotBy(slotAt[ExclCumsum(ec)[r[1]] + r[2]], r[1])])

\* One expert from its slice of the sorted slots (sorted and batched tiers).
FatSlice(e) ==
  BagOf([i \in {r \in Rows : ExclCumsum(host)[e] <= r /\ r < ExclCumsum(host)[e] + host[e]} |->
           SlotBy(order[i], e)])

\* LinearEXL3 per unique id, over the experts of a set (legacy tier, and every
\* expert where the fused path is off).
PythonLoop(only) ==
  BagOf([s \in {u \in Slots : LoopExpert(ids[u[1]][u[2]], emap) \in only} |->
           SlotBy(s, LoopExpert(ids[s[1]][s[2]], emap))])

\* Row tile t: at most Cap rows of each expert, from row t * Cap on.
TileCounts(c, t) == [e \in Experts |-> MinOf(Cap, MaxOf(0, c[e] - t * Cap))]
RowTile(c, t) ==
  LET tc == TileCounts(c, t)
      src == [i \in 0..Total(tc) - 1 |->
                LET e == SearchSorted(tc, i)
                IN  ExclCumsum(c)[e] + t * Cap + (i - ExclCumsum(tc)[e])]
  IN  FusedMoe(tc, [i \in DOMAIN src |-> order[src[i]]])

-------------------------------------------------------------------------------
(* Tables of the grouped kernels (build_grouped_fat_tables).                  *)

FatRows == [e \in Experts |-> IF Counts[e] > Cap THEN Counts[e] ELSE 0]
SegTiles(tile) == [e \in Experts |-> CeilDiv(FatRows[e], tile)]
NumRows == Total(FatRows)
NumSegs(tile) == Total(SegTiles(tile))
MaxSegs(tile) == CeilDiv(NumSlots, tile) + NExp

Segment(tile, seg) ==
  LET e == SearchSorted(SegTiles(tile), seg)
      local == seg - ExclCumsum(SegTiles(tile))[e]
  IN  [e |-> e, row0 |-> ExclCumsum(FatRows)[e] + local * tile,
       rows |-> MinOf(tile, MaxOf(0, FatRows[e] - local * tile))]
\* The segments a grid-strided launch visits.
Segments(tile) == {Segment(tile, g) : g \in 0..NumSegs(tile) - 1}
SegRows(g) == g.row0..g.row0 + g.rows - 1

RowExpert(r) == SearchSorted(FatRows, r)
\* The sorted slot of a row, before it is clamped into the table.
RowSource(r) == ExclCumsum(Counts)[RowExpert(r)] + (r - ExclCumsum(FatRows)[RowExpert(r)])
RowSlot(r) == order[MinOf(RowSource(r), NumSlots - 1)]

Gathered(h) ==
  [r \in Rows |-> IF r < NumRows
                  THEN [tok |-> RowSlot(r)[1], e |-> RowExpert(r)] ELSE h[r]]

-------------------------------------------------------------------------------
(* The call.                                                                  *)

NoCounts == [e \in Experts |-> 0]   \* counts of an earlier layer
Clear == [r \in Rows |-> Stale]

Init ==
  /\ cfg \in {c \in Settings : ResolveTier(c) # "error"}
  /\ tier = ResolveTier(cfg)
  /\ pc = "idle" /\ n = 0 /\ ids = <<>> /\ order = <<>>
  /\ emap \in Maps
  /\ ready = FALSE /\ copied = FALSE /\ host = NoCounts /\ launched = FALSE
  /\ at = 0 /\ h13 = Clear /\ h13u = Clear /\ h2 = Clear /\ out = EmptyBag

\* A call arrives; the sort and the counts are queued on the main stream.
Begin(tokens, routed, tie) ==
  /\ pc = "idle" /\ pc' = "apply"
  /\ n' = tokens /\ ids' = routed
  /\ order' = Argsort([s \in (0..tokens - 1) \X (0..TopK - 1) |->
                        MapTopkToLocal(routed[s[1]][s[2]], emap)], tokens, tie)
  /\ ready' = FALSE /\ copied' = FALSE /\ launched' = FALSE
  /\ at' = 0 /\ out' = EmptyBag
  /\ UNCHANGED <<cfg, tier, emap, host, h13, h13u, h2>>

\* The main stream gets to the counts.
StreamCounts ==
  /\ pc # "idle" /\ ~ready /\ ready' = TRUE
  /\ UNCHANGED <<call, pc, copied, host, launched, at, scratch, out>>

\* EXL3_FUSED_MOE=0, or no kernel: every expert in the loop.
LoopAll ==
  /\ pc = "apply" /\ ~cfg.fused
  /\ out' = out (+) PythonLoop(Experts) /\ pc' = "done"
  /\ UNCHANGED <<call, ready, copied, host, launched, at, scratch>>

\* tokens <= cap: one launch, nothing known on the host.
FusedSmall ==
  /\ pc = "apply" /\ cfg.fused /\ n <= Cap
  /\ out' = out (+) FusedMoe(Counts, order) /\ pc' = "done"
  /\ UNCHANGED <<call, ready, copied, host, launched, at, scratch>>

Large == pc = "apply" /\ cfg.fused /\ n > Cap

\* E3: the thin experts fused, then three grouped launches for the fat ones.
GroupedThin ==
  /\ Large /\ UseGrouped
  /\ out' = out (+) FusedMoe(Counts, order) /\ launched' = TRUE
  /\ pc' = "gather"
  /\ UNCHANGED <<call, ready, copied, host, at, scratch>>

GroupedGather ==
  /\ pc = "gather" /\ pc' = "gateup"
  /\ h13' = Gathered(h13)
  /\ h13u' = IF cfg.shared THEN h13u ELSE Gathered(h13u)
  /\ UNCHANGED <<call, ready, copied, host, launched, at, h2, out>>

\* A row of h2 comes from its gate and its up input and its segment's expert.
GateUp(r, g) ==
  LET up == IF cfg.shared THEN h13[r] ELSE h13u[r]
  IN  IF h13[r] = up /\ h13[r].e = g.e THEN h13[r] ELSE Stale

GroupedGateUp ==
  /\ pc = "gateup" /\ pc' = "down"
  /\ h2' = [r \in Rows |->
              IF \E g \in Segments(TileGu) : r \in SegRows(g)
              THEN GateUp(r, CHOOSE g \in Segments(TileGu) : r \in SegRows(g))
              ELSE h2[r]]
  /\ UNCHANGED <<call, ready, copied, host, launched, at, h13, h13u, out>>

GroupedDown ==
  /\ pc = "down" /\ pc' = "done"
  /\ out' = out (+) BagOf([x \in {y \in Segments(TileDn) \X Rows : y[2] \in SegRows(y[1])} |->
                            Contribution(RowSlot(x[2])[1], h2[x[2]].tok, RowSlot(x[2]), x[1].e)])
  /\ UNCHANGED <<call, ready, copied, host, launched, at, scratch>>

\* E1 and E2: the counts are copied on a side stream while the fused kernel
\* runs the thin experts.
StageCounts ==
  /\ Large /\ ~UseGrouped /\ UseBatched /\ ~cfg.rowTile
  /\ out' = out (+) FusedMoe(Counts, order) /\ launched' = TRUE
  /\ pc' = "staged"
  /\ UNCHANGED <<call, ready, copied, host, at, scratch>>

\* A mutant: the copy does not wait for the main stream.
WaitedStreamNever == TRUE

\* stream.wait_stream(current), then the copy into the pinned buffer.
WaitedStream == ready
CopyCounts ==
  /\ pc = "staged" /\ ~copied /\ WaitedStream
  /\ copied' = TRUE
  /\ host' = IF ready THEN Counts ELSE host
  /\ UNCHANGED <<call, pc, ready, launched, at, scratch, out>>

\* count_stream.synchronize()
Synchronized == copied
Synchronize ==
  /\ pc = "staged" /\ Synchronized /\ pc' = "decide"
  /\ UNCHANGED <<call, ready, copied, host, launched, at, scratch, out>>

\* counts.tolist(), or counts.max().item(): the host waits for the stream.
ReadCounts ==
  /\ Large /\ ~UseGrouped /\ (cfg.rowTile \/ ~UseBatched)
  /\ ready /\ host' = Counts /\ pc' = "decide"
  /\ UNCHANGED <<call, ready, copied, launched, at, scratch, out>>

ThinLaunch == IF launched THEN out ELSE out (+) FusedMoe(Counts, order)

ThinOnly ==
  /\ pc = "decide" /\ MaxRows(host) <= Cap
  /\ out' = ThinLaunch /\ launched' = TRUE /\ pc' = "done"
  /\ UNCHANGED <<call, ready, copied, host, at, scratch>>

StartTiles ==
  /\ pc = "decide" /\ MaxRows(host) > Cap /\ cfg.rowTile
  /\ pc' = "tiles"
  /\ UNCHANGED <<call, ready, copied, host, launched, at, scratch, out>>

NextTile ==
  /\ pc = "tiles"
  /\ out' = out (+) RowTile(host, at)
  /\ at' = at + 1
  /\ pc' = IF at + 1 < CeilDiv(MaxRows(host), Cap) THEN "tiles" ELSE "done"
  /\ UNCHANGED <<call, ready, copied, host, launched, scratch>>

StartFat ==
  /\ pc = "decide" /\ MaxRows(host) > Cap /\ ~cfg.rowTile
  /\ out' = ThinLaunch /\ launched' = TRUE
  /\ pc' = IF UseSorted THEN "fat" ELSE "legacy"
  /\ UNCHANGED <<call, ready, copied, host, at, scratch>>

IsFat(e) == host[e] > Cap

\* apply_exl3_batched_fat and apply_exl3_sorted_fat: slice by slice.
NextFat ==
  /\ pc = "fat"
  /\ out' = IF IsFat(at) THEN out (+) FatSlice(at) ELSE out
  /\ at' = at + 1
  /\ pc' = IF at + 1 < NExp THEN "fat" ELSE "done"
  /\ UNCHANGED <<call, ready, copied, host, launched, scratch>>

LegacyFat ==
  /\ pc = "legacy" /\ pc' = "done"
  /\ out' = out (+) PythonLoop({e \in Experts : IsFat(e)})
  /\ UNCHANGED <<call, ready, copied, host, launched, at, scratch>>

\* The result is returned; what is left in the shared buffers is stale to the
\* next layer's call.
Return ==
  /\ pc = "done" /\ ready /\ pc' = "idle"
  /\ n' = 0 /\ ids' = <<>> /\ order' = <<>> /\ host' = NoCounts
  /\ copied' = FALSE /\ launched' = FALSE /\ ready' = FALSE /\ at' = 0
  /\ h13' = Clear /\ h13u' = Clear /\ h2' = Clear /\ out' = EmptyBag
  /\ UNCHANGED <<cfg, tier, emap>>

Next ==
  \/ \E tokens \in 1..MaxTokens, tie \in Ties :
        \E routed \in [0..tokens - 1 -> Routes] : Begin(tokens, routed, tie)
  \/ StreamCounts \/ LoopAll \/ FusedSmall
  \/ GroupedThin \/ GroupedGather \/ GroupedGateUp \/ GroupedDown
  \/ StageCounts \/ CopyCounts \/ Synchronize \/ ReadCounts
  \/ ThinOnly \/ StartTiles \/ NextTile \/ StartFat \/ NextFat \/ LegacyFat
  \/ Return

Spec == Init /\ [][Next]_vars

-------------------------------------------------------------------------------
(* Properties.                                                                *)

Buffer == [Rows -> [tok : -1..MaxTokens - 1, e : -1..NExp - 1]]

\* The state has its types: the counts and rows known are within the call's
\* size, and the bag holds contributions only.
TypeOK ==
  /\ cfg \in Settings /\ tier \in {"legacy", "sorted", "batched", "kernel", "grouped"}
  /\ pc \in {"idle", "apply", "gather", "gateup", "down", "staged", "decide",
             "tiles", "fat", "legacy", "done"}
  /\ n \in 0..MaxTokens /\ at \in 0..MaxOf(NExp, CeilDiv(MaxTokens, Cap))
  /\ {ready, copied, launched} \subseteq BOOLEAN
  /\ host \in [Experts -> 0..MaxTokens]
  /\ {h13, h13u, h2} \subseteq Buffer
  /\ BagToSet(out) \subseteq
       [dst : 0..MaxTokens - 1, src : -1..MaxTokens - 1,
        w : (0..MaxTokens - 1) \X (0..TopK - 1), e : Experts]

\* Whichever way the call takes, when it is done every slot that picked an
\* expert of this rank has been added to its own token, with its own weight,
\* from its own expert, exactly once, and no other slot has (the reference is
\* the loop apply_exl3_python_loop that the tests compare with).
OutputExact ==
  pc = "done" =>
    out = BagOf([s \in {u \in Slots : Local(u) # NExp} |-> SlotBy(s, Local(s))])

\* The device-built tables fit what was allocated for them without a look at
\* the counts: the segments of a launch cut the fat rows into pieces of one
\* expert each, none is beyond max_segs, and the clamp of the row sources never
\* takes effect (build_grouped_fat_tables).
SegmentsCover ==
  pc \in {"gather", "gateup", "down"} =>
    /\ NumRows <= NumSlots
    /\ \A r \in 0..NumRows - 1 :
         RowSource(r) < NumSlots /\ Local(RowSlot(r)) = RowExpert(r)
    /\ \A tile \in {TileGu, TileDn} :
         /\ NumSegs(tile) <= MaxSegs(tile)
         /\ UNION {SegRows(g) : g \in Segments(tile)} = 0..NumRows - 1
         /\ \A g, h \in Segments(tile) : g # h => SegRows(g) \cap SegRows(h) = {}
         /\ \A g \in Segments(tile) : \A r \in SegRows(g) : RowExpert(r) = g.e

\* What the paths add up to, and the tables of the grouped one.
DispatchRight == TypeOK /\ OutputExact /\ SegmentsCover

\* The path a call takes, from flags it reads again, is one the load allowed:
\* its kernels are in the image and can run this layer, and it is no higher a
\* tier than the one resolve_exl3_fat_tier settled on.
TierRank(t) ==
  CASE t = "legacy" -> 0 [] t = "sorted" -> 1 [] t = "batched" -> 2
    [] t = "kernel" -> 3 [] t = "grouped" -> 4
PathTaken ==
  CASE pc \in {"gather", "gateup", "down"} -> "grouped"
    [] pc = "fat" /\ UseKernel -> "kernel"
    [] (pc = "fat" /\ UseBatched /\ ~UseKernel) \/ pc = "staged" -> "batched"
    [] pc = "fat" /\ ~UseBatched -> "sorted"
    [] OTHER -> "legacy"
PathAllowed ==
  /\ TierRank(PathTaken) <= TierRank(tier)
  /\ PathTaken = "grouped" => cfg.moeSymbols /\ cfg.groupedEligible
  /\ PathTaken = "kernel" => cfg.gemmSymbols /\ cfg.k4mcg /\ cfg.shared

\* What makes PathAllowed inductive: the tier is the resolved one, and where the
\* call stands says which flags were seen on the way.
PathInv ==
  /\ cfg \in Settings /\ tier = ResolveTier(cfg) /\ tier # "error"
  /\ pc \in {"gather", "gateup", "down"} => UseGrouped
  /\ pc \in {"staged", "decide", "fat"} => ~UseGrouped
  /\ pc = "staged" => UseBatched
  /\ pc = "fat" => UseSorted /\ ~cfg.rowTile

\* What makes DispatchRight inductive.  The slots of a call are in the order of their
\* experts, each once.
CallInv ==
  /\ n \in 0..MaxTokens /\ emap \in Maps
  /\ pc # "idle" =>
       /\ ids \in [0..n - 1 -> Routes]
       /\ order \in [0..NumSlots - 1 -> Slots]
       /\ \A s \in Slots : \E i \in 0..NumSlots - 1 : order[i] = s
       /\ \A i, j \in 0..NumSlots - 1 :
            /\ order[i] = order[j] => i = j
            /\ i <= j => Local(order[i]) <= Local(order[j])

\* What has been added is what the place in the call says: a set of slots.
LocalSlots == {s \in Slots : Local(s) # NExp}
ThinSlots == {s \in LocalSlots : Counts[Local(s)] <= Cap}
AddedSlots ==
  CASE pc = "apply" -> {}
    [] pc = "decide" -> IF launched THEN ThinSlots ELSE {}
    [] pc = "fat" -> ThinSlots \cup {s \in LocalSlots : Local(s) < at}
    [] pc = "tiles" -> {s \in LocalSlots : \E i \in 0..NumSlots - 1 :
                          order[i] = s /\ i < ExclCumsum(Counts)[Local(s)] + at * Cap}
    [] pc = "done" -> LocalSlots
    [] OTHER -> ThinSlots
SlotBag(S) == BagOf([s \in S |-> SlotBy(s, Local(s))])
OutInv == IF pc = "idle" THEN out = EmptyBag ELSE out = SlotBag(AddedSlots)

\* The host decides on this call's counts, and counts its loops by them.
HostInv ==
  /\ pc \in {"decide", "tiles", "fat", "legacy"} \/ (pc = "staged" /\ copied) => host = Counts
  /\ pc = "apply" \/ (pc = "decide" /\ cfg.rowTile) => ~launched
  /\ pc = "apply" => ~copied
  /\ pc = "staged" => launched /\ ~cfg.rowTile
  /\ pc = "tiles" => at * Cap < MaxRows(host)
  /\ pc = "fat" => at < NExp
  /\ pc \notin {"tiles", "fat", "done"} => at = 0

\* A row of the grouped kernels comes from its slot through its expert.
RowRight(h) == \A r \in 0..NumRows - 1 : h[r] = [tok |-> RowSlot(r)[1], e |-> RowExpert(r)]
ScratchInv ==
  /\ pc = "gateup" => RowRight(h13) /\ (cfg.shared \/ RowRight(h13u))
  /\ pc = "down" => RowRight(h2)

DispatchInv == TypeOK /\ CallInv /\ OutInv /\ HostInv /\ ScratchInv
=============================================================================
