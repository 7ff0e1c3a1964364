---------------------------- MODULE PackedLaunch ----------------------------
(***************************************************************************)
(* Launcher with the shards its boots pack and its ranks read: between the *)
(* preflight and the removal of the old containers an invocation packs the *)
(* Engram rows of each rank that has no shards yet (maybe_pack_engram).    *)
(* Ctrl-C ends the packer on the head; the one on the worker is behind ssh *)
(* and goes on alone.                                                      *)
(***************************************************************************)
EXTENDS Launcher, EngramShards

CONSTANTS
    OldShards,   \* the layers of each rank an earlier version of the packer may have packed
    MaxCuts      \* bound: writes cut short

\* Rank 0 is on the head, rank 1 on the worker.
ASSUME PackedLaunchAssumption ==
    /\ Tp = 2 /\ OldShards \subseteq [Ranks -> SUBSET Layers] /\ MaxCuts \in Nat

VARIABLES
    packing,     \* where an invocation in "prepare" is
    packer,      \* the packers: one per invocation, and those left on the worker
    shard,       \* the files engram-l<layer>-r<rank>of2.bin
    partial,     \* the .partial files a packer has open
    mounted,     \* the ranks whose container has the shards
    attached,    \* how each lookup of the running server came to read, and the file it opened
    overlapped,  \* the shards two packers wrote at a time
    shortened    \* writes that were cut short

packVars == <<packing, packer, shard, partial, mounted, attached, overlapped, shortened>>
pvars == <<vars, packVars>>
files == <<shard, partial, overlapped, shortened>>

After(phase) == CASE phase = "head" -> "worker" [] phase = "worker" -> "inner"

\* Packers an interrupted invocation left on the worker, by their number.
Left == 1..MaxInterrupts
Packers == Invocations \cup Left
Nobody == [rank |-> 0, layer |-> 0, block |-> 0, lost |-> 0, file |-> "none"]
NotLoaded == [r \in Ranks |-> [k \in Layers |-> [how |-> "none", file |-> NoFile]]]
RankOf(phase) == IF phase = "head" THEN 0 ELSE 1

PInit ==
    /\ Init
    /\ packing = [i \in Invocations |-> "sync"]
    /\ packer = [p \in Packers |-> Nobody]
    /\ \E old \in OldShards :
         shard = [r \in Ranks |->
                    [k \in Layers |-> IF k \in old[r] THEN OldShard(k, r) ELSE NoFile]]
    /\ partial = [r \in Ranks |-> [k \in Layers |-> NoFile]]
    /\ mounted = {} /\ attached = NotLoaded /\ overlapped = {} /\ shortened = 0

-----------------------------------------------------------------------------
(* Packers *)

\* The packer of an invocation ends, well or badly: the boot goes on without
\* packed shards of that rank, or DSV41_AUTO_PACK=1 ends the script.
Ends(p) ==
    /\ packer' = [packer EXCEPT ![p] = Nobody]
    /\ IF p \in Invocations
       THEN packing' = [packing EXCEPT ![p] = After(@)]
       ELSE UNCHANGED packing

\* A .partial nobody has open any more is truncated by the next open.
Forgotten(held) ==
    [r \in Ranks |-> [k \in Layers |->
        IF \E p \in Packers : held[p].rank = r /\ held[p].layer = k /\ held[p].file = "partial"
        THEN partial[r][k] ELSE NoFile]]

RangeOf(p) == PackerRanges[packer[p].rank][packer[p].layer]
SameShard(p, q) == packer[q].rank = packer[p].rank /\ packer[q].layer = packer[p].layer

NextLayer(p) ==
    IF packer[p].layer < Len(LayerIds)
    THEN /\ packer' = [packer EXCEPT ![p].layer = @ + 1, ![p].file = "none",
                                   ![p].block = 0, ![p].lost = 0]
         /\ UNCHANGED packing
    ELSE Ends(p)

\* pack_layer finds the shard complete.
PackerSkips(p) ==
    /\ packer[p].layer > 0 /\ packer[p].file = "none"
    /\ Complete(shard[packer[p].rank][packer[p].layer], RangeOf(p))
    /\ NextLayer(p)
    /\ UNCHANGED <<vars, files, mounted, attached>>

\* It truncates the .partial, that of another packer too.
PackerOpens(p) ==
    LET r == packer[p].rank
        k == packer[p].layer
        others == {q \in Packers \ {p} : SameShard(p, q) /\ packer[q].file = "partial"}
    IN /\ k > 0 /\ packer[p].file = "none"
       /\ RangeOf(p).lo < RangeOf(p).hi
       /\ ~Complete(shard[r][k], RangeOf(p))
       /\ partial' = [partial EXCEPT ![r][k] = Header(RangeOf(p))]
       /\ packer' = [packer EXCEPT ![p].file = "partial", ![p].block = 0, ![p].lost = 0]
       /\ overlapped' = IF others = {} THEN overlapped ELSE overlapped \cup {<<r, k>>}
       /\ UNCHANGED <<vars, packing, shard, shortened, mounted, attached>>

\* A write that was cut short raises nothing.
PackerWrites(p) ==
    LET r == packer[p].rank
        k == packer[p].layer
        c == packer[p].block
        lost == packer[p].lost
    IN /\ packer[p].file # "none" /\ c \in Chunks(RangeOf(p))
       /\ \E cut \in Cuts(RangeOf(p), c) :
            LET wrote(file) == WriteBlock(file, RangeOf(p), c, lost, cut)
            IN /\ shortened' = shortened + IF cut = 0 THEN 0 ELSE 1
               /\ shortened' <= MaxCuts
               /\ partial' = IF packer[p].file = "partial"
                             THEN [partial EXCEPT ![r][k] = wrote(@)] ELSE partial
               /\ shard' = IF packer[p].file = "shard"
                           THEN [shard EXCEPT ![r][k] = wrote(@)] ELSE shard
               /\ packer' = [packer EXCEPT ![p].block = c + 1, ![p].lost = lost + cut]
       /\ UNCHANGED <<vars, packing, mounted, attached, overlapped>>

Finished(p) == packer[p].block \notin Chunks(RangeOf(p))

\* fsync, then partial.rename(target). A packer with the same file open writes to
\* the shard from now on; one that finds no .partial any more fails.
PackerRenames(p) ==
    LET r == packer[p].rank
        k == packer[p].layer
        moved == [q \in Packers |->
                    IF ~SameShard(p, q) THEN packer[q]
                    ELSE CASE packer[q].file = "partial" -> [packer[q] EXCEPT !.file = "shard"]
                           [] packer[q].file = "shard" -> [packer[q] EXCEPT !.file = "gone"]
                           [] OTHER -> packer[q]]
        last == k = Len(LayerIds)
    IN /\ packer[p].file # "none" /\ Finished(p)
       /\ partial[r][k] # NoFile
       /\ shard' = [shard EXCEPT ![r][k] = partial[r][k]]
       /\ partial' = [partial EXCEPT ![r][k] = NoFile]
       /\ packer' = [moved EXCEPT ![p] =
                       IF last THEN Nobody
                       ELSE [Nobody EXCEPT !.rank = r, !.layer = k + 1]]
       /\ packing' = IF last /\ p \in Invocations
                     THEN [packing EXCEPT ![p] = After(@)] ELSE packing
       /\ UNCHANGED <<vars, shortened, mounted, attached, overlapped>>

\* A write that raises, a short read, no .partial to rename: at any point.
PackerFails(p) ==
    /\ packer[p].layer > 0
    /\ Ends(p)
    /\ partial' = Forgotten([packer EXCEPT ![p] = Nobody])
    /\ UNCHANGED <<vars, shard, shortened, overlapped, mounted, attached>>

Packer(p) == PackerSkips(p) \/ PackerOpens(p) \/ PackerWrites(p) \/ PackerRenames(p)

-----------------------------------------------------------------------------
(* maybe_pack_engram *)

\* ensure_image, check_weights and sync_weights are done.
Synced(i) ==
    /\ pc[i] = "prepare" /\ packing[i] = "sync"
    /\ packing' = [packing EXCEPT ![i] = "head"]
    /\ UNCHANGED <<vars, packer, files, mounted, attached>>

packed_present(r) == \A k \in Layers : shard[r][k] # NoFile

\* Present, off, short of disk, or the docker run fails: no packer.
NotPacked(i) ==
    /\ pc[i] = "prepare" /\ packing[i] \in {"head", "worker"} /\ packer[i] = Nobody
    /\ packing' = [packing EXCEPT ![i] = After(@)]
    /\ UNCHANGED <<vars, packer, files, mounted, attached>>

PackRank(i) ==
    /\ pc[i] = "prepare" /\ packing[i] \in {"head", "worker"} /\ packer[i] = Nobody
    /\ LET r == RankOf(packing[i])
       IN /\ ~packed_present(r)
          /\ packer' = [packer EXCEPT ![i] = [Nobody EXCEPT !.rank = r, !.layer = 1]]
    /\ UNCHANGED <<vars, packing, files, mounted, attached>>

-----------------------------------------------------------------------------
(* The steps of Launcher, with what they do to the shards *)

\* A container that is removed has no mounts any more.
Container(r) == IF r = 0 THEN head ELSE worker

\* A step of an invocation that has no part in packing.
Otherwise(i) ==
    /\ \/ Stop(i) \/ StopWorker(i) \/ pause_watchdog(i) \/ preflight(i)
       \/ RemoveHead(i) \/ RemoveWorker(i)
       \/ Healthy(i) \/ GiveUp(i) \/ Poll(i) \/ post_ready_warmup(i) \/ on_ready(i)
    /\ mounted' = {r \in mounted : Container(r)' # "absent"}
    /\ attached' = IF head' = "healthy" THEN attached ELSE NotLoaded
    /\ UNCHANGED <<packing, packer, files>>

\* write_inner_scripts ends the preparation; any step of it may end the script.
Prepared(i) ==
    /\ prepare(i) /\ packer[i] = Nobody
    /\ pc'[i] = "rm_head" => packing[i] = "inner"
    /\ packing' = [packing EXCEPT ![i] = "sync"]
    /\ UNCHANGED <<packer, files, mounted, attached>>

\* A rank's container gets the shards when the file of layer 1 is there. The script
\* looks for both just before it runs the worker; nothing packs rank 0 in between.
Mounted(r) == IF shard[r][1] # NoFile THEN mounted \cup {r} ELSE mounted \ {r}
Mount(i) ==
    /\ \/ RunWorker(i) /\ mounted' = IF pc'[i] = "run_head" THEN Mounted(1) ELSE mounted
       \/ RunHead(i) /\ mounted' = IF head' = "booting" THEN Mounted(0) ELSE mounted
    /\ attached' = IF head' = "healthy" THEN attached ELSE NotLoaded
    /\ UNCHANGED <<packing, packer, files>>

PInterrupt(i) ==
    LET left == packer[i].layer > 0 /\ packer[i].rank = 1
    IN /\ Interrupt(i)
       /\ packing' = [packing EXCEPT ![i] = "sync"]
       /\ packer' = [packer EXCEPT ![i] = Nobody,
                                   ![interrupts'] = IF left THEN packer[i] ELSE Nobody]
       /\ partial' = Forgotten(packer')
       /\ UNCHANGED <<shard, shortened, overlapped, mounted, attached>>

\* What a lookup of rank r finds for layer k.
Found(r, k) ==
    IF r \in mounted THEN Attach(shard[r][k], EngineRanges[r][k]) ELSE "checkpoint"

\* A rank with a truncated shard does not load; without columns it does not either.
Load ==
    /\ Boot /\ EngineStarts
    /\ \A r \in Ranks, k \in Layers : Found(r, k) # "truncated"
    /\ attached' = [r \in Ranks |-> [k \in Layers |->
                       [how |-> Found(r, k), file |-> shard[r][k]]]]
    /\ UNCHANGED <<packing, packer, files, mounted>>

Around ==
    /\ HeadFails \/ WorkerFails \/ WatchdogRestarts \/ \E i \in Invocations : Begin(i)
    /\ attached' = IF head' = "healthy" THEN attached ELSE NotLoaded
    /\ UNCHANGED <<packing, packer, files, mounted>>

PStep(i) ==
    \/ Otherwise(i) \/ Prepared(i) \/ Mount(i)
    \/ Synced(i) \/ NotPacked(i) \/ PackRank(i)
    \/ Packer(i) \/ PackerFails(i)

PNext ==
    \/ \E i \in Invocations : PStep(i) \/ PInterrupt(i)
    \/ \E p \in Left : Packer(p) \/ PackerFails(p)
    \/ Load \/ Around

\* A script and the packer it waits for go on until they end.
PFairness == (\A i \in Invocations : WF_pvars(PStep(i))) /\ WF_pvars(Load)

PSpec == PInit /\ [][PNext]_pvars
PFairSpec == PSpec /\ PFairness

-----------------------------------------------------------------------------

(* A file under its final name and of its full size holds every row of its      *)
(* header at its place, whenever the packers, the scripts and the ranks were     *)
(* stopped and whatever their writes left out: a packer that skips "a shard that *)
(* already exists at the right size" (start.sh:1127) and a lookup that compares  *)
(* the size skip and read a whole one. Two packers at the same shard are left    *)
(* out: see README.                                                              *)
ShardWhole ==
    \A r \in Ranks, k \in Layers :
        (/\ shard[r][k] # NoFile /\ <<r, k>> \notin overlapped
         /\ shard[r][k].size >= Size(shard[r][k])) => Whole(shard[r][k])

(* The rows a healthy server reads from its packed shards are the rows the      *)
(* lookup asks for, with shards of an older packer in the directory too.        *)
RowsRight ==
    head = "healthy" =>
        \A r \in Ranks, k \in Layers :
            (attached[r][k].how = "packed" /\ <<r, k>> \notin overlapped) =>
                \A x \in EngineRanges[r][k].lo..(EngineRanges[r][k].hi - 1) :
                    ReadsRow(attached[r][k].file, EngineRanges[r][k], x)

(* A rank never passes over a shard this packer made for it: packer and lookup  *)
(* compute the same range (row_store_attach_packed, "ignoring, using            *)
(* checkpoint").                                                                *)
PackerAgrees ==
    \A r \in Ranks, k \in Layers :
        attached[r][k].how = "refused" => attached[r][k].file = OldShard(k, r)

\* What makes ShardWhole and RowsRight inductive: a packer alone with its .partial
\* has written the blocks before its own, or its file is short of them, and what a
\* lookup holds it found whole.
IsTable(t) == t = [r \in Ranks |-> [k \in Layers |-> t[r][k]]]
PackerType == [rank : Ranks, layer : 0..Len(LayerIds), block : Nat, lost : Nat,
               file : {"none", "partial", "shard", "gone"}]
PackTypes ==
    /\ packer \in [Packers -> PackerType]
    /\ \A p \in Packers : packer[p].file # "none" => packer[p].layer \in Layers
    /\ IsTable(shard) /\ IsTable(partial) /\ IsTable(attached)

Alone(p) == packer[p].file # "none" /\ <<packer[p].rank, packer[p].layer>> \notin overlapped
Holds(file, range, block, lost) ==
    /\ file = [lo |-> range.lo, hi |-> range.hi, got |-> file.got, size |-> file.size]
    /\ lost = 0 => file.got = 0..(block - 1)
    /\ file.size \in Nat /\ file.size + lost <= RowsBefore(range, block)
    /\ block = 0 \/ block - 1 \in Chunks(range)
HoldInv ==
    \A p \in Packers : Alone(p) =>
        /\ packer[p].file = "partial"
        /\ Holds(partial[packer[p].rank][packer[p].layer], RangeOf(p), packer[p].block, packer[p].lost)
        /\ \A q \in Packers \ {p} : SameShard(p, q) => packer[q].file = "none"

AttachInv ==
    \A r \in Ranks, k \in Layers :
        (attached[r][k].how = "packed" /\ <<r, k>> \notin overlapped) =>
            LET file == attached[r][k].file
            IN /\ Whole(file)
               /\ file.lo = EngineRanges[r][k].lo /\ file.hi = EngineRanges[r][k].hi

PackInv == PackTypes /\ HoldInv /\ ShardWhole /\ AttachInv

\* What makes PackerAgrees inductive, where packer and lookup compute the same ranges: what
\* a packer opened has the header of the packer's range, whatever it was renamed to.
Headed(file, r, k) == file.lo = PackerRanges[r][k].lo /\ file.hi = PackerRanges[r][k].hi
OriginInv ==
    /\ \A r \in Ranks, k \in Layers :
         /\ shard[r][k] \in {NoFile, OldShard(k, r)} \/ Headed(shard[r][k], r, k)
         /\ partial[r][k] = NoFile \/ Headed(partial[r][k], r, k)
    /\ \A p \in Packers :
         LET r == packer[p].rank
             k == packer[p].layer
         IN /\ packer[p].file = "partial" => Headed(partial[r][k], r, k)
            /\ packer[p].file = "shard" => Headed(shard[r][k], r, k)
    /\ PackerAgrees
=============================================================================
