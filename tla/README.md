# Verification of the DeepSeek-V4.1-Flash two-Spark serving stack

The repository serves one EXL3-quantised DeepSeek-V4.1-Flash model over two DGX
Sparks.  It is not one program: `start.sh` launches vLLM in a container on each
machine, `scripts/` fetches, ships and repacks the weights, `overlay/` replaces
or patches parts of vLLM at container start (Engram row store, EXL3 layers,
prefill truncation, KV retention, scheduler and output hooks), and
`extensions/` is a set of CUDA kernels.  What this directory verifies is the
control logic of those parts: who may do what, in which order, and what holds
when they interleave, fail or stop half way.  Arithmetic, wording and timing are
abstracted to what the properties tell apart.

Contents: [1 Inventory](#1-inventory) - [2 Modules](#2-modules-and-how-they-correspond-to-the-code) -
[3 Runs](#3-what-the-runs-check) - [4 Fairness](#4-fairness) - [5 Proofs](#5-what-is-proved) -
[6 Findings](#6-findings) - [7 Not modelled](#7-what-is-not-modelled-and-why) - [8 Plan](#8-plan)

To check: `tlc -config MC<M>.cfg MC<M>.tla` for a run, `tlapm <M>Proofs.tla` for
the proofs of a component.  `PROJECT.json` lists every run, the mutant that
breaks each property, the source lines each definition stands for, and the hazards.

## 1. Inventory

### Engram row store (`overlay/row_store.cpp`, `overlay/engram_file_backend.py`)

*State.*  One `Store` per Engram layer: the safetensors file, the rows this rank
owns, a set-associative row cache with 256 striped locks, scales pinned in
memory, an attached packed shard.  One process-wide thread `Pool`: two mutexes,
two condition variables, the atomics `next_`, `chunks_`, `remaining_`, and
`job_`, `active_`, `generation_` under `mutex_`.
*Operations.*  `row_store_open`, `row_store_range`, `row_store_attach_packed` in
the order `_make_init` calls them; then `row_store_lookup` from CUDA stream
callbacks; `row_store_stats`, `row_store_close`.
*Interaction.*  The caller publishes a `Work`, drains it together with the
workers and waits for them; each id goes through `serve` and `fetch_row`.
*Hard.*  A worker that wakes late, a ticket counter reset under it, a lost
notification; two fills of one set; a file packed for another rank or layer.
*Correct when* a lookup returns exactly its rows, each written once and before
the return, each the row of its id, and every call returns.

### Engram layout and packer (`overlay/engram_layout.py`, `scripts/pack_engram.py`, `start.sh`)

*State.*  Which rank owns which hash columns, hence rows, of which table; a packed
file per rank and layer, written as `.partial` and renamed; the packers that run.
*Operations.*  The primes of the columns, `shard_range`, `pack_layer` block by
block; `packed_present` and `maybe_pack_engram` of a boot, the mount of a rank, the
attach of a lookup.
*Hard.*  A packer killed at any byte; a write a full disk cuts short without an error; a
packer Ctrl-C leaves on the worker beside the one of the next boot; a shard of the right
name and another range.
*Correct when* the columns partition, a file with a shard's name and size is whole, a
server reads the rows its ids mean, and packer and lookup agree on them.

### Prefix cache overlays (`overlay/patch_swa_final_window.py`, `overlay/patch_yoco_prefill.py`)

*State.*  Per request: block table, tokens computed and in flight, the boundary
of the shared prefix.  Global: blocks in the prefix cache.
*Operations.*  Admission with a cache hit, scheduling of a chunk or verify step
(free, allocate, register), processing of its output (acceptance, rollback),
finish, abort, preemption; eviction.
*Hard.*  Registration and freeing run ahead of the steps in flight; a hit must be
aligned, capped, and find its window and its peek block; the decoder layers skip
all but the last rows of a prefill, so most cached blocks have no decoder row.
*Correct when* nothing a step still reads is freed, nothing uncomputed is left in
the cache, a continuation finds the checkpoints the overlay promises, and no
decoder row is computed from a row nobody computed.

### One engine step (`overlay/dsv41_yoco.py`, `patch_yoco_prefill.py`, `patch_scheduler_decode_floor.py`, `patch_memory_log.py`)

*State.*  The scheduler's queues and counts; the metadata buffers of the step and
their shadow; the row plan; the skip flag of the boundary layer; what the caches
hold; the transients of a prefill.
*Operations.*  Schedule under the decode floor, build the metadata, run the layers
below the boundary, split and run those above, sample, release.
*Hard.*  Batches that mix decodes, truncated and short prefills; chunks that lie below
the kept rows; metadata that describe two sets of rows in one forward; a policy
that may put a prefill off for ever; a preemption between two chunks.
*Correct when* sampled rows are the rows of their position, the boundary layer stores
every position once, the decoder reads stored rows only, the floor holds, and
every request is answered.

### Output hooks (`patch_control_token_injection.py`, `patch_output_token_split.py`, `patch_suppress_stops_in_reasoning.py`, `patch_xgrammar_termination.py`)

*State.*  Per request: the prompt's ids, the matcher's states, drafts, the text, the
stop guard and its offset, what the parser was fed and the client shown.
*Hard.*  Control tokens a user quotes; chunks that split a marker, a token or a stop
string; drafts that are validated, accepted in part and rolled back; the end of the
reasoning or of the grammar inside a window.
*Correct when* a quote stays a quote and a token a token on the way in and on the way
out, a stop string counts from the end of the reasoning and is not missed, the
grammar is never asked to take what it refuses and follows the accepted tokens.

### EXL3 layers and routed-expert dispatch (`overlay/exl3.py`, `patch_h2d_stage.py`, `overlay/e3v2`)

*State.*  At load: the shards a layer was handed, one pinned buffer all copies
share, parameters, stashes, handles, tuned shapes.  In a call: the tier a
layer resolved, pinned counts and a side stream, scratch shared by all layers.
*Hard.*  The buffer is written again while a copy from it may not have run; merged
linears whose parts come apart; slices of a rank that hold another's rows;
captured shapes nobody tuned; a host that decides on counts another stream copies;
flags read again in each call.
*Correct when* a handle is made of what belongs together, the ranks hold each tile
once, a gap raises; and whatever the path, each slot of a local expert is added to
its token exactly once.

### Cooperative MoE kernels (`extensions/cooperative_moe`)

*State.*  Scratch buffers, a run table and two arrays of arrival counters, shared
by all layers on a device and kept from call to call.
*Hard.*  Blocks arrive in any order; each kernel clears the other's counters; a
launch that fails between the two leaves them dirty; rows with no local expert
get no arrival at all.  *Correct when* every chunk is reduced once, by the last
arrival, from complete partial results.

### Patch scripts and the start of a node (`overlay/patch_*.py`, `Dockerfile`, `start.sh`)

*State.*  The installed package: for each edit its anchor, its replacement and the
script's mark; the image it came from.
*Operations.*  `docker build` runs one list of scripts, every start of the container
another over the same files; a container may be killed, restarted or created anew.
*Hard.*  An anchor that is gone or there twice; a script killed inside a write; an
image built before a script existed; some errors are warnings and some are fatal.
*Correct when* an edit is made once, a script's edits are all there or none, and what
`vllm serve` imports is what the settings ask for, on the first start and on the tenth.

### Launcher (`start.sh`, `stop.sh`) and the memory guard (`scripts/memguard.sh`)

*State.*  A container per rank, the external stall watchdog, images, weights and
copied files on both machines, a pidfile per guard.
*Hard.*  Any step may fail (`set -e`), Ctrl-C may come at any point, nothing locks
two invocations against each other, the ssh link may not answer.  *Correct when*
no boot that paused the watchdog runs under an armed one, no server is left without it,
and every invocation ends.

### Benchmark runner (`scripts/deepinfer_bench.py`)

*State.*  On disk `raw.jsonl` and `meta.json`; in memory the jobs left, the rollouts in
flight, budgets, the foreign-use detector.
*Hard.*  Threads that end between two looks of the main loop, yields to other users,
budgets that run out inside a stream, Ctrl-C twice, a kill inside a line.
*Correct when* no sample is done twice or lost, none beyond the budget counts, the
detector blames nobody for the benchmark's own tokens, and an invocation ends.

### The rest

Python side of the lookup, GPU kernels without cross-block communication, model
shares, warmup, memory guard, probes, tests and documentation: see section 7.

### Interactions

`start.sh` packs the shards and starts the nodes; each node runs the scripts over its
package and serves with the overlays; a forward pass calls `EngramFileBackend`
(row store, pool), the EXL3 layers (which hand eligible decode calls to the
cooperative kernels and run the others through the dispatch), and the YOCO driver;
the scheduler calls the prefix cache overlays between passes; the output hooks follow
each step.  Where two parts share state they are in one module or composed:
the decode floor, the YOCO driver and the release hook in `ServeLoop`; the four hooks
of a request in `Completion`; all scripts in `NodeBoot`; launcher, packers and
lookups in `PackedLaunch`.  The two that share state within a lookup, pool and
store, meet at `serve`: `RowStorePool` takes serving an id as one step,
`RowStoreCache` opens that step up for any number of threads.  Serving an id touches
no pool variable and the pool touches no store variable, so the two results combine.

## 2. Modules, and how they correspond to the code

| module | models | extends / composes |
|---|---|---|
| `RowLookup` | what `row_store_lookup` promises | - |
| `RowStorePool` | `Pool::run`, `drain`, `loop`, `row_store_lookup` | instance of `RowLookup` |
| `RowStoreCache` | opening a store, `serve`, `fetch_row` | - |
| `EngramShards` | primes, ranges of the ranks, files, attach | - |
| `PackedLaunch` | packers and mounts between the steps of a boot | `Launcher`, `EngramShards` |
| `FinalWindow` | both prefix cache overlays and the managers they patch | - |
| `YocoPlan` | the row plan of a step | - |
| `ServeLoop` | one engine step after another | `YocoPlan` |
| `TokenSplit` | control tokens in prompts and in output text | - |
| `Completion` | a request from its prompt to its last delta | `TokenSplit` |
| `Exl3Load` | loading one packed layer, its handles and their tuning | - |
| `MoeDispatch` | tier resolution and the paths of a routed-expert call | - |
| `CoopMoe` | the cooperative kernels and their launch | - |
| `PatchSet` | the patch scripts as edits of a text | - |
| `NodeBoot` | docker build and every start of a container | `PatchSet` |
| `Launcher` | invocations of `start.sh`, the containers, the watchdog | - |
| `BenchRun` | invocations of the benchmark and its rollouts | - |
| `*Proofs` | theorems about the module named; `PackedLaunchProofs` also has those about `Launcher`, `EngramShards` and `NodeBoot`, `Exl3Proofs` those about `Exl3Load` and `MoeDispatch`, `PoolAndCompletionProofs` those about `RowStorePool` and `Completion` | the module, TLAPS |
| `MC*` | small instances for TLC | the module |

**RowStorePool.**  `pc[t]` is the program point of thread `t`.  `drain()` reads
`next_`, `chunks_` and `remaining_` without the mutex, so `run()` publishes
them in separate steps (`PublishJob`, `PublishChunks`, `PublishRemaining`,
`NotifyReady`); what is only touched under `mutex_` moves with its critical
section.  Waiting on a condition variable is a program point that only a
notification or `SpuriousWakeup` leaves.  `generation_` wraps at `GenMod`
(2^64 in the code).  A lookup of fewer than `kSerialBelow` rows is served by the
caller.

**RowStoreCache.**  A row is a weight part and a scale part, tagged with the row
they really belong to, so torn, stale and foreign rows are visible.  `_make_init`
is the three set-up calls, every one of which may end the process; then any
thread may `serve` an id: range check, `Probe` under the set's lock, `ReadRow`
and `ReadScale` without it, `FillBegin` to `FillEnd` under it (the two `memcpy`s
are separate steps).  The packed file at this rank's path is any element of
`Shards`.  `ReadFails` is the abort of a short or failing read.

**EngramShards, PackedLaunch.**  `EngramShards` computes the packer's ranges from
`engram_layout.py` (primality test included) and the lookup's from the consecutive
primes vLLM's layout gives a layer; a file is the range of its header, the blocks it
holds and its length.  `PackedLaunch` refines the step `prepare` of `Launcher`:
`packing` is where an invocation is in `maybe_pack_engram`, `packer` the packers, which
open, write block by block and rename (a packer with the file open then writes
to the shard, one that finds no `.partial` fails).  The file is not buffered and nothing
looks at the count `write` returns (`pack_engram.py:94-111`): a block may be cut short
(`Cuts`), the next one follows what was written (`WriteBlock`, `lost`), and the rename
comes all the same.  The header is one short write and taken as whole.  Ctrl-C ends the packer on the
head; the one behind ssh goes on under a number of its own (`Left`).  `Mount` looks for
layer 1 only, and a container that is removed loses its mounts; `Load` attaches each
layer, and a truncated shard keeps the rank down.
The checks of disk space and `DSV41_AUTO_PACK` are choices (`NotPacked`,
`PackerFails`).  A `.partial` nobody has open is forgotten, since the next open
truncates it.  Shards of an older packer, which split rows evenly, may be there at
the start.

**FinalWindow.**  One conversation whose prompts are prefixes of one token stream, so a
block is named by its number.  `Submit`, `Resume`: hit and first allocation;
`Schedule`: the next chunk or a verify step; `Process`: output of the oldest step
in flight, with any number of drafts accepted, or the end of the request;
`Abort`, `Preempt`, `Evict`, `ResetPrefixCache`.  Sliding-window managers are
taken from the copies under `src/tests/fixtures/dsv41_yoco/vllm`.  `hollow` are
cached blocks with a row no step has computed yet; `rows` are the positions whose
decoder row is good.

**ServeLoop, YocoPlan.**  A step is `Schedule` (the scheduler's two passes with the
policy at both call sites), `Attach` (primary and shadow metadata), `Encode`,
`Boundary` (split, skip flag, decoder rows; the boundary layer stands for all decoder
layers) and `Finish` (scatter, sampling with any number of drafts accepted, release of
the transients).  A row is a request and a position, and what flows through the layers
is a sequence of rows, so a wrong gather or scatter puts another's state in a row.
Preemption and aborts come between steps.  Steps do not overlap here: `FinalWindow`
has two in flight.

**Completion, TokenSplit.**  `TokenSplit` has the encoding of a prompt (trie match of
added tokens in a string, segments of a dirty prompt) and the split of a completion
(masking every marker that no token made).  `Completion` is a request: `Draft`
(validation of drafts), `Check` (the manager's window with accept and rollback),
`Sample` (accepted tokens, grammar, detokenizer, stop check, a delta of the
parser).  Texts are sequences of characters because the markers are what the
properties are about.  No two control strings share an end and a beginning, as the real
ones do not (they begin with `<` and end with `>`), and U+FDD0 is in no text.

**Exl3Load.**  A matrix is a grid of tiles.  `Create` (method and K by prefix),
`NextUnit`, `LoadExpert`, `LoadLinear` (slices of a rank; each writes the pinned
buffer, whose copy runs in `Dma`), `Process` (handles), `Pretune`, `Capture`.  The
checkpoint may lack a tensor or a matrix.  `Pretune` reaches any of the handles: it may
be switched off, find no function, pass over a handle whose key raises, or fail with a
log line (`patch_memory_log.py:105-142`, `exl3.py:1864-1867`); `untuned` are those it did
not reach, and `Capture` follows whatever became of it.

**CoopMoe.**  Every buffer is the set of its cells that hold this call's right
value.  A block's `GemvA`/`ArriveA`/`EpilogueA` (and `B`) are the steps that other
blocks can observe; blocks of a kernel take steps in any order, kernels of a
stream follow one another.  A launch may fail before each kernel (`Begin`), which
ends the engine.

**MoeDispatch.**  `cfg` is what the environment, the checkpoint and the image
decide; `ResolveTier` is the load.  A call is `Begin` (map, sort, count), the
actions of its path and `Return`.  The output is a bag of contributions
(token, source token, slot of the weight, expert), so a slot added twice, left
out, weighted as another slot or run through another expert shows.  The order of
equal keys in `argsort`, which is not stable, is chosen from `Ties`.

**NodeBoot, PatchSet.**  `PatchSet` has each script as a record: its edits by file, how
it recognises a finished one (mark, text, both), whether one missing anchor stops the
whole script.  `NodeBoot` runs the list of the Dockerfile, then that of the start
script: `Run` tests the parts of a script and plans the writes of those it finds undone
(`plan`, by the number of the part), `Write` does the next file of the plan, `Serve` is
the import; `script` is the place in the list.  `Restart` keeps the files, a kill inside a write leaves an empty one;
`Recreate` takes the image's.  A base image may differ in one edit; only scripts that
test the text can tell an edit that is upstream already; an older image lacks the
last five scripts.  One replacement stands for all versions of a script.

**Launcher.**  `Step(i)` is the next step of an invocation; `Interrupt(i)` is
Ctrl-C.  `preflight`, `prepare`, `RunWorker` and `RunHead` may fail and end the script.
What is never fatal may fail and not take effect: `docker rm -f ... || true` leaves a
container (`HeadRemoved`, `WorkerRemoved`), and with `DSV41_MANAGE_WATCHDOG=0` or a failing
docker command `pause_watchdog` and `resume_watchdog` leave the watchdog as it is
(`Pause`, `Resume`).  `unmanaged` says that the last of these two did.  The polls of
`wait_for_health` count `READY_TIMEOUT` and missed ssh answers.  The server
(`Boot`, `HeadFails`, `WorkerFails`) and the watchdog (`WatchdogRestarts`, a
container the repository only pauses and re-arms) are external.

**BenchRun.**  The main thread's loop (`Round`, `Harvest`, `Write`, `Account`,
`Budgets`, `Poll`, `Start`, `Launch`), the steps of a rollout (`Connect`, `Accept`,
`Chunk`, `End`), Ctrl-C with the joins after it, a kill, and the next invocation,
which resumes.  Time is a choice.  The detector has no baseline before the first poll that
is answered (`Baseline`, `polled`); from then on it compares (`Compare`).  The engine's
counter is not zero when an invocation begins (`served`), and an engine that restarts
counts from zero (`EngineRestart`), so a difference may be negative.  `attempts`,
`recorded`, `foreign`, `flagged`, `ours` and `lost` are history the code does not keep:
what others asked for since the baseline, what was held against them, which of our prompts
the engine counted, and what restarts took off the counter.

## 3. What the runs check

| run | instance | states | what it shows |
|---|---|---|---|
| `pool_safety` | 2 callers, 2 workers, up to 2 rows, generations modulo 2 | 67 118 | the counters are exact, the pool implements `RowLookup` (each row once, none after the return), whoever is in `run()` gets out whether or not a worker ever wakes |
| `cache_safety` | 2 threads, 3 rows in 1 set of 2 ways, 1 stripe, 24 packed files | 85 032 | every served id gets its own row or zeros; a fetch is delivered unless the process aborts |
| `coop_safety` | a shape with 2 rows and one with 2 chunks and 2 blocks per chunk | 881 991 | successive calls with every routing, blocks in any order |
| `swa_final` | final window with large chunks; both overlays with Keep 10 | 1 086 496 | windows held, nothing uncomputed cached, hits as promised, the reservation covers what is held, the decoder reads good rows |
| `serve_loop` | prompts of 2 and 6, five settings, one preemption, aborts | 60 251 | logits of the right rows, complete KV, the floor, no request left waiting |
| `completion` | nine scenarios of up to 6 tokens | 52 269 | quotes stay quotes, tokens tokens; stop strings; the grammar |
| `exl3_load` | each packed kind of layer on 1 and 2 ranks, whole or with a gap | 610 719 | handles, tiles, gaps, tuned shapes |
| `moe_dispatch` | 2 local experts of 3, up to 3 tokens of 2 picks, 2 buffer rows | 92 798 | every setting, every path |
| `node_boot` | one drift, an older image, 4 settings, 2 restarts or new containers | 1 201 239 | what `vllm serve` imports |
| `launch_sequential` | 1 invocation again and again, 2 layers, 2 ranks, 1 interrupt, 1 cut write | 225 336 | boots undisturbed, invocations end, shards whole, rows right |
| `bench_resume` | 2 invocations of 3 command lines, budget 2 | 632 362 | samples, budgets, detector, termination |
| `launch_detached` | 1 invocation, 1 interrupt | - | violates `RearmedOnceHealthy`: section 6 |

`PROJECT.json` lists the properties of each run; each is stated in words above its
definition.  Where a run has one question with several answers they are conjuncts of
one property, each defined and stated by itself:

| property | its conjuncts |
|---|---|
| `DispatchRight` | `OutputExact`, `SegmentsCover` |
| `CallRight` | `OutputRight`, `LastArrival` |
| `HitsFound` | `ContinuationHits`, `RetryHits` |
| `CachesRight` | `KvComplete`, `DecoderReadsGood` |
| `PlansFit` | `EncoderSeesAll`, `NeverRaises` |
| `LayerRight` | `HandlesFit`, `TilesOnce` |
| `OutputFaithful` | `StreamMarkers`, `StreamRestored`, `ParsedByTokens` |
| `StopRight` | `StopDormant`, `StopNotMissed` |
| `GrammarRight` | `NeverRefused`, `GrammarFollows` |
| `RowsExact` | `DoneOnce`, `AttemptsRecorded`, `NothingForgotten`, `CoverageTrue` |
| `Idempotent` | `AppliedOnce`, `RestartStable` |
| `ServedFit` | `ServedComplete`, `StrictServed`, `H2dLinked` |

The type invariants of these modules are further conjuncts (`TypeOK` of `DispatchRight`,
`CallRight`, `HitsFound`, `PlansFit`, `LayerRight`, `RowsExact` and `Idempotent`,
`RequestTypes` of `GrammarRight`); those of `RowStorePool`, `RowStoreCache`, `Launcher`, `CoopMoe`,
`FinalWindow` and `BenchRun` are proved, and
so are `NoDrainOutsideRun` and `TicketsExclusive` of the pool.  `MCPackedLaunch` assumes
`RowsOwned` of its two tables, which TLC evaluates.

**Bounds and why they are enough.**
*Pool:* two workers are needed for one to be late while the other finishes, a
second caller for the ticket counter to be reused by someone else; two rows make
tickets contended, and `GenMod = 2` lets a worker sleep through a wrap.  The proofs
remove all these bounds.
*Cache:* three rows share a set of two ways, so rows are evicted; the packed files
cover each header field wrong by itself and in combination.  The proofs remove the
bounds.
*Packed launch:* two layers on two ranks give full, missing and old shards in every
mixture, and the second layer's primes depend on the first; three columns on two ranks
do not divide; `ChunkRows` 23 makes a range of one block or of two; four polls allow
three missed answers in a row and a timeout.  With `MaxInterrupts` 1 a packer is left
on the worker beside the next boot's.  `MaxCuts` 1 and `MaxShort` 1: one row that one
write leaves out makes a file short in its first block or its last; how many rows are
missing changes no test of a size.  `OldShards` has one rank's shards of the older packer
and, of the other rank, none or one of two, which leaves it to pack both or to mount and
pack none.  The proofs remove the bounds.
*Cooperative kernels:* two rows and runs of two give runs that span rows, runs of
one, rows with no local expert; a second call meets every counter the first left.
*Prefix cache:* block 4, alignment 8, window 8 stand in the deployment's
proportions (64, 128, 128), `Retention` 16 is two alignments; prompts are chosen
just past block and alignment borders, chunks aligned and not, two steps in
flight, two turns and one eviction between resets.  One configuration has
chunks larger than a window, the other chunks small enough to reach the reservation.
`MaxInFlight` counts the lookahead slots: see the hazard at
`single_type_kv_cache_manager.py:187`.
*Serve loop:* one prompt is shorter and one longer than the 4 kept tokens; budget 4
cuts the long one into a chunk below the kept rows and one across them, budget 8 takes
it whole beside a decode; the policy is off, skip and a cap of 2.
*Completion:* every scenario is as long as it takes to split its marker over two
chunks, quote it and say it: the quoted string is spelled by pieces (`lPD`, `Pc`, `fs`)
that overlap its border.
*EXL3 load:* the 14 kinds of layer the checkpoint packs, with mixed K, uneven parts and
a prefix the map gets wrong; two ranks are the deployment's.
*Dispatch:* three tokens over two buffer rows make experts thin, exactly full and
fat; the two segment sizes (2 and 1) are different, so both tables are built; the
routings include padded picks and experts of another rank, the maps one that is
not monotone; each of the 92 settings that lets the layer load is an initial state.
*Node boot:* scripts touch each other's files, and one edit is made over another's:
YOCO's anchor in `attention.py` is what lm_head's `score` edit puts there
(`patch_yoco_prefill.py:192`), so `Anchored` asks for that edit, and an image whose
`score` anchor is gone fails YOCO's `--check` in the build, or a boot with YOCO on where
the image is older.  Apart from that pair one drift at a time meets every branch; two
faults are a kill inside a boot and one after it.
*Benchmark:* two arms at a time for the order of harvests; two samples in a row for the
budget, with yields; two samples while one foreign prompt comes and the engine, which has
counted one prompt before, may restart until two tokens are lost.  Two errors in a row
stop; two invocations for resumption.

**Assumptions on the constants** that the code relies on and the modules name:
`FinalWindow` needs `Window - 1 <= Alignment` and `2 * Drafts + 1 <= BlockSize`
(both hold in the deployment), and that a prompt leaves room for a token, which vLLM
refuses otherwise; `ServeLoop` that KEEP is at least the window plus the
drafts, which `YocoPrefill.__init__` refuses otherwise; `MoeDispatch` that a token
picks an expert once, that `expert_map`, where there is one, is a tensor over at least
as many global experts as the layer has local ones and injective on those, and that an
order of equal keys ranks every slot apart; `Exl3Load` that sizes are positive, that
vLLM deals whole groups of a grouped linear to its ranks, and that the tuned rows
(`DSV41_EXL3_PRETUNE_SIZES`) reach each of exllamav3's buckets;
`EngramShards` that the ranges are numbers, which TLC evaluates; `PackedLaunch`
that there are two ranks; `NodeBoot` that drifts, omitted scripts and settings are of
the kinds the scripts tell apart; `RowStorePool` that 2^64 is more than one; `TokenSplit`
that every character has a token of the base vocabulary (the tokenizer is byte-level) and
U+FDD0 none; `Completion` that the grammar's moves lead to its states, and that `<think>`
and `</think>` are the only tokens of their strings and no control token goes on with
their first character, `<`.

`CHECK_DEADLOCK FALSE` is set where the system really stops: a process that
aborts in `fail()` (cache), an engine that ended on a failed launch (kernels), all
requests answered (serve loop, completion), a layer that is loaded or raised, a
container that failed with no restart left, a benchmark with no invocation left.

## 4. Fairness

* *Pool.*  Weak fairness for the steps of callers and of threads that drain: a
  runnable thread runs.  Strong fairness for the two steps that take `mutex_`
  (`NotifyFinished`, `LeaveDrain`): a lock that is free again and again is
  obtained.  None for `TakeJob` or `SpuriousWakeup`: `RunCompletes` must hold
  when no worker ever wakes.
* *Cache.*  Weak fairness for `fetch_row` and delivery, strong for the two steps
  that take the stripe (`Probe`, `FillBegin`).  None for a caller to come.
* *Serve loop.*  Weak fairness for the engine's step as a whole, not for any of its
  choices: the engine loop goes on while it has requests.  None for aborts or
  preemptions, which are bounded.
* *Launcher.*  Weak fairness for the steps of an invocation (each command in the
  script has a timeout or ends) and for `Boot`: a boot that does not fail comes to
  an end.  None for Ctrl-C, failures, or the watchdog.  In `PackedLaunch` the packer an
  invocation waits for goes on as part of its step; a read from NFS that hangs for good
  would break that, and there the script hangs too.
* *Benchmark.*  Weak fairness for the main loop, for the joins after Ctrl-C, for each
  rollout's stream (the server answers or the connection ends) and for the end of the
  time budget.  None for users, yields, Ctrl-C or errors.

## 5. What is proved

All theorems hold for every value of the constants that the named assumptions allow.

* **PoolAndCompletionProofs**, of `RowStorePool` - `PoolInvariant`, and from it `TypeCorrect`,
  `NoLateDrain`, `ExclusiveTickets`, `ExactCounters`, `ImplementsLookup`.  The safety
  properties are not inductive: that a drainer is inside the right job follows
  from who owns the mutexes (`LockInv`), what `job_` points at (`JobInv`),
  what each drainer holds (`DrainInv`), which rows and tickets a job has used
  (`RowsInv`, `TicketInv`), and from `CountersExact` itself: `run()` returns
  only when `active_ = 0`, and that empties the set of workers that took
  the job only because the count is exact.  `IInv` is their conjunction; the
  steps of the cardinality arguments are in `ActiveStep` and `RemainingStep`.
  `ImplementsLookup` maps initial states and steps to those of `RowLookup`.
  Assumed: finitely many workers, distinct from the callers.
* **PoolAndCompletionProofs**, of `Completion` - `RequestInvariant`, and from it
  `StopsAreRight`, `GrammarIsRight` and `StreamIsRestored`, for any vocabulary, grammar, stop
  string, drafts and chunks.  `TextFacts` ties the text and `_reasoning_closed` to the ids,
  so what a search over the new characters finds is what a search of the whole text would
  (`CloseFacts`, `StopFacts`: an occurrence that the old text did not hold ends in the new
  characters).  `SentFacts` says that what may begin a stop string is not passed on and that
  the stream has counted each id's characters; what hiding replaces, unhiding restores
  (`HideUndone`), because U+FDD0 is in no text.  `MatcherFacts` says the matcher took all
  that was said after the reasoning, or is done (`TakenFrom`: tokens taken one after
  another are taken as one sequence), and will take the drafts it validated; the window
  over the drafts rolls back by what it counted (`RollsBack`).
  `PromptIsFaithful`: both encodings give the content's characters and the template's token.
  Of a clean prompt that is so because nothing a user says can begin a control token that
  the template ends (`CleanBefore`, `TailFound`), which `TemplateAssumption` says of the
  vocabulary; the encode goes forward by jumps, so it is built from its end (`Descends`).
* **RowStoreCacheProofs** - `CacheInvariant`, then `TypeCorrect`, `RightRow`,
  `Coherent`.  `LockInv` says a stripe is held exactly while a thread copies into one
  of its sets, hence (`Exclusive`) two threads never copy into one set; with
  that `SlotInv` (a slot is being written, empty, or holds its key's row)
  survives the copies of all other threads.  `ConfigInv` carries what set-up
  established: pinned scales and the packed file start at `row_lo`.
* **Exl3Proofs**, of `MoeDispatch` - `PathsAllowed`: for all settings a call never takes a path
  that the load of its layer ruled out.  `PathInv` ties the place in the call to
  the flags read on the way and the tier to `ResolveTier(cfg)`.
  `DispatchInvariant`, and from it `DispatchIsRight`: for any number of experts, tokens
  and picks, any buffer and tile sizes, any routing, expert map and order of equal keys,
  every path adds each slot of a local expert to its token once.  `CallInv` says `order`
  is a sort of the slots by expert (`ArgsortSorts`, a rank argument), so the counts that
  `bincount` and `ExclCumsum` give are where an expert's slots begin and end
  (`OrderSections`, `SlotSection`: sections of a sum, `SectionOf`).  `OutInv` says what
  the place in the call has added: nothing, the thin experts, the rows of the tiles or
  experts behind `at`, or all local slots; two disjoint sets of slots make a disjoint
  sum of bags (`BagsAdd`).  `HostInv` is what the staged copy must give, the counts of
  this call and not of the last one, and `ScratchInv` that the rows two grouped kernels
  hand over are this call's.  For the grouped tables `SearchIs` says what the binary
  search over the prefix sums returns; `SegBound` that the segments fit what was allocated
  (`MaxSegs`), and `TablesRight` that they cut the fat rows apart, each in one expert.
* **Exl3Proofs**, of `Exl3Load` - `LoadInvariant`, then all three properties of the run:
  `LayersAreRight`, `MissingIsRaised`, `CapturesAreTuned`, for every layer, size of matrix,
  number of ranks, map of K and checkpoint with a gap.  None is inductive, since handles
  are built long after their tensors went through the pinned buffer.  `HeldInv` says that
  whatever is held or on its way is the slice of one of the rank's own units (`Own`), in
  its place; `CompleteInv` that what was read and was there is held or on its way; hence
  after the last copy (`AllHeld`) a handle is made of what belongs together
  (`BuiltRight`).  That an expert's tensor is not reshaped is a fact about sizes: one that
  was cut evenly and has the parameter's number of elements has its K too (`SameSize`).
  `ChunkFacts` and `OneRank` are why each tile is on one rank.  A gap in a merged linear
  raises because another part came and the number of parts is known; in a grouped one the
  number follows from the last slice that came (`PartsAre`, `Greatest`).  `BuiltInv` keeps
  the handles of earlier ranks; `TuneInv` says the shapes that were autotuned are those of
  the handles the pretune reached, in every bucket, so `CapturesAreTuned` excepts the
  handles it did not reach and no others.
* **PackedLaunchProofs**, of `Launcher` - `SequentialBoots`: with `MaxConcurrent = 1`, for any number
  of invocations and interrupts, `BootUndisturbed`: a boot goes on under an armed watchdog
  only after a pause or a re-arming that did not take effect.  `SequentialInv` adds that
  one invocation runs at a time, that from `pause_watchdog` on the watchdog is stopped
  unless that pause did nothing, and that a head once seen healthy does not boot again.
  The hypothesis is needed: with two invocations at a time the warmup of one ends
  in the boot of the other, and TLC violates the property.  `LauncherTyped` needs
  that the health wait leaves before its count is `READY_TIMEOUT`.
* **PackedLaunchProofs**, of `EngramShards` - `ColumnsPartition`: for any number of columns and ranks
  every column is one rank's.  The parts of all ranks reach the last column because
  `Part` rounds up (`PartCovers`); a column's rank is its quotient (`ColumnOfRank`).
* **PackedLaunchProofs**, of `PackedLaunch` - `PackedImplements`: each step of the composition is a step
  of `Launcher` or leaves its variables alone, so `PackedBoots` and `PackedTyped`
  follow from the theorems about `Launcher`.  `ShardsWhole` (a file of the full size is
  whole, also where writes were cut short) and `RowsAlwaysRight` rest on `PackInv`: a
  packer that is alone at its shard holds the blocks before its own, or its file is shorter
  by all the rows that were cut off, which no later block makes up for; no other packer has
  that shard's file open (`HoldInv`); and what a lookup attached was whole and of its own
  range (`AttachInv`).  `HoldMoved` is the step in which packers end
  or change hands, Ctrl-C included.  `NoneIsPassedOver`: a lookup never passes a shard over
  because its header has another range.  `OriginInv` says that every file from its opening
  to its final name has the header of the packer's range (`Headed`); that the lookup asks
  for that range is the hypothesis `PackerRanges = EngineRanges`, a fact about two ways to
  walk consecutive primes, which TLC evaluates.
* **PackedLaunchProofs**, of `NodeBoot` - `NodeInvariant`, then `AppliedOnceOnly`
  (`Idempotent`), `ServedWhole` (`AllOrNothing`), `ServedAsAsked` (`ServedFit`), for every
  set of drifts, also several on one image, every older image, every settings and any number
  of restarts and new containers.  `TextInv`: an edit that is made has lost its anchor or is
  marked, so no script finds it undone; it survives a kill because a file that is cut off
  loses its anchors with its marks (`TornText`).  `PlanInv`: what a running script has left
  is what a new run of it would plan; `RestOfPlan` is that a write changes what the script
  finds in its own part and no other.  `BootInv`: a script that ran in this boot finds
  nothing to write, later scripts included (`OthersKept`), hence a second boot plans
  nothing. The exception is YOCO, which lm_head gives an anchor: it runs last, and what
  it could do or find done it still can (`YocoKept`). For what is served, `FitInv` adds
  that marks are true, that an undrifted edit can be found or is made and recognised
  (`FitText`), that a script of several files that began can finish, and that the
  scripts whose failure stops the build or the boot passed (`MustInv`). The hypothesis
  `~HalfMerged` of the last two is needed: of a base image that already has a part of
  the final window or of YOCO, without the mark, the scripts fail, and where the feature
  is off that part is served.
* **BenchRunProofs** - `BenchInvariant`, then `RowsAreExact`, `BudgetIsHard`,
  `DetectorIsExact`, for any number of invocations, concurrent rollouts, samples, arms
  and tokens.  `IInv` says where every sample of an arm is: recorded in `raw.jsonl`,
  lost with a partial row, in flight, harvested, or still among the jobs, and in
  exactly one of these places; sums over the rows on disk and over the
  rollouts in flight tie `spent`, the budget and the tokens the detector subtracts to one
  another.  The history variables (`attempts`, `recorded`) are what `RowsExact` compares
  the disk with.  `CreditInv` is the detector's account from its baseline on: what the
  credit still covers is what was sent and not counted, plus what a restart of the engine
  took off the counter.
* **FinalWindowProofs** - `FinalWindowInvariant`, then all five properties of the run:
  `WindowIsHeld`, `ReservationIsEnough`, `CacheIsComputed`, `HitsAreFound`,
  `DecoderReadsAreGood`, for every block size, alignment, window, number of drafts,
  retention interval, KEEP, and set of prompts and chunks the assumption allows.
  `FlightInv` has the shape of the steps in flight (chunks to the end of the prefill, then
  verify steps), so what a rejection rolls back is known; `TableInv` bounds the table from
  both sides, by the hit or the hold below and by the reservation above; `CacheInv` says
  the full-attention groups reach the last checkpoint with a block after it, hence each
  boundary a freed request leaves (`Boundaries`) has its tail in the table; `LeftInv` and
  `RetryInv` carry that tail to the next admission, where `Longest` says the hit is
  the longest there is.  Most lemmas are arithmetic of aligned and full blocks (`Aligned`,
  `FirstOf`, `Registered`, `Reserves`).
* **CoopMoeProofs** - `CoopInvariant`, then `CountersAreExact` and `CallsAreRight`, for
  every shape, routing, number of threads and order of the blocks.  `RunsFit` is the first
  half: the run table holds every active slot once, in runs of one expert and at most
  `RunRows` slots.  A slot's place in the table is its rank among the active slots by
  expert and number (`Ranked`, `Ordered`), and `Started`, `OneExpert` and `RunTable`
  cut that order into the runs.  The second half is what a step
  of one block means to the others: `PlaceInv` puts each block in its run, `StartedInv`
  says a block past its product has stored its partial results and cleared its share of
  the other kernel's counters (so the counters are zero when that kernel begins),
  `CountersExact` makes a counter the number of arrivals, hence `FullA` and `FullB`: a
  counter at its end means that all groups of the chunk are stored.  `LastInv` says a
  full counter has its chunk written or one block about to write it, which is what makes
  the last arrival unique; `EmptyInv` is for the rows without a slot, which no counter
  guards.  Arrivals are counted by a bijection (`OneToOne`) between the blocks of a chunk
  and the partial results it sums (`CountA`, `CountB`).
* **ServeLoopProofs** - `ServeInvariant`, then all five safety properties of the run:
  `LogitsAreReal`, `CachesAreRight`, `PlansAlwaysFit`, `FloorIsHeld`, `HandoverIsReleased`,
  for any number of requests, lengths, budget, window, KEEP, drafts and any caps.  `BatchInv`
  says that a batch continues each of its requests where it stands, and that nothing moves
  it until `Finish`; `PlanInv` that the plan and both sets of metadata are those of this
  batch.  From these two and the row lemmas alone (`Located`, `KeepIdxFacts`,
  `GatherCompact`, `Scattered`: where a row of a batch lies in the concatenation, in the
  gathered rows and in the scattered ones) follow `LogitsReal` and what the boundary layer
  produces and stores.  `CacheInv` bounds what the decoder layers miss by `Low`: of a
  truncated prefill the rows before its last KEEP, which no later row can see because KEEP
  is at least the window and the drafts; that is where the assumption is used.
  `FloorHeld` is a fact about the two loops of `Schedule`, not about a history:
  `RunGood` and `WaitGood` are their loop invariants (budget and batch add up, an entry
  beside a decode is capped, queues stay disjoint), proved by induction over the queue.
  `HookInv` says transients are held only while `in_prefill` is set.

**Induction over data.**  The library's induction theorems take an operator and cannot be
used, but the well-foundedness of `<` on the naturals can (`NatLessThanWellFounded` and
`WFMin` of `WellFoundedInduction`): lemma `Least` says that a non-empty set of
naturals has a least member, and a claim about all n is proved from its least
counterexample.  `BenchRunProofs` gets the values of its sums that way, `FinalWindowProofs`
the longest hit, `ServeLoopProofs` and
`PoolAndCompletionProofs` their loops over a batch, a queue and a text (`Iterated`: a
recursive function over 0..n has the values its equation says), `Exl3Proofs` its
prefix sums and its loops over tiles and experts (`TileByTile`, `FatByFat`).  `SelectSeq` stays out
of reach, so `ServeLoop` removes elements with `Without`.

**Only model-checked.**  All liveness (`RunCompletes`, `FetchCompletes`, `Answered`,
`InvocationEnds`): liveness under fairness and `ENABLED` are beyond the
prover.  That packer and lookup compute the same ranges over consecutive primes, in two
ways (`PackerRanges = EngineRanges`).  Of `Completion`, `OutputFaithful` but for
`StreamRestored`: what the parser finds depends on how the strings of the control tokens
overlap, with one another and with the text around them, and TLC decides that for the
vocabulary of the scenarios.

## 6. Findings

* `launch_detached` - `start.sh:1928` says the watchdog is "re-armed by on_ready
  once the server is healthy".  After Ctrl-C in the health wait ("Ctrl-C detaches,
  the server keeps running", `start.sh:1845`) nobody re-arms it: the server
  becomes healthy and serves unguarded.  A `READY_TIMEOUT` that is too short ends the
  same way.

Other behaviour met while modelling that no property covers; the first four are in the
hazards of `PROJECT.json`, the rest are listed here only:

* two invocations at a time (`start.sh:2011`): the warmup of one re-arms the watchdog in
  the boot of the other;
* two packers at one shard after Ctrl-C (`pack_engram.py:94`), which `ShardWhole` leaves
  out (`overlapped`), although `start.sh:1128` calls a pack "safe to re-run";
* a write of the packer that a full disk cuts short (`pack_engram.py:111`): the truncated
  file gets the final name, the lookup refuses to load it, and `packed_present`
  (`start.sh:1154`) looks for names only, so each later boot fails until someone deletes
  it.  `start.sh:1178` promises that "any node short of disk or a failed pack just stays
  file-backed over NFS";
* the detector may miss more than the "one prompt's worth" its docstring grants
  (`deepinfer_bench.py:375`): the credits of several requests the engine never took add
  up, a counter that starts over adds what it had counted, and nothing before the first
  answered poll is seen;
* a `</think>` that is only quoted wakes the stop strings
  (`patch_suppress_stops_in_reasoning.py:156`), which go by the text, while the parser
  goes by the tokens; a delta whose control token a stop string's buffer holds back is
  passed on as it is (`patch_output_token_split.py:307`), quotes included;
* a rollout aborted before its socket exists streams on (`deepinfer_bench.py:461`); with
  two rollouts the tokens of a harvested row are in no sum until line 746, so the other
  one may cross the budget and still count;
* a kill inside a script's write leaves a module that fails every restart until the
  container is created anew (`patch_h2d_stage.py:136`); an anchor of the head that is
  gone is passed over in silence (`patch_exl3_lm_head.py:244`); `SKIP_BUILD=1` keeps an
  image whose marks make newer scripts skip their files (`start.sh:994`);
* the pidfile of a guard outlives a reboot (`start.sh:1508`), and a guard exits while its
  container is restarted (`memguard.sh:44`);
* a shard of the right size is taken for complete after the weights changed
  (`pack_engram.py:84`); on two file systems a boot unlinks source shards others read
  (`prepare_engram_src.py:38`);
* `is_prime(61)` is False (`engram_layout.py:23`); the health wait counts rounds, not
  seconds (`start.sh:1896`); the lookup takes the current stream for every caller
  (`engram_file_backend.py:425`).

## 7. What is not modelled, and why

* `~Pool`: `pool()` never deletes its instance.  `row_store_stats` and the
  hit and miss counters; `row_store_close`, which nothing calls while serving.
* The Python side of a lookup (`engram_file_backend.py` after `init`): a copy, a host
  call and two kernels on one CUDA stream, whose order is the stream's.
  `patch_engram_secondary.py` beyond its edits.
* In `EngramShards`: `prepare_engram_src.py` (hard links to the same files), `start.sh
  pack` (the same packers without the check for presence); two packers at one shard are
  in the model, but no promise is made for that shard.  `is_prime(61)` is False in the
  code and in the model; the checkpoint's vocabulary is far above.
* In `FinalWindow`: block sharing between requests by reference counts, the LRU order of
  eviction, the scheduler's choice of chunk (any of `chunks`), and more than one
  sliding-window group (they are alike).
* In `ServeLoop`: overlap of two steps, the checks of the topology, more than one decoder
  layer, the anchors of the patches.
* In `Completion`: images, tools and truncation of a prompt, `min_tokens`, the cache of
  splitters, fallbacks on exceptions; streams in which a delta with a control token was
  held back are left as they are by the code, and `StreamMarkers` leaves them out.
* In `Exl3Load`: the GLM FP8 method, which no layer of this checkpoint selects,
  diagnostics, arithmetic.
* In `CoopMoe`: arithmetic of a tile, `layer_eligible`, `call_eligible`, the
  install hook; split-k is 1 in this build.
* In `MoeDispatch`: CUDA-graph capture, diagnostics, the arithmetic of the kernels; the
  fused kernel `exl3_moe` is external and taken for what its callers rely on (it skips
  an expert of more rows than its buffers).
* In `NodeBoot`: the base image's own patches, the migration of `engram_secondary` from
  its first version, the arguments of a rank.
* In `Launcher`: what image, weight and copy steps do (each is a step that succeeds or
  fails), `status`, `logs`, `share`.
* In `BenchRun`: prompts and their preflight, judging and statistics.  `BudgetHard` is
  stated for one rollout at a time (section 6).
* The memory guard: off unless `DSV41_MEM_GUARD=1`; what can go wrong (a pidfile that
  outlives its process, a container that restarts) lies with the host.  Numerics and
  kernels without cross-block communication (`exl3_fat_gemm`, tile sizes, copies), the
  cooperative launch patch of a vendored kernel, boot warmup, model shares, probes and
  validators, tests, documentation.  `PROJECT.json` lists each with its reason.

## 8. Plan

Modelled: all parts whose control is in the repository; section 7 says what is left and
why.  Proved: every safety property of the runs but `OutputFaithful`, whose scenarios TLC
checks.
