----------------------------- MODULE FinalWindow -----------------------------
(***************************************************************************)
(* One agent conversation and the engine's hybrid prefix cache, with the   *)
(* two overlays that meet in it: patch_swa_final_window.py (a freed        *)
(* request leaves the tails of its last checkpoints cached) and            *)
(* patch_yoco_prefill.py with dsv41_yoco.py (the decoder layers run a      *)
(* prefill only on its last Keep rows, so no hit may reach into them).     *)
(*                                                                         *)
(* The prompts of the turns are prefixes of one token stream, so block i   *)
(* of a request has the hash of block i of the stream and the cache is a   *)
(* set of block numbers.  One request runs at a time; what other requests  *)
(* do to it is eviction.  The sliding-window groups are alike and one of   *)
(* them is modelled; the full-attention groups are the length of their     *)
(* common cached prefix.                                                   *)
(***************************************************************************)
EXTENDS Integers, Sequences, FiniteSetsExt

CONSTANTS BlockSize,     \* tokens of a block, 64
          Alignment,     \* scheduler_block_size: hits are multiples, 128
          Window,        \* sliding_window, 128
          Drafts,        \* num_speculative_tokens, 3 or 5
          Retention,     \* PREFIX_CACHE_RETENTION_INTERVAL, 4096
          Configs,       \* configurations of the server, see below
          MaxEvictions,  \* bound: evictions of one behaviour
          MaxTurns       \* bound: admissions of one behaviour

\* A configuration: DSV41_SWA_FINAL_WINDOW=keep, DSV41_YOCO_KEEP_TOKENS (0 for
\* DSV41_YOCO_PREFILL=off), max_in_flight_tokens with the lookahead included, and
\* the bounds that suit it: tokens of the conversation, prompt lengths, prefill
\* tokens the scheduler gives a step.
ASSUME WindowAssumption ==
  /\ BlockSize \in Nat \ {0} /\ Alignment \in Nat \ {0} /\ Window \in Nat \ {0}
  /\ Alignment % BlockSize = 0
  \* so that no tail is cut off at the start of the prompt
  /\ Window - 1 <= Alignment
  /\ Retention \in Nat \ {0} /\ Retention % Alignment = 0
  /\ Drafts \in Nat
  /\ \A c \in Configs :
       /\ c.final \in BOOLEAN
       \* YocoPrefill.__init__ refuses a smaller KEEP (min_keep_tokens)
       /\ c.keep \in Nat
       /\ c.keep = 0 \/ c.keep >= Window + Drafts + 1
       /\ c.inFlight \in Nat /\ c.tokens \in Nat
       \* vLLM refuses a prompt that leaves no token to generate
       /\ c.prompts \subseteq 1..(c.tokens - 1) /\ c.chunks \subseteq 1..c.inFlight
  \* so that the full-attention groups, registered when a step is scheduled,
  \* reach the checkpoint below the two steps in flight
  /\ 2 * Drafts + 1 <= BlockSize
  /\ MaxEvictions \in Nat /\ MaxTurns \in Nat

VARIABLES
  config,      \* the configuration the server was started with
  phase,       \* "idle", "running" or "preempted"
  prompt,      \* num_prompt_tokens
  tokens,      \* num_tokens
  prefill,     \* prefill_len: num_tokens when the request was admitted
  computed,    \* num_computed_tokens, in-flight steps included
  inflight,    \* num_in_flight_tokens
  flight,      \* tokens of each scheduled step that is not processed yet
  hit,         \* where the request's prefix-cache hit ended
  shared,      \* shared_prefix_boundary
  low, len,    \* the block table: null below low, blocks up to len
  registered,  \* num_cached_block
  cached,      \* blocks of the sliding-window group in the prefix cache
  full,        \* tokens cached by every full-attention group
  hollow,      \* cached blocks with a row no step has computed yet
  rows,        \* positions whose decoder SWA row is good
  last,        \* the last freed request, and whether nothing was evicted since
  turns, evictions

request == <<config, prompt, tokens, prefill, hit, shared>>
vars == <<phase, request, computed, inflight, flight, low, len, registered, cached, full,
          hollow, rows, last, turns, evictions>>

Final == config.final
Keep == config.keep
MaxInFlight == config.inFlight
MaxTokens == config.tokens
Prompts == config.prompts
Chunks == config.chunks

cdiv(x, y) == (x + y - 1) \div y
AtLeast(x, y) == IF x < y THEN y ELSE x
AtMost(x, y) == IF x < y THEN x ELSE y
Align(x) == (x \div Alignment) * Alignment
FullBlocks(x) == (x \div BlockSize) * BlockSize

Processed == computed - inflight
Blocks == 0..cdiv(MaxTokens + Drafts, BlockSize)
-----------------------------------------------------------------------------
(* Hits, tails and the hold *)

\* Blocks a hit needs before it, the DSpark peek block included.
Need == cdiv(Window - 1, BlockSize) + 1
First(h) == AtLeast((h \div BlockSize) + 1 - Need, 0)
TailOf(h) == First(h)..(h \div BlockSize)

\* Mutant: the hold forgets that the checkpoint lies under the tokens YOCO keeps.
HoldNoKeep ==
  IF Final
  THEN AtLeast(Alignment + BlockSize - 1 - (Window - 1)
               + cdiv(Window - 1, BlockSize) * BlockSize, 0)
  ELSE 0

\* Tokens kept allocated below the window (_dsv41_swa_final_hold_tokens).
Hold ==
  IF Final
  THEN AtLeast(Alignment + BlockSize - 1 + Keep - (Window - 1)
               + cdiv(Window - 1, BlockSize) * BlockSize, 0)
  ELSE 0

\* Mutant: requests are admitted as if nothing were held below the window.
ReservationStock == cdiv(Window - 1 + MaxInFlight, BlockSize) + 1

\* max_admission_blocks_per_request, grown by the hold.
Reservation == cdiv(Window - 1 + MaxInFlight, BlockSize) + 1 + cdiv(Hold, BlockSize)

\* The hit lengths a freed request leaves.
Boundaries(done, total) ==
  LET top == FullBlocks(done)
  IN {h \in {Align(top - BlockSize)}
            \cup (IF Keep > 0 THEN {Align(total - Keep - BlockSize)} ELSE {}) :
        h >= Alignment /\ h + BlockSize <= top}

MaxHit(total) == IF Keep > 0 THEN AtLeast(total - Keep, 0) ELSE total - 1

\* The longest hit every group has: a cached full-attention prefix, and the
\* window and peek block of the sliding-window group.
FullHit(total) == Align(AtMost(full, MaxHit(total)))
find_longest_cache_hit(total) ==
  Max({h \in {Alignment * i : i \in 0..(FullHit(total) \div Alignment)} :
         h > 0 => /\ h + BlockSize <= MaxHit(total)
                  /\ TailOf(h) \subseteq cached})
-----------------------------------------------------------------------------
(* What a scheduled step registers in the cache *)

InSegmentTail(i) ==
  LET perSegment == Retention \div BlockSize
  IN \/ Need >= perSegment
     \/ i >= 1 /\ (i - 1) % perSegment >= perSegment - Need

ReachableBoundaries(spb) ==
  {prompt' - 1}
  \cup (IF Keep > 0 /\ prompt' - Keep - BlockSize > 0
        THEN {prompt' - Keep - BlockSize} ELSE {})
  \cup (IF spb > 0 THEN {spb} ELSE {})

InBoundaryTail(i, spb) ==
  \E b \in ReachableBoundaries(spb) :
    LET end == (Align(b) \div BlockSize) + 1 IN end - Need <= i /\ i < end

\* The blocks of so many tokens a hit can use: up to the last checkpoint and its
\* peek block.
Registrable(known) ==
  IF Align(known) > 0 THEN AtMost(known, Align(known) + BlockSize) \div BlockSize ELSE 0

\* KVCacheManager.cache_blocks when a step that reaches `upto` tokens is
\* scheduled: the block table starts at `lowest`, `done` tokens are processed.
cache_blocks(upto, done, from, lowest) ==
  LET known == AtMost(upto, tokens')
      end == Registrable(known)
      new == {i \in Blocks : /\ from <= i /\ i < end /\ lowest <= i
                             /\ InSegmentTail(i) \/ InBoundaryTail(i, shared')}
  IN /\ registered' = AtLeast(from, end)
     /\ cached' = cached \cup new
     /\ hollow' = hollow \cup {i \in new : (i + 1) * BlockSize > done}
     /\ full' = AtLeast(full, Align(known))

\* get_num_skipped_tokens, in blocks.
Skipped(done) == AtLeast(done - Window + 1 - Hold, 0) \div BlockSize

\* Mutant: blocks are freed up to the optimistic position of steps in flight.
SafeToFreeOptimistic == Skipped(computed)

\* What remove_skipped_blocks may free: nothing that a step in flight reads.
SafeToFree == Skipped(Processed)

\* allocate_slots of a running request: free what no window needs any more, add
\* blocks, register the full ones.
Allocate(n) ==
  /\ low' = AtLeast(low, AtMost(SafeToFree, len))
  /\ len' = AtLeast(len, cdiv(computed + n + Drafts, BlockSize))
  /\ cache_blocks(computed + n, Processed, registered, low')

-----------------------------------------------------------------------------
(* The rows the decoder layers run and read *)

Prefilling == Processed < prefill
Truncated == Prefilling /\ Keep > 0 /\ prefill > Keep

\* Mutant: the window of the kept rows is not clipped to the rectangle.
VisibleUnclamped(p) == AtLeast(p - Window + 1, 0)..p

\* The positions of a step that the decoder stores, and the lowest position
\* they may see; the placeholder row of an earlier chunk does neither.
LowerBound == IF Truncated THEN prefill - Keep ELSE 0
Kept(n) == AtLeast(Processed, LowerBound)..(Processed + n - 1)
Visible(p) == AtLeast(p - Window + 1, LowerBound)..p

-----------------------------------------------------------------------------
(* The request's life *)

Init ==
  /\ config \in Configs /\ phase = "idle"
  /\ prompt = 0 /\ tokens = 0 /\ prefill = 0 /\ hit = 0 /\ shared = 0
  /\ computed = 0 /\ inflight = 0 /\ flight = <<>>
  /\ low = 0 /\ len = 0 /\ registered = 0
  /\ cached = {} /\ full = 0 /\ hollow = {} /\ rows = {}
  /\ last = [done |-> 0, prompt |-> 0, tokens |-> 0, hit |-> 0, intact |-> FALSE]
  /\ turns = 0 /\ evictions = 0

\* get_computed_blocks and the first allocate_slots: the table is the hit's
\* window, then new blocks.
Admit(p, t, chunk) ==
  LET h == find_longest_cache_hit(t)
      n == AtMost(chunk, t - h)
  IN /\ turns < MaxTurns
     /\ n + Drafts <= MaxInFlight
     /\ phase' = "running" /\ turns' = turns + 1
     /\ prompt' = p /\ tokens' = t /\ prefill' = t
     /\ hit' = h
     /\ shared' = IF FullHit(t) > h THEN FullHit(t) ELSE 0
     /\ computed' = h + n /\ inflight' = n /\ flight' = <<n>>
     /\ low' = First(h)
     /\ len' = cdiv(h + n + Drafts, BlockSize)
     /\ cache_blocks(h + n, h, h \div BlockSize, First(h))
     \* what a cached block holds for the decoder is anybody's guess under YOCO
     /\ rows' = IF Keep > 0 THEN {} ELSE (First(h) * BlockSize)..(h - 1)
     /\ UNCHANGED <<config, last, evictions>>

\* A turn: a longer prompt, a retry of the last one, or an edited shorter one.
Submit == 
  /\ phase = "idle"
  /\ \E p \in Prompts, chunk \in Chunks : Admit(p, p, chunk)

Resume ==
  /\ phase = "preempted"
  /\ \E chunk \in Chunks : Admit(prompt, tokens, chunk)

\* The next chunk, or a verify step of the last token and its drafts.
Schedule ==
  /\ phase = "running" /\ Len(flight) < 2
  /\ UNCHANGED <<phase, request, rows, last, turns, evictions>>
  /\ \E n \in IF computed < prefill
             THEN {AtMost(chunk, prefill - computed) : chunk \in Chunks}
             ELSE {1 + Drafts} :
       /\ inflight + n + Drafts <= MaxInFlight
       /\ computed + n < MaxTokens
       /\ Allocate(n)
       /\ computed' = computed + n /\ inflight' = inflight + n
       /\ flight' = Append(flight, n)

\* Mutant: the tails may reach into the steps in flight.
DoneOptimistic(c, in, t) == c

\* Only processed tokens that the request kept count (_dsv41_swa_final_window).
Done(c, in, t) == AtMost(c - in, t)

\* KVCacheManager.free after the overlay's hook; steps in flight still run.
Release(c, in, t, to) ==
  LET done == Done(c, in, t)
      held == {h \in Boundaries(done, t) : TailOf(h) \subseteq low..(len - 1)}
      tails == IF Final THEN UNION {TailOf(h) : h \in held} ELSE {}
  IN /\ phase' = to
     /\ cached' = cached \cup tails
     /\ hollow' = {i \in hollow \cup (tails \ cached) : (i + 1) * BlockSize > AtMost(c, t)}
     /\ last' = [done |-> done, prompt |-> prompt, tokens |-> t, hit |-> hit,
                 intact |-> TRUE]
     /\ low' = 0 /\ len' = 0 /\ registered' = 0
     /\ computed' = 0 /\ inflight' = 0 /\ flight' = <<>> /\ rows' = {}

\* Drafts of a verify step that are rolled back when it accepted `a` of them.
Rejected(a) == IF Prefilling THEN 0 ELSE Drafts - a

\* update_from_output: the oldest step is processed with `a` drafts accepted and
\* the request goes on, or stops after `j` of the step's new tokens.
Process ==
  /\ phase = "running" /\ flight # <<>>
  /\ LET n == Head(flight)
         chunk == Prefilling
     IN \E a \in IF chunk THEN {0} ELSE 0..Drafts :
          LET sampled == IF ~chunk THEN a + 1
                         ELSE IF Processed + n = prefill THEN 1 ELSE 0
          IN \/ /\ tokens + sampled < MaxTokens
                /\ tokens' = tokens + sampled
                /\ computed' = computed - Rejected(a)
                /\ inflight' = inflight - n
                /\ flight' = Tail(flight)
                /\ rows' = (rows \cup Kept(n)) \cap 0..(computed' - inflight' - 1)
                /\ hollow' = {i \in hollow : (i + 1) * BlockSize > computed' - inflight'}
                /\ UNCHANGED <<phase, low, len, registered, cached, last>>
             \/ \E j \in 1..sampled :
                  /\ tokens' = tokens + j
                  /\ Release(computed - Rejected(a), inflight - n, tokens', "idle")
  /\ UNCHANGED <<config, prompt, prefill, hit, shared, full, turns, evictions>>

\* The client went away.
Abort ==
  /\ \/ /\ phase = "running"
        /\ Release(computed, inflight, tokens, "idle")
     \/ /\ phase = "preempted" /\ phase' = "idle"
        /\ UNCHANGED <<computed, inflight, flight, low, len, registered, cached,
                       hollow, rows, last>>
  /\ UNCHANGED <<request, full, turns, evictions>>

Preempt ==
  /\ phase = "running"
  /\ Release(computed, inflight, tokens, "preempted")
  /\ UNCHANGED <<request, full, turns, evictions>>

\* The pool hands out a block that no running request holds.
Evict ==
  /\ evictions < MaxEvictions /\ evictions' = evictions + 1
  /\ \/ \E i \in cached :
          /\ phase = "running" => i \notin low..(len - 1)
          /\ cached' = cached \ {i} /\ hollow' = hollow \ {i}
          /\ UNCHANGED full
     \/ /\ phase # "running"
        /\ \E f \in {Alignment * i : i \in 0..(full \div Alignment)} : f < full /\ full' = f
        /\ UNCHANGED <<cached, hollow>>
  /\ last' = [last EXCEPT !.intact = @ /\ phase = "running"]
  /\ UNCHANGED <<phase, request, computed, inflight, flight, low, len, registered,
                 rows, turns>>

\* reset_prefix_cache; the bounds start again.
ResetPrefixCache ==
  /\ phase = "idle" /\ turns = MaxTurns
  /\ cached' = {} /\ full' = 0 /\ hollow' = {}
  /\ last' = [done |-> 0, prompt |-> 0, tokens |-> 0, hit |-> 0, intact |-> FALSE]
  /\ prompt' = 0 /\ tokens' = 0 /\ prefill' = 0 /\ hit' = 0 /\ shared' = 0
  /\ turns' = 0 /\ evictions' = 0
  /\ UNCHANGED <<config, phase, computed, inflight, flight, low, len, registered, rows>>

Next == \/ Submit \/ Resume \/ Schedule \/ Process \/ Abort \/ Preempt \/ Evict
        \/ ResetPrefixCache

Spec == Init /\ [][Next]_vars
-----------------------------------------------------------------------------
(* Type invariant. *)
TypeOK ==
  /\ config \in Configs /\ phase \in {"idle", "running", "preempted"}
  /\ prompt \in 0..MaxTokens /\ tokens \in prompt..MaxTokens
  /\ prefill \in prompt..MaxTokens
  /\ computed \in 0..MaxTokens /\ inflight \in 0..MaxInFlight
  /\ phase = "running" => Processed \in 0..tokens
  /\ flight \in Seq(1..MaxInFlight) /\ Len(flight) <= 2
  /\ hit \in 0..MaxTokens /\ shared \in 0..MaxTokens
  /\ len \in Blocks /\ low \in 0..len /\ registered \in 0..len
  /\ cached \subseteq Blocks /\ hollow \subseteq cached
  /\ full \in 0..MaxTokens /\ rows \subseteq 0..MaxTokens
  /\ last \in [done : 0..MaxTokens, prompt : 0..MaxTokens, tokens : 0..MaxTokens,
               hit : 0..MaxTokens, intact : BOOLEAN]
  /\ turns \in 0..MaxTurns /\ evictions \in 0..MaxEvictions

(* Every block that the next step to be processed reads or writes, and those   *)
(* of the steps scheduled after it, is allocated: what a hit left out and what  *)
(* was freed lies below the window even if all drafts in flight are rejected    *)
(* (remove_skipped_blocks, add_local_computed_blocks).                          *)
WindowHeld ==
  phase = "running" =>
    /\ low * BlockSize <= AtLeast(Processed - Window + 1, 0)
    /\ computed <= len * BlockSize

(* A request never holds more sliding-window blocks than its admission          *)
(* reservation, the overlay's hold included; otherwise requests admitted        *)
(* together could exhaust the pool in the middle of their prefills.             *)
HeldWithinReservation ==
  len - low <= Reservation

(* Whatever happens to a request while steps are in flight, once it is gone no *)
(* block with a row that was never computed, or that holds a rejected draft,   *)
(* is left in the prefix cache for another request to hit.                     *)
CachedComputed == phase # "running" => hollow = {}

(* With the final window kept, a request that continues the freed one hits its *)
(* newest checkpoints that the cap leaves usable, unless something was evicted:*)
(* the hold kept their tails allocated until the free, whatever the chunks,    *)
(* the acceptance and the moment of the abort or preemption were.              *)
ContinuationHits ==
  (Final /\ phase = "running" /\ last.intact /\ prefill >= last.tokens) =>
    \A b \in Boundaries(last.done, last.tokens) :
      (b >= last.hit /\ b + BlockSize <= MaxHit(prefill)) => hit >= b

(* Under YOCO a retry of a prompt that was prefilled recomputes at most Keep   *)
(* tokens, the peek block and the alignment, unless something was evicted: the *)
(* extra retained boundary of yoco_reachable_boundary is hittable.             *)
RetryHits ==
  (Keep > 0 /\ phase = "running" /\ evictions = 0 /\ prefill = last.prompt
     /\ last.done >= last.prompt) =>
    LET b == Align(prefill - Keep - BlockSize) IN b >= last.hit => hit >= b

(* A turn and a retry find in the cache what the overlay meant to leave them.   *)
HitsFound == TypeOK /\ ContinuationHits /\ RetryHits

(* No decoder row is ever computed from a decoder row that its own request did *)
(* not compute: hit cap, kept rows, chunk boundaries, window clipping and      *)
(* rollback of drafts together keep garbage out of the sliding window.         *)
DecoderReadsGood ==
  (phase = "running" /\ flight # <<>>) =>
    \A p \in Kept(Head(flight)) : Visible(p) \subseteq rows \cup Kept(Head(flight))

-----------------------------------------------------------------------------
(* What FinalWindowProofs shows every step to keep, and the properties follow   *)
(* from.                                                                       *)

TypeInv ==
  /\ config \in Configs /\ phase \in {"idle", "running", "preempted"}
  /\ prompt \in Nat /\ tokens \in Nat /\ prefill \in Nat /\ hit \in Nat /\ shared \in Nat
  /\ computed \in Nat /\ inflight \in Nat /\ flight \in Seq(1..MaxInFlight)
  /\ low \in Nat /\ len \in Blocks /\ registered \in Nat /\ full \in Nat
  /\ cached \in SUBSET Blocks /\ hollow \in SUBSET cached /\ rows \in SUBSET (0..MaxTokens)
  /\ last \in [done : Nat, prompt : Nat, tokens : Nat, hit : Nat, intact : BOOLEAN]
  /\ turns \in 0..MaxTurns /\ evictions \in 0..MaxEvictions

\* The tokens of a request, and what of it stays when it is gone.
BoundInv ==
  /\ prompt <= prefill /\ prefill <= tokens /\ tokens <= MaxTokens
  /\ hit <= prefill /\ Align(hit) = hit /\ (Keep > 0 /\ hit > 0 => hit + Keep <= prefill)
  /\ shared <= MaxTokens /\ full <= MaxTokens
  /\ last.done <= last.tokens /\ last.prompt <= last.tokens /\ last.tokens <= MaxTokens /\ last.hit <= MaxTokens
  /\ phase # "running" => /\ computed = 0 /\ inflight = 0 /\ flight = <<>>
                          /\ low = 0 /\ len = 0 /\ registered = 0 /\ rows = {} /\ hollow = {}
  /\ phase = "preempted" => tokens < MaxTokens /\ prompt > 0

\* The steps in flight, from the first token that is not processed: chunks to the
\* end of the prefill, then verify steps.  All but one sampled token are processed.
StepAt(s, n) == IF s < prefill THEN s + n <= prefill ELSE n = 1 + Drafts
FlightInv ==
  phase = "running" =>
    /\ Len(flight) <= 2 /\ prompt > 0
    /\ inflight = (IF flight = <<>> THEN 0 ELSE flight[1]) + (IF Len(flight) < 2 THEN 0 ELSE flight[2])
    /\ hit <= Processed /\ computed < MaxTokens /\ tokens < MaxTokens /\ inflight + Drafts <= MaxInFlight
    /\ flight # <<>> => StepAt(Processed, flight[1])
    /\ Len(flight) = 2 => StepAt(Processed + flight[1], flight[2])
    /\ tokens = IF Prefilling THEN prefill ELSE Processed + 1

\* The block table: what lies below it was left out by the hit, or is further
\* behind than the window and the hold.
TableInv ==
  phase = "running" =>
    /\ low <= First(hit) \/ low * BlockSize <= Processed - Window + 1 - Hold
    /\ low <= len /\ computed <= len * BlockSize
    /\ len <= cdiv(Processed + MaxInFlight, BlockSize) /\ len - low <= Reservation
    /\ registered <= len /\ Registrable(AtMost(computed, prefill)) <= registered

\* The cache: no hollow block is past what is known of the request, and the
\* full-attention groups reach the last checkpoint with a block after it.
CacheInv ==
  phase = "running" =>
    /\ \A i \in hollow : (i + 1) * BlockSize <= computed /\ (i + 1) * BlockSize <= tokens
    /\ computed >= BlockSize => Align(computed - BlockSize) <= full

\* What a freed request leaves is there until something is evicted.
LeftInv ==
  /\ Final /\ phase # "running" /\ last.intact =>
       \A b \in Boundaries(last.done, last.tokens) : b >= last.hit => TailOf(b) \subseteq cached /\ b <= full
  /\ ContinuationHits

\* The tail of the checkpoint below the tokens YOCO keeps of a prompt: cached as
\* far as the request's blocks are registered, and all of it when it was freed.
KeepBoundary(total) == Align(total - Keep - BlockSize)
RetryInv ==
  /\ Keep > 0 /\ evictions = 0 =>
       LET b == KeepBoundary(prompt)
           c == KeepBoundary(last.prompt)
       IN /\ phase = "running" /\ b > 0 /\ b >= hit => \A i \in TailOf(b) : i < registered => i \in cached
          /\ last.done >= last.prompt /\ c > 0 /\ c >= last.hit => TailOf(c) \subseteq cached /\ c <= full
  /\ RetryHits

\* The rows below the next step's, as far as its first row sees.
RowsInv == phase = "running" => AtLeast(Processed - Window + 1, LowerBound)..(Processed - 1) \subseteq rows

IInv == TypeInv /\ BoundInv /\ FlightInv /\ TableInv /\ CacheInv /\ LeftInv /\ RetryInv /\ RowsInv
===============================================================================
