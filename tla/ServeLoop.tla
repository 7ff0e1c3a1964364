------------------------------ MODULE ServeLoop ------------------------------
(***************************************************************************)
(* One engine step after another on one rank, with the overlays that meet   *)
(* there: the decode-floor policy in the scheduler                          *)
(* (patch_scheduler_decode_floor.py), the truncated prefill in the worker   *)
(* and the model (dsv41_yoco.py, patch_yoco_prefill.py), and the release of *)
(* a prefill's memory after a step (patch_memory_log.py).                   *)
(*                                                                         *)
(* A step is Schedule, Attach (the attention metadata), Encode (layers      *)
(* below the boundary), Boundary (the boundary layer, which stands for all  *)
(* decoder layers) and Finish, with sampling and the hook after it.  Steps  *)
(* do not overlap; FinalWindow has two in flight.  The prefix cache is one  *)
(* number, the hit.                                                         *)
(***************************************************************************)
EXTENDS YocoPlan, SequencesExt

CONSTANTS Requests,
          Prompt,        \* num_prompt_tokens of each request
          MaxNew,        \* bound: tokens a request generates
          MaxPreempts,   \* bound: preemptions of one behaviour
          Drafts,        \* num_speculative_tokens
          Window,        \* sliding_window, 128
          DecodeRows,    \* 64: a step with no larger share is a decode step
          LongTokens,    \* DSV41_PREFILL_EMPTY_CACHE_TOKENS, 8192
          Configs,       \* see below
          Zero           \* the hidden state of a row the decoder did not run

\* A configuration: mixed, GLM53_MIXED_PREFILL_CHUNK (-1 when off, 0 for skip);
\* keep, DSV41_YOCO_KEEP_TOKENS (0 when off); release,
\* DSV41_PREFILL_END_EMPTY_CACHE; budget, max_num_batched_tokens.
ASSUME LoopAssumption ==
  /\ Prompt \in [Requests -> Nat \ {0}] /\ MaxNew \in Nat \ {0} /\ MaxPreempts \in Nat
  /\ Drafts \in Nat /\ Window \in Nat \ {0}
  /\ DecodeRows \in Nat /\ LongTokens \in Nat
  \* YocoPrefill.__init__ refuses a smaller KEEP (min_keep_tokens)
  /\ \A c \in Configs : /\ c.mixed \in Nat \cup {-1} /\ c.release \in BOOLEAN /\ c.budget \in Nat \ {0}
                        /\ c.keep = 0 \/ (c.keep \in Nat /\ c.keep >= Window + Drafts + 1)

VARIABLES
  config,
  \* scheduler
  life,        \* "new", "waiting", "running", "done" or "refused"
  running, waiting,
  tokens,      \* num_tokens
  computed,    \* num_computed_tokens
  prefill,     \* prefill_len: tokens when the request was admitted
  logprobs,    \* the request asks for prompt_logprobs
  preempts,
  \* the step
  at,          \* "schedule", "attach", "encode", "boundary", "finish" or "raised"
  batch,       \* the scheduled requests, decodes first
  graph,       \* the forward replays a CUDA graph
  primary, shadow,  \* what the metadata builders' persistent buffers describe
  plan,        \* the step's StepPlan: kept rows and whether a forward has used it
  current,     \* the forward context's metadata, "full" or "decoder"
  x,           \* the rows that flow through the layers; in "finish" their results
  \* model and caches
  skip,        \* _dsv41_yoco_skip_kv of the boundary layer's attention
  kv,          \* positions with compressed and index KV of the boundary layer
  swa,         \* positions with a good decoder sliding-window row
  \* worker hook
  inPrefill,   \* state["in_prefill"]
  held,        \* the allocator still holds a long prefill's transients
  decodeSteps  \* decode steps since the last prefill step, up to 2

scheduler == <<config, life, running, waiting, tokens, computed, prefill, logprobs, preempts>>
step == <<batch, graph, primary, shadow, plan, current, x>>
model == <<skip, kv, swa>>
hook == <<inPrefill, held, decodeSteps>>
vars == <<scheduler, at, step, model, hook>>

\* A sequence less the elements that are gone.
Without(s, gone) ==
  LET upto[i \in 0..Len(s)] ==
        IF i = 0 THEN <<>> ELSE IF s[i] \in gone THEN upto[i - 1] ELSE Append(upto[i - 1], s[i])
  IN upto[Len(s)]

NoPlan == [rows |-> 0, idx |-> <<>>, used |-> FALSE]
Yoco == config.keep > 0

Init ==
  /\ config \in Configs
  /\ life = [r \in Requests |-> "new"] /\ running = <<>> /\ waiting = <<>>
  /\ tokens = Prompt /\ computed = [r \in Requests |-> 0] /\ prefill = Prompt
  /\ logprobs = [r \in Requests |-> FALSE] /\ preempts = 0
  /\ at = "schedule" /\ batch = <<>> /\ graph = FALSE
  /\ primary = <<>> /\ shadow = <<>> /\ plan = NoPlan /\ current = "full" /\ x = <<>>
  /\ skip = FALSE /\ kv = [r \in Requests |-> {}] /\ swa = [r \in Requests |-> {}]
  /\ inPrefill = FALSE /\ held = FALSE /\ decodeSteps = 0
-----------------------------------------------------------------------------
(* Scheduler *)

\* The input processor refuses what a truncated prefill cannot answer.
Refused(wants) == wants /\ Yoco

AddRequest(r) ==
  /\ life[r] = "new"
  /\ \E wants \in BOOLEAN :
       /\ logprobs' = [logprobs EXCEPT ![r] = wants]
       /\ IF Refused(wants)
          THEN life' = [life EXCEPT ![r] = "refused"] /\ UNCHANGED waiting
          ELSE life' = [life EXCEPT ![r] = "waiting"] /\ waiting' = Append(waiting, r)
  /\ UNCHANGED <<config, running, tokens, computed, prefill, preempts, at, step, model, hook>>

\* Mutant: the callers do not ask whether the request is still in its prompt.
MixedPolicyDecodeToo(list, r, done) ==
  config.mixed >= 0 /\ \E p \in ToSet(list) \ {r} : done[p] >= Prompt[p]

\* Mutant: a peer that has computed its prompt and no more is not counted.
MixedPolicyPast(list, r, done) ==
  /\ config.mixed >= 0 /\ done[r] < Prompt[r]
  /\ \E p \in ToSet(list) \ {r} : done[p] > Prompt[p]

\* _glm53_mixed_prefill_policy, with the test of its callers: a request that is
\* still in its prompt has a peer that is past its own; done is num_computed_tokens.
MixedPolicy(list, r, done) ==
  /\ config.mixed >= 0 /\ done[r] < Prompt[r]
  /\ \E p \in ToSet(list) \ {r} : done[p] >= Prompt[p]

Capped(list, r, done, n) ==
  IF MixedPolicy(list, r, done) THEN AtMost(n, config.mixed) ELSE n

Entry(r, done, len, n) ==
  [r |-> r, n |-> n, start |-> done, prefill |-> len, prefilling |-> done < len]

\* The running requests in order, while the budget lasts.
NextRunning(acc, r) ==
  LET want == IF computed[r] < prefill[r] THEN prefill[r] - computed[r] ELSE 1 + Drafts
      n == Capped(running, r, computed, AtMost(want, acc.budget))
  IN IF n = 0 THEN acc
     ELSE [budget |-> acc.budget - n,
           batch |-> Append(acc.batch, Entry(r, computed[r], prefill[r], n))]
ScheduledRunning ==
  LET after[i \in 0..Len(running)] ==
        IF i = 0 THEN [budget |-> config.budget, batch |-> <<>>]
        ELSE NextRunning(after[i - 1], running[i])
  IN after[Len(running)]

MaxHit(r) == IF Yoco THEN AtLeast(tokens[r] - config.keep, 0) ELSE tokens[r] - 1

\* Then the waiting ones, each with its hit; one the policy skips stays in line.
NextWaiting(hit, acc, r) ==
  LET done == [p \in Requests |-> IF life[p] = "waiting" THEN hit[p] ELSE computed[p]]
      n == Capped(acc.running, r, done, AtMost(tokens[r] - hit[r], acc.budget))
  IN IF n = 0 THEN [acc EXCEPT !.waiting = Append(@, r)]
     ELSE [budget |-> acc.budget - n,
           batch |-> Append(acc.batch, Entry(r, hit[r], tokens[r], n)),
           running |-> Append(acc.running, r), waiting |-> acc.waiting]
ScheduledWaiting(hit) ==
  LET s == ScheduledRunning
      after[i \in 0..Len(waiting)] ==
        IF i = 0
        THEN [budget |-> s.budget, batch |-> s.batch, running |-> running, waiting |-> <<>>]
        ELSE NextWaiting(hit, after[i - 1], waiting[i])
  IN after[Len(waiting)]

DecodesFirst(b) ==
  LET prefills == {b[i] : i \in {j \in DOMAIN b : b[j].prefilling}}
  IN Without(b, prefills) \o Without(b, ToSet(b) \ prefills)

\* What a hit brings: compressed KV of every row; decoder rows only without YOCO.
Schedule ==
  /\ at = "schedule"
  /\ \E hit \in {h \in [Requests -> {0} \cup {MaxHit(r) : r \in Requests}] :
                   \A r \in Requests :
                     h[r] \in (IF life[r] = "waiting" THEN {0, MaxHit(r)} ELSE {0})} :
     \E s \in {ScheduledWaiting(hit)} :
       LET admitted == ToSet(s.running) \ ToSet(running)
           Admitted(new, old) == [r \in Requests |-> IF r \in admitted THEN new[r] ELSE old[r]]
           rows == [r \in Requests |-> 0..(hit[r] - 1)]
       IN /\ s.batch # <<>>
          /\ batch' = DecodesFirst(s.batch)
          /\ running' = s.running /\ waiting' = s.waiting
          /\ life' = [r \in Requests |-> IF r \in admitted THEN "running" ELSE life[r]]
          /\ computed' = Admitted(hit, computed)
          /\ prefill' = Admitted(tokens, prefill)
          /\ kv' = Admitted(rows, kv)
          /\ swa' = Admitted(IF Yoco THEN [r \in Requests |-> {}] ELSE rows, swa)
  /\ at' = "attach"
  /\ UNCHANGED <<config, tokens, logprobs, preempts, graph, primary, shadow, plan,
                 current, x, skip, hook>>

\* No block is left: the last running request gives its own back.
Preempt ==
  /\ at = "schedule" /\ preempts < MaxPreempts /\ running # <<>>
  /\ LET r == Last(running)
     IN /\ life' = [life EXCEPT ![r] = "waiting"]
        /\ running' = Front(running) /\ waiting' = <<r>> \o waiting
        /\ computed' = [computed EXCEPT ![r] = 0]
        /\ kv' = [kv EXCEPT ![r] = {}] /\ swa' = [swa EXCEPT ![r] = {}]
  /\ preempts' = preempts + 1
  /\ UNCHANGED <<config, tokens, prefill, logprobs, at, step, skip, hook>>

Abort(r) ==
  /\ at = "schedule" /\ life[r] \in {"waiting", "running"}
  /\ life' = [life EXCEPT ![r] = "done"]
  /\ running' = Without(running, {r}) /\ waiting' = Without(waiting, {r})
  /\ UNCHANGED <<config, tokens, computed, prefill, logprobs, preempts, at, step, model, hook>>
-----------------------------------------------------------------------------
(* Worker: metadata, plan and forward *)

\* _dsv41_yoco_need_eager.
NeedEager(b) == Yoco /\ Needed(b, config.keep)

\* The plan of the step's own metadata.
NewPlan(b) ==
  [rows |-> Len(RowsOfBatch(b)), idx |-> KeepIdx(b, config.keep), used |-> FALSE]

\* Mutant: the compact metadata is built with the step's own builders.
BuildCompactPrimary(b) == primary' = Compact(b, config.keep) /\ UNCHANGED shadow

\* The compact metadata goes through the shadow builders: the full one lives in
\* the buffers of the primary builders.
BuildCompact(b) == primary' = Full(b) /\ shadow' = Compact(b, config.keep)

\* prepare_attn and YocoPrefill.attach.
Attach ==
  /\ at = "attach" /\ at' = "encode"
  /\ \E replay \in BOOLEAN :
       /\ NeedEager(batch) => ~replay
       /\ graph' = replay
       /\ IF ~replay /\ Yoco /\ Needed(batch, config.keep)
          THEN BuildCompact(batch) /\ plan' = NewPlan(batch)
          ELSE primary' = Full(batch) /\ plan' = NoPlan /\ UNCHANGED shadow
  /\ current' = "full" /\ x' = RowsOfBatch(batch)
  /\ UNCHANGED <<scheduler, batch, model, hook>>

\* What the layers see: the rows that the metadata describe.
Metadata(which) == IF which = "full" THEN primary ELSE shadow

\* begin(), then the layers below the boundary.
Encode ==
  /\ at = "encode"
  /\ IF plan # NoPlan /\ (graph \/ plan.rows # Len(x) \/ plan.used)
     THEN at' = "raised" /\ UNCHANGED plan
     ELSE at' = "boundary" /\ plan' = [plan EXCEPT !.used = plan # NoPlan]
  /\ UNCHANGED <<scheduler, batch, graph, primary, shadow, current, x, model, hook>>

\* Mutant: nobody clears the flag.
SkipAfterSet == plan # NoPlan \/ skip

\* The flag after split(), attention and after_split(), and again after finish().
SkipAfter == IF plan # NoPlan THEN FALSE ELSE skip

\* The rows of the boundary layer after split(), and the metadata they run under.
Split == IF plan # NoPlan THEN Gather(x, plan.idx) ELSE x
SplitMetadata == Metadata(IF plan # NoPlan THEN "decoder" ELSE "full")

\* Rows that are where the metadata says they are.
Placed(rows, m) ==
  LET described == RowsOfBatch(m)
  IN {rows[i] : i \in {j \in DOMAIN rows \cap DOMAIN described : rows[j] = described[j]}}

\* Compressed and index KV: produce_kv_full in split(), and attention unless it
\* is told to skip.  A row that goes through twice advances the compressor twice.
Produced ==
  LET first == IF plan # NoPlan THEN Placed(x, Metadata(current)) ELSE {}
      second == IF skip \/ plan # NoPlan THEN {} ELSE Placed(Split, SplitMetadata)
  IN (first \cup second) \ (first \cap second)

EntryOf(m, r) == m[CHOOSE i \in DOMAIN m : m[i].r = r]

\* Decoder rows this step stores, and those a row attends to (clamp_swa_rows).
Stored == {row \in Placed(Split, SplitMetadata) : EntryOf(SplitMetadata, row[1]).store}
Visible(row) ==
  AtLeast(row[2] - Window + 1, EntryOf(SplitMetadata, row[1]).lower)..row[2]

\* The boundary layer, for all decoder layers.
Boundary ==
  /\ at = "boundary" /\ at' = "finish"
  /\ LET produced == Produced
         stored == Stored
         Of(r, rows) == {row[2] : row \in {w \in rows : w[1] = r}}
     IN /\ kv' = [r \in Requests |-> kv[r] \cup Of(r, produced)]
        /\ swa' = [r \in Requests |-> swa[r] \cup Of(r, stored)]
  /\ x' = Split /\ skip' = SkipAfter
  /\ current' = IF plan # NoPlan THEN "decoder" ELSE current
  /\ UNCHANGED <<scheduler, batch, graph, primary, shadow, plan, hook>>
-----------------------------------------------------------------------------
(* After the forward *)

\* Mutant: the compact rows are returned as they are.
ResultsCompact == x

\* finish(): the final hidden states, row by row of the whole batch.
Results == IF plan # NoPlan THEN Scatter(x, plan.idx, plan.rows, Zero) ELSE x

\* Mutant: a step that is no long prefill clears the flag.
InPrefillAfterEager(rows, longest) == rows > DecodeRows /\ longest >= LongTokens

\* state["in_prefill"] after a step whose largest share is `rows` and whose
\* longest sequence is `longest`.
InPrefillAfter(rows, longest) ==
  IF rows <= DecodeRows THEN FALSE ELSE inPrefill \/ longest >= LongTokens

\* The hook of execute_model: MemAvailable is above the limit or not.
EmptyCache ==
  LET rows == Max({batch[i].n : i \in DOMAIN batch})
      longest == Max({batch[i].start + batch[i].n : i \in DOMAIN batch})
  IN /\ inPrefill' = InPrefillAfter(rows, longest)
     /\ decodeSteps' = IF rows <= DecodeRows THEN AtMost(decodeSteps + 1, 2) ELSE 0
     /\ \E headroom \in BOOLEAN :
          held' = IF rows <= DecodeRows THEN held /\ ~(inPrefill /\ config.release)
                  ELSE IF longest >= LongTokens THEN headroom ELSE held

\* Sampling and update_from_output: a request that is through its prefill gets a
\* token, and one for each accepted draft.
Sampled(e, accepted) ==
  IF ~e.prefilling THEN accepted + 1 ELSE IF e.start + e.n = e.prefill THEN 1 ELSE 0

Finish ==
  /\ at = "finish" /\ at' = "schedule"
  /\ EmptyCache
  /\ \E accepted \in [DOMAIN batch -> 0..Drafts] :
       /\ \A i \in DOMAIN batch :
            accepted[i] <= (IF batch[i].prefilling THEN 0 ELSE batch[i].n - 1)
       /\ LET Of(r) == CHOOSE i \in DOMAIN batch : batch[i].r = r
              ran == {batch[i].r : i \in DOMAIN batch}
              kept == [r \in Requests |->
                         IF r \notin ran THEN computed[r]
                         ELSE IF batch[Of(r)].prefilling THEN computed[r] + batch[Of(r)].n
                         ELSE computed[r] + accepted[Of(r)] + 1]
              length == [r \in Requests |->
                           IF r \notin ran THEN tokens[r]
                           ELSE tokens[r] + Sampled(batch[Of(r)], accepted[Of(r)])]
              over == {r \in ran : length[r] >= Prompt[r] + MaxNew}
          IN /\ tokens' = [r \in Requests |-> AtMost(length[r], Prompt[r] + MaxNew)]
             /\ computed' = kept
             /\ life' = [r \in Requests |-> IF r \in over THEN "done" ELSE life[r]]
             /\ running' = Without(running, over)
             \* drafts that were rejected leave nothing to be counted on
             /\ kv' = [r \in Requests |-> kv[r] \cap 0..(kept[r] - 1)]
             /\ swa' = [r \in Requests |-> swa[r] \cap 0..(kept[r] - 1)]
  /\ batch' = <<>> /\ x' = <<>> /\ current' = "full" /\ skip' = SkipAfter
  /\ UNCHANGED <<config, waiting, prefill, logprobs, preempts, graph, primary, shadow, plan>>

Step == Schedule \/ Attach \/ Encode \/ Boundary \/ Finish

Next == \/ Step
        \/ Preempt
        \/ \E r \in Requests : AddRequest(r) \/ Abort(r)

Spec == Init /\ [][Next]_vars
FairSpec == Spec /\ WF_vars(Step)
-----------------------------------------------------------------------------
(* Type invariant. *)
TypeOK ==
  /\ config \in Configs
  /\ life \in [Requests -> {"new", "waiting", "running", "done", "refused"}]
  /\ \A r \in Requests : /\ (life[r] = "running") <=> (r \in ToSet(running))
                         /\ (life[r] = "waiting") <=> (r \in ToSet(waiting))
                         /\ tokens[r] \in Prompt[r]..(Prompt[r] + MaxNew)
                         /\ life[r] = "running" => computed[r] \in 0..(tokens[r] - 1)
                         /\ prefill[r] \in Prompt[r]..tokens[r]
  /\ logprobs \in [Requests -> BOOLEAN] /\ preempts \in 0..MaxPreempts
  /\ at \in {"schedule", "attach", "encode", "boundary", "finish", "raised"}
  /\ at \in {"attach", "encode", "boundary", "finish"} =>
       Len(RowsOfBatch(batch)) \in 1..config.budget
  /\ graph \in BOOLEAN /\ current \in {"full", "decoder"} /\ skip \in BOOLEAN
  /\ inPrefill \in BOOLEAN /\ held \in BOOLEAN /\ decodeSteps \in 0..2

(* The rows that are sampled from, and every row of a request that wants the    *)
(* log probabilities of its prompt, come back with the hidden state of their    *)
(* own position: gather, placeholder rows and scatter fit together, whatever    *)
(* the batch mixes (build_keep_plan, StepPlan.finish).                          *)
LogitsReal ==
  at = "finish" =>
    LET results == Results IN
    \A i \in DOMAIN batch :
      LET e == batch[i]
          wanted == IF ~e.prefilling \/ logprobs[e.r] THEN 1..e.n
                    ELSE IF e.start + e.n = e.prefill THEN {e.n} ELSE {}
      IN \A j \in wanted : StartLoc(batch, i) + j \in DOMAIN results
                           /\ results[StartLoc(batch, i) + j] = <<e.r, e.start + j - 1>>

(* Every computed position of a running request went through the boundary       *)
(* layer's compressor exactly once, although truncated steps do that work       *)
(* outside attention and tell attention to skip it (_dsv41_yoco_skip_kv).        *)
KvComplete ==
  at = "schedule" => \A r \in ToSet(running) : 0..(computed[r] - 1) \subseteq kv[r]

(* No decoder row attends to a row that the decoder did not store for its own   *)
(* request, in batches of any mixture (clamp_swa_rows, need_eager).              *)
DecoderReadsGood ==
  at = "boundary" =>
    LET rows == Split
        stored == Stored
    IN \A i \in DOMAIN rows : \A p \in Visible(rows[i]) :
         p \in swa[rows[i][1]] \/ <<rows[i][1], p>> \in stored

(* What a step leaves in the caches is all that later steps read of them.        *)
CachesRight == KvComplete /\ DecoderReadsGood

(* The layers below the boundary run under metadata that describe every row,     *)
(* although the decoder's were built before them (_shadow_groups).               *)
EncoderSeesAll ==
  at \in {"encode", "boundary"} => RowsOfBatch(Metadata(current)) = x

(* A plan is used once, by the forward of its own step, and never in a graph:    *)
(* the checks in begin() do not fire.                                           *)
NeverRaises == at # "raised"

(* The plan and the metadata of the model runner fit the step that uses them.    *)
PlansFit == TypeOK /\ EncoderSeesAll /\ NeverRaises

(* While a request decodes, a peer that is still in its prompt gets at most the  *)
(* capped chunk, in the step that admits it as well.                             *)
FloorHeld ==
  (at = "attach" /\ config.mixed >= 0 /\ \E i \in DOMAIN batch : ~batch[i].prefilling) =>
    \A i \in DOMAIN batch :
      batch[i].start < Prompt[batch[i].r] => batch[i].n <= config.mixed

(* With DSV41_PREFILL_END_EMPTY_CACHE, no decode step but the first after a long *)
(* prefill runs beside its transients, whatever short prefills, aborts and       *)
(* preemptions came between.                                                    *)
HandoverReleased == (config.release /\ decodeSteps >= 1) => ~held

(* Every request that was accepted is answered or given up: no policy, budget    *)
(* or preemption keeps one waiting for ever.                                     *)
Answered == \A r \in Requests : life[r] \in {"waiting", "running"} ~> life[r] = "done"

-----------------------------------------------------------------------------
(* What ServeLoopProofs shows every step to keep, and the properties follow     *)
(* from.                                                                        *)
InStep == at \in {"attach", "encode", "boundary", "finish"}

\* A request is in a queue once.
QueueInv ==
  /\ running \in Seq(Requests) /\ waiting \in Seq(Requests)
  /\ IsInjective(running) /\ IsInjective(waiting)

\* A running request is in its prefill or has one token that is not computed.
TokenInv ==
  /\ tokens \in [Requests -> Nat] /\ computed \in [Requests -> Nat] /\ prefill \in [Requests -> Nat]
  /\ kv \in [Requests -> SUBSET Nat] /\ swa \in [Requests -> SUBSET Nat]
  /\ \A r \in Requests :
       /\ logprobs[r] /\ Yoco => life[r] = "refused"
       /\ life[r] = "running" =>
            IF computed[r] < prefill[r] THEN prefill[r] = tokens[r] ELSE computed[r] = tokens[r] - 1

\* The step continues its requests where they stand, each once, and takes no row beyond
\* a prefill.
Entries == [r : Requests, n : Nat, start : Nat, prefill : Nat, prefilling : BOOLEAN]
BatchInv ==
  InStep =>
    /\ batch \in Seq(Entries)
    /\ \A i \in DOMAIN batch :
         LET e == batch[i]
         IN /\ life[e.r] = "running" /\ e = Entry(e.r, computed[e.r], prefill[e.r], e.n)
            /\ e.n >= 1 /\ e.n <= (IF e.prefilling THEN e.prefill - e.start ELSE 1 + Drafts)
    /\ \A i, j \in DOMAIN batch : batch[i].r = batch[j].r => i = j

\* A step with a truncated request has its own plan, and no other step has one.
PlanInv ==
  /\ ~skip
  /\ at \in {"encode", "boundary"} =>
       current = "full" /\ primary = Full(batch) /\ x = RowsOfBatch(batch)
  /\ at \in {"encode", "boundary", "finish"} =>
       IF NeedEager(batch)
       THEN ~graph /\ shadow = Compact(batch, config.keep)
            /\ plan = [NewPlan(batch) EXCEPT !.used = (at # "encode")]
       ELSE plan = NoPlan
  /\ at = "finish" =>
       x = IF NeedEager(batch) THEN Gather(RowsOfBatch(batch), KeepIdx(batch, config.keep))
           ELSE RowsOfBatch(batch)

\* What the caches hold of a request: the compressor saw all it has computed, and the
\* decoder all but what the truncation leaves out.
Low(r) == IF Yoco /\ prefill[r] > config.keep THEN prefill[r] - config.keep ELSE 0
CacheInv ==
  /\ \A r \in Requests : life[r] = "running" =>
       0..(computed[r] - 1) \subseteq kv[r] /\ Low(r)..(computed[r] - 1) \subseteq swa[r]
  /\ at = "finish" =>
       \A i \in DOMAIN batch :
         LET e == batch[i]
         IN /\ e.start..(e.start + e.n - 1) \subseteq kv[e.r]
            /\ AtLeast(Low(e.r), e.start)..(e.start + e.n - 1) \subseteq swa[e.r]

\* Transients are held only where the hook knows of a long prefill.
HookInv == config.release /\ held => inPrefill

IInv == /\ TypeOK /\ QueueInv /\ TokenInv /\ BatchInv /\ PlanInv /\ CacheInv /\ HookInv
        /\ NeverRaises /\ FloorHeld /\ HandoverReleased
=============================================================================
