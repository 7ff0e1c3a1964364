------------------------------ MODULE PatchSet ------------------------------
(***************************************************************************)
(* The scripts of overlay/patch_*.py that edit the installed vLLM package. *)
(* Every script is a record: which edits it makes in which files, how it   *)
(* tells that an edit is already there, and whether one missing anchor     *)
(* keeps it from writing anything (whole) or only from writing that part.  *)
(* The package is a text: for every edit how often its anchor and its      *)
(* replacement occur, the marks the scripts leave, the files a killed      *)
(* write truncated and the files the image does not have.                  *)
(***************************************************************************)
EXTENDS Naturals, Sequences

\* The edits of one script that stand or fall together in one file.
Piece(file, edits) == [file |-> file, edits |-> edits]
Each(files) == [i \in DOMAIN files |-> Piece(files[i], {"all"})]

\* present: how a finished edit is recognised. "mark": a comment of the
\* script's own in the file; "text": the replacement itself; "verified": every
\* replacement once and no anchor, with or without the mark; "scan": the
\* replacement, and an anchor that is not there is passed over in silence.
Patch(name, present, whole, parts) ==
    [name |-> name, present |-> present, whole |-> whole, parts |-> parts]

Suppress    == Patch("suppress", "mark", TRUE, Each(<<"detokenizer">>))
DecodeFloor == Patch("decode_floor", "mark", TRUE, Each(<<"scheduler">>))
Grammar     == Patch("xgrammar", "verified", TRUE,
                     Each(<<"backend_xgrammar", "structured_output">>))
Spinwait    == Patch("spinwait", "verified", TRUE, Each(<<"shm_broadcast">>))
Responses   == Patch("responses", "text", TRUE, Each(<<"deepseek_v41">>))
Effort      == Patch("effort", "text", TRUE, Each(<<"deepseek_v41_encoding">>))
ControlGuard == Patch("control_tokens", "mark", TRUE, Each(<<"deepseek_v41">>))
OutputSplit == Patch("output_split", "mark", TRUE, Each(<<"abstract_parser">>))
Overrides   == Patch("overrides", "scan", FALSE, Each(<<"config_model">>))
PackedNames == Patch("packed_names", "scan", FALSE, Each(<<"packed_map">>))
LmHead      == Patch("lm_head", "scan", FALSE,
                     <<Piece("attention", {"score", "wk"}),
                       Piece("compressor", {"quant"}),
                       Piece("dspark", {"slice"}),
                       Piece("model", {"ctor", "suffix", "slice"}),
                       Piece("vl_model", {"suffix"}),
                       Piece("o_proj", {"exl3", "bmm"})>>)
EngramSecondary == Patch("engram_secondary", "mark", FALSE,
                         Each(<<"model", "vl_model", "default_loader">>))
EngramFile  == Patch("engram_file", "mark", FALSE, Each(<<"engram">>))
H2dStage    == Patch("h2d_stage", "mark", FALSE,
                     Each(<<"weight_utils", "linear", "vocab_parallel_embedding",
                            "model", "dspark">>))
Sm120       == Patch("sm120", "text", FALSE,
                     <<Piece("attention", {"blocks"}), Piece("attention", {"width"}),
                       Piece("attention", {"lock"}), Piece("sparse_swa", {"meta"}),
                       Piece("attention", {"gather"}), Piece("warmup", {"shape"}),
                       Piece("model", {"buffers"}), Piece("mtp", {"buffers"}),
                       Piece("engram", {"buffers"}), Piece("indexer", {"chunk"}),
                       Piece("sparse_attn_indexer", {"logits"}),
                       Piece("kpool", {"logits"}), Piece("indexer", {"blocks"}),
                       Piece("flashinfer_sparse", {"blocks"})>>)
MemoryLog   == Patch("memory_log", "mark", FALSE, Each(<<"gpu_worker">>))
SwaFinal    == Patch("swa", "mark", TRUE,
                     Each(<<"single_type_kv_cache_manager", "kv_cache_manager">>))
Yoco        == Patch("yoco", "mark", TRUE,
                     Each(<<"model", "attention", "model_state", "kv_cache_manager",
                            "single_type_kv_cache_manager", "input_processor",
                            "model_runner">>))

Patches == {Suppress, DecodeFloor, Grammar, Spinwait, Responses, Effort, ControlGuard,
            OutputSplit, Overrides, PackedNames, LmHead, EngramSecondary, EngramFile,
            H2dStage, Sm120, MemoryLog, SwaFinal, Yoco}

PartEdits(p, q) == {<<p.name, q.file, l>> : l \in q.edits}
Edits(p) == UNION {PartEdits(p, p.parts[i]) : i \in DOMAIN p.parts}

\* What the control-token guard requires of the encoder it does not edit: every
\* control token is a constant of the module.
EncoderCheck == <<"control_tokens", "deepseek_v41_encoding", "constants">>

AllEdits == {EncoderCheck} \cup UNION {Edits(p) : p \in Patches}
Files == {e[2] : e \in AllEdits}

\* Edits whose replacement still contains every anchor of theirs (they insert,
\* or they append a footer): nothing but the presence check keeps a second run
\* from inserting once more.
Keeps == {<<"lm_head", "model", "slice">>, <<"lm_head", "dspark", "slice">>,
          <<"lm_head", "o_proj", "bmm">>, <<"engram_secondary", "model", "all">>,
          <<"engram_secondary", "vl_model", "all">>, <<"engram_file", "engram", "all">>,
          <<"memory_log", "gpu_worker", "all">>, <<"yoco", "model_state", "all">>,
          <<"yoco", "input_processor", "all">>, <<"swa", "kv_cache_manager", "all">>,
          <<"swa", "single_type_kv_cache_manager", "all">>}

\* Edits another script edits again: the replacement of the first is the anchor
\* of the second, and once that is made the first is no longer found.
Rewritten == {<<<<"lm_head", "attention", "score">>, <<"yoco", "attention", "all">>>>}

-----------------------------------------------------------------------------
\* The package as the base image has it, but for the drift <<edit, kind>>: the
\* anchor is gone, there twice, replaced upstream, or the file is not there.
Base(drift) ==
    LET at(kind) == {d[1] : d \in {x \in drift : x[2] = kind}}
        absent == {e[2] : e \in at("nofile")}
    IN [anchor |-> [e \in AllEdits |->
                      IF e[2] \in absent \/ e \in at("gone") \cup at("upstream") THEN 0
                      ELSE IF e \in at("twice") THEN 2 ELSE 1],
        put    |-> [e \in AllEdits |-> IF e \in at("upstream") THEN 1 ELSE 0],
        mark   |-> {},
        absent |-> absent,
        torn   |-> {}]

\* Bug: an edit counts as made when its anchor is gone.
VisibleByAnchor(t, e) == t.anchor[e] = 0

\* The replacement of e is found in the text.
Visible(t, e) ==
    t.put[e] > 0 /\ \A r \in Rewritten : r[1] = e => t.put[r[2]] = 0

\* The scripts that do not count their anchors.
Loose(p) == p.name \in {"suppress", "packed_names", "overrides"}
Anchored(t, p, e) ==
    /\ IF Loose(p) THEN t.anchor[e] > 0 ELSE t.anchor[e] = 1
    /\ \A r \in Rewritten : r[2] = e => t.put[r[1]] = 1

\* Bug: the mark in the first file stands for all of them.
MarkedFirst(t, p, q) == <<p.name, p.parts[1].file>> \in t.mark

Marked(t, p, q) == <<p.name, q.file>> \in t.mark

\* Nothing is left to do for part q.
Done(t, p, q) ==
    /\ q.file \notin t.absent
    /\ CASE p.present = "mark"     -> Marked(t, p, q)
         [] p.present = "text"     -> \A e \in PartEdits(p, q) : Visible(t, e)
         [] p.present = "verified" -> \A e \in PartEdits(p, q) :
                                          t.put[e] = 1 /\ t.anchor[e] = 0
         [] p.present = "scan"     -> \A e \in PartEdits(p, q) :
                                          Visible(t, e) \/ t.anchor[e] = 0

\* The edits a run writes for part q: all of them, or those a scan finds.
FoundIn(t, p, q) ==
    IF p.present = "scan"
    THEN {e \in PartEdits(p, q) : ~Visible(t, e) /\ t.anchor[e] > 0}
    ELSE PartEdits(p, q)

Ready(t, p, q) ==
    /\ q.file \notin t.absent
    /\ \A e \in FoundIn(t, p, q) : Anchored(t, p, e)
    /\ p.present = "verified" =>
         ~Marked(t, p, q) /\ \A e \in PartEdits(p, q) : t.put[e] = 0

\* A part the script can neither find done nor do. A scan takes its files from a
\* directory listing, so it does not miss one that is not there.
Missing(t, p) ==
    {i \in DOMAIN p.parts :
        /\ ~Done(t, p, p.parts[i])
        /\ ~Ready(t, p, p.parts[i])
        /\ ~(p.present = "scan" /\ p.parts[i].file \in t.absent)}

\* check_encoder_source; an empty file has no control token to complain of.
Refused(t, p) ==
    /\ p = ControlGuard
    /\ \/ EncoderCheck[2] \in t.absent
       \/ EncoderCheck[2] \notin t.torn /\ t.anchor[EncoderCheck] # 1

\* A scan of the head that finds nothing to write in a file whose mapper still
\* sends head.weight nowhere complains.
HeadUnmapped(t, p) ==
    /\ p = LmHead
    /\ \E i \in DOMAIN p.parts :
         /\ "suffix" \in p.parts[i].edits
         /\ p.parts[i].file \notin t.absent \cup t.torn
         /\ Done(t, p, p.parts[i])
         /\ t.put[<<p.name, p.parts[i].file, "suffix">>] = 0

\* The script exits with an error (engram_secondary only warns of a file that is
\* not there).
Fails(t, p) ==
    \/ Refused(t, p)
    \/ HeadUnmapped(t, p)
    \/ \E i \in Missing(t, p) :
         ~(p = EngramSecondary /\ p.parts[i].file \in t.absent)

\* Bug: each file is written as soon as it is ready.
TodoEach(t, p) ==
    IF Refused(t, p) THEN {}
    ELSE {i \in DOMAIN p.parts :
             /\ ~Done(t, p, p.parts[i]) /\ Ready(t, p, p.parts[i])
             /\ FoundIn(t, p, p.parts[i]) # {}}

\* The parts one run of p writes.
Todo(t, p) ==
    IF Refused(t, p) \/ (p.whole /\ Missing(t, p) # {}) THEN {}
    ELSE {i \in DOMAIN p.parts :
             /\ ~Done(t, p, p.parts[i]) /\ Ready(t, p, p.parts[i])
             /\ FoundIn(t, p, p.parts[i]) # {}}

\* Its writes, each of a whole file, in the order of the parts.
WriteOf(t, p, i) ==
    [patch |-> p.name, file |-> p.parts[i].file, edits |-> FoundIn(t, p, p.parts[i]),
     marks |-> p.present \in {"mark", "verified"}]
Writes(t, p) == [i \in Todo(t, p) |-> WriteOf(t, p, i)]

\* write_text, or a temporary file renamed over the target (replace_file).
Atomic(w) == w.patch \in {"xgrammar", "spinwait"}

\* Copies of a replacement are counted up to three.
Cap(n) == IF n > 3 THEN 3 ELSE n
Put(t, w) ==
    [t EXCEPT
        !.put = [e \in AllEdits |-> IF e \in w.edits THEN Cap(t.put[e] + 1) ELSE t.put[e]],
        !.anchor = [e \in AllEdits |->
                      IF e \notin w.edits \ Keeps THEN t.anchor[e]
                      ELSE IF w.patch = "packed_names" THEN 0 ELSE t.anchor[e] - 1],
        !.mark = IF w.marks THEN @ \cup {<<w.patch, w.file>>} ELSE @]

\* A write_text that was killed after it truncated the file.
Tear(t, file) ==
    [t EXCEPT !.put = [e \in AllEdits |-> IF e[2] = file THEN 0 ELSE t.put[e]],
              !.anchor = [e \in AllEdits |-> IF e[2] = file THEN 0 ELSE t.anchor[e]],
              !.mark = {m \in @ : m[2] # file},
              !.torn = @ \cup {file}]
=============================================================================
