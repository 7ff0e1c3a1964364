----------------------------- MODULE MCNodeBoot -----------------------------
(* The image of the checkout with one drift, and an older one, for TLC. *)
EXTENDS NodeBoot

\* One drift at a time, of the kinds its script tells apart.
MCDrifts ==
    {<<<<"suppress", "detokenizer", "all">>, k>> : k \in {"gone", "twice"}}
    \cup {<<<<"xgrammar", f, "all">>, k>> : f \in {"backend_xgrammar", "structured_output"},
                                            k \in {"gone", "twice", "upstream", "nofile"}}
    \cup {<<<<"spinwait", "shm_broadcast", "all">>, k>> : k \in {"gone", "twice"}}
    \cup {<<EncoderCheck, "gone">>,
          <<<<"effort", "deepseek_v41_encoding", "all">>, "upstream">>,
          <<<<"lm_head", "attention", "score">>, "gone">>,
          <<<<"lm_head", "model", "suffix">>, "gone">>,
          <<<<"lm_head", "o_proj", "bmm">>, "twice">>,
          <<<<"lm_head", "dspark", "slice">>, "nofile">>,
          <<<<"engram_secondary", "default_loader", "all">>, "nofile">>,
          <<<<"h2d_stage", "weight_utils", "all">>, "gone">>,
          <<<<"sm120", "attention", "lock">>, "gone">>,
          <<<<"swa", "kv_cache_manager", "all">>, "twice">>,
          <<<<"yoco", "model_state", "all">>, "gone">>}

\* This Dockerfile, and one from before the last five scripts.
MCOmitted == {{}, {"h2d_stage", "sm120", "memory_log", "yoco", "swa"}}

\* Both optional scripts on, each of them alone, none.
MCSettings == {[swa |-> "keep", yoco |-> "compact", spin |-> "ms"],
               [swa |-> "keep", yoco |-> "off", spin |-> "stock"],
               [swa |-> "off", yoco |-> "compact", spin |-> "ms"],
               [swa |-> "off", yoco |-> "off", spin |-> "stock"]}
=============================================================================
