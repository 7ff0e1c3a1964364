---------------------------- MODULE MCServeLoop ----------------------------
(* Two requests, one shorter and one longer than the tokens that a truncated   *)
(* prefill keeps, under settings of the three overlays.                   *)
EXTENDS ServeLoop

CONSTANTS p, q
MCRequests == {p, q}
MCPrompt == [r \in MCRequests |-> IF r = p THEN 2 ELSE 6]
MCConfigs == [mixed : {-1, 2}, keep : {4}, release : {TRUE}, budget : {8}]
               \cup [mixed : {-1, 0}, keep : {4}, release : {TRUE}, budget : {4}]
               \cup [mixed : {2}, keep : {0}, release : {FALSE}, budget : {4}]
=============================================================================
