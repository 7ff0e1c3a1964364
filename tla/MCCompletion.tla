----------------------------- MODULE MCCompletion -----------------------------
(* Characters and ids are strings: the base vocabulary has an id for each       *)
(* character, and the pieces lPD, Pc, eq and fs; the control tokens are        *)
(* <think> (t), </think> (ef), the DSML token (PDP) and the end (<P>).           *)
EXTENDS Completion

MCAdded == {"T", "E", "M", "EOS"}
MCIds == MCAdded \cup {"l", "P", "D", "c", "t", "e", "f", "s", "x", "<", ">", "lPD", "Pc", "xe", "fs"}
MCText == [id \in MCIds |->
  CASE id = "T" -> <<"t">> [] id = "E" -> <<"e", "f">> [] id = "M" -> <<"P", "D", "P">>
    [] id = "EOS" -> <<"<", "P", ">">>
    [] id = "lPD" -> <<"l", "P", "D">> [] id = "Pc" -> <<"P", "c">>
    [] id = "xe" -> <<"x", "e">> [] id = "fs" -> <<"f", "s">>
    [] OTHER -> <<id>>]
MCMarker == <<"l", "P", "D", "P", "c">>
\* A value: x, or a list of them between l and c.
MCRules == [begin |-> [x |-> "value", l |-> "list"], list |-> [x |-> "list", c |-> "value"],
            value |-> [EOS |-> "over"]]

Quiet == [contents |-> {<<"x">>}, thinking |-> FALSE, stop |-> <<>>, grammar |-> FALSE, ignoreEos |-> FALSE]
Scenario(ids0, length, chunk) == [ids |-> ids0, length |-> length, chunk |-> chunk] @@ Quiet
MCScenarios ==
  { \* prompts that quote control tokens
    [Scenario({"x"}, 1, 1) EXCEPT !.contents = {<<>>, <<"x">>, <<"t">>, <<"x", "e", "f">>, <<"P", "D", "P", "t">>,
                                                <<"<", "P", ">">>, <<"P", "D">>}, !.thinking = TRUE],
    \* tool calls, real and quoted, with and without text held back
    Scenario({"l", "c", "lPD", "Pc", "M", "EOS"}, 5, 3),
    [Scenario({"l", "c", "lPD", "Pc", "M"}, 4, 2) EXCEPT !.stop = <<"x", "s">>],
    \* the end of the reasoning, quoted and not, and a stop string
    [Scenario({"e", "xe", "fs", "s", "x", "E"}, 5, 3) EXCEPT !.stop = <<"s", "x">>, !.thinking = TRUE],
    [Scenario({"e", "fs", "s", "x", "EOS"}, 4, 3) EXCEPT !.stop = <<"s", "x">>],
    \* quotes of everything in a whole completion
    [Scenario({"e", "f", "E", "EOS"}, 5, 5) EXCEPT !.thinking = TRUE, !.ignoreEos = TRUE],
    [Scenario({"<", "P", ">", "EOS"}, 5, 5) EXCEPT !.ignoreEos = TRUE],
    \* a grammar, with and without reasoning before it
    [Scenario({"x", "l", "c", "E", "EOS"}, 6, 3) EXCEPT !.thinking = TRUE, !.grammar = TRUE],
    [Scenario({"x", "l", "c", "EOS"}, 5, 3) EXCEPT !.grammar = TRUE, !.ignoreEos = TRUE] }
=============================================================================
