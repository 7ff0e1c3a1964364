------------------------------ MODULE Completion ------------------------------
(***************************************************************************)
(* One request from its prompt to its last delta, through the overlays that   *)
(* meet there: the prompt's encoding (patch_control_token_injection.py), the  *)
(* grammar that speculative tokens pass (patch_xgrammar_termination.py), the  *)
(* stop strings (patch_suppress_stops_in_reasoning.py) and the parser's view  *)
(* of the text (patch_output_token_split.py).                                *)
(*                                                                         *)
(* A step drafts some tokens, checks them against the grammar, samples a     *)
(* chunk, and passes it to the detokenizer and the parser.                   *)
(***************************************************************************)
EXTENDS TokenSplit, FiniteSets

CONSTANTS Think, ThinkEnd, Eos,  \* control tokens
          Marker,   \* the string that opens a tool call, around one DSML token
          Dsml,     \* that token
          Rules,    \* the grammar: from a state and a token to a state
          Start, Terminated,
          Scenarios \* see below

\* A scenario: contents, of the user; thinking, what the template ends with; ids,
\* what the model may say, at most `length` of them, `chunk` in a step; stop, a
\* stop string or <<>>; grammar, whether one is asked for; ignoreEos.
ASSUME ScenarioAssumption ==
  /\ {Think, ThinkEnd, Eos, Dsml} \subseteq Added
  /\ \A s \in Scenarios : /\ s.contents \subseteq Seq(Alphabet)
                          /\ s.ids \subseteq Ids /\ s.length \in Nat /\ s.chunk \in Nat \ {0}
                          /\ s.stop \in Seq(Alphabet)
                          /\ {s.thinking, s.grammar, s.ignoreEos} \subseteq BOOLEAN

\* The template ends with a token that is the only one of its string, and no control
\* token goes on with its first character: what a user says cannot begin one that the
\* template ends.
ASSUME TemplateAssumption ==
  \A tail \in {Think, ThinkEnd}, id \in Added :
    /\ Text[id] = Text[tail] => id = tail
    /\ \A k \in 2..Len(Text[id]) : Text[id][k] # Text[tail][1]

ASSUME GrammarAssumption ==
  /\ Start \in DOMAIN Rules \ {Terminated}
  /\ \A state \in DOMAIN Rules : \A token \in DOMAIN Rules[state] :
       Rules[state][token] \in DOMAIN Rules \cup {Terminated}

VARIABLES
  scenario, content, prompt,
  place,     \* "draft", "check", "sample" or "finished"
  reasoning, \* the structured-output manager has not seen the end of the reasoning
  \* XgrammarGrammar
  path,      \* the states of the matcher, the last one the present
  ended,     \* _is_terminated
  drafts,    \* scheduled_spec_decode_tokens
  refused,   \* a token was refused: "Failed to advance FSM", or the assertion
  \* the output
  ids,
  text,      \* output_text
  guard, closed,  \* _reasoning_stop_guard and _reasoning_closed
  cut,       \* a stop string ended the request: its place in the text, or 0
  \* DelegatingParser.parse_delta
  stream, sent, fed, shown, \* characters passed on; as the parser reads them; as the client does
  asIs       \* a delta was left as it is

grammar == <<reasoning, path, ended, drafts, refused>>
output == <<ids, text, closed, cut, stream, sent, fed, shown, asIs>>
rvars == <<scenario, content, prompt, place, guard, grammar, output>>

Later(a, b) == IF a < b THEN b ELSE a

Tail1 == IF scenario.thinking THEN Think ELSE ThinkEnd
Texts(c) == <<c, <<>>>>

-----------------------------------------------------------------------------
(* The prompt, and what the detokenizer makes of it.                         *)

\* _maybe_enable_reasoning_stop_guard
Armed(stop, promptIds) == stop # <<>> /\ promptIds # <<>> /\ Last(promptIds) = Think

RequestInit ==
  /\ scenario \in Scenarios /\ content \in scenario.contents
  /\ prompt = EncodePrompt(Texts(content), <<Tail1>>)
  /\ place = "draft" /\ reasoning = scenario.thinking
  /\ path = <<Start>> /\ ended = FALSE /\ drafts = <<>> /\ refused = FALSE
  /\ ids = <<>> /\ text = <<>> /\ guard = Armed(scenario.stop, prompt) /\ closed = FALSE /\ cut = 0
  /\ stream = NewStream /\ sent = 0 /\ fed = <<>> /\ shown = <<>> /\ asIs = FALSE

-----------------------------------------------------------------------------
(* XgrammarGrammar, over a matcher that refuses everything once terminated.   *)

Present(p) == p[Len(p)]
Accepts(p, token) == Present(p) # Terminated /\ token \in DOMAIN Rules[Present(p)]
Accept(p, token) == Append(p, Rules[Present(p)][token])

\* The tokens a matcher takes in sequence, up to its termination.
Taken(p, tokens) ==
  LET f[i \in 0..Len(tokens)] ==
        IF i = 0 THEN [p |-> p, n |-> 0, going |-> TRUE]
        ELSE IF f[i - 1].going /\ Accepts(f[i - 1].p, tokens[i])
             THEN [p |-> Accept(f[i - 1].p, tokens[i]), n |-> i,
                   going |-> Rules[Present(f[i - 1].p)][tokens[i]] # Terminated]
             ELSE [f[i - 1] EXCEPT !.going = FALSE]
  IN f[Len(tokens)]

\* accept_tokens: what is left after the termination is ignored.
Fails(p, done, tokens) ==
  ~done /\ LET t == Taken(p, tokens) IN t.n < Len(tokens) /\ Present(t.p) # Terminated
Advanced(p, done, tokens) == IF done THEN p ELSE Taken(p, tokens).p

\* validate_tokens: the accepted prefix; the matcher is rolled back.
Validated(p, done, tokens) == IF done THEN <<>> ELSE SubSeq(tokens, 1, Taken(p, tokens).n)

-----------------------------------------------------------------------------
(* The step.                                                                *)

Sequences(set, n) == UNION {[1..k -> set] : k \in 0..n}
Room == scenario.length - Len(ids)

\* The scheduler keeps of the drafts what the grammar would take.
Draft ==
  /\ place = "draft" /\ place' = "check"
  /\ \E tokens \in Sequences(scenario.ids, IF scenario.grammar THEN scenario.chunk - 1 ELSE 0) :
       drafts' = IF ~scenario.grammar \/ reasoning THEN tokens ELSE Validated(path, ended, tokens)
  /\ UNCHANGED <<scenario, content, prompt, guard, reasoning, path, ended, refused, output>>

\* Mutant: as in the pinned image, a draft after the end of the reasoning is
\* advanced without being validated.
AdvanceDraftUnchecked(p, token, post) == [taken |-> Accepts(p, token), error |-> ~Accepts(p, token)]

\* One draft of the manager's window: whether the grammar takes it, and whether
\* anything is logged or asserted.  post: the reasoning ended within the window.
AdvanceDraft(p, token, post) ==
  IF post THEN LET valid == Validated(p, FALSE, <<token>>) # <<>>
               IN [taken |-> valid, error |-> valid /\ Fails(p, FALSE, <<token>>)]
  ELSE [taken |-> ~Fails(p, FALSE, <<token>>), error |-> Fails(p, FALSE, <<token>>)]

\* grammar_bitmask: the window advances the grammar draft by draft, and is rolled
\* back by the number it counted.
Speculate ==
  LET f[i \in 0..Len(drafts)] ==
        IF i = 0 THEN [p |-> path, done |-> ended, thinking |-> reasoning, n |-> 0, error |-> FALSE]
        ELSE LET w == f[i - 1] IN
             IF w.thinking THEN [w EXCEPT !.thinking = drafts[i] # ThinkEnd]
             ELSE IF w.done THEN w
             ELSE LET a == AdvanceDraft(w.p, drafts[i], reasoning)
                  IN [w EXCEPT !.p = IF a.taken THEN Accept(w.p, drafts[i]) ELSE w.p,
                               !.done = a.taken /\ Rules[Present(w.p)][drafts[i]] = Terminated,
                               !.n = IF a.taken THEN @ + 1 ELSE @,
                               !.error = @ \/ a.error]
  IN f[Len(drafts)]

RolledBack(w) == SubSeq(w.p, 1, Len(w.p) - w.n)

Check ==
  /\ place = "check" /\ place' = "sample"
  /\ IF scenario.grammar
     THEN /\ path' = RolledBack(Speculate) /\ ended' = (Present(path') = Terminated)
          /\ refused' = (refused \/ Speculate.error)
     ELSE UNCHANGED <<path, ended, refused>>
  /\ UNCHANGED <<scenario, content, prompt, guard, reasoning, drafts, output>>

\* The tokens after the end of the reasoning, and whether the bitmask lets a
\* chunk through.
After(tokens) ==
  LET ends == {i \in DOMAIN tokens : tokens[i] = ThinkEnd}
  IN IF ends = {} THEN <<>>
     ELSE SubSeq(tokens, (CHOOSE i \in ends : \A j \in ends : i <= j) + 1, Len(tokens))
AfterEnd(tokens) == IF reasoning THEN After(tokens) ELSE tokens
Allowed(tokens) ==
  scenario.grammar /\ ~ended =>
    LET t == Taken(path, AfterEnd(tokens)) IN t.n = Len(AfterEnd(tokens)) \/ Present(t.p) = Terminated

\* The chunk ends with the stop token, unless it is to be ignored.
Whole(tokens) == \A i \in 1..(Len(tokens) - 1) : tokens[i] # Eos \/ scenario.ignoreEos

-----------------------------------------------------------------------------
(* The detokenizer.                                                         *)

Find(word, in, from) ==
  LET places == {i \in from..Len(in) : At(word, in, i)}
  IN IF places = {} THEN 0 ELSE CHOOSE i \in places : \A j \in places : i <= j
AtLeast1(n) == IF n < 1 THEN 1 ELSE n

\* Mutant: only the new characters are searched.
CloseAtNew(t, offset) == Find(Text[ThinkEnd], t, offset + 1)
\* Where the reasoning closes in a text of which `offset` characters were checked
\* before: a marker split over chunks is found from the window's start.
CloseAt(t, offset) == Find(Text[ThinkEnd], t, AtLeast1(offset - Len(Text[ThinkEnd]) + 2))
\* The offset from which stop strings count: past the marker when the reasoning
\* closes in this chunk, nowhere while it is open.
CheckFrom(t, offset) ==
  IF guard /\ ~closed
  THEN IF CloseAt(t, offset) = 0 THEN Len(t)
       ELSE Later(offset, CloseAt(t, offset) + Len(Text[ThinkEnd]) - 1)
  ELSE offset

\* check_stop_strings: a match that ends among the characters after the offset.
StopAt(t, from) ==
  IF scenario.stop = <<>> \/ from >= Len(t) THEN 0
  ELSE Find(scenario.stop, t, AtLeast1(from - Len(scenario.stop) + 2))

\* get_next_output_text: with a stop string some characters are held back.
Buffer == IF scenario.stop = <<>> THEN 0 ELSE Len(scenario.stop) - 1

Sample ==
  /\ place = "sample"
  /\ \E tokens \in Sequences(scenario.ids, scenario.chunk) :
       LET eos == Last(tokens) = Eos /\ ~scenario.ignoreEos
           new == text \o Decode(IF eos THEN Front(tokens) ELSE tokens)
           stop == StopAt(new, CheckFrom(new, Len(text)))
           over == eos \/ stop > 0 \/ Len(ids) + Len(tokens) = scenario.length
           out == IF stop > 0 THEN SubSeq(new, 1, stop - 1) ELSE new
           upto == IF over THEN Len(out) ELSE Later(sent, Len(out) - Buffer)
           delta == SubSeq(out, sent + 1, upto)
           hid == HideDelta(stream, delta, tokens)
       IN /\ tokens # <<>> /\ Len(tokens) <= Room /\ Whole(tokens) /\ Allowed(tokens)
          /\ drafts = <<>> \/ ~scenario.grammar \/ Len(tokens) <= Len(drafts) + 1
          /\ ids' = ids \o tokens /\ text' = out /\ cut' = stop
          /\ closed' = (closed \/ (guard /\ CloseAt(new, Len(text)) > 0))
          /\ stream' = hid.stream /\ sent' = upto /\ fed' = fed \o hid.text
          /\ shown' = shown \o Unhide(hid.stream, hid.text)
          /\ asIs' = (asIs \/ hid.asIs)
          /\ path' = (IF scenario.grammar THEN Advanced(path, ended, AfterEnd(tokens)) ELSE path)
          /\ ended' = (ended \/ (scenario.grammar /\ Present(path') = Terminated))
          /\ refused' = (refused \/ (scenario.grammar /\ Fails(path, ended, AfterEnd(tokens))))
          /\ reasoning' = (reasoning /\ ThinkEnd \notin ToSet(tokens))
          /\ drafts' = <<>> /\ place' = IF over THEN "finished" ELSE "draft"
  /\ UNCHANGED <<scenario, content, prompt, guard>>

RequestNext == Draft \/ Check \/ Sample
RequestSpec == RequestInit /\ [][RequestNext]_rvars
-----------------------------------------------------------------------------
Said == IF ids # <<>> /\ Last(ids) = Eos /\ ~scenario.ignoreEos THEN Front(ids) ELSE ids
Whole0 == Decode(Said)
StartsOf(id) == {Len(Decode(SubSeq(ids, 1, k - 1))) + 1 : k \in {j \in DOMAIN ids : ids[j] = id}}

RequestTypes ==
  /\ place \in {"draft", "check", "sample", "finished"} /\ {reasoning, ended, refused, guard, closed, asIs} \subseteq BOOLEAN
  /\ ids \in Seq(scenario.ids) /\ IsPrefix(text, Whole0)
  /\ sent <= Len(text) /\ Len(fed) = sent /\ Len(shown) = sent /\ stream.seen = sent
  /\ stream.active => stream.end + Len(Decode(stream.run)) = Len(Decode(ids))

\* "Control tokens to the positions the V4.1 encoder put them": whatever strings
\* the content holds, the prompt says the same and its control tokens are the
\* template's.
PromptFaithful ==
  /\ Decode(prompt) = content \o Text[Tail1]
  /\ {i \in DOMAIN prompt : prompt[i] \in Added} = {Len(prompt)} /\ Last(prompt) = Tail1

\* "A quote can never complete a marker", and a real call always does: the parser
\* of a stream finds the DSML markers of DSML tokens.  A delta is left as it is
\* only when a stop string holds text back or the stop token ends the stream.
Found == {i \in DOMAIN fed : At(Marker, fed, i)}
Real == {i \in DOMAIN fed : At(Marker, SubSeq(text, 1, sent), i) /\ i + 1 \in StartsOf(Dsml)}
StreamMarkers ==
  /\ Real \subseteq Found
  /\ asIs \/ Found \subseteq Real
  /\ asIs => scenario.stop # <<>> \/ place = "finished"

\* The client of a stream reads the text, quotes included.
StreamRestored == shown = SubSeq(text, 1, sent)

\* Parsed as a whole, a completion has its reasoning, its content and its calls
\* where its tokens put them, not where its text does.
Origin ==
  LET f[i \in 0..Len(Said)] ==
        IF i = 0 THEN <<>>
        ELSE f[i - 1] \o [j \in DOMAIN Text[Said[i]] |->
                            [c |-> Text[Said[i]][j], masked |-> Said[i] \notin Added]]
  IN SubSeq(f[Len(Said)], 1, Len(text))
Chars(m) == [i \in DOMAIN m |-> m[i].c]
ControlAt(word, m, i) == At(word, Chars(m), i) /\ \A j \in i..(i + Len(word) - 1) : ~m[j].masked
Ends(m) == {i \in DOMAIN m : ControlAt(Text[ThinkEnd], m, i)}
Parse(m) ==
  LET first == IF Ends(m) = {} THEN Len(m) ELSE (CHOOSE i \in Ends(m) : \A j \in Ends(m) : i <= j) - 1
  IN [reasoning |-> IF scenario.thinking THEN SubSeq(Chars(m), 1, first) ELSE <<>>,
      ends |-> Ends(m), dropped |-> {i \in DOMAIN m : ControlAt(Text[Eos], m, i)},
      calls |-> {i \in DOMAIN m : At(Marker, Chars(m), i) /\ ControlAt(Text[Dsml], m, i + 1)}]
ParsedByTokens == place = "finished" => Parse(SplitText(text, ids)) = Parse(Origin)

\* The parser goes by the tokens, in a stream and at the end, and the client reads
\* the text.
OutputFaithful == StreamMarkers /\ StreamRestored /\ ParsedByTokens

\* "Keep client stop strings dormant until </think>": a request that started in
\* its reasoning is not cut before it closed.
Closing == Find(Text[ThinkEnd], Whole0, 1)
StopDormant ==
  guard /\ cut > 0 => Closing > 0 /\ cut + Len(scenario.stop) > Closing + Len(Text[ThinkEnd])

\* And no stop string after it goes by, wherever the chunks split it or the marker.
StopNotMissed ==
  scenario.stop # <<>> /\ cut = 0 =>
    LET from == IF ~guard THEN 1 ELSE Closing + Len(Text[ThinkEnd])
    IN (guard /\ Closing = 0) \/ Find(scenario.stop, Whole0, from) = 0

\* The stop strings act on the content, and on all of it.
StopRight == StopDormant /\ StopNotMissed

\* No draft and no sampled token ever fails to advance the grammar.
NeverRefused == ~refused

\* Between steps the matcher stands where the tokens after the reasoning lead it,
\* and the cached flag agrees with it.
Spoken == IF scenario.thinking THEN After(ids) ELSE ids
GrammarFollows ==
  scenario.grammar => path = Taken(<<Start>>, Spoken).p /\ (ended <=> Present(path) = Terminated)

\* Speculation and the end of the reasoning leave the grammar where a matcher that
\* saw the content token by token would be.
GrammarRight == RequestTypes /\ NeverRefused /\ GrammarFollows

-----------------------------------------------------------------------------
\* What makes StopRight and GrammarRight inductive.

\* While the request runs its text is all that was said, and the detokenizer knows
\* whether the reasoning closed; a stop string leaves what is before it.
TextFacts ==
  /\ scenario \in Scenarios /\ ids \in Seq(scenario.ids) /\ {guard, closed} \subseteq BOOLEAN
  /\ place # "finished" => Said = ids /\ cut = 0 /\ (guard => (closed <=> Closing > 0))
  /\ IF cut = 0 THEN text = Whole0
     ELSE cut \in 1..Len(Whole0) /\ text = SubSeq(Whole0, 1, cut - 1)

\* What may be a stop string's beginning is not passed on; a stream whose hiding goes
\* on has counted the characters of every id.
Streams == [run : Seq(Ids), end : Nat, spans : SUBSET [at : Nat, id : Ids], seen : Nat,
            active : BOOLEAN, hidden : BOOLEAN]
SentFacts ==
  /\ sent \in Nat /\ sent <= Len(text)
  /\ place # "finished" => sent = 0 \/ sent <= Len(text) - Buffer
  /\ fed \in Seq(Alphabet \cup {Hide}) /\ shown \in Seq(Alphabet \cup {Hide, Pipe})
  /\ Len(fed) = sent /\ Len(shown) = sent /\ asIs \in BOOLEAN
  /\ stream \in Streams /\ stream.seen = sent
  /\ stream.active => stream.end + Len(Decode(stream.run)) = Len(Decode(ids))

\* The matcher took all that was said after the reasoning, or is done, and takes the
\* drafts it was asked about.
MatcherFacts ==
  /\ path \in Seq(DOMAIN Rules \cup {Terminated}) /\ path # <<>>
  /\ {ended, refused} \subseteq BOOLEAN /\ ~refused
  /\ reasoning \in BOOLEAN /\ (reasoning <=> scenario.thinking /\ ThinkEnd \notin ToSet(ids))
  /\ drafts \in Seq(scenario.ids)
  /\ GrammarFollows
  /\ scenario.grammar => ended \/ Taken(<<Start>>, Spoken).going
  /\ (scenario.grammar /\ place = "check" /\ ~reasoning) =>
       Taken(path, drafts).n = Len(drafts)

RequestInv ==
  /\ place \in {"draft", "check", "sample", "finished"}
  /\ TextFacts /\ StopRight /\ SentFacts /\ MatcherFacts
=============================================================================
