------------------------------ MODULE TokenSplit ------------------------------
(***************************************************************************)
(* Which control-token strings of a prompt and of a completion are control    *)
(* tokens: patch_control_token_injection.py encodes a prompt, and             *)
(* patch_output_token_split.py tells the parser of a completion.              *)
(*                                                                         *)
(* A text is a sequence of characters; decoding a token gives some.  The     *)
(* decode of a run of ids is the concatenation, as for tokens that end at a   *)
(* character.                                                               *)
(***************************************************************************)
EXTENDS Naturals, SequencesExt

CONSTANTS Ids,     \* the vocabulary
          Added,   \* its added tokens, the control tokens among them
          Text,    \* what each id decodes to
          Pipe,    \* the character every DSML marker holds twice
          Hide     \* U+FDD0

Alphabet == UNION {ToSet(Text[id]) : id \in Ids}

ASSUME VocabAssumption ==
  /\ Added \subseteq Ids
  /\ Text \in [Ids -> Seq(Alphabet)] /\ \A id \in Ids : Text[id] # <<>>
  /\ Hide \notin Alphabet
  /\ \A c \in Alphabet : \E id \in Ids \ Added : Text[id] = <<c>>

Decode(ids) == LET f[i \in 0..Len(ids)] == IF i = 0 THEN <<>> ELSE f[i - 1] \o Text[ids[i]] IN f[Len(ids)]
Words == {Text[id] : id \in Added}
At(word, text, i) == i + Len(word) - 1 <= Len(text) /\ SubSeq(text, i, i + Len(word) - 1) = word

\* The trie's match at a place: the longest word, or none.
Match(text, i) ==
  LET found == {w \in Words : At(w, text, i)}
  IN IF found = {} THEN <<>> ELSE CHOOSE w \in found : \A v \in found : Len(v) <= Len(w)
Quotes(text) == \E i \in DOMAIN text : Match(text, i) # <<>>

-----------------------------------------------------------------------------
(* The prompt.                                                              *)

\* HF's encode: added tokens match anywhere, the rest is base vocabulary, one id
\* for each character here.
FlatEncode(text) ==
  LET f[i \in 1..Len(text) + 1] ==
        IF i > Len(text) THEN <<>>
        ELSE LET w == Match(text, i)
             IN IF w # <<>> THEN <<CHOOSE id \in Added : Text[id] = w>> \o f[i + Len(w)]
                ELSE <<CHOOSE id \in Ids \ Added : Text[id] = <<text[i]>> >> \o f[i + 1]
  IN f[1]
BaseEncode(text) == [i \in DOMAIN text |-> CHOOSE id \in Ids \ Added : Text[id] = <<text[i]>>]

\* Texts and the template's tokens between them, as the marked render splits.
EncodeSegments(texts, tokens) ==
  LET f[i \in 1..Len(texts)] ==
        IF i = 1 THEN BaseEncode(texts[1]) ELSE f[i - 1] \o <<tokens[i - 1]>> \o BaseEncode(texts[i])
  IN f[Len(texts)]
Rendered(texts, tokens) ==
  LET f[i \in 1..Len(texts)] == IF i = 1 THEN texts[1] ELSE f[i - 1] \o Text[tokens[i - 1]] \o texts[i]
  IN f[Len(texts)]

\* Mutant: the whole prompt is encoded with the full vocabulary.
EncodePromptFlat(texts, tokens) == FlatEncode(Rendered(texts, tokens))

\* A clean prompt goes back as the string the renderer encodes, a dirty one as
\* ids nothing encodes again.
EncodePrompt(texts, tokens) ==
  IF \E i \in DOMAIN texts : Quotes(texts[i]) THEN EncodeSegments(texts, tokens)
  ELSE FlatEncode(Rendered(texts, tokens))

-----------------------------------------------------------------------------
(* A whole completion: _OutputTokenSplit.split.                              *)

\* A character of a masked text, with whether a placeholder stands for it.
Plain(text) == [i \in DOMAIN text |-> [c |-> text[i], masked |-> FALSE]]
Masked(text) ==
  LET f[i \in 1..Len(text) + 1] ==
        IF i > Len(text) THEN <<>>
        ELSE LET w == Match(text, i)
             IN IF w # <<>> THEN [j \in DOMAIN w |-> [c |-> w[j], masked |-> TRUE]] \o f[i + Len(w)]
                ELSE <<[c |-> text[i], masked |-> FALSE]>> \o f[i + 1]
  IN f[1]

\* The layout: maximal runs of ordinary ids, and added tokens one by one.
Layout(ids) ==
  LET f[i \in 0..Len(ids)] ==
        IF i = 0 THEN <<>>
        ELSE LET seen == f[i - 1]
                 grows == seen # <<>> /\ ~Last(seen).added /\ ids[i] \notin Added
             IN IF grows THEN Front(seen) \o <<[Last(seen) EXCEPT !.text = @ \o Text[ids[i]]]>>
                ELSE Append(seen, [added |-> ids[i] \in Added, text |-> Text[ids[i]]])
  IN f[Len(ids)]

AtMostLen(s, n) == SubSeq(s, 1, IF n < Len(s) THEN n ELSE Len(s))

\* The text is a prefix of the decode: a stop string or a stop token was cut off.
SplitText(text, ids) ==
  LET layout == Layout(ids)
      f[i \in 0..Len(layout)] ==
        IF i = 0 THEN <<>>
        ELSE LET seen == f[i - 1]
                 visible == AtMostLen(layout[i].text, Len(text) - Len(seen))
             IN seen \o (IF layout[i].added THEN Plain(visible) ELSE Masked(visible))
  IN IF Quotes(text) /\ IsPrefix(text, Decode(ids)) THEN f[Len(layout)] ELSE Plain(text)

-----------------------------------------------------------------------------
(* A streamed completion: _OutputTokenStream.                                *)

\* run: ordinary ids since the last added token; end: characters before them;
\* spans: the added tokens with a pipe that are not all streamed; seen: characters
\* streamed; active: the hiding goes on; hidden: something was hidden.
NewStream == [run |-> <<>>, end |-> 0, spans |-> {}, seen |-> 0, active |-> TRUE, hidden |-> FALSE]
Stopped(stream) == [stream EXCEPT !.active = FALSE, !.run = <<>>, !.spans = {}]

HasPipe(text) == \E i \in DOMAIN text : text[i] = Pipe

\* The ids of a delta; early: its added token lies in text that was streamed.
TakeIds(stream, ids) ==
  LET f[i \in 0..Len(ids)] ==
        IF i = 0 THEN [s |-> stream, early |-> FALSE]
        ELSE LET s == f[i - 1].s
                 start == s.end + Len(Decode(s.run))
             IN IF f[i - 1].early THEN f[i - 1]
                ELSE IF ids[i] \notin Added THEN [f[i - 1] EXCEPT !.s.run = Append(@, ids[i])]
                ELSE [s |-> [s EXCEPT !.run = <<>>, !.end = start + Len(Text[ids[i]]),
                                      !.spans = IF HasPipe(Text[ids[i]])
                                                THEN @ \cup {[at |-> start, id |-> ids[i]]} ELSE @],
                      early |-> start < s.seen]
  IN f[Len(ids)]

\* Where the characters of added tokens are in a delta, from 1.
RealPlaces(spans, from, upto) ==
  UNION {{p - from : p \in {q \in (span.at + 1)..(span.at + Len(Text[span.id])) : from < q /\ q <= upto}}
         : span \in spans}
OutOfPlace(spans, from, text) ==
  \E span \in spans : \E j \in DOMAIN Text[span.id] :
     /\ from < span.at + j /\ span.at + j <= from + Len(text)
     /\ text[span.at + j - from] # Text[span.id][j]

\* Mutant: spans are forgotten with the delta that brought them.
DueNone(spans, upto) == {}
StillDue(spans, upto) == {span \in spans : span.at + Len(Text[span.id]) > upto}
\* An added token none of whose text is streamed yet.
Held(spans, upto) == \E span \in spans : span.at >= upto

\* hide(): the new state of the stream, the delta's text for the parser, and
\* whether it was left as it is.
HideDelta(stream, text, ids) ==
  LET taken == TakeIds(stream, ids)
      from == stream.seen
      upto == stream.seen + Len(text)
      s == [taken.s EXCEPT !.seen = upto]
      real == RealPlaces(s.spans, from, upto)
      fake == {i \in DOMAIN text : text[i] = Pipe /\ i \notin real}
      kept == [s EXCEPT !.spans = StillDue(s.spans, upto)]
  IN IF ~stream.active \/ taken.early \/ OutOfPlace(s.spans, from, text)
     THEN [stream |-> Stopped(s), text |-> text, asIs |-> TRUE]
     ELSE IF Held(s.spans, upto) THEN [stream |-> kept, text |-> text, asIs |-> TRUE]
     ELSE [stream |-> [kept EXCEPT !.hidden = @ \/ fake # {}],
           text |-> [i \in DOMAIN text |-> IF i \in fake THEN Hide ELSE text[i]], asIs |-> FALSE]

\* _ots_unhide
Unhide(stream, text) ==
  IF stream.hidden THEN [i \in DOMAIN text |-> IF text[i] = Hide THEN Pipe ELSE text[i]] ELSE text
=============================================================================
