----------------------------- MODULE ToolCallReader -----------------------------
(***************************************************************************)
(* How tool calls are told from prose in what a model writes, while it is  *)
(* still writing: createToolCallReader of                                  *)
(* site/app/utils/web-llm-langchain.ts.                                    *)
(*                                                                         *)
(* A text is a sequence of pieces.  The four tags are three pieces each, so*)
(* that they may be cut where they still read alike; "call" is what names a*)
(* tool there is, "name" what names none, "word" is no JSON, and an escaped*)
(* quote is a word.  A reader is a record: its mode and the one a tagged   *)
(* call returns to, what it holds back, the text and the calls it has      *)
(* handed out ([at, raw]: raw was read after `at` pieces of text), and     *)
(* whether it should look again.                                           *)
(***************************************************************************)
EXTENDS Naturals, FiniteSets, SequencesExt

ThinkOpen  == <<"<", "t", "hink>">>
CallOpen   == <<"<", "t", "ool_call>">>
ThinkClose == <<"<", "/t", "hink>">>
CallClose  == <<"<", "/t", "ool_call>">>

First(s, n)      == SubSeq(s, 1, n)
After(s, n)      == SubSeq(s, n + 1, Len(s))
LeadingSpaces(s) == CHOOSE n \in 0..Len(s) : (\A i \in 1..n : s[i] = "space") /\ (n < Len(s) => s[n + 1] # "space")

(* Where `tag` first begins in `s`, 0 if it does not. *)
Occurs(tag, s, i) == i + Len(tag) - 1 <= Len(s) /\ SubSeq(s, i, i + Len(tag) - 1) = tag
IndexOf(tag, s) ==
    IF \E i \in DOMAIN s : Occurs(tag, s, i)
    THEN CHOOSE i \in DOMAIN s : Occurs(tag, s, i) /\ \A j \in 1..(i - 1) : ~Occurs(tag, s, j)
    ELSE 0

(* How much of the end of `s` could still become `tag`. *)
DanglingPrefixLength(s, tag) ==
    CHOOSE n \in 0..(Len(tag) - 1) :
        /\ n <= Len(s) /\ IsSuffix(First(tag, n), s)
        /\ \A m \in (n + 1)..(Len(tag) - 1) : ~(m <= Len(s) /\ IsSuffix(First(tag, m), s))

--------------------------------------------------------------------------------
(* JSON                                                                       *)

Many(s, piece, i) == Cardinality({j \in 1..i : s[j] = piece})
InString(s, i)    == Many(s, "quote", i) % 2 = 1
Outside(s, i)     == SelectSeq([j \in 1..i |-> IF InString(s, j) THEN "word" ELSE s[j]], LAMBDA p : p \in {"{", "}"})

(* Where the object that begins `s` ends, 0 while it is unfinished. *)
Closes(s, i) ==
    /\ s[i] = "}" /\ ~InString(s, i)
    /\ LET braces == Outside(s, i) IN Many(braces, "{", Len(braces)) = Many(braces, "}", Len(braces))
FindJsonObjectEnd(s) ==
    IF \E i \in DOMAIN s : Closes(s, i)
    THEN CHOOSE i \in DOMAIN s : Closes(s, i) /\ \A j \in 1..(i - 1) : ~Closes(s, j)
    ELSE 0

TrimSpaces(s) == LET back == Reverse(After(s, LeadingSpaces(s))) IN Reverse(After(back, LeadingSpaces(back)))

(* An object that names a tool there is.  The names are what keeps an answer  *)
(* in JSON from being taken for a call.                                       *)
IsToolCall(payload) ==
    LET p == TrimSpaces(payload)
    IN  /\ p # <<>> /\ p[1] = "{" /\ FindJsonObjectEnd(p) = Len(p)
        /\ \A i \in DOMAIN p : InString(p, i) \/ p[i] \in {"{", "}", "call", "name", "quote", "space"}
        /\ \E i \in DOMAIN p : p[i] = "call" /\ ~InString(p, i)

--------------------------------------------------------------------------------
(* The reader                                                                 *)

Pieces  == {"<", "t", "/t", "hink>", "ool_call>", "{", "}", "quote", "space", "call", "name", "word"}
Readers == [mode : {"preamble", "preamble-think", "text", "bare", "tagged"}, after : {"text", "preamble-think"},
            buffer : Seq(Pieces), text : Seq(Pieces), calls : Seq([at : Nat, raw : Seq(Pieces)]), more : BOOLEAN]

CreateToolCallReader ==
    [mode |-> "preamble", after |-> "text", buffer |-> <<>>, text |-> <<>>, calls |-> <<>>, more |-> TRUE]

HandOut(r, n) == [r EXCEPT !.text = @ \o First(r.buffer, n), !.buffer = After(@, n)]
Hold(r)       == [r EXCEPT !.more = FALSE]

(* A call, or the text it was written as. *)
ToChunks(r, payload, raw) ==
    IF IsToolCall(payload) THEN [r EXCEPT !.calls = Append(@, [at |-> Len(r.text), raw |-> raw])]
    ELSE [r EXCEPT !.text = @ \o raw]

OpensTag(r, open, mode) ==
    [HandOut(r, open - 1) EXCEPT !.buffer = After(@, Len(CallOpen)), !.after = mode, !.mode = "tagged"]

(* All that could not still become one of the tags is handed out. *)
Larger(a, b)       == IF a > b THEN a ELSE b
HandOutSafe(r, held) == Hold(HandOut(r, Len(r.buffer) - held))

StepPreamble(r) ==
    LET leading == LeadingSpaces(r.buffer)
        rest    == After(r.buffer, leading)
    IN  CASE rest = <<>> -> Hold(r)
          [] rest # <<>> /\ rest[1] = "{" -> [HandOut(r, leading) EXCEPT !.mode = "bare"]
          [] IsPrefix(ThinkOpen, rest) ->
                 [HandOut(r, leading + Len(ThinkOpen)) EXCEPT !.mode = "preamble-think"]
          [] rest # <<>> /\ Len(rest) \in {DanglingPrefixLength(rest, ThinkOpen),
                                           DanglingPrefixLength(rest, CallOpen)} -> Hold(r)
          [] OTHER -> [r EXCEPT !.mode = "text"]

StepThinking(r, open, close) ==
    CASE open # 0 /\ (close = 0 \/ open < close) -> OpensTag(r, open, "preamble-think")
      [] close # 0 /\ (open = 0 \/ close < open) ->
             [HandOut(r, close + Len(ThinkClose) - 1) EXCEPT !.mode = "preamble"]
      [] OTHER -> HandOutSafe(r, Larger(DanglingPrefixLength(r.buffer, ThinkClose),
                                        DanglingPrefixLength(r.buffer, CallOpen)))

StepText(r, open) ==
    IF open # 0 THEN OpensTag(r, open, "text")
    ELSE HandOutSafe(r, DanglingPrefixLength(r.buffer, CallOpen))

StepBare(r, end) ==
    IF end = 0 THEN Hold(r)
    ELSE ToChunks([r EXCEPT !.buffer = After(@, end), !.mode = "text"], First(r.buffer, end), First(r.buffer, end))

StepTagged(r, close) ==
    IF close = 0 THEN Hold(r)
    ELSE LET payload == First(r.buffer, close - 1)
         IN  ToChunks([r EXCEPT !.buffer = After(@, close + Len(CallClose) - 1), !.mode = r.after, !.after = "text"],
                      payload, CallOpen \o payload \o CallClose)

Step(r) ==
    CASE r.mode = "preamble" -> StepPreamble(r)
      [] r.mode = "preamble-think" -> StepThinking(r, IndexOf(CallOpen, r.buffer), IndexOf(ThinkClose, r.buffer))
      [] r.mode = "text" -> StepText(r, IndexOf(CallOpen, r.buffer))
      [] r.mode = "bare" -> StepBare(r, FindJsonObjectEnd(r.buffer))
      [] r.mode = "tagged" -> StepTagged(r, IndexOf(CallClose, r.buffer))

(* A step that hands something out is followed by another. *)
StepAll[r \in Readers] == IF r.more THEN StepAll[Step(r)] ELSE r

Push(r, text) == StepAll[[r EXCEPT !.buffer = @ \o text, !.more = TRUE]]

(* A call that was cut off is a stopped answer: what is held back is text. *)
EndReadingTagless(r) == [r EXCEPT !.text = @ \o r.buffer, !.buffer = <<>>, !.mode = "text", !.after = "text"]

Held(r) == IF r.mode = "tagged" THEN CallOpen \o r.buffer ELSE r.buffer
EndReading(r) == [r EXCEPT !.text = @ \o Held(r), !.buffer = <<>>, !.mode = "text", !.after = "text"]

--------------------------------------------------------------------------------
(* What a reading amounts to                                                  *)

(* The text with each call put back where it was read. *)
PutBack(r) ==
    FoldRight(LAMBDA call, s : First(s, call.at) \o call.raw \o After(s, call.at), r.calls, r.text)

ReadAtOnce(text) == EndReading(Push(CreateToolCallReader, text))

(* The first block that is a call, in a text which is prose up to it. *)
FirstBlock(text) ==
    LET open  == IndexOf(CallOpen, text)
        close == IndexOf(CallClose, text)
    IN  IF open = 0 \/ close < open \/ "{" \in {text[i] : i \in 1..(open - 1)} THEN <<>>
        ELSE SubSeq(text, open, close + Len(CallClose) - 1)
IsFirstBlockACall(text) ==
    LET block == FirstBlock(text)
    IN  block # <<>> /\ IsToolCall(SubSeq(block, Len(CallOpen) + 1, Len(block) - Len(CallClose)))
=============================================================================
