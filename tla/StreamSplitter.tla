--------------------------- MODULE StreamSplitter ---------------------------
(***************************************************************************)
(* Telling reasoning from answer in a model's output (common/think.py):    *)
(* split_think for a complete text, and the state of a StreamSplitter for  *)
(* one that grows.                                                         *)
(*                                                                         *)
(* A text is a sequence of characters.  Tags are shortened to "<t" and     *)
(* "</t", which keeps what matters of "<think>" and "</think>": they begin *)
(* alike, differ then, have different lengths and never overlap.           *)
(***************************************************************************)
EXTENDS Integers, Sequences, FiniteSets, FiniteSetsExt, SequencesExt

CONSTANT SniffChars  \* SNIFF_CHARS

ASSUME StreamSplitterAssumption == SniffChars \in Nat \ {0}

OpenTag  == <<"<", "t">>
CloseTag == <<"<", "/", "t">>
Newline  == "\n"
Blanks   == {Newline, " "}

\* Mutant: one character less is withheld than a partial tag can measure.
Hold_Short == Len(CloseTag) - 2

\* _HOLD: the most a partial tag at the end of a text can measure.
Hold == Len(CloseTag) - 1

Drop(s, n) == SubSeq(s, n + 1, Len(s))
StripLeft(s, S) == Drop(s, SelectInSeq(Append(s, "end"), LAMBDA c : c \notin S) - 1)
StripNewlines(s) == Reverse(StripLeft(Reverse(StripLeft(s, {Newline})), {Newline}))

\* Where a tag occurs in a text, and the text without its occurrences.
At(tag, s) == {i \in 1..(Len(s) - Len(tag) + 1) : SubSeq(s, i, i + Len(tag) - 1) = tag}
Without(tag, s) ==
    LET inTag == UNION {i..(i + Len(tag) - 1) : i \in At(tag, s)}
    IN  FlattenSeq([i \in DOMAIN s |-> IF i \in inTag THEN <<>> ELSE <<s[i]>>])

Closes(s) == At(CloseTag, s) # {}
Opens(s)  == IsPrefix(OpenTag, StripLeft(s, Blanks))
BeforeClose(s) == SubSeq(s, 1, Min(At(CloseTag, s)) - 1)
AfterClose(s)  == Drop(s, Min(At(CloseTag, s)) + Len(CloseTag) - 1)

\* split_think: the first closing tag ends the reasoning, whose opening tag is
\* optional; without one all is answer, unless the text opens with a tag.
Opened(s) ==
    IF Opens(s) THEN Drop(StripLeft(s, Blanks), Len(OpenTag)) ELSE StripLeft(s, Blanks)
Split(s) ==
    IF Closes(s)
    THEN [reasoning |-> StripNewlines(Opened(BeforeClose(s))),
          content   |-> StripLeft(AfterClose(s), {Newline})]
    ELSE IF Opens(s) THEN [reasoning |-> StripNewlines(Opened(s)), content |-> <<>>]
    ELSE [reasoning |-> <<>>, content |-> s]

-----------------------------------------------------------------------------
(***************************************************************************)
(* The splitter: what it takes the text for, what it was told of the       *)
(* model's family, and how much of either total it has emitted.            *)
(***************************************************************************)
NewSplitter == [mode |-> "sniffing", assume |-> "unknown", reasoned |-> 0, answered |-> 0]

\* set_family, with the family's verdict: "reasoning", "other" or "unknown".
WithFamily(sp, family) ==
    IF sp.mode = "sniffing" /\ sp.assume = "unknown" THEN [sp EXCEPT !.assume = family] ELSE sp

\* A head that may become an opening tag.
Ambiguous(s) ==
    LET head == StripLeft(s, Blanks)
    IN  head # <<>> /\ Len(head) < Len(OpenTag) /\ IsPrefix(head, OpenTag)

\* The first half of feed: what the text is taken for, if that is not settled.
Decided(sp, s, done) ==
    [sp EXCEPT !.mode =
        IF @ # "sniffing" THEN @
        ELSE IF ~done /\ Ambiguous(s) THEN "sniffing"
        ELSE IF Opens(s) \/ Closes(s) \/ sp.assume = "reasoning" THEN "reasoning"
        ELSE IF done \/ sp.assume = "other" \/ Len(s) >= SniffChars THEN "content"
        ELSE "sniffing"]

\* All but the end, where a tag may be arriving.
Visible(s, done) == IF done THEN s ELSE SubSeq(s, 1, Len(s) - Hold)
StripOpen(s) == IF Opens(s) THEN StripLeft(Opened(s), {Newline}) ELSE s

\* The end has come without any tag and nothing was emitted: no reasoning at all.
Misjudged(sp, s, done) == done /\ ~Closes(s) /\ ~Opens(s) /\ sp.reasoned = 0

\* The totals to be emitted by now: one of each, or none if there is nothing to say.
ReasoningTotal(sp, s, done) ==
    IF sp.mode # "reasoning" \/ Misjudged(sp, s, done) THEN {}
    ELSE {StripOpen(t) : t \in {IF Closes(s) THEN BeforeClose(s) ELSE Visible(s, done)}}

ContentTotal(sp, s, done) ==
    CASE sp.mode = "content" -> {Without(CloseTag, t) : t \in {Without(OpenTag, Visible(s, done))}}
      [] sp.mode = "reasoning" /\ Closes(s) -> {Visible(t, done) : t \in {StripLeft(AfterClose(s), {Newline})}}
      [] sp.mode = "reasoning" /\ Misjudged(sp, s, done) -> {s}
      [] OTHER -> {}

\* What of a total is new, by length alone.
Delta(totals, sent) == IF totals = {} THEN <<>> ELSE Drop(CHOOSE s \in totals : TRUE, sent)
SentOf(totals, sent) == IF totals = {} THEN sent ELSE Len(CHOOSE s \in totals : TRUE)

\* The second half of feed: the deltas, and the splitter after it.
Emitted(sp, s, done) ==
    LET r == ReasoningTotal(sp, s, done)
        c == ContentTotal(sp, s, done)
    IN  [reasoning |-> Delta(r, sp.reasoned),
         content   |-> Delta(c, sp.answered),
         splitter  |-> [sp EXCEPT !.mode = IF Misjudged(sp, s, done) THEN "content" ELSE @,
                                  !.reasoned = SentOf(r, @),
                                  !.answered = SentOf(c, @)]]
=============================================================================
