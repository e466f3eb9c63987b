------------------------------- MODULE Segmenter -------------------------------
(***************************************************************************)
(* app/pipelines/segmenter.py: DialogueSegmenter cuts the deltas of an     *)
(* answer into segments that can be spoken.                                *)
(*                                                                         *)
(* A text is a sequence of characters, and of each class of characters     *)
(* that the code tells apart one or two stand for all.  A segmenter is its *)
(* buffer; feed and flush give the new buffer and the segments.            *)
(***************************************************************************)
EXTENDS Naturals, Sequences

CONSTANTS MinChars, MaxChars, MaxWords

Chars == {"d", "r", "M", "x", "n", "3", ".", "~", "!", ",", " ", ")"}

Upper     == {"M"}
Letter    == Upper \cup {"d", "r"}       \* [A-Za-z]
Digit     == {"3"}
WordChar  == Letter \cup Digit \cup {"x", "n"}   \* \w; x and n are not ASCII
Space     == {" "}
Hard      == {"!"}                       \* _HARD_TERMINATORS
Weak      == {","}                       \* _WEAK_BREAKS
Closer    == {")"}                       \* _CLOSERS
Ellipsis  == "~"
Abbreviations == {<<"d", "r">>, <<"m", "r">>}          \* _ABBREVIATIONS
Reactions     == {<<"n", "!">>}          \* _REACTIONS

LastIndex(S) == CHOOSE i \in S : \A j \in S : j <= i
FirstIndex(S) == CHOOSE i \in S : \A j \in S : i <= j

(* The stretch of characters of C around position i of t.                  *)
RunStart(t, i, C) == LastIndex({1} \cup {j \in 2..i : t[j-1] \notin C})
RunEnd(t, i, C)   == FirstIndex({Len(t)} \cup {j \in i..Len(t)-1 : t[j+1] \notin C})

Solid(t) == {i \in 1..Len(t) : t[i] \notin Space}
LStrip(t) == IF Solid(t) = {} THEN <<>> ELSE SubSeq(t, FirstIndex(Solid(t)), Len(t))
Strip(t)  == IF Solid(t) = {} THEN <<>>
             ELSE SubSeq(t, FirstIndex(Solid(t)), LastIndex(Solid(t)))

(* A text is worth saying by its letters and digits.                       *)
CanEmit(t) ==
    \/ Len(SelectSeq(t, LAMBDA c : c \in WordChar)) >= MinChars
    \/ t \in Reactions

(* "e.g", with a word boundary before it.                                  *)
DottedLetters(t) ==
    LET n == Len(t)
    IN  /\ n >= 3 /\ t[n] \in Letter /\ t[n-1] = "." /\ t[n-2] \in Letter
        /\ n = 3 \/ t[n-3] \notin WordChar

(* The word that ends before position i.                                   *)
WordBefore(t, i) ==
    IF i = 1 \/ t[i-1] \notin Letter THEN <<>>
    ELSE SubSeq(t, RunStart(t, i-1, Letter), i-1)

Lower(t) == [i \in 1..Len(t) |-> IF t[i] = "M" THEN "m" ELSE t[i]]

(* Three dots end a sentence, a decimal point, an abbreviation and an      *)
(* initial do not; a dot at the edge of the buffer is left for later.      *)
PeriodIsTerminal(t, i, final) ==
    LET before == IF i > 1 THEN t[i-1] ELSE ""
        after  == IF i < Len(t) THEN t[i+1] ELSE ""
        word   == WordBefore(t, i)
    IN  IF before = "." \/ after = "."
        THEN /\ RunEnd(t, i, {"."}) - RunStart(t, i, {"."}) >= 2
             /\ i = RunEnd(t, i, {"."})
        ELSE /\ ~(before \in Digit /\ after \in Digit)
             /\ Lower(word) \notin Abbreviations
             /\ ~DottedLetters(SubSeq(t, 1, i-1))
             /\ ~(Len(word) = 1 /\ word[1] \in Upper)
             /\ after # "" \/ final

EllipsisIsTerminal(t, i, final) ==
    /\ i = RunEnd(t, i, {Ellipsis})
    /\ i > RunStart(t, i, {Ellipsis}) \/ final

IsBoundary(t, i, final) ==
    CASE t[i] = "."      -> PeriodIsTerminal(t, i, final)
      [] t[i] = Ellipsis -> EllipsisIsTerminal(t, i, final)
      [] OTHER           -> t[i] \in Hard

(* A sentence takes the closing quotes and brackets with it.               *)
SentenceEnd(t, i) ==
    IF i < Len(t) /\ t[i+1] \in Closer THEN RunEnd(t, i+1, Closer) ELSE i

(* The first boundary worth a segment, 0 if there is none.                 *)
SentenceBoundary(t, final) ==
    LET ends == {SentenceEnd(t, i) : i \in {j \in 1..Len(t) :
                    IsBoundary(t, j, final) /\ CanEmit(Strip(SubSeq(t, 1, SentenceEnd(t, j))))}}
    IN  IF ends = {} THEN 0 ELSE FirstIndex(ends)

WordEnds(t) == {i \in 1..Len(t) : t[i] \in Letter /\ i = RunEnd(t, i, Letter)}

(* Where the word MaxWords ends, if there are more, and at most MaxChars:  *)
(* a pause before it, then a space, then the middle of a word; 0 if short. *)
ForcedBoundary(t) ==
    LET tooMany == \E i, j \in WordEnds(t) : i < j /\ Len(SelectSeq(
                        [k \in 1..i |-> k \in WordEnds(t)], LAMBDA b : b)) = MaxWords
        wordEnd == CHOOSE i \in WordEnds(t) : Len(SelectSeq(
                        [k \in 1..i |-> k \in WordEnds(t)], LAMBDA b : b)) = MaxWords
        limit   == IF tooMany /\ wordEnd < MaxChars THEN wordEnd ELSE MaxChars
        least   == IF MinChars < limit THEN MinChars ELSE limit
        At(C)   == {i \in least..limit : t[i] \in C}
    IN  IF Len(t) <= MaxChars /\ ~tooMany THEN 0
        ELSE IF At(Weak) # {} THEN LastIndex(At(Weak))
        ELSE IF At(Space) # {} THEN LastIndex(At(Space))
        ELSE limit

Rest(t, n) == LStrip(SubSeq(t, n + 1, Len(t)))

(* _drain: [buffer, segments].                                             *)
RECURSIVE Drain(_, _)
Drain(t, final) ==
    LET cut  == IF SentenceBoundary(t, final) # 0 THEN SentenceBoundary(t, final)
                ELSE ForcedBoundary(t)
        text == Strip(SubSeq(t, 1, cut))
        more == Drain(Rest(t, cut), final)
    IN  IF t = <<>> \/ cut = 0 THEN [buffer |-> t, segments |-> <<>>]
        ELSE [more EXCEPT !.segments = (IF text = <<>> THEN <<>> ELSE <<text>>) \o @]

Feed(buffer, delta) ==
    IF delta = <<>> THEN [buffer |-> buffer, segments |-> <<>>]
    ELSE Drain(buffer \o delta, FALSE)

Flush(buffer) ==
    LET drained == Drain(buffer, TRUE)
        last    == Strip(drained.buffer)
    IN  [buffer |-> <<>>,
         segments |-> drained.segments \o (IF last = <<>> THEN <<>> ELSE <<last>>)]

(* The segments of an answer that comes as two deltas.                     *)
Answer(a, b) ==
    LET one == Feed(<<>>, a)
        two == Feed(one.buffer, b)
    IN  one.segments \o two.segments \o Flush(two.buffer).segments
=============================================================================
