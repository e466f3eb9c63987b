-------------------------- MODULE MCDialoguePipeline --------------------------
(***************************************************************************)
(* Instances of DialoguePipeline for TLC, and what the two parts that feed *)
(* it promise: the segmenter, for every short answer and every way to cut  *)
(* it into two deltas, and the client that reads the answer, for every     *)
(* short stream.                                                           *)
(***************************************************************************)
EXTENDS DialoguePipeline, SequencesExt

CONSTANTS w1, w2  \* workers

Seg == INSTANCE Segmenter WITH MinChars <- 2, MaxChars <- 3, MaxWords <- 1

(* Bounds: up to four characters, of those that decide where to cut.       *)
ShortTexts(C) == UNION {[1..n -> C] : n \in 0..4}
ShortAnswers == ShortTexts({"x", "!", ")", " ", ".", "~"}) \cup ShortTexts({"d", "M", ".", " ", ",", "3"})
Cuts(t) == {<<SubSeq(t, 1, n), SubSeq(t, n + 1, Len(t))>> : n \in 0..Len(t)}

Printed(t) == SelectSeq(t, LAMBDA c : c # " ")
Concat(segments) ==
    LET J[i \in 0..Len(segments)] == IF i = 0 THEN <<>> ELSE J[i-1] \o segments[i]
    IN  J[Len(segments)]

(* What is spoken is the answer: nothing but white space is lost, repeated *)
(* or out of order, however the answer was cut into deltas, and no segment *)
(* is empty.                                                               *)
ASSUME AnswerIsSpoken ==
    \A t \in ShortAnswers : \A d \in Cuts(t) :
        LET segments == Seg!Answer(d[1], d[2])
        IN  /\ Printed(Concat(segments)) = Printed(t)
            /\ \A i \in 1..Len(segments) :
                    segments[i] # <<>> /\ Seg!Strip(segments[i]) = segments[i]

(* Between two deltas no more than MaxChars wait, so an answer that comes  *)
(* character by character is cut into segments of at most one more.        *)
ASSUME WaitingIsBounded ==
    \A t \in ShortAnswers :
        LET one == Seg!Feed(<<>>, t)
        IN  /\ Len(one.buffer) <= 3
            /\ \A c \in {"x", "!", ")", " ", ".", "~", ","} :
                    LET two == Seg!Feed(one.buffer, <<c>>)
                    IN  \A i \in 1..Len(two.segments) : Len(two.segments[i]) <= 4

-----------------------------------------------------------------------------
Chat == INSTANCE ChatStream

(* Bounds: up to three lines; of text, one choice, two, or an empty one.   *)
Lines == {<<k, <<>>>> : k \in Chat!Kinds \ {"text"}}
         \cup {<<"text", t>> : t \in {<<"a">>, <<"b", "", "a">>, <<"">>, <<>>}}
Streams == UNION {[1..n -> Lines] : n \in 0..3}
Failure(l) == l[1] \in {"not_json", "error", "no_choices"}

(* An answer counts as complete only if nothing before its end was wrong,  *)
(* and then all of its text was yielded; an answer that breaks off has     *)
(* yielded a part of what it would have been, and after its end nothing is *)
(* yielded.                                                                *)
ASSUME AnswerIsWhole ==
    \A lines \in Streams, ending \in Chat!Endings :
        LET read == Chat!ReadStream(200, lines, ending)
            Text(l) == SelectSeq(l[2], LAMBDA d : d # "")
            all  == FlattenSeq([i \in DOMAIN lines |-> Text(lines[i])])
            done == {i \in DOMAIN lines : lines[i][1] = "[DONE]"}
        IN  /\ IsPrefix(read.text, all)
            /\ read.end = "complete" =>
                 \/ ending = "eof" /\ read.text = all /\ ~\E i \in DOMAIN lines : Failure(lines[i])
                 \/ \E n \in done :
                      /\ read.text = FlattenSeq([i \in 1..n |-> Text(lines[i])])
                      /\ ~\E i \in 1..n : Failure(lines[i])
            /\ \A n \in 0..Len(lines) :
                 LET part == Chat!ReadStream(200, SubSeq(lines, 1, n), "dropped")
                 IN  IsPrefix(part.text, read.text)

(* Only what may pass is called retryable: no refusal of the request or of *)
(* the key, and nothing that the answer itself is wrong about.             *)
ASSUME RetryableMayPass ==
    \A status \in {200, 400, 401, 403, 404, 429, 500, 503}, l \in Lines, ending \in Chat!Endings :
        LET streamed == Chat!ReadStream(status, <<l>>, ending)
            whole    == Chat!ReadBody(status, l, ending)
        IN  /\ status \in {400, 401, 403, 404} => ~Chat!Retryable(streamed.end)
            /\ Failure(l) => (status < 400 => ~Chat!Retryable(streamed.end))
            /\ ending = "eof" /\ (status >= 400 \/ Failure(l)) => streamed.end = whole.end
=============================================================================
