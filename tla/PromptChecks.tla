------------------------------ MODULE PromptChecks ------------------------------
(***************************************************************************)
(* What EmotionPromptContextBuilder.build needs besides the snapshot of    *)
(* the memory, the emotion engine and the budget of the prompt, and how    *)
(* the analyzer's answer becomes claims.  They are functions, checked here *)
(* on every short input.                                                   *)
(***************************************************************************)
EXTENDS Integers, Sequences, FiniteSets, SequencesExt

Emo    == INSTANCE EmotionEngine
Budget == INSTANCE PromptBudget WITH HistoryChars <- 4, ContextChars <- 4, MaxBlockChars <- 3

-----------------------------------------------------------------------------
(* Three messages, with pauses of none to five minutes, to an engine that  *)
(* is close to an explosion or to worry.                                   *)
Pauses == {<<0, 0>>, <<1, 100>>, <<4, 900>>, <<20, 900>>}
Eager  == Emo!NewEngine([Emo!Initial EXCEPT !.explosion_urge = 800])
Caring == Emo!NewEngine([Emo!Initial EXCEPT !.concern = 600, !.embarrassment = 550])

HearMessage(e, m) == Emo!Hear(e, {m[1]}, e.at + m[2][1], m[2][2])
Course(e, talk) ==
    FoldLeft(LAMBDA c, m : Append(c, HearMessage(c[Len(c)], m)), <<e>>, talk)
Courses ==
    {Course(Eager, talk) : talk \in [1..3 -> {"explosion_topic", "user_tired"} \X Pauses]}
    \cup {Course(Caring, talk) : talk \in [1..3 -> {"user_distress", "praise"} \X Pauses]}

Relabelled(c, i) == c[i].label # c[i-1].label
Exploded(c, i)   == c[i].explosionAt # c[i-1].explosionAt

Moved(c, i, d) ==
    MapThenSumSet(LAMBDA k : Emo!Abs(c[k].value[d] - c[k-1].value[d]),
                  {k \in 2..i : c[k].at > c[i].at - Emo!Minute})

(* However fast messages come, in no minute does a dimension move by more  *)
(* than its limit, decay included, and none leaves the scale.              *)
ASSUME EmotionIsBounded ==
    \A c \in Courses : \A i \in 2..4, d \in Emo!Dimensions :
        /\ c[i].value[d] \in 0..1000
        /\ Moved(c, i, d) <= Emo!MaxMinute

(* A label that is not neutral lasts, and an explosion has its cooldown    *)
(* whatever label comes between.                                           *)
ASSUME LabelsLast ==
    \A c \in Courses : \A i, j \in 2..4 : i < j =>
        /\ Relabelled(c, i) /\ Relabelled(c, j) /\ c[i].label # "neutral"
             => c[j].since >= c[i].since + Emo!LabelMinDuration
        /\ Exploded(c, i) /\ Exploded(c, j)
             => c[j].explosionAt >= c[i].explosionAt + Emo!ExplosionCooldown

-----------------------------------------------------------------------------
(* Up to four messages, and up to three blocks, of lengths around the      *)
(* limits.                                                                 *)
Histories == UNION {[1..n -> 1..5] : n \in 0..4}
Blocks == UNION {[1..n -> {"user_profile", "long_term_memory", "screen"} \X {1, 2, 5}] : n \in 0..3}

HistoryOf(h) == [i \in DOMAIN h |-> [id |-> i, len |-> h[i]]]
BlocksOf(b)  == [i \in DOMAIN b |-> [id |-> i, origin |-> b[i][1], len |-> b[i][2]]]
Total(s, cost(_)) == FoldLeft(LAMBDA n, x : n + cost(x), 0, s)

(* The history that is sent fits, keeps its order, and a message is left   *)
(* out only for newer ones.                                                *)
ASSUME HistoryFits ==
    \A h \in Histories :
        LET all  == HistoryOf(h)
            sent == Budget!SelectRecentHistory(all)
            Length(x) == x.len
            Newer(i) == SelectSeq(sent, LAMBDA x : x.id > i)
        IN  /\ Total(sent, Length) <= 4
            /\ \A i, j \in DOMAIN sent : i < j => sent[i].id < sent[j].id
            /\ \A i \in DOMAIN all :
                  \/ all[i] \in {sent[j] : j \in DOMAIN sent}
                  \/ Total(Newer(i), Length) + h[i] > 4

(* The context that is sent fits, truncated, and a block is left out only  *)
(* for blocks that matter more or came before it.                          *)
ASSUME ContextFits ==
    \A b \in Blocks :
        LET all  == BlocksOf(b)
            sent == Budget!SelectContext(all)
            Rank(x) == Budget!OriginPriority[x.origin]
            Above(y) == SelectSeq(sent, LAMBDA x :
                            Rank(x) > Rank(y) \/ (Rank(x) = Rank(y) /\ x.id < y.id))
        IN  /\ Total(sent, Budget!Cost) <= 4
            /\ \A i \in DOMAIN all :
                  \/ all[i] \in {sent[j] : j \in DOMAIN sent}
                  \/ Total(Above(all[i]), Budget!Cost) + Budget!Cost(all[i]) > 4

(* Whatever the context is, the text of the user comes last and everything *)
(* between it and the system's messages is history or one message of data. *)
ASSUME UserSpeaksLast ==
    \A b \in Blocks, h \in UNION {[1..n -> {2, 5}] : n \in 0..2} :
        LET prompt == Budget!Build(HistoryOf(h), BlocksOf(b), "text")
            user   == {i \in DOMAIN prompt : prompt[i].role = "user"}
        IN  /\ prompt[Len(prompt)].content = "text"
            /\ user \subseteq {Len(prompt) - 1, Len(prompt)}
            /\ \A i \in 1..3 : prompt[i].role = "system"

-----------------------------------------------------------------------------
(* What an answer of the analyzer may hold: claims for two slots, with a   *)
(* quote that occurs in the message or not, with and without a credential. *)
Extraction == INSTANCE ClaimExtraction WITH MaxClaims <- 2

RawClaims == [key : {"k1", "k2"}, quote : {"said", "made up"}, credential : BOOLEAN, valid : BOOLEAN]
Answers   == UNION {[1..n -> RawClaims] : n \in 0..3}
Messages  == [quotes : {{}, {"said"}}, credential : BOOLEAN, explicit : BOOLEAN]

(* The claims of one message are for different slots, quote the message    *)
(* and hold no credential, and one that does not costs the whole answer.   *)
(* So the order in which MemoryRuntime stores them does not matter.        *)
ASSUME ClaimsAreGrounded ==
    \A a \in Answers, m \in Messages :
        LET used == Extraction!AnalyzeMessage(m, TRUE, a)
        IN  /\ used # {} => used = {a[i] : i \in DOMAIN a} /\ ~m.credential /\ m.explicit
            /\ \A c \in used : c.quote \in m.quotes /\ ~c.credential
            /\ Cardinality({c.key : c \in used}) = Cardinality(used)
            /\ Cardinality(used) = IF used = {} THEN 0 ELSE Len(a)
=============================================================================
