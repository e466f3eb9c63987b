----------------------------- MODULE MCGptSovits -----------------------------
(* Two calls: of one sentence, of two, and one that is not to be cached.    *)
EXTENDS GptSovits

CONSTANTS c1, c2, k1, k2

Speak(k, l) == [c \in Call |-> IF c = c1 THEN k ELSE l]

MCJobs == {Speak(k1, k1), Speak(k1, k2), Speak(k1, None), Speak(None, k1)}
=============================================================================
