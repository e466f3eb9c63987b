---------------------------- MODULE ClaimExtraction ----------------------------
(***************************************************************************)
(* app/memory/analyzer.py: which claims of a model's answer are used.      *)
(* The answer is a sequence of claims, or unusable; the message that it is *)
(* about is the set of the quotes that occur in it, whether it holds a     *)
(* credential, and whether a person typed or said it.                      *)
(***************************************************************************)
EXTENDS Naturals, Sequences, FiniteSets, Functions

CONSTANTS MaxClaims      \* _MAX_CLAIMS

(* A claim is grounded in the message, for a slot that no claim before it  *)
(* takes (keys are compared without case) and without a credential.        *)
Usable(answer, i, message) ==
    /\ answer[i].valid
    /\ \A j \in 1..i-1 : answer[j].key # answer[i].key
    /\ answer[i].quote \in message.quotes
    /\ ~answer[i].credential

(* _parse_claims: all of the claims or none.                               *)
ParseClaims(answer, message) ==
    IF /\ Len(answer) <= MaxClaims
       /\ \A i \in DOMAIN answer : Usable(answer, i, message)
    THEN Range(answer) ELSE {}

(* analyze: the provider is asked about an explicit message without a      *)
(* credential; what it fails at is no claim.                               *)
AnalyzeMessage(message, answered, answer) ==
    IF message.explicit /\ ~message.credential /\ answered
    THEN ParseClaims(answer, message) ELSE {}
=============================================================================
