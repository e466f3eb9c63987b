---------------------------- MODULE MCTurnService ----------------------------
(* Instances of TurnService for TLC. *)
EXTENDS TurnService

CONSTANTS u1, u2, p1,      \* turns
          home, other      \* sessions

(* u1 and the intents share the local session, the other messages come from *)
(* another one.                                                             *)
MCSessionOf == [t \in Turns |-> IF t \in {u1} \cup Intents THEN home ELSE other]
=============================================================================
