----------------------------- MODULE TurnArbiter -----------------------------
(***************************************************************************)
(* What the turn service promises (app/core/turns.py and the TurnStatus of *)
(* app/schemas/messages.py): one output, the floor, that a turn claims     *)
(* when nobody has it and gives up in the step that ends the turn; every   *)
(* end is told once.                                                       *)
(***************************************************************************)
EXTENDS Sequences

CONSTANTS Users, Intents, NoTurn, HasPipeline

Turns == Users \cup Intents
Ends == {"completed", "cancelled", "failed"}

VARIABLES phase,     \* how far a turn is
          floor,     \* the turn that has the output
          told,      \* the ends that subscribers were told of
          accepting  \* the service is not closed

vars == <<phase, floor, told, accepting>>

Init ==
  /\ phase = [t \in Turns |-> "unregistered"]
  /\ floor = NoTurn
  /\ told = [t \in Turns |-> <<>>]
  /\ accepting = TRUE

(* A message is accepted first and generates later; an intent generates at *)
(* once.                                                                   *)
Claim(t) ==
  /\ accepting
  /\ floor = NoTurn
  /\ phase[t] = "unregistered"
  /\ floor' = t
  /\ phase' = [phase EXCEPT ![t] = IF t \in Users THEN "accepted" ELSE "streaming"]
  /\ UNCHANGED <<told, accepting>>

Generate(u) ==
  /\ floor = u
  /\ phase[u] = "accepted"
  /\ phase' = [phase EXCEPT ![u] = "streaming"]
  /\ UNCHANGED <<floor, told, accepting>>

(* A turn ends and is told of, except that a user's completion is told by  *)
(* Tell, after the memory and history have seen it.  Only a turn that was   *)
(* never to generate can end without the floor.                            *)
End(t, end) ==
  /\ \/ floor = t /\ phase[t] = "streaming"
     \/ /\ phase[t] = "accepted" /\ end = "cancelled"
        /\ floor = t \/ ~HasPipeline
  /\ phase' = [phase EXCEPT ![t] = end]
  /\ floor' = IF floor = t THEN NoTurn ELSE floor
  /\ told' = IF end = "completed" /\ t \in Users
             THEN told ELSE [told EXCEPT ![t] = Append(@, end)]

Tell(u) ==
  /\ phase[u] = "completed"
  /\ told[u] = <<>>
  /\ told' = [told EXCEPT ![u] = <<"completed">>]
  /\ UNCHANGED <<phase, floor, accepting>>

(* Without a pipeline an accepted message gives up the floor. *)
Release(u) ==
  /\ ~HasPipeline
  /\ floor = u
  /\ floor' = NoTurn
  /\ UNCHANGED <<phase, told, accepting>>

(* Closing ends the turn that has the floor, unless its pipeline has to    *)
(* unwind first.                                                           *)
Close ==
  /\ accepting' = FALSE
  /\ \/ UNCHANGED <<phase, floor, told>>
     \/ End(floor, "cancelled")

Next ==
  \/ \E t \in Turns : Claim(t)
  \/ \E t \in Turns, end \in Ends : End(t, end) /\ UNCHANGED accepting
  \/ \E u \in Users : Generate(u) \/ Tell(u) \/ Release(u)
  \/ Close

Spec == Init /\ [][Next]_vars
=============================================================================
