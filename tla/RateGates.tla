------------------------------- MODULE RateGates -------------------------------
(***************************************************************************)
(* Two gates over time.  app/perception/rate_limit.py lets a number of     *)
(* calls to the cloud through in any period; ExpressionCooldown of         *)
(* app/emotion/mapper.py lets a change of the face through once in a while.*)
(***************************************************************************)
EXTENDS Integers, Sequences

CONSTANTS MaxCalls, Period,   \* SlidingWindowRateLimiter
          Cooldown            \* ExpressionCooldown

(* SlidingWindowRateLimiter.allow: the times of the calls that count.      *)
Recent(calls, now) == SelectSeq(calls, LAMBDA t : t > now - Period)

Allow(calls, now) ==
    IF Len(Recent(calls, now)) >= MaxCalls
    THEN [ok |-> FALSE, calls |-> Recent(calls, now)]
    ELSE [ok |-> TRUE, calls |-> Append(Recent(calls, now), now)]

(* map_presentation: the face of a label, named like it but for three.*)
FaceOf(label) ==
    CASE label = "bored"          -> "neutral"
      [] label = "excited"        -> "happy"
      [] label = "explosion_mode" -> "explosion_excited"
      [] OTHER                    -> label

NoFace == [face |-> "none", at |-> 0]

(* ExpressionCooldown.allow, asked when a segment is decorated.            *)
AllowFace(gate, label, now) ==
    IF \/ FaceOf(label) = gate.face
       \/ gate.face # "none" /\ now - gate.at < Cooldown
    THEN [ok |-> FALSE, gate |-> gate]
    ELSE [ok |-> TRUE, gate |-> [face |-> FaceOf(label), at |-> now]]
=============================================================================
