------------------------------ MODULE SpokenTurn ------------------------------
(***************************************************************************)
(* What a turn promises of its speech, whoever synthesizes it: the clips   *)
(* of its segments are played one at a time and in the order of the        *)
(* segments, none before every earlier one has been played or found        *)
(* silent, none after the turn was cancelled; a clip goes when it has been *)
(* played, and those that were not go together when the turn is over.      *)
(***************************************************************************)
EXTENDS Naturals

CONSTANT MaxSegments

VARIABLES clip,       \* the clip of every segment
          cancelled,  \* the turn was cancelled
          over        \* nothing of the turn runs any more

vars == <<clip, cancelled, over>>

Segments == 0 .. MaxSegments - 1
Settled == {"silent", "gone"}

Init ==
  /\ clip = [i \in Segments |-> "none"]
  /\ cancelled = FALSE
  /\ over = FALSE

Make(i) ==
  /\ clip[i] = "none" /\ ~over
  /\ \E c \in {"made", "silent"} : clip' = [clip EXCEPT ![i] = c]
  /\ UNCHANGED <<cancelled, over>>

Begin(i) ==
  /\ clip[i] = "made" /\ ~cancelled /\ ~over
  /\ \A j \in Segments : clip[j] # "playing"
  /\ \A j \in Segments : j < i => clip[j] \in Settled
  /\ clip' = [clip EXCEPT ![i] = "playing"]
  /\ UNCHANGED <<cancelled, over>>

Finish(i) ==
  /\ clip[i] = "playing"
  /\ clip' = [clip EXCEPT ![i] = "gone"]
  /\ UNCHANGED <<cancelled, over>>

Cancel ==
  /\ ~over
  /\ cancelled' = TRUE
  /\ UNCHANGED <<clip, over>>

Clear ==
  /\ \A j \in Segments : clip[j] # "playing"
  /\ clip' = [i \in Segments |-> IF clip[i] = "made" THEN "gone" ELSE clip[i]]
  /\ UNCHANGED <<cancelled, over>>

Conclude ==
  /\ \A j \in Segments : clip[j] # "playing"
  /\ over' = TRUE
  /\ UNCHANGED <<clip, cancelled>>

Next ==
  \/ \E i \in Segments : Make(i) \/ Begin(i) \/ Finish(i)
  \/ Cancel \/ Clear \/ Conclude

Spec == Init /\ [][Next]_vars
=============================================================================
