-------------------------- MODULE MCPerceptionPipeline --------------------------
(***************************************************************************)
(* PerceptionPipeline with the two gates that limit what it sends and what *)
(* the face shows, checked at every sequence of short pauses.              *)
(***************************************************************************)
EXTENDS PerceptionPipeline, SequencesExt

Gates == INSTANCE RateGates WITH MaxCalls <- 2, Period <- 3, Cooldown <- 2

(* Bounds: six calls, up to three units of time apart.                     *)
Times == {[i \in 1..6 |-> FoldLeft(LAMBDA n, x : n + x, 0, SubSeq(p, 1, i))] : p \in [1..6 -> 0..3]}

Calls(times) ==
    FoldLeft(LAMBDA log, t :
                LET call == Gates!Allow(log.calls, t)
                IN  [calls |-> call.calls, ok |-> Append(log.ok, call.ok)],
             [calls |-> <<>>, ok |-> <<>>], times)

(* Wherever a period starts, no more calls than allowed fall in it, and a  *)
(* call is refused only at the end of a period that is full.               *)
ASSUME CloudIsLimited ==
    \A times \in Times :
        LET ok == Calls(times).ok
            In(from, to) == {i \in 1..6 : ok[i] /\ from <= times[i] /\ times[i] < to}
            Before(i) == {j \in 1..i-1 : ok[j] /\ times[j] > times[i] - 3}
        IN  \A i \in 1..6 :
                /\ Cardinality(In(times[i], times[i] + 3)) <= 2
                /\ ~ok[i] => Cardinality(Before(i)) = 2

(* Two changes of the face are a cooldown apart and differ, and a face     *)
(* that was asked for late enough is the one that shows.                   *)
ASSUME FaceIsCalm ==
    \A t1, t2, t3 \in 0..4 : \A l1, l2, l3 \in {"happy", "excited", "bored"} :
        LET now == <<t1, t1 + t2, t1 + t2 + t3>>
            one == Gates!AllowFace(Gates!NoFace, l1, now[1])
            two == Gates!AllowFace(one.gate, l2, now[2])
            tri == Gates!AllowFace(two.gate, l3, now[3])
        IN  /\ one.ok /\ one.gate.face = Gates!FaceOf(l1)
            /\ two.ok => t2 >= 2 /\ Gates!FaceOf(l1) # Gates!FaceOf(l2)
            /\ t2 >= 2 => two.gate.face = Gates!FaceOf(l2)
            /\ tri.ok /\ two.ok => t3 >= 2 /\ Gates!FaceOf(l2) # Gates!FaceOf(l3)
            /\ tri.ok /\ ~two.ok => t2 + t3 >= 2 /\ Gates!FaceOf(l1) # Gates!FaceOf(l3)
            /\ t2 + t3 >= 2 /\ ~two.ok => tri.gate.face = Gates!FaceOf(l3)
=============================================================================
