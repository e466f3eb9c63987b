----------------------------- MODULE EmotionEngine -----------------------------
(***************************************************************************)
(* app/emotion: the engine moves eight dimensions, within limits per event *)
(* and per minute, and derives the label that colours the voice and the    *)
(* face.                                                                   *)
(*                                                                         *)
(* Numbers are thousandths, times quarters of a minute; rounding is left   *)
(* out.  An engine is a record; its operations give the next one.          *)
(***************************************************************************)
EXTENDS Integers, Sequences, FiniteSets, FiniteSetsExt

Second15 == 1
Minute == 4 * Second15

MaxEvent == 150           \* max_delta_per_event
MaxMinute == 250          \* max_delta_per_minute
LabelMinDuration == Second15
ExplosionCooldown == 5 * Minute
FocusDuration == 5 * Minute
Never == 0 - 1

Neutrals == [affection |-> 350, energy |-> 550, curiosity |-> 450, concern |-> 150,
             embarrassment |-> 100, pride |-> 550, explosion_urge |-> 350, boredom |-> 200]

Dimensions == DOMAIN Neutrals

Initial == [affection |-> 350, energy |-> 600, curiosity |-> 500, concern |-> 150,
            embarrassment |-> 100, pride |-> 550, explosion_urge |-> 450, boredom |-> 200]

(* What the text of a message may be classified as.                        *)
Rules == [praise |-> [embarrassment |-> 100, affection |-> 20, pride |-> 40],
          user_distress |-> [concern |-> 150, affection |-> 30],
          user_tired |-> [concern |-> 100, energy |-> -30],
          explosion_topic |-> [explosion_urge |-> 120, energy |-> 50],
          quiet_request |-> [boredom |-> -50],
          focused_activity |-> [curiosity |-> 30],
          gaming |-> [energy |-> 50, explosion_urge |-> 50],
          neutral_interaction |-> [boredom |-> -30]]

Clamp(x, low, high) == IF x < low THEN low ELSE IF x > high THEN high ELSE x
Abs(x) == IF x < 0 THEN -x ELSE x

NewEngine(values) ==
    [value |-> values, label |-> "neutral", since |-> 0, at |-> 0, rolling |-> {},
     explosionAt |-> Never, focusUntil |-> Never]

(* What is left of a dimension's minute; entries of a minute ago are gone. *)
Used(e, d, now) ==
    MapThenSumSet(LAMBDA x : Abs(x.delta), {x \in e.rolling : x.dim = d /\ x.at > now - Minute})

LimitDelta(e, d, requested, now) ==
    LET event == Clamp(requested, -MaxEvent, MaxEvent)
        left  == IF Used(e, d, now) > MaxMinute THEN 0 ELSE MaxMinute - Used(e, d, now)
    IN  Clamp(event, -left, left)

(* The first rule that holds gives the label.                              *)
LabelRules(e, v, now) ==
    << <<"focused", now < e.focusUntil>>,
       <<"sleepy", v.energy < 220>>,
       <<"explosion_mode", v.explosion_urge > 820 /\ v.energy > 550>>,
       <<"worried", v.concern > 650>>,
       <<"shy", v.embarrassment > 600>>,
       <<"bored", v.boredom > 700>>,
       <<"excited", v.curiosity > 650 /\ v.energy > 450>>,
       <<"proud", v.pride > 650>>,
       <<"happy", v.affection > 600>>,
       <<"neutral", TRUE>> >>

MapLabel(e, v, now) ==
    LET rules == LabelRules(e, v, now)
        first == CHOOSE i \in DOMAIN rules : rules[i][2] /\ \A j \in 1..i-1 : ~rules[j][2]
    IN  rules[first][1]

MayChange(e, candidate, now) ==
    /\ candidate # e.label
    /\ e.label = "neutral" \/ now - e.since >= LabelMinDuration
    /\ candidate = "explosion_mode" /\ e.explosionAt # Never
         => now - e.explosionAt >= ExplosionCooldown

(* _transition.  An entry is numbered so that equal ones add up.           *)
Transition(e, requested, now) ==
    LET actual == [d \in DOMAIN requested |->
                     Clamp(e.value[d] + LimitDelta(e, d, requested[d], now), 0, 1000) - e.value[d]]
        values == [d \in Dimensions |->
                     e.value[d] + (IF d \in DOMAIN requested THEN actual[d] ELSE 0)]
        moved  == {d \in DOMAIN requested : actual[d] # 0}
        label  == MapLabel(e, values, now)
        change == MayChange(e, label, now)
    IN  [e EXCEPT
          !.value = values, !.at = now,
          !.label = IF change THEN label ELSE @,
          !.since = IF change THEN now ELSE @,
          !.explosionAt = IF change /\ label = "explosion_mode" THEN now ELSE @,
          !.rolling = @ \cup {[dim |-> d, at |-> now, delta |-> actual[d], n |-> Cardinality(@)]
                                : d \in moved}]

(* decay: share is the part of the way to neutral that the elapsed time is *)
(* worth.                                                                  *)
Decay(e, now, share) ==
    Transition(e, IF now = e.at THEN <<>>
                  ELSE [d \in Dimensions |-> ((Neutrals[d] - e.value[d]) * share) \div 1000], now)

Apply(e, kind, now) ==
    Transition(IF kind = "focused_activity" THEN [e EXCEPT !.focusUntil = now + FocusDuration]
               ELSE e, Rules[kind], now)

(* classify_stimulus: of the kinds whose words a text holds, the first.    *)
Order == <<"user_tired", "user_distress", "explosion_topic", "quiet_request",
           "focused_activity", "gaming", "praise">>

Classify(kinds) ==
    IF kinds = {} THEN "neutral_interaction"
    ELSE Order[Min({i \in DOMAIN Order : Order[i] \in kinds})]

(* EmotionPromptContextBuilder.build: a message is heard after the decay.  *)
Hear(e, kinds, now, share) == Apply(Decay(e, now, share), Classify(kinds), now)
=============================================================================
