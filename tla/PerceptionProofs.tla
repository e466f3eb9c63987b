------------------------- MODULE PerceptionProofs -------------------------
(***************************************************************************)
(* Proofs about the screen observation: for any observations, changes of   *)
(* the switches, windows and contents.                                     *)
(*                                                                         *)
(* The invariant says who holds the lock and what has passed the guards,   *)
(* that a revocation throws into all it met or has a clean-up that will,   *)
(* that a clean-up of the current generation joins all that runs, and what *)
(* the close has behind it.                                                *)
(***************************************************************************)
EXTENDS PerceptionPipeline, TLAPS

(* The abbreviations the steps are written with.                           *)
USE DEF screenVars, flagVars, obsVars, NoFrame, Empty, Idle, IsEnabled, IsCloudEnabled,
        PreCaptureGuard, OCRContentGuard, Frame, End, Disabled, Nothing, MayBeUnchanged,
        MustBeUnchanged, Commit, SafeResult, Goto, Drop

(* What the user does to the screen.                                       *)
UserStep ==
  \/ \E w \in Window : SwitchTo(w)
  \/ \E w \in Window \ Blocked, c \in Content : Show(w, c)

-----------------------------------------------------------------------------
(* The types, by what a proof about them needs.                            *)
ScreenTypes == front \in Window /\ shown \in [Window -> Content]

SwitchTypes ==
  /\ flag \in BOOLEAN /\ permitted \in BOOLEAN /\ cloudFlag \in BOOLEAN
  /\ cloudPermitted \in BOOLEAN /\ closed \in BOOLEAN

StageTypes ==
  /\ lock \in Observation \cup {None}
  /\ pc \in [Observation -> Stages \cup {"idle", "lock", "done"}]
  /\ context \in [Observation -> {"none", "safe", "sensitive"}]
  /\ throw \subseteq Active

Frames == [win : Window \cup {None}, content : Content \cup {None}]
FrameTypes == frame \in [Observation -> Frames]

Lasts == [win : Window \cup {None}, content : Content \cup {None}, sens : BOOLEAN]
LastTypes == last \in Lasts

Writers == [pc : {"idle", "listener", "clean", "join", "done"},
            vision : BOOLEAN, on : BOOLEAN, loop : BOOLEAN, gen : Nat]

CloserTypes ==
  /\ joins \in [Writer \cup {None} -> SUBSET Observation]
  /\ closer \in {"none", "join", "transitions", "done"}
  /\ stale \subseteq Observation /\ spared \subseteq Observation

(* An observation runs while it holds the lock, answers when it ends, and  *)
(* sends only what the guards have let through.                            *)
StagesAreOrdered ==
  \A o \in Observation :
    /\ pc[o] \in Stages <=> lock = o
    /\ pc[o] # "done" => context[o] = "none"
    /\ pc[o] \in {"capture", "ocr", "sanitize", "cloud"} => frame[o].win \in Window \ Blocked
    /\ pc[o] \in {"ocr", "sanitize", "cloud"} => frame[o].content \in Content
    /\ pc[o] \in {"sanitize", "cloud"} => frame[o].content \notin Secret

Typed ==
  /\ ScreenTypes /\ SwitchTypes /\ StageTypes /\ FrameTypes /\ LastTypes /\ CloserTypes
  /\ generation \in Nat /\ writer \in [Writer -> Writers] /\ StagesAreOrdered

LEMMA ScreenStep == ASSUME Typed, [Next]_vars PROVE ScreenTypes'
<1>1. ASSUME NEW o \in Observation, Observe(o) \/ ObservationStep(o) PROVE ScreenTypes'
  BY <1>1, PerceptionAssumption DEF ObservationStep, Observe, Enter, LookAtWindow, Capture,
     Read, Sanitize, Analyze, Cancelled, Typed, ScreenTypes
<1>2. ASSUME NEW w \in Writer, SetFlag(w) \/ WriterStep(w) PROVE ScreenTypes'
  BY <1>2, PerceptionAssumption DEF WriterStep, SetFlag, Notify, Clean, Cleaned, Typed,
     ScreenTypes
<1>3. ASSUME Close \/ CloseJoined \/ CloseEnds PROVE ScreenTypes'
  BY <1>3, PerceptionAssumption DEF Close, CloseJoined, CloseEnds, Typed, ScreenTypes
<1>4. ASSUME UserStep PROVE ScreenTypes'
  BY <1>4, PerceptionAssumption DEF UserStep, SwitchTo, Show, Typed, ScreenTypes
<1>5. CASE UNCHANGED vars
  BY <1>5, PerceptionAssumption DEF vars, Typed, ScreenTypes
<1> QED  BY <1>1, <1>2, <1>3, <1>4, <1>5 DEF Next, UserStep

LEMMA SwitchStep == ASSUME Typed, [Next]_vars PROVE SwitchTypes'
<1>1. ASSUME NEW o \in Observation, Observe(o) \/ ObservationStep(o) PROVE SwitchTypes'
  BY <1>1, Zenon DEF ObservationStep, Observe, Enter, LookAtWindow, Capture, Read, Sanitize,
     Analyze, Cancelled, Typed, SwitchTypes, Writers
<1>2. ASSUME NEW w \in Writer, SetFlag(w) \/ WriterStep(w) PROVE SwitchTypes'
  BY <1>2, Zenon DEF WriterStep, SetFlag, Notify, Clean, Cleaned, Typed, SwitchTypes, Writers
<1>3. ASSUME Close \/ CloseJoined \/ CloseEnds PROVE SwitchTypes'
  BY <1>3, Zenon DEF Close, CloseJoined, CloseEnds, Typed, SwitchTypes, Writers
<1>4. ASSUME UserStep PROVE SwitchTypes'
  BY <1>4, Zenon DEF UserStep, SwitchTo, Show, Typed, SwitchTypes, Writers
<1>5. CASE UNCHANGED vars
  BY <1>5, Zenon DEF vars, Typed, SwitchTypes, Writers
<1> QED  BY <1>1, <1>2, <1>3, <1>4, <1>5 DEF Next, UserStep

LEMMA StageStep == ASSUME Typed, [Next]_vars PROVE StageTypes'
<1>1. ASSUME NEW o \in Observation, Observe(o) \/ ObservationStep(o) PROVE StageTypes'
  BY <1>1, PerceptionAssumption DEF ObservationStep, Observe, Enter, LookAtWindow, Capture,
     Read, Sanitize, Analyze, Cancelled, Typed, StageTypes, Active, Stages
<1>2. ASSUME NEW w \in Writer, SetFlag(w) \/ WriterStep(w) PROVE StageTypes'
  BY <1>2, PerceptionAssumption DEF WriterStep, SetFlag, Notify, Clean, Cleaned, Typed,
     StageTypes, Active, Stages
<1>3. ASSUME Close \/ CloseJoined \/ CloseEnds PROVE StageTypes'
  BY <1>3, PerceptionAssumption DEF Close, CloseJoined, CloseEnds, Typed, StageTypes, Active,
     Stages
<1>4. ASSUME UserStep PROVE StageTypes'
  BY <1>4, PerceptionAssumption DEF UserStep, SwitchTo, Show, Typed, StageTypes, Active, Stages
<1>5. CASE UNCHANGED vars
  BY <1>5, PerceptionAssumption DEF vars, Typed, StageTypes, Active, Stages
<1> QED  BY <1>1, <1>2, <1>3, <1>4, <1>5 DEF Next, UserStep

(* What the steps make of the records.                                     *)
LEMMA RecordsAre ==
  /\ NoFrame \in Frames /\ Empty \in Lasts
  /\ \A f \in Frames, w \in Window : [f EXCEPT !.win = w] \in Frames
  /\ \A f \in Frames, c \in Content : [f EXCEPT !.content = c] \in Frames
  /\ \A f \in Frames, b \in BOOLEAN : [win |-> f.win, content |-> f.content, sens |-> b] \in Lasts
  /\ \A l \in Lasts, c \in Content : [l EXCEPT !.content = c] \in Lasts
  /\ \A v \in BOOLEAN, on \in BOOLEAN, l \in BOOLEAN, n \in Nat :
       [pc |-> "listener", vision |-> v, on |-> on, loop |-> l, gen |-> n] \in Writers
  /\ \A x \in Writers, n \in Nat : [x EXCEPT !.pc = "clean", !.gen = n] \in Writers
  /\ \A x \in Writers : [x EXCEPT !.pc = "join"] \in Writers
  /\ [Idle EXCEPT !.pc = "done"] \in Writers
BY DEF Frames, Lasts, Writers

LEMMA FrameStep == ASSUME Typed, [Next]_vars PROVE FrameTypes'
<1>1. ASSUME NEW o \in Observation, Observe(o) \/ ObservationStep(o) PROVE FrameTypes'
  <2> USE DEF Typed, FrameTypes
  <2>1. ASSUME frame' = frame \/ frame' = [frame EXCEPT ![o] = NoFrame] PROVE FrameTypes'
    <3> HIDE DEF NoFrame
    <3> QED  BY <2>1, RecordsAre
  <2>2. ASSUME LookAtWindow(o), frame' = [frame EXCEPT ![o].win = front] PROVE FrameTypes'
    <3> DEFINE f == [frame[o] EXCEPT !.win = front]
    <3>1. f \in Frames
      BY RecordsAre DEF ScreenTypes
    <3>2. frame' = [frame EXCEPT ![o] = f]
      BY <2>2
    <3> HIDE DEF f
    <3> QED  BY <3>1, <3>2
  <2>3. ASSUME NEW w \in Window, frame' = [frame EXCEPT ![o].content = shown[w]] PROVE FrameTypes'
    <3> DEFINE f == [frame[o] EXCEPT !.content = shown[w]]
    <3>1. f \in Frames
      BY RecordsAre DEF ScreenTypes
    <3>2. frame' = [frame EXCEPT ![o] = f]
      BY <2>3
    <3> HIDE DEF f
    <3> QED  BY <3>1, <3>2
  <2> HIDE DEF FrameTypes
  <2>4. CASE Capture(o) /\ frame' # frame /\ frame' # [frame EXCEPT ![o] = NoFrame]
    <3>1. frame[o].win \in Window
      BY <2>4 DEF Capture, StagesAreOrdered
    <3>2. frame' = [frame EXCEPT ![o].content = shown[frame[o].win]]
      BY <2>4 DEF Capture
    <3> QED  BY <2>3, <3>1, <3>2
  <2>5. CASE ~Capture(o)
    BY <1>1, <2>1, <2>2, <2>5 DEF ObservationStep, Observe, Enter, LookAtWindow, Read, Sanitize,
       Analyze, Cancelled
  <2> QED  BY <2>1, <2>4, <2>5
<1>2. ASSUME NEW w \in Writer, SetFlag(w) \/ WriterStep(w) PROVE FrameTypes'
  BY <1>2, PerceptionAssumption DEF WriterStep, SetFlag, Notify, Clean, Cleaned, Typed,
     ScreenTypes, StageTypes, FrameTypes
<1>3. ASSUME Close \/ CloseJoined \/ CloseEnds PROVE FrameTypes'
  BY <1>3, PerceptionAssumption DEF Close, CloseJoined, CloseEnds, Typed, ScreenTypes,
     StageTypes, FrameTypes
<1>4. ASSUME UserStep PROVE FrameTypes'
  BY <1>4, PerceptionAssumption DEF UserStep, SwitchTo, Show, Typed, ScreenTypes, StageTypes,
     FrameTypes
<1>5. CASE UNCHANGED vars
  BY <1>5, PerceptionAssumption DEF vars, Typed, ScreenTypes, StageTypes, FrameTypes
<1> QED  BY <1>1, <1>2, <1>3, <1>4, <1>5 DEF Next, UserStep

LEMMA LastStep == ASSUME Typed, [Next]_vars PROVE LastTypes'
<1>1. ASSUME NEW o \in Observation, Observe(o) \/ ObservationStep(o) PROVE LastTypes'
  <2> DEFINE s(b) == [win |-> frame[o].win, content |-> frame[o].content, sens |-> b]
             l == [last EXCEPT !.content = shown[frame[o].win]]
  <2>1. last' \in {last, Empty, s(TRUE), s(FALSE)} \/ (Capture(o) /\ last' = l)
    BY <1>1 DEF ObservationStep, Observe, Enter, LookAtWindow, Capture, Read, Sanitize, Analyze,
                Cancelled
  <2>2. s(TRUE) \in Lasts /\ s(FALSE) \in Lasts
    BY RecordsAre DEF Typed, FrameTypes
  <2>3. Capture(o) => l \in Lasts
    BY RecordsAre DEF Capture, StagesAreOrdered, Typed, ScreenTypes, LastTypes
  <2> HIDE DEF s, l, Empty
  <2> QED  BY <2>1, <2>2, <2>3, RecordsAre DEF Typed, LastTypes
<1>2. ASSUME NEW w \in Writer, SetFlag(w) \/ WriterStep(w) PROVE LastTypes'
  <2>1. last' = last \/ last' = Empty
    BY <1>2 DEF WriterStep, SetFlag, Notify, Clean, Cleaned
  <2> HIDE DEF Empty
  <2> QED  BY <2>1, RecordsAre DEF Typed, LastTypes
<1>3. ASSUME Close \/ CloseJoined \/ CloseEnds PROVE LastTypes'
  <2>1. last' = last \/ last' = Empty
    BY <1>3 DEF Close, CloseJoined, CloseEnds
  <2> HIDE DEF Empty
  <2> QED  BY <2>1, RecordsAre DEF Typed, LastTypes
<1>4. ASSUME UserStep PROVE LastTypes'
  BY <1>4, PerceptionAssumption DEF UserStep, SwitchTo, Show, Typed, ScreenTypes, FrameTypes,
     LastTypes
<1>5. CASE UNCHANGED vars
  BY <1>5, PerceptionAssumption DEF vars, Typed, ScreenTypes, FrameTypes, LastTypes
<1> QED  BY <1>1, <1>2, <1>3, <1>4, <1>5 DEF Next, UserStep

LEMMA CloserStep == ASSUME Typed, [Next]_vars PROVE CloserTypes'
<1>1. ASSUME NEW o \in Observation, Observe(o) \/ ObservationStep(o) PROVE CloserTypes'
  BY <1>1, PerceptionAssumption DEF ObservationStep, Observe, Enter, LookAtWindow, Capture,
     Read, Sanitize, Analyze, Cancelled, Typed, CloserTypes, Active
<1>2. ASSUME NEW w \in Writer, SetFlag(w) \/ WriterStep(w) PROVE CloserTypes'
  BY <1>2, PerceptionAssumption DEF WriterStep, SetFlag, Notify, Clean, Cleaned, Typed,
     CloserTypes, Active
<1>3. ASSUME Close \/ CloseJoined \/ CloseEnds PROVE CloserTypes'
  BY <1>3, PerceptionAssumption DEF Close, CloseJoined, CloseEnds, Typed, CloserTypes, Active
<1>4. ASSUME UserStep PROVE CloserTypes'
  BY <1>4, PerceptionAssumption DEF UserStep, SwitchTo, Show, Typed, CloserTypes, Active
<1>5. CASE UNCHANGED vars
  BY <1>5, PerceptionAssumption DEF vars, Typed, CloserTypes, Active
<1> QED  BY <1>1, <1>2, <1>3, <1>4, <1>5 DEF Next, UserStep

LEMMA GenerationStep == ASSUME Typed, [Next]_vars PROVE (generation \in Nat)'
<1>1. ASSUME NEW o \in Observation, Observe(o) \/ ObservationStep(o) PROVE (generation \in Nat)'
  BY <1>1, PerceptionAssumption DEF ObservationStep, Observe, Enter, LookAtWindow, Capture,
     Read, Sanitize, Analyze, Cancelled, Typed
<1>2. ASSUME NEW w \in Writer, SetFlag(w) \/ WriterStep(w) PROVE (generation \in Nat)'
  BY <1>2, PerceptionAssumption DEF WriterStep, SetFlag, Notify, Clean, Cleaned, Typed
<1>3. ASSUME Close \/ CloseJoined \/ CloseEnds PROVE (generation \in Nat)'
  BY <1>3, PerceptionAssumption DEF Close, CloseJoined, CloseEnds, Typed
<1>4. ASSUME UserStep PROVE (generation \in Nat)'
  BY <1>4, PerceptionAssumption DEF UserStep, SwitchTo, Show, Typed
<1>5. CASE UNCHANGED vars
  BY <1>5, PerceptionAssumption DEF vars, Typed
<1> QED  BY <1>1, <1>2, <1>3, <1>4, <1>5 DEF Next, UserStep

LEMMA WriterTypesStep == ASSUME Typed, [Next]_vars PROVE (writer \in [Writer -> Writers])'
<1>1. ASSUME NEW o \in Observation, Observe(o) \/ ObservationStep(o) PROVE (writer \in [Writer -> Writers])'
  BY <1>1, PerceptionAssumption DEF ObservationStep, Observe, Enter, LookAtWindow, Capture,
     Read, Sanitize, Analyze, Cancelled, Typed
<1>2. ASSUME NEW w \in Writer, SetFlag(w) \/ WriterStep(w) PROVE (writer \in [Writer -> Writers])'
  <2> DEFINE Put(x) == writer' = [writer EXCEPT ![w] = x]
  <2>1. ASSUME NEW x \in Writers, Put(x) PROVE writer' \in [Writer -> Writers]
    BY <2>1 DEF Typed
  <2>2. CASE writer' = Drop(w)
    BY <2>1, <2>2, RecordsAre
  <2>3. CASE SetFlag(w)
    <3>1. PICK v \in BOOLEAN, on \in BOOLEAN, l \in BOOLEAN :
            Put([pc |-> "listener", vision |-> v, on |-> on, loop |-> l, gen |-> 0])
      BY <2>3 DEF SetFlag
    <3>2. [pc |-> "listener", vision |-> v, on |-> on, loop |-> l, gen |-> 0] \in Writers
      BY RecordsAre
    <3> HIDE DEF Put
    <3> QED  BY <2>1, <3>1, <3>2
  <2>4. CASE Notify(w) /\ writer' # Drop(w)
    <3>1. Put([writer[w] EXCEPT !.pc = "clean", !.gen = generation + 1])
      BY <2>4 DEF Notify, Typed
    <3>2. generation + 1 \in Nat /\ writer[w] \in Writers
      BY DEF Typed
    <3>3. [writer[w] EXCEPT !.pc = "clean", !.gen = generation + 1] \in Writers
      BY <3>2, RecordsAre
    <3> HIDE DEF Put
    <3> QED  BY <2>1, <3>1, <3>3
  <2>5. CASE Clean(w) /\ writer' # Drop(w)
    <3>1. Put([writer[w] EXCEPT !.pc = "join"])
      BY <2>5 DEF Clean, Typed
    <3>2. [writer[w] EXCEPT !.pc = "join"] \in Writers
      BY RecordsAre DEF Typed
    <3> HIDE DEF Put
    <3> QED  BY <2>1, <3>1, <3>2
  <2> QED  BY <1>2, <2>2, <2>3, <2>4, <2>5 DEF WriterStep, Cleaned
<1>3. ASSUME Close \/ CloseJoined \/ CloseEnds PROVE (writer \in [Writer -> Writers])'
  BY <1>3, PerceptionAssumption DEF Close, CloseJoined, CloseEnds, Typed
<1>4. ASSUME UserStep PROVE (writer \in [Writer -> Writers])'
  BY <1>4, PerceptionAssumption DEF UserStep, SwitchTo, Show, Typed
<1>5. CASE UNCHANGED vars
  BY <1>5, PerceptionAssumption DEF vars, Typed
<1> QED  BY <1>1, <1>2, <1>3, <1>4, <1>5 DEF Next, UserStep

LEMMA StagesStep == ASSUME Typed, [Next]_vars PROVE StagesAreOrdered'
<1>1. ASSUME NEW o \in Observation, Observe(o) \/ ObservationStep(o) PROVE StagesAreOrdered'
  BY <1>1, PerceptionAssumption DEF ObservationStep, Observe, Enter, LookAtWindow, Capture,
     Read, Sanitize, Analyze, Cancelled, Typed, ScreenTypes, StageTypes, FrameTypes, Frames,
     StagesAreOrdered, Active, Stages
<1>2. ASSUME NEW w \in Writer, SetFlag(w) \/ WriterStep(w) PROVE StagesAreOrdered'
  BY <1>2, PerceptionAssumption DEF WriterStep, SetFlag, Notify, Clean, Cleaned, Typed,
     ScreenTypes, StageTypes, FrameTypes, Frames, StagesAreOrdered, Active, Stages
<1>3. ASSUME Close \/ CloseJoined \/ CloseEnds PROVE StagesAreOrdered'
  BY <1>3, PerceptionAssumption DEF Close, CloseJoined, CloseEnds, Typed, ScreenTypes,
     StageTypes, FrameTypes, Frames, StagesAreOrdered, Active, Stages
<1>4. ASSUME UserStep PROVE StagesAreOrdered'
  BY <1>4, PerceptionAssumption DEF UserStep, SwitchTo, Show, Typed, ScreenTypes, StageTypes,
     FrameTypes, Frames, StagesAreOrdered, Active, Stages
<1>5. CASE UNCHANGED vars
  BY <1>5, PerceptionAssumption DEF vars, Typed, ScreenTypes, StageTypes, FrameTypes, Frames,
     StagesAreOrdered, Active, Stages
<1> QED  BY <1>1, <1>2, <1>3, <1>4, <1>5 DEF Next, UserStep

LEMMA TypedStep == Typed /\ [Next]_vars => Typed'
BY ScreenStep, SwitchStep, StageStep, FrameStep, LastStep, CloserStep, GenerationStep,
   WriterTypesStep, StagesStep DEF Typed

-----------------------------------------------------------------------------
(* A revocation that has not been taken back has thrown, or a clean-up of  *)
(* this generation will.                                                   *)
RevokedIsThrown ==
  /\ \A o \in stale : pc[o] # "idle"
  /\ \A o \in stale \ spared :
       /\ context[o] = "none"
       /\ \/ o \notin Active \/ o \in throw
          \/ ~permitted /\ \E w \in Writer : writer[w].pc = "clean" /\ writer[w].gen = generation

(* A clean-up of this generation joins all that runs: nothing begins.      *)
CleanJoinsAll ==
  \A w \in Writer :
    /\ writer[w].pc \in {"clean", "join"} => writer[w].gen <= generation
    /\ writer[w].pc = "join" /\ writer[w].gen = generation => ~permitted /\ Active \subseteq joins[w]

(* What close has behind it at each of its awaits.                         *)
CloseIsOrdered ==
  /\ closer # "none" => closed
  /\ closed => ~permitted
  /\ closer = "join" => Active \subseteq joins[None]
  /\ closer \in {"transitions", "done"} => Active = {}
  /\ closer = "done" => last = Empty

Barrier == Typed /\ RevokedIsThrown /\ CleanJoinsAll /\ CloseIsOrdered

LEMMA RevokedStep == ASSUME Barrier, [Next]_vars PROVE RevokedIsThrown'
<1>1. ASSUME NEW o \in Observation, Observe(o) \/ ObservationStep(o) PROVE RevokedIsThrown'
  BY <1>1, PerceptionAssumption DEF ObservationStep, Observe, Enter, LookAtWindow, Capture,
     Read, Sanitize, Analyze, Cancelled, Barrier, Typed, StageTypes, CloserTypes, Active,
     Stages, Writers, StagesAreOrdered, RevokedIsThrown, CleanJoinsAll, CloseIsOrdered
<1>2. ASSUME NEW w \in Writer, SetFlag(w) \/ WriterStep(w) PROVE RevokedIsThrown'
  BY <1>2, PerceptionAssumption, SMTT(60) DEF WriterStep, SetFlag, Notify, Clean, Cleaned, Barrier, Typed,
     StageTypes, CloserTypes, Active, Stages, Writers, StagesAreOrdered, RevokedIsThrown,
     CleanJoinsAll, CloseIsOrdered
<1>3. ASSUME Close \/ CloseJoined \/ CloseEnds PROVE RevokedIsThrown'
  BY <1>3, PerceptionAssumption DEF Close, CloseJoined, CloseEnds, Barrier, Typed, StageTypes,
     CloserTypes, Active, Stages, Writers, StagesAreOrdered, RevokedIsThrown, CleanJoinsAll,
     CloseIsOrdered
<1>4. ASSUME UserStep PROVE RevokedIsThrown'
  BY <1>4, PerceptionAssumption DEF UserStep, SwitchTo, Show, Barrier, Typed, StageTypes,
     CloserTypes, Active, Stages, Writers, StagesAreOrdered, RevokedIsThrown, CleanJoinsAll,
     CloseIsOrdered
<1>5. CASE UNCHANGED vars
  BY <1>5, PerceptionAssumption DEF vars, Barrier, Typed, StageTypes, CloserTypes, Active,
     Stages, Writers, StagesAreOrdered, RevokedIsThrown, CleanJoinsAll, CloseIsOrdered
<1> QED  BY <1>1, <1>2, <1>3, <1>4, <1>5 DEF Next, UserStep

LEMMA CleanStep == ASSUME Barrier, [Next]_vars PROVE CleanJoinsAll'
<1>1. ASSUME NEW o \in Observation, Observe(o) \/ ObservationStep(o) PROVE CleanJoinsAll'
  BY <1>1, PerceptionAssumption DEF ObservationStep, Observe, Enter, LookAtWindow, Capture,
     Read, Sanitize, Analyze, Cancelled, Barrier, Typed, StageTypes, CloserTypes, Active,
     Stages, Writers, CleanJoinsAll, CloseIsOrdered
<1>2. ASSUME NEW w \in Writer, SetFlag(w) \/ WriterStep(w) PROVE CleanJoinsAll'
  BY <1>2, PerceptionAssumption DEF WriterStep, SetFlag, Notify, Clean, Cleaned, Barrier, Typed,
     StageTypes, CloserTypes, Active, Stages, Writers, CleanJoinsAll, CloseIsOrdered
<1>3. ASSUME Close \/ CloseJoined \/ CloseEnds PROVE CleanJoinsAll'
  BY <1>3, PerceptionAssumption DEF Close, CloseJoined, CloseEnds, Barrier, Typed, StageTypes,
     CloserTypes, Active, Stages, Writers, CleanJoinsAll, CloseIsOrdered
<1>4. ASSUME UserStep PROVE CleanJoinsAll'
  BY <1>4, PerceptionAssumption DEF UserStep, SwitchTo, Show, Barrier, Typed, StageTypes,
     CloserTypes, Active, Stages, Writers, CleanJoinsAll, CloseIsOrdered
<1>5. CASE UNCHANGED vars
  BY <1>5, PerceptionAssumption DEF vars, Barrier, Typed, StageTypes, CloserTypes, Active,
     Stages, Writers, CleanJoinsAll, CloseIsOrdered
<1> QED  BY <1>1, <1>2, <1>3, <1>4, <1>5 DEF Next, UserStep

LEMMA CloseOrderStep == ASSUME Barrier, [Next]_vars PROVE CloseIsOrdered'
<1>1. ASSUME NEW o \in Observation, Observe(o) \/ ObservationStep(o) PROVE CloseIsOrdered'
  BY <1>1, PerceptionAssumption DEF ObservationStep, Observe, Enter, LookAtWindow, Capture,
     Read, Sanitize, Analyze, Cancelled, Barrier, Typed, StageTypes, CloserTypes, Active,
     Stages, CloseIsOrdered
<1>2. ASSUME NEW w \in Writer, SetFlag(w) \/ WriterStep(w) PROVE CloseIsOrdered'
  BY <1>2, PerceptionAssumption DEF WriterStep, SetFlag, Notify, Clean, Cleaned, Barrier, Typed,
     StageTypes, CloserTypes, Active, Stages, CloseIsOrdered
<1>3. ASSUME Close \/ CloseJoined \/ CloseEnds PROVE CloseIsOrdered'
  BY <1>3, PerceptionAssumption DEF Close, CloseJoined, CloseEnds, Barrier, Typed, StageTypes,
     CloserTypes, Active, Stages, CloseIsOrdered
<1>4. ASSUME UserStep PROVE CloseIsOrdered'
  BY <1>4, PerceptionAssumption DEF UserStep, SwitchTo, Show, Barrier, Typed, StageTypes,
     CloserTypes, Active, Stages, CloseIsOrdered
<1>5. CASE UNCHANGED vars
  BY <1>5, PerceptionAssumption DEF vars, Barrier, Typed, StageTypes, CloserTypes, Active,
     Stages, CloseIsOrdered
<1> QED  BY <1>1, <1>2, <1>3, <1>4, <1>5 DEF Next, UserStep

-----------------------------------------------------------------------------
LEMMA BarrierInit == Init => Barrier
<1> SUFFICES ASSUME Init PROVE Barrier
  OBVIOUS
<1>1. ScreenTypes
  <2>1. \A f : f \in Content => (CHOOSE c \in Content : TRUE) \in Content
    OBVIOUS
  <2>2. PICK s \in [Window \ Blocked -> Content] :
          shown = [w \in Window |-> IF w \in Blocked THEN CHOOSE c \in Content : TRUE ELSE s[w]]
    BY DEF Init
  <2>3. (CHOOSE c \in Content : TRUE) \in Content
    BY <2>1, PerceptionAssumption
  <2> QED  BY <2>2, <2>3 DEF Init, ScreenTypes
<1>2. SwitchTypes
  BY DEF Init, SwitchTypes
<1>3. StageTypes /\ CloserTypes /\ generation \in Nat
  BY DEF Init, StageTypes, CloserTypes, Active, Stages
<1>4. FrameTypes /\ LastTypes
  BY RecordsAre DEF Init, FrameTypes, LastTypes
<1>5. writer \in [Writer -> Writers]
  <2>1. Idle \in Writers
    BY DEF Writers
  <2> HIDE DEF Idle
  <2> QED  BY <2>1, RecordsAre DEF Init
<1>6. StagesAreOrdered
  BY PerceptionAssumption DEF Init, StagesAreOrdered, Stages
<1>7. RevokedIsThrown /\ CleanJoinsAll /\ CloseIsOrdered
  BY DEF Init, RevokedIsThrown, CleanJoinsAll, CloseIsOrdered
<1> QED  BY <1>1, <1>2, <1>3, <1>4, <1>5, <1>6, <1>7 DEF Barrier, Typed

(* The inductive invariant: stages under their lock, a revocation that     *)
(* throws into all it meets or has a clean-up that will, and clean-ups and *)
(* a close that wait for everything that runs.                             *)
THEOREM BarrierCorrect == PerceptionSpec => []Barrier
<1>1. Barrier /\ [Next]_vars => Barrier'
  BY TypedStep, RevokedStep, CleanStep, CloseOrderStep DEF Barrier
<1> QED  BY BarrierInit, <1>1, PTL DEF PerceptionSpec

(* Every variable of the pipeline keeps its type.                          *)
THEOREM TypeCorrect == PerceptionSpec => []PerceptionTypeOK
<1>1. Barrier => PerceptionTypeOK
  BY DEF Barrier, Typed, ScreenTypes, SwitchTypes, StageTypes, FrameTypes, Frames, LastTypes,
         Lasts, CloserTypes, Writers, PerceptionTypeOK
<1> QED  BY <1>1, BarrierCorrect, PTL

(* _observation_lock: at most one observation is in a stage, whichever of  *)
(* them end by an error, a cancellation or a switch.                       *)
THEOREM ObservationsAreExclusive ==
  PerceptionSpec => [](\A o, p \in Observation : pc[o] \in Stages /\ pc[p] \in Stages => o = p)
<1>1. Barrier => \A o, p \in Observation : pc[o] \in Stages /\ pc[p] \in Stages => o = p
  BY DEF Barrier, Typed, StagesAreOrdered
<1> QED  BY <1>1, BarrierCorrect, PTL

(* An observation that ran when vision was revoked yields nothing; when    *)
(* the clean-up of the last revocation returns nothing that it met runs    *)
(* and the detector has forgotten the screen; close leaves nothing.        *)
THEOREM RevocationIsBarrierCorrect == PerceptionSpec => RevocationIsBarrier
<1>1. Barrier => /\ \A o \in stale \ spared : context[o] = "none"
                 /\ closer = "done" => last = Empty /\ Active = {}
  BY DEF Barrier, RevokedIsThrown, CloseIsOrdered
<1>2. Barrier /\ [Next]_vars
      => [\A w \in Writer :
            writer[w].pc \in {"clean", "join"} /\ writer'[w].pc = "done" /\ ~permitted'
            /\ generation' = writer[w].gen
            => last' = Empty /\ stale \cap Active' \subseteq spared]_vars
  <2> SUFFICES ASSUME Barrier, [Next]_vars, NEW w \in Writer,
                      writer[w].pc \in {"clean", "join"}, writer'[w].pc = "done", ~permitted',
                      generation' = writer[w].gen
               PROVE  last' = Empty /\ stale \cap Active' \subseteq spared
    OBVIOUS
  <2>1. writer \in [Writer -> Writers] /\ generation \in Nat
    BY DEF Barrier, Typed
  <2>2. \E v \in Writer : SetFlag(v) \/ WriterStep(v)
    <3>1. UNCHANGED writer \/ \E v \in Writer : SetFlag(v) \/ WriterStep(v)
      <4>1. ASSUME NEW o \in Observation, Observe(o) \/ ObservationStep(o) PROVE UNCHANGED writer
        BY <4>1 DEF ObservationStep, Observe, Enter, LookAtWindow, Capture, Read, Sanitize,
           Analyze, Cancelled
      <4>2. CASE Close \/ CloseJoined \/ CloseEnds
        BY <4>2 DEF Close, CloseJoined, CloseEnds
      <4>3. CASE UserStep \/ UNCHANGED vars
        BY <4>3 DEF UserStep, SwitchTo, Show, vars
      <4> QED  BY <4>1, <4>2, <4>3 DEF Next, UserStep
    <3> QED  BY <3>1
  <2>3. PICK v \in Writer : SetFlag(v) \/ WriterStep(v)
    BY <2>2
  <2>4. v = w /\ (Clean(w) \/ Cleaned(w))
    BY <2>1, <2>3 DEF SetFlag, WriterStep, Notify, Clean, Cleaned, Writers
  <2>5. CASE Clean(w)
    BY <2>1, <2>5 DEF Clean, Writers
  <2>6. CASE Cleaned(w)
    <3>1. UNCHANGED <<pc, permitted, generation>> /\ joins[w] \cap Active = {} /\ last' = Empty
      BY <2>6 DEF Cleaned
    <3>2. Active \subseteq joins[w]
      BY <2>6, <3>1 DEF Cleaned, Barrier, CleanJoinsAll
    <3> QED  BY <3>1, <3>2 DEF Active
  <2> QED  BY <2>4, <2>5, <2>6
<1> QED  BY <1>1, <1>2, BarrierCorrect, PTL DEF PerceptionSpec, RevocationIsBarrier

(* A screen that the content guard stops is never reported as safe and     *)
(* never sent, and an upload starts only while both switches are on.       *)
THEOREM SecretStaysLocalCorrect == PerceptionSpec => SecretStaysLocal
<1>1. Barrier /\ [Next]_vars
      => [\A o \in Observation :
            /\ pc[o] # "done" /\ context'[o] = "safe" => frame[o].content \in Content \ Secret
            /\ pc[o] # "cloud" /\ pc'[o] = "cloud" =>
                 /\ frame[o].content \in Content \ Secret
                 /\ permitted /\ cloudPermitted /\ flag /\ cloudFlag]_vars
  <2> SUFFICES ASSUME Barrier, [Next]_vars, NEW o \in Observation
               PROVE  /\ pc[o] # "done" /\ context'[o] = "safe"
                           => frame[o].content \in Content \ Secret
                      /\ pc[o] # "cloud" /\ pc'[o] = "cloud" =>
                           /\ frame[o].content \in Content \ Secret
                           /\ permitted /\ cloudPermitted /\ flag /\ cloudFlag
    OBVIOUS
  <2> DEFINE Goal == /\ pc[o] # "done" /\ context'[o] = "safe"
                          => frame[o].content \in Content \ Secret
                     /\ pc[o] # "cloud" /\ pc'[o] = "cloud" =>
                          /\ frame[o].content \in Content \ Secret
                          /\ permitted /\ cloudPermitted /\ flag /\ cloudFlag
  <2>1. /\ pc \in [Observation -> Stages \cup {"idle", "lock", "done"}]
        /\ context \in [Observation -> {"none", "safe", "sensitive"}]
        /\ StagesAreOrdered
    BY DEF Barrier, Typed, StageTypes
  <2>2. ASSUME NEW q \in Observation, Observe(q) \/ ObservationStep(q) PROVE Goal
    BY <2>1, <2>2 DEF ObservationStep, Observe, Enter, LookAtWindow, Capture, Read, Sanitize,
       Analyze, Cancelled, StagesAreOrdered, Stages
  <2>3. CASE UNCHANGED <<pc, context>>
    BY <2>1, <2>3 DEF StagesAreOrdered
  <2>4. UNCHANGED <<pc, context>> \/ \E q \in Observation : Observe(q) \/ ObservationStep(q)
    BY DEF Next, vars, SetFlag, WriterStep, Notify, Clean, Cleaned, Close, CloseJoined, CloseEnds,
           SwitchTo, Show
  <2> QED  BY <2>2, <2>3, <2>4
<1> QED  BY <1>1, BarrierCorrect, PTL DEF PerceptionSpec, SecretStaysLocal
=============================================================================
