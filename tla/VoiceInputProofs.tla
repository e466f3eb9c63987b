-------------------------- MODULE VoiceInputProofs --------------------------
(***************************************************************************)
(* Proofs about the push-to-talk recorder: for any number of calls, any of *)
(* them cancelled by their callers, and any size of the buffer.            *)
(*                                                                         *)
(* The types need no assumption.  The rest is proved for a patient caller, *)
(* who does not start while an earlier start runs: with two starts at once *)
(* one loses its stream (ClosedMicrophoneIsOff).                           *)
(***************************************************************************)
EXTENDS VoiceInput, TLAPS

(* The abbreviations the steps are written with.                           *)
USE DEF fieldVars, stopVars, dogVars, micVars, NoLocal, NoCancel, Goto, Throw, ResetToIdle,
        Over, StopWatchdog, CancelRunning, WithCancel, Register, Abandon, FinishStop, CancelEnds

-----------------------------------------------------------------------------
(* The steps, by what they belong to.                                      *)
StartStep(c) ==
  Start(c) \/ StartAfterCancel(c) \/ Opened(c) \/ OpenFails(c) \/ Abort(c) \/ StartFails(c)

StopStep(c) ==
  Stop(c) \/ Captured(c) \/ Written(c) \/ Heard(c) \/ Transcribed(c) \/ Delivered(c) \/ Sent(c)

RecordStep(c) == Halt(c) \/ Disturb(c) \/ WatchdogFires(c) \/ WatchdogEnds(c)

LEMMA NextIs ==
  ASSUME Next
  PROVE  \/ \E c \in Call : \/ StartStep(c) \/ StopStep(c) \/ RecordStep(c)
                            \/ Cancel(c) \/ Close(c)
         \/ Frame \/ CancelStep \/ CloseStep
BY DEF Next, CallStep, WatchdogStep, StartStep, StopStep, RecordStep

-----------------------------------------------------------------------------
(* The microphone: a stream that is taken is held, and one that is released *)
(* is closed; the others stay as they are.                                  *)
LEMMA ReleaseIs ==
  ASSUME NEW who, Release(who)
  PROVE  /\ stream' = stream /\ open' \subseteq open /\ held' \subseteq held
         /\ \A h \in held : h[2] \in open' => h \in held'
         /\ \A s \in open : (\A h \in held : h[2] # s) => s \in open'
BY DEF Release

LEMMA TakeStreamIs ==
  ASSUME NEW who, TakeStream(who)
  PROVE  /\ stream' = None /\ open' = open /\ held \subseteq held'
         /\ stream # None => (\E h \in held' : h[2] = stream)
         /\ \A h \in held' : h \in held \/ (stream # None /\ h[2] = stream)
<1>1. stream' = None /\ open' = open
  BY DEF TakeStream
<1>2. CASE stream = None
  <2>1. held' = held
    BY <1>2 DEF TakeStream
  <2> QED  BY <1>1, <1>2, <2>1
<1>3. CASE stream # None
  <2> DEFINE t == <<who, stream>>
  <2>1. held' = held \cup {t}
    BY <1>3 DEF TakeStream
  <2>2. t[2] = stream
    OBVIOUS
  <2> HIDE DEF t
  <2> QED  BY <1>1, <1>3, <2>1, <2>2
<1> QED  BY <1>2, <1>3

-----------------------------------------------------------------------------
(* The types, by what a proof about them needs.                            *)
Frames == 0..MaxFrames
Locals == [dog : Call \cup {None}, timedOut : BOOLEAN, pcm : Frames, limit : BOOLEAN]

LEMMA FramesAre ==
  /\ 0 \in Frames /\ (\A n \in Frames : n # MaxFrames => n + 1 \in Frames)
  /\ None \notin Call \cup Ops
BY VoiceAssumption DEF Frames

FieldTypes ==
  /\ state \in {"idle", "recording", "timed_out", "transcribing", "closed"}
  /\ recId \in Call \cup {None} /\ dogRef \in Call \cup {None} /\ oper \in Call \cup {None}

FlagTypes == cancelRequested \in BOOLEAN /\ limitError \in BOOLEAN /\ closing \in BOOLEAN

CallTypes ==
  /\ pc \in [Call -> {"idle", "join", "begin", "opening", "abort", "halt", "release",
                      "write", "hear", "send", "wait", "done"}]
  /\ op \in [Call -> Ops \cup {None}]

TaskTypes ==
  /\ throw \subseteq Call /\ wav \subseteq Call /\ long \subseteq Call /\ dropped \subseteq Call
  /\ trans \in [Call -> {"none", "running", "cancelling", "text", "over"}]
  /\ send \in [Call -> {"none", "running", "cancelling", "over"}]

MicTypes ==
  /\ dog \in [Call -> {"none", "armed", "stopping", "done"}]
  /\ dogThrow \subseteq Call
  /\ cancelT \in [pc : {"none", "begin", "task", "halt", "release", "dog", "stop"},
                  op : Call \cup {None}, dog : Call \cup {None}]
  /\ closeT \in {"none", "cancel", "cancelling", "sends", "join", "source", "done"}
  /\ stream \in Call \cup {None} /\ open \subseteq Call

HeldTypes ==
  held \subseteq (({"call", "dog"} \X Call) \cup {<<"cancel">>, <<"close">>}) \X Call

(* A call is only where its method leads.                                  *)
CallsAreOrdered ==
  /\ \A c \in Call :
       /\ op[c] = None <=> pc[c] = "idle"
       /\ pc[c] \in {"join", "begin", "opening", "abort"} => op[c] = "start"
       /\ pc[c] \in {"halt", "release"} => op[c] \in {"start", "stop", "send"}
       /\ pc[c] \in {"write", "hear"} => op[c] \in {"stop", "send"}
       /\ pc[c] = "wait" => op[c] \in {"cancel", "close"}
  /\ state = "transcribing" => oper \in Call /\ op[oper] \in {"stop", "send"}

Typed ==
  /\ FieldTypes /\ FlagTypes /\ CallTypes /\ TaskTypes /\ MicTypes /\ HeldTypes
  /\ pcm \in Frames /\ local \in [Call -> Locals]
  /\ CallsAreOrdered

(* Every step keeps the types.                                             *)
LEMMA FieldStep == ASSUME Typed, [Next]_vars PROVE FieldTypes'
<1>1. ASSUME NEW c \in Call, StartStep(c) PROVE FieldTypes'
  BY <1>1, FramesAre DEF StartStep, Start, StartAfterCancel, Opened, OpenFails, Abort,
     StartFails, Typed, FieldTypes
<1>2. ASSUME NEW c \in Call, StopStep(c) PROVE FieldTypes'
  BY <1>2, FramesAre DEF StopStep, Stop, Captured, Written, Heard, Transcribed, Delivered, Sent,
     Typed, FieldTypes
<1>3. ASSUME NEW c \in Call, RecordStep(c) PROVE FieldTypes'
  BY <1>3, FramesAre DEF RecordStep, Halt, Disturb, WatchdogFires, WatchdogEnds, Typed,
     FieldTypes
<1>4. ASSUME NEW c \in Call, Cancel(c) \/ Close(c) PROVE FieldTypes'
  BY <1>4, FramesAre DEF Cancel, Close, Typed, FieldTypes
<1>5. ASSUME Frame PROVE FieldTypes'
  BY <1>5, FramesAre DEF Frame, Typed, FieldTypes
<1>6. ASSUME CancelStep PROVE FieldTypes'
  BY <1>6, FramesAre DEF CancelStep, CancelIdle, CancelRecording, CancelTimedOut,
     CancelTranscribing, CancelJoinsStart, CancelHalts, CancelReleases, CancelJoinsStop, Typed,
     FieldTypes
<1>7. ASSUME CloseStep PROVE FieldTypes'
  BY <1>7, FramesAre DEF CloseStep, CloseCancels, CloseCancelsSends, CloseSource, CloseEnds,
     Typed, FieldTypes
<1>8. CASE UNCHANGED vars
  BY <1>8, FramesAre DEF vars, Typed, FieldTypes
<1> QED  BY <1>1, <1>2, <1>3, <1>4, <1>5, <1>6, <1>7, <1>8, NextIs

LEMMA FlagStep == ASSUME Typed, [Next]_vars PROVE FlagTypes'
<1>1. ASSUME NEW c \in Call, StartStep(c) PROVE FlagTypes'
  BY <1>1, Zenon DEF StartStep, Start, StartAfterCancel, Opened, OpenFails, Abort, StartFails,
     Typed, FlagTypes
<1>2. ASSUME NEW c \in Call, StopStep(c) PROVE FlagTypes'
  BY <1>2, Zenon DEF StopStep, Stop, Captured, Written, Heard, Transcribed, Delivered, Sent,
     Typed, FlagTypes
<1>3. ASSUME NEW c \in Call, RecordStep(c) PROVE FlagTypes'
  BY <1>3, Zenon DEF RecordStep, Halt, Disturb, WatchdogFires, WatchdogEnds, Typed, FlagTypes
<1>4. ASSUME NEW c \in Call, Cancel(c) \/ Close(c) PROVE FlagTypes'
  BY <1>4, Zenon DEF Cancel, Close, Typed, FlagTypes
<1>5. ASSUME Frame PROVE FlagTypes'
  BY <1>5, Zenon DEF Frame, Typed, FlagTypes
<1>6. ASSUME CancelStep PROVE FlagTypes'
  BY <1>6, Zenon DEF CancelStep, CancelIdle, CancelRecording, CancelTimedOut,
     CancelTranscribing, CancelJoinsStart, CancelHalts, CancelReleases, CancelJoinsStop, Typed,
     FlagTypes
<1>7. ASSUME CloseStep PROVE FlagTypes'
  BY <1>7, Zenon DEF CloseStep, CloseCancels, CloseCancelsSends, CloseSource, CloseEnds, Typed,
     FlagTypes
<1>8. CASE UNCHANGED vars
  BY <1>8, Zenon DEF vars, Typed, FlagTypes
<1> QED  BY <1>1, <1>2, <1>3, <1>4, <1>5, <1>6, <1>7, <1>8, NextIs

LEMMA CallTypesStep == ASSUME Typed, [Next]_vars PROVE CallTypes'
<1>1. ASSUME NEW c \in Call, StartStep(c) PROVE CallTypes'
  BY <1>1, FramesAre DEF StartStep, Start, StartAfterCancel, Opened, OpenFails, Abort,
     StartFails, Typed, CallTypes, Ops
<1>2. ASSUME NEW c \in Call, StopStep(c) PROVE CallTypes'
  BY <1>2, FramesAre DEF StopStep, Stop, Captured, Written, Heard, Transcribed, Delivered, Sent,
     Typed, CallTypes, Ops
<1>3. ASSUME NEW c \in Call, RecordStep(c) PROVE CallTypes'
  BY <1>3, FramesAre DEF RecordStep, Halt, Disturb, WatchdogFires, WatchdogEnds, Typed,
     CallTypes, Ops
<1>4. ASSUME NEW c \in Call, Cancel(c) \/ Close(c) PROVE CallTypes'
  BY <1>4, FramesAre DEF Cancel, Close, Typed, CallTypes, Ops
<1>5. ASSUME Frame PROVE CallTypes'
  BY <1>5, FramesAre DEF Frame, Typed, CallTypes, Ops
<1>6. ASSUME CancelStep PROVE CallTypes'
  BY <1>6, FramesAre DEF CancelStep, CancelIdle, CancelRecording, CancelTimedOut,
     CancelTranscribing, CancelJoinsStart, CancelHalts, CancelReleases, CancelJoinsStop, Typed,
     CallTypes, Ops
<1>7. ASSUME CloseStep PROVE CallTypes'
  BY <1>7, FramesAre DEF CloseStep, CloseCancels, CloseCancelsSends, CloseSource, CloseEnds,
     Typed, CallTypes, Ops
<1>8. CASE UNCHANGED vars
  BY <1>8, FramesAre DEF vars, Typed, CallTypes, Ops
<1> QED  BY <1>1, <1>2, <1>3, <1>4, <1>5, <1>6, <1>7, <1>8, NextIs

LEMMA TaskStep == ASSUME Typed, [Next]_vars PROVE TaskTypes'
<1>1. ASSUME NEW c \in Call, StartStep(c) PROVE TaskTypes'
  BY <1>1, FramesAre DEF StartStep, Start, StartAfterCancel, Opened, OpenFails, Abort,
     StartFails, Typed, FieldTypes, CallTypes, TaskTypes, CallsAreOrdered
<1>2. ASSUME NEW c \in Call, StopStep(c) PROVE TaskTypes'
  BY <1>2, FramesAre DEF StopStep, Stop, Captured, Written, Heard, Transcribed, Delivered, Sent,
     Typed, FieldTypes, CallTypes, TaskTypes, CallsAreOrdered
<1>3. ASSUME NEW c \in Call, RecordStep(c) PROVE TaskTypes'
  BY <1>3, FramesAre DEF RecordStep, Halt, Disturb, WatchdogFires, WatchdogEnds, Typed,
     FieldTypes, CallTypes, TaskTypes, CallsAreOrdered
<1>4. ASSUME NEW c \in Call, Cancel(c) \/ Close(c) PROVE TaskTypes'
  BY <1>4, FramesAre DEF Cancel, Close, Typed, FieldTypes, CallTypes, TaskTypes, CallsAreOrdered
<1>5. ASSUME Frame PROVE TaskTypes'
  BY <1>5, FramesAre DEF Frame, Typed, FieldTypes, CallTypes, TaskTypes, CallsAreOrdered
<1>6. ASSUME CancelStep PROVE TaskTypes'
  BY <1>6, FramesAre DEF CancelStep, CancelIdle, CancelRecording, CancelTimedOut,
     CancelTranscribing, CancelJoinsStart, CancelHalts, CancelReleases, CancelJoinsStop, Typed,
     FieldTypes, CallTypes, TaskTypes, CallsAreOrdered
<1>7. ASSUME CloseStep PROVE TaskTypes'
  BY <1>7, FramesAre DEF CloseStep, CloseCancels, CloseCancelsSends, CloseSource, CloseEnds,
     Typed, FieldTypes, CallTypes, TaskTypes, CallsAreOrdered
<1>8. CASE UNCHANGED vars
  BY <1>8, FramesAre DEF vars, Typed, FieldTypes, CallTypes, TaskTypes, CallsAreOrdered
<1> QED  BY <1>1, <1>2, <1>3, <1>4, <1>5, <1>6, <1>7, <1>8, NextIs

LEMMA MicStep == ASSUME Typed, [Next]_vars PROVE MicTypes'
<1>1. ASSUME NEW c \in Call, StartStep(c) PROVE MicTypes'
  BY <1>1, FramesAre DEF StartStep, Start, StartAfterCancel, Opened, OpenFails, Abort,
     StartFails, Typed, FieldTypes, MicTypes, TakeStream, Release
<1>2. ASSUME NEW c \in Call, StopStep(c) PROVE MicTypes'
  BY <1>2, FramesAre DEF StopStep, Stop, Captured, Written, Heard, Transcribed, Delivered, Sent,
     Typed, FieldTypes, MicTypes, TakeStream, Release
<1>3. ASSUME NEW c \in Call, RecordStep(c) PROVE MicTypes'
  BY <1>3, FramesAre DEF RecordStep, Halt, Disturb, WatchdogFires, WatchdogEnds, Typed,
     FieldTypes, MicTypes, TakeStream, Release
<1>4. ASSUME NEW c \in Call, Cancel(c) \/ Close(c) PROVE MicTypes'
  BY <1>4, FramesAre DEF Cancel, Close, Typed, FieldTypes, MicTypes, TakeStream, Release
<1>5. ASSUME Frame PROVE MicTypes'
  BY <1>5, FramesAre DEF Frame, Typed, FieldTypes, MicTypes, TakeStream, Release
<1>6. ASSUME CancelStep PROVE MicTypes'
  BY <1>6, FramesAre DEF CancelStep, CancelIdle, CancelRecording, CancelTimedOut,
     CancelTranscribing, CancelJoinsStart, CancelHalts, CancelReleases, CancelJoinsStop, Typed,
     FieldTypes, MicTypes, TakeStream, Release
<1>7. ASSUME CloseStep PROVE MicTypes'
  BY <1>7, FramesAre DEF CloseStep, CloseCancels, CloseCancelsSends, CloseSource, CloseEnds,
     Typed, FieldTypes, MicTypes, TakeStream, Release
<1>8. CASE UNCHANGED vars
  BY <1>8, FramesAre DEF vars, Typed, FieldTypes, MicTypes, TakeStream, Release
<1> QED  BY <1>1, <1>2, <1>3, <1>4, <1>5, <1>6, <1>7, <1>8, NextIs

LEMMA HeldStep == ASSUME Typed, [Next]_vars PROVE HeldTypes'
<1>1. ASSUME NEW c \in Call, StartStep(c) PROVE HeldTypes'
  BY <1>1, FramesAre DEF StartStep, Start, StartAfterCancel, Opened, OpenFails, Abort,
     StartFails, Typed, MicTypes, HeldTypes, TakeStream, Release
<1>2. ASSUME NEW c \in Call, StopStep(c) PROVE HeldTypes'
  BY <1>2, FramesAre DEF StopStep, Stop, Captured, Written, Heard, Transcribed, Delivered, Sent,
     Typed, MicTypes, HeldTypes, TakeStream, Release
<1>3. ASSUME NEW c \in Call, RecordStep(c) PROVE HeldTypes'
  BY <1>3, FramesAre DEF RecordStep, Halt, Disturb, WatchdogFires, WatchdogEnds, Typed,
     MicTypes, HeldTypes, TakeStream, Release
<1>4. ASSUME NEW c \in Call, Cancel(c) \/ Close(c) PROVE HeldTypes'
  BY <1>4, FramesAre DEF Cancel, Close, Typed, MicTypes, HeldTypes, TakeStream, Release
<1>5. ASSUME Frame PROVE HeldTypes'
  BY <1>5, FramesAre DEF Frame, Typed, MicTypes, HeldTypes, TakeStream, Release
<1>6. ASSUME CancelStep PROVE HeldTypes'
  BY <1>6, FramesAre DEF CancelStep, CancelIdle, CancelRecording, CancelTimedOut,
     CancelTranscribing, CancelJoinsStart, CancelHalts, CancelReleases, CancelJoinsStop, Typed,
     MicTypes, HeldTypes, TakeStream, Release
<1>7. ASSUME CloseStep PROVE HeldTypes'
  BY <1>7, FramesAre DEF CloseStep, CloseCancels, CloseCancelsSends, CloseSource, CloseEnds,
     Typed, MicTypes, HeldTypes, TakeStream, Release
<1>8. CASE UNCHANGED vars
  BY <1>8, FramesAre DEF vars, Typed, MicTypes, HeldTypes, TakeStream, Release
<1> QED  BY <1>1, <1>2, <1>3, <1>4, <1>5, <1>6, <1>7, <1>8, NextIs

LEMMA OrderStep == ASSUME Typed, [Next]_vars PROVE CallsAreOrdered'
<1>1. ASSUME NEW c \in Call, StartStep(c) PROVE CallsAreOrdered'
  BY <1>1, FramesAre DEF StartStep, Start, StartAfterCancel, Opened, OpenFails, Abort,
     StartFails, Typed, FieldTypes, CallTypes, CallsAreOrdered, Ops
<1>2. ASSUME NEW c \in Call, StopStep(c) PROVE CallsAreOrdered'
  BY <1>2, FramesAre DEF StopStep, Stop, Captured, Written, Heard, Transcribed, Delivered, Sent,
     Typed, FieldTypes, CallTypes, CallsAreOrdered, Ops
<1>3. ASSUME NEW c \in Call, RecordStep(c) PROVE CallsAreOrdered'
  BY <1>3, FramesAre DEF RecordStep, Halt, Disturb, WatchdogFires, WatchdogEnds, Typed,
     FieldTypes, CallTypes, CallsAreOrdered, Ops
<1>4. ASSUME NEW c \in Call, Cancel(c) \/ Close(c) PROVE CallsAreOrdered'
  BY <1>4, FramesAre DEF Cancel, Close, Typed, FieldTypes, CallTypes, CallsAreOrdered, Ops
<1>5. ASSUME Frame PROVE CallsAreOrdered'
  BY <1>5, FramesAre DEF Frame, Typed, FieldTypes, CallTypes, CallsAreOrdered, Ops
<1>6. ASSUME CancelStep PROVE CallsAreOrdered'
  BY <1>6, FramesAre DEF CancelStep, CancelIdle, CancelRecording, CancelTimedOut,
     CancelTranscribing, CancelJoinsStart, CancelHalts, CancelReleases, CancelJoinsStop, Typed,
     FieldTypes, CallTypes, CallsAreOrdered, Ops
<1>7. ASSUME CloseStep PROVE CallsAreOrdered'
  BY <1>7, FramesAre DEF CloseStep, CloseCancels, CloseCancelsSends, CloseSource, CloseEnds,
     Typed, FieldTypes, CallTypes, CallsAreOrdered, Ops
<1>8. CASE UNCHANGED vars
  BY <1>8, FramesAre DEF vars, Typed, FieldTypes, CallTypes, CallsAreOrdered, Ops
<1> QED  BY <1>1, <1>2, <1>3, <1>4, <1>5, <1>6, <1>7, <1>8, NextIs

LEMMA PcmStep == ASSUME Typed, [Next]_vars PROVE (pcm \in Frames)'
<1>1. ASSUME NEW c \in Call, StartStep(c) PROVE (pcm \in Frames)'
  BY <1>1, FramesAre DEF StartStep, Start, StartAfterCancel, Opened, OpenFails, Abort,
     StartFails, Typed
<1>2. ASSUME NEW c \in Call, StopStep(c) PROVE (pcm \in Frames)'
  BY <1>2, FramesAre DEF StopStep, Stop, Captured, Written, Heard, Transcribed, Delivered, Sent,
     Typed
<1>3. ASSUME NEW c \in Call, RecordStep(c) PROVE (pcm \in Frames)'
  BY <1>3, FramesAre DEF RecordStep, Halt, Disturb, WatchdogFires, WatchdogEnds, Typed
<1>4. ASSUME NEW c \in Call, Cancel(c) \/ Close(c) PROVE (pcm \in Frames)'
  BY <1>4, FramesAre DEF Cancel, Close, Typed
<1>5. ASSUME Frame PROVE (pcm \in Frames)'
  BY <1>5, FramesAre DEF Frame, Typed
<1>6. ASSUME CancelStep PROVE (pcm \in Frames)'
  BY <1>6, FramesAre DEF CancelStep, CancelIdle, CancelRecording, CancelTimedOut,
     CancelTranscribing, CancelJoinsStart, CancelHalts, CancelReleases, CancelJoinsStop, Typed
<1>7. ASSUME CloseStep PROVE (pcm \in Frames)'
  BY <1>7, FramesAre DEF CloseStep, CloseCancels, CloseCancelsSends, CloseSource, CloseEnds,
     Typed
<1>8. CASE UNCHANGED vars
  BY <1>8, FramesAre DEF vars, Typed
<1> QED  BY <1>1, <1>2, <1>3, <1>4, <1>5, <1>6, <1>7, <1>8, NextIs

LEMMA LocalsAre ==
  /\ NoLocal \in Locals
  /\ \A l \in Locals, w \in Call \cup {None} :
       /\ [l EXCEPT !.dog = w] \in Locals
       /\ [l EXCEPT !.dog = w].pcm = l.pcm /\ [l EXCEPT !.dog = w].dog = w
  /\ \A w \in Call \cup {None}, n \in Frames, t \in BOOLEAN, b \in BOOLEAN :
       [dog |-> w, timedOut |-> t, pcm |-> n, limit |-> b] \in Locals
BY FramesAre DEF Locals

(* What a start does to the locals: it looks up the watchdog.              *)
LEMMA StartLocals ==
  ASSUME Typed, NEW c \in Call, StartStep(c)
  PROVE  /\ local' \in [Call -> Locals]
         /\ \A d \in Call : local'[d].pcm = local[d].pcm /\ local'[d].dog \in {local[d].dog, dogRef}
<1> DEFINE l == [local[c] EXCEPT !.dog = dogRef]
<1>1. local' = local \/ local' = [local EXCEPT ![c] = l]
  BY DEF StartStep, Start, StartAfterCancel, Opened, OpenFails, Abort, StartFails
<1>2. l \in Locals /\ l.pcm = local[c].pcm /\ l.dog = dogRef
  BY LocalsAre DEF Typed, FieldTypes
<1> HIDE DEF l
<1> QED  BY <1>1, <1>2 DEF Typed

LEMMA LocalStep == ASSUME Typed, [Next]_vars PROVE (local \in [Call -> Locals])'
<1>1. ASSUME NEW c \in Call, StartStep(c) PROVE (local \in [Call -> Locals])'
  BY <1>1, StartLocals
<1>2. ASSUME NEW c \in Call, StopStep(c) PROVE (local \in [Call -> Locals])'
  <2>1. CASE Stop(c)
    <3> DEFINE t == state = "timed_out"
    <3>1. t \in BOOLEAN /\ limitError \in BOOLEAN
      BY DEF Typed, FlagTypes
    <3>2. [dog |-> dogRef, timedOut |-> t, pcm |-> pcm, limit |-> limitError] \in Locals
      BY <3>1, LocalsAre DEF Typed, FieldTypes
    <3> DEFINE l == [dog |-> dogRef, timedOut |-> t, pcm |-> pcm, limit |-> limitError]
    <3>3. local' = local \/ local' = [local EXCEPT ![c] = l]
      BY <2>1 DEF Stop
    <3> HIDE DEF l
    <3> QED  BY <3>2, <3>3 DEF Typed, l
  <2>2. CASE ~Stop(c)
    <3>1. local' = local \/ local' = [local EXCEPT ![c] = NoLocal]
      BY <1>2, <2>2 DEF StopStep, Captured, Written, Heard, Transcribed, Delivered, Sent
    <3> HIDE DEF NoLocal
    <3> QED  BY <3>1, LocalsAre DEF Typed
  <2> QED  BY <2>1, <2>2
<1>3. ASSUME NEW c \in Call, RecordStep(c) PROVE (local \in [Call -> Locals])'
  BY <1>3, FramesAre DEF RecordStep, Halt, Disturb, WatchdogFires, WatchdogEnds, Typed
<1>4. ASSUME NEW c \in Call, Cancel(c) \/ Close(c) PROVE (local \in [Call -> Locals])'
  BY <1>4, FramesAre DEF Cancel, Close, Typed
<1>5. ASSUME Frame PROVE (local \in [Call -> Locals])'
  BY <1>5, FramesAre DEF Frame, Typed
<1>6. ASSUME CancelStep PROVE (local \in [Call -> Locals])'
  BY <1>6, FramesAre DEF CancelStep, CancelIdle, CancelRecording, CancelTimedOut,
     CancelTranscribing, CancelJoinsStart, CancelHalts, CancelReleases, CancelJoinsStop, Typed
<1>7. ASSUME CloseStep PROVE (local \in [Call -> Locals])'
  BY <1>7, FramesAre DEF CloseStep, CloseCancels, CloseCancelsSends, CloseSource, CloseEnds,
     Typed
<1>8. CASE UNCHANGED vars
  BY <1>8, FramesAre DEF vars, Typed
<1> QED  BY <1>1, <1>2, <1>3, <1>4, <1>5, <1>6, <1>7, <1>8, NextIs

LEMMA TypedStep == Typed /\ [Next]_vars => Typed'
BY FieldStep, FlagStep, CallTypesStep, TaskStep, MicStep, HeldStep, OrderStep, PcmStep, LocalStep
   DEF Typed

-----------------------------------------------------------------------------
(* A start under way, one that has registered, and a stop until its text.  *)
Starting(c) == op[c] = "start" /\ pc[c] \notin {"idle", "done"}
Opening(c)  == op[c] = "start" /\ pc[c] \in {"opening", "abort", "halt", "release"}
Stopping(c) == op[c] \in {"stop", "send"} /\ pc[c] \in {"halt", "release", "write", "hear"}

(* One start is under way: it waits for cancel, or finds the recorder idle. *)
OneStart ==
  /\ \A c, d \in Call : Starting(c) /\ Starting(d) => c = d
  /\ \A c \in Call :
       /\ pc[c] = "join" => cancelT.pc # "none"
       /\ pc[c] = "begin" /\ c \notin throw
            => state \in {"idle", "closed"} /\ cancelT.pc \in {"none", "begin"}

(* The state of the recorder says what is under way.                       *)
StateIsTrue ==
  /\ recId # None <=> state = "recording"
  /\ state = "transcribing" => oper \in Call /\ Stopping(oper)
  /\ \A c \in Call : Stopping(c) => state = "transcribing" /\ oper = c
  /\ \A c \in Call : Opening(c) /\ state = "recording" => recId = c
  /\ state = "recording" =>
       /\ op[recId] = "start"
       /\ \/ pc[recId] \in {"opening", "abort"} /\ oper = recId
          \/ /\ pc[recId] = "done" /\ oper = None
             /\ stream = recId /\ recId \in open /\ dogRef = recId
             /\ dog[recId] = "armed" /\ recId \notin dogThrow

(* cancel has made the recorder idle or waits for the stop that does;      *)
(* close goes on when that is over, and nothing begins afterwards.         *)
EndIsOrdered ==
  /\ cancelT.pc \in {"task", "halt", "release", "dog"} => state = "idle"
  /\ cancelT.pc = "stop" => state = "idle" \/ (state = "transcribing" /\ oper = cancelT.op)
  /\ closeT # "none" => closing
  /\ closeT \in {"sends", "join", "source", "done"}
       => state \in {"idle", "closed"} /\ cancelT.pc \in {"none", "begin"}
  /\ state = "closed" <=> closeT = "done"
  /\ closeT \in {"source", "done"} => \A c \in Call : send[c] \notin {"running", "cancelling"}

(* A stream is opened once, and taken once.                                *)
StreamIsNew ==
  /\ \A c \in Call :
       /\ pc[c] = "opening" => stream = None
       /\ pc[c] \in {"idle", "join", "begin", "opening"} => c \notin open /\ stream # c
  /\ \A h \in held : h[2] # stream /\ pc[h[2]] \notin {"idle", "join", "begin", "opening"}

(* A recording has a watchdog of its own, which nobody knows before.       *)
WatchdogIsNew ==
  \A c \in Call :
    /\ pc[c] \in {"idle", "join", "begin", "opening", "abort"} => dog[c] = "none"
    /\ dog[c] = "none" => c \notin dogThrow /\ dogRef # c /\ cancelT.dog # c
    /\ \A d \in Call : dog[c] = "none" => local[d].dog # c

(* What was said is with the recording or with the stop that took it.      *)
SpeechIsHeld ==
  /\ state # "recording" => pcm = 0
  /\ \A c \in Call : c \in wav \/ local[c].pcm > 0 => Stopping(c)

(* A stop that is not wanted comes to no text.                             *)
TextIsWanted ==
  \A c \in Call :
    /\ trans[c] # "none" <=> pc[c] = "hear"
    /\ c \in long => \/ pc[c] = "done"
                     \/ pc[c] \in {"halt", "release"} /\ Stopping(c) /\ local[c].limit
    /\ c \in dropped => \/ pc[c] = "done"
                        \/ pc[c] \in {"halt", "release", "write"} /\ Stopping(c) /\ cancelRequested
                        \/ pc[c] = "hear" /\ trans[c] \in {"cancelling", "over"}
    /\ send[c] # "none" => pc[c] \in {"send", "done"} /\ c \notin long \cup dropped

(* The invariant of the microphone.                                        *)
Guarded ==
  /\ Typed /\ OneStart /\ StateIsTrue /\ EndIsOrdered
  /\ StreamIsNew /\ WatchdogIsNew /\ MicrophoneIsExpected

(* Every step of a patient caller keeps the invariant, part by part.       *)
LEMMA OneStartStep == ASSUME Patient, Guarded, [Next]_vars PROVE OneStart'
<1>1. ASSUME NEW c \in Call, StartStep(c) PROVE OneStart'
  BY <1>1, FramesAre DEF StartStep, Start, StartAfterCancel, Opened, OpenFails, Abort,
     StartFails, Guarded, Typed, FieldTypes, CallTypes, TaskTypes, MicTypes, CallsAreOrdered,
     Starting, Opening, Stopping, OneStart, StateIsTrue, EndIsOrdered
<1>2. ASSUME NEW c \in Call, StopStep(c) PROVE OneStart'
  BY <1>2, FramesAre DEF StopStep, Stop, Captured, Written, Heard, Transcribed, Delivered, Sent,
     Guarded, Typed, FieldTypes, CallTypes, TaskTypes, MicTypes, CallsAreOrdered, Starting,
     Opening, Stopping, OneStart, StateIsTrue, EndIsOrdered
<1>3. ASSUME NEW c \in Call, RecordStep(c) PROVE OneStart'
  BY <1>3, FramesAre DEF RecordStep, Halt, Disturb, WatchdogFires, WatchdogEnds, Guarded, Typed,
     FieldTypes, CallTypes, TaskTypes, MicTypes, CallsAreOrdered, Starting, Opening, Stopping,
     OneStart, StateIsTrue, EndIsOrdered
<1>4. ASSUME NEW c \in Call, Cancel(c) \/ Close(c) PROVE OneStart'
  BY <1>4, FramesAre DEF Cancel, Close, Guarded, Typed, FieldTypes, CallTypes, TaskTypes,
     MicTypes, CallsAreOrdered, Starting, Opening, Stopping, OneStart, StateIsTrue, EndIsOrdered
<1>5. ASSUME Frame PROVE OneStart'
  BY <1>5, FramesAre DEF Frame, Guarded, Typed, FieldTypes, CallTypes, TaskTypes, MicTypes,
     CallsAreOrdered, Starting, Opening, Stopping, OneStart, StateIsTrue, EndIsOrdered
<1>6. ASSUME CancelStep PROVE OneStart'
  BY <1>6, FramesAre DEF CancelStep, CancelIdle, CancelRecording, CancelTimedOut,
     CancelTranscribing, CancelJoinsStart, CancelHalts, CancelReleases, CancelJoinsStop,
     Guarded, Typed, FieldTypes, CallTypes, TaskTypes, MicTypes, CallsAreOrdered, Starting,
     Opening, Stopping, OneStart, StateIsTrue, EndIsOrdered
<1>7. ASSUME CloseStep PROVE OneStart'
  BY <1>7, FramesAre DEF CloseStep, CloseCancels, CloseCancelsSends, CloseSource, CloseEnds,
     Guarded, Typed, FieldTypes, CallTypes, TaskTypes, MicTypes, CallsAreOrdered, Starting,
     Opening, Stopping, OneStart, StateIsTrue, EndIsOrdered
<1>8. CASE UNCHANGED vars
  BY <1>8, FramesAre DEF vars, Guarded, Typed, FieldTypes, CallTypes, TaskTypes, MicTypes,
     CallsAreOrdered, Starting, Opening, Stopping, OneStart, StateIsTrue, EndIsOrdered
<1> QED  BY <1>1, <1>2, <1>3, <1>4, <1>5, <1>6, <1>7, <1>8, NextIs

LEMMA StateStep == ASSUME Patient, Guarded, [Next]_vars PROVE StateIsTrue'
<1>1. ASSUME NEW c \in Call, StartStep(c) PROVE StateIsTrue'
  BY <1>1, FramesAre, ReleaseIs, TakeStreamIs DEF StartStep, Start, StartAfterCancel, Opened,
     OpenFails, Abort, StartFails, Guarded, Typed, FieldTypes, CallTypes, TaskTypes, MicTypes,
     CallsAreOrdered, Starting, Opening, Stopping, OneStart, StateIsTrue, EndIsOrdered,
     StreamIsNew, WatchdogIsNew
<1>2. ASSUME NEW c \in Call, StopStep(c) PROVE StateIsTrue'
  BY <1>2, FramesAre, ReleaseIs, TakeStreamIs DEF StopStep, Stop, Captured, Written, Heard,
     Transcribed, Delivered, Sent, Guarded, Typed, FieldTypes, CallTypes, TaskTypes, MicTypes,
     CallsAreOrdered, Starting, Opening, Stopping, OneStart, StateIsTrue, EndIsOrdered,
     StreamIsNew, WatchdogIsNew
<1>3. ASSUME NEW c \in Call, RecordStep(c) PROVE StateIsTrue'
  BY <1>3, FramesAre, ReleaseIs, TakeStreamIs DEF RecordStep, Halt, Disturb, WatchdogFires,
     WatchdogEnds, Guarded, Typed, FieldTypes, CallTypes, TaskTypes, MicTypes, CallsAreOrdered,
     Starting, Opening, Stopping, OneStart, StateIsTrue, EndIsOrdered, StreamIsNew,
     WatchdogIsNew
<1>4. ASSUME NEW c \in Call, Cancel(c) \/ Close(c) PROVE StateIsTrue'
  BY <1>4, FramesAre, ReleaseIs, TakeStreamIs DEF Cancel, Close, Guarded, Typed, FieldTypes,
     CallTypes, TaskTypes, MicTypes, CallsAreOrdered, Starting, Opening, Stopping, OneStart,
     StateIsTrue, EndIsOrdered, StreamIsNew, WatchdogIsNew
<1>5. ASSUME Frame PROVE StateIsTrue'
  BY <1>5, FramesAre, ReleaseIs, TakeStreamIs DEF Frame, Guarded, Typed, FieldTypes, CallTypes,
     TaskTypes, MicTypes, CallsAreOrdered, Starting, Opening, Stopping, OneStart, StateIsTrue,
     EndIsOrdered, StreamIsNew, WatchdogIsNew
<1>6. ASSUME CancelStep PROVE StateIsTrue'
  BY <1>6, FramesAre, ReleaseIs, TakeStreamIs DEF CancelStep, CancelIdle, CancelRecording,
     CancelTimedOut, CancelTranscribing, CancelJoinsStart, CancelHalts, CancelReleases,
     CancelJoinsStop, Guarded, Typed, FieldTypes, CallTypes, TaskTypes, MicTypes,
     CallsAreOrdered, Starting, Opening, Stopping, OneStart, StateIsTrue, EndIsOrdered,
     StreamIsNew, WatchdogIsNew
<1>7. ASSUME CloseStep PROVE StateIsTrue'
  BY <1>7, FramesAre, ReleaseIs, TakeStreamIs DEF CloseStep, CloseCancels, CloseCancelsSends,
     CloseSource, CloseEnds, Guarded, Typed, FieldTypes, CallTypes, TaskTypes, MicTypes,
     CallsAreOrdered, Starting, Opening, Stopping, OneStart, StateIsTrue, EndIsOrdered,
     StreamIsNew, WatchdogIsNew
<1>8. CASE UNCHANGED vars
  BY <1>8, FramesAre, ReleaseIs, TakeStreamIs DEF vars, Guarded, Typed, FieldTypes, CallTypes,
     TaskTypes, MicTypes, CallsAreOrdered, Starting, Opening, Stopping, OneStart, StateIsTrue,
     EndIsOrdered, StreamIsNew, WatchdogIsNew
<1> QED  BY <1>1, <1>2, <1>3, <1>4, <1>5, <1>6, <1>7, <1>8, NextIs

LEMMA EndStep == ASSUME Patient, Guarded, [Next]_vars PROVE EndIsOrdered'
<1>1. ASSUME NEW c \in Call, StartStep(c) PROVE EndIsOrdered'
  BY <1>1, FramesAre DEF StartStep, Start, StartAfterCancel, Opened, OpenFails, Abort,
     StartFails, Guarded, Typed, FieldTypes, CallTypes, TaskTypes, MicTypes, CallsAreOrdered,
     Starting, Opening, Stopping, OneStart, StateIsTrue, EndIsOrdered
<1>2. ASSUME NEW c \in Call, StopStep(c) PROVE EndIsOrdered'
  BY <1>2, FramesAre DEF StopStep, Stop, Captured, Written, Heard, Transcribed, Delivered, Sent,
     Guarded, Typed, FieldTypes, CallTypes, TaskTypes, MicTypes, CallsAreOrdered, Starting,
     Opening, Stopping, OneStart, StateIsTrue, EndIsOrdered
<1>3. ASSUME NEW c \in Call, RecordStep(c) PROVE EndIsOrdered'
  BY <1>3, FramesAre DEF RecordStep, Halt, Disturb, WatchdogFires, WatchdogEnds, Guarded, Typed,
     FieldTypes, CallTypes, TaskTypes, MicTypes, CallsAreOrdered, Starting, Opening, Stopping,
     OneStart, StateIsTrue, EndIsOrdered
<1>4. ASSUME NEW c \in Call, Cancel(c) \/ Close(c) PROVE EndIsOrdered'
  BY <1>4, FramesAre DEF Cancel, Close, Guarded, Typed, FieldTypes, CallTypes, TaskTypes,
     MicTypes, CallsAreOrdered, Starting, Opening, Stopping, OneStart, StateIsTrue, EndIsOrdered
<1>5. ASSUME Frame PROVE EndIsOrdered'
  BY <1>5, FramesAre DEF Frame, Guarded, Typed, FieldTypes, CallTypes, TaskTypes, MicTypes,
     CallsAreOrdered, Starting, Opening, Stopping, OneStart, StateIsTrue, EndIsOrdered
<1>6. ASSUME CancelStep PROVE EndIsOrdered'
  BY <1>6, FramesAre DEF CancelStep, CancelIdle, CancelRecording, CancelTimedOut,
     CancelTranscribing, CancelJoinsStart, CancelHalts, CancelReleases, CancelJoinsStop,
     Guarded, Typed, FieldTypes, CallTypes, TaskTypes, MicTypes, CallsAreOrdered, Starting,
     Opening, Stopping, OneStart, StateIsTrue, EndIsOrdered
<1>7. ASSUME CloseStep PROVE EndIsOrdered'
  BY <1>7, FramesAre DEF CloseStep, CloseCancels, CloseCancelsSends, CloseSource, CloseEnds,
     Guarded, Typed, FieldTypes, CallTypes, TaskTypes, MicTypes, CallsAreOrdered, Starting,
     Opening, Stopping, OneStart, StateIsTrue, EndIsOrdered
<1>8. CASE UNCHANGED vars
  BY <1>8, FramesAre DEF vars, Guarded, Typed, FieldTypes, CallTypes, TaskTypes, MicTypes,
     CallsAreOrdered, Starting, Opening, Stopping, OneStart, StateIsTrue, EndIsOrdered
<1> QED  BY <1>1, <1>2, <1>3, <1>4, <1>5, <1>6, <1>7, <1>8, NextIs

LEMMA StreamStep == ASSUME Patient, Guarded, [Next]_vars PROVE StreamIsNew'
<1>1. ASSUME NEW c \in Call, StartStep(c) PROVE StreamIsNew'
  BY <1>1, FramesAre, ReleaseIs, TakeStreamIs DEF StartStep, Start, StartAfterCancel, Opened,
     OpenFails, Abort, StartFails, Guarded, Typed, FieldTypes, CallTypes, TaskTypes, MicTypes,
     CallsAreOrdered, Starting, Opening, Stopping, OneStart, StateIsTrue, StreamIsNew, HeldTypes
<1>2. ASSUME NEW c \in Call, StopStep(c) PROVE StreamIsNew'
  BY <1>2, FramesAre, ReleaseIs, TakeStreamIs DEF StopStep, Stop, Captured, Written, Heard,
     Transcribed, Delivered, Sent, Guarded, Typed, FieldTypes, CallTypes, TaskTypes, MicTypes,
     CallsAreOrdered, Starting, Opening, Stopping, OneStart, StateIsTrue, StreamIsNew, HeldTypes
<1>3. ASSUME NEW c \in Call, RecordStep(c) PROVE StreamIsNew'
  BY <1>3, FramesAre, ReleaseIs, TakeStreamIs DEF RecordStep, Halt, Disturb, WatchdogFires,
     WatchdogEnds, Guarded, Typed, FieldTypes, CallTypes, TaskTypes, MicTypes, CallsAreOrdered,
     Starting, Opening, Stopping, OneStart, StateIsTrue, StreamIsNew, HeldTypes
<1>4. ASSUME NEW c \in Call, Cancel(c) \/ Close(c) PROVE StreamIsNew'
  BY <1>4, FramesAre, ReleaseIs, TakeStreamIs DEF Cancel, Close, Guarded, Typed, FieldTypes,
     CallTypes, TaskTypes, MicTypes, CallsAreOrdered, Starting, Opening, Stopping, OneStart,
     StateIsTrue, StreamIsNew, HeldTypes
<1>5. ASSUME Frame PROVE StreamIsNew'
  BY <1>5, FramesAre, ReleaseIs, TakeStreamIs DEF Frame, Guarded, Typed, FieldTypes, CallTypes,
     TaskTypes, MicTypes, CallsAreOrdered, Starting, Opening, Stopping, OneStart, StateIsTrue,
     StreamIsNew, HeldTypes
<1>6. ASSUME CancelStep PROVE StreamIsNew'
  BY <1>6, FramesAre, ReleaseIs, TakeStreamIs DEF CancelStep, CancelIdle, CancelRecording,
     CancelTimedOut, CancelTranscribing, CancelJoinsStart, CancelHalts, CancelReleases,
     CancelJoinsStop, Guarded, Typed, FieldTypes, CallTypes, TaskTypes, MicTypes,
     CallsAreOrdered, Starting, Opening, Stopping, OneStart, StateIsTrue, StreamIsNew, HeldTypes
<1>7. ASSUME CloseStep PROVE StreamIsNew'
  BY <1>7, FramesAre, ReleaseIs, TakeStreamIs DEF CloseStep, CloseCancels, CloseCancelsSends,
     CloseSource, CloseEnds, Guarded, Typed, FieldTypes, CallTypes, TaskTypes, MicTypes,
     CallsAreOrdered, Starting, Opening, Stopping, OneStart, StateIsTrue, StreamIsNew, HeldTypes
<1>8. CASE UNCHANGED vars
  BY <1>8, FramesAre, ReleaseIs, TakeStreamIs DEF vars, Guarded, Typed, FieldTypes, CallTypes,
     TaskTypes, MicTypes, CallsAreOrdered, Starting, Opening, Stopping, OneStart, StateIsTrue,
     StreamIsNew, HeldTypes
<1> QED  BY <1>1, <1>2, <1>3, <1>4, <1>5, <1>6, <1>7, <1>8, NextIs

LEMMA WatchdogNewStep == ASSUME Patient, Guarded, [Next]_vars PROVE WatchdogIsNew'
<1>1. ASSUME NEW c \in Call, StartStep(c) PROVE WatchdogIsNew'
  <2>1. \A d \in Call : local'[d].dog \in {local[d].dog, dogRef}
    BY <1>1, StartLocals DEF Guarded
  <2>2. UNCHANGED cancelT
    BY <1>1 DEF StartStep, Start, StartAfterCancel, Opened, OpenFails, Abort, StartFails
  <2>3. \A d \in Call : pc'[d] \in {"idle", "join", "begin", "opening", "abort"}
                         => pc[d] \in {"idle", "join", "begin", "opening", "abort"}
    BY <1>1 DEF StartStep, Start, StartAfterCancel, Opened, OpenFails, Abort, StartFails, Guarded,
                Typed, CallTypes
  <2>4. \A d \in Call : dog'[d] = "none" =>
          /\ dog[d] = "none" /\ (dogRef' \in {None, dogRef} \/ dogRef' # d)
          /\ d \in dogThrow' => d \in dogThrow \/ d = dogRef
    BY <1>1 DEF StartStep, Start, StartAfterCancel, Opened, OpenFails, Abort, StartFails, Guarded,
                Typed, CallTypes, FieldTypes, MicTypes
  <2>5. \A d \in Call : pc'[d] \in {"idle", "join", "begin", "opening", "abort"} => dog'[d] = dog[d]
    BY <1>1 DEF StartStep, Start, StartAfterCancel, Opened, OpenFails, Abort, StartFails, Guarded,
                Typed, CallTypes, FieldTypes, MicTypes
  <2> QED  BY <2>1, <2>2, <2>3, <2>4, <2>5, FramesAre DEF Guarded, WatchdogIsNew
<1>2. ASSUME NEW c \in Call, StopStep(c) PROVE WatchdogIsNew'
  BY <1>2, FramesAre DEF StopStep, Stop, Captured, Written, Heard, Transcribed, Delivered, Sent,
     Guarded, Typed, FieldTypes, CallTypes, TaskTypes, MicTypes, CallsAreOrdered, Starting,
     Opening, Stopping, WatchdogIsNew
<1>3. ASSUME NEW c \in Call, RecordStep(c) PROVE WatchdogIsNew'
  BY <1>3, FramesAre DEF RecordStep, Halt, Disturb, WatchdogFires, WatchdogEnds, Guarded, Typed,
     FieldTypes, CallTypes, TaskTypes, MicTypes, CallsAreOrdered, Starting, Opening, Stopping,
     WatchdogIsNew
<1>4. ASSUME NEW c \in Call, Cancel(c) \/ Close(c) PROVE WatchdogIsNew'
  BY <1>4, FramesAre DEF Cancel, Close, Guarded, Typed, FieldTypes, CallTypes, TaskTypes,
     MicTypes, CallsAreOrdered, Starting, Opening, Stopping, WatchdogIsNew
<1>5. ASSUME Frame PROVE WatchdogIsNew'
  BY <1>5, FramesAre DEF Frame, Guarded, Typed, FieldTypes, CallTypes, TaskTypes, MicTypes,
     CallsAreOrdered, Starting, Opening, Stopping, WatchdogIsNew
<1>6. ASSUME CancelStep PROVE WatchdogIsNew'
  BY <1>6, FramesAre DEF CancelStep, CancelIdle, CancelRecording, CancelTimedOut,
     CancelTranscribing, CancelJoinsStart, CancelHalts, CancelReleases, CancelJoinsStop,
     Guarded, Typed, FieldTypes, CallTypes, TaskTypes, MicTypes, CallsAreOrdered, Starting,
     Opening, Stopping, WatchdogIsNew
<1>7. ASSUME CloseStep PROVE WatchdogIsNew'
  BY <1>7, FramesAre DEF CloseStep, CloseCancels, CloseCancelsSends, CloseSource, CloseEnds,
     Guarded, Typed, FieldTypes, CallTypes, TaskTypes, MicTypes, CallsAreOrdered, Starting,
     Opening, Stopping, WatchdogIsNew
<1>8. CASE UNCHANGED vars
  BY <1>8, FramesAre DEF vars, Guarded, Typed, FieldTypes, CallTypes, TaskTypes, MicTypes,
     CallsAreOrdered, Starting, Opening, Stopping, WatchdogIsNew
<1> QED  BY <1>1, <1>2, <1>3, <1>4, <1>5, <1>6, <1>7, <1>8, NextIs

LEMMA MicrophoneStep == ASSUME Patient, Guarded, [Next]_vars PROVE MicrophoneIsExpected'
<1>1. ASSUME NEW c \in Call, StartStep(c) PROVE MicrophoneIsExpected'
  BY <1>1, FramesAre, ReleaseIs, TakeStreamIs DEF StartStep, Start, StartAfterCancel, Opened,
     OpenFails, Abort, StartFails, Guarded, Typed, FieldTypes, CallTypes, TaskTypes, MicTypes,
     CallsAreOrdered, Starting, Opening, Stopping, OneStart, StateIsTrue, EndIsOrdered,
     StreamIsNew, MicrophoneIsExpected
<1>2. ASSUME NEW c \in Call, StopStep(c) PROVE MicrophoneIsExpected'
  BY <1>2, FramesAre, ReleaseIs, TakeStreamIs DEF StopStep, Stop, Captured, Written, Heard,
     Transcribed, Delivered, Sent, Guarded, Typed, FieldTypes, CallTypes, TaskTypes, MicTypes,
     CallsAreOrdered, Starting, Opening, Stopping, OneStart, StateIsTrue, EndIsOrdered,
     StreamIsNew, MicrophoneIsExpected
<1>3. ASSUME NEW c \in Call, RecordStep(c) PROVE MicrophoneIsExpected'
  BY <1>3, FramesAre, ReleaseIs, TakeStreamIs DEF RecordStep, Halt, Disturb, WatchdogFires,
     WatchdogEnds, Guarded, Typed, FieldTypes, CallTypes, TaskTypes, MicTypes, CallsAreOrdered,
     Starting, Opening, Stopping, OneStart, StateIsTrue, EndIsOrdered, StreamIsNew,
     MicrophoneIsExpected
<1>4. ASSUME NEW c \in Call, Cancel(c) \/ Close(c) PROVE MicrophoneIsExpected'
  BY <1>4, FramesAre, ReleaseIs, TakeStreamIs DEF Cancel, Close, Guarded, Typed, FieldTypes,
     CallTypes, TaskTypes, MicTypes, CallsAreOrdered, Starting, Opening, Stopping, OneStart,
     StateIsTrue, EndIsOrdered, StreamIsNew, MicrophoneIsExpected
<1>5. ASSUME Frame PROVE MicrophoneIsExpected'
  BY <1>5, FramesAre, ReleaseIs, TakeStreamIs DEF Frame, Guarded, Typed, FieldTypes, CallTypes,
     TaskTypes, MicTypes, CallsAreOrdered, Starting, Opening, Stopping, OneStart, StateIsTrue,
     EndIsOrdered, StreamIsNew, MicrophoneIsExpected
<1>6. ASSUME CancelStep PROVE MicrophoneIsExpected'
  BY <1>6, FramesAre, ReleaseIs, TakeStreamIs DEF CancelStep, CancelIdle, CancelRecording,
     CancelTimedOut, CancelTranscribing, CancelJoinsStart, CancelHalts, CancelReleases,
     CancelJoinsStop, Guarded, Typed, FieldTypes, CallTypes, TaskTypes, MicTypes,
     CallsAreOrdered, Starting, Opening, Stopping, OneStart, StateIsTrue, EndIsOrdered,
     StreamIsNew, MicrophoneIsExpected
<1>7. ASSUME CloseStep PROVE MicrophoneIsExpected'
  BY <1>7, FramesAre, ReleaseIs, TakeStreamIs DEF CloseStep, CloseCancels, CloseCancelsSends,
     CloseSource, CloseEnds, Guarded, Typed, FieldTypes, CallTypes, TaskTypes, MicTypes,
     CallsAreOrdered, Starting, Opening, Stopping, OneStart, StateIsTrue, EndIsOrdered,
     StreamIsNew, MicrophoneIsExpected
<1>8. CASE UNCHANGED vars
  BY <1>8, FramesAre, ReleaseIs, TakeStreamIs DEF vars, Guarded, Typed, FieldTypes, CallTypes,
     TaskTypes, MicTypes, CallsAreOrdered, Starting, Opening, Stopping, OneStart, StateIsTrue,
     EndIsOrdered, StreamIsNew, MicrophoneIsExpected
<1> QED  BY <1>1, <1>2, <1>3, <1>4, <1>5, <1>6, <1>7, <1>8, NextIs

(* Every step keeps what was said where it belongs, and keeps the unwanted from being sent. *)
LEMMA SpeechStep == ASSUME Patient, Guarded, SpeechIsHeld, [Next]_vars PROVE SpeechIsHeld'
<1>1. ASSUME NEW c \in Call, StartStep(c) PROVE SpeechIsHeld'
  <2>1. \A d \in Call : local'[d].pcm = local[d].pcm
    BY <1>1, StartLocals DEF Guarded
  <2>2. /\ state' # "recording" => pcm' = 0
        /\ wav' = wav /\ \A d \in Call : Stopping(d) => Stopping(d)'
    BY <1>1 DEF StartStep, Start, StartAfterCancel, Opened, OpenFails, Abort, StartFails, Guarded,
                Typed, CallTypes, CallsAreOrdered, Stopping, SpeechIsHeld
  <2> QED  BY <2>1, <2>2 DEF SpeechIsHeld
<1>2. ASSUME NEW c \in Call, StopStep(c) PROVE SpeechIsHeld'
  BY <1>2, FramesAre DEF StopStep, Stop, Captured, Written, Heard, Transcribed, Delivered, Sent,
     Guarded, Typed, FieldTypes, CallTypes, TaskTypes, MicTypes, CallsAreOrdered, Starting,
     Opening, Stopping, StateIsTrue, EndIsOrdered, SpeechIsHeld
<1>3. ASSUME NEW c \in Call, RecordStep(c) PROVE SpeechIsHeld'
  BY <1>3, FramesAre DEF RecordStep, Halt, Disturb, WatchdogFires, WatchdogEnds, Guarded, Typed,
     FieldTypes, CallTypes, TaskTypes, MicTypes, CallsAreOrdered, Starting, Opening, Stopping,
     StateIsTrue, EndIsOrdered, SpeechIsHeld
<1>4. ASSUME NEW c \in Call, Cancel(c) \/ Close(c) PROVE SpeechIsHeld'
  BY <1>4, FramesAre DEF Cancel, Close, Guarded, Typed, FieldTypes, CallTypes, TaskTypes,
     MicTypes, CallsAreOrdered, Starting, Opening, Stopping, StateIsTrue, EndIsOrdered,
     SpeechIsHeld
<1>5. ASSUME Frame PROVE SpeechIsHeld'
  BY <1>5, FramesAre DEF Frame, Guarded, Typed, FieldTypes, CallTypes, TaskTypes, MicTypes,
     CallsAreOrdered, Starting, Opening, Stopping, StateIsTrue, EndIsOrdered, SpeechIsHeld
<1>6. ASSUME CancelStep PROVE SpeechIsHeld'
  BY <1>6, FramesAre DEF CancelStep, CancelIdle, CancelRecording, CancelTimedOut,
     CancelTranscribing, CancelJoinsStart, CancelHalts, CancelReleases, CancelJoinsStop,
     Guarded, Typed, FieldTypes, CallTypes, TaskTypes, MicTypes, CallsAreOrdered, Starting,
     Opening, Stopping, StateIsTrue, EndIsOrdered, SpeechIsHeld
<1>7. ASSUME CloseStep PROVE SpeechIsHeld'
  BY <1>7, FramesAre DEF CloseStep, CloseCancels, CloseCancelsSends, CloseSource, CloseEnds,
     Guarded, Typed, FieldTypes, CallTypes, TaskTypes, MicTypes, CallsAreOrdered, Starting,
     Opening, Stopping, StateIsTrue, EndIsOrdered, SpeechIsHeld
<1>8. CASE UNCHANGED vars
  BY <1>8, FramesAre DEF vars, Guarded, Typed, FieldTypes, CallTypes, TaskTypes, MicTypes,
     CallsAreOrdered, Starting, Opening, Stopping, StateIsTrue, EndIsOrdered, SpeechIsHeld
<1> QED  BY <1>1, <1>2, <1>3, <1>4, <1>5, <1>6, <1>7, <1>8, NextIs

LEMMA TextStep == ASSUME Patient, Guarded, TextIsWanted, [Next]_vars PROVE TextIsWanted'
<1>1. ASSUME NEW c \in Call, StartStep(c) PROVE TextIsWanted'
  BY <1>1, FramesAre DEF StartStep, Start, StartAfterCancel, Opened, OpenFails, Abort,
     StartFails, Guarded, Typed, FieldTypes, CallTypes, TaskTypes, MicTypes, CallsAreOrdered,
     Starting, Opening, Stopping, StateIsTrue, EndIsOrdered, TextIsWanted, Locals
<1>2. ASSUME NEW c \in Call, StopStep(c) PROVE TextIsWanted'
  BY <1>2, FramesAre DEF StopStep, Stop, Captured, Written, Heard, Transcribed, Delivered, Sent,
     Guarded, Typed, FieldTypes, CallTypes, TaskTypes, MicTypes, CallsAreOrdered, Starting,
     Opening, Stopping, StateIsTrue, EndIsOrdered, TextIsWanted, Locals
<1>3. ASSUME NEW c \in Call, RecordStep(c) PROVE TextIsWanted'
  BY <1>3, FramesAre DEF RecordStep, Halt, Disturb, WatchdogFires, WatchdogEnds, Guarded, Typed,
     FieldTypes, CallTypes, TaskTypes, MicTypes, CallsAreOrdered, Starting, Opening, Stopping,
     StateIsTrue, EndIsOrdered, TextIsWanted, Locals
<1>4. ASSUME NEW c \in Call, Cancel(c) \/ Close(c) PROVE TextIsWanted'
  BY <1>4, FramesAre DEF Cancel, Close, Guarded, Typed, FieldTypes, CallTypes, TaskTypes,
     MicTypes, CallsAreOrdered, Starting, Opening, Stopping, StateIsTrue, EndIsOrdered,
     TextIsWanted, Locals
<1>5. ASSUME Frame PROVE TextIsWanted'
  BY <1>5, FramesAre DEF Frame, Guarded, Typed, FieldTypes, CallTypes, TaskTypes, MicTypes,
     CallsAreOrdered, Starting, Opening, Stopping, StateIsTrue, EndIsOrdered, TextIsWanted,
     Locals
<1>6. ASSUME CancelStep PROVE TextIsWanted'
  <2>1. CASE CancelTranscribing
    <3>1. oper \in Call /\ Stopping(oper)
      BY <2>1 DEF CancelTranscribing, Guarded, StateIsTrue
    <3>2. UNCHANGED <<pc, op, local, long, send>> /\ cancelRequested' = TRUE
      BY <2>1 DEF CancelTranscribing
    <3>3. \A d \in Call : trans'[d] = IF d = oper /\ trans[d] = "running" THEN "cancelling" ELSE trans[d]
      BY <2>1, <3>1 DEF CancelTranscribing, Guarded, Typed, TaskTypes
    <3>4. \A d \in dropped' : d \in dropped \/ (d = oper /\ trans[d] # "text")
      BY <2>1 DEF CancelTranscribing
    <3>5. trans[oper] \in {"none", "running", "cancelling", "text", "over"}
      BY <3>1 DEF Guarded, Typed, TaskTypes
    <3> QED  BY <3>1, <3>2, <3>3, <3>4, <3>5 DEF TextIsWanted, Stopping
  <2>2. CASE ~CancelTranscribing
    BY <1>6, <2>2, FramesAre DEF CancelStep, CancelIdle, CancelRecording, CancelTimedOut,
       CancelJoinsStart, CancelHalts, CancelReleases, CancelJoinsStop,
       Guarded, Typed, FieldTypes, CallTypes, TaskTypes, MicTypes, CallsAreOrdered, Starting, Opening,
       Stopping, StateIsTrue, EndIsOrdered, TextIsWanted
  <2> QED  BY <2>1, <2>2
<1>7. ASSUME CloseStep PROVE TextIsWanted'
  BY <1>7, FramesAre DEF CloseStep, CloseCancels, CloseCancelsSends, CloseSource, CloseEnds,
     Guarded, Typed, FieldTypes, CallTypes, TaskTypes, MicTypes, CallsAreOrdered, Starting,
     Opening, Stopping, StateIsTrue, EndIsOrdered, TextIsWanted, Locals
<1>8. CASE UNCHANGED vars
  BY <1>8, FramesAre DEF vars, Guarded, Typed, FieldTypes, CallTypes, TaskTypes, MicTypes,
     CallsAreOrdered, Starting, Opening, Stopping, StateIsTrue, EndIsOrdered, TextIsWanted,
     Locals
<1> QED  BY <1>1, <1>2, <1>3, <1>4, <1>5, <1>6, <1>7, <1>8, NextIs

-----------------------------------------------------------------------------
LEMMA TypedInit == Init => Typed
<1> SUFFICES ASSUME Init PROVE Typed
  OBVIOUS
<1>1. FieldTypes /\ FlagTypes /\ TaskTypes /\ MicTypes /\ HeldTypes /\ pcm \in Frames
  BY FramesAre DEF Init, FieldTypes, FlagTypes, TaskTypes, MicTypes, HeldTypes
<1>2. local \in [Call -> Locals]
  BY LocalsAre DEF Init
<1>3. CallTypes /\ CallsAreOrdered
  BY FramesAre DEF Init, CallTypes, CallsAreOrdered
<1> QED  BY <1>1, <1>2, <1>3 DEF Typed

(* Every field, local, task and stream of the recorder keeps its type,     *)
(* whatever its caller does.                                               *)
THEOREM TypeCorrect == VoiceSpec => []VoiceTypeOK
<1>1. Typed => VoiceTypeOK
  BY DEF Typed, FieldTypes, FlagTypes, CallTypes, TaskTypes, MicTypes, HeldTypes, Frames, Locals,
         VoiceTypeOK
<1> QED  BY TypedInit, <1>1, TypedStep, PTL DEF VoiceSpec

(* The inductive invariant of a patient caller: the state says who is under *)
(* way, a stream is opened and taken once, and cancel and close wait for   *)
(* what they have met.                                                     *)
THEOREM GuardedCorrect == ASSUME Patient PROVE VoiceSpec => []Guarded
<1>1. Init => Guarded
  <2> SUFFICES ASSUME Init PROVE Guarded
    OBVIOUS
  <2>1. Typed
    BY TypedInit
  <2>2. OneStart /\ StateIsTrue /\ EndIsOrdered
    BY FramesAre DEF Init, OneStart, StateIsTrue, EndIsOrdered, Starting, Opening, Stopping
  <2>3. StreamIsNew /\ WatchdogIsNew /\ MicrophoneIsExpected
    BY FramesAre DEF Init, StreamIsNew, WatchdogIsNew, MicrophoneIsExpected
  <2> QED  BY <2>1, <2>2, <2>3 DEF Guarded
<1>2. Guarded /\ [Next]_vars => Guarded'
  BY TypedStep, OneStartStep, StateStep, EndStep, StreamStep, WatchdogNewStep, MicrophoneStep
     DEF Guarded
<1> QED  BY <1>1, <1>2, PTL DEF VoiceSpec

(* The microphone captures only for the recording under way, or somebody   *)
(* is about to stop it; a recording whose start has returned has its stream *)
(* and an armed watchdog.                                                  *)
THEOREM MicrophoneIsGuardedCorrect == ASSUME Patient PROVE VoiceSpec => []MicrophoneIsGuarded
<1>1. Guarded => MicrophoneIsGuarded
  BY DEF Guarded, StateIsTrue, MicrophoneIsGuarded, RecordingIsGuarded, Running
<1> QED  BY <1>1, GuardedCorrect, PTL

(* What was said is nowhere but in the buffer of the recording or with the *)
(* stop that transcribes it.                                               *)
THEOREM SpeechIsWipedCorrect == ASSUME Patient PROVE VoiceSpec => []SpeechIsWiped
<1>1. Init => SpeechIsHeld
  BY DEF Init, SpeechIsHeld
<1>2. Guarded /\ SpeechIsHeld => SpeechIsWiped
  BY DEF Guarded, StateIsTrue, SpeechIsHeld, SpeechIsWiped
<1> QED  BY <1>1, <1>2, SpeechStep, GuardedCorrect, PTL DEF VoiceSpec

(* A recording that was too long or was cancelled before its text was      *)
(* there is not sent, nothing is sent once close has begun, and nothing    *)
(* runs once it is over.                                                   *)
THEOREM OnlyWantedIsSentCorrect == ASSUME Patient PROVE VoiceSpec => OnlyWantedIsSent
<1>1. Init => TextIsWanted
  BY DEF Init, TextIsWanted
<1>2. Guarded /\ TextIsWanted
      => /\ \A c \in Call : send[c] # "none" => c \notin long \cup dropped
         /\ state = "closed" =>
              \A c \in Call : send[c] \notin {"running", "cancelling"} /\ trans[c] = "none"
  BY DEF Guarded, Typed, CallsAreOrdered, Stopping, StateIsTrue, EndIsOrdered, TextIsWanted
<1>3. Guarded /\ [Next]_vars
      => [closing => \A c \in Call : send'[c] = "running" => send[c] = "running"]_vars
  <2> SUFFICES ASSUME Guarded, [Next]_vars, closing, NEW d \in Call, send'[d] = "running"
               PROVE  send[d] = "running"
    OBVIOUS
  <2>1. send \in [Call -> {"none", "running", "cancelling", "over"}]
    BY DEF Guarded, Typed, TaskTypes
  <2>2. ASSUME NEW c \in Call, StartStep(c) \/ StopStep(c) \/ RecordStep(c) \/ Cancel(c) \/ Close(c)
        PROVE  send[d] = "running"
    BY <2>1, <2>2 DEF StartStep, Start, StartAfterCancel, Opened, OpenFails, Abort, StartFails,
       StopStep, Stop, Captured, Written, Heard, Transcribed, Delivered, Sent,
       RecordStep, Halt, Disturb, WatchdogFires, WatchdogEnds, Cancel, Close
  <2>3. ASSUME Frame \/ CancelStep \/ CloseStep \/ UNCHANGED vars PROVE send[d] = "running"
    BY <2>1, <2>3 DEF Frame, CancelStep, CancelIdle, CancelRecording, CancelTimedOut,
       CancelTranscribing, CancelJoinsStart, CancelHalts, CancelReleases, CancelJoinsStop,
       CloseStep, CloseCancels, CloseCancelsSends, CloseSource, CloseEnds, vars
  <2> QED  BY <2>2, <2>3, NextIs
<1> QED  BY <1>1, <1>2, <1>3, TextStep, GuardedCorrect, PTL DEF VoiceSpec, OnlyWantedIsSent
=============================================================================
