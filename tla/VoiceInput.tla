----------------------------- MODULE VoiceInput -----------------------------
(***************************************************************************)
(* The push-to-talk recorder of desktop_client/inputs/voice_input.py and   *)
(* its microphone: calls of start, stop, stop_and_send, cancel and close,  *)
(* the watchdog of a recording, the transcription and the delivery.        *)
(*                                                                         *)
(* No section under the recorder's lock awaits, so a section is a part of  *)
(* one action; an action ends where a task awaits a thread or a task.  A   *)
(* clean-up completes before the cancellation that met it is raised        *)
(* (_finish_cleanup, _drainable_to_thread).  A recording and its stream    *)
(* are named by the call of start.                                         *)
(***************************************************************************)
EXTENDS Naturals

CONSTANTS
    Call,       \* calls of the recorder, each in a task of its own
    None,
    MaxFrames,  \* frames that fit into the buffer
    Disturbed,  \* bound: calls whose task is cancelled by their caller
    Patient     \* the caller does not start while an earlier start runs

Ops == {"start", "stop", "send", "cancel", "close"}

ASSUME VoiceAssumption ==
    /\ None \notin Call \cup Ops /\ Disturbed \subseteq Call
    /\ MaxFrames \in Nat \ {0} /\ Patient \in BOOLEAN

VARIABLES
    state, pcm, recId, dogRef, oper, cancelRequested, limitError, closing,
                \* the fields of the recorder
    pc, op,     \* a call
    throw,      \* calls with a CancelledError to be raised
    local,      \* the locals of a stop: watchdog, timed_out, pcm, limit_error
    wav,        \* stops whose temporary directory exists
    trans,      \* the transcription task of a stop
    send,       \* the delivery task of a call
    dog,        \* the watchdog of a recording
    dogThrow,   \* watchdogs that are cancelled
    cancelT,    \* _cancel_task: pc, and the task and the watchdog it joins
    closeT,     \* where _close_task stands
    stream,     \* SoundDevicePCMInput._stream
    open,       \* streams that capture
    held,       \* who is about to stop which stream
    long,       \* history: stops that took a recording that was too long
    dropped     \* history: stops that were cancelled before their text was there

fieldVars == <<state, pcm, recId, dogRef, oper, cancelRequested, limitError>>
stopVars  == <<local, wav, trans, long>>
dogVars   == <<dog, dogThrow>>
micVars   == <<stream, open, held>>
vars == <<fieldVars, closing, pc, op, throw, stopVars, send, dogVars, cancelT, closeT,
          micVars, dropped>>

NoLocal == [dog |-> None, timedOut |-> FALSE, pcm |-> 0, limit |-> FALSE]
NoCancel == [pc |-> "none", op |-> None, dog |-> None]

VoiceTypeOK ==
    /\ state \in {"idle", "recording", "timed_out", "transcribing", "closed"}
    /\ pcm \in 0..MaxFrames
    /\ recId \in Call \cup {None} /\ dogRef \in Call \cup {None} /\ oper \in Call \cup {None}
    /\ cancelRequested \in BOOLEAN /\ limitError \in BOOLEAN /\ closing \in BOOLEAN
    /\ pc \in [Call -> {"idle", "join", "begin", "opening", "abort", "halt", "release",
                        "write", "hear", "send", "wait", "done"}]
    /\ op \in [Call -> Ops \cup {None}]
    /\ throw \subseteq Call /\ wav \subseteq Call
    /\ local \in [Call -> [dog : Call \cup {None}, timedOut : BOOLEAN, pcm : 0..MaxFrames,
                           limit : BOOLEAN]]
    /\ trans \in [Call -> {"none", "running", "cancelling", "text", "over"}]
    /\ send \in [Call -> {"none", "running", "cancelling", "over"}]
    /\ dog \in [Call -> {"none", "armed", "stopping", "done"}]
    /\ dogThrow \subseteq Call
    /\ cancelT \in [pc : {"none", "begin", "task", "halt", "release", "dog", "stop"},
                    op : Call \cup {None}, dog : Call \cup {None}]
    /\ closeT \in {"none", "cancel", "cancelling", "sends", "join", "source", "done"}
    /\ stream \in Call \cup {None} /\ open \subseteq Call
    /\ held \subseteq (({"call", "dog"} \X Call) \cup {<<"cancel">>, <<"close">>}) \X Call
    /\ long \subseteq Call /\ dropped \subseteq Call

Init ==
    /\ state = "idle" /\ pcm = 0
    /\ recId = None /\ dogRef = None /\ oper = None
    /\ cancelRequested = FALSE /\ limitError = FALSE /\ closing = FALSE
    /\ pc = [c \in Call |-> "idle"] /\ op = [c \in Call |-> None]
    /\ throw = {}
    /\ local = [c \in Call |-> NoLocal]
    /\ wav = {}
    /\ trans = [c \in Call |-> "none"] /\ send = [c \in Call |-> "none"]
    /\ dog = [c \in Call |-> "none"] /\ dogThrow = {}
    /\ cancelT = NoCancel /\ closeT = "none"
    /\ stream = None /\ open = {} /\ held = {}
    /\ long = {} /\ dropped = {}

-----------------------------------------------------------------------------
(* Pieces of the methods.                                                  *)

Goto(c, l) == pc' = [pc EXCEPT ![c] = l]

(* Task.cancel of cs: a task that has ended ignores it.                    *)
Throw(cs) == throw' = throw \cup {c \in cs : pc[c] # "done"}

ResetToIdle ==
    /\ state' = "idle" /\ pcm' = 0
    /\ recId' = None /\ dogRef' = None
    /\ limitError' = FALSE /\ cancelRequested' = FALSE

(* SoundDevicePCMInput.stop: the stream is taken at once and closed by a   *)
(* thread.                                                                 *)
TakeStream(who) ==
    /\ held' = held \cup (IF stream = None THEN {} ELSE {<<who, stream>>})
    /\ stream' = None
    /\ UNCHANGED open

Release(who) ==
    LET mine == {h \in held : h[1] = who}
    IN  /\ open' = open \ {h[2] : h \in mine}
        /\ held' = held \ mine
        /\ UNCHANGED stream

(* _stop_capture: the watchdog w is cancelled and joined first.            *)
Over(w) == IF w = None THEN TRUE ELSE dog[w] = "done"
StopWatchdog(w) == dogThrow' = IF Over(w) THEN dogThrow ELSE dogThrow \cup {w}

CancelRunning == cancelT.pc # "none"
WithCancel == IF CancelRunning THEN cancelT ELSE [NoCancel EXCEPT !.pc = "begin"]

-----------------------------------------------------------------------------
(* start.                                                                  *)

(* The section of start and the first half of SoundDevicePCMInput.start.   *)
Register(c) ==
    IF closing \/ state # "idle"
    THEN Goto(c, "done") /\ UNCHANGED <<fieldVars, dogThrow, local>>
    ELSE /\ pcm' = 0 /\ limitError' = FALSE /\ cancelRequested' = FALSE
         /\ IF stream = None
            THEN /\ state' = "recording" /\ recId' = c /\ oper' = c
                 /\ Goto(c, "opening")
                 /\ UNCHANGED <<dogRef, dogThrow, local>>
            ELSE /\ state' = "idle" /\ recId' = None /\ oper' = c /\ dogRef' = None
                 /\ StopWatchdog(dogRef)
                 /\ local' = [local EXCEPT ![c].dog = dogRef]
                 /\ Goto(c, "halt")

Start(c) ==
    /\ pc[c] = "idle"
    /\ Patient => \A d \in Call : op[d] = "start" => pc[d] = "done"
    /\ op' = [op EXCEPT ![c] = "start"]
    /\ IF CancelRunning THEN Goto(c, "join") /\ UNCHANGED <<fieldVars, dogThrow, local>>
       ELSE Register(c)
    /\ UNCHANGED <<closing, throw, wav, trans, long, send, dog, cancelT, closeT, micVars, dropped>>

StartAfterCancel(c) ==
    /\ pc[c] = "begin" /\ op[c] = "start"
    /\ IF c \in throw THEN Goto(c, "done") /\ UNCHANGED <<fieldVars, dogThrow, local>>
       ELSE Register(c)
    /\ UNCHANGED <<closing, op, throw, wav, trans, long, send, dog, cancelT, closeT, micVars, dropped>>

(* The except clause of start.                                             *)
Abandon(c) ==
    /\ Goto(c, "halt")
    /\ StopWatchdog(dogRef)
    /\ local' = [local EXCEPT ![c].dog = dogRef]
    /\ IF recId = c THEN ResetToIdle
       ELSE UNCHANGED <<state, pcm, recId, dogRef, limitError, cancelRequested>>

Opened_Unchecked(c) ==
    /\ pc[c] = "opening"
    /\ open' = open \cup {c}
    /\ IF c \in throw
       THEN /\ Goto(c, "abort")
            /\ UNCHANGED <<fieldVars, dogVars, stream>>
       ELSE /\ stream' = c
            /\ dog' = [dog EXCEPT ![c] = "armed"]
            /\ dogRef' = c
            /\ oper' = IF oper = c THEN None ELSE oper
            /\ Goto(c, "done")
            /\ UNCHANGED <<state, pcm, recId, limitError, cancelRequested, dogThrow>>
    /\ UNCHANGED <<closing, op, throw, stopVars, send, cancelT, closeT, held, dropped>>

(* The thread has started the stream: the recording goes on with a         *)
(* watchdog, unless it is no longer this one.                              *)
Opened(c) ==
    /\ pc[c] = "opening"
    /\ open' = open \cup {c}
    /\ IF c \in throw
       THEN /\ Goto(c, "abort")
            /\ UNCHANGED <<fieldVars, dogVars, local, stream>>
       ELSE /\ stream' = c
            /\ IF state = "recording" /\ recId = c
               THEN /\ dog' = [dog EXCEPT ![c] = "armed"]
                    /\ dogRef' = c
                    /\ oper' = IF oper = c THEN None ELSE oper
                    /\ Goto(c, "done")
                    /\ UNCHANGED <<state, pcm, recId, limitError, cancelRequested, dogThrow, local>>
               ELSE Abandon(c) /\ UNCHANGED <<oper, dog>>
    /\ UNCHANGED <<closing, op, throw, wav, trans, long, send, cancelT, closeT, held, dropped>>

OpenFails(c) ==
    /\ pc[c] = "opening"
    /\ Abandon(c)
    /\ UNCHANGED <<oper, closing, op, throw, wav, trans, long, send, dog, cancelT, closeT,
                   micVars, dropped>>

(* A start that was cancelled closes its stream.                           *)
Abort(c) ==
    /\ pc[c] = "abort"
    /\ open' = open \ {c}
    /\ Abandon(c)
    /\ UNCHANGED <<oper, closing, op, throw, wav, trans, long, send, dog, cancelT, closeT,
                   stream, held, dropped>>

(* _stop_capture of a start that fails and of a stop.                      *)
Halt(c) ==
    /\ pc[c] = "halt" /\ Over(local[c].dog)
    /\ TakeStream(<<"call", c>>)
    /\ Goto(c, "release")
    /\ UNCHANGED <<fieldVars, closing, op, throw, stopVars, send, dogVars, cancelT, closeT, dropped>>

StartFails(c) ==
    /\ pc[c] = "release" /\ op[c] = "start"
    /\ Release(<<"call", c>>)
    /\ oper' = IF oper = c THEN None ELSE oper
    /\ Goto(c, "done")
    /\ UNCHANGED <<state, pcm, recId, dogRef, cancelRequested, limitError, closing, op, throw,
                   stopVars, send, dogVars, cancelT, closeT, dropped>>

(* _append_frame.                                                          *)
Frame ==
    /\ state = "recording"
    /\ IF pcm = MaxFrames THEN limitError' = TRUE /\ UNCHANGED pcm
       ELSE pcm' = pcm + 1 /\ UNCHANGED limitError
    /\ UNCHANGED <<state, recId, dogRef, oper, cancelRequested, closing, pc, op, throw, stopVars,
                   send, dogVars, cancelT, closeT, micVars, dropped>>

-----------------------------------------------------------------------------
(* The watchdog: its timer or the overflow, _expire_recording, or the end. *)

WatchdogFires(c) ==
    /\ dog[c] = "armed" /\ c \notin dogThrow
    /\ IF state = "recording" /\ recId = c
       THEN /\ state' = "timed_out" /\ limitError' = TRUE
            /\ pcm' = 0 /\ recId' = None
            /\ TakeStream(<<"dog", c>>)
            /\ dog' = [dog EXCEPT ![c] = "stopping"]
       ELSE /\ dog' = [dog EXCEPT ![c] = "done"]
            /\ UNCHANGED <<state, limitError, pcm, recId, micVars>>
    /\ UNCHANGED <<dogRef, oper, cancelRequested, closing, pc, op, throw, stopVars, send,
                   dogThrow, cancelT, closeT, dropped>>

WatchdogEnds(c) ==
    /\ \/ dog[c] = "armed" /\ c \in dogThrow /\ UNCHANGED micVars
       \/ dog[c] = "stopping" /\ Release(<<"dog", c>>)
    /\ dog' = [dog EXCEPT ![c] = "done"]
    /\ UNCHANGED <<fieldVars, closing, pc, op, throw, stopVars, send, dogThrow, cancelT, closeT,
                   dropped>>

-----------------------------------------------------------------------------
(* stop and stop_and_send.                                                 *)

(* The message is taken by this stop; its capture ends with the watchdog   *)
(* that has timed it out, or is ended by the stop.                         *)
Stop(c) ==
    /\ pc[c] = "idle"
    /\ \E o \in {"stop", "send"} : op' = [op EXCEPT ![c] = o]
    /\ IF state \in {"recording", "timed_out"}
       THEN /\ state' = "transcribing"
            /\ pcm' = 0 /\ recId' = None /\ oper' = c
            /\ local' = [local EXCEPT ![c] =
                [dog |-> dogRef, timedOut |-> state = "timed_out", pcm |-> pcm, limit |-> limitError]]
            /\ long' = IF limitError THEN long \cup {c} ELSE long
            /\ IF state = "recording" THEN StopWatchdog(dogRef) ELSE UNCHANGED dogThrow
            /\ Goto(c, IF state = "recording" THEN "halt" ELSE "release")
       ELSE Goto(c, "done") /\ UNCHANGED <<state, pcm, recId, oper, local, long, dogThrow>>
    /\ UNCHANGED <<dogRef, cancelRequested, limitError, closing, throw, wav, trans, send, dog,
                   cancelT, closeT, micVars, dropped>>

FinishStop_KeepsWav(c, next) ==
    /\ Goto(c, next)
    /\ local' = [local EXCEPT ![c] = NoLocal]
    /\ oper' = IF oper = c THEN None ELSE oper
    /\ IF state # "closed" THEN ResetToIdle
       ELSE /\ dogRef' = IF dogRef = local[c].dog THEN None ELSE dogRef
            /\ UNCHANGED <<state, pcm, recId, limitError, cancelRequested>>
    /\ UNCHANGED wav

(* The finally of stop; a stop_and_send that has a text goes on.           *)
FinishStop(c, next) ==
    /\ Goto(c, next)
    /\ local' = [local EXCEPT ![c] = NoLocal]
    /\ wav' = wav \ {c}
    /\ oper' = IF oper = c THEN None ELSE oper
    /\ IF state # "closed" THEN ResetToIdle
       ELSE /\ dogRef' = IF dogRef = local[c].dog THEN None ELSE dogRef
            /\ UNCHANGED <<state, pcm, recId, limitError, cancelRequested>>

(* The capture has ended, perhaps with an error of the device.             *)
Captured(c) ==
    /\ pc[c] = "release" /\ op[c] \in {"stop", "send"}
    /\ local[c].timedOut => Over(local[c].dog)
    /\ Release(<<"call", c>>)
    /\ \/ /\ c \notin throw /\ ~local[c].limit /\ local[c].pcm > 0
          /\ wav' = wav \cup {c}
          /\ Goto(c, "write")
          /\ UNCHANGED <<fieldVars, local>>
       \/ FinishStop(c, "done")
    /\ UNCHANGED <<closing, op, throw, trans, long, send, dogVars, cancelT, closeT, dropped>>

(* The WAV is written by a thread, or cannot be.                           *)
Written(c) ==
    /\ pc[c] = "write"
    /\ \/ /\ c \notin throw /\ ~cancelRequested
          /\ trans' = [trans EXCEPT ![c] = "running"]
          /\ Goto(c, "hear")
          /\ UNCHANGED <<fieldVars, local, wav>>
       \/ FinishStop(c, "done") /\ UNCHANGED trans
    /\ UNCHANGED <<closing, op, throw, long, send, dogVars, cancelT, closeT, micVars, dropped>>

(* The provider answers, fails or is cancelled.                            *)
Transcribed(c) ==
    /\ trans[c] \in {"running", "cancelling"}
    /\ \E t \in {"text", "over"} :
        /\ trans[c] = "cancelling" => t = "over"
        /\ trans' = [trans EXCEPT ![c] = t]
    /\ UNCHANGED <<fieldVars, closing, pc, op, throw, local, wav, long, send, dogVars, cancelT,
                   closeT, micVars, dropped>>

Heard_WhileClosing(c) ==
    /\ pc[c] = "hear" /\ trans[c] \in {"text", "over"}
    /\ trans' = [trans EXCEPT ![c] = "none"]
    /\ IF op[c] = "send" /\ trans[c] = "text" /\ c \notin throw
       THEN /\ send' = [send EXCEPT ![c] = "running"]
            /\ FinishStop(c, "send")
       ELSE FinishStop(c, "done") /\ UNCHANGED send
    /\ UNCHANGED <<closing, op, throw, long, dogVars, cancelT, closeT, micVars, dropped>>

(* stop returns; stop_and_send submits its message unless the recorder is  *)
(* being closed.                                                           *)
Heard(c) ==
    /\ pc[c] = "hear" /\ trans[c] \in {"text", "over"}
    /\ trans' = [trans EXCEPT ![c] = "none"]
    /\ IF op[c] = "send" /\ trans[c] = "text" /\ c \notin throw /\ ~closing
       THEN /\ send' = [send EXCEPT ![c] = "running"]
            /\ FinishStop(c, "send")
       ELSE FinishStop(c, "done") /\ UNCHANGED send
    /\ UNCHANGED <<closing, op, throw, long, dogVars, cancelT, closeT, micVars, dropped>>

(* UserMessageSink.accept ends.                                            *)
Delivered(c) ==
    /\ send[c] \in {"running", "cancelling"}
    /\ send' = [send EXCEPT ![c] = "over"]
    /\ UNCHANGED <<fieldVars, closing, pc, op, throw, stopVars, dogVars, cancelT, closeT,
                   micVars, dropped>>

Sent(c) ==
    /\ pc[c] = "send" /\ send[c] = "over"
    /\ Goto(c, "done")
    /\ UNCHANGED <<fieldVars, closing, op, throw, stopVars, send, dogVars, cancelT, closeT,
                   micVars, dropped>>

(* The caller's task is cancelled: the task that it awaits with it.        *)
Disturb(c) ==
    /\ c \in Disturbed /\ c \notin throw /\ op[c] \in {"start", "stop", "send"}
    /\ pc[c] \notin {"idle", "done"}
    /\ Throw({c})
    /\ trans' = [trans EXCEPT ![c] = IF @ = "running" THEN "cancelling" ELSE @]
    /\ send' = [send EXCEPT ![c] = IF @ = "running" THEN "cancelling" ELSE @]
    /\ pc' = IF pc[c] = "join" THEN [pc EXCEPT ![c] = "begin"] ELSE pc
    /\ UNCHANGED <<fieldVars, closing, op, local, wav, long, dogVars, cancelT, closeT, micVars,
                   dropped>>

-----------------------------------------------------------------------------
(* cancel: one task at a time, which the callers join with a shield.       *)

Cancel(c) ==
    /\ pc[c] = "idle"
    /\ op' = [op EXCEPT ![c] = "cancel"]
    /\ Goto(c, "wait")
    /\ cancelT' = WithCancel
    /\ UNCHANGED <<fieldVars, closing, throw, stopVars, send, dogVars, closeT, micVars, dropped>>

CancelEnds_LeavesStarts ==
    /\ cancelT' = NoCancel
    /\ pc' = [c \in Call |-> IF pc[c] = "wait" /\ op[c] = "cancel" THEN "done" ELSE pc[c]]
    /\ closeT' = IF closeT = "cancelling" THEN "sends" ELSE closeT

(* The task ends; those who wait for it go on.                             *)
CancelEnds ==
    /\ cancelT' = NoCancel
    /\ pc' = [c \in Call |->
                CASE pc[c] = "wait" /\ op[c] = "cancel" -> "done"
                  [] pc[c] = "join" -> "begin"
                  [] OTHER -> pc[c]]
    /\ closeT' = IF closeT = "cancelling" THEN "sends" ELSE closeT

(* The section of _cancel_impl, by the state it finds.                     *)
CancelIdle ==
    /\ cancelT.pc = "begin" /\ state \in {"idle", "closed"}
    /\ CancelEnds
    /\ UNCHANGED <<fieldVars, closing, op, throw, stopVars, send, dogVars, micVars, dropped>>

CancelRecording ==
    /\ cancelT.pc = "begin" /\ state = "recording"
    /\ state' = "idle" /\ pcm' = 0 /\ recId' = None
    /\ limitError' = FALSE /\ cancelRequested' = TRUE
    /\ Throw({oper} \ {None})
    /\ IF oper # None
       THEN cancelT' = [pc |-> "task", op |-> oper, dog |-> dogRef] /\ UNCHANGED dogThrow
       ELSE cancelT' = [pc |-> "halt", op |-> None, dog |-> dogRef] /\ StopWatchdog(dogRef)
    /\ UNCHANGED <<dogRef, oper, closing, pc, op, stopVars, send, dog, closeT, micVars, dropped>>

CancelTimedOut ==
    /\ cancelT.pc = "begin" /\ state = "timed_out"
    /\ state' = "idle" /\ recId' = None
    /\ limitError' = FALSE /\ cancelRequested' = TRUE
    /\ cancelT' = [pc |-> "dog", op |-> None, dog |-> dogRef]
    /\ UNCHANGED <<pcm, dogRef, oper, closing, pc, op, throw, stopVars, send, dogVars, closeT,
                   micVars, dropped>>

CancelTranscribing ==
    /\ cancelT.pc = "begin" /\ state = "transcribing"
    /\ cancelRequested' = TRUE
    /\ trans' = [trans EXCEPT ![oper] = IF @ = "running" THEN "cancelling" ELSE @]
    /\ dropped' = IF trans[oper] = "text" THEN dropped ELSE dropped \cup {oper}
    /\ cancelT' = [pc |-> "stop", op |-> oper, dog |-> None]
    /\ UNCHANGED <<state, pcm, recId, dogRef, oper, limitError, closing, pc, op, throw, local, wav,
                   long, send, dogVars, closeT, micVars>>

(* The start that was cancelled has ended.                                 *)
CancelJoinsStart ==
    /\ cancelT.pc = "task" /\ pc[cancelT.op] = "done"
    /\ cancelT' = [cancelT EXCEPT !.pc = "halt"]
    /\ StopWatchdog(cancelT.dog)
    /\ UNCHANGED <<fieldVars, closing, pc, op, throw, stopVars, send, dog, closeT, micVars, dropped>>

CancelHalts ==
    /\ cancelT.pc = "halt" /\ Over(cancelT.dog)
    /\ TakeStream(<<"cancel">>)
    /\ cancelT' = [cancelT EXCEPT !.pc = "release"]
    /\ UNCHANGED <<fieldVars, closing, pc, op, throw, stopVars, send, dogVars, closeT, dropped>>

(* The last section, left out if the device has failed to stop.            *)
CancelReleases ==
    /\ \/ cancelT.pc = "release"
       \/ cancelT.pc = "dog" /\ Over(cancelT.dog)
    /\ Release(<<"cancel">>)
    /\ \/ state # "closed" /\ ResetToIdle
       \/ UNCHANGED <<state, pcm, recId, dogRef, limitError, cancelRequested>>
    /\ CancelEnds
    /\ UNCHANGED <<oper, closing, op, throw, stopVars, send, dogVars, dropped>>

(* The task of the stop is joined to its end: its delivery with it.        *)
CancelJoinsStop ==
    /\ cancelT.pc = "stop" /\ pc[cancelT.op] = "done"
    /\ CancelEnds
    /\ UNCHANGED <<fieldVars, closing, op, throw, stopVars, send, dogVars, micVars, dropped>>

-----------------------------------------------------------------------------
(* close.                                                                  *)

Close(c) ==
    /\ pc[c] = "idle"
    /\ op' = [op EXCEPT ![c] = "close"]
    /\ Goto(c, IF closeT = "done" THEN "done" ELSE "wait")
    /\ closing' = TRUE
    /\ closeT' = IF closeT = "none" THEN "cancel" ELSE closeT
    /\ UNCHANGED <<fieldVars, throw, stopVars, send, dogVars, cancelT, micVars, dropped>>

CloseCancels ==
    /\ closeT = "cancel"
    /\ cancelT' = WithCancel
    /\ closeT' = "cancelling"
    /\ UNCHANGED <<fieldVars, closing, pc, op, throw, stopVars, send, dogVars, micVars, dropped>>

CloseCancelsSends ==
    /\ closeT = "sends"
    /\ send' = [c \in Call |-> IF send[c] = "running" THEN "cancelling" ELSE send[c]]
    /\ closeT' = "join"
    /\ UNCHANGED <<fieldVars, closing, pc, op, throw, stopVars, dogVars, cancelT, micVars, dropped>>

CloseSource ==
    /\ closeT = "join" /\ \A c \in Call : send[c] \notin {"running", "cancelling"}
    /\ TakeStream(<<"close">>)
    /\ closeT' = "source"
    /\ UNCHANGED <<fieldVars, closing, pc, op, throw, stopVars, send, dogVars, cancelT, dropped>>

CloseEnds ==
    /\ closeT = "source"
    /\ Release(<<"close">>)
    /\ state' = "closed" /\ pcm' = 0 /\ recId' = None /\ dogRef' = None
    /\ closeT' = "done"
    /\ pc' = [c \in Call |-> IF pc[c] = "wait" /\ op[c] = "close" THEN "done" ELSE pc[c]]
    /\ UNCHANGED <<oper, cancelRequested, limitError, closing, op, throw, stopVars, send, dogVars,
                   cancelT, dropped>>

-----------------------------------------------------------------------------
CallStep(c) ==
    \/ StartAfterCancel(c) \/ Opened(c) \/ OpenFails(c) \/ Abort(c) \/ Halt(c) \/ StartFails(c)
    \/ Captured(c) \/ Written(c) \/ Transcribed(c) \/ Heard(c) \/ Delivered(c) \/ Sent(c)

WatchdogStep(c) == WatchdogFires(c) \/ WatchdogEnds(c)

CancelStep ==
    \/ CancelIdle \/ CancelRecording \/ CancelTimedOut \/ CancelTranscribing
    \/ CancelJoinsStart \/ CancelHalts \/ CancelReleases \/ CancelJoinsStop

CloseStep == CloseCancels \/ CloseCancelsSends \/ CloseSource \/ CloseEnds

Next ==
    \/ \E c \in Call :
        \/ Start(c) \/ Stop(c) \/ Cancel(c) \/ Close(c) \/ Disturb(c)
        \/ CallStep(c) \/ WatchdogStep(c)
    \/ Frame \/ CancelStep \/ CloseStep

(* The loop and the threads go on; the timer of a recording runs out, the  *)
(* provider has a timeout and a turn ends.  Nobody has to call anything.   *)
Fairness ==
    /\ \A c \in Call : WF_vars(CallStep(c)) /\ WF_vars(WatchdogStep(c))
    /\ WF_vars(CancelStep) /\ WF_vars(CloseStep)

VoiceSpec == Init /\ [][Next]_vars /\ Fairness

-----------------------------------------------------------------------------
Running(c) == pc[c] \notin {"idle", "done"}

(* The microphone captures only for a recording, or somebody is about to   *)
(* stop it: a call, the task of cancel or a watchdog.                      *)
MicrophoneIsExpected ==
    \A s \in open :
        \/ state = "recording" /\ recId = s
        \/ pc[s] = "abort"
        \/ s = stream /\ (cancelT.pc = "halt" \/ \E c \in Call : pc[c] = "halt")
        \/ \E h \in held : h[2] = s

(* A recording has the stream of its start and a watchdog that will stop   *)
(* it, once its start has returned.                                        *)
RecordingIsGuarded ==
    state = "recording" /\ ~Running(recId) =>
        stream = recId /\ recId \in open /\ dogRef = recId /\ dog[recId] = "armed"

(* What was said is kept only while it is recorded or transcribed: the     *)
(* buffer and the WAV are gone when the recorder is idle again.            *)
SpeechIsWiped ==
    /\ state # "recording" => pcm = 0
    /\ \A c \in Call : c \in wav \/ local[c].pcm > 0 => state = "transcribing" /\ oper = c

(* The microphone and the recording belong together.                       *)
MicrophoneIsGuarded == MicrophoneIsExpected /\ RecordingIsGuarded

(* "停止、wipe 并拒绝发送": a recording that ran into the limit or the deadline,  *)
(* and one that was cancelled before its text was there, is never sent;    *)
(* nothing is sent once close has begun, and nothing runs once it is over. *)
OnlyWantedIsSent ==
    /\ [](\A c \in Call : send[c] # "none" => c \notin long \cup dropped)
    /\ [][closing => \A c \in Call : send'[c] = "running" => send[c] = "running"]_vars
    /\ [](state = "closed" =>
            \A c \in Call : send[c] \notin {"running", "cancelling"} /\ trans[c] = "none")

(* Every call ends, whoever waits for whom, and a recording that nobody    *)
(* stops does not go on.                                                   *)
VoiceCallsEnd ==
    /\ \A c \in Call : Running(c) ~> pc[c] = "done"
    /\ \A c \in Call : recId = c ~> recId # c

(* "close … cannot leave microphone active": a recorder that is closed and *)
(* has nothing running captures nothing.                                   *)
ClosedMicrophoneIsOff ==
    state = "closed" /\ (\A c \in Call : ~Running(c)) => open = {}
=============================================================================
