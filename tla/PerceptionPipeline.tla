-------------------------- MODULE PerceptionPipeline --------------------------
(***************************************************************************)
(* The screen observation of app/perception/pipeline.py: the stages of     *)
(* observe() under their lock, the change detector with its sticky         *)
(* verdict, the switches of vision and cloud vision as their listeners     *)
(* (factory.py) bring them, the clean-up of a revocation, and close().     *)
(*                                                                         *)
(* A stage ends where the pipeline awaits something external (window,      *)
(* capture, OCR, sanitizer, cloud); a job in a thread is drained before    *)
(* the cancellation that met it is raised (thread_jobs.py), so nothing of  *)
(* an observation runs on after it.  The screen belongs to the user.       *)
(***************************************************************************)
EXTENDS Naturals

CONSTANTS
    Observation,    \* calls of observe
    Writer,         \* changes of a switch
    None,
    Window,         \* windows of the desktop
    Blocked,        \* those that the window guard stops
    Content,        \* what a window may show
    Secret,         \* what the content guard stops
    Parties         \* bound: sets of observations and writers that act together

ASSUME PerceptionAssumption ==
    /\ None \notin Observation \cup Writer \cup Window
    /\ Blocked \subseteq Window /\ Secret \subseteq Content /\ Content # {}
    /\ \A p \in Parties : p \subseteq Observation \cup Writer

VARIABLES
    front, shown,   \* the window in front, and what each window shows
    flag,           \* the flag vision, as _enabled reads it
    permitted, generation,          \* _vision_permitted, _vision_generation
    cloudFlag, cloudPermitted,      \* the flag cloud_vision, _cloud_permitted
    closed,         \* _closed
    lock,           \* who holds _observation_lock
    last,           \* the detector: window and content committed last, its verdict
    pc,             \* an observation
    frame,          \* its window and the content captured
    context,        \* what it returns: "none", "safe" or "sensitive"
    throw,          \* observations with a CancelledError to be raised
    writer,         \* a change: pc, switch, value, whether it is on the loop, generation
    joins,          \* the observations that a clean-up waits for; of close, too
    closer,         \* where close stands
    stale,          \* history: observations that were running when vision was revoked
    spared          \* history: those of which vision was permitted again in time

screenVars == <<front, shown>>
flagVars   == <<flag, permitted, generation, cloudFlag, cloudPermitted>>
obsVars    == <<lock, last, pc, frame, context, throw>>
vars == <<screenVars, flagVars, closed, obsVars, writer, joins, closer, stale, spared>>

NoFrame == [win |-> None, content |-> None]
Empty   == [win |-> None, content |-> None, sens |-> FALSE]
Idle    == [pc |-> "idle", vision |-> TRUE, on |-> FALSE, loop |-> FALSE, gen |-> 0]

Stages == {"window", "capture", "ocr", "sanitize", "cloud"}
Active == {o \in Observation : pc[o] \in Stages \cup {"lock"}}

PerceptionTypeOK ==
    /\ front \in Window /\ shown \in [Window -> Content]
    /\ {flag, permitted, cloudFlag, cloudPermitted, closed} \subseteq BOOLEAN
    /\ generation \in Nat
    /\ lock \in Observation \cup {None}
    /\ pc \in [Observation -> Stages \cup {"idle", "lock", "done"}]
    /\ context \in [Observation -> {"none", "safe", "sensitive"}]
    /\ throw \subseteq Active
    /\ frame \in [Observation -> [win : Window \cup {None}, content : Content \cup {None}]]
    /\ last \in [win : Window \cup {None}, content : Content \cup {None}, sens : BOOLEAN]
    /\ writer \in [Writer -> [pc : {"idle", "listener", "clean", "join", "done"},
                              vision : BOOLEAN, on : BOOLEAN, loop : BOOLEAN, gen : Nat]]
    /\ joins \in [Writer \cup {None} -> SUBSET Observation]
    /\ closer \in {"none", "join", "transitions", "done"}
    /\ stale \subseteq Observation /\ spared \subseteq Observation

Init ==
    /\ front \in Window
    /\ \E s \in [Window \ Blocked -> Content], any \in {CHOOSE c \in Content : TRUE} :
           shown = [w \in Window |-> IF w \in Blocked THEN any ELSE s[w]]
    /\ flag \in BOOLEAN /\ cloudFlag \in BOOLEAN
    /\ permitted = TRUE /\ cloudPermitted = TRUE /\ generation = 0
    /\ closed = FALSE /\ lock = None
    /\ last = Empty
    /\ \E p \in Parties :
           /\ pc = [o \in Observation |-> IF o \in p THEN "idle" ELSE "done"]
           /\ writer = [w \in Writer |-> IF w \in p THEN Idle ELSE [Idle EXCEPT !.pc = "done"]]
    /\ frame = [o \in Observation |-> NoFrame]
    /\ context = [o \in Observation |-> "none"]
    /\ throw = {}
    /\ joins = [x \in Writer \cup {None} |-> {}]
    /\ closer = "none"
    /\ stale = {} /\ spared = {}

IsEnabled == ~closed /\ permitted /\ flag
IsCloudEnabled == ~closed /\ cloudPermitted /\ cloudFlag

(* The guards decide by the process and title of a window and by the text  *)
(* that OCR read, and always the same.                                     *)
PreCaptureGuard(w) == IF w \in Blocked THEN "block" ELSE "allow"
OCRContentGuard(c) == IF c \in Secret THEN "block" ELSE "allow"

-----------------------------------------------------------------------------
(* How an observation ends.                                                *)

Frame == <<screenVars, flagVars, closed, writer, joins, closer, stale, spared>>

End_KeepsLock(o, c) ==
    /\ pc' = [pc EXCEPT ![o] = "done"]
    /\ context' = [context EXCEPT ![o] = c]
    /\ throw' = throw \ {o}
    /\ frame' = [frame EXCEPT ![o] = NoFrame]
    /\ UNCHANGED lock

End(o, c) ==
    /\ pc' = [pc EXCEPT ![o] = "done"]
    /\ context' = [context EXCEPT ![o] = c]
    /\ lock' = IF lock = o THEN None ELSE lock
    /\ throw' = throw \ {o}
    /\ frame' = [frame EXCEPT ![o] = NoFrame]

(* _disabled_result.                                                       *)
Disabled(o) == End(o, "none") /\ last' = Empty

(* An error, or a screen that has not changed.                             *)
Nothing(o) == End(o, "none") /\ UNCHANGED last

(* FrameChangeDetector.compare: only a frame of the window seen last can    *)
(* be unchanged; it is if its digest is equal or its perceptual hash near   *)
(* enough, and then the old verdict holds.                                 *)
MayBeUnchanged(o) == last.win = frame[o].win
MustBeUnchanged(o, seen) == last.win = frame[o].win /\ last.content = seen

Commit(o, sensitive) ==
    last' = [win |-> frame[o].win, content |-> frame[o].content, sens |-> sensitive]

(* _safe_result: the commit may fail.                                      *)
SafeResult(o) ==
    IF ~IsEnabled THEN Disabled(o)
    ELSE \/ Commit(o, FALSE) /\ End(o, "safe")
         \/ Nothing(o)

Goto(o, stage) ==
    /\ pc' = [pc EXCEPT ![o] = stage]
    /\ UNCHANGED <<lock, last, context, throw>>

-----------------------------------------------------------------------------
(* observe.                                                                *)

Observe(o) ==
    /\ pc[o] = "idle"
    /\ IF IsEnabled THEN Goto(o, "lock") /\ UNCHANGED frame ELSE Disabled(o)
    /\ UNCHANGED Frame

Enter(o) ==
    /\ pc[o] = "lock" /\ lock = None /\ o \notin throw
    /\ IF IsEnabled
       THEN lock' = o /\ pc' = [pc EXCEPT ![o] = "window"] /\ UNCHANGED <<last, context, throw, frame>>
       ELSE Disabled(o)
    /\ UNCHANGED Frame

(* The window in front and the guard's verdict, with a timeout each.       *)
LookAtWindow(o) ==
    /\ pc[o] = "window" /\ o \notin throw
    /\ \/ Nothing(o)
       \/ IF ~IsEnabled THEN Disabled(o)
          ELSE IF PreCaptureGuard(front) = "block" THEN End(o, "sensitive") /\ UNCHANGED last
          ELSE Goto(o, "capture") /\ frame' = [frame EXCEPT ![o].win = front]
    /\ UNCHANGED Frame

Capture(o) ==
    LET seen == shown[frame[o].win]
    IN  /\ pc[o] = "capture" /\ o \notin throw
        /\ \/ Nothing(o)
           \/ ~IsEnabled /\ Disabled(o)
           \/ /\ IsEnabled
              /\ ~MustBeUnchanged(o, seen)
              /\ Goto(o, "ocr") /\ frame' = [frame EXCEPT ![o].content = seen]
           \/ /\ IsEnabled /\ MayBeUnchanged(o)
              /\ last' = [last EXCEPT !.content = seen]
              /\ End(o, IF last.sens THEN "sensitive" ELSE "none")
    /\ UNCHANGED Frame

(* OCR, the content guard and the local classification; the cloud needs    *)
(* its switch, boxes for all text and a call within the rate.              *)
Read(o) ==
    /\ pc[o] = "ocr" /\ o \notin throw
    /\ \/ Nothing(o)
       \/ ~IsEnabled /\ Disabled(o)
       \/ /\ IsEnabled /\ OCRContentGuard(frame[o].content) = "block"
          /\ End(o, "sensitive")
          /\ Commit(o, TRUE) \/ UNCHANGED last
       \/ /\ IsEnabled /\ OCRContentGuard(frame[o].content) = "allow"
          /\ \/ SafeResult(o)
             \/ IsCloudEnabled /\ Goto(o, "sanitize") /\ UNCHANGED frame
    /\ UNCHANGED Frame

Sanitize_NotRechecked(o) ==
    /\ pc[o] = "sanitize" /\ o \notin throw
    /\ \/ SafeResult(o)
       \/ IF ~IsEnabled THEN Disabled(o) ELSE Goto(o, "cloud") /\ UNCHANGED frame
    /\ UNCHANGED Frame

Sanitize(o) ==
    /\ pc[o] = "sanitize" /\ o \notin throw
    /\ \/ SafeResult(o)
       \/ IF ~IsEnabled THEN Disabled(o)
          ELSE IF ~IsCloudEnabled THEN SafeResult(o)
          ELSE Goto(o, "cloud") /\ UNCHANGED frame
    /\ UNCHANGED Frame

Analyze(o) ==
    /\ pc[o] = "cloud" /\ o \notin throw
    /\ \/ Nothing(o)
       \/ SafeResult(o)
    /\ UNCHANGED Frame

(* A clean-up has cancelled the observation: whatever it did, it answers   *)
(* that vision is disabled.                                                *)
Cancelled(o) ==
    /\ o \in throw
    /\ Disabled(o)
    /\ UNCHANGED Frame

-----------------------------------------------------------------------------
(* The switches.                                                           *)

(* FeatureFlagManager.set in a thread, up to its listeners.                *)
SetFlag(w) ==
    /\ writer[w].pc = "idle"
    /\ \E v \in BOOLEAN, on \in BOOLEAN, l \in BOOLEAN :
        /\ writer' = [writer EXCEPT ![w] =
            [pc |-> "listener", vision |-> v, on |-> on, loop |-> l, gen |-> 0]]
        /\ IF v THEN flag' = on /\ UNCHANGED cloudFlag ELSE cloudFlag' = on /\ UNCHANGED flag
    /\ UNCHANGED <<screenVars, permitted, generation, cloudPermitted, closed, obsVars, joins,
                   closer, stale, spared>>

Drop(w) == [writer EXCEPT ![w] = [Idle EXCEPT !.pc = "done"]]

(* on_feature_changed; close has unsubscribed it.                          *)
Notify(w) ==
    /\ writer[w].pc = "listener"
    /\ IF closed
       THEN writer' = Drop(w) /\ UNCHANGED <<permitted, generation, cloudPermitted, stale, spared>>
       ELSE IF writer[w].vision
       THEN /\ generation' = generation + 1
            /\ permitted' = writer[w].on
            /\ stale' = IF writer[w].on THEN stale ELSE stale \cup Active
            /\ spared' = IF writer[w].on /\ (\E v \in Writer : writer[v].pc = "clean")
                         THEN spared \cup (stale \cap Active) ELSE spared
            /\ writer' = IF writer[w].on THEN Drop(w)
                         ELSE [writer EXCEPT ![w].pc = "clean", ![w].gen = generation']
            /\ UNCHANGED cloudPermitted
       ELSE /\ cloudPermitted' = writer[w].on
            /\ writer' = Drop(w)
            /\ UNCHANGED <<permitted, generation, stale, spared>>
    /\ UNCHANGED <<screenVars, flag, cloudFlag, closed, obsVars, joins, closer>>

Clean_OnlyDrains(w) ==
    /\ writer[w].pc = "clean"
    /\ IF permitted \/ generation # writer[w].gen
       THEN writer' = Drop(w) /\ UNCHANGED joins
       ELSE /\ writer' = [writer EXCEPT ![w].pc = "join"]
            /\ joins' = [joins EXCEPT ![w] = Active]
    /\ UNCHANGED <<screenVars, flagVars, closed, obsVars, closer, stale, spared>>

(* _finish_vision_disable: a newer change takes over.                      *)
Clean(w) ==
    /\ writer[w].pc = "clean"
    /\ IF permitted \/ generation # writer[w].gen
       THEN writer' = Drop(w) /\ UNCHANGED <<joins, throw>>
       ELSE /\ writer' = [writer EXCEPT ![w].pc = "join"]
            /\ joins' = [joins EXCEPT ![w] = Active]
            /\ throw' = throw \cup Active
    /\ UNCHANGED <<screenVars, flagVars, closed, lock, last, pc, frame, context, closer, stale, spared>>

Cleaned(w) ==
    /\ writer[w].pc = "join" /\ joins[w] \cap Active = {}
    /\ last' = Empty
    /\ writer' = Drop(w)
    /\ joins' = [joins EXCEPT ![w] = {}]
    /\ UNCHANGED <<screenVars, flagVars, closed, lock, pc, frame, context, throw, closer, stale, spared>>

-----------------------------------------------------------------------------
(* close.                                                                  *)

Close ==
    /\ closer = "none"
    /\ closer' = "join"
    /\ closed' = TRUE
    /\ generation' = generation + 1 /\ permitted' = FALSE /\ cloudPermitted' = FALSE
    /\ stale' = stale \cup Active
    /\ joins' = [joins EXCEPT ![None] = Active]
    /\ throw' = throw \cup Active
    /\ UNCHANGED <<screenVars, flag, cloudFlag, lock, last, pc, frame, context, writer, spared>>

CloseJoined ==
    /\ closer = "join" /\ joins[None] \cap Active = {}
    /\ closer' = "transitions"
    /\ joins' = [joins EXCEPT ![None] = {}]
    /\ UNCHANGED <<screenVars, flagVars, closed, obsVars, writer, stale, spared>>

(* The clean-ups that were started on the loop are joined.                 *)
CloseEnds ==
    /\ closer = "transitions"
    /\ \A w \in Writer : writer[w].loop => writer[w].pc \notin {"clean", "join"}
    /\ closer' = "done"
    /\ last' = Empty
    /\ UNCHANGED <<screenVars, flagVars, closed, lock, pc, frame, context, throw, writer, joins,
                   stale, spared>>

-----------------------------------------------------------------------------
(* The user switches to a window; what a window shows changes (a window    *)
(* that the guard stops is never captured, and need not).                  *)
SwitchTo(w) ==
    /\ front' = w
    /\ UNCHANGED <<shown, flagVars, closed, obsVars, writer, joins, closer, stale, spared>>

Show(w, c) ==
    /\ shown' = [shown EXCEPT ![w] = c]
    /\ UNCHANGED <<front, flagVars, closed, obsVars, writer, joins, closer, stale, spared>>

ObservationStep(o) ==
    \/ Enter(o) \/ LookAtWindow(o) \/ Capture(o) \/ Read(o) \/ Sanitize(o) \/ Analyze(o)
    \/ Cancelled(o)

WriterStep(w) == Notify(w) \/ Clean(w) \/ Cleaned(w)

Next ==
    \/ \E o \in Observation : Observe(o) \/ ObservationStep(o)
    \/ \E w \in Writer : SetFlag(w) \/ WriterStep(w)
    \/ Close \/ CloseJoined \/ CloseEnds
    \/ \E w \in Window : SwitchTo(w)
    \/ \E w \in Window \ Blocked, c \in Content : Show(w, c)

(* Every stage has its timeout and the loop goes on.                       *)
Fairness ==
    /\ \A o \in Observation : WF_vars(ObservationStep(o))
    /\ \A w \in Writer : WF_vars(WriterStep(w))
    /\ WF_vars(CloseJoined) /\ WF_vars(CloseEnds)

PerceptionSpec == Init /\ [][Next]_vars /\ Fairness

-----------------------------------------------------------------------------
(* "vision revoke 会停止并等待在途 observation": an observation that was        *)
(* running when vision was revoked yields nothing, and when the clean-up   *)
(* of the last revocation returns none of those runs and the detector has  *)
(* forgotten the screen; so it has, and nothing runs, once close returned. *)
(* (Vision switched on again before the clean-up looks at it spares the    *)
(* observation.)                                                           *)
RevocationIsBarrier ==
    /\ [](\A o \in stale \ spared : context[o] = "none")
    /\ [][\A w \in Writer :
            writer[w].pc \in {"clean", "join"} /\ writer'[w].pc = "done" /\ ~permitted'
            /\ generation' = writer[w].gen
            => last' = Empty /\ stale \cap Active' \subseteq spared]_vars
    /\ [](closer = "done" => last = Empty /\ Active = {})

(* What the content guard calls secret is never reported as a safe screen  *)
(* and never leaves for the cloud, and an upload starts only while both    *)
(* switches are on.                                                        *)
SecretStaysLocal ==
    [][\A o \in Observation :
        /\ pc[o] # "done" /\ context'[o] = "safe" => frame[o].content \in Content \ Secret
        /\ pc[o] # "cloud" /\ pc'[o] = "cloud" =>
            /\ frame[o].content \in Content \ Secret
            /\ permitted /\ cloudPermitted /\ flag /\ cloudFlag]_vars

(* Observations, changes and close end: a clean-up that waits for an       *)
(* observation is not waited for by it.                                    *)
PerceptionEnds ==
    /\ \A o \in Observation : o \in Active ~> o \notin Active
    /\ \A w \in Writer : writer[w].pc # "idle" ~> writer[w].pc = "done"
    /\ closer # "none" ~> closer = "done"
=============================================================================
