-------------------------- MODULE DialoguePipeline --------------------------
(***************************************************************************)
(* app/pipelines/dialogue.py: one turn of the dialogue pipeline.  A task   *)
(* group streams the answer of the language model, synthesizes its         *)
(* segments with several workers and plays them in order; then the player  *)
(* is stopped and what was synthesized in vain is discarded.               *)
(*                                                                         *)
(* An action is the code from one await that may suspend to the next.      *)
(* Putting into a queue and emitting an event never suspend.  A child of   *)
(* the group that raises a CancelledError (a TurnCancelledError is one)    *)
(* just ends; one that raises anything else makes the group abort.         *)
(***************************************************************************)
EXTENDS Naturals, Sequences, FiniteSets

CONSTANTS Workers,           \* the TTS workers
          Stream, Playback,  \* the other two children of the group
          End,               \* the None that tells a worker to stop
          MaxSegments,       \* bound on the segments of an answer
          MaxCancels         \* bound on the cancellations of the turn

ASSUME PipelineAssumption ==
  /\ IsFiniteSet(Workers) /\ Workers # {}
  /\ Stream \notin Workers /\ Playback \notin Workers /\ Stream # Playback
  /\ MaxSegments \in Nat /\ MaxCancels \in Nat
  /\ End \notin Nat /\ Workers \cap Nat = {}

Segments == 0 .. MaxSegments - 1
Children == Workers \cup {Stream, Playback}

VARIABLES
  run,         \* where _run_request is
  outcome,     \* how it ends
  audio,       \* audio_enabled
  token,       \* the token of the turn is cancelled
  parentThrow, \* a cancel() of the turn's task that has not reached it
  cancels,     \* how often the turn was cancelled
  pc,          \* the children of the group
  throw,       \* the children with a cancel() that has not reached them
  childFailed, \* a child has raised an error
  fed,         \* segments handed out by the segmenter
  ttsQueue,    \* indices of jobs, and End
  job,         \* the index a worker synthesizes
  result,      \* AudioResult.success by index
  audioQueue,  \* indices of results; a worker stands for its None
  cleanup,     \* indices of the results in cleanup
  pending,     \* ordered_playback: pending
  next,        \* ordered_playback: next_index
  finished,    \* ordered_playback: the workers counted by finished_workers
  after,       \* what follows the discard of a played result
  discarded,   \* history: results handed to discard
  cutShort     \* history: the last clean-up did not reach the results

parentVars == <<run, outcome, audio, cutShort>>
cancelVars == <<token, parentThrow, cancels>>
queueVars == <<fed, ttsQueue, job, result, audioQueue>>
playVars == <<pending, next, finished, after>>
audioVars == <<cleanup, discarded>>
vars == <<parentVars, cancelVars, pc, throw, childFailed, queueVars, playVars,
          audioVars>>

TypeOK ==
  /\ run \in {"build", "group", "aborting", "stopping", "discarding", "done"}
  /\ outcome \in {"none", "completed", "cancelled", "failed"}
  /\ audio \in BOOLEAN
  /\ token \in BOOLEAN
  /\ parentThrow \in BOOLEAN
  /\ cancels \in Nat
  /\ pc \in [Children -> {"off", "streaming", "get", "synth", "playing",
                          "discarding", "done"}]
  /\ throw \in SUBSET Children
  /\ childFailed \in BOOLEAN
  /\ fed \in 0 .. MaxSegments
  /\ ttsQueue \in Seq(Segments \cup {End})
  /\ job \in [Workers -> Nat]
  /\ result \in [Segments -> {"none", "ok", "failed"}]
  /\ audioQueue \in Seq(Segments \cup Workers)
  /\ cleanup \in SUBSET Segments
  /\ pending \in SUBSET Segments
  /\ next \in 0 .. MaxSegments
  /\ finished \in SUBSET Workers
  /\ after \in {"continue", "cancel", "fail"}
  /\ discarded \in SUBSET Segments
  /\ cutShort \in BOOLEAN

Init ==
  /\ run = "build"
  /\ outcome = "none"
  /\ audio = FALSE
  /\ token = FALSE
  /\ parentThrow = FALSE
  /\ cancels = 0
  /\ pc = [c \in Children |-> "off"]
  /\ throw = {}
  /\ childFailed = FALSE
  /\ fed = 0
  /\ ttsQueue = <<>>
  /\ job = [w \in Workers |-> 0]
  /\ result = [i \in Segments |-> "none"]
  /\ audioQueue = <<>>
  /\ cleanup = {}
  /\ pending = {}
  /\ next = 0
  /\ finished = {}
  /\ after = "continue"
  /\ discarded = {}
  /\ cutShort = FALSE

Live == {c \in Children : pc[c] \notin {"off", "done"}}
InGroup == run \in {"group", "aborting"}

-----------------------------------------------------------------------------
(* The turn service cancels the token and the task of the turn together. *)

Cancel ==
  /\ run # "done"
  /\ cancels < MaxCancels
  /\ cancels' = cancels + 1
  /\ token' = TRUE
  /\ parentThrow' = TRUE
  /\ UNCHANGED <<parentVars, pc, throw, childFailed, queueVars, playVars,
                 audioVars>>

(* run builds the request of a message, run_proactive that of an intent    *)
(* whose voice may not be allowed.  Every child reaches its first await     *)
(* before anything can be thrown into it.                                   *)
StartGroup ==
  /\ run = "build"
  /\ ~parentThrow
  /\ run' = "group"
  /\ audio' \in BOOLEAN
  /\ pc' = [c \in Children |-> IF c = Stream THEN "streaming"
                               ELSE IF audio' THEN "get" ELSE "done"]
  /\ UNCHANGED <<outcome, cutShort, cancelVars, throw, childFailed, queueVars,
                 playVars, audioVars>>

BuildFails ==
  /\ run = "build"
  /\ run' = "done"
  /\ outcome' = IF parentThrow THEN "cancelled" ELSE "failed"
  /\ parentThrow' = FALSE
  /\ UNCHANGED <<audio, cutShort, token, cancels, pc, throw, childFailed,
                 queueVars, playVars, audioVars>>

-----------------------------------------------------------------------------
(* The children of the group. *)

EndChild(c, failed) ==
  /\ pc' = [pc EXCEPT ![c] = "done"]
  /\ throw' = throw \ {c}
  /\ childFailed' = (childFailed \/ failed)

(* stream_to_tts: _queue_segment raises once the token is cancelled. *)
QueueSegment ==
  /\ pc[Stream] = "streaming" /\ Stream \notin throw
  /\ ~token
  /\ fed < MaxSegments
  /\ fed' = fed + 1
  /\ ttsQueue' = IF audio THEN Append(ttsQueue, fed) ELSE ttsQueue
  /\ UNCHANGED <<parentVars, cancelVars, pc, throw, childFailed, job, result,
                 audioQueue, playVars, audioVars>>

EndMarks == [k \in 1 .. Cardinality(Workers) |-> End]

(* The answer is complete, the token was noticed, the stream was cancelled *)
(* or it failed: in every case its finally block stops the workers.        *)
StreamEnds_NoFinally(failed) ==
  /\ pc[Stream] = "streaming"
  /\ EndChild(Stream, failed)
  /\ ttsQueue' = IF audio /\ ~failed /\ ~token /\ Stream \notin throw
                 THEN ttsQueue \o EndMarks ELSE ttsQueue
  /\ UNCHANGED <<parentVars, cancelVars, fed, job, result, audioQueue,
                 playVars, audioVars>>

StreamEnds(failed) ==
  /\ pc[Stream] = "streaming"
  /\ EndChild(Stream, failed)
  /\ ttsQueue' = IF audio THEN ttsQueue \o EndMarks ELSE ttsQueue
  /\ UNCHANGED <<parentVars, cancelVars, fed, job, result, audioQueue,
                 playVars, audioVars>>

(* tts_worker takes a job. *)
TakeJob_Peeks(w) ==
  /\ pc[w] = "get" /\ w \notin throw
  /\ ttsQueue # <<>> /\ Head(ttsQueue) # End
  /\ ~token
  /\ job' = [job EXCEPT ![w] = Head(ttsQueue)]
  /\ ttsQueue' = IF Len(ttsQueue) > 1 THEN Tail(ttsQueue) ELSE ttsQueue
  /\ pc' = [pc EXCEPT ![w] = "synth"]
  /\ UNCHANGED <<parentVars, cancelVars, throw, childFailed, fed, result,
                 audioQueue, playVars, audioVars>>

TakeJob(w) ==
  /\ pc[w] = "get" /\ w \notin throw
  /\ ttsQueue # <<>> /\ Head(ttsQueue) # End
  /\ ~token
  /\ job' = [job EXCEPT ![w] = Head(ttsQueue)]
  /\ ttsQueue' = Tail(ttsQueue)
  /\ pc' = [pc EXCEPT ![w] = "synth"]
  /\ UNCHANGED <<parentVars, cancelVars, throw, childFailed, fed, result,
                 audioQueue, playVars, audioVars>>

(* It takes the end mark, or a job of a cancelled turn. *)
StopWorking(w) ==
  /\ pc[w] = "get" /\ w \notin throw
  /\ ttsQueue # <<>>
  /\ token \/ Head(ttsQueue) = End
  /\ ttsQueue' = Tail(ttsQueue)
  /\ audioQueue' = Append(audioQueue, w)
  /\ EndChild(w, FALSE)
  /\ UNCHANGED <<parentVars, cancelVars, fed, job, result, playVars, audioVars>>

(* It is cancelled while it waits, or the synthesis raises: because it is   *)
(* cancelled, because it noticed the token, or an error.                    *)
WorkerRaises(w, failed) ==
  /\ pc[w] \in {"get", "synth"}
  /\ pc[w] = "get" => w \in throw
  /\ failed => pc[w] = "synth"
  /\ w \in throw \/ token \/ failed
  /\ audioQueue' = Append(audioQueue, w)
  /\ EndChild(w, failed)
  /\ UNCHANGED <<parentVars, cancelVars, fed, ttsQueue, job, result, playVars,
                 audioVars>>

(* The synthesis returned success or a failure, or ran into its timeout.   *)
(* asyncio.wait_for of Python 3.11 returns a result that is there and      *)
(* forgets the cancellation.  emit raises if the token is cancelled: then  *)
(* the result is only in cleanup.                                          *)
Synthesized_QueueFirst(w, r) ==
  /\ pc[w] = "synth"
  /\ result' = [result EXCEPT ![job[w]] = r]
  /\ throw' = throw \ {w}
  /\ cleanup' = IF r = "ok" /\ ~token THEN cleanup \cup {job[w]} ELSE cleanup
  /\ audioQueue' = Append(audioQueue, IF token THEN w ELSE job[w])
  /\ pc' = [pc EXCEPT ![w] = IF token THEN "done" ELSE "get"]
  /\ UNCHANGED <<parentVars, cancelVars, childFailed, fed, ttsQueue, job,
                 playVars, discarded>>

Synthesized(w, r) ==
  /\ pc[w] = "synth"
  /\ result' = [result EXCEPT ![job[w]] = r]
  /\ cleanup' = IF r = "ok" THEN cleanup \cup {job[w]} ELSE cleanup
  /\ throw' = throw \ {w}
  /\ audioQueue' = Append(audioQueue, IF token THEN w ELSE job[w])
  /\ pc' = [pc EXCEPT ![w] = IF token THEN "done" ELSE "get"]
  /\ UNCHANGED <<parentVars, cancelVars, childFailed, fed, ttsQueue, job,
                 playVars, discarded>>

(* ordered_playback from index n with the results p at hand: it skips the  *)
(* failed ones and suspends in the player or at the queue, or ends when    *)
(* every worker has.                                                       *)
Resume_OneMark(p, n, f) ==
  IF n \in p /\ token
  THEN next' = n /\ pending' = p /\ pc' = [pc EXCEPT ![Playback] = "done"]
  ELSE \E m \in n .. MaxSegments :
         /\ \A i \in n .. m - 1 : i \in p /\ result[i] = "failed"
         /\ m \in p => result[m] = "ok"
         /\ next' = m
         /\ pending' = p \ (n .. m)
         /\ pc' = [pc EXCEPT ![Playback] =
                     IF m \in p THEN "playing"
                     ELSE IF f # {} THEN "done" ELSE "get"]

Resume(p, n, f) ==
  IF n \in p /\ token
  THEN next' = n /\ pending' = p /\ pc' = [pc EXCEPT ![Playback] = "done"]
  ELSE \E m \in n .. MaxSegments :
         /\ \A i \in n .. m - 1 : i \in p /\ result[i] = "failed"
         /\ m \in p => result[m] = "ok"
         /\ next' = m
         /\ pending' = p \ (n .. m)
         /\ pc' = [pc EXCEPT ![Playback] =
                     IF m \in p THEN "playing"
                     ELSE IF f = Workers THEN "done" ELSE "get"]

TakeAudio ==
  /\ pc[Playback] = "get" /\ Playback \notin throw
  /\ audioQueue # <<>>
  /\ LET head == Head(audioQueue)
     IN  IF head \in Workers
         THEN finished' = finished \cup {head} /\ Resume(pending, next, finished')
         ELSE finished' = finished /\ Resume(pending \cup {head}, next, finished)
  /\ audioQueue' = Tail(audioQueue)
  /\ UNCHANGED <<parentVars, cancelVars, throw, childFailed, fed, ttsQueue, job,
                 result, after, audioVars>>

PlaybackInterrupted ==
  /\ pc[Playback] = "get" /\ Playback \in throw
  /\ EndChild(Playback, FALSE)
  /\ UNCHANGED <<parentVars, cancelVars, queueVars, playVars, audioVars>>

(* The player returned, was cancelled or failed; the finally block hands    *)
(* the result to discard.                                                   *)
PlayEnds(how) ==
  /\ pc[Playback] = "playing"
  /\ how = "continue" => ~token /\ Playback \notin throw
  /\ how = "cancel" => token \/ Playback \in throw
  /\ pc' = [pc EXCEPT ![Playback] = "discarding"]
  /\ throw' = throw \ {Playback}
  /\ after' = how
  /\ discarded' = discarded \cup {next}
  /\ UNCHANGED <<parentVars, cancelVars, childFailed, queueVars, pending, next,
                 finished, cleanup>>

DiscardReturns ==
  /\ pc[Playback] = "discarding" /\ Playback \notin throw
  /\ cleanup' = cleanup \ {next}
  /\ IF after = "continue"
     THEN Resume(pending, next + 1, finished) /\ UNCHANGED <<throw, childFailed>>
     ELSE EndChild(Playback, after = "fail") /\ UNCHANGED <<pending, next>>
  /\ UNCHANGED <<parentVars, cancelVars, queueVars, finished, after, discarded>>

(* discard is cancelled or raises: the result stays in cleanup. *)
DiscardRaises(failed) ==
  /\ pc[Playback] = "discarding"
  /\ failed \/ Playback \in throw
  /\ EndChild(Playback, failed)
  /\ UNCHANGED <<parentVars, cancelVars, queueVars, playVars, audioVars>>

-----------------------------------------------------------------------------
(* TaskGroup.__aexit__ and the finally block of _run_request. *)

Abort ==
  /\ run = "group"
  /\ childFailed \/ parentThrow
  /\ run' = "aborting"
  /\ throw' = throw \cup Live
  /\ parentThrow' = FALSE
  /\ UNCHANGED <<outcome, audio, cutShort, token, cancels, pc, childFailed,
                 queueVars, playVars, audioVars>>

(* A cancellation that reaches a group that is aborting is ignored, and an  *)
(* error takes precedence over it.                                          *)
Joined_ForgetsError ==
  /\ InGroup
  /\ Live = {}
  /\ run = "group" => ~parentThrow
  /\ parentThrow' = FALSE
  /\ outcome' = IF run = "aborting" \/ token THEN "cancelled" ELSE "completed"
  /\ run' = IF audio THEN "stopping" ELSE "done"
  /\ UNCHANGED <<audio, cutShort, token, cancels, pc, throw, childFailed,
                 queueVars, playVars, audioVars>>

Joined ==
  /\ InGroup
  /\ Live = {}
  /\ run = "group" => ~childFailed /\ ~parentThrow
  /\ parentThrow' = FALSE
  /\ outcome' = IF childFailed THEN "failed"
                ELSE IF run = "aborting" \/ token THEN "cancelled"
                ELSE "completed"
  /\ run' = IF audio THEN "stopping" ELSE "done"
  /\ UNCHANGED <<audio, cutShort, token, cancels, pc, throw, childFailed,
                 queueVars, playVars, audioVars>>

(* The player has stopped: the results in cleanup are handed to discard. *)
Stopped ==
  /\ run = "stopping" /\ ~parentThrow
  /\ run' = IF cleanup = {} THEN "done" ELSE "discarding"
  /\ discarded' = discarded \cup cleanup
  /\ UNCHANGED <<outcome, audio, cutShort, cancelVars, pc, throw, childFailed,
                 queueVars, playVars, cleanup>>

(* It fails or is interrupted: the results are not discarded. *)
StopRaises ==
  /\ run = "stopping"
  /\ run' = "done"
  /\ outcome' = IF parentThrow THEN "cancelled" ELSE "failed"
  /\ parentThrow' = FALSE
  /\ cutShort' = TRUE
  /\ UNCHANGED <<audio, token, cancels, pc, throw, childFailed, queueVars,
                 playVars, audioVars>>

CleanedUp ==
  /\ run = "discarding"
  /\ run' = "done"
  /\ outcome' = IF parentThrow THEN "cancelled" ELSE outcome
  /\ parentThrow' = FALSE
  /\ UNCHANGED <<audio, cutShort, token, cancels, pc, throw, childFailed,
                 queueVars, playVars, audioVars>>

-----------------------------------------------------------------------------
StreamStep == QueueSegment \/ \E failed \in BOOLEAN : StreamEnds(failed)

WorkerStep(w) ==
  \/ TakeJob(w) \/ StopWorking(w)
  \/ \E failed \in BOOLEAN : WorkerRaises(w, failed)
  \/ \E r \in {"ok", "failed"} : Synthesized(w, r)

PlaybackStep ==
  \/ TakeAudio \/ PlaybackInterrupted \/ DiscardReturns
  \/ \E how \in {"continue", "cancel", "fail"} : PlayEnds(how)
  \/ \E failed \in BOOLEAN : DiscardRaises(failed)

CleanUp == Stopped \/ StopRaises \/ CleanedUp

Next ==
  \/ Cancel \/ StartGroup \/ BuildFails
  \/ StreamStep \/ PlaybackStep \/ \E w \in Workers : WorkerStep(w)
  \/ Abort \/ Joined \/ CleanUp

Spec == Init /\ [][Next]_vars

(* The loop runs every child and the turn's task when they can run.  A     *)
(* synthesis has the timeout of its job (dialogue.py:194), discard and     *)
(* stop are calls that end.  The language model and the player need not    *)
(* end by themselves: FairSpec only assumes that they obey a cancellation. *)
Fairness ==
  /\ WF_vars(run = "build" /\ parentThrow /\ BuildFails)
  /\ WF_vars(Stream \in throw /\ StreamEnds(FALSE))
  /\ \A w \in Workers : WF_vars(WorkerStep(w))
  /\ WF_vars(TakeAudio \/ PlaybackInterrupted)
  /\ WF_vars(Playback \in throw /\ PlayEnds("cancel"))
  /\ WF_vars(DiscardReturns \/ DiscardRaises(FALSE))
  /\ WF_vars(Abort) /\ WF_vars(Joined) /\ WF_vars(CleanUp)

FairSpec == Spec /\ Fairness

(* The request is built, the language model ends its answer and the player  *)
(* its clip.                                                               *)
OthersEnd ==
  /\ WF_vars(StartGroup \/ BuildFails)
  /\ WF_vars(StreamEnds(FALSE))
  /\ WF_vars(\E how \in {"continue", "cancel"} : PlayEnds(how))

-----------------------------------------------------------------------------
(* Properties. *)

Speaking == IF pc[Playback] = "playing" THEN {next} ELSE {}
Settled(i) == result[i] = "failed" \/ i \in discarded

(* Segments are spoken in their order although two workers finish in any   *)
(* order: none before every earlier one was skipped, or played and         *)
(* discarded (dialogue.py:246-285).                                        *)
SpokenInOrder ==
  [][\A i \in Speaking' \ Speaking : \A j \in 0 .. i - 1 : Settled(j)]_vars

(* Once the turn is cancelled no further segment is spoken, whatever is    *)
(* ready or becomes ready (dialogue.py:247).                               *)
QuietAfterCancel == [][token => Speaking' \subseteq Speaking]_vars

(* What is played has not been discarded, neither by an earlier turn of    *)
(* the loop nor by the clean-up of the run (dialogue.py:283, 308).         *)
AudioIsThere == Speaking \cap discarded = {}

(* A run that is over has discarded all audio that was synthesized for it, *)
(* in whatever state the cancellation or the error found it, unless the    *)
(* clean-up itself was cut short (dialogue.py:303-310).                    *)
AudioIsDiscarded ==
  run = "done" /\ ~cutShort =>
    \A i \in Segments : result[i] = "ok" => i \in discarded

(* A run that returns an outcome has spoken or skipped every segment: no   *)
(* end mark overtakes a result (dialogue.py:176, 233, 239).                *)
CompletedIsSpoken ==
  outcome = "completed" /\ audio => \A i \in 0 .. fed - 1 : Settled(i)

(* A run that was cancelled, or one of whose tasks failed, does not return *)
(* an outcome (dialogue.py:290-302).                                       *)
OutcomeIsHonest ==
  run = "done" /\ (token \/ childFailed) => outcome \in {"cancelled", "failed"}

(* After a cancellation, or an error of a task, the run ends: nobody waits *)
(* at a queue for a task that is gone (dialogue.py:173-176, 232-233).      *)
DisturbedRunEnds == (token \/ childFailed) ~> run = "done"

(* When model and player end, every run does: the end marks reach every     *)
(* worker, and playback counts them all (dialogue.py:239-243).             *)
RunEnds == OthersEnd => <>(run = "done")

(* Nobody waits at a queue for ever, in a run that is disturbed and in one  *)
(* that is not.                                                            *)
RunsReturn == DisturbedRunEnds /\ RunEnds

(* The pipeline implements the promise of SpokenTurn: the discard of a      *)
(* result is the end of its clip.                                          *)
Clip(i) ==
  IF i \in discarded THEN "gone"
  ELSE IF i \in Speaking THEN "playing"
  ELSE CASE result[i] = "ok" -> "made"
         [] result[i] = "failed" -> "silent"
         [] OTHER -> "none"

Spoken == INSTANCE SpokenTurn
            WITH clip <- [i \in Segments |-> Clip(i)],
                 cancelled <- token, over <- (run = "done")

ImplementsSpokenTurn == Spoken!Spec

-----------------------------------------------------------------------------
(* The inductive invariant. *)

In(q, x) == \E k \in DOMAIN q : q[k] = x

Once(q, S) == \A k, l \in DOMAIN q : k # l /\ q[k] \in S => q[k] # q[l]

OnlyFrom(q, x) ==
  \A k, l \in DOMAIN q : k <= l /\ q[k] = x => q[l] = x

(* The phases of the run and of its children. *)
PhasesAgree ==
  /\ run = "build" =>
       /\ \A c \in Children : pc[c] = "off"
       /\ fed = 0 /\ ttsQueue = <<>> /\ audioQueue = <<>>
       /\ pending = {} /\ next = 0 /\ finished = {}
       /\ discarded = {} /\ outcome = "none" /\ ~childFailed
       /\ \A i \in Segments : result[i] = "none"
  /\ InGroup => outcome = "none" /\ \A c \in Children : pc[c] # "off"
  /\ run = "build" \/ ~audio =>
       cleanup = {} /\ \A c \in Children \ {Stream} : c \notin Live
  /\ run \notin {"build", "group", "aborting"} => Live = {} /\ outcome # "none"
  /\ throw \subseteq Live /\ (run # "aborting" => throw = {})
  /\ pc[Stream] \in {"off", "streaming", "done"}
  /\ pc[Playback] \in {"off", "get", "playing", "discarding", "done"}
  /\ \A w \in Workers : pc[w] \in {"off", "get", "synth", "done"}
  /\ token /\ run \in {"build", "group"} => parentThrow

(* A segment is in the hands of one worker at most, until its result is     *)
(* known.                                                                  *)
JobsAreDistinct ==
  /\ Once(ttsQueue, Segments)
  /\ \A i \in Segments : In(ttsQueue, i) => i < fed /\ result[i] = "none"
  /\ \A w \in Workers : pc[w] = "synth" =>
       /\ job[w] \in Segments /\ job[w] < fed
       /\ result[job[w]] = "none" /\ ~In(ttsQueue, job[w])
  /\ \A v, w \in Workers :
       v # w /\ pc[v] = "synth" /\ pc[w] = "synth" => job[v] # job[w]
  /\ \A i \in Segments : i >= fed => result[i] = "none"

(* Every result is in cleanup until it has been handed to discard, and      *)
(* nothing else is.                                                        *)
AudioIsTracked ==
  /\ \A i \in Segments : result[i] = "ok" <=> i \in cleanup \cup discarded
  /\ run = "discarding" \/ (run = "done" /\ ~cutShort) =>
       cleanup \subseteq discarded

(* What playback has behind it is settled, and nothing else is discarded   *)
(* while the group lives.                                                  *)
PlaybackProgress ==
  /\ \A i \in 0 .. next - 1 : Settled(i)
  /\ InGroup => \A i \in discarded :
       i < next \/ (i = next /\ pc[Playback] \in {"discarding", "done"})
  /\ pc[Playback] = "playing" => next < MaxSegments /\ result[next] = "ok"
  /\ pc[Playback] = "discarding" => next < MaxSegments /\ next \in discarded
  /\ \A i \in Segments : i \in pending \/ In(audioQueue, i) => result[i] # "none"

(* While nothing disturbs the run, every segment is on its way.             *)
Undisturbed == run = "group" /\ ~token /\ ~childFailed /\ audio

OnTheWay(i) ==
  \/ In(ttsQueue, i) \/ \E w \in Workers : pc[w] = "synth" /\ job[w] = i
  \/ In(audioQueue, i) \/ i \in pending \/ i < next
  \/ i = next /\ pc[Playback] \in {"playing", "discarding"}

NothingIsLost == Undisturbed => \A i \in 0 .. fed - 1 : OnTheWay(i)

(* The end marks are the last of the jobs, the mark of a worker follows its *)
(* results, and playback counts every mark.                                *)
MarksFollowJobs ==
  Undisturbed =>
    /\ In(ttsQueue, End) => pc[Stream] = "done"
    /\ OnlyFrom(ttsQueue, End)
    /\ \A w \in Workers : pc[w] = "done" =>
         pc[Stream] = "done" /\ \A i \in Segments : ~In(ttsQueue, i)

MarksFollowResults ==
  Undisturbed =>
    /\ \A w \in Workers :
         /\ w \in finished => pc[w] = "done" /\ ~In(audioQueue, w)
         /\ In(audioQueue, w) => pc[w] = "done"
    /\ Once(audioQueue, Workers)
    /\ audioQueue # <<>> /\ (\A w \in Workers : pc[w] = "done") =>
         audioQueue[Len(audioQueue)] \in Workers

PlaybackCounts ==
  Undisturbed =>
    /\ pc[Playback] = "get" => next \notin pending
    /\ pc[Playback] = "discarding" => after # "cancel"
    /\ pc[Playback] = "done" => finished = Workers /\ next \notin pending

(* A run whose tasks all succeeded has spoken; a cancellation that comes   *)
(* later still reaches it.                                                 *)
OutcomeFollows ==
  outcome = "completed" =>
    /\ ~childFailed
    /\ token => parentThrow /\ run # "done"
    /\ CompletedIsSpoken

PipelineInv ==
  /\ PhasesAgree /\ JobsAreDistinct /\ AudioIsTracked /\ PlaybackProgress
  /\ NothingIsLost /\ MarksFollowJobs /\ MarksFollowResults /\ PlaybackCounts
  /\ OutcomeFollows
=============================================================================
