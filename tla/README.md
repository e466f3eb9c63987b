# megumin_companion_ai: models and proofs

TLA+ modules for the companion in `src/`: an asyncio program that accepts
messages from a user, streams an answer from a language model, speaks it, and
sometimes speaks unasked. The modules are translated from the code; TLC checks
them on small instances and TLAPS proves the main results for every instance.

## The system

| Part | Code | State it keeps | Operations | Hard behaviour |
|---|---|---|---|---|
| Turn service | `app/core/turns.py` | status of every turn, the active turn, turn by session, tasks in flight, closed | `accept`, `run_proactive`, `cancel`, `shutdown`, `subscribe` | preemption across awaits, two arbiters, cancellation of callers, drain order |
| Proactive lifecycle | `app/proactive/lifecycle.py` | leases of user turns, the proactive task and its token, signalled, closed | `try_start`, `begin_user_turn`, `end_user_turn`, `cancel_active`, `close` | a start racing a message, one-shot cancellation |
| Proactive runtime | `app/proactive/runtime.py` | scheduler task, feature transitions, perception and its epoch, daily count | `start`, `submit`, `update_perception`, `apply_feature_state`, `close` | three locks, listeners on other threads, retired perception |
| Proactive engine | `app/proactive/engine.py` | none | `evaluate` | the order of suppressions |
| Dialogue pipeline | `app/pipelines/dialogue.py`, `audio_player.py` | two queues, audio to discard, next index | `run`, `run_proactive`, `close` | concurrent workers, ordered playback, failure of one task of a group |
| Segmenter | `app/pipelines/segmenter.py` | buffer | `feed`, `flush` | boundaries of sentences, limits |
| Memory | `app/memory/` | feature flags, epoch of the context, candidate tasks, confirmations | `submit`, `set_feature`, `confirm`, `snapshot_for`, management | threads that were already running when a feature is switched off |
| Storage | `app/storage/` | SQLite tables | repositories | transactions, superseded items |
| Perception | `app/perception/` | permission, generation, active observations, last frame | `observe`, `set_vision_enabled`, `close` | disable, enable and observe interleaved |
| GPT-SoVITS | `app/clients/tts/gpt_sovits.py` | key locks, cache leases, paths, synthesis tasks | `synthesize`, `discard`, `close` | promotion to the cache, cancellation at every await |
| VTS bridge | `app/clients/vts/` | state, queue of actions, client, token file | `start`, `enqueue_expression`, `close` | reconnection, bounded queue, close during a connection |
| LLM client, emotion, prompts, configuration | `app/clients/llm/`, `app/emotion/`, `app/prompts/`, `app/config/` | little or none | | parsing and arithmetic |
| Legacy migration | `app/legacy_migration.py` | files | `migrate_legacy_data` | a crash between staging and activation |
| Application | `app/main.py`, `app/api/routes.py` | | lifespan, routes, WebSocket | order of the shutdown |
| Voice input | `desktop_client/inputs/` | recording state, buffers, tasks | `start`, `stop_and_send`, `cancel`, `close` | deadline, stop and cancel racing |

How they interact. Routes, the WebSocket and the voice input call
`TurnService.accept` and `cancel`. `accept` asks the proactive runtime (which
delegates to the lifecycle) for priority, cancels and joins the active turn,
registers its own, runs the observers (memory, history), and starts a task that
runs the dialogue pipeline. The scheduler of the proactive runtime submits
triggers; an intent becomes a task of the lifecycle that calls
`TurnService.run_proactive`. The pipeline reads the language model, hands
segments to speech workers and plays them; it publishes events through the
service to subscribers, the VTS bridge and the emotion engine. A feature that
is switched off reaches every part through listeners. At the end of the
application the proactive runtime is closed, then the turn service, the
sinks and the memory.

What makes each part correct. Turn service: one output, no lost or repeated
cancellation, final statuses, nothing left after a shutdown. Lifecycle:
proactive work never beside explicit input. Pipeline: playback in order,
every audio discarded, no task waiting for ever. Memory and perception:
nothing obtained before a revocation is used after it. Voice input: one
operation at a time, buffers wiped. VTS: bounded queue, no connection that
outlives its client. GPT-SoVITS: one synthesis per key, no file without an owner.
Migration and token store: all or nothing.

The hazards behind these properties are listed, each at its line, in
`PROJECT.json`.

## The modules

| Module | Models |
|---|---|
| `ProactiveLifecycle` | `lifecycle.py`, and what asyncio does to a cancelled task |
| `TurnService` | `turns.py` and its callers, over `ProactiveLifecycle` |
| `TurnArbiter` | the abstract promise: one output that a turn claims when nobody has it and gives up in the step that ends it; every end is told once |
| `DialoguePipeline` | one run of `dialogue.py`: stream, speech workers, ordered playback, task group, clean-up |
| `SpokenTurn` | the abstract promise: clips are played one at a time and in order, none after a cancellation, and none is left that was not played |
| `ProactiveRuntime` | `runtime.py` of `app/proactive`: scheduler, submissions, publications of the screen, feature transitions, close, over `ProactiveLifecycle` |
| `GptSovits` | `gpt_sovits.py`: calls and their workers, temporary files, the cache with its locks and leases, close |
| `VoiceInput` | `voice_input.py`: the push-to-talk recorder, its device, watchdog, transcription, delivery |
| `MemoryStore` | the rows of memories and profiles in `app/storage`, and the memory policy |
| `MemoryRuntime` | `app/memory`: prompt snapshots and their epoch, candidate tasks, switches, management, over `MemoryStore` |
| `PerceptionPipeline` | `app/perception/pipeline.py` with its change detector, guards and switches |
| `VtsBridge` | `bridge.py`, `client.py`, `token_store.py` of `app/clients/vts` |
| `Segmenter`, `ChatStream`, `EmotionEngine`, `PromptBudget`, `ClaimExtraction`, `RateGates` | pure algorithms, as operators |
| `PromptChecks` | what is assumed, and evaluated, of the emotion engine, the budget and the extraction |
| `MCTurnService`, `MCDialoguePipeline`, `MCProactiveRuntime`, `MCGptSovits`, `MCMemoryRuntime`, `MCPerceptionPipeline` | instances for TLC, and assumptions about the algorithms that feed the component |
| `TurnServiceProofs` | the turn service: types, arbitration, registry, cancellations, leases, shutdown, the refinement of `TurnArbiter` |
| `DialogueProofs` | the pipeline: types, invariant, its properties, the refinement of `SpokenTurn` |
| `ProactiveRuntimeProofs` | the proactive runtime: types, locks, scheduler and close, perception epochs |
| `GptSovitsProofs` | the provider: types, the locks of the keys, the owners of files, the leases of the cache |
| `VtsBridgeProofs` | the bridge: types, client, round and close, the queue of expressions and what was lost of it |
| `MemoryProofs` | the transactions of `MemoryStore`; the tables, the switch, the epochs of the prompts |
| `VoiceInputProofs` | the recorder: types, who is under way, the microphone, the speech, what is sent |
| `PerceptionProofs` | the observation: types, the lock, revocation and clean-up, secrets |

### ProactiveLifecycle and TurnService

A turn is named by its turn id. `task[t]` is its pipeline task: `ready` until
its first step, `running` in the pipeline, `cleanup` while a `CancelledError`
unwinds it, `done`. `throw[t]` is a `Task.cancel()` that has not reached the
task. `status`, `sessionTurn`, `active`, `signalled` (the flag of
`_ActiveTurn`) and `closed` are the fields of `TurnService`; `leases`,
`lcTask`, `lcSignalled` and `lcClosed` those of `ProactiveLifecycle`. `acc[u]`
is the program counter of the task that calls `accept` for `u`, `ipc[i]` that
of a caller of `cancel` or `cancel_active`, `spc` that of the shutdown.
`announced` and `interrupted` are history: the terminal events published, and
whether a `CancelledError` hit a clean-up.

Each action is the code between two awaits that may suspend. Every
acquisition of a lock and every join starts an action of its own, although an
uncontended `asyncio.Lock` does not suspend: the model has every interleaving
of the loop and more, so the safety results do not lean on that detail.
`_accept_lock` is held at the counters of `HoldsAcceptLock`.
`_coordination_lock` is held across a suspension only while `accept` waits for
the first step of the task it has created (`starting`). `_output_lock` is no
guard at all: `OutputExclusive` shows that it is never contended. The events
are put into unbounded queues, which never suspends.

| Code | Actions |
|---|---|
| `accept`, priority and preemption | `Enter`, `BeginPriority`, `JoinedProactive`, `Preempt` |
| registration | `Register`, `RegisterRefused` |
| start after the observers | `StartPipeline`, `DoNotStart`, `Started`, `ReturnUnstarted` |
| cancellation of the caller, `except` and `finally` | `CancelCaller`, `Unwind`, `Unwound`, `CallerEnds` |
| `_run_user`, `run_proactive` | `RunUser`, `RunProactive`, `RejectProactive`, `PipelineEnds` |
| `_finalize_completed` | `Finalize` |
| `cancel` | `Interrupt`, `CancelTurn`, `CancelReturns` |
| `try_start`, `cancel_active`, `close` of the lifecycle | `SubmitIntent`, `CancelProactive`, `ProactiveCancelled`, `CloseProactive`, `ProactiveClosed` |
| `_shutdown_impl` | `Shutdown`, `AcceptsDrained`, `PipelinesDrained`, `Stopped` |
| asyncio | `CancelUnstarted`, `DeliverCancel` |

Abstractions. The pipeline is a task that may end at any time as completed or
failed, and as cancelled once it unwinds. An observer is a suspension that
ends. The `_state_lock` that `ProactiveRuntime.begin_user_turn` takes after its
join is not modelled: its holders wait only for the same proactive task. A
turn id is used once.

### DialoguePipeline

One run of `_run_request`. `run` is where it is: building the request, in the
task group, in the group that aborts, stopping the player, discarding, done.
`pc[c]` is the await at which a child of the group is suspended: the stream,
each worker, and playback. `ttsQueue` and `audioQueue` are the two queues;
`End` is the `None` for a worker, and a worker's own name stands for the
`None` it sends to playback. `result[i]` is the success of segment `i`,
`cleanup`, `pending` and `next` are the variables of those names, and
`finished` is the set counted by `finished_workers`. `throw` and `parentThrow`
are cancellations that have not reached a child or the task of the turn.
`discarded` and `cutShort` are history.

| Code | Actions |
|---|---|
| `run`, `run_proactive` | `StartGroup`, `BuildFails` |
| `stream_to_tts`, `_queue_segment` | `QueueSegment`, `StreamEnds` |
| `tts_worker` | `TakeJob`, `StopWorking`, `Synthesized`, `WorkerRaises` |
| `ordered_playback` | `TakeAudio`, `PlaybackInterrupted`, `PlayEnds`, `DiscardReturns`, `DiscardRaises` |
| `TaskGroup.__aexit__`, outcome | `Abort`, `Joined` |
| `finally` of `_run_request` | `Stopped`, `StopRaises`, `CleanedUp` |
| the turn service | `Cancel`: token and task together |

Each action is the code from one await that may suspend to the next. A put
into an unbounded queue and an event do not suspend. `Resume` is the whole
inner loop of playback: it skips the failed results at hand and stops at the
player, at the queue or at the end. The task group is modelled by its
behaviour: a child that raises an error, or a cancellation of the parent,
makes it cancel every child that lives; a child that raises a cancellation
just ends; a cancellation that comes while it aborts is dropped when an error
is raised. `asyncio.wait_for` of Python 3.11 returns a result that is already
there and forgets the cancellation, so `Synthesized` may clear `throw`.

The language model may emit any number of segments up to `MaxSegments`, fail
or end at any time. A synthesis succeeds, fails, times out or raises. The
player returns, is interrupted or raises. Text, metrics and events are left
out, and so is `close`, which only closes three other components.

`SpokenTurn` sees a clip per segment. A segment is `playing` from the call of
`play` until its result is handed to `discard`; then its clip is `gone`.

### ProactiveRuntime

The same `ProactiveLifecycle` seen from its other side: here the explicit turn
is only a lease, and the runner of a proactive turn is a task that obeys a
cancellation and may clean up for a while. `pc[x]` is the await at which a call
is suspended: a user turn, a publication (`update_perception`), the close, and
for every change of a flag two transitions, `Listener(w)` and `Barrier(w)`.
`featureLock` and `stateLock` are the holders of the two locks that are kept
across an await; `flag` is the snapshot of `FeatureFlagManager`. A change of a
flag is written in a thread (`SetFlag`), which then calls the listener
(`Notify`); a PATCH goes on in the loop after that. `latest`, `accepting`,
`highest` and `retired` are the perception fields, with generations counted
from 1. `generation` and `stamp` stand for the perception pipeline, which is
outside: every change of vision raises its generation, and what it observes
is published later. `burnt`, `warned` and `basis` are history.

| Code | Actions |
|---|---|
| `start`, `_scheduler_loop`, `_ensure_scheduler` | `StartRuntime`, `SchedulerWakes`, `SchedulerSubmits`, `SchedulerEnds` |
| `submit` | `Submit` |
| `update_perception` | `Observe`, `Publish`, `PublishEnds` |
| `FeatureFlagManager.set`, `_on_feature_changed`, `_schedule_feature_transition` | `SetFlag`, `Notify`, `Callback` |
| `apply_feature_state`, `_apply_feature_transition` | `ApplyFeatureState`, `EnableProactive`, `DisableProactive`, `SchedulerDrained`, `ChangeVision`, `CancelActive`, `TransitionEnds` |
| `begin_user_turn`, `end_user_turn` | `BeginTurn`, `TurnJoined`, `TurnBegins`, `EndTurn` |
| the task of a proactive turn | `RunnerStarts`, `RunnerEnds`, `RunnerCancelled` |
| `close` | `Close`, `CloseStopsScheduler`, `CloseLifecycle`, `CloseJoined`, `CloseEnds` |

Abstractions. The clock is left out: what the policy says of cooldown, daily
limit, quiet hours, idleness, score and age is a free choice, so every result
holds for every policy. A submission that waits for the state lock has done
nothing, so it begins when it gets it. A lock goes to any waiter, which
includes the order of arrival. A publication that joins nothing still takes
two steps. That a publication is cancelled by its caller is not modelled.
`PatchBusy` is `_feature_update_lock` of the memory runtime.

Two limits of what the properties say. `ReplayIsRejected` is about
observations that were published before the revocation: one that was made
before it and is published after vision is on again, with a generation that
was never seen, is accepted (`runtime.py:376-379`); to reject it is the part
of the perception pipeline. And two writers of vision that overlap may call
their listeners in the other order, after which `accepting` differs from the
flag until the next change; nothing here says that they agree.

### GptSovits

`caller[c]` is a call of `synthesize` as its caller sees it, `worker[c]` the
await at which its task `_synthesize` is suspended, `throw[c]` the one
`Task.cancel()` that it may get. `keyLocks` maps a key to the entry that a
worker created; `users` and `owner` are the fields of that entry. `maint` holds
`_cache_maintenance_lock`. `part`, `final` and `cachePart` are the files that
exist under a temporary name, `cache[k]` is the call that made the cached file
of `k`, `leases` is `_cache_results`, `paths` is `_paths`.

| Code | Actions |
|---|---|
| `synthesize`, its shield and join | `Synthesize`, `CancelCall`, `CancelToken`, `Return` |
| `_synthesize`, `_acquire_key_lock`, `_release_key_lock` | `Start`, `AcquireKey`, `HaveKey`, `QuitKey` |
| `_load_cached_result` | `LookupMiss`, `LookupHit`, `LookupCancelled` |
| `_synthesize_uncached`, `_cleanup_uncached` | `Request`, `Stream`, `Check`, `Replace`, `Cleanup` |
| `_promote_to_cache` | `KeepTemp`, `QuitPromotion`, `Copy`, `Publish`, `FailCopy`, `Settle`, `DropSource`, `Undo` |
| `discard`, `_cleanup_cache` | `Discard`, `SweepAfterDiscard`, `Expire` |
| `close` | `Close`, `CloseCancel`, `CloseClear`, `CloseSweep` |

An action ends at an await where a cancellation may be raised. A file
operation runs in a thread to its end before the cancellation that met it is
raised (`_run_to_thread`), and may fail. If it does fail, its exception is
raised in place of the cancellation (`gpt_sovits.py:627-642`), which is lost:
`LookupMiss` then goes on to synthesize, and `Check`, `KeepTemp` and `FailCopy`
end as if nobody had cancelled. Left out are a failing `unlink` and `replace`
of the provider's own files. The audio is who made it. `_await_with_token`
gives a cancellation of the token precedence over a result (`Cancelled`).

Two remarks. A cancelled caller gets no result, so a temporary WAV that its
worker has finished is removed only by `close`. A lock of a key that is lost
with a call cancelled in the step in which it gets it (`gpt_sovits.py:355`)
makes later calls of this key wait until the close: `SpeechEnds` excepts
exactly this (`LockIsLost`). An expired file is unlinked although it is leased
(`gpt_sovits.py:387`), which `LeasedAudioStays` excepts by `stale`.

### VoiceInput

`state`, `pcm`, `recId`, `dogRef`, `oper`, `cancelRequested`, `limitError` and
`closing` are the fields of `PushToTalkRecorder`; `stream` is that of
`SoundDevicePCMInput`, and `open` the streams that really capture. A recording
is named by the call that started it. `pc[c]` is where a call is suspended,
`trans[c]` and `send[c]` are its transcription and delivery tasks, `dog[c]` is
the watchdog of a recording, `cancelT` and `closeT` are the tasks of `cancel`
and `close`. `held` is who has taken a stream from the device and is about to
stop it. `long` and `dropped` are history.

| Code | Actions |
|---|---|
| `start`, `SoundDevicePCMInput.start` | `Start`, `StartAfterCancel`, `Opened`, `OpenFails`, `Abort`, `Halt`, `StartFails` |
| `_append_frame`, `_watch_recording_limit` | `Frame`, `WatchdogFires`, `WatchdogEnds` |
| `stop`, `stop_and_send` | `Stop`, `Captured`, `Written`, `Heard`, `Sent` |
| provider and turn service, external | `Transcribed`, `Delivered` |
| `_cancel_impl` | `Cancel`, `CancelIdle`, `CancelRecording`, `CancelTimedOut`, `CancelTranscribing`, `CancelJoinsStart`, `CancelHalts`, `CancelReleases`, `CancelJoinsStop` |
| `close`, `_close_impl` | `Close`, `CloseCancels`, `CloseCancelsSends`, `CloseSource`, `CloseEnds` |
| cancellation of a caller | `Disturb` |

No section under the recorder's lock awaits, so it is part of one action. The
audio is a number of frames, full at `MaxFrames`. `Patient` says that a caller
does not start a recording while an earlier start still opens its stream; the
run `voice_microphone` does without it. While a start is still in its thread,
`stop` and `close` may return before its stream is open: the start then closes
it itself. A cancellation that comes after the transcription does not stop the
delivery, nor does the code promise that.

### MemoryStore and MemoryRuntime

A database is a set of rows and a set of profiles; `Upsert`, `UpdateContent`
and `DeleteRows` are the transactions of `MemoryRepository`, `Evaluate` is
`MemoryPolicy.evaluate`. What the texts are detected as (credential, health,
address) is a field of a claim.

In `MemoryRuntime` `db`, `history`, `ltm`, `hist` and `pending` are the tables,
the two switches and the confirmations. `prompt[p]` is a call of
`snapshot_for`, which a thread builds in three sections, and checks against
`epoch` at the end. `turn[m]` is a turn as the observer sees it, `task[m]` its
candidate task, `request[r]` a management request. `gone` collects what
finished requests have taken out of sight and nobody put back, `consent` what
the user confirmed or wrote, `answered` the confirmations that were answered.
`missed`, a field of a prompt, is what went while it was built with a deletion
that raised; it, too, is history.

| Code | Actions |
|---|---|
| `snapshot_for`, `_build` | `ReadEpoch`, `BuildHistory`, `BuildProfiles`, `BuildMemories`, `CheckEpoch` |
| `MemoryTurnObserver` | `OnUserAccepted`, `OnTurnCompleted` |
| `MemoryCandidateSupervisor` | `Submit`, `Analyze`, `NextClaim`, `Interrupted`, `Consider`, `Close`, `CloseDrained` |
| `set_feature` | `Begin`, `LockFeatures`, `SetLongTerm`, `CancelActive`, `Finalize`, `SetHistory` |
| management of memories and history | `Delete`, `Update`, `Clear`, `ClearHistory`, `Confirm`, `Invalidate`; `Managed` and `CleanupRaises` are how the three deletions end |
| expiry of confirmations | `Prune` |

A section of a service under its lock and a transaction is one step. A
deletion is committed before the file is cleaned (`secure_cleanup`), and the
cleaning may raise, on a full disk or a locked database: the request then ends
without `invalidate` (`CleanupRaises`). An error before a commit leaves no
trace and is left out, as are the cancellation of a request, export, close of
the database and the text of the prompt. Items of equal text are
one item, so an item that was deleted and said again is not `gone`. One thing
that a reader might expect is not promised: the text of a profile whose memory
was superseded by a claim of another type goes on being prompted, because
`user_profiles` still holds it (`SlotHasOneValue` says what holds instead).

### PerceptionPipeline

`pc[o]` is the stage that an observation awaits; `frame[o]` the window it looks
at and the content it captured, `context[o]` what it returns. `permitted`,
`generation`, `cloudPermitted` are `_vision_permitted`, `_vision_generation`
and `_cloud_permitted`; `flag` and `cloudFlag` are what the manager of features
answers. `last` is the change detector. `writer[w]` is a change of a switch:
the flag is written in a thread, then its listener is called, which may be on
the loop or not, then the clean-up joins what was running. The screen (`front`,
`shown`) belongs to the user and changes at any time.

| Code | Actions |
|---|---|
| `observe`, `_observe_once` | `Observe`, `Enter`, `LookAtWindow`, `Capture`, `Read`, `Sanitize`, `Analyze`, `Cancelled` |
| `FeatureFlagManager.set`, `notify_vision_enabled`, `_finish_vision_disable` | `SetFlag`, `Notify`, `Clean`, `Cleaned` |
| `close` | `Close`, `CloseJoined`, `CloseEnds` |
| the user | `SwitchTo`, `Show` |

A stage may fail, time out, or see a window that the guard stops. The two
guards decide for the windows and contents of the model; classification, OCR
and images are external. Vision that is switched on again before the clean-up
looks at it spares the observation (`pipeline.py:468` compares generations):
`spared` are those, and `RevocationIsBarrier` excepts them.

### VtsBridge

Expressions are numbered in the order of `enqueue_expression`; `fate[e]` is
what became of one. `run` is where `_run` stands, `asks` the request it awaits,
`hand` the action it took, `stored` the token on disk. `client` is the client
of this round with its connecting task, its socket, its receiver and its close.
A socket whose receiver met a frame that is no text, no JSON or no object is
`deaf`: it is open and the client has forgotten it (`client.py:216-220`). One
whose close raised is `stuck`. `Held` is what the close of a client finds to
close. `leaked` is history: a round replaced a client whose socket was open or
closing, and neither deaf nor stuck.

| Code | Actions |
|---|---|
| `enqueue_expression`, `start` | `Publish`, `Start` |
| `_run`, `_authorize`, `_serve_ready`, `_process_action` | `Round`, `Connect`, `ApiState`, `Load`, `Authenticated`, `Delete`, `TokenGranted`, `Save`, `Serve`, `Process`, `Triggered`, `Failed`, `Backoff`, `Final` |
| `VTSClient`: connect, receive, answer, close | `Open`, `ReceiverEnds`, `ReceiverChokes`, `Answer`, `ClientCloses` |
| `close` | `Close`, `CloseStep`, `CloseReturns`, `CancelClose` |
| VTube Studio, external | `Disconnect`, `Revoke`, and the frame of `ReceiverChokes` |

Every fault of VTube Studio, the network and the disk is counted and stops
after `MaxFaults`. The length of a delay is left out. The bridge has one
request at a time. That an expression of an old turn is still shown after a
reconnection is how the queue works, and no property denies it. A write of the
token is one step: a crash inside it is not modelled.

### Pure algorithms

They keep no state that another task could disturb, so they are operators, and
what they promise is stated as an assumption of the module of the run that uses
them. TLC evaluates each over every input within the bounds.

| Module | Code | Assumptions | Inputs |
|---|---|---|---|
| `Segmenter` | `segmenter.py` | `AnswerIsSpoken`, `WaitingIsBounded` | answers of up to 4 characters of 11 kinds, every cut into two deltas; `MinChars` 2, `MaxChars` 3, `MaxWords` 1 |
| `ChatStream` | `llm/openai_compatible.py` | `AnswerIsWhole`, `RetryableMayPass` | up to 3 lines of every kind, every ending, 8 statuses |
| `EmotionEngine` | `emotion/engine.py`, `classify_stimulus` | `EmotionIsBounded`, `LabelsLast` | 3 messages, pauses of 0, 15 seconds, 1 and 5 minutes, from two states |
| `PromptBudget` | `prompts/builder.py` | `HistoryFits`, `ContextFits`, `UserSpeaksLast` | up to 4 messages and 3 blocks, limits of 4, 4 and 3 characters |
| `ClaimExtraction` | `memory/analyzer.py` | `ClaimsAreGrounded` | up to 3 claims, of which 2 are allowed |
| `RateGates` | cloud limiter, expression gate | `CloudIsLimited`, `FaceIsCalm` | 6 calls up to 3 units apart, 2 in a period of 3; 3 labels up to 4 units apart, cooldown of 2 |

In `MCDialoguePipeline` are those of the segmenter and the stream, in
`PromptChecks` (run `memory`) those of emotion, prompt and claims, in
`MCPerceptionPipeline` those of the gates. The limits are small so that every
rule applies; the rules do not depend on their size. `Segmenter` is recursive,
so no module with a theorem reaches it.

What they do not promise: where an answer is cut depends on how it came in
deltas, and a long delta that holds the end of a sentence gives a segment
longer than `MaxChars`. A stream that ends without `[DONE]` counts as complete.
The cooldown of the face also counts faces that were never shown, because
`emotion/integration.py:22` asks the gate before the bridge accepts.

## The runs

| Run | Instance | Question |
|---|---|---|
| `turn_safety` | 2 messages of 2 sessions, 1 intent, 1 interrupter, 1 cancelled caller, shutdown | is the output exclusive, does proactive work yield, are cancellations neither lost nor repeated, does a user's turn keep its lease and its clean-up, does the service implement `TurnArbiter`? |
| `turn_liveness` | 1 message, 1 intent, 1 interrupter, 2 cancellations of the caller, shutdown, fairness | does every call return, is every end announced, does every way out of `accept` release what it took? |
| `dialogue` | 2 workers, 2 segments, 2 cancellations, fairness | is every audio discarded, is the outcome honest, does the pipeline implement `SpokenTurn`, does a run that is cancelled or fails end? |
| `proactive_flags` | 2 changes of the proactive flag, 2 intents, 1 message, close | does the scheduler follow the flag in whatever order changes are applied, does a PATCH return in silence, is nothing alive after close? |
| `proactive_vision` | 2 changes of vision, 2 observations, 2 intents | is revoked perception never used, is a sensitive screen quiet? |
| `proactive_revocation` | 1 PATCH of either flag, 1 observation, 1 intent, close, fairness | does every call return, does a revoked turn end? |
| `speech` | 2 calls of one or two sentences, a cache for 1 file that ages, 1 cancelled call, discards, close, fairness | is there one synthesis per key, has every file an owner, does a leased file stay, does everything end? |
| `memory` | 1 message, 1 prompt, 2 requests, 3 answers of the analyzer | is nothing revoked prompted, is memory that is off quiet, is a sensitive fact confirmed, and a confirmation good for one storage, does the store agree with itself? |
| `voice` | 3 calls of any kind, 2 of them cancelled, buffer of 1 frame, fairness | is the microphone guarded, is speech wiped, is only what is wanted sent, does every call end? |
| `perception` | 2 observations and 1 change of a switch, or 1 and 2; 2 windows, a secret; fairness | does a revocation stop what was running, does a secret stay local, does everything end? |
| `bridge` | 3 expressions (2 with a hotkey), queue of 2, 2 faults, 1 caller of close, fairness | is no expression lost without a reason, is nothing left after close that a client still held, does the queue drain? |
| `voice_microphone` | 4 calls, of which a start may overtake another | a divergence, below |

Some properties are conjunctions of parts that are named in their module:
`UserTurnIsProtected` is `ProtectedStart`, `UserCleanupUninterrupted` and
`UserKeepsLease`; `CancellationHolds` is `CancellationReachesTask` and
`CancelledStaysCancelled`; `CallersReturn` has a part for accept, cancel and
shutdown; `RunsReturn` is `RunEnds` and `DisturbedRunEnds`. `ImplementsArbiter`
contains `TerminalIsFinal`, `AnnouncedOnce` and `OpenTurnIsActive`, and
`ImplementsSpokenTurn` contains `SpokenInOrder` and `QuietAfterCancel`; these
and `AudioIsThere` are proved on their own. The type invariants (`TypeOK`,
`GptTypeOK`, `VoiceTypeOK`, `MemTypeOK`, `PerceptionTypeOK`, `BridgeTypeOK`) are
proved, and no run repeats them.

Bounds. Two messages are what preemption, the accept lock and the index by
session need; a third only repeats the second's role, because one caller
holds the accept lock. One intent is preempted and may be cancelled from both
sides. One interrupter repeats its calls without limit and runs beside the
shutdown, which cancels as well. `MaxCallerCancels` bounds how often callers
are cancelled: two cancellations reach a caller that already unwinds, in
`turn_liveness`. Every run has a pipeline (`HasPipeline`); that a service which
only accepts implements the arbiter as well is proved. The proofs have none of
these bounds.

Two workers and two segments let the later segment be ready first, and a
failed one be skipped while one waits behind it. The second cancellation is the
one that reaches the clean-up of the first. No symmetry is used with fairness.

Two changes of a flag, each applied by listener and PATCH, give four
transitions for one lock, enough for any two to be reversed; the second may be
made while the first is applied. Two observations are one of before and one of
after a change, or a sensitive and a safe one. `MaxStamp` bounds the
observations; publications of nothing are not bounded. An intent is a turn
that happens once, so two allow one turn to replace another. The liveness run
has no explicit turn: `begin_user_turn` joins before it takes a lock.

Two calls of `synthesize` meet at one key, at one place in the cache, or at the
sweep of the other; a third would wait behind the second. `Disturbed` are the
calls that are cancelled, through their task or their token. One message
proposes two claims, for a slot that is taken and for a sensitive fact; two
requests are one that revokes and one that puts back, and a prompt may be built
across both. `MemoryId` bounds the rows. Three calls of the recorder are a
start, what ends it, and one that meets them; four are needed for the
divergence. `Parties` keeps apart two observations that queue for the lock and
two changes that overlap. Three expressions overflow a queue of two while one
is in hand; two faults hit a connection and the next one.

Deadlock is not checked: a service that has stopped, or whose user is silent,
has nothing to do. That nothing waits for ever is what the liveness properties
show.

Fairness. In `TurnService` the loop runs every task that can run: the callers of
`accept` and `cancel`, pipeline tasks that start or receive a cancellation,
finalizers and the shutdown are weakly fair. A pipeline that unwinds ends. No
fairness makes a user speak, a trigger fire, the application stop or an
undisturbed pipeline end.

In `DialoguePipeline` the loop runs every child and the task of the turn. A
synthesis ends because `dialogue.py:194` gives it a timeout; `discard` and
`stop` are calls that end. `FairSpec` asks of the language model and the
player only that they obey a cancellation, which is all that
`DisturbedRunEnds` needs. `RunEnds` assumes also that the request is built,
that the model ends its answer and the player its clip (`OthersEnd`).

In `ProactiveRuntime` the loop runs every call, transition and callback, and
the thread of a writer goes on. A proactive turn need not end by itself; it
receives a cancellation and ends its clean-up. The scheduler need not wake.
Weak fairness is enough for the locks because an instance takes them a bounded
number of times; asyncio, which hands a lock over in the order of arrival,
gives the same without that bound.

In the other modules, too, the loop goes on with what can go on and a thread
ends its operation; nobody has to call anything. Besides: in `GptSovits` the
timeout of the client ends a request; in `VoiceInput` the timer of a recording
runs out (`Patient` callers or not), the provider has a timeout, and a turn
ends or obeys its cancellation; in `PerceptionPipeline` every stage has its
timeout (`_with_timeout`); in `VtsBridge` a socket opens and a request is
answered, or their timeouts end them. `MemSpec` states none, because
only safety is checked of it.

`UserKeepsLease` is stated for callers that are cancelled at most once
(`turn_safety`). A second cancellation, while the caller joins the unwinding
pipeline, releases the lease early (`turns.py:207-210`). The turn was already
signalled in the code; in the model a cancellation between the two lock
acquisitions may come before that. `OutputExclusive` holds in either case,
because `run_proactive` looks at the active turn.

### A divergence found

`tests/unit/test_voice_input.py:673` is named
`test_close_cancels_inflight_start_and_cannot_leave_microphone_active`. A
recording that is stopped while its stream is still being opened in a thread
leaves the recorder idle, so a second start may open a stream as well. The
first start stores its stream in `SoundDevicePCMInput._stream`
(`voice_input.py:104`), finds that it is no longer the recording and begins to
stop the source. If the second start overwrites `_stream` before that, the
clean-up closes the second stream, and the first one is referenced by nobody:
it captures on, also after `close`. `voice_microphone` shows the trace with
`ClosedMicrophoneIsOff`; with a caller that waits for its start (`Patient`)
`MicrophoneIsGuarded` holds, and is proved for any number of calls.

### What the properties except

Places where the code does less than a reader of its documents might expect,
and how the models treat them:

- A proactive task that `TurnService.cancel` has cancelled is cancelled again
  by the lifecycle, in the middle of its clean-up, because
  `_cancellation_started` is unset (`lifecycle.py:137`). A user's turn is never
  hit twice (`UserTurnIsProtected`).
- If a task of a turn has failed and a new message cancels the turn while the
  player stops, the `CancelledError` leaves the `finally` block at
  `dialogue.py:305` before it discards, and the files stay until the provider
  is closed. `AudioIsDiscarded` states, and `DialogueProofs` proves, that an
  interrupted or failed stop is the only way this can happen.
- The revocation of vision looks at the active turn (`runtime.py:260`) before
  it waits for the state lock; a turn that starts meanwhile is cancelled though
  it is not visual.
- A frame of VTube Studio that cannot be read ends the receiver, which forgets
  the connection without closing it (`client.py:216-220`); the close of the
  client closes only what it still holds (`client.py:279-287`), so that socket
  stays open, also after `close` of the bridge, for which
  `docs/pro_handoff/02_architecture_and_data_flow.md:138` says
  "stop event、取消 worker、关闭 socket/token store". The same holds of a
  connection whose `close()` raises: the exception is suppressed.
  `ClosedIsStill` excepts these two, `deaf` and `stuck`.
- A deletion of a memory, of all memories or of the history that raises after
  its commit (`repositories.py:398-399`, `406-407`, `115-116`) skips the epoch
  (`runtime.py:411-438`), though
  `docs/ai_backend_mac_implementation_report.md:242` says
  "feature 关闭、update/delete/clear/confirm/history clear 都推进 context epoch；正在构建的旧 Prompt 快照会重试。"
  A snapshot that is being built may be handed out with what was deleted.
  `RevokedIsNotPrompted` excepts what went in this way while that very snapshot
  was built (`missed`); a later snapshot does not have it.
- A cancellation of a synthesis that meets a failing file operation is lost, and
  the synthesis goes on (`GptSovits`, above). Its caller returns all the same,
  when the synthesis ends (`SpeechEnds`).
- The lost lock and the expired lease of `GptSovits`, and the spared
  observation of `PerceptionPipeline`, above.

### Mutants

A definition named `X_Y` is `X` with the mistake `Y`. No specification uses
it; `PROJECT.json` pairs each with the property that fails when it takes the
place of `X`.

## The proofs

Every safety invariant, action property and refinement that a passing run
checks is proved for all values of the constants. The exceptions: two theorems
need less than the model allows, `UserTurnsAreProtected` (callers cancelled at
most once) and those of the recorder (a `Patient` caller); both are the
conditions of the runs as well, and without them TLC finds a property
violated. All liveness stays with TLC.

The argument has one form. An inductive invariant, the conjunction of named
parts, is proved to hold initially and to be kept by every step, with a lemma
per part and a case per action or actor under it; TLC checked each of them on
the instance of a run before. The property follows from it, or, if it is about
steps, from it and one step.

### Turn service

All theorems hold for any sets of messages, intents, sessions and
interrupters, under `TurnsAssumption` (messages and intents are different,
`NoTurn` is neither) and `ServiceAssumption` (the constants have their types).

`ArbitrationInv` is the inductive invariant of the first module. Exclusive
output follows from what each caller of `accept` has established at its
program counter (`CallerProgress`): at `joinOld` the active turn, if any, is
the one it joins, and it is alive. That needs the accept lock (`AcceptMutex`),
that no proactive task starts meanwhile (`ProactiveYields`, with
`ArbiterKnows`: the living proactive task is the arbiter's, and is signalled
while a lease is held), that a task which has not started belongs to a caller
holding the coordination lock (`NotYetRunning`), and that what is active is
open (`ActiveIsOpen`). It is proved one action at a time, in three groups:
callers of `accept`, pipeline tasks, interrupters and shutdown.

`RegistryInv` adds what the registry says: a streaming turn is in its
pipeline, a closed service has only a pipeline that unwinds, a caller that
does not start its pipeline has lost the output, a deferred completion has not
been announced. With both invariants every step of the service is a step of
`TurnArbiter` or changes nothing it sees, `ServiceImplementsArbiter`.

| Theorem | States |
|---|---|
| `TypeCorrect` | `TypeOK` |
| `ArbitrationCorrect`, `OutputIsExclusive`, `ProactiveYieldsToUser` | `ArbitrationInv` and its two visible parts |
| `TerminalStatusIsFinal` | no step changes a terminal status |
| `OutputIsHandedOver` | a turn becomes active only when none is and the service is open |
| `RegistryCorrect`, `EndsAreAnnouncedOnce`, `OpenTurnsAreActive` | `RegistryInv` and its two visible parts |
| `ServiceImplementsArbiter` | the refinement, with and without a pipeline |
| `SessionIndexIsTrue` | `SessionIndexAgrees` |
| `CancelInvCorrect`, `CancellationsHold` | `CancelInv` and `CancellationHolds` |
| `LeaseInvCorrect`, `LeasesHaveOwners` | `LeaseInv` and `LeaseHasOwner` |
| `UserTurnsAreProtected` | `UserTurnIsProtected`, if `MaxCallerCancels <= 1` |
| `StopInvCorrect`, `ShutdownLeavesNothing` | `StopInv` and `StoppedIsQuiet` |

Four smaller invariants lean on these two. `CancelInv`: a living task whose
token is cancelled has its `CancelledError` thrown or is unwinding, the
lifecycle's task is open while it lives, and a user's task is thrown into
once; with it, a turn that was cancelled stays cancelled whichever of its
cancellers, its pipeline and its finalizer comes first. `LeaseInv`: a lease is
held from `accept` by its caller or by the pipeline it started, so it has an
owner at every await. `StopInv`: behind each wait of the shutdown nothing is
left that could start what the earlier waits have drained. The protection of a
user's turn needs to know of every cancelled caller how far it has unwound,
and holds while callers are cancelled at most once in all: a second
cancellation does break it (`turns.py:207-210`, above).

Only model-checked: liveness (`CallersReturn`, `EndIsAnnounced`).

### Dialogue pipeline

The theorems hold for any finite set of workers and any number of segments and
cancellations, under `PipelineAssumption` (the stream, playback and the end
mark are nobody else, and there is a worker). All safety properties of
the run `dialogue` are proved.

`PipelineInv` is inductive together with `TypeOK`. Its parts lean on each
other. `JobsAreDistinct`: a segment is in the queue once or with one worker,
and then has no result. So a result is set once, and `AudioIsTracked` follows:
the successful results are exactly those in `cleanup` or discarded.
`PlaybackProgress`: everything before `next` is settled, and only `next` may
be discarded beyond it. `PhasesAgree` ties the children to the phase of the
run, and pending cancellations to the group that aborts. These give the order
of speech, the discards and the refinement.

That a completed run has spoken needs more, because playback ends by counting.
While nothing disturbs the run (`Undisturbed`), no segment is lost on the way
(`NothingIsLost`), the end marks are the last jobs of the queue
(`MarksFollowJobs`), the mark of a worker comes after its results and once
(`MarksFollowResults`), and playback ends only when it has counted every
worker (`PlaybackCounts`). At the join every worker is finished, hence the
last element of the audio queue would be a mark that was counted already, so
the queue is empty; the segment `next` is nowhere, so `next` has reached the
end. The proof takes one conjunct at a time, and one action at a time under
it; `CalmSteps` reduces the last four to the steps that leave a run
undisturbed, and `ResumeProperties` says what the inner loop of playback does.

| Theorem | States |
|---|---|
| `TypeCorrect`, `PipelineInvCorrect` | `TypeOK`, `PipelineInv` |
| `AudioIsThereCorrect`, `AudioIsDiscardedCorrect` | what is played has not been discarded, what was synthesized is |
| `CompletedIsSpokenCorrect`, `OutcomeIsHonestCorrect` | what the outcome says of the run |
| `SpokenInOrderCorrect`, `QuietAfterCancelCorrect` | when a segment may begin |
| `SpokenTurnImplemented` | the refinement |

Only model-checked: that runs end (`RunsReturn`).

### Proactive runtime

The theorems hold for any sets of users, intents, writers and publishers,
under `TurnsAssumption` and `RuntimeAssumption` (calls, turns and transitions
have different names, and the constants have their types). All safety
properties of `proactive_flags` and `proactive_vision` are proved.

`RuntimeInv` is the inductive invariant of the locks, the scheduler and the
close. `JoinsWhatLives`: a turn that lives while somebody joins is the turn he
joins, because a start needs the state lock and the close has shut the
lifecycle; so whoever has joined knows that none lives. That needs
`LocksAreHeld`, which reads the holders of both locks from the program
counters. `SchedulerIsCorrected` is why the order of the changes does not
matter: if the flag is on and no scheduler runs, some change of the flag is
still to be applied, and whoever applies one looks at the flag again
(`Reconcile`); if the flag is off and a scheduler runs, the listener of a
change to off has not stopped it yet. `SchedulerIsStopped` says that a
cancelled scheduler is being drained by a transition of that flag or by the
close, and `CallsFollowStart` and `CloseIsFinal` place the calls between
`start` and the end of `close`. There is a lemma per part, with a step per
actor under it.

`PerceptionInv` orders all observations, published or not, by time as by
generation, so one that is accepted is never older than the latest; after a
warning the latest one is sensitive itself or newer, and a revocation forgets
both.

| Theorem | States |
|---|---|
| `TypeCorrect`, `RuntimeInvCorrect`, `PerceptionInvCorrect` | `TypeOK`, `RuntimeInv`, `PerceptionInv` |
| `ClosedIsQuietCorrect` | what close leaves behind |
| `SchedulerFollowsFlagCorrect` | the scheduler runs exactly when the flag is on |
| `BarrierIsSilentCorrect` | what is gone when a PATCH returns |
| `ReplayIsRejectedCorrect`, `SensitiveIsQuietCorrect` | which observations may start a turn |

Only model-checked: that calls return and revoked turns end.

### GPT-SoVITS

For any sets of calls and keys and any number of places in the cache, under
`GptAssumption`. All safety properties of the run `speech` are proved.

`KeyInv` is about the entries of `_key_locks`, which are removed when nobody
uses them and made again. `users` is the cardinality of the workers that refer
to an entry (`UsersAreCounted`), an entry that is referred to is the one the
table has (`EntriesAreIndexed`), and who holds the lock is its owner
(`HoldersOwn`). So two workers of one key share an entry, and one of them holds
it. The count is why a worker that is cancelled in the queue must not remove
the entry under the others.

`FileInv` gives each temporary file its worker by the stage of the worker
(`StagesOwn`), a result the file it names (`ResultsAreThere`), and the close
what it has forgotten so far. `CacheInv`: what is in the cache was published by
a worker of that key (`CacheHasMakers`), a worker that found nothing finds its
place still empty when it publishes (`PlaceIsFree`, which is where one
synthesis per key is needed again), and a lease of another worker's file is of
one that is done (`LeasesAreSettled`).

| Theorem | States |
|---|---|
| `TypeCorrect`, `KeyInvCorrect`, `FileInvCorrect`, `CacheInvCorrect` | `GptTypeOK` and the three invariants |
| `OneSynthesisPerKeyCorrect` | one synthesis of a key at a time |
| `AudioIsAccountedCorrect` | who owns each file, and what close leaves |
| `LeasedAudioStaysCorrect` | no step takes a leased file that is not too old |

Only model-checked: `SpeechEnds`.

### VTS bridge

For any capacity, number of expressions, faults and callers of `close`, under
`BridgeAssumption`. All safety properties of the run `bridge` are proved.

`BridgeInv`: what the close of a client has done at each of its steps, and
that an open socket is one it still holds (`ClientIsOrdered`), which client the
round of `_run` has (`RoundHasClient`), and that the close of the bridge ends
behind both (`CloseIsOrdered`, of which `~leaked` says that no round left a
socket open that its client could have closed).
`FateInv`: the queue is the last numbers that were published, without a gap
(`QueueIsRecent`), so what is taken next is newer than all that was taken, and
what was dropped had a whole queue behind it. At most one expression is
discarded by the close (`OneDiscard`). `FaultsAreSpent` charges the rest: the
losses so far, plus one for a request that is bound to fail, are no more than
the faults so far; a disconnection that has happened but not been noticed yet
is paid for already, so it costs one expression and not two.

| Theorem | States |
|---|---|
| `BridgeInvCorrect`, `TypeCorrect`, `FateInvCorrect` | the invariants, `BridgeTypeOK` |
| `ClosedIsStillCorrect` | nothing runs after close, and no socket is open but a deaf or a stuck one |
| `ExpressionsAreKeptCorrect` | order, what a full queue gives up, what a fault costs |

Only model-checked: `ExpressionsLeave`.

### Memory

For any messages, prompts, requests, answers of the analyzer and edits, under
`MemoryAssumption`: a reply names a slot once (the analyzer rejects it
otherwise), and a database to start from keeps the `Constraints` of its schema
and has the profile of each active `user_profile` row, which the one
transaction that writes such a row writes as well. All properties of the run
`memory` are proved. That a sensitive fact is confirmed is relative to the
start: what the database holds then counts as confirmed.

First each transaction, for any database: `Upsert`, `UpdateContent` and
`DeleteRows` keep the type and the constraints, and what they can leave in
sight. `TableInv` follows, with what may wait for a confirmation and what a
task still has to consider. `AnswerInv` says that a task deals with a claim
once, and asks for a confirmation only when it does: so what was answered is
never asked for again. `SwitchInv` is about memory that is off: nothing
waits, and nothing runs except while the request that switched it off is about
to cancel and drain, which it does under the lock of the features; so a second
request cannot find the work of the first half done. `PromptInv` is about what
is `gone`: it is out of the tables, and what of it is in a snapshot whose epoch
is still the current one is in `missed` as well, because whoever takes
something out of sight raises the epoch before it returns (until then it is in
`took`) or raises an exception and marks the snapshots that are being built.

| Theorem | States |
|---|---|
| `TableInvCorrect`, `AnswerInvCorrect`, `SwitchInvCorrect`, `PromptInvCorrect`, `MemTypeCorrect` | the invariants, `MemTypeOK` |
| `SensitiveIsConfirmedCorrect`, `SlotHasOneValueCorrect` | the rows and profiles |
| `OffMeansQuietCorrect` | memory that is off |
| `RevokedIsNotPromptedCorrect` | what a snapshot cannot hold |

### Voice input

For any number of calls and any size of the buffer, under `VoiceAssumption`.
The types (`TypeCorrect`) hold whatever the callers do. The rest assumes a
caller that does not start while an earlier start still opens its stream
(`Patient`). The recorder does not enforce it, and the repository has no user
interface yet that could be asked (`docs/ai_backend_mac_implementation_report.md:44`),
so it is a condition on the one to come. Without it `MicrophoneIsGuarded` fails (`voice_microphone`), and
with five calls `SpeechIsWiped` as well.

`Guarded`: one start is under way at a time (`OneStart`); the state tells who
is (`StateIsTrue`): while it is `recording`, `recId` is a start that opens its
stream or one that has returned and left an armed watchdog and an open stream,
and while it is `transcribing`, `oper` is the one stop; `EndIsOrdered` is what
`cancel` and `close` have behind them at each await. `StreamIsNew` and
`WatchdogIsNew` say that nobody refers to a stream or a watchdog before it is
made, so what a stop, a cancel or a clean-up has taken is not taken again, and
`MicrophoneIsExpected` that an open stream is the recorder's or is `held` by
somebody who stops it. `SpeechIsHeld` and `TextIsWanted` follow the audio and
the text on the way to the turn service.

| Theorem | States |
|---|---|
| `TypeCorrect`, `GuardedCorrect` | `VoiceTypeOK`, `Guarded` |
| `MicrophoneIsGuardedCorrect` | whom the microphone captures for |
| `SpeechIsWipedCorrect` | where audio is |
| `OnlyWantedIsSentCorrect` | what is not sent |

Only model-checked: `VoiceCallsEnd`. `ClosedMicrophoneIsOff` is refuted.

### Perception pipeline

For any observations, changes of the switches, windows and contents, under
`PerceptionAssumption`. All safety properties of the run `perception` are
proved.

`Barrier`: who is in a stage holds the lock, and what it has in hand has passed
the guards before its stage (`StagesAreOrdered`). An observation that a
revocation met has a cancellation thrown into it, or vision is off and a
clean-up of the current generation has not run yet (`RevokedIsThrown`); the
only way out of the second is that vision is permitted again, which is what
`spared` means. While a clean-up of the current generation joins, nothing new
begins, so what it joins is all that runs (`CleanJoinsAll`); an older
generation proves nothing, which is why the clean-up compares. `CloseIsOrdered`
is the same for `close`.

| Theorem | States |
|---|---|
| `BarrierCorrect`, `TypeCorrect` | `Barrier`, `PerceptionTypeOK` |
| `ObservationsAreExclusive` | one observation in a stage |
| `RevocationIsBarrierCorrect` | what a revocation and a close leave |
| `SecretStaysLocalCorrect` | what is never sent or reported as safe |

Only model-checked: `PerceptionEnds`.

### What is not proved

Liveness under fairness (`CallersReturn`, `EndIsAnnounced`, `RunsReturn`,
`CallsReturn`, `RevokedTurnEnds`, `SpeechEnds`, `VoiceCallsEnd`,
`PerceptionEnds`, `ExpressionsLeave`), which needs `ENABLED`; induction over
data, which is what the pure algorithms compute for inputs of every length;
and modules that reach a `RECURSIVE` operator.

## The plan

Done: `TurnService` over `ProactiveLifecycle` with `TurnArbiter`,
`DialoguePipeline` with `SpokenTurn`, `ProactiveRuntime`, and their proofs;
`MemoryRuntime`, `VoiceInput`, `VtsBridge`, `PerceptionPipeline`, `GptSovits`,
and the proofs of all of them; the pure algorithms, model-checked.

Left, in this order:

1. Crash recovery of `legacy_migration.py` (staging, verification, activation
   by `os.replace`) and of `token_store.py`.
2. The composition of perception, cloud gate and proactive runtime: an
   abstract revocation that both implement, with a proof of each side.
3. What the algorithms that are not recursive promise for all inputs: the
   budget of a prompt, the bounds of the emotions, the gates of `RateGates`.

## Not modelled

| Part | Why |
|---|---|
| Legacy migration | one process that copies and renames files; the plan's next model |
| Configuration, paths, log redaction | validation of values; no step of another part can disturb them |
| Routes and the WebSocket | they call what is modelled; their own state is the connection |
| SQL, full-text index, schema migrations | the tables are modelled by what a transaction does to them |
| OCR, classification, image processing, whisper.cpp, the audio device | external or numeric; the components see their outcome, which the models choose freely |
| Subscribers, metrics, export | unbounded queues and reports that nothing reads back |
