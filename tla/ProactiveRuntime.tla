-------------------------- MODULE ProactiveRuntime --------------------------
(***************************************************************************)
(* app/proactive/runtime.py over the lifecycle of its turns: the idle      *)
(* scheduler, submissions of triggers, publications of what the screen     *)
(* shows, and the transitions that follow a change of a feature flag.      *)
(*                                                                         *)
(* Everything runs on the event loop but the writers of flags, which are   *)
(* threads (memory/runtime.py:60, 368).  An action is the code from one     *)
(* await that may suspend to the next.  A lock is granted to any waiter,   *)
(* which includes the order of arrival that asyncio keeps.                 *)
(*                                                                         *)
(* The clock and the scores are left open: the policy may refuse whatever  *)
(* the privacy and priority checks let pass (proactive/engine.py:78-97).   *)
(***************************************************************************)
EXTENDS ProactiveLifecycle, Naturals

CONSTANTS Features,    \* the flags that are written: "proactive", "vision"
          Kinds,       \* the triggers that are submitted from outside
          Writers,     \* calls of FeatureFlagManager.set
          Publishers,  \* calls of update_perception, one after the other
          Scheduler, Closer,  \* the scheduler task, the task of close
          Waiting,     \* whether a PATCH waits for a writer: what may occur
          MayClose,    \* whether the runtime is closed
          MaxStamp     \* bound on the observations of the screen

Triggers == {"idle", "visual", "task_complete"}

(* A change of a flag is applied twice: by the task that the listener       *)
(* schedules, and by the PATCH request that made it, when there is one.    *)
Barrier(w) == <<w, "patch">>
Listener(w) == <<w, "listener">>
Transitions == Writers \X {"patch", "listener"}

ASSUME RuntimeAssumption ==
  /\ Features \subseteq {"proactive", "vision"} /\ Kinds \subseteq Triggers
  /\ MaxStamp \in Nat /\ MayClose \in BOOLEAN /\ Waiting \subseteq BOOLEAN
  /\ Intents \cap (Publishers \cup Transitions \cup {Scheduler, Closer}) = {}
  /\ Users \cap (Publishers \cup Transitions \cup {Scheduler, Closer}) = {}
  /\ Publishers \cap (Transitions \cup {Scheduler, Closer}) = {}
  /\ {Scheduler, Closer} \cap Transitions = {} /\ Scheduler # Closer
  /\ NoTurn \notin Publishers \cup Transitions \cup {Scheduler, Closer}

Procs == Users \cup Publishers \cup Transitions \cup {Closer}
Holders == Procs \cup {NoTurn}

VARIABLES
  flag,         \* FeatureFlagManager._states
  request,      \* what a writer sets, and whether a PATCH waits for it
  thread,       \* where a writer is
  pc,           \* where a call, a transition or the close is
  joins,        \* the proactive turn whose task it joins
  featureLock,  \* the holder of _feature_transition_lock
  stateLock,    \* the holder of _state_lock while it is suspended
  started,      \* start() was called: loop and runner are known
  closing,      \* _closing
  sched,        \* the task of the scheduler
  schedThrow,   \* it was cancelled
  trigger,      \* the trigger of an intent
  shown,        \* the argument of update_perception
  latest,       \* _latest_perception
  accepting,    \* _vision_accepting_perception
  highest,      \* _highest_perception_generation + 1
  retired,      \* _retired_perception_generation + 1
  generation,   \* external: the generation of the perception pipeline
  stamp,        \* external: the clock that stamps observations
  burnt,        \* history: the highest generation when vision was revoked
  warned,       \* history: stamp of the last sensitive observation
  basis         \* history: generation a visual turn was started from

None == [generation |-> 0, at |-> 0, sensitive |-> FALSE]

turnVars == <<taskVars, lifecycleVars, trigger>>
flagVars == <<flag, request, thread>>
lockVars == <<featureLock, stateLock>>
callVars == <<pc, joins, lockVars>>
modeVars == <<started, closing>>
schedVars == <<sched, schedThrow>>
epochVars == <<latest, accepting, highest, retired>>
screenVars == <<shown, generation, stamp>>
historyVars == <<burnt, warned, basis>>
viewVars == <<epochVars, screenVars, historyVars>>
vars == <<turnVars, flagVars, callVars, modeVars, schedVars, viewVars>>

Observation == [generation : Nat, at : Nat, sensitive : BOOLEAN]

TypeOK ==
  /\ LifecycleTypeOK
  /\ flag \in [{"proactive", "vision"} -> BOOLEAN]
  /\ request \in [Writers -> [name : {"proactive", "vision"},
                              enabled : BOOLEAN, waits : BOOLEAN]]
  /\ thread \in [Writers -> {"off", "set", "told"}]
  /\ pc \in [Procs -> {"off", "callback", "ready", "lock", "drain", "state",
                       "join", "gather", "on", "done"}]
  /\ joins \in [Procs -> Intents \cup {NoTurn}]
  /\ featureLock \in Holders /\ stateLock \in Holders
  /\ started \in BOOLEAN /\ closing \in BOOLEAN
  /\ sched \in {"off", "sleeping", "submitting"}
  /\ schedThrow \in BOOLEAN
  /\ trigger \in [Intents -> Triggers]
  /\ shown \in [Publishers -> Observation]
  /\ latest \in Observation
  /\ accepting \in BOOLEAN
  /\ highest \in Nat /\ retired \in Nat
  /\ generation \in Nat /\ stamp \in 0 .. MaxStamp
  /\ burnt \in Nat /\ warned \in Nat
  /\ basis \in [Intents -> Nat]

(* Generations count from 1 here, so that 0 can stand for what the code     *)
(* writes as -1.                                                           *)
Init ==
  /\ LifecycleInit
  /\ flag \in [{"proactive", "vision"} -> BOOLEAN]
  /\ request = [w \in Writers |->
                 [name |-> "vision", enabled |-> FALSE, waits |-> FALSE]]
  /\ thread = [w \in Writers |-> "off"]
  /\ pc = [x \in Procs |-> "off"]
  /\ joins = [x \in Procs |-> NoTurn]
  /\ featureLock = NoTurn /\ stateLock = NoTurn
  /\ started = FALSE /\ closing = FALSE
  /\ sched = "off" /\ schedThrow = FALSE
  /\ trigger = [p \in Intents |-> "idle"]
  /\ shown = [u \in Publishers |-> None]
  /\ latest = None
  /\ accepting = flag["vision"]
  /\ highest = 0 /\ retired = 0
  /\ generation = 1 /\ stamp = 0
  /\ burnt = 0 /\ warned = 0
  /\ basis = [p \in Intents |-> 0]

-----------------------------------------------------------------------------
(* Perception epochs. *)

Larger(m, n) == IF m >= n THEN m ELSE n

(* _set_vision_epoch_state.  The perception pipeline, which listens to the  *)
(* same flag, goes on to its next generation (pipeline.py:532-536).        *)
SetEpoch_ForgetsHighest(enabled) ==
  /\ accepting' = enabled
  /\ retired' = IF enabled THEN retired ELSE Larger(1, retired)
  /\ burnt' = IF enabled THEN burnt ELSE highest
  /\ warned' = IF enabled THEN warned ELSE 0

SetEpoch(enabled) ==
  /\ accepting' = enabled
  /\ retired' = IF enabled THEN retired
                ELSE Larger(1, Larger(retired, highest))
  /\ burnt' = IF enabled THEN burnt ELSE highest
  /\ warned' = IF enabled THEN warned ELSE 0

Valid(o) == accepting /\ o.generation > retired

(* _current_perception. *)
Current == IF latest # None /\ Valid(latest) THEN latest ELSE None

Older(o, q) ==
  \/ o.generation < q.generation
  \/ o.generation = q.generation /\ o.at < q.at

(* _accept_perception. *)
Accept(o) ==
  IF ~(latest # None /\ Older(o, latest)) /\ Valid(o)
  THEN /\ latest' = o
       /\ highest' = Larger(highest, o.generation)
  ELSE UNCHANGED <<latest, highest>>

(* The screen is observed while the pipeline is permitted to; the result is *)
(* published by update_perception, later.  None is published when there is *)
(* nothing to see.                                                         *)
Observe(u) ==
  /\ started /\ pc[u] = "off"
  /\ \/ /\ accepting /\ stamp < MaxStamp
        /\ stamp' = stamp + 1
        /\ \E sensitive \in BOOLEAN :
             shown' = [shown EXCEPT ![u] = [generation |-> generation,
                                            at |-> stamp',
                                            sensitive |-> sensitive]]
     \/ stamp' = stamp /\ shown' = [shown EXCEPT ![u] = None]
  /\ pc' = [pc EXCEPT ![u] = "state"]
  /\ UNCHANGED <<turnVars, flagVars, joins, lockVars, modeVars, schedVars,
                 epochVars, generation, historyVars>>

(* active_trigger_type of the snapshot is "visual_change". *)
VisualActive == lcTask # NoTurn /\ trigger[lcTask] = "visual"

(* cancel_active, or begin and close of the lifecycle, up to the join. *)
SignalAndJoin(x) ==
  /\ SignalProactive
  /\ joins' = [joins EXCEPT ![x] = lcTask]
  /\ pc' = [pc EXCEPT ![x] = "join"]
  /\ UNCHANGED <<task, interrupted, leases, lcTask, lcClosed>>

(* update_perception, once it has the state lock.                          *)
Show(o) ==
  /\ IF o = None THEN latest' = None /\ highest' = highest
     ELSE IF flag["vision"] THEN Accept(o)
     ELSE UNCHANGED <<latest, highest>>
  /\ warned' = IF o = None THEN 0
               ELSE IF o.sensitive /\ flag["vision"] /\ Valid(o)
               THEN Larger(o.at, warned) ELSE warned
  /\ UNCHANGED <<flagVars, featureLock, modeVars, schedVars, trigger,
                 accepting, retired, screenVars, burnt, basis>>

MustCancel(o) == o.sensitive \/ (o = None /\ VisualActive)

Publish_NoLock(u) ==
  /\ pc[u] = "state" /\ stateLock = NoTurn
  /\ Show(shown[u])
  /\ stateLock' = stateLock
  /\ IF MustCancel(shown[u]) THEN SignalAndJoin(u)
     ELSE /\ pc' = [pc EXCEPT ![u] = "off"]
          /\ UNCHANGED <<taskVars, lifecycleVars, joins>>

Publish(u) ==
  /\ pc[u] = "state" /\ stateLock = NoTurn
  /\ Show(shown[u])
  /\ IF MustCancel(shown[u]) THEN stateLock' = u /\ SignalAndJoin(u)
     ELSE /\ pc' = [pc EXCEPT ![u] = "off"]
          /\ UNCHANGED <<taskVars, lifecycleVars, joins, stateLock>>

(* _join_and_clear. *)
Joined(x) == pc[x] = "join" /\ (joins[x] # NoTurn => ~Live(joins[x]))

EndJoin(x, next) ==
  /\ ForgetFinished(joins[x])
  /\ joins' = [joins EXCEPT ![x] = NoTurn]
  /\ pc' = [pc EXCEPT ![x] = next]
  /\ UNCHANGED <<taskVars, leases, lcClosed>>

PublishEnds(u) ==
  /\ Joined(u)
  /\ EndJoin(u, "off")
  /\ stateLock' = NoTurn
  /\ UNCHANGED <<flagVars, featureLock, modeVars, schedVars, trigger,
                 viewVars>>

-----------------------------------------------------------------------------
(* Submissions.  Where it waits for the state lock a submission has done    *)
(* nothing yet, so it begins when it is granted the lock.                  *)

(* _suppression: what is checked before the policy. *)
Allowed(kind) ==
  /\ flag["proactive"] /\ ~closing /\ ~lcClosed
  /\ leases = {}
  /\ kind = "visual" => flag["vision"] /\ Current # None
  /\ ~Current.sensitive

(* submit starts the turn of p or refuses the trigger. *)
Start(p, kind) ==
  /\ Allowed(kind)
  /\ TryStart(p)
  /\ trigger' = [trigger EXCEPT ![p] = kind]
  /\ basis' = [basis EXCEPT ![p] = IF kind = "visual"
                                   THEN Current.generation ELSE 0]
  /\ UNCHANGED <<burnt, warned>>

Submit(p, kind) ==
  /\ started /\ stateLock = NoTurn
  /\ Start(p, kind)
  /\ UNCHANGED <<flagVars, callVars, modeVars, schedVars, epochVars, screenVars>>

-----------------------------------------------------------------------------
(* The scheduler. *)

(* _ensure_scheduler; the runner is known by then. *)
EnsureScheduler ==
  /\ sched' = IF ~closing /\ ~lcClosed /\ sched = "off"
              THEN "sleeping" ELSE sched
  /\ schedThrow' = schedThrow

(* start, called once. *)
StartRuntime ==
  /\ ~started /\ ~closing
  /\ started' = TRUE
  /\ IF flag["proactive"] THEN EnsureScheduler ELSE UNCHANGED schedVars
  /\ UNCHANGED <<turnVars, flagVars, callVars, closing, viewVars>>

(* _scheduler_loop: the end of its sleep, and its submission. *)
SchedulerWakes ==
  /\ sched = "sleeping" /\ ~schedThrow
  /\ flag["proactive"]
  /\ sched' = "submitting"
  /\ UNCHANGED <<turnVars, flagVars, callVars, modeVars, schedThrow, viewVars>>

SchedulerSubmits ==
  /\ sched = "submitting" /\ ~schedThrow
  /\ stateLock = NoTurn
  /\ \/ \E p \in Intents : Start(p, "idle")
     \/ UNCHANGED <<turnVars, historyVars>>
  /\ sched' = "sleeping"
  /\ UNCHANGED <<flagVars, callVars, modeVars, schedThrow, epochVars,
                 screenVars>>

SchedulerEnds ==
  /\ sched # "off" /\ schedThrow
  /\ sched' = "off" /\ schedThrow' = FALSE
  /\ UNCHANGED <<turnVars, flagVars, callVars, modeVars, viewVars>>

(* _stop_scheduler up to its join: the event and the cancellation end the   *)
(* loop alike.                                                             *)
StopScheduler == sched' = sched /\ schedThrow' = (sched # "off")

-----------------------------------------------------------------------------
(* A writer changes a flag: FeatureFlagManager.set in a thread. *)

(* _feature_update_lock of the memory runtime admits one PATCH at a time.  *)
PatchBusy(w) == request[w].waits /\ pc[Barrier(w)] # "done"

SetFlag(w, name, enabled, waits) ==
  /\ thread[w] = "off"
  /\ waits => started /\ ~closing /\ \A v \in Writers : ~PatchBusy(v)
  /\ flag' = [flag EXCEPT ![name] = enabled]
  /\ request' = [request EXCEPT ![w] = [name |-> name, enabled |-> enabled,
                                        waits |-> waits]]
  /\ thread' = [thread EXCEPT ![w] = "set"]
  /\ UNCHANGED <<turnVars, callVars, modeVars, schedVars, viewVars>>

(* _on_feature_changed, in the thread; then the PATCH goes on in the loop. *)
Notify(w) ==
  /\ thread[w] = "set"
  /\ thread' = [thread EXCEPT ![w] = "told"]
  /\ LET enabled == request[w].enabled
     IN  IF request[w].name = "vision"
         THEN /\ SetEpoch(enabled)
              /\ generation' = generation + 1
         ELSE UNCHANGED <<accepting, retired, generation, burnt, warned>>
  /\ pc' = [pc EXCEPT
       ![Listener(w)] = IF closing \/ ~started THEN "done" ELSE "callback",
       ![Barrier(w)] = IF request[w].waits THEN "ready" ELSE "done"]
  /\ UNCHANGED <<turnVars, flag, request, joins, lockVars, modeVars, schedVars,
                 latest, highest, shown, stamp, basis>>

-----------------------------------------------------------------------------
(* _apply_feature_transition, by the request or by the listener's task. *)

(* _schedule_feature_transition. *)
Callback(w) ==
  /\ pc[Listener(w)] = "callback"
  /\ pc' = [pc EXCEPT ![Listener(w)] = IF closing THEN "done" ELSE "lock"]
  /\ UNCHANGED <<turnVars, flagVars, joins, lockVars, modeVars, schedVars,
                 viewVars>>

(* apply_feature_state up to the lock. *)
ApplyFeatureState(w) ==
  /\ pc[Barrier(w)] = "ready"
  /\ pc' = [pc EXCEPT ![Barrier(w)] = "lock"]
  /\ IF request[w].name = "vision"
     THEN SetEpoch(request[w].enabled)
     ELSE UNCHANGED <<accepting, retired, burnt, warned>>
  /\ UNCHANGED <<turnVars, flagVars, joins, lockVars, modeVars, schedVars,
                 latest, highest, screenVars, basis>>

TakeFeatureLock(x) == pc[x] = "lock" /\ featureLock = NoTurn

Reconcile == IF ~closing /\ flag["proactive"] THEN EnsureScheduler
             ELSE UNCHANGED schedVars

EnableProactive(x) ==
  /\ TakeFeatureLock(x)
  /\ request[x[1]].name = "proactive" /\ request[x[1]].enabled
  /\ Reconcile
  /\ pc' = [pc EXCEPT ![x] = "done"]
  /\ UNCHANGED <<turnVars, flagVars, joins, lockVars, modeVars, viewVars>>

DisableProactive(x) ==
  /\ TakeFeatureLock(x)
  /\ request[x[1]].name = "proactive" /\ ~request[x[1]].enabled
  /\ featureLock' = x
  /\ StopScheduler
  /\ pc' = [pc EXCEPT ![x] = "drain"]
  /\ UNCHANGED <<turnVars, flagVars, joins, stateLock, modeVars, viewVars>>

(* A transition takes the state lock at once when it is free. *)
CancelOrWait(x) ==
  IF stateLock = NoTurn THEN stateLock' = x /\ SignalAndJoin(x)
  ELSE /\ pc' = [pc EXCEPT ![x] = "state"]
       /\ UNCHANGED <<taskVars, lifecycleVars, joins, stateLock>>

SchedulerDrained_NoJoin(x) ==
  /\ pc[x] = "drain" /\ x # Closer
  /\ CancelOrWait(x)
  /\ UNCHANGED <<flagVars, featureLock, modeVars, schedVars, trigger, viewVars>>

SchedulerDrained(x) ==
  /\ pc[x] = "drain" /\ x # Closer
  /\ sched = "off"
  /\ CancelOrWait(x)
  /\ UNCHANGED <<flagVars, featureLock, modeVars, schedVars, trigger, viewVars>>

(* A change of vision: an observation of a retired epoch is dropped, and a  *)
(* visual turn is cancelled.                                               *)
ChangeVision(x) ==
  /\ TakeFeatureLock(x)
  /\ request[x[1]].name = "vision"
  /\ LET off == ~request[x[1]].enabled
     IN  /\ latest' = IF off /\ latest.generation <= retired THEN None ELSE latest
         /\ IF off /\ VisualActive
            THEN featureLock' = x /\ CancelOrWait(x)
            ELSE /\ pc' = [pc EXCEPT ![x] = "done"]
                 /\ UNCHANGED <<taskVars, lifecycleVars, joins, lockVars>>
  /\ UNCHANGED <<flagVars, modeVars, schedVars, trigger, accepting, highest,
                 retired, screenVars, historyVars>>

CancelActive(x) ==
  /\ pc[x] = "state" /\ x \in Transitions
  /\ stateLock = NoTurn
  /\ stateLock' = x
  /\ SignalAndJoin(x)
  /\ UNCHANGED <<flagVars, featureLock, modeVars, schedVars, trigger,
                 viewVars>>

TransitionEnds_NoReconcile(x) ==
  /\ Joined(x) /\ x \in Transitions
  /\ EndJoin(x, "done")
  /\ stateLock' = NoTurn /\ featureLock' = NoTurn
  /\ UNCHANGED <<flagVars, modeVars, schedVars, trigger, viewVars>>

TransitionEnds(x) ==
  /\ Joined(x) /\ x \in Transitions
  /\ EndJoin(x, "done")
  /\ stateLock' = NoTurn /\ featureLock' = NoTurn
  /\ IF request[x[1]].name = "proactive" THEN Reconcile ELSE UNCHANGED schedVars
  /\ UNCHANGED <<flagVars, modeVars, trigger, viewVars>>

-----------------------------------------------------------------------------
(* Explicit turns, called by the turn service. *)

BeginTurn(u) ==
  /\ started /\ pc[u] = "off"
  /\ BeginUserTurn(u)
  /\ joins' = [joins EXCEPT ![u] = lcTask]
  /\ pc' = [pc EXCEPT ![u] = "join"]
  /\ UNCHANGED <<task, interrupted, lcTask, lcClosed, flagVars, lockVars,
                 modeVars, schedVars, trigger, viewVars>>

TurnJoined(u) ==
  /\ Joined(u)
  /\ EndJoin(u, "state")
  /\ UNCHANGED <<flagVars, lockVars, modeVars, schedVars, trigger, viewVars>>

(* last_user_activity is set under the state lock. *)
TurnBegins(u) ==
  /\ pc[u] = "state" /\ stateLock = NoTurn
  /\ pc' = [pc EXCEPT ![u] = "on"]
  /\ UNCHANGED <<turnVars, flagVars, joins, lockVars, modeVars, schedVars,
                 viewVars>>

(* end_user_turn: at the end, or when the caller of begin is cancelled. *)
EndTurn(u) ==
  /\ pc[u] \in {"join", "state", "on"}
  /\ EndUserTurn(u)
  /\ joins' = [joins EXCEPT ![u] = NoTurn]
  /\ pc' = [pc EXCEPT ![u] = "off"]
  /\ UNCHANGED <<taskVars, lcTask, lcSignalled, lcClosed, flagVars, lockVars,
                 modeVars, schedVars, trigger, viewVars>>

(* The task of a proactive turn; its runner obeys a cancellation and may    *)
(* clean up for a while.                                                   *)
RunnerStarts(p) ==
  /\ task[p] = "ready" /\ ~throw[p]
  /\ task' = [task EXCEPT ![p] = "running"]
  /\ UNCHANGED <<throw, interrupted, token, lifecycleVars, flagVars, callVars,
                 modeVars, schedVars, trigger, viewVars>>

RunnerEnds(p) ==
  /\ task[p] \in {"running", "cleanup"} /\ ~throw[p]
  /\ task' = [task EXCEPT ![p] = "done"]
  /\ ForgetSelf(p)
  /\ UNCHANGED <<throw, interrupted, token, leases, lcClosed, flagVars,
                 callVars, modeVars, schedVars, trigger, viewVars>>

RunnerCancelled(p) ==
  /\ CancelUnstarted(p) \/ DeliverCancel(p)
  /\ UNCHANGED <<flagVars, callVars, modeVars, schedVars, trigger, viewVars>>

-----------------------------------------------------------------------------
(* close: one task, whatever its callers do. *)

Close ==
  /\ MayClose /\ started /\ pc[Closer] = "off"
  /\ closing' = TRUE
  /\ pc' = [pc EXCEPT ![Closer] = "lock"]
  /\ UNCHANGED <<turnVars, flagVars, joins, lockVars, started, schedVars,
                 viewVars>>

CloseStopsScheduler ==
  /\ TakeFeatureLock(Closer)
  /\ featureLock' = Closer
  /\ StopScheduler
  /\ pc' = [pc EXCEPT ![Closer] = "drain"]
  /\ UNCHANGED <<turnVars, flagVars, joins, stateLock, modeVars, viewVars>>

CloseLifecycle ==
  /\ pc[Closer] = "drain" /\ sched = "off"
  /\ lcClosed' = TRUE
  /\ SignalProactive
  /\ joins' = [joins EXCEPT ![Closer] = lcTask]
  /\ pc' = [pc EXCEPT ![Closer] = "join"]
  /\ UNCHANGED <<task, interrupted, leases, lcTask, flagVars, lockVars,
                 modeVars, schedVars, trigger, viewVars>>

CloseJoined_GathersLocked ==
  /\ Joined(Closer)
  /\ EndJoin(Closer, "gather")
  /\ UNCHANGED <<flagVars, lockVars, modeVars, schedVars, trigger, viewVars>>

CloseJoined ==
  /\ Joined(Closer)
  /\ EndJoin(Closer, "gather")
  /\ featureLock' = NoTurn
  /\ UNCHANGED <<flagVars, stateLock, modeVars, schedVars, trigger, viewVars>>

Pending(x) == pc[x] \in {"lock", "drain", "state", "join"}

CloseEnds_NoGather ==
  /\ pc[Closer] = "gather"
  /\ pc' = [pc EXCEPT ![Closer] = "done"]
  /\ UNCHANGED <<turnVars, flagVars, joins, lockVars, modeVars, schedVars,
                 viewVars>>

CloseEnds ==
  /\ pc[Closer] = "gather"
  /\ \A w \in Writers : ~Pending(Listener(w))
  /\ pc' = [pc EXCEPT ![Closer] = "done"]
  /\ UNCHANGED <<turnVars, flagVars, joins, lockVars, modeVars, schedVars,
                 viewVars>>

-----------------------------------------------------------------------------
PublisherStep(u) == Observe(u) \/ Publish(u) \/ PublishEnds(u)

IntentStep(p) ==
  \/ \E kind \in Kinds : Submit(p, kind)
  \/ RunnerStarts(p) \/ RunnerEnds(p) \/ RunnerCancelled(p)

SchedulerStep == SchedulerWakes \/ SchedulerSubmits \/ SchedulerEnds

WriterStep(w) ==
  \/ \E name \in Features, enabled \in BOOLEAN, waits \in Waiting :
       SetFlag(w, name, enabled, waits)
  \/ Notify(w) \/ Callback(w) \/ ApplyFeatureState(w)

TransitionStep(x) ==
  \/ EnableProactive(x) \/ DisableProactive(x)
  \/ SchedulerDrained(x) \/ ChangeVision(x) \/ CancelActive(x)
  \/ TransitionEnds(x)

UserStep(u) == BeginTurn(u) \/ TurnJoined(u) \/ TurnBegins(u) \/ EndTurn(u)

CloserStep ==
  \/ Close \/ CloseStopsScheduler \/ CloseLifecycle \/ CloseJoined \/ CloseEnds

Next ==
  \/ StartRuntime \/ SchedulerStep \/ CloserStep
  \/ \E u \in Publishers : PublisherStep(u)
  \/ \E p \in Intents : IntentStep(p)
  \/ \E w \in Writers : WriterStep(w)
  \/ \E x \in Transitions : TransitionStep(x)
  \/ \E u \in Users : UserStep(u)

Spec == Init /\ [][Next]_vars

(* The loop runs what can run.  The runner of a proactive turn need not end *)
(* by itself, but obeys a cancellation.                                    *)
Fairness ==
  /\ WF_vars(StartRuntime) /\ WF_vars(SchedulerEnds)
  /\ \A u \in Publishers : WF_vars(Publish(u)) /\ WF_vars(PublishEnds(u))
  /\ \A p \in Intents :
       /\ WF_vars(RunnerCancelled(p))
       /\ WF_vars(task[p] = "cleanup" /\ RunnerEnds(p))
  /\ \A w \in Writers : WF_vars(Notify(w)) /\ WF_vars(Callback(w))
                           /\ WF_vars(ApplyFeatureState(w))
  /\ \A x \in Transitions : WF_vars(TransitionStep(x))
  /\ \A u \in Users : WF_vars(TurnJoined(u)) /\ WF_vars(TurnBegins(u))
  /\ WF_vars(CloseStopsScheduler \/ CloseLifecycle \/ CloseJoined \/ CloseEnds)

FairSpec == Spec /\ Fairness

-----------------------------------------------------------------------------
(* What every step preserves. *)

Joiners == Publishers \cup Transitions \cup {Closer}
FeatureSteps == Transitions \cup {Closer}
Idle(x) == pc[x] \in {"off", "done"}

(* A change of the proactive flag that has not been applied, or not undone  *)
(* what an earlier one has started.                                        *)
Unapplied(w) ==
  /\ request[w].name = "proactive"
  /\ thread[w] = "set" \/ ~Idle(Listener(w)) \/ ~Idle(Barrier(w))

Undoing(w) ==
  /\ request[w].name = "proactive" /\ ~request[w].enabled
  /\ thread[w] = "set" \/ pc[Listener(w)] \in {"callback", "lock", "drain"}

LiveIsKnown == \A p \in Intents : Live(p) => lcTask = p

JoinsWhatLives ==
  \A x \in Joiners : pc[x] = "join" => \A p \in Intents : Live(p) => p = joins[x]

LocksAreHeld ==
  /\ stateLock \in Publishers \cup Transitions \cup {NoTurn}
  /\ \A x \in Publishers \cup Transitions : stateLock = x <=> pc[x] = "join"
  /\ featureLock \in FeatureSteps \cup {NoTurn}
  /\ \A x \in FeatureSteps :
       featureLock = x <=> pc[x] \in {"drain", "state", "join"}

CallsFollowStart ==
  /\ \A x \in FeatureSteps : ~Idle(x) => started
  /\ ~started => sched = "off"
  /\ \A w \in Writers :
       /\ request[w].waits => started
       /\ thread[w] # "told" => pc[Listener(w)] = "off" /\ pc[Barrier(w)] = "off"

SchedulerIsStopped ==
  /\ schedThrow => sched # "off" /\ \E x \in FeatureSteps : pc[x] = "drain"
  /\ \A x \in Transitions : pc[x] = "drain" => request[x[1]].name = "proactive"
  /\ \A x \in Transitions :
       request[x[1]].name = "proactive" /\ pc[x] \in {"state", "join"} =>
         sched = "off"

SchedulerIsCorrected ==
  started /\ ~closing =>
    /\ flag["proactive"] /\ sched = "off" => \E w \in Writers : Unapplied(w)
    /\ ~flag["proactive"] /\ sched # "off" => \E w \in Writers : Undoing(w)

CloseIsFinal ==
  /\ lcClosed <=> pc[Closer] \in {"join", "gather", "done"}
  /\ closing <=> pc[Closer] # "off"
  /\ lcClosed => sched = "off"
  /\ pc[Closer] \in {"gather", "done"} => \A p \in Intents : ~Live(p)
  /\ pc[Closer] = "done" => \A w \in Writers : ~Pending(Listener(w))

(* The inductive invariant of the locks, the scheduler and the close        *)
(* (runtime.py:187, 246, 253, 292-301, 346).                                *)
RuntimeInv ==
  /\ LiveIsKnown /\ JoinsWhatLives /\ LocksAreHeld /\ CallsFollowStart
  /\ SchedulerIsStopped /\ SchedulerIsCorrected /\ CloseIsFinal

Seen == {None, latest} \cup {shown[u] : u \in Publishers}

(* The inductive invariant of the epochs: observations are ordered by time  *)
(* as by generation, what was burnt is retired, and after a warning the    *)
(* latest observation is sensitive itself or newer (runtime.py:368-407).   *)
PerceptionInv ==
  /\ generation >= 1 /\ burnt <= retired
  /\ \A o \in Seen : o.generation <= generation /\ o.at <= stamp
  /\ \A o, q \in Seen : /\ o.generation < q.generation => o.at < q.at
                        /\ o.at = q.at => o = q
  /\ warned # 0 => /\ latest # None /\ Valid(latest) /\ latest.at >= warned
                   /\ latest.sensitive \/ latest.at > warned

-----------------------------------------------------------------------------
(* Properties. *)

Returns(w) == pc[Barrier(w)] \notin {"off", "done"} /\ pc[Barrier(w)]' = "done"
StartsTurn(p) == task[p] = "none" /\ task'[p] = "ready"

(* When a PATCH that switches proactive turns off returns, none is alive    *)
(* and the scheduler has stopped, unless the flag is on again; when one     *)
(* that switches vision off returns, no visual turn is alive               *)
(* (runtime.py:199-205, 252-263).                                          *)
BarrierIsSilent ==
  [][\A w \in Writers : Returns(w) /\ ~request[w].enabled =>
       IF request[w].name = "proactive"
       THEN /\ \A p \in Intents : ~Live(p)'
            /\ flag["proactive"]' \/ sched' = "off"
       ELSE \A p \in Intents : trigger[p] = "visual" => ~Live(p)']_vars

(* While no change is under way the scheduler runs exactly when the flag is *)
(* on, in whatever order the changes were applied (runtime.py:109, 249,    *)
(* 255).                                                                   *)
Quiescent ==
  /\ started /\ ~closing
  /\ \A w \in Writers : thread[w] # "set" /\ pc[Listener(w)] \in {"off", "done"}
                                      /\ pc[Barrier(w)] \in {"off", "done"}

SchedulerFollowsFlag ==
  Quiescent => (sched # "off" <=> flag["proactive"])

(* A sensitive screen silences: its publication returns when no turn is     *)
(* alive, and none starts until a later observation is safe, the screen is *)
(* cleared or vision is revoked (runtime.py:193-197, 368-385).             *)
SensitiveIsQuiet ==
  /\ [][\A p \in Intents : StartsTurn(p) => warned = 0 \/ latest.at > warned]_vars
  /\ [][\A u \in Publishers : pc[u] = "join" /\ pc[u]' = "off" =>
          \A p \in Intents : ~Live(p)']_vars

(* What was published before a revocation is not used after it, when vision *)
(* is on again or an old observation is published again (runtime.py:399).  *)
ReplayIsRejected == Current # None => Current.generation > burnt

(* A visual turn that started from an observation which has been revoked   *)
(* ends (runtime.py:258-263).                                              *)
RevokedTurnEnds ==
  \A p \in Intents :
    Live(p) /\ trigger[p] = "visual" /\ basis[p] <= burnt ~> ~Live(p)

(* After close no scheduler, turn or transition of a listener is alive     *)
(* (runtime.py:341-353).                                                   *)
ClosedIsQuiet ==
  pc[Closer] = "done" =>
    /\ sched = "off"
    /\ \A p \in Intents : ~Live(p)
    /\ \A w \in Writers : ~Pending(Listener(w))

(* Every call returns: nobody waits for a lock whose holder waits for him   *)
(* (runtime.py:186-197, 246-254, 346-353).                                 *)
AtRest(x) == pc[x] \in {"off", "on", "done"}
CallsReturn == \A x \in Procs : ~AtRest(x) ~> AtRest(x)
=============================================================================
