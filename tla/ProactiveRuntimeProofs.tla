----------------------- MODULE ProactiveRuntimeProofs -----------------------
(* Theorems about ProactiveRuntime, for every set of turns, writers and     *)
(* publishers.                                                             *)
EXTENDS ProactiveRuntime, TLAPS

USE TurnsAssumption, RuntimeAssumption
USE DEF turnVars, flagVars, lockVars, callVars, modeVars, schedVars, epochVars,
        screenVars, historyVars, viewVars, taskVars, lifecycleVars

-----------------------------------------------------------------------------
(* What the operators on the lifecycle return. *)

LEMMA SignalProactiveType ==
  ASSUME LifecycleTypeOK, SignalProactive
  PROVE  /\ token' \in [Turns -> BOOLEAN]
         /\ throw' \in [Turns -> BOOLEAN]
         /\ lcSignalled' \in BOOLEAN
<1>1. CASE UNCHANGED <<throw, token, lcSignalled>>
  BY <1>1 DEF LifecycleTypeOK
<1>2. CASE /\ token' = [token EXCEPT ![lcTask] = TRUE]
           /\ throw' = [throw EXCEPT ![lcTask] = @ \/ Live(lcTask)]
           /\ lcSignalled' = Live(lcTask)
  <2>1. Live(lcTask) \in BOOLEAN
    BY DEF Live
  <2>2. token' \in [Turns -> BOOLEAN]
    BY <1>2 DEF LifecycleTypeOK
  <2>3. throw' \in [Turns -> BOOLEAN]
    BY <1>2 DEF LifecycleTypeOK
  <2> QED  BY <1>2, <2>1, <2>2, <2>3
<1> QED  BY <1>1, <1>2 DEF SignalProactive

LEMMA ForgetType ==
  ASSUME LifecycleTypeOK, NEW t, ForgetFinished(t) \/ ForgetSelf(t)
  PROVE  /\ lcTask' \in Intents \cup {NoTurn}
         /\ lcSignalled' \in BOOLEAN
BY DEF LifecycleTypeOK, ForgetFinished, ForgetSelf

LEMMA StartType ==
  ASSUME TypeOK, NEW p \in Intents, NEW kind \in Triggers, Start(p, kind)
  PROVE  /\ LifecycleTypeOK'
         /\ trigger' \in [Intents -> Triggers]
         /\ basis' \in [Intents -> Nat]
<1>1. LifecycleTypeOK'
  BY DEF TypeOK, LifecycleTypeOK, Start, TryStart, TaskStates, Turns
<1>2. Current.generation \in Nat
  BY DEF TypeOK, Current, Observation, None
<1>3. trigger' \in [Intents -> Triggers]
  BY DEF TypeOK, Start
<1>4. basis' \in [Intents -> Nat]
  BY <1>2 DEF TypeOK, Start
<1> QED  BY <1>1, <1>3, <1>4

-----------------------------------------------------------------------------
(* Types. *)

LEMMA TypeInit == Init => TypeOK
<1> SUFFICES ASSUME Init PROVE TypeOK
  OBVIOUS
<1>1. LifecycleTypeOK
  <2>1. /\ throw \in [Turns -> BOOLEAN]
        /\ interrupted \in [Turns -> BOOLEAN]
        /\ token \in [Turns -> BOOLEAN]
    BY Zenon DEF Init, LifecycleInit
  <2>2. task \in [Turns -> TaskStates]
    BY DEF Init, LifecycleInit, TaskStates
  <2> QED  BY <2>1, <2>2 DEF Init, LifecycleInit, LifecycleTypeOK
<1>2. /\ flag \in [{"proactive", "vision"} -> BOOLEAN]
      /\ accepting \in BOOLEAN
  BY DEF Init
<1>3. /\ request \in [Writers -> [name : {"proactive", "vision"},
                              enabled : BOOLEAN, waits : BOOLEAN]]
      /\ thread \in [Writers -> {"off", "set", "told"}]
  BY DEF Init
<1>4. /\ pc \in [Procs -> {"off", "callback", "ready", "lock", "drain", "state",
                       "join", "gather", "on", "done"}]
      /\ joins \in [Procs -> Intents \cup {NoTurn}]
      /\ featureLock \in Holders /\ stateLock \in Holders
  BY DEF Init, Holders
<1>5. /\ trigger \in [Intents -> Triggers]
      /\ basis \in [Intents -> Nat]
      /\ shown \in [Publishers -> Observation]
      /\ latest \in Observation
  BY DEF Init, Triggers, Observation, None
<1>6. /\ started \in BOOLEAN /\ closing \in BOOLEAN
      /\ sched \in {"off", "sleeping", "submitting"}
      /\ schedThrow \in BOOLEAN
  BY Zenon DEF Init
<1>7. /\ highest \in Nat /\ retired \in Nat /\ generation \in Nat
      /\ stamp \in 0 .. MaxStamp /\ burnt \in Nat /\ warned \in Nat
  BY DEF Init
<1> QED  BY <1>1, <1>2, <1>3, <1>4, <1>5, <1>6, <1>7 DEF TypeOK

LEMMA TypeScheduler ==
  ASSUME TypeOK, StartRuntime \/ SchedulerStep
  PROVE  TypeOK'
<1>1. CASE StartRuntime
  BY <1>1 DEF TypeOK, LifecycleTypeOK, StartRuntime, EnsureScheduler
<1>2. CASE SchedulerWakes
  BY <1>2 DEF TypeOK, LifecycleTypeOK, SchedulerWakes
<1>3. CASE SchedulerSubmits
  <2>1. ASSUME NEW p \in Intents, Start(p, "idle")
        PROVE  TypeOK'
    BY <1>3, <2>1, StartType DEF TypeOK, SchedulerSubmits, Start, Triggers
  <2>2. CASE UNCHANGED <<turnVars, historyVars>>
    BY <1>3, <2>2 DEF TypeOK, LifecycleTypeOK, SchedulerSubmits
  <2> QED  BY <1>3, <2>1, <2>2 DEF SchedulerSubmits
<1>4. CASE SchedulerEnds
  BY <1>4 DEF TypeOK, LifecycleTypeOK, SchedulerEnds
<1> QED  BY <1>1, <1>2, <1>3, <1>4 DEF SchedulerStep

LEMMA TypeSubmissions ==
  ASSUME TypeOK, NEW p \in Intents, IntentStep(p)
  PROVE  TypeOK'
<1>1. CASE RunnerStarts(p)
  BY <1>1 DEF TypeOK, LifecycleTypeOK, RunnerStarts, TaskStates, Turns
<1>2. CASE RunnerEnds(p)
  BY <1>2, ForgetType DEF TypeOK, LifecycleTypeOK, RunnerEnds, TaskStates, Turns
<1>3. CASE RunnerCancelled(p)
  <2>1. LifecycleTypeOK'
    <3>1. CASE CancelUnstarted(p)
      BY <3>1, ForgetType DEF TypeOK, LifecycleTypeOK, CancelUnstarted, TaskStates
    <3>2. CASE DeliverCancel(p)
      <4>1. interrupted' \in [Turns -> BOOLEAN]
        BY <3>2 DEF TypeOK, LifecycleTypeOK, DeliverCancel
      <4> QED  BY <3>2, <4>1 DEF TypeOK, LifecycleTypeOK, DeliverCancel, TaskStates
    <3> QED  BY <1>3, <3>1, <3>2 DEF RunnerCancelled
  <2> QED  BY <1>3, <2>1 DEF TypeOK, RunnerCancelled
<1>4. ASSUME NEW kind \in Kinds, Submit(p, kind)
      PROVE  TypeOK'
  BY <1>4, StartType DEF TypeOK, Submit, Start
<1> QED  BY <1>1, <1>2, <1>3, <1>4 DEF IntentStep

LEMMA TypePublications ==
  ASSUME TypeOK, NEW u \in Publishers, PublisherStep(u)
  PROVE  TypeOK'
<1>1. CASE Observe(u)
  <2>1. stamp' \in 0 .. MaxStamp
    BY <1>1 DEF TypeOK, Observe
  <2>2. \E o \in Observation : shown' = [shown EXCEPT ![u] = o]
    <3>1. CASE shown' = [shown EXCEPT ![u] = None]
      <4>1. None \in Observation
        BY DEF Observation, None
      <4> QED  BY <3>1, <4>1
    <3>2. ASSUME NEW sensitive \in BOOLEAN,
                 shown' = [shown EXCEPT ![u] = [generation |-> generation,
                                                at |-> stamp',
                                                sensitive |-> sensitive]]
          PROVE  \E o \in Observation : shown' = [shown EXCEPT ![u] = o]
      <4>1. [generation |-> generation, at |-> stamp', sensitive |-> sensitive]
              \in Observation
        BY <2>1 DEF TypeOK, Observation
      <4> QED  BY <3>2, <4>1
    <3> QED  BY <1>1, <3>1, <3>2 DEF Observe
  <2>3. shown' \in [Publishers -> Observation]
    BY <2>2 DEF TypeOK
  <2> QED
    BY <1>1, <2>1, <2>3 DEF TypeOK, LifecycleTypeOK, Observe, Procs
<1>2. CASE Publish(u)
  <2> DEFINE o == shown[u]
  <2>0. /\ o \in Observation /\ o.generation \in Nat /\ o.at \in Nat
        /\ Show(o) /\ None \in Observation
    BY <1>2 DEF TypeOK, Publish, Observation, None
  <2> HIDE DEF o
  <2>1. /\ latest' \in Observation
        /\ highest' \in Nat
    BY <2>0 DEF TypeOK, Show, Accept, Larger
  <2>2. warned' \in Nat
    BY <2>0 DEF TypeOK, Show, Larger
  <2>3. /\ LifecycleTypeOK'
        /\ pc' \in [Procs -> {"off", "callback", "ready", "lock", "drain", "state",
                       "join", "gather", "on", "done"}]
        /\ joins' \in [Procs -> Intents \cup {NoTurn}]
        /\ stateLock' \in Holders
    <3>1. CASE MustCancel(shown[u])
      BY <1>2, <3>1, SignalProactiveType
         DEF TypeOK, LifecycleTypeOK, Publish, SignalAndJoin, Procs, Holders
    <3>2. CASE ~MustCancel(shown[u])
      BY <1>2, <3>2 DEF TypeOK, LifecycleTypeOK, Publish, Procs
    <3> QED  BY <3>1, <3>2
  <2> QED  BY <2>0, <2>1, <2>2, <2>3 DEF TypeOK, Show
<1>3. CASE PublishEnds(u)
  BY <1>3, ForgetType
     DEF TypeOK, LifecycleTypeOK, PublishEnds, EndJoin, Procs, Holders
<1> QED  BY <1>1, <1>2, <1>3 DEF PublisherStep

LEMMA TypeWriters ==
  ASSUME TypeOK, NEW w \in Writers, WriterStep(w)
  PROVE  TypeOK'
<1> USE DEF TypeOK, LifecycleTypeOK, Procs, Transitions, Listener, Barrier
<1>1. ASSUME NEW name \in Features, NEW enabled \in BOOLEAN, NEW waits \in Waiting,
             SetFlag(w, name, enabled, waits)
      PROVE  TypeOK'
  BY <1>1 DEF SetFlag
<1>2. CASE Notify(w)
  BY <1>2 DEF Notify, SetEpoch, Larger
<1>3. CASE Callback(w)
  BY <1>3 DEF Callback
<1>4. CASE ApplyFeatureState(w)
  BY <1>4 DEF ApplyFeatureState, SetEpoch, Larger
<1> QED  BY <1>1, <1>2, <1>3, <1>4 DEF WriterStep

LEMMA TypeTransitions ==
  ASSUME TypeOK, NEW x \in Transitions, TransitionStep(x)
  PROVE  TypeOK'
<1> USE DEF TypeOK, LifecycleTypeOK, TakeFeatureLock, Procs, Holders
<1>1. CASE EnableProactive(x)
  BY <1>1 DEF EnableProactive, Reconcile, EnsureScheduler
<1>2. CASE DisableProactive(x)
  BY <1>2 DEF DisableProactive, StopScheduler
<1>3. CASE SchedulerDrained(x)
  BY <1>3, SignalProactiveType DEF SchedulerDrained, CancelOrWait, SignalAndJoin
<1>4. CASE ChangeVision(x)
  BY <1>4, SignalProactiveType, SMTT(30) DEF ChangeVision, CancelOrWait, SignalAndJoin,
     Observation, None
<1>5. CASE CancelActive(x)
  BY <1>5, SignalProactiveType DEF CancelActive, SignalAndJoin
<1>6. CASE TransitionEnds(x)
  BY <1>6, ForgetType DEF TransitionEnds, EndJoin, Reconcile, EnsureScheduler
<1> QED  BY <1>1, <1>2, <1>3, <1>4, <1>5, <1>6 DEF TransitionStep

LEMMA TypeUsers ==
  ASSUME TypeOK, NEW u \in Users, UserStep(u)
  PROVE  TypeOK'
<1> USE DEF TypeOK, LifecycleTypeOK, Procs
<1>1. CASE BeginTurn(u)
  BY <1>1, SignalProactiveType DEF BeginTurn, BeginUserTurn
<1>2. CASE TurnJoined(u)
  BY <1>2, ForgetType DEF TurnJoined, EndJoin
<1>3. CASE TurnBegins(u)
  BY <1>3 DEF TurnBegins
<1>4. CASE EndTurn(u)
  BY <1>4 DEF EndTurn, EndUserTurn
<1> QED  BY <1>1, <1>2, <1>3, <1>4 DEF UserStep

LEMMA TypeCloser ==
  ASSUME TypeOK, CloserStep
  PROVE  TypeOK'
<1> USE DEF TypeOK, LifecycleTypeOK, Procs, Holders, TakeFeatureLock
<1>1. CASE Close
  BY <1>1 DEF Close
<1>2. CASE CloseStopsScheduler
  BY <1>2 DEF CloseStopsScheduler, StopScheduler
<1>3. CASE CloseLifecycle
  BY <1>3, SignalProactiveType DEF CloseLifecycle
<1>4. CASE CloseJoined
  BY <1>4, ForgetType DEF CloseJoined, EndJoin
<1>5. CASE CloseEnds
  BY <1>5 DEF CloseEnds
<1> QED  BY <1>1, <1>2, <1>3, <1>4, <1>5 DEF CloserStep

LEMMA TypeNext == TypeOK /\ [Next]_vars => TypeOK'
<1>1. CASE UNCHANGED vars
  BY <1>1 DEF TypeOK, LifecycleTypeOK, vars
<1> QED  BY <1>1, TypeScheduler, TypeSubmissions, TypePublications, TypeWriters,
            TypeTransitions, TypeUsers, TypeCloser DEF Next

(* Every variable keeps its type (runtime.py:43-79). *)
THEOREM TypeCorrect == Spec => []TypeOK
BY TypeInit, TypeNext, PTL DEF Spec

-----------------------------------------------------------------------------
(* What a step does to the turns that are alive, and to the calls.          *)

LEMMA StartLive ==
  ASSUME TypeOK, LiveIsKnown, NEW p \in Intents, TryStart(p)
  PROVE  /\ \A q \in Intents : ~Live(q)
         /\ \A q \in Intents : Live(q)' => q = p
         /\ lcTask' = p
BY DEF TypeOK, LifecycleTypeOK, LiveIsKnown, TryStart, CanStart, Live, Turns

LEMMA RunnerLive ==
  ASSUME TypeOK, NEW p \in Intents,
         RunnerStarts(p) \/ RunnerEnds(p) \/ RunnerCancelled(p)
  PROVE  /\ \A q \in Intents : Live(q)' => Live(q)
         /\ lcTask' = lcTask \/ (lcTask = p /\ ~Live(p)')
<1>1. task \in [Turns -> TaskStates] /\ p \in Turns
  BY DEF TypeOK, LifecycleTypeOK, Turns
<1>2. Live(p)
  BY DEF RunnerStarts, RunnerEnds, RunnerCancelled, CancelUnstarted,
         DeliverCancel, Live
<1>3. \A q \in Intents : Live(q)' => Live(q)
  <2>1. \A q \in Intents : q # p => task'[q] = task[q]
    BY <1>1 DEF RunnerStarts, RunnerEnds, RunnerCancelled, CancelUnstarted,
                DeliverCancel, Turns
  <2> QED  BY <1>2, <2>1 DEF Live
<1>4. lcTask' = lcTask \/ (lcTask = p /\ ~Live(p)')
  <2>1. CASE RunnerStarts(p)
    BY <2>1 DEF RunnerStarts
  <2>2. CASE RunnerEnds(p)
    BY <1>1, <2>2 DEF RunnerEnds, ForgetSelf, Live
  <2>3. CASE CancelUnstarted(p)
    BY <1>1, <2>3 DEF CancelUnstarted, ForgetSelf, Live
  <2>4. CASE DeliverCancel(p)
    BY <2>4 DEF DeliverCancel
  <2> QED  BY <2>1, <2>2, <2>3, <2>4 DEF RunnerCancelled
<1> QED  BY <1>3, <1>4

LEMMA TransitionNames ==
  /\ \A w \in Writers : /\ Listener(w) \in Transitions /\ Barrier(w) \in Transitions
                        /\ Listener(w)[1] = w /\ Barrier(w)[1] = w
                        /\ Listener(w) # Barrier(w)
  /\ \A x \in Transitions : /\ x[1] \in Writers
                            /\ x = Listener(x[1]) \/ x = Barrier(x[1])
BY DEF Transitions, Listener, Barrier

LEMMA OffUntilTold ==
  ASSUME CallsFollowStart, NEW x \in Transitions, thread[x[1]] # "told"
  PROVE  pc[x] = "off"
BY TransitionNames DEF CallsFollowStart

LEMMA NotifyCalls ==
  ASSUME TypeOK, CallsFollowStart, NEW w \in Writers, Notify(w)
  PROVE  /\ \A x \in Procs : x \notin {Listener(w), Barrier(w)} => pc'[x] = pc[x]
         /\ pc[Listener(w)] = "off" /\ pc[Barrier(w)] = "off"
         /\ pc'[Listener(w)] = IF closing \/ ~started THEN "done" ELSE "callback"
         /\ pc'[Barrier(w)] = IF request[w].waits THEN "ready" ELSE "done"
BY TransitionNames DEF TypeOK, CallsFollowStart, Notify, Procs

LEMMA NotifyBegins ==
  ASSUME TypeOK, CallsFollowStart, NEW w \in Writers, Notify(w)
  PROVE  \A x \in Procs :
           \/ pc'[x] = pc[x]
           \/ pc[x] = "off" /\ pc'[x] \in {"callback", "ready", "done"}
<1>0. \A x \in Procs : x \notin {Listener(w), Barrier(w)} => pc'[x] = pc[x]
  BY NotifyCalls
<1>1. ASSUME NEW x \in Procs
      PROVE  \/ pc'[x] = pc[x]
             \/ pc[x] = "off" /\ pc'[x] \in {"callback", "ready", "done"}
  <2>1. CASE x = Listener(w)
    BY <2>1, NotifyCalls
  <2>2. CASE x = Barrier(w)
    BY <2>2, NotifyCalls
  <2>3. CASE x \notin {Listener(w), Barrier(w)}
    BY <1>0, <2>3
  <2> QED  BY <2>1, <2>2, <2>3
<1> QED  BY <1>1

(* A step of one transition keeps what the changes of other writers await.  *)
LEMMA ChangesKept ==
  ASSUME NEW x \in Transitions, UNCHANGED <<request, thread>>,
         \A y \in Transitions : y # x => pc'[y] = pc[y],
         NEW v \in Writers
  PROVE  /\ Unapplied(v) /\ (x[1] = v => ~Idle(x)') => Unapplied(v)'
         /\ /\ Undoing(v)
            /\ pc[x] \in {"callback", "lock", "drain"} =>
                 x[1] # v \/ pc'[x] \in {"callback", "lock", "drain"}
            => Undoing(v)'
<1>1. /\ Listener(v) # x => pc'[Listener(v)] = pc[Listener(v)]
      /\ Barrier(v) # x => pc'[Barrier(v)] = pc[Barrier(v)]
      /\ x = Listener(v) \/ x = Barrier(v) => x[1] = v
  BY TransitionNames
<1>2. ASSUME Unapplied(v), x[1] = v => ~Idle(x)'
      PROVE  Unapplied(v)'
  BY <1>1, <1>2 DEF Unapplied, Idle
<1>3. ASSUME Undoing(v),
             pc[x] \in {"callback", "lock", "drain"} =>
               x[1] # v \/ pc'[x] \in {"callback", "lock", "drain"}
      PROVE  Undoing(v)'
  BY <1>1, <1>3 DEF Undoing
<1> QED  BY <1>2, <1>3

(* A step that touches neither the flag nor a transition, and neither starts *)
(* nor ends the scheduler.                                                 *)
LEMMA CorrectionKept ==
  ASSUME SchedulerIsCorrected, UNCHANGED <<flag, request, thread, started, closing>>,
         sched' = "off" <=> sched = "off",
         \A y \in Transitions : pc'[y] = pc[y]
  PROVE  SchedulerIsCorrected'
<1>1. \A v \in Writers : Unapplied(v)' <=> Unapplied(v)
  BY TransitionNames DEF Unapplied, Idle
<1>2. \A v \in Writers : Undoing(v)' <=> Undoing(v)
  BY TransitionNames DEF Undoing
<1> QED  BY <1>1, <1>2 DEF SchedulerIsCorrected

-----------------------------------------------------------------------------
(* The locks, the scheduler and the close: each part of RuntimeInv is       *)
(* preserved by the steps of each actor.                                   *)

LEMMA LiveIsKnownStep ==
  ASSUME TypeOK, RuntimeInv, [Next]_vars
  PROVE  LiveIsKnown'
<1> USE DEF TypeOK, LifecycleTypeOK, RuntimeInv, LiveIsKnown, Live
<1>1. CASE UNCHANGED vars
  BY <1>1 DEF vars
<1>2. CASE StartRuntime \/ SchedulerStep
  <2>1. CASE StartRuntime
    BY <2>1 DEF StartRuntime, EnsureScheduler
  <2>2. CASE SchedulerWakes
    BY <2>2 DEF SchedulerWakes
  <2>3. CASE SchedulerSubmits
    <3>1. ASSUME NEW p \in Intents, Start(p, "idle")
          PROVE  LiveIsKnown'
      BY <2>3, <3>1, StartLive DEF SchedulerSubmits, Start, Allowed
    <3>2. CASE UNCHANGED <<turnVars, historyVars>>
      BY <2>3, <3>2 DEF SchedulerSubmits
    <3> QED  BY <2>3, <3>1, <3>2 DEF SchedulerSubmits
  <2>4. CASE SchedulerEnds
    BY <2>4 DEF SchedulerEnds
  <2> QED  BY <1>2, <2>1, <2>2, <2>3, <2>4 DEF SchedulerStep
<1>3. CASE CloserStep
  BY <1>3 DEF CloserStep, Close, CloseStopsScheduler, TakeFeatureLock,
     StopScheduler, CloseLifecycle, SignalProactive, CloseJoined, Joined,
     EndJoin, ForgetFinished, CloseEnds
<1>4. ASSUME NEW u \in Publishers, PublisherStep(u)
      PROVE  LiveIsKnown'
  BY <1>4 DEF PublisherStep, Observe, Publish, Show, SignalAndJoin,
     SignalProactive, PublishEnds, Joined, EndJoin, ForgetFinished
<1>5. ASSUME NEW p \in Intents, IntentStep(p)
      PROVE  LiveIsKnown'
  <2>1. CASE RunnerStarts(p)
    BY <2>1, RunnerLive
  <2>2. CASE RunnerEnds(p)
    BY <2>2, RunnerLive
  <2>3. CASE RunnerCancelled(p)
    BY <2>3, RunnerLive
  <2>4. ASSUME NEW kind \in Kinds, Submit(p, kind)
        PROVE  LiveIsKnown'
    BY <2>4 DEF Submit, Start, TryStart, Allowed, CanStart
  <2> QED  BY <1>5, <2>1, <2>2, <2>3, <2>4 DEF IntentStep
<1>6. ASSUME NEW w \in Writers, WriterStep(w)
      PROVE  LiveIsKnown'
  BY <1>6 DEF WriterStep, SetFlag, Notify, Callback, ApplyFeatureState
<1>7. ASSUME NEW x \in Transitions, TransitionStep(x)
      PROVE  LiveIsKnown'
  BY <1>7 DEF TransitionStep, EnableProactive, TakeFeatureLock, Reconcile,
     EnsureScheduler, DisableProactive, StopScheduler, SchedulerDrained,
     CancelOrWait, SignalAndJoin, SignalProactive, ChangeVision, CancelActive,
     TransitionEnds, Joined, EndJoin, ForgetFinished
<1>8. ASSUME NEW u \in Users, UserStep(u)
      PROVE  LiveIsKnown'
  BY <1>8 DEF UserStep, BeginTurn, BeginUserTurn, SignalProactive, TurnJoined,
     Joined, EndJoin, ForgetFinished, TurnBegins, EndTurn, EndUserTurn
<1> QED  BY <1>1, <1>2, <1>3, <1>4, <1>5, <1>6, <1>7, <1>8 DEF Next

LEMMA JoinsWhatLivesStep ==
  ASSUME TypeOK, RuntimeInv, [Next]_vars
  PROVE  JoinsWhatLives'
<1> USE DEF TypeOK, LifecycleTypeOK, RuntimeInv, LiveIsKnown, JoinsWhatLives,
            LocksAreHeld, CloseIsFinal, Live, Joiners, Procs, Holders
<1>1. CASE UNCHANGED vars
  BY <1>1 DEF vars
<1>2. CASE StartRuntime \/ SchedulerStep
  BY <1>2 DEF SchedulerStep, StartRuntime, EnsureScheduler, SchedulerWakes,
     SchedulerSubmits, Start, TryStart, Allowed, CanStart, SchedulerEnds
<1>3. CASE CloserStep
  BY <1>3 DEF CloserStep, Close, CloseStopsScheduler, TakeFeatureLock,
     StopScheduler, CloseLifecycle, SignalProactive, CloseJoined, Joined,
     EndJoin, ForgetFinished, CloseEnds
<1>4. ASSUME NEW u \in Publishers, PublisherStep(u)
      PROVE  JoinsWhatLives'
  BY <1>4 DEF PublisherStep, Observe, Publish, Show, SignalAndJoin,
     SignalProactive, PublishEnds, Joined, EndJoin, ForgetFinished
<1>5. ASSUME NEW p \in Intents, IntentStep(p)
      PROVE  JoinsWhatLives'
  BY <1>5, RunnerLive DEF IntentStep, RunnerStarts, RunnerEnds, ForgetSelf,
     RunnerCancelled, CancelUnstarted, DeliverCancel, Submit, Start, TryStart,
     Allowed, CanStart
<1>6. ASSUME NEW w \in Writers, WriterStep(w)
      PROVE  JoinsWhatLives'
  <2>1. ASSUME NEW name \in Features, NEW enabled \in BOOLEAN, NEW waits \in Waiting,
               SetFlag(w, name, enabled, waits)
        PROVE  JoinsWhatLives'
    BY <2>1 DEF SetFlag
  <2>2. CASE Notify(w)
    BY <2>2 DEF Notify
  <2>3. CASE Callback(w)
    BY <2>3 DEF Callback
  <2>4. CASE ApplyFeatureState(w)
    BY <2>4 DEF ApplyFeatureState
  <2> QED  BY <1>6, <2>1, <2>2, <2>3, <2>4 DEF WriterStep
<1>7. ASSUME NEW x \in Transitions, TransitionStep(x)
      PROVE  JoinsWhatLives'
  BY <1>7 DEF TransitionStep, EnableProactive, TakeFeatureLock, Reconcile,
     EnsureScheduler, DisableProactive, StopScheduler, SchedulerDrained,
     CancelOrWait, SignalAndJoin, SignalProactive, ChangeVision, CancelActive,
     TransitionEnds, Joined, EndJoin, ForgetFinished
<1>8. ASSUME NEW u \in Users, UserStep(u)
      PROVE  JoinsWhatLives'
  BY <1>8 DEF UserStep, BeginTurn, BeginUserTurn, SignalProactive, TurnJoined,
     Joined, EndJoin, ForgetFinished, TurnBegins, EndTurn, EndUserTurn
<1> QED  BY <1>1, <1>2, <1>3, <1>4, <1>5, <1>6, <1>7, <1>8 DEF Next

LEMMA LocksAreHeldStep ==
  ASSUME TypeOK, RuntimeInv, [Next]_vars
  PROVE  LocksAreHeld'
<1> USE DEF TypeOK, RuntimeInv, LocksAreHeld, Joiners, FeatureSteps, Procs, Holders
<1>1. CASE UNCHANGED vars
  BY <1>1 DEF vars
<1>2. CASE StartRuntime \/ SchedulerStep
  BY <1>2 DEF SchedulerStep, StartRuntime, EnsureScheduler, SchedulerWakes,
     SchedulerSubmits, Start, TryStart, Allowed, CanStart, SchedulerEnds
<1>3. CASE CloserStep
  BY <1>3 DEF CloserStep, Close, CloseStopsScheduler, TakeFeatureLock,
     StopScheduler, CloseLifecycle, SignalProactive, CloseJoined, Joined,
     EndJoin, ForgetFinished, CloseEnds
<1>4. ASSUME NEW u \in Publishers, PublisherStep(u)
      PROVE  LocksAreHeld'
  BY <1>4 DEF PublisherStep, Observe, Publish, Show, SignalAndJoin,
     SignalProactive, PublishEnds, Joined, EndJoin, ForgetFinished
<1>5. ASSUME NEW p \in Intents, IntentStep(p)
      PROVE  LocksAreHeld'
  BY <1>5 DEF IntentStep, RunnerStarts, RunnerEnds, ForgetSelf, RunnerCancelled,
     CancelUnstarted, DeliverCancel, Submit, Start, TryStart, Allowed, CanStart
<1>6. ASSUME NEW w \in Writers, WriterStep(w)
      PROVE  LocksAreHeld'
  <2>1. ASSUME NEW name \in Features, NEW enabled \in BOOLEAN, NEW waits \in Waiting,
               SetFlag(w, name, enabled, waits)
        PROVE  LocksAreHeld'
    BY <2>1 DEF SetFlag
  <2>2. CASE Notify(w)
    BY <2>2, NotifyCalls, TransitionNames DEF Notify, CallsFollowStart
  <2>3. CASE Callback(w)
    BY <2>3 DEF Callback
  <2>4. CASE ApplyFeatureState(w)
    BY <2>4 DEF ApplyFeatureState
  <2> QED  BY <1>6, <2>1, <2>2, <2>3, <2>4 DEF WriterStep
<1>7. ASSUME NEW x \in Transitions, TransitionStep(x)
      PROVE  LocksAreHeld'
  BY <1>7 DEF TransitionStep, EnableProactive, TakeFeatureLock, Reconcile,
     EnsureScheduler, DisableProactive, StopScheduler, SchedulerDrained,
     CancelOrWait, SignalAndJoin, SignalProactive, ChangeVision, CancelActive,
     TransitionEnds, Joined, EndJoin, ForgetFinished
<1>8. ASSUME NEW u \in Users, UserStep(u)
      PROVE  LocksAreHeld'
  BY <1>8 DEF UserStep, BeginTurn, BeginUserTurn, SignalProactive, TurnJoined,
     Joined, EndJoin, ForgetFinished, TurnBegins, EndTurn, EndUserTurn
<1> QED  BY <1>1, <1>2, <1>3, <1>4, <1>5, <1>6, <1>7, <1>8 DEF Next

LEMMA CallsFollowStartStep ==
  ASSUME TypeOK, RuntimeInv, [Next]_vars
  PROVE  CallsFollowStart'
<1> USE DEF TypeOK, RuntimeInv, CallsFollowStart, FeatureSteps, Idle, Procs,
            Transitions, Listener, Barrier
<1>1. CASE UNCHANGED vars
  BY <1>1 DEF vars
<1>2. CASE StartRuntime \/ SchedulerStep
  BY <1>2 DEF SchedulerStep, StartRuntime, EnsureScheduler, SchedulerWakes,
     SchedulerSubmits, Start, TryStart, Allowed, CanStart, SchedulerEnds
<1>3. CASE CloserStep
  BY <1>3 DEF CloserStep, Close, CloseStopsScheduler, TakeFeatureLock,
     StopScheduler, CloseLifecycle, SignalProactive, CloseJoined, Joined,
     EndJoin, ForgetFinished, CloseEnds
<1>4. ASSUME NEW u \in Publishers, PublisherStep(u)
      PROVE  CallsFollowStart'
  BY <1>4 DEF PublisherStep, Observe, Publish, Show, SignalAndJoin,
     SignalProactive, PublishEnds, Joined, EndJoin, ForgetFinished
<1>5. ASSUME NEW p \in Intents, IntentStep(p)
      PROVE  CallsFollowStart'
  BY <1>5 DEF IntentStep, RunnerStarts, RunnerEnds, ForgetSelf, RunnerCancelled,
     CancelUnstarted, DeliverCancel, Submit, Start, TryStart, Allowed, CanStart
<1>6. ASSUME NEW w \in Writers, WriterStep(w)
      PROVE  CallsFollowStart'
  <2>1. ASSUME NEW name \in Features, NEW enabled \in BOOLEAN, NEW waits \in Waiting,
               SetFlag(w, name, enabled, waits)
        PROVE  CallsFollowStart'
    BY <2>1 DEF SetFlag
  <2>2. CASE Notify(w)
    <3> HIDE DEF TypeOK, Transitions, Listener, Barrier
    <3>1. /\ \A x \in FeatureSteps : ~Idle(x)' => ~Idle(x) \/ started
          /\ UNCHANGED <<started, sched, request>>
          /\ \A v \in Writers : thread'[v] # "told" =>
               thread[v] # "told" /\ v # w
      BY <2>2, NotifyCalls, TransitionNames DEF Notify, TypeOK
    <3>2. \A v \in Writers \ {w} : /\ pc'[Listener(v)] = pc[Listener(v)]
                                   /\ pc'[Barrier(v)] = pc[Barrier(v)]
      BY <2>2, NotifyCalls, TransitionNames
    <3> QED  BY <3>1, <3>2
  <2>3. CASE Callback(w)
    BY <2>3 DEF Callback
  <2>4. CASE ApplyFeatureState(w)
    BY <2>4 DEF ApplyFeatureState
  <2> QED  BY <1>6, <2>1, <2>2, <2>3, <2>4 DEF WriterStep
<1>7. ASSUME NEW x \in Transitions, TransitionStep(x)
      PROVE  CallsFollowStart'
  BY <1>7 DEF TransitionStep, EnableProactive, TakeFeatureLock, Reconcile,
     EnsureScheduler, DisableProactive, StopScheduler, SchedulerDrained,
     CancelOrWait, SignalAndJoin, SignalProactive, ChangeVision, CancelActive,
     TransitionEnds, Joined, EndJoin, ForgetFinished
<1>8. ASSUME NEW u \in Users, UserStep(u)
      PROVE  CallsFollowStart'
  BY <1>8 DEF UserStep, BeginTurn, BeginUserTurn, SignalProactive, TurnJoined,
     Joined, EndJoin, ForgetFinished, TurnBegins, EndTurn, EndUserTurn
<1> QED  BY <1>1, <1>2, <1>3, <1>4, <1>5, <1>6, <1>7, <1>8 DEF Next

LEMMA SchedulerIsStoppedStep ==
  ASSUME TypeOK, RuntimeInv, [Next]_vars
  PROVE  SchedulerIsStopped'
<1> USE DEF TypeOK, RuntimeInv, SchedulerIsStopped, CallsFollowStart,
            LocksAreHeld, FeatureSteps, Idle, Procs, Transitions, Listener,
            Barrier
<1>1. CASE UNCHANGED vars
  BY <1>1 DEF vars
<1>2. CASE StartRuntime \/ SchedulerStep
  BY <1>2 DEF SchedulerStep, StartRuntime, EnsureScheduler, SchedulerWakes,
     SchedulerSubmits, Start, TryStart, Allowed, CanStart, SchedulerEnds
<1>3. CASE CloserStep
  BY <1>3 DEF CloserStep, Close, CloseStopsScheduler, TakeFeatureLock,
     StopScheduler, CloseLifecycle, SignalProactive, CloseJoined, Joined,
     EndJoin, ForgetFinished, CloseEnds
<1>4. ASSUME NEW u \in Publishers, PublisherStep(u)
      PROVE  SchedulerIsStopped'
  BY <1>4 DEF PublisherStep, Observe, Publish, Show, SignalAndJoin,
     SignalProactive, PublishEnds, Joined, EndJoin, ForgetFinished
<1>5. ASSUME NEW p \in Intents, IntentStep(p)
      PROVE  SchedulerIsStopped'
  BY <1>5 DEF IntentStep, RunnerStarts, RunnerEnds, ForgetSelf, RunnerCancelled,
     CancelUnstarted, DeliverCancel, Submit, Start, TryStart, Allowed, CanStart
<1>6. ASSUME NEW w \in Writers, WriterStep(w)
      PROVE  SchedulerIsStopped'
  <2>1. ASSUME NEW name \in Features, NEW enabled \in BOOLEAN, NEW waits \in Waiting,
               SetFlag(w, name, enabled, waits)
        PROVE  SchedulerIsStopped'
    <3>1. \A x \in Transitions : pc[x] # "off" => request'[x[1]] = request[x[1]]
      BY <2>1, OffUntilTold, TransitionNames DEF SetFlag
    <3> QED  BY <2>1, <3>1 DEF SetFlag
  <2>2. CASE Notify(w)
    <3> HIDE DEF TypeOK, SchedulerIsStopped, LocksAreHeld, Procs, Transitions, Listener,
       Barrier
    <3>1. \A x \in Procs :
            \/ pc'[x] = pc[x]
            \/ pc[x] = "off" /\ pc'[x] \in {"callback", "ready", "done"}
      BY <2>2, NotifyBegins
    <3>2. UNCHANGED <<request, sched, schedThrow>>
      BY <2>2 DEF Notify
    <3> QED  BY <3>1, <3>2 DEF SchedulerIsStopped, Procs
  <2>3. CASE Callback(w)
    BY <2>3, ZenonT(60) DEF Callback
  <2>4. CASE ApplyFeatureState(w)
    BY <2>4 DEF ApplyFeatureState
  <2> QED  BY <1>6, <2>1, <2>2, <2>3, <2>4 DEF WriterStep
<1>7. ASSUME NEW x \in Transitions, TransitionStep(x)
      PROVE  SchedulerIsStopped'
  BY <1>7 DEF TransitionStep, EnableProactive, TakeFeatureLock, Reconcile,
     EnsureScheduler, DisableProactive, StopScheduler, SchedulerDrained,
     CancelOrWait, SignalAndJoin, SignalProactive, ChangeVision, CancelActive,
     TransitionEnds, Joined, EndJoin, ForgetFinished
<1>8. ASSUME NEW u \in Users, UserStep(u)
      PROVE  SchedulerIsStopped'
  BY <1>8 DEF UserStep, BeginTurn, BeginUserTurn, SignalProactive, TurnJoined,
     Joined, EndJoin, ForgetFinished, TurnBegins, EndTurn, EndUserTurn
<1> QED  BY <1>1, <1>2, <1>3, <1>4, <1>5, <1>6, <1>7, <1>8 DEF Next

LEMMA CloseIsFinalStep ==
  ASSUME TypeOK, RuntimeInv, [Next]_vars
  PROVE  CloseIsFinal'
<1> USE DEF TypeOK, LifecycleTypeOK, RuntimeInv, CloseIsFinal, JoinsWhatLives,
            LocksAreHeld, FeatureSteps, Joiners, Idle, Pending, Live, Procs,
            Transitions, Listener, Barrier
<1>1. CASE UNCHANGED vars
  BY <1>1 DEF vars
<1>2. CASE StartRuntime \/ SchedulerStep
  BY <1>2 DEF SchedulerStep, StartRuntime, EnsureScheduler, SchedulerWakes,
     SchedulerSubmits, Start, TryStart, Allowed, CanStart, SchedulerEnds
<1>3. CASE CloserStep
  BY <1>3 DEF CloserStep, Close, CloseStopsScheduler, TakeFeatureLock,
     StopScheduler, CloseLifecycle, SignalProactive, CloseJoined, Joined,
     EndJoin, ForgetFinished, CloseEnds
<1>4. ASSUME NEW u \in Publishers, PublisherStep(u)
      PROVE  CloseIsFinal'
  BY <1>4 DEF PublisherStep, Observe, Publish, Show, SignalAndJoin,
     SignalProactive, PublishEnds, Joined, EndJoin, ForgetFinished
<1>5. ASSUME NEW p \in Intents, IntentStep(p)
      PROVE  CloseIsFinal'
  BY <1>5 DEF IntentStep, RunnerStarts, RunnerEnds, ForgetSelf, RunnerCancelled,
     CancelUnstarted, DeliverCancel, Submit, Start, TryStart, Allowed, CanStart
<1>6. ASSUME NEW w \in Writers, WriterStep(w)
      PROVE  CloseIsFinal'
  <2>1. ASSUME NEW name \in Features, NEW enabled \in BOOLEAN, NEW waits \in Waiting,
               SetFlag(w, name, enabled, waits)
        PROVE  CloseIsFinal'
    BY <2>1 DEF SetFlag
  <2>2. CASE Notify(w)
    <3> HIDE DEF TypeOK, Transitions, Listener, Barrier
    <3>1. pc'[Closer] = pc[Closer]
      BY <2>2, NotifyCalls, TransitionNames
    <3>2. \A v \in Writers : Pending(Listener(v))' => Pending(Listener(v))
      BY <2>2, NotifyCalls, TransitionNames
    <3>3. UNCHANGED <<lcClosed, closing, sched, task>>
      BY <2>2 DEF Notify
    <3> QED  BY <3>1, <3>2, <3>3
  <2>3. CASE Callback(w)
    BY <2>3 DEF Callback
  <2>4. CASE ApplyFeatureState(w)
    BY <2>4 DEF ApplyFeatureState
  <2> QED  BY <1>6, <2>1, <2>2, <2>3, <2>4 DEF WriterStep
<1>7. ASSUME NEW x \in Transitions, TransitionStep(x)
      PROVE  CloseIsFinal'
  BY <1>7 DEF TransitionStep, EnableProactive, TakeFeatureLock, Reconcile,
     EnsureScheduler, DisableProactive, StopScheduler, SchedulerDrained,
     CancelOrWait, SignalAndJoin, SignalProactive, ChangeVision, CancelActive,
     TransitionEnds, Joined, EndJoin, ForgetFinished
<1>8. ASSUME NEW u \in Users, UserStep(u)
      PROVE  CloseIsFinal'
  BY <1>8 DEF UserStep, BeginTurn, BeginUserTurn, SignalProactive, TurnJoined,
     Joined, EndJoin, ForgetFinished, TurnBegins, EndTurn, EndUserTurn
<1> QED  BY <1>1, <1>2, <1>3, <1>4, <1>5, <1>6, <1>7, <1>8 DEF Next

LEMMA SchedulerIsCorrectedStep ==
  ASSUME TypeOK, RuntimeInv, [Next]_vars
  PROVE  SchedulerIsCorrected'
<1> USE DEF RuntimeInv
<1>1. CASE UNCHANGED vars
  BY <1>1, CorrectionKept DEF vars
<1>2. CASE StartRuntime \/ SchedulerStep
  <2>1. CASE StartRuntime
    BY <2>1 DEF StartRuntime, EnsureScheduler, CallsFollowStart, CloseIsFinal,
                SchedulerIsCorrected, TypeOK
  <2>2. CASE SchedulerWakes
    BY <2>2, CorrectionKept DEF SchedulerWakes
  <2>3. CASE SchedulerSubmits
    BY <2>3, CorrectionKept DEF SchedulerSubmits
  <2>4. CASE SchedulerEnds
    (* Somebody stops the scheduler: the close, or a change of the flag.    *)
    <3>1. PICK x \in FeatureSteps : pc[x] = "drain"
      BY <2>4 DEF SchedulerEnds, SchedulerIsStopped
    <3>2. CASE x = Closer
      BY <2>4, <3>1, <3>2 DEF SchedulerEnds, CloseIsFinal, SchedulerIsCorrected
    <3>3. CASE x \in Transitions
      <4>1. Unapplied(x[1])'
        BY <2>4, <3>1, <3>3, TransitionNames
           DEF SchedulerEnds, SchedulerIsStopped, Unapplied, Idle
      <4> QED  BY <2>4, <3>3, <4>1, TransitionNames DEF SchedulerEnds,
         SchedulerIsCorrected
    <3> QED  BY <3>2, <3>3 DEF FeatureSteps
  <2> QED  BY <1>2, <2>1, <2>2, <2>3, <2>4 DEF SchedulerStep
<1>3. CASE CloserStep
  <2>1. closing'
    BY <1>3 DEF CloserStep, Close, CloseStopsScheduler, CloseLifecycle, CloseJoined,
                CloseEnds, TakeFeatureLock, Joined, CloseIsFinal
  <2> QED  BY <2>1 DEF SchedulerIsCorrected
<1>4. ASSUME NEW u \in Publishers, PublisherStep(u)
      PROVE  SchedulerIsCorrected'
  <2>1. \A y \in Transitions : pc'[y] = pc[y]
    BY <1>4 DEF PublisherStep, Observe, Publish, PublishEnds, SignalAndJoin, EndJoin,
                TypeOK, Procs
  <2>2. UNCHANGED <<flag, request, thread, started, closing, sched>>
    BY <1>4 DEF PublisherStep, Observe, Publish, PublishEnds, Show
  <2> QED  BY <2>1, <2>2, CorrectionKept
<1>5. ASSUME NEW p \in Intents, IntentStep(p)
      PROVE  SchedulerIsCorrected'
  <2>1. UNCHANGED <<flag, request, thread, started, closing, sched, pc>>
    BY <1>5 DEF IntentStep, Submit, RunnerStarts, RunnerEnds, RunnerCancelled
  <2> QED  BY <2>1, CorrectionKept
<1>6. ASSUME NEW w \in Writers, WriterStep(w)
      PROVE  SchedulerIsCorrected'
  <2>1. ASSUME NEW name \in Features, NEW enabled \in BOOLEAN, NEW waits \in Waiting,
               SetFlag(w, name, enabled, waits)
        PROVE  SchedulerIsCorrected'
    <3>1. /\ thread[w] = "off" /\ thread' = [thread EXCEPT ![w] = "set"]
          /\ flag' = [flag EXCEPT ![name] = enabled]
          /\ request' = [request EXCEPT ![w] = [name |-> name, enabled |-> enabled,
                                                waits |-> waits]]
          /\ UNCHANGED <<started, closing, sched, pc>>
      BY <2>1 DEF SetFlag
    <3>2. /\ thread'[w] = "set" /\ request'[w].name = name
          /\ request'[w].enabled = enabled
      BY <3>1 DEF TypeOK
    <3>3. CASE name = "proactive"
      <4>1. flag'["proactive"] = enabled
        BY <3>1, <3>3 DEF TypeOK
      <4>2. Unapplied(w)' /\ (~enabled => Undoing(w)')
        BY <3>2, <3>3 DEF Unapplied, Undoing
      <4> QED  BY <4>1, <4>2 DEF SchedulerIsCorrected
    <3>4. CASE name # "proactive"
      <4>1. flag'["proactive"] = flag["proactive"]
        BY <3>1, <3>4 DEF TypeOK
      <4>2. ~Unapplied(w) /\ ~Undoing(w)
        BY <3>1 DEF CallsFollowStart, Unapplied, Undoing, Idle
      <4>3. ASSUME NEW v \in Writers
            PROVE  (Unapplied(v) => Unapplied(v)') /\ (Undoing(v) => Undoing(v)')
        <5>1. CASE v = w
          BY <4>2, <5>1
        <5>2. CASE v # w
          <6>1. request'[v] = request[v] /\ thread'[v] = thread[v]
            BY <3>1, <5>2 DEF TypeOK
          <6> QED  BY <3>1, <6>1 DEF Unapplied, Undoing, Idle
        <5> QED  BY <5>1, <5>2
      <4> QED  BY <3>1, <4>1, <4>3 DEF SchedulerIsCorrected
    <3> QED  BY <3>3, <3>4
  <2>2. CASE Notify(w)
    <3>1. /\ thread[w] = "set" /\ thread' = [thread EXCEPT ![w] = "told"]
          /\ UNCHANGED <<flag, request, started, closing, sched>>
      BY <2>2 DEF Notify
    <3>2. CASE started /\ ~closing
      <4>1. pc'[Listener(w)] = "callback"
        BY <2>2, <3>2, NotifyCalls
      <4>2. ASSUME NEW v \in Writers
            PROVE  (Unapplied(v) => Unapplied(v)') /\ (Undoing(v) => Undoing(v)')
        <5>1. CASE v = w
          BY <3>1, <4>1, <5>1 DEF Unapplied, Undoing, Idle
        <5>2. CASE v # w
          <6>1. /\ pc'[Listener(v)] = pc[Listener(v)] /\ pc'[Barrier(v)] = pc[Barrier(v)]
            <7>1. /\ Listener(v) \in Procs \ {Listener(w), Barrier(w)}
                  /\ Barrier(v) \in Procs \ {Listener(w), Barrier(w)}
              BY <5>2, TransitionNames DEF Procs
            <7> QED  BY <2>2, <7>1, NotifyCalls
          <6>2. thread'[v] = thread[v]
            BY <3>1, <5>2 DEF TypeOK
          <6> QED  BY <3>1, <6>1, <6>2 DEF Unapplied, Undoing, Idle
        <5> QED  BY <5>1, <5>2
      <4> QED  BY <3>1, <4>2 DEF SchedulerIsCorrected
    <3> QED  BY <3>1, <3>2 DEF SchedulerIsCorrected
  <2>3. CASE Callback(w)
    <3> DEFINE x == Listener(w)
    <3>1. /\ x \in Transitions /\ pc[x] = "callback" /\ x[1] = w
          /\ pc' = [pc EXCEPT ![x] = IF closing THEN "done" ELSE "lock"]
          /\ UNCHANGED <<flag, request, thread, started, closing, sched>>
      BY <2>3, TransitionNames DEF Callback
    <3> HIDE DEF x
    <3>2. /\ \A y \in Transitions : y # x => pc'[y] = pc[y]
          /\ pc'[x] = IF closing THEN "done" ELSE "lock"
      BY <3>1 DEF TypeOK, Procs
    <3>3. CASE closing
      BY <3>1, <3>3 DEF SchedulerIsCorrected
    <3>4. CASE ~closing
      <4>1. \A v \in Writers : (Unapplied(v) => Unapplied(v)') /\ (Undoing(v) => Undoing(v)')
        BY <3>1, <3>2, <3>4, ChangesKept DEF Idle
      <4> QED  BY <3>1, <4>1 DEF SchedulerIsCorrected
    <3> QED  BY <3>3, <3>4
  <2>4. CASE ApplyFeatureState(w)
    <3> DEFINE x == Barrier(w)
    <3>1. /\ x \in Transitions /\ pc[x] = "ready"
          /\ pc' = [pc EXCEPT ![x] = "lock"]
          /\ UNCHANGED <<flag, request, thread, started, closing, sched>>
      BY <2>4, TransitionNames DEF ApplyFeatureState
    <3> HIDE DEF x
    <3>2. /\ \A y \in Transitions : y # x => pc'[y] = pc[y]
          /\ pc'[x] = "lock"
      BY <3>1 DEF TypeOK, Procs
    <3>3. \A v \in Writers : (Unapplied(v) => Unapplied(v)') /\ (Undoing(v) => Undoing(v)')
      BY <3>1, <3>2, ChangesKept DEF Idle
    <3> QED  BY <3>1, <3>3 DEF SchedulerIsCorrected
  <2> QED  BY <1>6, <2>1, <2>2, <2>3, <2>4 DEF WriterStep
<1>7. ASSUME NEW x \in Transitions, TransitionStep(x)
      PROVE  SchedulerIsCorrected'
  <2>1. /\ UNCHANGED <<flag, request, thread, started, closing>>
        /\ \A y \in Transitions : y # x => pc'[y] = pc[y]
    <3>1. \A y \in Transitions : y # x => pc'[y] = pc[y]
      BY <1>7 DEF TransitionStep, EnableProactive, DisableProactive, SchedulerDrained,
           ChangeVision, CancelActive, TransitionEnds, CancelOrWait, SignalAndJoin,
           EndJoin, TypeOK, Procs
    <3>2. UNCHANGED <<flag, request, thread, started, closing>>
      BY <1>7 DEF TransitionStep, EnableProactive, DisableProactive, SchedulerDrained,
           ChangeVision, CancelActive, TransitionEnds
    <3> QED  BY <3>1, <3>2
  <2>2. \A v \in Writers : v # x[1] => /\ Unapplied(v) => Unapplied(v)'
                                       /\ Undoing(v) => Undoing(v)'
    BY <2>1, ChangesKept
  <2>3. x[1] \in Writers /\ x \in Procs
    BY TransitionNames DEF Procs
  <2>4. CASE EnableProactive(x)
    <3>1. /\ request[x[1]].enabled
          /\ flag["proactive"] /\ ~closing => sched' # "off"
          /\ ~flag["proactive"] => sched' = sched
      BY <2>4 DEF EnableProactive, Reconcile, EnsureScheduler, CloseIsFinal
    <3>2. \A v \in Writers : Undoing(v) => v # x[1]
      BY <3>1 DEF Undoing
    <3> QED  BY <2>1, <2>2, <3>1, <3>2 DEF SchedulerIsCorrected
  <2>5. CASE DisableProactive(x)
    <3>1. pc[x] = "lock" /\ pc'[x] = "drain" /\ sched' = sched
      BY <2>3, <2>5 DEF DisableProactive, TakeFeatureLock, StopScheduler, TypeOK
    <3>2. \A v \in Writers : (Unapplied(v) => Unapplied(v)') /\ (Undoing(v) => Undoing(v)')
      BY <2>1, <3>1, ChangesKept DEF Idle
    <3> QED  BY <2>1, <3>1, <3>2 DEF SchedulerIsCorrected
  <2>6. CASE SchedulerDrained(x)
    <3>1. sched = "off" /\ sched' = "off" /\ pc'[x] \in {"state", "join"}
      BY <2>3, <2>6 DEF SchedulerDrained, CancelOrWait, SignalAndJoin, TypeOK
    <3>2. \A v \in Writers : Unapplied(v) => Unapplied(v)'
      BY <2>1, <3>1, ChangesKept DEF Idle
    <3> QED  BY <2>1, <3>1, <3>2 DEF SchedulerIsCorrected
  <2>7. CASE ChangeVision(x)
    <3>1. request[x[1]].name = "vision" /\ sched' = sched
      BY <2>7 DEF ChangeVision
    <3>2. \A v \in Writers : Unapplied(v) \/ Undoing(v) => v # x[1]
      BY <3>1 DEF Unapplied, Undoing
    <3> QED  BY <2>1, <2>2, <3>1, <3>2 DEF SchedulerIsCorrected
  <2>8. CASE CancelActive(x)
    <3>1. pc[x] = "state" /\ pc'[x] = "join" /\ sched' = sched
      BY <2>3, <2>8 DEF CancelActive, SignalAndJoin, TypeOK
    <3>2. \A v \in Writers : (Unapplied(v) => Unapplied(v)') /\ (Undoing(v) => Undoing(v)')
      BY <2>1, <3>1, ChangesKept DEF Idle
    <3> QED  BY <2>1, <3>1, <3>2 DEF SchedulerIsCorrected
  <2>9. CASE TransitionEnds(x)
    <3>1. CASE request[x[1]].name = "proactive"
      <4>1. pc[x] = "join" /\ sched = "off"
        BY <2>9, <3>1 DEF TransitionEnds, Joined, SchedulerIsStopped
      <4>2. IF ~closing /\ flag["proactive"] THEN sched' # "off" ELSE sched' = "off"
        BY <2>9, <3>1, <4>1
           DEF TransitionEnds, Reconcile, EnsureScheduler, CloseIsFinal
      <4> QED  BY <2>1, <4>2 DEF SchedulerIsCorrected
    <3>2. CASE request[x[1]].name # "proactive"
      <4>1. \A v \in Writers : Unapplied(v) \/ Undoing(v) => v # x[1]
        BY <3>2 DEF Unapplied, Undoing
      <4>2. sched' = sched
        BY <2>9, <3>2 DEF TransitionEnds
      <4> QED  BY <2>1, <2>2, <4>1, <4>2 DEF SchedulerIsCorrected
    <3> QED  BY <3>1, <3>2
  <2> QED  BY <1>7, <2>4, <2>5, <2>6, <2>7, <2>8, <2>9 DEF TransitionStep
<1>8. ASSUME NEW u \in Users, UserStep(u)
      PROVE  SchedulerIsCorrected'
  <2>1. \A y \in Transitions : pc'[y] = pc[y]
    BY <1>8 DEF UserStep, BeginTurn, TurnJoined, TurnBegins, EndTurn, EndJoin,
                TypeOK, Procs
  <2>2. UNCHANGED <<flag, request, thread, started, closing, sched>>
    BY <1>8 DEF UserStep, BeginTurn, TurnJoined, TurnBegins, EndTurn
  <2> QED  BY <2>1, <2>2, CorrectionKept
<1> QED  BY <1>1, <1>2, <1>3, <1>4, <1>5, <1>6, <1>7, <1>8 DEF Next

LEMMA RuntimeInit == Init => RuntimeInv
<1> SUFFICES ASSUME Init PROVE RuntimeInv
  OBVIOUS
<1>1. /\ \A p \in Intents : ~Live(p)
      /\ \A x \in Procs : pc[x] = "off"
      /\ \A w \in Writers : ~request[w].waits
      /\ started = FALSE /\ closing = FALSE /\ lcClosed = FALSE
      /\ sched = "off" /\ schedThrow = FALSE
      /\ stateLock = NoTurn /\ featureLock = NoTurn
  BY DEF Init, LifecycleInit, Live, Turns
<1>2. LiveIsKnown /\ JoinsWhatLives
  BY <1>1 DEF LiveIsKnown, JoinsWhatLives
<1>3. LocksAreHeld
  BY <1>1 DEF LocksAreHeld, FeatureSteps, Procs
<1>4. CallsFollowStart
  BY <1>1, TransitionNames DEF CallsFollowStart, FeatureSteps, Idle, Procs
<1>5. SchedulerIsStopped /\ SchedulerIsCorrected
  BY <1>1 DEF SchedulerIsStopped, SchedulerIsCorrected, Procs
<1>6. CloseIsFinal
  BY <1>1 DEF CloseIsFinal, Procs
<1> QED  BY <1>2, <1>3, <1>4, <1>5, <1>6 DEF RuntimeInv

LEMMA RuntimeNext == TypeOK /\ RuntimeInv /\ [Next]_vars => RuntimeInv'
<1> SUFFICES ASSUME TypeOK, RuntimeInv, [Next]_vars PROVE RuntimeInv'
  OBVIOUS
<1>1. LiveIsKnown' /\ JoinsWhatLives' /\ LocksAreHeld' /\ CallsFollowStart'
  BY LiveIsKnownStep, JoinsWhatLivesStep, LocksAreHeldStep, CallsFollowStartStep
<1>2. SchedulerIsStopped' /\ SchedulerIsCorrected' /\ CloseIsFinal'
  BY SchedulerIsStoppedStep, SchedulerIsCorrectedStep, CloseIsFinalStep
<1> QED  BY <1>1, <1>2 DEF RuntimeInv

(* The locks, the scheduler and the close keep in step (runtime.py:186-197, *)
(* 246-263, 341-353).                                                      *)
THEOREM RuntimeInvCorrect == Spec => []RuntimeInv
BY TypeCorrect, RuntimeInit, RuntimeNext, PTL DEF Spec

(* After close nothing of the runtime is alive (runtime.py:341-353). *)
THEOREM ClosedIsQuietCorrect == Spec => []ClosedIsQuiet
<1>1. RuntimeInv => ClosedIsQuiet
  BY DEF RuntimeInv, CloseIsFinal, ClosedIsQuiet
<1> QED  BY <1>1, RuntimeInvCorrect, PTL

(* Between changes the scheduler runs exactly when the flag is on           *)
(* (runtime.py:109, 249, 255).                                             *)
THEOREM SchedulerFollowsFlagCorrect == Spec => []SchedulerFollowsFlag
<1>1. ASSUME TypeOK, RuntimeInv
      PROVE  SchedulerFollowsFlag
  <2> SUFFICES ASSUME Quiescent PROVE sched # "off" <=> flag["proactive"]
    BY DEF SchedulerFollowsFlag
  <2>1. \A w \in Writers : ~Unapplied(w)
    BY DEF Quiescent, Unapplied, Idle
  <2>2. \A w \in Writers : ~Undoing(w)
    BY DEF Quiescent, Undoing
  <2> QED  BY <1>1, <2>1, <2>2 DEF Quiescent, RuntimeInv, SchedulerIsCorrected, TypeOK
<1> QED  BY <1>1, TypeCorrect, RuntimeInvCorrect, PTL

(* When the task of a proactive turn is joined it is not alive any more,    *)
(* nor is any other (lifecycle.py:176).                                    *)
LEMMA JoinedIsSilent ==
  ASSUME RuntimeInv, NEW x \in Joiners, Joined(x), UNCHANGED task
  PROVE  \A p \in Intents : ~Live(p) /\ ~Live(p)'
BY DEF RuntimeInv, JoinsWhatLives, Joined, Live

(* A PATCH returns by three ways: it had nothing to cancel when it switched *)
(* vision off, it has joined, or it switched a flag on.                    *)
LEMMA ReturnsByStep ==
  ASSUME TypeOK, RuntimeInv, Next, NEW w \in Writers, Returns(w),
         ~request[w].enabled
  PROVE  ChangeVision(Barrier(w)) \/ TransitionEnds(Barrier(w))
<1> DEFINE x == Barrier(w)
<1>1. x \in Procs /\ x \in Transitions /\ x[1] = w /\ x # Closer
      /\ x \notin Publishers /\ x \notin Users
  BY TransitionNames DEF Procs
<1>2. pc[x] \notin {"off", "done"} /\ pc'[x] = "done"
  BY DEF Returns
<1>3. \A v \in Writers : Listener(v) # x /\ (v # w => Barrier(v) # x)
  BY DEF Listener, Barrier
<1> HIDE DEF x
<1>4. ~(StartRuntime \/ SchedulerStep)
  BY <1>2 DEF StartRuntime, SchedulerStep, SchedulerWakes, SchedulerSubmits, SchedulerEnds
<1>5. ~CloserStep
  BY <1>1, <1>2 DEF CloserStep, Close, CloseStopsScheduler, CloseLifecycle, CloseJoined,
                    CloseEnds, EndJoin, TypeOK
<1>6. ASSUME NEW u \in Publishers
      PROVE  ~PublisherStep(u)
  BY <1>1, <1>2 DEF PublisherStep, Observe, Publish, PublishEnds, SignalAndJoin, EndJoin,
                    TypeOK
<1>7. ASSUME NEW p \in Intents
      PROVE  ~IntentStep(p)
  BY <1>2 DEF IntentStep, Submit, RunnerStarts, RunnerEnds, RunnerCancelled
<1>8. ASSUME NEW v \in Writers
      PROVE  ~WriterStep(v)
  <2>1. \A name, enabled, waits : ~SetFlag(v, name, enabled, waits)
    BY <1>2 DEF SetFlag
  <2>2. ~Notify(v)
    <3>1. SUFFICES ASSUME Notify(v) PROVE FALSE
      OBVIOUS
    <3>2. x # Barrier(v)
      BY <1>2, <3>1, NotifyCalls DEF RuntimeInv
    <3> QED  BY <1>1, <1>2, <1>3, <3>1, <3>2, NotifyCalls DEF RuntimeInv
  <2>3. ~Callback(v)
    BY <1>1, <1>2, <1>3 DEF Callback, TypeOK
  <2>4. ~ApplyFeatureState(v)
    BY <1>1, <1>2, <1>3 DEF ApplyFeatureState, TypeOK
  <2> QED  BY <2>1, <2>2, <2>3, <2>4 DEF WriterStep
<1>9. ASSUME NEW u \in Users
      PROVE  ~UserStep(u)
  BY <1>1, <1>2 DEF UserStep, BeginTurn, TurnJoined, TurnBegins, EndTurn, EndJoin, TypeOK
<1>10. PICK y \in Transitions : TransitionStep(y)
  BY <1>4, <1>5, <1>6, <1>7, <1>8, <1>9 DEF Next
<1>11. y = x
  BY <1>1, <1>2, <1>10
     DEF TransitionStep, EnableProactive, DisableProactive, SchedulerDrained,
        ChangeVision,
         CancelActive, TransitionEnds, CancelOrWait, SignalAndJoin, EndJoin, TypeOK
<1>12. ~EnableProactive(x)
  BY <1>1 DEF EnableProactive
<1>13. ~(DisableProactive(x) \/ SchedulerDrained(x) \/ CancelActive(x))
  BY <1>1, <1>2 DEF DisableProactive, SchedulerDrained, CancelActive, CancelOrWait,
                    SignalAndJoin, TypeOK
<1> QED  BY <1>10, <1>11, <1>12, <1>13 DEF TransitionStep, x

(* A PATCH that switches a flag off returns when what the flag admitted is  *)
(* gone (runtime.py:199-205, 252-263).                                     *)
THEOREM BarrierIsSilentCorrect == Spec => BarrierIsSilent
<1> DEFINE Silent(w) ==
      Returns(w) /\ ~request[w].enabled =>
        IF request[w].name = "proactive"
        THEN /\ \A p \in Intents : ~Live(p)'
             /\ flag["proactive"]' \/ sched' = "off"
        ELSE \A p \in Intents : trigger[p] = "visual" => ~Live(p)'
<1>1. ASSUME TypeOK, RuntimeInv, [Next]_vars, NEW w \in Writers
      PROVE  Silent(w)
  <2>1. SUFFICES ASSUME Returns(w), ~request[w].enabled
        PROVE  IF request[w].name = "proactive"
               THEN /\ \A p \in Intents : ~Live(p)'
                    /\ flag["proactive"]' \/ sched' = "off"
               ELSE \A p \in Intents : trigger[p] = "visual" => ~Live(p)'
    OBVIOUS
  <2>2. Next
    BY <1>1, <2>1 DEF vars, Returns
  <2>3. CASE ChangeVision(Barrier(w))
    <3>1. /\ Barrier(w) \in Procs /\ Barrier(w)[1] = w
          /\ pc'[Barrier(w)] = "done"
      BY <2>1, TransitionNames DEF Returns, Procs
    <3>2. request[w].name = "vision" /\ ~VisualActive /\ task' = task
      BY <1>1, <2>1, <2>3, <3>1 DEF ChangeVision, CancelOrWait, SignalAndJoin, TypeOK
    <3> QED  BY <1>1, <3>2 DEF VisualActive, RuntimeInv, LiveIsKnown, Live
  <2>4. CASE TransitionEnds(Barrier(w))
    <3>1. Barrier(w) \in Transitions /\ Barrier(w)[1] = w
      BY TransitionNames
    <3>2. Joined(Barrier(w)) /\ task' = task /\ flag' = flag
      BY <2>4 DEF TransitionEnds, EndJoin
    <3>3. \A p \in Intents : ~Live(p)'
      BY <1>1, <3>1, <3>2, JoinedIsSilent DEF Joiners
    <3>4. ASSUME request[w].name = "proactive"
          PROVE  flag["proactive"]' \/ sched' = "off"
      BY <1>1, <2>4, <3>1, <3>2, <3>4
         DEF TransitionEnds, Reconcile, RuntimeInv, SchedulerIsStopped, Joined
    <3> QED  BY <3>3, <3>4
  <2> QED  BY <1>1, <2>1, <2>2, <2>3, <2>4, ReturnsByStep
<1>2. ASSUME TypeOK, RuntimeInv, [Next]_vars
      PROVE  [\A w \in Writers : Silent(w)]_vars
  BY <1>1, <1>2
<1> QED  BY <1>2, TypeCorrect, RuntimeInvCorrect, PTL DEF Spec, BarrierIsSilent

-----------------------------------------------------------------------------
(* The epochs of perception. *)

LEMMA ObservationType ==
  ASSUME TypeOK
  PROVE  /\ None \in Observation
         /\ \A o \in Seen : o \in Observation
         /\ \A o \in Observation : /\ o.generation \in Nat /\ o.at \in Nat
                                   /\ o.sensitive \in BOOLEAN
<1>1. None \in Observation
  BY DEF Observation, None
<1>2. \A o \in Seen : o \in Observation
  BY <1>1 DEF TypeOK, Seen
<1>3. \A o \in Observation : /\ o.generation \in Nat /\ o.at \in Nat
                            /\ o.sensitive \in BOOLEAN
  BY DEF Observation
<1> QED  BY <1>1, <1>2, <1>3

LEMMA PerceptionInit == Init => PerceptionInv
<1> SUFFICES ASSUME Init PROVE PerceptionInv
  OBVIOUS
<1>1. Seen = {None}
  BY DEF Init, Seen
<1>2. None.generation = 0 /\ None.at = 0
  BY DEF None
<1> QED  BY <1>1, <1>2 DEF Init, PerceptionInv

(* An observation takes the current generation and the next stamp.          *)
LEMMA PerceptionObserve ==
  ASSUME TypeOK, PerceptionInv, NEW u \in Publishers, Observe(u)
  PROVE  PerceptionInv'
<1>1. UNCHANGED <<latest, accepting, retired, generation, burnt, warned>>
  BY DEF Observe
<1>2. ASSUME NEW n \in Observation, shown' = [shown EXCEPT ![u] = n],
             \/ n = None /\ stamp' = stamp
             \/ n.generation = generation /\ n.at = stamp' /\ stamp' = stamp + 1
      PROVE  PerceptionInv'
  <2>1. Seen' \subseteq Seen \cup {n}
    BY <1>1, <1>2 DEF Seen, TypeOK
  <2>2. stamp \in Nat /\ stamp' \in Nat /\ stamp <= stamp' /\ generation \in Nat
    BY <1>2 DEF TypeOK
  <2>3. ASSUME NEW o \in Seen
        PROVE  /\ o.generation <= generation /\ o.at <= stamp'
               /\ n = None \/ (o.at < n.at /\ o.generation <= n.generation)
    BY <1>2, <2>2, <2>3, ObservationType DEF PerceptionInv
  <2>4. n = None \/ (n.generation <= generation /\ n.at <= stamp')
    BY <1>2, <2>2
  <2>5. None \in Seen
    BY DEF Seen
  <2>6. \A o \in Seen' : o.generation <= generation /\ o.at <= stamp'
    BY <2>1, <2>3, <2>4, <2>5
  <2>7. ASSUME NEW o \in Seen \cup {n}, NEW q \in Seen \cup {n}
        PROVE  /\ o.generation < q.generation => o.at < q.at
               /\ o.at = q.at => o = q
    <3>1. CASE o \in Seen /\ q \in Seen
      BY <3>1 DEF PerceptionInv
    <3>2. CASE n # None /\ o = n /\ q \in Seen
      BY <2>3, <3>2, <1>2, ObservationType
    <3>3. CASE n # None /\ q = n /\ o \in Seen
      BY <2>3, <3>3, <1>2, ObservationType
    <3>4. CASE o = n /\ q = n
      BY <1>2, <3>4, ObservationType
    <3> QED  BY <2>5, <3>1, <3>2, <3>3, <3>4
  <2> QED  BY <1>1, <2>1, <2>6, <2>7 DEF PerceptionInv, Valid
<1>3. CASE shown' = [shown EXCEPT ![u] = None] /\ stamp' = stamp
  BY <1>2, <1>3, ObservationType
<1>4. ASSUME NEW sensitive \in BOOLEAN, stamp' = stamp + 1,
             shown' = [shown EXCEPT ![u] = [generation |-> generation, at |-> stamp',
                                            sensitive |-> sensitive]]
      PROVE  PerceptionInv'
  <2> DEFINE n == [generation |-> generation, at |-> stamp', sensitive |-> sensitive]
  <2>1. n \in Observation /\ n.generation = generation /\ n.at = stamp'
    BY <1>4 DEF TypeOK, Observation
  <2> HIDE DEF n
  <2>2. shown' = [shown EXCEPT ![u] = n]
    BY <1>4 DEF n
  <2> QED  BY <1>2, <1>4, <2>1, <2>2
<1> QED  BY <1>3, <1>4 DEF Observe

(* An accepted observation is not older than the latest one, and a          *)
(* sensitive one that is refused is older than the latest.                 *)
LEMMA PerceptionPublish ==
  ASSUME TypeOK, PerceptionInv, NEW u \in Publishers, Publish(u)
  PROVE  PerceptionInv'
<1> DEFINE o == shown[u]
<1>1. o \in Seen /\ Show(o)
  BY DEF Publish, Seen
<1> HIDE DEF o
<1>2. UNCHANGED <<shown, generation, stamp, accepting, retired, burnt>>
  BY <1>1 DEF Show
<1>3. /\ warned \in Nat
      /\ o \in Observation /\ o.generation \in Nat /\ o.at \in Nat
      /\ latest \in Observation /\ latest.generation \in Nat /\ latest.at \in Nat
      /\ retired \in Nat /\ latest \in Seen
  BY <1>1, ObservationType DEF TypeOK, Seen
<1>4. latest' \in {None, latest, o}
  BY <1>1 DEF Show, Accept
<1>5. Seen' \subseteq Seen
  BY <1>1, <1>2, <1>4 DEF Seen
<1>6. /\ o.generation < latest.generation => o.at < latest.at
      /\ latest.generation < o.generation => latest.at < o.at
      /\ o.at = latest.at => o = latest
  BY <1>1, <1>3 DEF PerceptionInv
<1>7. ASSUME warned' # 0
      PROVE  /\ latest' # None /\ Valid(latest)' /\ latest'.at >= warned'
             /\ latest'.sensitive \/ latest'.at > warned'
  <2>1. o # None
    BY <1>1, <1>7 DEF Show
  <2>2. CASE ~flag["vision"]
    BY <1>1, <1>2, <1>7, <2>1, <2>2 DEF Show, PerceptionInv, Valid
  <2>3. CASE flag["vision"] /\ Valid(o) /\ ~(latest # None /\ Older(o, latest))
    <3>1. latest' = o /\ (warned' = IF o.sensitive THEN Larger(o.at, warned) ELSE warned)
      BY <1>1, <2>1, <2>3 DEF Show, Accept
    <3>2. accepting' /\ o.generation > retired'
      BY <1>2, <2>3 DEF Valid
    <3>3. warned # 0 => o.at >= latest.at /\ latest.at >= warned
      BY <1>3, <1>6, <2>3 DEF PerceptionInv, Older
    <3>4. o.at >= warned
      BY <1>3, <3>3
    <3>5. ~o.sensitive => o.at > warned
      BY <1>3, <1>6, <1>7, <3>1, <3>3 DEF PerceptionInv
    <3> QED  BY <1>3, <2>1, <3>1, <3>2, <3>4, <3>5 DEF Larger, Valid
  <2>4. CASE flag["vision"] /\ Valid(o) /\ latest # None /\ Older(o, latest)
    <3>1. latest' = latest /\ (warned' = IF o.sensitive THEN Larger(o.at, warned) ELSE warned)
      BY <1>1, <2>1, <2>4 DEF Show, Accept
    <3>2. o.at < latest.at /\ o.generation <= latest.generation
      BY <1>3, <1>6, <2>4 DEF Older
    <3>3. Valid(latest)'
      BY <1>2, <1>3, <2>4, <3>1, <3>2 DEF Valid
    <3>4. warned # 0 => latest.at >= warned /\ (latest.sensitive \/ latest.at > warned)
      BY DEF PerceptionInv
    <3> QED  BY <1>3, <1>7, <2>4, <3>1, <3>2, <3>3, <3>4 DEF Larger
  <2>5. CASE flag["vision"] /\ ~Valid(o)
    BY <1>1, <1>2, <1>7, <2>1, <2>5 DEF Show, Accept, PerceptionInv, Valid
  <2> QED  BY <2>2, <2>3, <2>4, <2>5
<1> QED  BY <1>2, <1>5, <1>7 DEF PerceptionInv

(* A revocation retires what was published and forgets the warning.         *)
LEMMA PerceptionEpoch ==
  ASSUME TypeOK, PerceptionInv, NEW enabled \in BOOLEAN, SetEpoch(enabled),
         UNCHANGED <<latest, shown, stamp>>, generation' \in {generation, generation + 1}
  PROVE  PerceptionInv'
<1>1. /\ generation \in Nat /\ retired \in Nat /\ highest \in Nat /\ burnt \in Nat
      /\ \A o \in Seen : o.generation \in Nat
  BY ObservationType DEF TypeOK
<1>2. Seen' = Seen
  BY DEF Seen
<1>3. burnt' <= retired'
  BY <1>1 DEF SetEpoch, Larger, PerceptionInv
<1>4. generation' >= 1 /\ \A o \in Seen : o.generation <= generation' /\ o.at <= stamp'
  BY <1>1 DEF PerceptionInv
<1>5. warned' # 0 => /\ warned' = warned /\ (Valid(latest) => Valid(latest)')
  BY DEF SetEpoch, Valid
<1> QED  BY <1>2, <1>3, <1>4, <1>5 DEF PerceptionInv

LEMMA PerceptionKept ==
  ASSUME PerceptionInv,
         UNCHANGED <<latest, shown, generation, stamp, accepting, retired, burnt, warned>>
  PROVE  PerceptionInv'
BY DEF PerceptionInv, Seen, Valid

LEMMA PerceptionNext == TypeOK /\ PerceptionInv /\ [Next]_vars => PerceptionInv'
<1> SUFFICES ASSUME TypeOK, PerceptionInv, [Next]_vars PROVE PerceptionInv'
  OBVIOUS
<1>1. CASE UNCHANGED vars
  BY <1>1, PerceptionKept DEF vars
<1>2. CASE StartRuntime \/ SchedulerStep
  BY <1>2, PerceptionKept
     DEF StartRuntime, SchedulerStep, SchedulerWakes, SchedulerSubmits, SchedulerEnds,
        Start
<1>3. CASE CloserStep
  BY <1>3, PerceptionKept
     DEF CloserStep, Close, CloseStopsScheduler, CloseLifecycle, CloseJoined, CloseEnds
<1>4. ASSUME NEW u \in Publishers, PublisherStep(u)
      PROVE  PerceptionInv'
  <2>1. CASE PublishEnds(u)
    BY <2>1, PerceptionKept DEF PublishEnds
  <2> QED  BY <1>4, <2>1, PerceptionObserve, PerceptionPublish DEF PublisherStep
<1>5. ASSUME NEW p \in Intents, IntentStep(p)
      PROVE  PerceptionInv'
  BY <1>5, PerceptionKept
     DEF IntentStep, Submit, Start, RunnerStarts, RunnerEnds, RunnerCancelled
<1>6. ASSUME NEW w \in Writers, WriterStep(w)
      PROVE  PerceptionInv'
  <2>0. request[w].enabled \in BOOLEAN
    BY DEF TypeOK
  <2>1. ASSUME NEW name \in Features, NEW enabled \in BOOLEAN, NEW waits \in Waiting,
               SetFlag(w, name, enabled, waits)
        PROVE  PerceptionInv'
    BY <2>1, PerceptionKept DEF SetFlag
  <2>2. CASE Notify(w)
    <3>1. CASE request[w].name = "vision"
      BY <2>0, <2>2, <3>1, PerceptionEpoch DEF Notify
    <3>2. CASE request[w].name # "vision"
      BY <2>2, <3>2, PerceptionKept DEF Notify
    <3> QED  BY <3>1, <3>2
  <2>3. CASE Callback(w)
    BY <2>3, PerceptionKept DEF Callback
  <2>4. CASE ApplyFeatureState(w)
    <3>1. CASE request[w].name = "vision"
      BY <2>0, <2>4, <3>1, PerceptionEpoch DEF ApplyFeatureState
    <3>2. CASE request[w].name # "vision"
      BY <2>4, <3>2, PerceptionKept DEF ApplyFeatureState
    <3> QED  BY <3>1, <3>2
  <2> QED  BY <1>6, <2>1, <2>2, <2>3, <2>4 DEF WriterStep
<1>7. ASSUME NEW x \in Transitions, TransitionStep(x)
      PROVE  PerceptionInv'
  <2>1. CASE ChangeVision(x)
    <3>1. /\ UNCHANGED <<shown, generation, stamp, accepting, retired, burnt, warned>>
          /\ latest' = latest \/ (latest' = None /\ latest.generation <= retired)
      BY <2>1 DEF ChangeVision
    <3>2. CASE latest' = latest
      BY <3>1, <3>2, PerceptionKept
    <3>3. CASE latest' = None /\ latest.generation <= retired
      <4>1. Seen' \subseteq Seen
        BY <3>1, <3>3 DEF Seen
      <4>2. warned' = 0
        <5>1. ~(latest.generation > retired)
          BY <3>3, ObservationType DEF TypeOK, Seen
        <5> QED  BY <3>1, <5>1 DEF PerceptionInv, Valid
      <4> QED  BY <3>1, <4>1, <4>2 DEF PerceptionInv
    <3> QED  BY <3>1, <3>2, <3>3
  <2>2. CASE EnableProactive(x) \/ DisableProactive(x) \/ SchedulerDrained(x)
             \/ CancelActive(x) \/ TransitionEnds(x)
    BY <2>2, PerceptionKept
       DEF EnableProactive, DisableProactive, SchedulerDrained, CancelActive,
          TransitionEnds
  <2> QED  BY <1>7, <2>1, <2>2 DEF TransitionStep
<1>8. ASSUME NEW u \in Users, UserStep(u)
      PROVE  PerceptionInv'
  BY <1>8, PerceptionKept DEF UserStep, BeginTurn, TurnJoined, TurnBegins, EndTurn
<1> QED  BY <1>1, <1>2, <1>3, <1>4, <1>5, <1>6, <1>7, <1>8 DEF Next

(* Observations and warnings keep their order (runtime.py:368-407). *)
THEOREM PerceptionInvCorrect == Spec => []PerceptionInv
BY TypeCorrect, PerceptionInit, PerceptionNext, PTL DEF Spec

(* What was published before a revocation is not used after it              *)
(* (runtime.py:399).                                                       *)
THEOREM ReplayIsRejectedCorrect == Spec => []ReplayIsRejected
<1>1. ASSUME TypeOK, PerceptionInv
      PROVE  ReplayIsRejected
  <2>1. /\ burnt \in Nat /\ retired \in Nat /\ latest.generation \in Nat
        /\ burnt <= retired
    BY <1>1, ObservationType DEF TypeOK, PerceptionInv, Observation
  <2> QED  BY <2>1 DEF ReplayIsRejected, Current, Valid
<1> QED  BY <1>1, TypeCorrect, PerceptionInvCorrect, PTL

(* A sensitive screen silences (runtime.py:193-197, 368-385). *)
THEOREM SensitiveIsQuietCorrect == Spec => SensitiveIsQuiet
<1> DEFINE Starting(p) == StartsTurn(p) => warned = 0 \/ latest.at > warned
           Published(u) == pc[u] = "join" /\ pc[u]' = "off" =>
                             \A p \in Intents : ~Live(p)'
<1>1. ASSUME TypeOK, PerceptionInv, [Next]_vars
      PROVE  [\A p \in Intents : Starting(p)]_vars
  <2>1. SUFFICES ASSUME NEW p \in Intents, StartsTurn(p), warned # 0
        PROVE  latest.at > warned
    OBVIOUS
  <2>2. ASSUME NEW q \in Intents, NEW kind, Start(q, kind)
        PROVE  latest.at > warned
    <3>1. ~Current.sensitive
      BY <2>2 DEF Start, Allowed
    <3>2. latest # None /\ Valid(latest)
      BY <1>1, <2>1 DEF PerceptionInv
    <3>3. Current = latest
      BY <3>2 DEF Current
    <3> QED  BY <1>1, <2>1, <3>1, <3>3 DEF PerceptionInv
  <2>3. p \in Turns /\ task \in [Turns -> TaskStates] /\ task[p] = "none"
        /\ task'[p] = "ready"
    BY <1>1, <2>1 DEF TypeOK, LifecycleTypeOK, Turns, StartsTurn
  <2>4. CASE UNCHANGED vars
    BY <2>3, <2>4 DEF vars
  <2>5. CASE StartRuntime \/ SchedulerStep
    BY <2>2, <2>3, <2>5
       DEF StartRuntime, SchedulerStep, SchedulerWakes, SchedulerSubmits, SchedulerEnds
  <2>6. CASE CloserStep
    BY <2>3, <2>6
       DEF CloserStep, Close, CloseStopsScheduler, CloseLifecycle, CloseJoined, CloseEnds,
           EndJoin
  <2>7. ASSUME NEW u \in Publishers, PublisherStep(u)
        PROVE  FALSE
    BY <2>3, <2>7
       DEF PublisherStep, Observe, Publish, PublishEnds, SignalAndJoin, EndJoin
  <2>8. ASSUME NEW q \in Intents, IntentStep(q)
        PROVE  latest.at > warned
    BY <2>2, <2>3, <2>8
       DEF IntentStep, Submit, RunnerStarts, RunnerEnds, RunnerCancelled, CancelUnstarted,
           DeliverCancel
  <2>9. ASSUME NEW w \in Writers, WriterStep(w)
        PROVE  FALSE
    BY <2>3, <2>9 DEF WriterStep, SetFlag, Notify, Callback, ApplyFeatureState
  <2>10. ASSUME NEW x \in Transitions, TransitionStep(x)
         PROVE  FALSE
    BY <2>3, <2>10
       DEF TransitionStep, EnableProactive, DisableProactive, SchedulerDrained,
           ChangeVision, CancelActive, TransitionEnds, CancelOrWait, SignalAndJoin, EndJoin
  <2>11. ASSUME NEW u \in Users, UserStep(u)
         PROVE  FALSE
    BY <2>3, <2>11 DEF UserStep, BeginTurn, TurnJoined, TurnBegins, EndTurn, EndJoin
  <2> QED
    BY <1>1, <2>4, <2>5, <2>6, <2>7, <2>8, <2>9, <2>10, <2>11 DEF Next, CloserStep,
       Close, CloseStopsScheduler, CloseLifecycle, CloseJoined, CloseEnds, EndJoin
<1>2. ASSUME TypeOK, RuntimeInv, [Next]_vars, NEW u \in Publishers
      PROVE  Published(u)
  <2>1. SUFFICES ASSUME pc[u] = "join", pc[u]' = "off"
        PROVE  \A p \in Intents : ~Live(p)'
    OBVIOUS
  <2>2. /\ u \in Procs /\ u # Closer /\ u \notin Transitions /\ u \notin Users
        /\ pc'[u] # pc[u]
    BY <2>1 DEF Procs
  <2>3. PublishEnds(u)
    <3>1. ~UNCHANGED vars /\ ~(StartRuntime \/ SchedulerStep)
      BY <2>2 DEF vars, StartRuntime, SchedulerStep, SchedulerWakes, SchedulerSubmits,
                  SchedulerEnds
    <3>2. ~CloserStep
      BY <1>2, <2>2 DEF CloserStep, Close, CloseStopsScheduler, CloseLifecycle,
                        CloseJoined, CloseEnds, EndJoin, TypeOK
    <3>3. ASSUME NEW p \in Intents
          PROVE  ~IntentStep(p)
      BY <2>2 DEF IntentStep, Submit, RunnerStarts, RunnerEnds, RunnerCancelled
    <3>4. ASSUME NEW w \in Writers
          PROVE  ~WriterStep(w)
      BY <1>2, <2>2, TransitionNames
         DEF WriterStep, SetFlag, Notify, Callback, ApplyFeatureState, TypeOK
    <3>5. ASSUME NEW x \in Transitions
          PROVE  ~TransitionStep(x)
      BY <1>2, <2>2 DEF TransitionStep, EnableProactive, DisableProactive,
         SchedulerDrained, ChangeVision, CancelActive, TransitionEnds, CancelOrWait,
         SignalAndJoin, EndJoin, TypeOK
    <3>6. ASSUME NEW v \in Users
          PROVE  ~UserStep(v)
      BY <1>2, <2>2 DEF UserStep, BeginTurn, TurnJoined, TurnBegins, EndTurn, EndJoin,
                        TypeOK
    <3>7. PICK v \in Publishers : PublisherStep(v)
      BY <1>2, <3>1, <3>2, <3>3, <3>4, <3>5, <3>6 DEF Next
    <3>8. v = u
      BY <1>2, <2>2, <3>7 DEF PublisherStep, Observe, Publish, PublishEnds,
                              SignalAndJoin, EndJoin, TypeOK
    <3> QED  BY <2>1, <3>7, <3>8 DEF PublisherStep, Observe, Publish
  <2> QED  BY <1>2, <2>3, JoinedIsSilent DEF PublishEnds, EndJoin, Joiners
<1>3. ASSUME TypeOK, RuntimeInv, [Next]_vars
      PROVE  [\A u \in Publishers : Published(u)]_vars
  BY <1>2, <1>3
<1> QED
  BY <1>1, <1>3, TypeCorrect, RuntimeInvCorrect, PerceptionInvCorrect, PTL
     DEF Spec, SensitiveIsQuiet

=============================================================================
