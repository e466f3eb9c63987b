-------------------------- MODULE TurnServiceProofs --------------------------
(* Theorems about TurnService, for every set of turns, sessions and callers. *)
EXTENDS TurnService, TLAPS

USE TurnsAssumption, ServiceAssumption

-----------------------------------------------------------------------------
(* What the operators on the registry and on the lifecycle return. *)

RegistryTypeOK ==
  /\ status \in [Turns -> Statuses]
  /\ sessionTurn \in [Sessions -> Turns \cup {NoTurn}]
  /\ active \in Turns \cup {NoTurn}
  /\ signalled \in [Turns -> BOOLEAN]
  /\ announced \in [Turns -> Seq(Terminal)]
  /\ token \in [Turns -> BOOLEAN]
  /\ throw \in [Turns -> BOOLEAN]

LEMMA TypeOfRegistry == TypeOK => RegistryTypeOK
BY DEF TypeOK, LifecycleTypeOK, RegistryTypeOK

LEMMA ClearActiveType ==
  ASSUME TypeOK, NEW t, ClearActive(t)
  PROVE  /\ active' \in Turns \cup {NoTurn}
         /\ sessionTurn' \in [Sessions -> Turns \cup {NoTurn}]
BY DEF TypeOK, ClearActive

LEMMA TerminateType ==
  ASSUME TypeOK, NEW t, Terminate(t)
  PROVE  RegistryTypeOK'
<1>1. /\ active' \in Turns \cup {NoTurn}
      /\ sessionTurn' \in [Sessions -> Turns \cup {NoTurn}]
  BY ClearActiveType DEF Terminate
<1>2. announced' \in [Turns -> Seq(Terminal)]
  <2>1. CASE t \in Turns
    BY <2>1 DEF TypeOK, Terminate, Terminal
  <2>2. CASE t \notin Turns
    BY <2>2 DEF TypeOK, Terminate
  <2> QED  BY <2>1, <2>2
<1> QED  BY <1>1, <1>2 DEF TypeOK, LifecycleTypeOK, RegistryTypeOK, Terminate, Statuses, Terminal

LEMMA SignalActiveType ==
  ASSUME TypeOK, SignalActive
  PROVE  RegistryTypeOK'
<1>1. CASE NothingActive /\ ClearActive(active)
           /\ UNCHANGED <<status, signalled, announced, token, throw>>
  BY <1>1, ClearActiveType, TypeOfRegistry DEF RegistryTypeOK
<1>2. CASE ~NothingActive /\ Terminate(active)
  BY <1>2, TerminateType DEF NothingActive, TypeOK
<1>3. CASE /\ ~NothingActive
           /\ CancelActiveTask
           /\ UNCHANGED <<status, sessionTurn, active, announced>>
  BY <1>3, TypeOfRegistry DEF RegistryTypeOK, CancelActiveTask
<1> QED  BY <1>1, <1>2, <1>3 DEF SignalActive

LEMMA CancelRegisteredType ==
  ASSUME TypeOK, NEW t, CancelRegistered(t)
  PROVE  RegistryTypeOK'
BY SignalActiveType, TerminateType, TypeOfRegistry DEF CancelRegistered, RegistryTypeOK, turnVars

LEMMA ToJoinType ==
  ASSUME TypeOK, NEW t
  PROVE  /\ ToJoin \in Turns \cup {NoTurn}
         /\ RegisteredToJoin(t) \in Turns \cup {NoTurn}
BY DEF TypeOK, ToJoin, RegisteredToJoin

LEMMA RegisterAsType ==
  ASSUME TypeOK, NEW t \in Turns, NEW st \in {"accepted", "streaming"}, RegisterAs(t, st)
  PROVE  /\ status' \in [Turns -> Statuses]
         /\ sessionTurn' \in [Sessions -> Turns \cup {NoTurn}]
         /\ active' \in Turns \cup {NoTurn}
         /\ signalled' \in [Turns -> BOOLEAN]
         /\ announced' \in [Turns -> Seq(Terminal)]
BY DEF TypeOK, RegisterAs, Statuses

LEMMA SignalProactiveType ==
  ASSUME TypeOK, SignalProactive
  PROVE  /\ token' \in [Turns -> BOOLEAN]
         /\ throw' \in [Turns -> BOOLEAN]
         /\ lcSignalled' \in BOOLEAN
<1>1. CASE UNCHANGED <<throw, token, lcSignalled>>
  BY <1>1 DEF TypeOK, LifecycleTypeOK
<1>2. CASE /\ token' = [token EXCEPT ![lcTask] = TRUE]
           /\ throw' = [throw EXCEPT ![lcTask] = @ \/ Live(lcTask)]
           /\ lcSignalled' = Live(lcTask)
  <2>1. Live(lcTask) \in BOOLEAN
    BY DEF Live
  <2>2. token' \in [Turns -> BOOLEAN]
    BY <1>2 DEF TypeOK, LifecycleTypeOK
  <2>3. throw' \in [Turns -> BOOLEAN]
    BY <1>2 DEF TypeOK, LifecycleTypeOK
  <2> QED  BY <1>2, <2>1, <2>2, <2>3
<1> QED  BY <1>1, <1>2 DEF SignalProactive

LEMMA ForgetType ==
  ASSUME TypeOK, NEW t, ForgetFinished(t) \/ ForgetSelf(t)
  PROVE  /\ lcTask' \in Intents \cup {NoTurn}
         /\ lcSignalled' \in BOOLEAN
BY DEF TypeOK, LifecycleTypeOK, ForgetFinished, ForgetSelf

-----------------------------------------------------------------------------
LEMMA TypeInit == Init => TypeOK
<1>1. Init => LifecycleTypeOK
  <2>1. LifecycleInit => /\ throw \in [Turns -> BOOLEAN]
                         /\ interrupted \in [Turns -> BOOLEAN]
                         /\ token \in [Turns -> BOOLEAN]
    BY Zenon DEF LifecycleInit
  <2>2. LifecycleInit => task \in [Turns -> TaskStates]
    BY DEF LifecycleInit, TaskStates
  <2> QED  BY <2>1, <2>2 DEF Init, LifecycleInit, LifecycleTypeOK
<1>2. Init => signalled \in [Turns -> BOOLEAN]
  BY ZenonT(30) DEF Init
<1>3. Init => announced \in [Turns -> Seq(Terminal)]
  BY DEF Init
<1>4. Init => status \in [Turns -> Statuses]
  BY DEF Init, Statuses
<1>5. Init => /\ acc \in [Users -> AccStates]
              /\ spc \in StopStates
  BY DEF Init, AccStates, StopStates
<1>6. Init => /\ sessionTurn \in [Sessions -> Turns \cup {NoTurn}]
              /\ joining \in [Users -> Turns \cup {NoTurn}]
              /\ itgt \in [Interrupters -> Turns \cup {NoTurn}]
  BY DEF Init
<1>7. Init => /\ post \in [Turns -> {"none", "pending", "done"}]
              /\ ipc \in [Interrupters -> {"idle", "wantCancel", "join", "joinProactive"}]
  BY DEF Init
<1>8. Init => /\ active \in Turns \cup {NoTurn}
              /\ callerCancels \in Nat
              /\ drain \in SUBSET Turns
  BY DEF Init
<1>9. Init => closed \in BOOLEAN
  BY Zenon DEF Init
<1> QED  BY <1>1, <1>2, <1>3, <1>4, <1>5, <1>6, <1>7, <1>8, <1>9 DEF TypeOK

(* Steps of the callers of accept. *)
LEMMA TypeAccept ==
  ASSUME TypeOK, NEW u \in Users, Enter(u) \/ AcceptStep(u) \/ CancelCaller(u)
  PROVE  TypeOK'
<1> USE DEF callerVars, interruptVars, stopVars, taskVars, lifecycleVars, turnVars
<1>1. CASE Enter(u)
  BY <1>1 DEF Enter, TypeOK, LifecycleTypeOK, AccStates
<1>2. CASE BeginPriority(u)
  BY <1>2, SignalProactiveType
     DEF BeginPriority, BeginUserTurn, TypeOK, LifecycleTypeOK, AccStates, Turns
<1>3. CASE JoinedProactive(u)
  BY <1>3, ForgetType DEF JoinedProactive, TypeOK, LifecycleTypeOK, AccStates
<1>4. CASE Preempt(u)
  <2>1. RegistryTypeOK'
    BY <1>4, SignalActiveType DEF Preempt
  <2>2. joining' \in [Users -> Turns \cup {NoTurn}]
    BY <1>4 DEF Preempt, ToJoin, TypeOK
  <2> QED  BY <1>4, <2>1, <2>2 DEF Preempt, TypeOK, LifecycleTypeOK, AccStates, RegistryTypeOK
<1>5. CASE Register(u)
  BY <1>5, RegisterAsType DEF Register, TypeOK, LifecycleTypeOK, AccStates, Turns
<1>6. CASE RegisterRefused(u)
  BY <1>6 DEF RegisterRefused, EndUserTurn, TypeOK, LifecycleTypeOK, AccStates
<1>7. CASE StartPipeline(u)
  BY <1>7 DEF StartPipeline, TypeOK, LifecycleTypeOK, AccStates, TaskStates
<1>8. CASE DoNotStart(u)
  BY <1>8 DEF DoNotStart, TypeOK, LifecycleTypeOK, AccStates
<1>9. CASE Started(u)
  BY <1>9 DEF Started, TypeOK, LifecycleTypeOK, AccStates
<1>10. CASE ReturnUnstarted(u)
  BY <1>10, ClearActiveType DEF ReturnUnstarted, EndUserTurn, TypeOK, LifecycleTypeOK, AccStates
<1>11. CASE Unwind(u)
  <2>1. RegistryTypeOK'
    BY <1>11, CancelRegisteredType DEF Unwind, Turns
  <2>2. joining' \in [Users -> Turns \cup {NoTurn}]
    BY <1>11, ToJoinType DEF Unwind, TypeOK, Turns
  <2> QED  BY <1>11, <2>1, <2>2 DEF Unwind, TypeOK, LifecycleTypeOK, AccStates, RegistryTypeOK
<1>12. CASE Unwound(u)
  BY <1>12 DEF Unwound, EndUserTurn, TypeOK, LifecycleTypeOK, AccStates
<1>13. CASE CallerEnds(u)
  BY <1>13 DEF CallerEnds, TypeOK, LifecycleTypeOK, AccStates
<1>14. CASE CancelCaller(u)
  <2>1. leases' \in SUBSET Users
    BY <1>14 DEF CancelCaller, EndUserTurn, TypeOK, LifecycleTypeOK
  <2>2. acc' \in [Users -> AccStates]
    BY <1>14, ZenonT(60) DEF CancelCaller, TypeOK, AccStates
  <2>3. callerCancels' \in Nat
    BY <1>14 DEF CancelCaller, TypeOK
  <2> QED  BY <1>14, <2>1, <2>2, <2>3 DEF CancelCaller, TypeOK, LifecycleTypeOK
<1> QED  BY <1>1, <1>2, <1>3, <1>4, <1>5, <1>6, <1>7, <1>8, <1>9, <1>10, <1>11,
            <1>12, <1>13, <1>14 DEF AcceptStep

(* Steps of pipeline tasks, of their arbiter and of finalizers. *)
LEMMA TypePipeline ==
  ASSUME TypeOK, NEW t \in Turns,
         \/ PipelineStart(t) \/ PipelineResult(t) \/ TaskStep(t)
         \/ t \in Intents /\ SubmitIntent(t)
         \/ t \in Users /\ Finalize(t)
  PROVE  TypeOK'
<1> USE DEF callerVars, interruptVars, stopVars, taskVars, lifecycleVars, turnVars
<1>1. CASE t \in Users /\ RunUser(t)
  BY <1>1 DEF RunUser, TypeOK, LifecycleTypeOK, TaskStates, Statuses
<1>2. CASE t \in Intents /\ RunProactive(t)
  BY <1>2, RegisterAsType DEF RunProactive, TypeOK, LifecycleTypeOK, TaskStates
<1>3. CASE t \in Intents /\ RejectProactive(t)
  BY <1>3, ForgetType DEF RejectProactive, TypeOK, LifecycleTypeOK, TaskStates
<1>4. ASSUME NEW result \in Terminal, PipelineEnds(t, result)
      PROVE  TypeOK'
  <2>1. EndStatus(t, result) \in Terminal
    BY <1>4 DEF EndStatus, Terminal
  <2>2. /\ status' \in [Turns -> Statuses]
        /\ announced' \in [Turns -> Seq(Terminal)]
    BY <1>4, <2>1 DEF PipelineEnds, TypeOK, Statuses
  <2>3. post' \in [Turns -> {"none", "pending", "done"}]
    BY <1>4 DEF PipelineEnds, TypeOK
  <2> QED  BY <1>4, <2>2, <2>3, ForgetType, ClearActiveType
           DEF PipelineEnds, TypeOK, LifecycleTypeOK, TaskStates
<1>5. CASE CancelUnstarted(t) /\ UNCHANGED <<turnVars, closed, post, callerVars, interruptVars, stopVars>>
  BY <1>5, ForgetType DEF CancelUnstarted, TypeOK, LifecycleTypeOK, TaskStates
<1>6. CASE DeliverCancel(t) /\ UNCHANGED <<turnVars, closed, post, callerVars, interruptVars, stopVars>>
  BY <1>6 DEF DeliverCancel, TypeOK, LifecycleTypeOK, TaskStates
<1>7. CASE t \in Intents /\ SubmitIntent(t)
  BY <1>7 DEF SubmitIntent, TryStart, TypeOK, LifecycleTypeOK, TaskStates
<1>8. CASE t \in Users /\ Finalize(t)
  BY <1>8 DEF Finalize, TypeOK, LifecycleTypeOK, Terminal
<1> QED  BY <1>1, <1>2, <1>3, <1>4, <1>5, <1>6, <1>7, <1>8
         DEF PipelineStart, PipelineResult, TaskStep

(* Steps of the callers of cancel and cancel_active. *)
LEMMA TypeInterrupt ==
  ASSUME TypeOK, NEW i \in Interrupters,
         Interrupt(i) \/ CancelProactive(i) \/ InterruptStep(i)
  PROVE  TypeOK'
<1> USE DEF callerVars, interruptVars, stopVars, taskVars, lifecycleVars, turnVars
<1>1. CASE Interrupt(i)
  BY <1>1 DEF Interrupt, TypeOK, LifecycleTypeOK
<1>2. CASE CancelTurn(i)
  <2>1. RegistryTypeOK'
    BY <1>2, CancelRegisteredType DEF CancelTurn
  <2>2. itgt' \in [Interrupters -> Turns \cup {NoTurn}]
    BY <1>2, ToJoinType DEF CancelTurn, TypeOK
  <2> QED  BY <1>2, <2>1, <2>2 DEF CancelTurn, TypeOK, LifecycleTypeOK, RegistryTypeOK
<1>3. CASE CancelReturns(i)
  BY <1>3 DEF CancelReturns, TypeOK, LifecycleTypeOK
<1>4. CASE CancelProactive(i)
  BY <1>4, SignalProactiveType DEF CancelProactive, TypeOK, LifecycleTypeOK, Turns
<1>5. CASE ProactiveCancelled(i)
  BY <1>5, ForgetType DEF ProactiveCancelled, TypeOK, LifecycleTypeOK
<1> QED  BY <1>1, <1>2, <1>3, <1>4, <1>5 DEF InterruptStep

(* Steps of the shutdown. *)
LEMMA TypeStop ==
  ASSUME TypeOK, CloseProactive \/ StopStep
  PROVE  TypeOK'
<1> USE DEF callerVars, interruptVars, stopVars, taskVars, lifecycleVars, turnVars
<1>1. CASE CloseProactive
  BY <1>1, SignalProactiveType DEF CloseProactive, TypeOK, LifecycleTypeOK, StopStates, Turns
<1>2. CASE ProactiveClosed
  BY <1>2, ForgetType DEF ProactiveClosed, TypeOK, LifecycleTypeOK, StopStates
<1>3. CASE Shutdown
  <2>1. RegistryTypeOK'
    BY <1>3, SignalActiveType DEF Shutdown
  <2> QED  BY <1>3, <2>1 DEF Shutdown, TypeOK, LifecycleTypeOK, StopStates, RegistryTypeOK, Turns
<1>4. CASE AcceptsDrained
  BY <1>4 DEF AcceptsDrained, TypeOK, LifecycleTypeOK, StopStates
<1>5. CASE PipelinesDrained
  BY <1>5 DEF PipelinesDrained, TypeOK, LifecycleTypeOK, StopStates, Turns
<1>6. CASE Stopped
  BY <1>6 DEF Stopped, TypeOK, LifecycleTypeOK, StopStates
<1> QED  BY <1>1, <1>2, <1>3, <1>4, <1>5, <1>6 DEF StopStep

LEMMA TypeStep == TypeOK /\ [Next]_vars => TypeOK'
<1> SUFFICES ASSUME TypeOK, [Next]_vars PROVE TypeOK'
  OBVIOUS
<1>1. CASE UNCHANGED vars
  BY <1>1 DEF vars, TypeOK, LifecycleTypeOK, callerVars, interruptVars, stopVars,
              taskVars, lifecycleVars, turnVars
<1>2. CASE Next
  BY <1>2, TypeAccept, TypePipeline, TypeInterrupt, TypeStop DEF Next, Turns
<1> QED  BY <1>1, <1>2

(* Every variable keeps its type, for any number of turns and callers. *)
THEOREM TypeCorrect == Spec => []TypeOK
BY TypeInit, TypeStep, PTL DEF Spec

-----------------------------------------------------------------------------
(* The arbitration invariant.  What the two signalling operators do to it:  *)
(* they throw only into live tasks, and the arbiter signals the task that   *)
(* lives.                                                                   *)

LEMMA SignalActiveTarget ==
  ASSUME TypeOK, ArbitrationInv, SignalActive, UNCHANGED task
  PROVE  PendingHasTarget'
<1>1. \A t \in Turns : throw'[t] => throw[t] \/ (t = active /\ Live(active))
  BY DEF SignalActive, CancelActiveTask, Terminate, TypeOK, LifecycleTypeOK
<1>2. \A t \in Turns : Live(t) => Live(t)'
  BY DEF Live
<1> QED  BY <1>1, <1>2 DEF ArbitrationInv, PendingHasTarget

LEMMA CancelRegisteredTarget ==
  ASSUME TypeOK, ArbitrationInv, NEW t, CancelRegistered(t), UNCHANGED task
  PROVE  PendingHasTarget'
<1>1. CASE UNCHANGED throw
  BY <1>1 DEF ArbitrationInv, PendingHasTarget, Live
<1> QED  BY <1>1, SignalActiveTarget DEF CancelRegistered, Terminate

LEMMA SignalProactiveTarget ==
  ASSUME TypeOK, ArbitrationInv, SignalProactive, UNCHANGED <<task, lcTask>>
  PROVE  /\ PendingHasTarget'
         /\ \A p \in Intents :
              Live(p) => /\ lcTask = p
                         /\ lcSignalled'
                         /\ throw'[p] \/ task[p] = "cleanup"
<1>1. \A p \in Intents : Live(p) => lcTask = p /\ p # NoTurn /\ p \in Turns
  BY DEF ArbitrationInv, ArbiterKnows, Turns
<1>2. CASE lcSignalled \/ lcTask = NoTurn
  <2>1. UNCHANGED <<throw, token, lcSignalled>>
    BY <1>2 DEF SignalProactive
  <2> QED  BY <1>1, <1>2, <2>1
           DEF ArbitrationInv, ArbiterKnows, PendingHasTarget, Live
<1>3. CASE ~(lcSignalled \/ lcTask = NoTurn)
  <2>1. /\ throw' = [throw EXCEPT ![lcTask] = @ \/ Live(lcTask)]
        /\ lcSignalled' = Live(lcTask)
    BY <1>3 DEF SignalProactive
  <2>2. \A t \in Turns : throw'[t] <=> throw[t] \/ (t = lcTask /\ Live(t))
    BY <2>1 DEF TypeOK, LifecycleTypeOK
  <2>3. PendingHasTarget'
    BY <2>2 DEF ArbitrationInv, PendingHasTarget, Live
  <2> QED  BY <1>1, <2>1, <2>2, <2>3
<1> QED  BY <1>2, <1>3

LEMMA ArbitrationInit == Init => ArbitrationInv
<1> SUFFICES ASSUME Init PROVE ArbitrationInv
  OBVIOUS
<1>1. /\ \A t \in Turns : task[t] = "none" /\ status[t] = "unregistered"
      /\ \A u \in Users : acc[u] = "idle"
      /\ active = NoTurn /\ leases = {}
  BY DEF Init, LifecycleInit
<1>2. \A t \in Turns : throw[t] = FALSE
  BY Zenon DEF Init, LifecycleInit
<1>3. \A t \in Turns : ~Live(t) /\ ~InPipeline(t)
  BY <1>1 DEF Live, InPipeline
<1>4. \A u \in Users : acc[u] \notin HoldsAcceptLock
  BY <1>1 DEF HoldsAcceptLock
<1> QED  BY <1>1, <1>2, <1>3, <1>4
         DEF ArbitrationInv, OutputExclusive, ProactiveYields, AcceptMutex, ArbiterKnows,
             CallerProgress, NotYetRunning, PendingHasTarget, ActiveIsOpen, Turns

LEMMA ArbitrationAccept ==
  ASSUME TypeOK, ArbitrationInv, NEW u \in Users,
         Enter(u) \/ AcceptStep(u) \/ CancelCaller(u)
  PROVE  ArbitrationInv'
<1> USE DEF callerVars, interruptVars, stopVars, taskVars, lifecycleVars, turnVars,
           ArbitrationInv, OutputExclusive, ProactiveYields, AcceptMutex, ArbiterKnows, CallerProgress,
           NotYetRunning, PendingHasTarget, ActiveIsOpen,
           InPipeline, Open, Live, BeforeTask, BeforeRegistration, HoldsAcceptLock,
           Terminal, Turns, TypeOK, LifecycleTypeOK, AccStates, TaskStates
<1>1. CASE Enter(u)
  BY <1>1, SMTT(30) DEF Enter
<1>2. CASE BeginPriority(u)
  <2>1. UNCHANGED <<task, status, active, lcTask>> /\ leases' = leases \cup {u}
    BY <1>2 DEF BeginPriority, BeginUserTurn
  <2>2. PendingHasTarget' /\ ArbiterKnows'
    BY <1>2, <2>1, SignalProactiveTarget DEF BeginPriority, BeginUserTurn
  <2>3. AcceptMutex'
    BY <1>2 DEF BeginPriority, AcceptFree
  <2>4. CallerProgress'
    BY <1>2, <2>1 DEF BeginPriority
  <2>5. NotYetRunning'
    BY <1>2, <2>1, SMTT(30) DEF BeginPriority, BeginUserTurn, SignalProactive
  <2>6. OutputExclusive' /\ ActiveIsOpen'
    BY <2>1
  <2>7. ProactiveYields'
    BY <1>2, <2>1 DEF BeginPriority
  <2> QED  BY <2>2, <2>3, <2>4, <2>5, <2>6, <2>7
<1>3. CASE JoinedProactive(u)
  BY <1>3, SMTT(30) DEF JoinedProactive, ForgetFinished, Finished
<1>4. CASE Preempt(u)
  <2> USE <1>4 DEF Preempt, SignalActive, CancelActiveTask, NothingActive, ToJoin, Terminate, ClearActive, CoordFree
  <2>1. OutputExclusive' /\ ActiveIsOpen'
    OBVIOUS
  <2>2. ProactiveYields' /\ AcceptMutex' /\ ArbiterKnows'
    OBVIOUS
  <2>3. CallerProgress'
    OBVIOUS
  <2>4. NotYetRunning'
    OBVIOUS
  <2>5. PendingHasTarget'
    BY SignalActiveTarget
  <2> QED  BY <2>1, <2>2, <2>3, <2>4, <2>5
<1>5. CASE Register(u)
  BY <1>5, SMTT(30) DEF Register, RegisterAs, Finished, CoordFree
<1>6. CASE RegisterRefused(u)
  BY <1>6, SMTT(30) DEF RegisterRefused, EndUserTurn
<1>7. CASE StartPipeline(u)
  BY <1>7, SMTT(30) DEF StartPipeline, MayStart, CoordFree
<1>8. CASE DoNotStart(u)
  BY <1>8, SMTT(30) DEF DoNotStart
<1>9. CASE Started(u)
  BY <1>9, SMTT(30) DEF Started
<1>10. CASE ReturnUnstarted(u)
  BY <1>10, SMTT(30) DEF ReturnUnstarted, ClearActive, EndUserTurn, CoordFree
<1>11. CASE Unwind(u)
  <2> USE <1>11 DEF Unwind, CancelRegistered, SignalActive, CancelActiveTask, NothingActive, Terminate,
                    ClearActive, CoordFree
  <2>1. OutputExclusive' /\ ActiveIsOpen'
    OBVIOUS
  <2>2. ProactiveYields' /\ AcceptMutex' /\ ArbiterKnows'
    OBVIOUS
  <2>3. CallerProgress'
    OBVIOUS
  <2>4. NotYetRunning'
    OBVIOUS
  <2>5. PendingHasTarget'
    BY CancelRegisteredTarget, ZenonT(60)
  <2> QED  BY <2>1, <2>2, <2>3, <2>4, <2>5
<1>12. CASE Unwound(u)
  BY <1>12, SMTT(30) DEF Unwound, EndUserTurn
<1>13. CASE CallerEnds(u)
  BY <1>13, SMTT(30) DEF CallerEnds
<1>14. CASE CancelCaller(u)
  <2>1. /\ UNCHANGED <<task, throw, status, active, joining, lcTask, lcSignalled>>
        /\ acc[u] \notin {"idle", "returned", "done"}
        /\ acc[u] = "starting" => task[u] # "ready"
        /\ acc' = [acc EXCEPT ![u] = IF acc[u] \in {"observing", "starting", "wantClear"}
                                     THEN "wantUnwind" ELSE "returned"]
        /\ leases' = IF acc[u] \in {"observing", "starting", "wantClear"}
                     THEN leases ELSE leases \ {u}
    BY <1>14 DEF CancelCaller, EndUserTurn
  <2>2. OutputExclusive' /\ ActiveIsOpen' /\ PendingHasTarget' /\ ArbiterKnows'
    BY <2>1
  <2>3. ProactiveYields'
    <3> SUFFICES ASSUME NEW v \in Users, v \in leases', acc'[v] # "joinProactive",
                        NEW p \in Intents
                 PROVE  ~Live(p)'
      BY <2>1
    <3>1. v \in leases /\ acc[v] # "joinProactive"
      BY <2>1
    <3> QED  BY <2>1, <3>1
  <2>4. AcceptMutex' /\ CallerProgress' /\ NotYetRunning'
    BY <2>1
  <2> QED  BY <2>2, <2>3, <2>4
<1> QED  BY <1>1, <1>2, <1>3, <1>4, <1>5, <1>6, <1>7, <1>8, <1>9, <1>10, <1>11,
            <1>12, <1>13, <1>14 DEF AcceptStep

LEMMA ArbitrationPipeline ==
  ASSUME TypeOK, ArbitrationInv, NEW t \in Turns,
         \/ PipelineStart(t) \/ PipelineResult(t) \/ TaskStep(t)
         \/ t \in Intents /\ SubmitIntent(t)
         \/ t \in Users /\ Finalize(t)
  PROVE  ArbitrationInv'
<1> USE DEF callerVars, interruptVars, stopVars, taskVars, lifecycleVars, turnVars,
           ArbitrationInv, OutputExclusive, ProactiveYields, AcceptMutex, ArbiterKnows, CallerProgress,
           NotYetRunning, PendingHasTarget, ActiveIsOpen,
           InPipeline, Open, Live, BeforeTask, BeforeRegistration, HoldsAcceptLock,
           Terminal, Turns, TypeOK, LifecycleTypeOK, AccStates, TaskStates
<1>1. CASE t \in Users /\ RunUser(t)
  BY <1>1, SMTT(30) DEF RunUser
<1>2. CASE t \in Intents /\ RunProactive(t)
  BY <1>2, SMTT(30) DEF RunProactive, RegisterAs, CoordFree
<1>3. CASE t \in Intents /\ RejectProactive(t)
  BY <1>3, SMTT(30) DEF RejectProactive, ForgetSelf
<1>4. CASE PipelineResult(t)
  BY <1>4, SMTT(30) DEF PipelineResult, PipelineEnds, ClearActive, ForgetSelf
<1>5. CASE TaskStep(t)
  <2>1. UNCHANGED <<leases, status, active, acc, joining>>
    BY <1>5 DEF TaskStep, CancelUnstarted, DeliverCancel
  <2>2. /\ throw[t]
        /\ throw' = [throw EXCEPT ![t] = FALSE]
    BY <1>5 DEF TaskStep, CancelUnstarted, DeliverCancel
  <2>3. CASE CancelUnstarted(t)
    <3>1. task[t] = "ready" /\ task' = [task EXCEPT ![t] = "done"]
      BY <2>3 DEF CancelUnstarted
    <3>2. t \in Intents
      BY <2>2, <3>1
    <3>3. /\ lcTask' = lcTask \/ lcTask = t
          /\ lcSignalled' = lcSignalled \/ lcTask = t
      BY <2>3 DEF CancelUnstarted, ForgetSelf
    <3>4. \A p \in Intents : Live(p)' => p # t /\ Live(p) /\ lcTask = p /\ lcTask # t
      BY <2>2, <3>1, <3>2
    <3>5. ArbiterKnows'
      BY <2>1, <2>2, <3>1, <3>3, <3>4
    <3>6. PendingHasTarget'
      BY <2>2, <3>1
    <3>7. OutputExclusive' /\ ProactiveYields' /\ AcceptMutex'
      BY <2>1, <3>1
    <3>8. CallerProgress'
      BY <2>1, <3>1, <3>2, TurnsAssumption
    <3>9. NotYetRunning' /\ ActiveIsOpen'
      BY <2>1, <2>2, <3>1, <3>2, TurnsAssumption
    <3> QED  BY <3>5, <3>6, <3>7, <3>8, <3>9
  <2>4. CASE DeliverCancel(t)
    <3>1. task[t] \in {"running", "cleanup"} /\ task' = [task EXCEPT ![t] = "cleanup"]
      BY <2>4 DEF DeliverCancel
    <3>2. UNCHANGED <<lcTask, lcSignalled>>
      BY <2>4 DEF DeliverCancel
    <3>3. ArbiterKnows'
      BY <2>1, <2>2, <3>1, <3>2
    <3>4. PendingHasTarget'
      BY <2>2, <3>1
    <3>5. OutputExclusive' /\ ProactiveYields' /\ AcceptMutex'
      BY <2>1, <3>1
    <3>6. CallerProgress'
      BY <2>1, <3>1
    <3>7. NotYetRunning' /\ ActiveIsOpen'
      BY <2>1, <2>2, <3>1
    <3> QED  BY <3>3, <3>4, <3>5, <3>6, <3>7
  <2> QED  BY <1>5, <2>3, <2>4 DEF TaskStep
<1>6. CASE t \in Intents /\ SubmitIntent(t)
  BY <1>6, SMTT(30) DEF SubmitIntent, TryStart, CanStart
<1>7. CASE t \in Users /\ Finalize(t)
  BY <1>7, SMTT(30) DEF Finalize
<1> QED  BY <1>1, <1>2, <1>3, <1>4, <1>5, <1>6, <1>7 DEF PipelineStart

LEMMA ArbitrationInterrupt ==
  ASSUME TypeOK, ArbitrationInv, NEW i \in Interrupters,
         Interrupt(i) \/ CancelProactive(i) \/ InterruptStep(i)
  PROVE  ArbitrationInv'
<1> USE DEF callerVars, interruptVars, stopVars, taskVars, lifecycleVars, turnVars,
           ArbitrationInv, OutputExclusive, ProactiveYields, AcceptMutex, ArbiterKnows, CallerProgress,
           NotYetRunning, PendingHasTarget, ActiveIsOpen,
           InPipeline, Open, Live, BeforeTask, BeforeRegistration, HoldsAcceptLock,
           Terminal, Turns, TypeOK, LifecycleTypeOK, AccStates, TaskStates
<1>1. CASE Interrupt(i)
  BY <1>1, SMTT(30) DEF Interrupt
<1>2. CASE CancelTurn(i)
  <2>1. CancelRegistered(itgt[i]) /\ UNCHANGED task
    BY ONLY <1>2 DEF CancelTurn
  <2>2. PendingHasTarget'
    BY ONLY TypeOK, ArbitrationInv, <2>1, CancelRegisteredTarget
  <2> USE <1>2 DEF CancelTurn, CancelRegistered, SignalActive, CancelActiveTask, NothingActive, Terminate,
                   ClearActive, CoordFree
  <2>3. OutputExclusive' /\ ActiveIsOpen'
    OBVIOUS
  <2>4. ProactiveYields' /\ AcceptMutex' /\ ArbiterKnows'
    OBVIOUS
  <2>5. CallerProgress'
    OBVIOUS
  <2>6. NotYetRunning'
    OBVIOUS
  <2> QED  BY <2>2, <2>3, <2>4, <2>5, <2>6
<1>3. CASE CancelReturns(i)
  BY <1>3, SMTT(30) DEF CancelReturns
<1>4. CASE CancelProactive(i)
  <2>1. UNCHANGED <<task, status, active, acc, joining, lcTask, leases>>
    BY <1>4 DEF CancelProactive
  <2>2. PendingHasTarget' /\ ArbiterKnows'
    BY <1>4, <2>1, SignalProactiveTarget DEF CancelProactive
  <2>3. NotYetRunning'
    BY <1>4, <2>1, SMTT(30) DEF CancelProactive, SignalProactive
  <2>4. /\ OutputExclusive' /\ ActiveIsOpen' /\ ProactiveYields'
        /\ AcceptMutex' /\ CallerProgress'
    BY <2>1
  <2> QED  BY <2>2, <2>3, <2>4
<1>5. CASE ProactiveCancelled(i)
  BY <1>5, SMTT(30) DEF ProactiveCancelled, ForgetFinished, Finished
<1> QED  BY <1>1, <1>2, <1>3, <1>4, <1>5 DEF InterruptStep

LEMMA ArbitrationStop ==
  ASSUME TypeOK, ArbitrationInv, CloseProactive \/ StopStep
  PROVE  ArbitrationInv'
<1> USE DEF callerVars, interruptVars, stopVars, taskVars, lifecycleVars, turnVars,
           ArbitrationInv, OutputExclusive, ProactiveYields, AcceptMutex, ArbiterKnows, CallerProgress,
           NotYetRunning, PendingHasTarget, ActiveIsOpen,
           InPipeline, Open, Live, BeforeTask, BeforeRegistration, HoldsAcceptLock,
           Terminal, Turns, TypeOK, LifecycleTypeOK, AccStates, TaskStates
<1>1. CASE CloseProactive
  <2>1. UNCHANGED <<task, status, active, acc, joining, lcTask, leases>>
    BY <1>1 DEF CloseProactive
  <2>2. PendingHasTarget' /\ ArbiterKnows'
    BY <1>1, <2>1, SignalProactiveTarget DEF CloseProactive
  <2>3. NotYetRunning'
    BY <1>1, <2>1, SMTT(30) DEF CloseProactive, SignalProactive
  <2>4. /\ OutputExclusive' /\ ActiveIsOpen' /\ ProactiveYields'
        /\ AcceptMutex' /\ CallerProgress'
    BY <2>1
  <2> QED  BY <2>2, <2>3, <2>4
<1>2. CASE ProactiveClosed
  BY <1>2, SMTT(30) DEF ProactiveClosed, ForgetFinished, Finished
<1>3. CASE Shutdown
  <2> USE <1>3 DEF Shutdown, SignalActive, CancelActiveTask, NothingActive, Terminate, ClearActive, CoordFree
  <2>1. OutputExclusive' /\ ActiveIsOpen'
    OBVIOUS
  <2>2. ProactiveYields' /\ AcceptMutex' /\ ArbiterKnows'
    OBVIOUS
  <2>3. CallerProgress'
    OBVIOUS
  <2>4. NotYetRunning'
    OBVIOUS
  <2>5. PendingHasTarget'
    BY SignalActiveTarget
  <2> QED  BY <2>1, <2>2, <2>3, <2>4, <2>5
<1>4. CASE AcceptsDrained
  BY <1>4, SMTT(30) DEF AcceptsDrained
<1>5. CASE PipelinesDrained
  BY <1>5, SMTT(30) DEF PipelinesDrained
<1>6. CASE Stopped
  BY <1>6, SMTT(30) DEF Stopped
<1> QED  BY <1>1, <1>2, <1>3, <1>4, <1>5, <1>6 DEF StopStep

LEMMA ArbitrationStep == TypeOK /\ ArbitrationInv /\ [Next]_vars => ArbitrationInv'
<1> SUFFICES ASSUME TypeOK, ArbitrationInv, [Next]_vars PROVE ArbitrationInv'
  OBVIOUS
<1>1. CASE UNCHANGED vars
  BY <1>1 DEF vars, callerVars, interruptVars, stopVars, taskVars, lifecycleVars, turnVars,
              ArbitrationInv, OutputExclusive, ProactiveYields, AcceptMutex, ArbiterKnows,
              CallerProgress, NotYetRunning, PendingHasTarget, ActiveIsOpen,
              InPipeline, Open, Live
<1>2. CASE Next
  BY <1>2, ArbitrationAccept, ArbitrationPipeline, ArbitrationInterrupt, ArbitrationStop
     DEF Next, Turns
<1> QED  BY <1>1, <1>2

(* The arbitration invariant holds of every service. *)
THEOREM ArbitrationCorrect == Spec => []ArbitrationInv
BY ArbitrationInit, ArbitrationStep, TypeCorrect, PTL DEF Spec

(* At most one pipeline produces output at any time, by the locks of the    *)
(* arbitration alone.                                                       *)
THEOREM OutputIsExclusive == Spec => []OutputExclusive
<1>1. ArbitrationInv => OutputExclusive
  BY DEF ArbitrationInv
<1> QED  BY <1>1, ArbitrationCorrect, PTL

(* No proactive task lives beside a user turn that has preempted. *)
THEOREM ProactiveYieldsToUser == Spec => []ProactiveYields
<1>1. ArbitrationInv => ProactiveYields
  BY DEF ArbitrationInv
<1> QED  BY <1>1, ArbitrationCorrect, PTL

-----------------------------------------------------------------------------
(* What a step may never do. *)

LEMMA TerminalStep ==
  TypeOK /\ ArbitrationInv /\ [Next]_vars =>
    \A t \in Turns : status[t] \in Terminal => status'[t] = status[t]
<1> SUFFICES ASSUME TypeOK, ArbitrationInv, [Next]_vars,
                    NEW t \in Turns, status[t] \in Terminal
             PROVE  status'[t] = status[t]
  OBVIOUS
<1>1. /\ ~InPipeline(t)
      /\ active # t
      /\ t \in Users => acc[t] \notin BeforeRegistration /\ task[t] # "ready"
      /\ t \in Intents => task[t] \notin {"none", "ready"}
  BY DEF ArbitrationInv, OutputExclusive, ActiveIsOpen, CallerProgress, NotYetRunning,
         Open, Terminal, Turns
<1>2. ASSUME NEW v, v # t, Terminate(v)  PROVE status'[t] = status[t]
  BY <1>2 DEF Terminate, TypeOK
<1>3. ASSUME SignalActive  PROVE status'[t] = status[t]
  BY <1>1, <1>2, <1>3 DEF SignalActive
<1>4. ASSUME NEW v, CancelRegistered(v)  PROVE status'[t] = status[t]
  <2>1. CASE v = t
    BY <1>4, <2>1 DEF CancelRegistered, Terminal, turnVars
  <2>2. CASE v # t
    BY <1>2, <1>3, <1>4, <2>2 DEF CancelRegistered, turnVars
  <2> QED  BY <2>1, <2>2
<1>5. ASSUME NEW u \in Users, Enter(u) \/ AcceptStep(u) \/ CancelCaller(u) \/ Finalize(u)
      PROVE  status'[t] = status[t]
  <2>1. CASE Register(u)
    BY <1>1, <2>1 DEF Register, RegisterAs, BeforeRegistration, HoldsAcceptLock, TypeOK
  <2>2. CASE Preempt(u)
    BY <1>3, <2>2 DEF Preempt
  <2>3. CASE Unwind(u)
    BY <1>4, <2>3 DEF Unwind
  <2> QED  BY <1>5, <2>1, <2>2, <2>3
           DEF AcceptStep, Enter, BeginPriority, JoinedProactive, RegisterRefused,
               StartPipeline, DoNotStart, Started, ReturnUnstarted, Unwound, CallerEnds,
               CancelCaller, Finalize, turnVars
<1>6. ASSUME NEW v \in Turns, PipelineStart(v) \/ PipelineResult(v) \/ TaskStep(v)
      PROVE  status'[t] = status[t]
  <2>1. CASE v \in Users /\ RunUser(v)
    BY <1>1, <2>1 DEF RunUser, TypeOK
  <2>2. CASE v \in Intents /\ (RunProactive(v) \/ RejectProactive(v))
    BY <1>1, <2>2 DEF RunProactive, RejectProactive, RegisterAs, TypeOK, turnVars
  <2>3. CASE PipelineResult(v)
    BY <1>1, <2>3 DEF PipelineResult, PipelineEnds, InPipeline, TypeOK
  <2> QED  BY <1>6, <2>1, <2>2, <2>3 DEF PipelineStart, TaskStep, turnVars
<1>7. ASSUME NEW i \in Interrupters, Interrupt(i) \/ CancelProactive(i) \/ InterruptStep(i)
      PROVE  status'[t] = status[t]
  BY <1>4, <1>7 DEF InterruptStep, Interrupt, CancelProactive, CancelTurn, CancelReturns,
                    ProactiveCancelled, turnVars
<1>8. ASSUME CloseProactive \/ StopStep  PROVE status'[t] = status[t]
  BY <1>3, <1>8 DEF StopStep, CloseProactive, ProactiveClosed, Shutdown, AcceptsDrained,
                    PipelinesDrained, Stopped, turnVars
<1>9. ASSUME NEW p \in Intents, SubmitIntent(p)  PROVE status'[t] = status[t]
  BY <1>9 DEF SubmitIntent, turnVars
<1> QED  BY <1>5, <1>6, <1>7, <1>8, <1>9 DEF Next, vars, turnVars

(* A completion never overwrites a cancellation, nor the reverse. *)
THEOREM TerminalStatusIsFinal == Spec => TerminalIsFinal
<1>1. TypeOK /\ ArbitrationInv /\ [Next]_vars
        => [\A t \in Turns : status[t] \in Terminal => status'[t] = status[t]]_vars
  BY TerminalStep
<1> QED  BY <1>1, TypeCorrect, ArbitrationCorrect, PTL DEF Spec, TerminalIsFinal

LEMMA HandOverStep ==
  TypeOK /\ ArbitrationInv /\ [Next]_vars =>
    (active' \notin {active, NoTurn} => active = NoTurn /\ ~closed)
<1> SUFFICES ASSUME TypeOK, ArbitrationInv, [Next]_vars, active' \notin {active, NoTurn}
             PROVE  active = NoTurn /\ ~closed
  OBVIOUS
<1>1. ASSUME NEW v, ClearActive(v)  PROVE FALSE
  BY <1>1 DEF ClearActive
<1>2. ASSUME SignalActive  PROVE FALSE
  BY <1>1, <1>2 DEF SignalActive, Terminate
<1>3. ASSUME NEW v, CancelRegistered(v)  PROVE FALSE
  BY <1>1, <1>2, <1>3 DEF CancelRegistered, Terminate, turnVars
<1>4. ASSUME NEW u \in Users, Enter(u) \/ AcceptStep(u) \/ CancelCaller(u) \/ Finalize(u)
      PROVE  active = NoTurn /\ ~closed
  <2>1. CASE Register(u)
    BY <2>1 DEF Register, Finished, ArbitrationInv, CallerProgress
  <2>2. CASE Preempt(u)
    BY <1>2, <2>2 DEF Preempt
  <2>3. CASE Unwind(u)
    BY <1>3, <2>3 DEF Unwind
  <2>4. CASE ReturnUnstarted(u)
    BY <1>1, <2>4 DEF ReturnUnstarted
  <2> QED  BY <1>4, <2>1, <2>2, <2>3, <2>4
           DEF AcceptStep, Enter, BeginPriority, JoinedProactive, RegisterRefused,
               StartPipeline, DoNotStart, Started, Unwound, CallerEnds,
               CancelCaller, Finalize, turnVars
<1>5. ASSUME NEW v \in Turns, PipelineStart(v) \/ PipelineResult(v) \/ TaskStep(v)
      PROVE  active = NoTurn /\ ~closed
  <2>1. CASE PipelineResult(v)
    BY <1>1, <2>1 DEF PipelineResult, PipelineEnds
  <2> QED  BY <1>5, <2>1
           DEF PipelineStart, RunUser, RunProactive, RejectProactive, TaskStep, turnVars
<1>6. ASSUME NEW i \in Interrupters, Interrupt(i) \/ CancelProactive(i) \/ InterruptStep(i)
      PROVE  FALSE
  BY <1>3, <1>6 DEF InterruptStep, Interrupt, CancelProactive, CancelTurn, CancelReturns,
                    ProactiveCancelled, turnVars
<1>7. ASSUME CloseProactive \/ StopStep  PROVE FALSE
  BY <1>2, <1>7 DEF StopStep, CloseProactive, ProactiveClosed, Shutdown, AcceptsDrained,
                    PipelinesDrained, Stopped, turnVars
<1>8. ASSUME NEW p \in Intents, SubmitIntent(p)  PROVE FALSE
  BY <1>8 DEF SubmitIntent, turnVars
<1> QED  BY <1>4, <1>5, <1>6, <1>7, <1>8 DEF Next, vars, turnVars

(* A turn takes the output only when nobody has it and the service is open. *)
THEOREM OutputIsHandedOver == Spec => OutputHandedOver
<1>1. TypeOK /\ ArbitrationInv /\ [Next]_vars
        => [active' \notin {active, NoTurn} => active = NoTurn /\ ~closed]_vars
  BY HandOverStep
<1> QED  BY <1>1, TypeCorrect, ArbitrationCorrect, PTL DEF Spec, OutputHandedOver

-----------------------------------------------------------------------------
(* The cancellation of a registered turn either leaves the registry alone   *)
(* or ends an open turn that has no live task.                              *)

Ends(v) ==
  /\ v \in Turns /\ Open(v) /\ ~Live(v)
  /\ active = v \/ ~HasPipeline
  /\ Terminate(v)

LEMMA AppendToEmpty == ASSUME NEW e PROVE Append(<<>>, e) = <<e>>
OBVIOUS

LEMMA SignalActiveCases ==
  ASSUME TypeOK, ArbitrationInv, SignalActive
  PROVE  UNCHANGED <<status, active, announced>> \/ Ends(active)
<1>1. active # NoTurn => active \in Turns /\ Open(active)
  BY DEF TypeOK, ArbitrationInv, ActiveIsOpen
<1>2. NothingActive => active = NoTurn
  BY <1>1 DEF NothingActive, Open, Terminal
<1>3. CASE ClearActive(active) /\ NothingActive /\ UNCHANGED <<status, announced>>
  BY <1>2, <1>3 DEF ClearActive
<1>4. CASE ~NothingActive /\ ~Live(active) /\ Terminate(active)
  BY <1>1, <1>4 DEF Ends, NothingActive
<1> QED  BY <1>3, <1>4 DEF SignalActive

LEMMA CancelRegisteredCases ==
  ASSUME TypeOK, ArbitrationInv, RegistryInv, NEW t \in Turns, CancelRegistered(t)
  PROVE  UNCHANGED <<status, active, announced>> \/ \E v \in Turns : Ends(v)
<1>1. CASE UNCHANGED <<turnVars, token, throw>>
  BY <1>1 DEF turnVars
<1>2. CASE SignalActive
  BY <1>2, SignalActiveCases DEF Ends
<1>3. CASE status[t] \in {"accepted", "streaming"} /\ active # t /\ Terminate(t)
  <2>1. Open(t) /\ ~HasPipeline
    BY <1>3 DEF Open, RegistryInv, OpenTurnIsActive
  <2>2. ~Live(t)
    <3>1. t \in Users => task[t] = "none"
      BY <2>1 DEF RegistryInv, EchoNeverRuns
    <3>2. t \in Intents => ~Live(t)
      BY <1>3, <2>1 DEF RegistryInv, EchoNeverRuns, InPipeline, Live, ArbitrationInv, NotYetRunning
    <3> QED  BY <3>1, <3>2 DEF Turns, Live
  <2> QED  BY <1>3, <2>1, <2>2 DEF Ends
<1> QED  BY <1>1, <1>2, <1>3 DEF CancelRegistered

(* The parts of RegistryInv that speak of the registry alone. *)
RegistryPart == OpenTurnIsActive /\ AnnouncedOnce /\ StreamingRuns /\ CompletionDeferred

LEMMA EndsKeeps ==
  ASSUME TypeOK, ArbitrationInv, RegistryInv, NEW v \in Turns, Ends(v),
         UNCHANGED <<task, post>>
  PROVE  RegistryPart'
<1>1. /\ status' = [status EXCEPT ![v] = "cancelled"]
      /\ announced' = [announced EXCEPT ![v] = Append(@, "cancelled")]
      /\ active' = IF active = v THEN NoTurn ELSE active
  BY DEF Ends, Terminate, ClearActive
<1>2. announced[v] = <<>> /\ post[v] # "pending"
  BY DEF Ends, Open, Terminal, RegistryInv, AnnouncedOnce, CompletionDeferred
<1>3. announced' = [announced EXCEPT ![v] = <<"cancelled">>]
  BY <1>1, <1>2, AppendToEmpty DEF TypeOK
<1>4. <<"cancelled">> # <<>>
  OBVIOUS
<1>5. OpenTurnIsActive'
  <2>1. ASSUME active' # NoTurn PROVE Open(active)'
    BY <1>1, <2>1 DEF TypeOK, RegistryInv, OpenTurnIsActive, Open
  <2>2. ASSUME HasPipeline, NEW t \in Turns, Open(t)' PROVE active' = t
    BY <1>1, <2>2 DEF TypeOK, RegistryInv, OpenTurnIsActive, Open, Ends
  <2> QED  BY <2>1, <2>2 DEF OpenTurnIsActive
<1>6. AnnouncedOnce'
  BY <1>1, <1>3, <1>4 DEF TypeOK, RegistryInv, AnnouncedOnce, Terminal
<1>7. StreamingRuns' /\ CompletionDeferred'
  BY <1>1, <1>2, <1>3 DEF TypeOK, RegistryInv, StreamingRuns, CompletionDeferred, InPipeline
<1> QED  BY <1>5, <1>6, <1>7 DEF RegistryPart

LEMMA RegistryUnchanged ==
  ASSUME RegistryInv, UNCHANGED <<task, post, status, active, announced>>
  PROVE  RegistryPart'
BY DEF RegistryPart, RegistryInv, OpenTurnIsActive, AnnouncedOnce, StreamingRuns,
       CompletionDeferred, Open, InPipeline

-----------------------------------------------------------------------------
LEMMA RegistryInit == Init => RegistryInv
<1> SUFFICES ASSUME Init PROVE RegistryInv
  OBVIOUS
<1>1. /\ \A t \in Turns : /\ task[t] = "none" /\ status[t] = "unregistered"
                          /\ announced[t] = <<>> /\ post[t] = "none"
      /\ \A u \in Users : acc[u] = "idle"
      /\ \A i \in Interrupters : ipc[i] = "idle"
      /\ active = NoTurn
  BY DEF Init, LifecycleInit
<1> QED  BY <1>1 DEF RegistryInv, InterruptHasTarget, OpenTurnIsActive, AnnouncedOnce,
             StreamingRuns, ClosedUnwinds, DeclinedHasLost, EchoNeverRuns,
             CompletionDeferred, InPipeline, Open, Terminal, Turns

LEMMA RegistryAccept ==
  ASSUME TypeOK, ArbitrationInv, RegistryInv, NEW u \in Users,
         Enter(u) \/ AcceptStep(u) \/ CancelCaller(u)
  PROVE  RegistryInv'
<1> USE DEF callerVars, interruptVars, stopVars, taskVars, lifecycleVars, turnVars,
           RegistryInv, InterruptHasTarget, OpenTurnIsActive, AnnouncedOnce, StreamingRuns,
           ClosedUnwinds, DeclinedHasLost, EchoNeverRuns, CompletionDeferred,
           ArbitrationInv, OutputExclusive, CallerProgress, NotYetRunning, ActiveIsOpen,
           InPipeline, Open, Live, BeforeTask, BeforeRegistration, HoldsAcceptLock,
           Terminal, Turns, TypeOK, LifecycleTypeOK
<1>1. CASE Enter(u)
  BY <1>1, SMTT(30) DEF Enter
<1>2. CASE BeginPriority(u)
  BY <1>2, SMTT(30) DEF BeginPriority, BeginUserTurn, SignalProactive
<1>3. CASE JoinedProactive(u)
  BY <1>3, SMTT(30) DEF JoinedProactive
<1>4. CASE Preempt(u)
  <2>1. SignalActive /\ UNCHANGED <<task, post>>
    BY ONLY <1>4 DEF Preempt, taskVars
  <2>2. RegistryPart'
    BY ONLY TypeOK, ArbitrationInv, RegistryInv, <2>1, SignalActiveCases, EndsKeeps, RegistryUnchanged
       DEF Ends
  <2>3. InterruptHasTarget' /\ ClosedUnwinds' /\ DeclinedHasLost' /\ EchoNeverRuns'
    BY <1>4, SMTT(30) DEF Preempt, SignalActive, CancelActiveTask, NothingActive,
                       Terminate, ClearActive, CoordFree
  <2> QED  BY <2>2, <2>3 DEF RegistryPart
<1>5. CASE Register(u)
  BY <1>5, SMTT(30) DEF Register, RegisterAs, Finished, CoordFree
<1>6. CASE RegisterRefused(u)
  BY <1>6, SMTT(30) DEF RegisterRefused
<1>7. CASE StartPipeline(u)
  BY <1>7, SMTT(30) DEF StartPipeline, MayStart, CoordFree
<1>8. CASE DoNotStart(u)
  BY <1>8, SMTT(30) DEF DoNotStart, MayStart, CoordFree
<1>9. CASE Started(u)
  BY <1>9, SMTT(30) DEF Started
<1>10. CASE ReturnUnstarted(u)
  BY <1>10, SMTT(30) DEF ReturnUnstarted, ClearActive, CoordFree
<1>11. CASE Unwind(u)
  <2>1. u \in Turns /\ CancelRegistered(u) /\ UNCHANGED <<task, post>>
    BY ONLY <1>11, u \in Users DEF Unwind, Turns, taskVars
  <2>2. RegistryPart'
    BY ONLY TypeOK, ArbitrationInv, RegistryInv, <2>1, CancelRegisteredCases, EndsKeeps, RegistryUnchanged
       DEF Ends
  <2>3. InterruptHasTarget' /\ ClosedUnwinds' /\ DeclinedHasLost' /\ EchoNeverRuns'
    BY <1>11, SMTT(30) DEF Unwind, Turns, CancelRegistered, SignalActive, CancelActiveTask, NothingActive,
                       Terminate, ClearActive, CoordFree
  <2> QED  BY <2>2, <2>3 DEF RegistryPart
<1>12. CASE Unwound(u)
  BY <1>12, SMTT(30) DEF Unwound
<1>13. CASE CallerEnds(u)
  BY <1>13, SMTT(30) DEF CallerEnds
<1>14. CASE CancelCaller(u)
  BY <1>14, SMTT(30) DEF CancelCaller
<1> QED  BY <1>1, <1>2, <1>3, <1>4, <1>5, <1>6, <1>7, <1>8, <1>9, <1>10, <1>11, 
            <1>12, <1>13, <1>14 DEF AcceptStep

LEMMA RegistryPipeline ==
  ASSUME TypeOK, ArbitrationInv, RegistryInv, NEW t \in Turns,
         \/ PipelineStart(t) \/ PipelineResult(t) \/ TaskStep(t)
         \/ t \in Intents /\ SubmitIntent(t)
         \/ t \in Users /\ Finalize(t)
  PROVE  RegistryInv'
<1> USE DEF callerVars, interruptVars, stopVars, taskVars, lifecycleVars, turnVars,
           RegistryInv, InterruptHasTarget, OpenTurnIsActive, AnnouncedOnce, StreamingRuns,
           ClosedUnwinds, DeclinedHasLost, EchoNeverRuns, CompletionDeferred,
           ArbitrationInv, OutputExclusive, CallerProgress, NotYetRunning, ActiveIsOpen,
           InPipeline, Open, Live, BeforeTask, BeforeRegistration, HoldsAcceptLock,
           Terminal, Turns, TypeOK, LifecycleTypeOK
<1>1. CASE t \in Users /\ RunUser(t)
  BY <1>1, SMTT(30) DEF RunUser
<1>2. CASE t \in Intents /\ RunProactive(t)
  BY <1>2, SMTT(30) DEF RunProactive, RegisterAs, CoordFree
<1>3. CASE t \in Intents /\ RejectProactive(t)
  BY <1>3, SMTT(30) DEF RejectProactive
<1>4. ASSUME NEW result \in Terminal, PipelineEnds(t, result)
      PROVE  RegistryInv'
  <2>1. /\ active = t /\ status[t] = "streaming" /\ announced[t] = <<>>
        /\ post[t] # "pending"
    BY <1>4 DEF PipelineEnds
  <2>2. PICK final \in Terminal :
          /\ task' = [task EXCEPT ![t] = "done"]
          /\ status' = [status EXCEPT ![t] = final]
          /\ active' = NoTurn
          /\ announced' = IF final = "completed" /\ t \in Users THEN announced
                          ELSE [announced EXCEPT ![t] = <<final>>]
          /\ post' = IF final = "completed" /\ t \in Users
                     THEN [post EXCEPT ![t] = "pending"] ELSE post
    <3> DEFINE final == EndStatus(t, result)
    <3>1. final \in Terminal
      BY <1>4 DEF EndStatus
    <3>2. status' = [status EXCEPT ![t] = final] /\ active' = NoTurn
      BY <1>4, <2>1 DEF PipelineEnds, ClearActive
    <3> DEFINE deferred == final = "completed" /\ t \in Users
    <3>3. announced' = IF deferred THEN announced
                       ELSE [announced EXCEPT ![t] = <<final>>]
      <4>1. announced' = [announced EXCEPT ![t] = IF ~deferred THEN Append(@, final) ELSE @]
        BY <1>4, <2>1, Zenon DEF PipelineEnds, Terminal
      <4>2. CASE deferred
        BY <4>1, <4>2
      <4>3. CASE ~deferred
        <5>1. announced' = [announced EXCEPT ![t] = Append(@, final)]
          BY <4>1, <4>3
        <5> HIDE DEF final
        <5> QED  BY <2>1, <4>3, <5>1, AppendToEmpty
      <4> QED  BY <4>2, <4>3
    <3>4. post' = IF deferred THEN [post EXCEPT ![t] = "pending"] ELSE post
      <4>1. post' = [post EXCEPT ![t] = IF deferred THEN "pending" ELSE @]
        BY <1>4, Zenon DEF PipelineEnds
      <4>2. CASE deferred
        BY <4>1, <4>2
      <4>3. CASE ~deferred
        <5>1. post' = [post EXCEPT ![t] = post[t]]
          BY <4>1, <4>3
        <5>2. post \in [Turns -> {"none", "pending", "done"}]
          OBVIOUS
        <5>3. post' = post
          BY ONLY <5>1, <5>2
        <5> QED  BY <4>3, <5>3
      <4> QED  BY <4>2, <4>3
    <3> QED  BY <1>4, <3>1, <3>2, <3>3, <3>4 DEF PipelineEnds
  <2>3. <<final>> # <<>>
    OBVIOUS
  <2>4. AnnouncedOnce'
    BY <2>1, <2>2, <2>3
  <2>5. OpenTurnIsActive'
    BY <2>1, <2>2
  <2>6. StreamingRuns' /\ CompletionDeferred'
    BY <2>1, <2>2
  <2>7. InterruptHasTarget' /\ ClosedUnwinds' /\ DeclinedHasLost' /\ EchoNeverRuns'
    BY <1>4, <2>1, <2>2 DEF PipelineEnds
  <2> QED  BY <2>4, <2>5, <2>6, <2>7
<1>5. CASE TaskStep(t)
  BY <1>5, SMTT(30) DEF TaskStep, CancelUnstarted, DeliverCancel
<1>6. CASE t \in Intents /\ SubmitIntent(t)
  BY <1>6, SMTT(30) DEF SubmitIntent, TryStart
<1>7. CASE t \in Users /\ Finalize(t)
  <2>1. status[t] = "completed" /\ announced[t] = <<>>
    BY <1>7 DEF Finalize
  <2>2. announced' = [announced EXCEPT ![t] = <<"completed">>]
    BY <1>7, <2>1, AppendToEmpty DEF Finalize
  <2>3. <<"completed">> # <<>>
    OBVIOUS
  <2>4. AnnouncedOnce'
    BY <1>7, <2>1, <2>2, <2>3 DEF Finalize
  <2>5. OpenTurnIsActive' /\ StreamingRuns'
    BY <1>7 DEF Finalize
  <2>6. CompletionDeferred'
    BY <1>7, <2>2 DEF Finalize
  <2>7. InterruptHasTarget' /\ ClosedUnwinds' /\ DeclinedHasLost' /\ EchoNeverRuns'
    BY <1>7 DEF Finalize
  <2> QED  BY <2>4, <2>5, <2>6, <2>7
<1> QED  BY <1>1, <1>2, <1>3, <1>4, <1>5, <1>6, <1>7 DEF PipelineStart, PipelineResult

LEMMA RegistryInterrupt ==
  ASSUME TypeOK, ArbitrationInv, RegistryInv, NEW i \in Interrupters,
         Interrupt(i) \/ CancelProactive(i) \/ InterruptStep(i)
  PROVE  RegistryInv'
<1> USE DEF callerVars, interruptVars, stopVars, taskVars, lifecycleVars, turnVars,
           RegistryInv, InterruptHasTarget, OpenTurnIsActive, AnnouncedOnce, StreamingRuns,
           ClosedUnwinds, DeclinedHasLost, EchoNeverRuns, CompletionDeferred,
           ArbitrationInv, OutputExclusive, CallerProgress, NotYetRunning, ActiveIsOpen,
           InPipeline, Open, Live, BeforeTask, BeforeRegistration, HoldsAcceptLock,
           Terminal, Turns, TypeOK, LifecycleTypeOK
<1>1. CASE Interrupt(i)
  BY <1>1, SMTT(30) DEF Interrupt
<1>2. CASE CancelTurn(i)
  <2>1. itgt[i] \in Turns /\ CancelRegistered(itgt[i]) /\ UNCHANGED <<task, post>>
    BY ONLY <1>2, RegistryInv, i \in Interrupters DEF CancelTurn, RegistryInv, InterruptHasTarget, taskVars
  <2>2. RegistryPart'
    BY ONLY TypeOK, ArbitrationInv, RegistryInv, <2>1, CancelRegisteredCases, EndsKeeps, RegistryUnchanged
       DEF Ends
  <2>3. InterruptHasTarget' /\ ClosedUnwinds' /\ DeclinedHasLost' /\ EchoNeverRuns'
    BY <1>2, SMTT(30) DEF CancelTurn, RegistryInv, InterruptHasTarget, CancelRegistered, SignalActive, CancelActiveTask, NothingActive,
                       Terminate, ClearActive, CoordFree
  <2> QED  BY <2>2, <2>3 DEF RegistryPart
<1>3. CASE CancelReturns(i)
  BY <1>3, SMTT(30) DEF CancelReturns
<1>4. CASE CancelProactive(i)
  BY <1>4, SMTT(30) DEF CancelProactive
<1>5. CASE ProactiveCancelled(i)
  BY <1>5, SMTT(30) DEF ProactiveCancelled
<1> QED  BY <1>1, <1>2, <1>3, <1>4, <1>5 DEF InterruptStep

LEMMA RegistryStop ==
  ASSUME TypeOK, ArbitrationInv, RegistryInv, CloseProactive \/ StopStep
  PROVE  RegistryInv'
<1> USE DEF callerVars, interruptVars, stopVars, taskVars, lifecycleVars, turnVars,
           RegistryInv, InterruptHasTarget, OpenTurnIsActive, AnnouncedOnce, StreamingRuns,
           ClosedUnwinds, DeclinedHasLost, EchoNeverRuns, CompletionDeferred,
           ArbitrationInv, OutputExclusive, CallerProgress, NotYetRunning, ActiveIsOpen,
           InPipeline, Open, Live, BeforeTask, BeforeRegistration, HoldsAcceptLock,
           Terminal, Turns, TypeOK, LifecycleTypeOK
<1>1. CASE CloseProactive
  BY <1>1, SMTT(30) DEF CloseProactive
<1>2. CASE ProactiveClosed
  BY <1>2, SMTT(30) DEF ProactiveClosed
<1>3. CASE Shutdown
  <2>1. SignalActive /\ UNCHANGED <<task, post>>
    BY ONLY <1>3 DEF Shutdown, taskVars
  <2>2. RegistryPart'
    BY ONLY TypeOK, ArbitrationInv, RegistryInv, <2>1, SignalActiveCases, EndsKeeps, RegistryUnchanged
       DEF Ends
  <2>3. InterruptHasTarget' /\ ClosedUnwinds' /\ DeclinedHasLost' /\ EchoNeverRuns'
    BY <1>3, SMTT(30) DEF Shutdown, SignalActive, CancelActiveTask, NothingActive,
                       Terminate, ClearActive, CoordFree
  <2> QED  BY <2>2, <2>3 DEF RegistryPart
<1>4. CASE AcceptsDrained
  BY <1>4, SMTT(30) DEF AcceptsDrained
<1>5. CASE PipelinesDrained
  BY <1>5, SMTT(30) DEF PipelinesDrained
<1>6. CASE Stopped
  BY <1>6, SMTT(30) DEF Stopped
<1> QED  BY <1>1, <1>2, <1>3, <1>4, <1>5, <1>6 DEF StopStep

LEMMA RegistryStep ==
  TypeOK /\ ArbitrationInv /\ RegistryInv /\ [Next]_vars => RegistryInv'
<1> SUFFICES ASSUME TypeOK, ArbitrationInv, RegistryInv, [Next]_vars PROVE RegistryInv'
  OBVIOUS
<1>1. CASE UNCHANGED vars
  BY <1>1 DEF vars, callerVars, interruptVars, stopVars, taskVars, lifecycleVars, turnVars,
              RegistryInv, InterruptHasTarget, OpenTurnIsActive, AnnouncedOnce,
              StreamingRuns, ClosedUnwinds, DeclinedHasLost, EchoNeverRuns,
              CompletionDeferred, InPipeline, Open
<1>2. CASE Next
  BY <1>2, RegistryAccept, RegistryPipeline, RegistryInterrupt, RegistryStop DEF Next, Turns
<1> QED  BY <1>1, <1>2

(* The registry invariant holds of every service. *)
THEOREM RegistryCorrect == Spec => []RegistryInv
BY RegistryInit, RegistryStep, TypeCorrect, ArbitrationCorrect, PTL DEF Spec

(* Every turn announces its end at most once, and with its final status. *)
THEOREM EndsAreAnnouncedOnce == Spec => []AnnouncedOnce
<1>1. RegistryInv => AnnouncedOnce
  BY DEF RegistryInv
<1> QED  BY <1>1, RegistryCorrect, PTL

(* An open turn is never orphaned: it has the output. *)
THEOREM OpenTurnsAreActive == Spec => []OpenTurnIsActive
<1>1. RegistryInv => OpenTurnIsActive
  BY DEF RegistryInv
<1> QED  BY <1>1, RegistryCorrect, PTL

-----------------------------------------------------------------------------
(* Cancellations, leases and the shutdown: the invariants on top of         *)
(* ArbitrationInv and RegistryInv.                                         *)

(* A token is cancelled only for a turn that has had a task.               *)
TokenHasTask == \A t \in Turns : token[t] => task[t] # "none"

(* The arbiter forgets its task before the turn counts as completed.       *)
ArbiterTaskIsOpen ==
  lcTask # NoTurn => task[lcTask] # "none" /\ status[lcTask] # "completed"

(* The pipeline of a user is thrown one CancelledError, with its token.    *)
UserThrownOnce ==
  \A u \in Users :
    /\ throw[u] \/ task[u] = "cleanup" => token[u]
    /\ task[u] = "cleanup" => ~throw[u]
    /\ ~interrupted[u]

CancelInv ==
  /\ CancellationReachesTask
  /\ CancelledStaysCancelled
  /\ TokenHasTask
  /\ ArbiterTaskIsOpen
  /\ UserThrownOnce

(* A lease lives from the priority of a message to the end of its pipeline, *)
(* or to the caller that did not start one.                                *)
LeaseIsTaken ==
  \A u \in Users :
    /\ acc[u] \in HoldsAcceptLock \cup {"observing", "wantClear"} => u \in leases
    /\ acc[u] = "starting" => task[u] # "none"
    /\ task[u] = "done" => u \notin leases

LeaseInv == LeaseHasOwner /\ LeaseIsTaken

(* A caller that unwinds joins the pipeline it cancelled.                  *)
UnwindJoins ==
  \A u \in Users :
    /\ acc[u] = "joinUnwind" /\ Live(u) => joining[u] = u
    /\ acc[u] \in {"wantUnwind", "joinUnwind"} => callerCancels > 0

ProtectInv == UserKeepsLease /\ UnwindJoins

(* What each wait of the shutdown has left behind it.                      *)
Registered == {"observing", "starting", "wantClear", "wantUnwind", "joinUnwind"}
AfterAccepts == {"drainPipeline", "drainPost", "stopped"}
AfterPipelines == {"drainPost", "stopped"}

StopInv ==
  /\ spc # "up" => lcClosed
  /\ spc = "joinProactive" => \A p \in Intents : Live(p) => p \in drain
  /\ spc \notin {"up", "joinProactive"} => \A p \in Intents : ~Live(p)
  /\ spc \in {"drainAccept"} \cup AfterAccepts => closed
  /\ spc = "drainAccept" => \A u \in Users : acc[u] \in Registered => u \in drain
  /\ spc \in AfterAccepts => \A u \in Users : acc[u] \notin Registered
  /\ spc = "drainPipeline" => \A u \in Users : Live(u) => u \in drain
  /\ spc \in AfterPipelines => \A u \in Users : ~Live(u)
  /\ spc = "drainPost" => \A u \in Users : post[u] = "pending" => u \in drain
  /\ spc = "stopped" => \A u \in Users : post[u] # "pending"

-----------------------------------------------------------------------------
(* The index of the sessions. *)

LEMMA ClearActiveAgrees ==
  ASSUME TypeOK, SessionIndexAgrees, NEW t, ClearActive(t)
  PROVE  SessionIndexAgrees'
BY DEF ClearActive, SessionIndexAgrees, TypeOK

LEMMA SignalActiveAgrees ==
  ASSUME TypeOK, SessionIndexAgrees, SignalActive
  PROVE  SessionIndexAgrees'
<1>1. CASE UNCHANGED <<sessionTurn, active>>
  BY <1>1 DEF SessionIndexAgrees
<1> QED  BY <1>1, ClearActiveAgrees DEF SignalActive, Terminate

LEMMA CancelRegisteredAgrees ==
  ASSUME TypeOK, SessionIndexAgrees, NEW t, CancelRegistered(t)
  PROVE  SessionIndexAgrees'
<1>1. CASE UNCHANGED <<sessionTurn, active>>
  BY <1>1 DEF SessionIndexAgrees
<1> QED  BY <1>1, SignalActiveAgrees, ClearActiveAgrees DEF CancelRegistered, Terminate, turnVars

LEMMA RegisterAsAgrees ==
  ASSUME TypeOK, SessionIndexAgrees, active = NoTurn,
         NEW t \in Turns, NEW st, RegisterAs(t, st)
  PROVE  SessionIndexAgrees'
<1>1. SessionOf[t] \in Sessions /\ t # NoTurn
  BY DEF Turns
<1> QED  BY <1>1 DEF RegisterAs, SessionIndexAgrees, TypeOK

LEMMA SessionStep ==
  TypeOK /\ ArbitrationInv /\ SessionIndexAgrees /\ [Next]_vars => SessionIndexAgrees'
<1> SUFFICES ASSUME TypeOK, ArbitrationInv, SessionIndexAgrees, [Next]_vars
             PROVE  SessionIndexAgrees'
  OBVIOUS
<1>1. CASE UNCHANGED <<sessionTurn, active>>
  BY <1>1 DEF SessionIndexAgrees
<1>2. ASSUME NEW u \in Users, Enter(u) \/ AcceptStep(u) \/ CancelCaller(u) \/ Finalize(u)
      PROVE  SessionIndexAgrees'
  <2>1. CASE Register(u)
    <3>1. active = NoTurn
      BY <2>1 DEF Register, Finished, ArbitrationInv, CallerProgress
    <3> QED  BY <2>1, <3>1, RegisterAsAgrees DEF Register, Turns
  <2>2. CASE Preempt(u)
    BY <2>2, SignalActiveAgrees DEF Preempt
  <2>3. CASE Unwind(u)
    BY <2>3, CancelRegisteredAgrees DEF Unwind
  <2>4. CASE ReturnUnstarted(u)
    BY <2>4, ClearActiveAgrees DEF ReturnUnstarted
  <2> QED  BY <1>1, <1>2, <2>1, <2>2, <2>3, <2>4
           DEF AcceptStep, Enter, BeginPriority, JoinedProactive, RegisterRefused,
               StartPipeline, DoNotStart, Started, Unwound, CallerEnds, CancelCaller,
               Finalize, turnVars
<1>3. ASSUME NEW t \in Turns, PipelineStart(t) \/ PipelineResult(t) \/ TaskStep(t)
      PROVE  SessionIndexAgrees'
  <2>1. CASE t \in Intents /\ RunProactive(t)
    BY <2>1, RegisterAsAgrees DEF RunProactive
  <2>2. CASE PipelineResult(t)
    BY <2>2, ClearActiveAgrees DEF PipelineResult, PipelineEnds
  <2> QED  BY <1>1, <1>3, <2>1, <2>2
           DEF PipelineStart, RunUser, RejectProactive, TaskStep, turnVars
<1>4. ASSUME NEW i \in Interrupters, Interrupt(i) \/ CancelProactive(i) \/ InterruptStep(i)
      PROVE  SessionIndexAgrees'
  BY <1>1, <1>4, CancelRegisteredAgrees
     DEF InterruptStep, Interrupt, CancelProactive, CancelTurn, CancelReturns,
         ProactiveCancelled, turnVars
<1>5. ASSUME CloseProactive \/ StopStep  PROVE SessionIndexAgrees'
  BY <1>1, <1>5, SignalActiveAgrees
     DEF StopStep, CloseProactive, ProactiveClosed, Shutdown, AcceptsDrained,
         PipelinesDrained, Stopped, turnVars
<1>6. ASSUME NEW p \in Intents, SubmitIntent(p)  PROVE SessionIndexAgrees'
  BY <1>1, <1>6 DEF SubmitIntent, turnVars
<1> QED  BY <1>1, <1>2, <1>3, <1>4, <1>5, <1>6 DEF Next, vars, turnVars

(* An interruption by session finds exactly the turn that is active:        *)
(* _session_turn and _active never part, whoever clears which.             *)
THEOREM SessionIndexIsTrue == Spec => []SessionIndexAgrees
<1>1. Init => SessionIndexAgrees
  BY DEF Init, SessionIndexAgrees
<1>2. TypeOK /\ ArbitrationInv /\ SessionIndexAgrees /\ [Next]_vars => SessionIndexAgrees'
  BY SessionStep
<1> QED  BY <1>1, <1>2, TypeCorrect, ArbitrationCorrect, PTL DEF Spec

-----------------------------------------------------------------------------
(* Cancellations. *)

(* What CancelInv speaks of.                                               *)
LEMMA CancelFrame ==
  ASSUME CancelInv, UNCHANGED <<task, throw, token, interrupted, status>>,
         lcTask' \in {lcTask, NoTurn}
  PROVE  CancelInv'
BY DEF CancelInv, CancellationReachesTask, CancelledStaysCancelled, TokenHasTask,
       ArbiterTaskIsOpen, UserThrownOnce, Live

(* The token of a turn that lives and has not completed, and with it the    *)
(* CancelledError.                                                         *)
Signals(t) ==
  /\ token' = [token EXCEPT ![t] = TRUE]
  /\ task[t] # "none" /\ status[t] # "completed"
  /\ \/ throw' = [throw EXCEPT ![t] = @ \/ Live(t)] /\ t \in Intents
     \/ throw' = [throw EXCEPT ![t] = @ \/ ~token[t]] /\ Live(t)

LEMMA SignalsKeeps ==
  ASSUME TypeOK, CancelInv, NEW t \in Turns, Signals(t),
         UNCHANGED <<task, interrupted, status, lcTask>>
  PROVE  CancelInv'
<1>0. /\ throw \in [Turns -> BOOLEAN] /\ token \in [Turns -> BOOLEAN]
      /\ CancellationReachesTask /\ CancelledStaysCancelled /\ TokenHasTask
      /\ ArbiterTaskIsOpen /\ UserThrownOnce
  BY DEF TypeOK, LifecycleTypeOK, CancelInv
<1>1. /\ \A v \in Turns : token'[v] <=> token[v] \/ v = t
      /\ \A v \in Turns : v # t => throw'[v] = throw[v]
      /\ task[t] # "none" /\ status[t] # "completed"
  BY <1>0 DEF Signals
<1>2. /\ throw[t] => throw'[t]
      /\ Live(t) => throw'[t] \/ token[t]
      /\ t \in Users => (throw'[t] <=> throw[t] \/ ~token[t])
  <2>1. CASE throw' = [throw EXCEPT ![t] = @ \/ Live(t)] /\ t \in Intents
    BY <1>0, <2>1 DEF Live
  <2>2. CASE throw' = [throw EXCEPT ![t] = @ \/ ~token[t]] /\ Live(t)
    BY <1>0, <2>2
  <2> QED  BY <2>1, <2>2 DEF Signals
<1>3. CancellationReachesTask'
  BY <1>0, <1>1, <1>2 DEF CancellationReachesTask, Live
<1>4. CancelledStaysCancelled' /\ TokenHasTask' /\ ArbiterTaskIsOpen'
  BY <1>0, <1>1 DEF CancelledStaysCancelled, TokenHasTask, ArbiterTaskIsOpen
<1>5. UserThrownOnce'
  BY <1>0, <1>1, <1>2 DEF UserThrownOnce, Turns
<1> QED  BY <1>3, <1>4, <1>5 DEF CancelInv

(* A turn without a live task ends as cancelled.                           *)
LEMMA TerminateCancels ==
  ASSUME TypeOK, CancelInv, NEW t, Terminate(t), UNCHANGED <<task, interrupted, lcTask>>
  PROVE  CancelInv'
BY DEF CancelInv, CancellationReachesTask, CancelledStaysCancelled, TokenHasTask,
       ArbiterTaskIsOpen, UserThrownOnce, Live, Terminate, TypeOK, LifecycleTypeOK, Turns

LEMMA SignalActiveCancels ==
  ASSUME TypeOK, ArbitrationInv, CancelInv, SignalActive,
         UNCHANGED <<task, interrupted, lcTask>>
  PROVE  CancelInv'
<1>1. CASE UNCHANGED <<status, token, throw>>
  BY <1>1, CancelFrame
<1>2. CASE Terminate(active)
  BY <1>2, TerminateCancels
<1>3. CASE /\ ~NothingActive /\ Live(active) /\ CancelActiveTask /\ UNCHANGED status
           /\ ~signalled[active]
  <2>1. active \in Turns
    BY <1>3 DEF NothingActive, TypeOK
  <2>2. status[active] # "completed" /\ task[active] # "none"
    BY <1>3 DEF NothingActive, Terminal, Live
  <2>3. Signals(active)
    BY <1>3, <2>2 DEF CancelActiveTask, Signals
  <2> QED  BY <1>3, <2>1, <2>3, SignalsKeeps
<1> QED  BY <1>1, <1>2, <1>3 DEF SignalActive, CancelActiveTask

LEMMA CancelRegisteredCancels ==
  ASSUME TypeOK, ArbitrationInv, CancelInv, NEW t, CancelRegistered(t),
         UNCHANGED <<task, interrupted, lcTask>>
  PROVE  CancelInv'
<1>1. CASE UNCHANGED <<turnVars, token, throw>>
  BY <1>1, CancelFrame DEF turnVars
<1> QED  BY <1>1, SignalActiveCancels, TerminateCancels DEF CancelRegistered

LEMMA SignalProactiveCancels ==
  ASSUME TypeOK, CancelInv, SignalProactive, UNCHANGED <<task, interrupted, status, lcTask>>
  PROVE  CancelInv'
<1>1. CASE UNCHANGED <<token, throw>>
  BY <1>1, CancelFrame
<1>2. CASE /\ lcTask # NoTurn
           /\ token' = [token EXCEPT ![lcTask] = TRUE]
           /\ throw' = [throw EXCEPT ![lcTask] = @ \/ Live(lcTask)]
  <2>1. lcTask \in Turns /\ lcTask \in Intents
    BY <1>2 DEF TypeOK, LifecycleTypeOK, Turns
  <2>2. Signals(lcTask)
    BY <1>2, <2>1 DEF Signals, CancelInv, ArbiterTaskIsOpen
  <2> QED  BY <2>1, <2>2, SignalsKeeps
<1> QED  BY <1>1, <1>2 DEF SignalProactive

LEMMA CancelAccept ==
  ASSUME TypeOK, ArbitrationInv, CancelInv, NEW u \in Users,
         Enter(u) \/ AcceptStep(u) \/ CancelCaller(u) \/ Finalize(u)
  PROVE  CancelInv'
<1> USE DEF callerVars, interruptVars, stopVars, taskVars, lifecycleVars, turnVars
<1>0. u \in Turns
  BY DEF Turns
<1>1. CASE BeginPriority(u)
  BY <1>1, SignalProactiveCancels DEF BeginPriority, BeginUserTurn
<1>2. CASE JoinedProactive(u)
  BY <1>2, CancelFrame DEF JoinedProactive, ForgetFinished
<1>3. CASE Preempt(u)
  BY <1>3, SignalActiveCancels DEF Preempt
<1>4. CASE Register(u)
  <2>1. status' = [status EXCEPT ![u] = "accepted"] /\ UNCHANGED <<taskVars, lcTask>>
    BY <1>4 DEF Register, RegisterAs
  <2> QED  BY <2>1 DEF CancelInv, CancellationReachesTask, CancelledStaysCancelled,
                       TokenHasTask, ArbiterTaskIsOpen, UserThrownOnce, Live, TypeOK
<1>5. CASE StartPipeline(u)
  <2>1. task[u] = "none" /\ ~token[u]
    BY <1>0, <1>5 DEF StartPipeline, ArbitrationInv, CallerProgress, BeforeTask,
                      CancelInv, TokenHasTask
  <2>2. task' = [task EXCEPT ![u] = "ready"]
        /\ UNCHANGED <<throw, token, interrupted, status, lcTask>>
    BY <1>5 DEF StartPipeline
  <2> QED  BY <1>0, <2>1, <2>2
           DEF CancelInv, CancellationReachesTask, CancelledStaysCancelled, TokenHasTask,
               ArbiterTaskIsOpen, UserThrownOnce, Live, TypeOK, LifecycleTypeOK, Turns
<1>6. CASE Unwind(u)
  BY <1>6, CancelRegisteredCancels DEF Unwind
<1> QED  BY <1>1, <1>2, <1>3, <1>4, <1>5, <1>6, CancelFrame
         DEF AcceptStep, Enter, RegisterRefused, DoNotStart, Started, ReturnUnstarted,
             Unwound, CallerEnds, CancelCaller, Finalize

LEMMA CancelPipeline ==
  ASSUME TypeOK, ArbitrationInv, CancelInv, NEW t \in Turns,
         \/ PipelineStart(t) \/ PipelineResult(t) \/ TaskStep(t)
         \/ t \in Intents /\ SubmitIntent(t)
  PROVE  CancelInv'
<1> USE DEF callerVars, interruptVars, stopVars, taskVars, lifecycleVars, turnVars,
           CancelInv, CancellationReachesTask, CancelledStaysCancelled, TokenHasTask,
           ArbiterTaskIsOpen, UserThrownOnce, Live, TypeOK, LifecycleTypeOK, Turns
<1>1. CASE t \in Users /\ RunUser(t)
  BY <1>1, SMTT(30) DEF RunUser
<1>2. CASE t \in Intents /\ RunProactive(t)
  BY <1>2, SMTT(30) DEF RunProactive, RegisterAs
<1>3. CASE t \in Intents /\ RejectProactive(t)
  <2>1. status[t] = "unregistered" /\ task[t] = "ready"
    BY <1>3 DEF RejectProactive, ArbitrationInv, NotYetRunning
  <2> QED  BY <1>3, <2>1, SMTT(30) DEF RejectProactive, ForgetSelf
<1>4. ASSUME NEW result \in Terminal, PipelineEnds(t, result)
      PROVE  CancelInv'
  <2>1. /\ task' = [task EXCEPT ![t] = "done"]
        /\ \A v \in Turns : v # t => status'[v] = status[v]
        /\ lcTask' = IF lcTask = t THEN NoTurn ELSE lcTask
        /\ UNCHANGED <<throw, token, interrupted>>
    BY <1>4 DEF PipelineEnds, ForgetSelf
  <2>2. token[t] => status'[t] # "completed"
    BY <1>4, SMTT(30) DEF PipelineEnds, EndStatus, Terminal
  <2>3. CancellationReachesTask' /\ TokenHasTask' /\ UserThrownOnce'
    BY <2>1
  <2>4. CancelledStaysCancelled'
    BY <2>1, <2>2
  <2>5. ArbiterTaskIsOpen'
    BY <2>1, TurnsAssumption
  <2> QED  BY <2>3, <2>4, <2>5
<1>5. CASE CancelUnstarted(t) /\ UNCHANGED status
  <2>1. t \in Intents
    BY <1>5 DEF CancelUnstarted, ArbitrationInv, NotYetRunning
  <2>2. /\ task' = [task EXCEPT ![t] = "done"] /\ throw' = [throw EXCEPT ![t] = FALSE]
        /\ lcTask' \in {lcTask, NoTurn} /\ UNCHANGED <<token, interrupted>>
    BY <1>5 DEF CancelUnstarted, ForgetSelf
  <2> QED  BY <1>5, <2>1, <2>2, TurnsAssumption, SMTT(30)
<1>6. CASE DeliverCancel(t) /\ UNCHANGED status
  <2>1. /\ task[t] \in {"running", "cleanup"} /\ throw[t]
        /\ task' = [task EXCEPT ![t] = "cleanup"] /\ throw' = [throw EXCEPT ![t] = FALSE]
        /\ UNCHANGED <<token, lcTask>>
    BY <1>6 DEF DeliverCancel
  <2>2. t \in Users => task[t] # "cleanup" /\ token[t]
    BY <2>1
  <2>3. \A u \in Users : ~interrupted'[u]
    BY <1>6, <2>2 DEF DeliverCancel
  <2> QED  BY <1>6, <2>1, <2>2, <2>3, SMTT(30)
<1>7. CASE t \in Intents /\ SubmitIntent(t)
  <2>1. status[t] = "unregistered" /\ task[t] = "none"
    BY <1>7 DEF SubmitIntent, TryStart, ArbitrationInv, NotYetRunning
  <2> QED  BY <1>7, <2>1, SMTT(30) DEF SubmitIntent, TryStart
<1> QED  BY <1>1, <1>2, <1>3, <1>4, <1>5, <1>6, <1>7 DEF PipelineStart, PipelineResult, TaskStep

LEMMA CancelInterrupt ==
  ASSUME TypeOK, ArbitrationInv, CancelInv, NEW i \in Interrupters,
         Interrupt(i) \/ CancelProactive(i) \/ InterruptStep(i)
  PROVE  CancelInv'
<1> USE DEF callerVars, interruptVars, stopVars, taskVars, lifecycleVars, turnVars
<1>1. CASE Interrupt(i) \/ CancelReturns(i)
  BY <1>1, CancelFrame DEF Interrupt, CancelReturns
<1>2. CASE CancelTurn(i)
  BY <1>2, CancelRegisteredCancels DEF CancelTurn
<1>3. CASE CancelProactive(i)
  BY <1>3, SignalProactiveCancels DEF CancelProactive
<1>4. CASE ProactiveCancelled(i)
  BY <1>4, CancelFrame DEF ProactiveCancelled, ForgetFinished
<1> QED  BY <1>1, <1>2, <1>3, <1>4 DEF InterruptStep

LEMMA CancelStop ==
  ASSUME TypeOK, ArbitrationInv, CancelInv, CloseProactive \/ StopStep
  PROVE  CancelInv'
<1> USE DEF callerVars, interruptVars, stopVars, taskVars, lifecycleVars, turnVars
<1>1. CASE CloseProactive
  BY <1>1, SignalProactiveCancels DEF CloseProactive
<1>2. CASE ProactiveClosed
  BY <1>2, CancelFrame DEF ProactiveClosed, ForgetFinished
<1>3. CASE Shutdown
  BY <1>3, SignalActiveCancels DEF Shutdown
<1>4. CASE AcceptsDrained \/ PipelinesDrained \/ Stopped
  BY <1>4, CancelFrame DEF AcceptsDrained, PipelinesDrained, Stopped
<1> QED  BY <1>1, <1>2, <1>3, <1>4 DEF StopStep

LEMMA CancelStep == TypeOK /\ ArbitrationInv /\ CancelInv /\ [Next]_vars => CancelInv'
<1> SUFFICES ASSUME TypeOK, ArbitrationInv, CancelInv, [Next]_vars PROVE CancelInv'
  OBVIOUS
<1>1. CASE UNCHANGED vars
  BY <1>1, CancelFrame DEF vars, taskVars, lifecycleVars, turnVars
<1>2. CASE Next
  BY <1>2, CancelAccept, CancelPipeline, CancelInterrupt, CancelStop DEF Next, Turns
<1> QED  BY <1>1, <1>2

LEMMA CancelInit == Init => CancelInv
<1> SUFFICES ASSUME Init PROVE CancelInv
  OBVIOUS
<1>1. \A t \in Turns : task[t] = "none" /\ status[t] = "unregistered"
  BY DEF Init, LifecycleInit
<1>2. \A t \in Turns : ~throw[t] /\ ~token[t] /\ ~interrupted[t]
  BY Zenon DEF Init, LifecycleInit
<1>3. lcTask = NoTurn
  BY DEF Init, LifecycleInit
<1> QED  BY <1>1, <1>2, <1>3
         DEF CancelInv, CancellationReachesTask, CancelledStaysCancelled, TokenHasTask,
             ArbiterTaskIsOpen, UserThrownOnce, Live, Turns

(* A cancelled token and its CancelledError travel together. *)
THEOREM CancelInvCorrect == Spec => []CancelInv
BY CancelInit, CancelStep, TypeCorrect, ArbitrationCorrect, PTL DEF Spec

(* A cancellation takes effect, whoever issues it through whichever of the  *)
(* two arbiters and whenever the pipeline returns.                         *)
THEOREM CancellationsHold == Spec => []CancellationHolds
<1>1. CancelInv => CancellationHolds
  BY DEF CancelInv, CancellationHolds
<1> QED  BY <1>1, CancelInvCorrect, PTL

-----------------------------------------------------------------------------
(* Leases. *)

LEMMA LeaseFrame ==
  ASSUME LeaseInv, UNCHANGED <<task, leases, acc>>
  PROVE  LeaseInv'
BY DEF LeaseInv, LeaseHasOwner, LeaseIsTaken, InFlight, Live

(* The caller of u goes on.  It keeps the lease or gives it back.          *)
LEMMA LeaseAccept ==
  ASSUME TypeOK, ArbitrationInv, LeaseInv, NEW u \in Users,
         Enter(u) \/ AcceptStep(u) \/ CancelCaller(u) \/ Finalize(u)
  PROVE  LeaseInv'
<1> USE DEF callerVars, interruptVars, stopVars, taskVars, lifecycleVars, turnVars,
           LeaseInv, LeaseHasOwner, LeaseIsTaken, InFlight, Live, HoldsAcceptLock,
           TypeOK, LifecycleTypeOK
<1>0. /\ acc[u] \in BeforeTask => task[u] = "none"
      /\ task[u] = "ready" => acc[u] = "starting" /\ status[u] = "accepted"
  BY DEF ArbitrationInv, CallerProgress, NotYetRunning
<1>1. CASE Enter(u) \/ JoinedProactive(u) \/ Preempt(u) \/ Register(u) \/ DoNotStart(u)
  BY <1>1 DEF Enter, JoinedProactive, Preempt, Register, DoNotStart
<1>2. CASE BeginPriority(u)
  BY <1>0, <1>2 DEF BeginPriority, BeginUserTurn, BeforeTask, BeforeRegistration
<1>3. CASE RegisterRefused(u) \/ ReturnUnstarted(u) \/ Unwound(u)
  BY <1>3 DEF RegisterRefused, ReturnUnstarted, Unwound, EndUserTurn
<1>4. CASE StartPipeline(u)
  BY <1>4, TurnsAssumption DEF StartPipeline, Turns
<1>5. CASE Started(u)
  <2>1. acc[u] = "starting" /\ status[u] # "accepted" /\ UNCHANGED <<task, leases>>
        /\ acc' = [acc EXCEPT ![u] = "returned"]
    BY <1>5 DEF Started
  <2>2. task[u] \in TaskStates \ {"none", "ready"}
    BY <1>0, <2>1 DEF Turns
  <2> QED  BY <2>1, <2>2 DEF TaskStates
<1>6. CASE CallerEnds(u)
  BY <1>6 DEF CallerEnds
<1>7. CASE CancelCaller(u)
  <2>1. /\ UNCHANGED task
        /\ \/ /\ leases' = leases \ {u} /\ acc' = [acc EXCEPT ![u] = "returned"]
           \/ /\ UNCHANGED leases /\ acc' = [acc EXCEPT ![u] = "wantUnwind"]
    BY <1>7 DEF CancelCaller, EndUserTurn
  <2> QED  BY <2>1
<1>8. CASE Unwind(u)
  BY <1>8 DEF Unwind
<1>9. CASE Finalize(u)
  BY <1>9, LeaseFrame DEF Finalize
<1> QED  BY <1>1, <1>2, <1>3, <1>4, <1>5, <1>6, <1>7, <1>8, <1>9 DEF AcceptStep

LEMMA LeasePipeline ==
  ASSUME TypeOK, ArbitrationInv, LeaseInv, NEW t \in Turns,
         \/ PipelineStart(t) \/ PipelineResult(t) \/ TaskStep(t)
         \/ t \in Intents /\ SubmitIntent(t)
  PROVE  LeaseInv'
<1> USE DEF callerVars, interruptVars, stopVars, taskVars, lifecycleVars, turnVars,
           LeaseInv, LeaseHasOwner, LeaseIsTaken, InFlight, Live, HoldsAcceptLock,
           TypeOK, LifecycleTypeOK, Turns
<1>1. CASE t \in Users /\ RunUser(t)
  BY <1>1 DEF RunUser
<1>2. ASSUME t \in Intents, UNCHANGED <<leases, acc>>,
             NEW s, task' = [task EXCEPT ![t] = s]
      PROVE  LeaseInv'
  BY <1>2, TurnsAssumption
<1>3. CASE t \in Intents /\ (RunProactive(t) \/ RejectProactive(t) \/ SubmitIntent(t))
  BY <1>2, <1>3 DEF RunProactive, RejectProactive, SubmitIntent, TryStart
<1>4. CASE PipelineResult(t)
  <2>1. /\ task' = [task EXCEPT ![t] = "done"] /\ leases' = leases \ {t} /\ UNCHANGED acc
    BY <1>4 DEF PipelineResult, PipelineEnds
  <2>2. /\ task'[t] = "done" /\ t \notin leases'
        /\ \A u \in Users : u # t => task'[u] = task[u] /\ (u \in leases' <=> u \in leases)
    BY <2>1
  <2>3. \A u \in Users : acc[u] \in HoldsAcceptLock \cup {"observing", "wantClear"} => u # t
    BY <1>4 DEF PipelineResult, PipelineEnds, ArbitrationInv, CallerProgress, BeforeTask,
               BeforeRegistration
  <2>4. LeaseIsTaken'
    BY <2>1, <2>2, <2>3
  <2>5. LeaseHasOwner'
    BY <2>1, <2>2
  <2> QED  BY <2>4, <2>5
<1>5. CASE TaskStep(t)
  <2>1. CASE CancelUnstarted(t)
    <3>1. t \in Intents
      BY <2>1 DEF CancelUnstarted, ArbitrationInv, NotYetRunning
    <3> QED  BY <1>2, <1>5, <2>1, <3>1 DEF TaskStep, CancelUnstarted
  <2>2. CASE DeliverCancel(t)
    BY <1>5, <2>2 DEF TaskStep, DeliverCancel
  <2> QED  BY <1>5, <2>1, <2>2 DEF TaskStep
<1> QED  BY <1>1, <1>3, <1>4, <1>5 DEF PipelineStart

LEMMA LeaseStep == TypeOK /\ ArbitrationInv /\ LeaseInv /\ [Next]_vars => LeaseInv'
<1> SUFFICES ASSUME TypeOK, ArbitrationInv, LeaseInv, [Next]_vars PROVE LeaseInv'
  OBVIOUS
<1> USE DEF callerVars, interruptVars, stopVars, taskVars, lifecycleVars, turnVars
<1>1. CASE UNCHANGED vars
  BY <1>1, LeaseFrame DEF vars
<1>2. ASSUME NEW i \in Interrupters, Interrupt(i) \/ CancelProactive(i) \/ InterruptStep(i)
      PROVE  LeaseInv'
  BY <1>2, LeaseFrame DEF InterruptStep, Interrupt, CancelProactive, CancelTurn,
                          CancelReturns, ProactiveCancelled
<1>3. ASSUME CloseProactive \/ StopStep  PROVE LeaseInv'
  BY <1>3, LeaseFrame DEF StopStep, CloseProactive, ProactiveClosed, Shutdown,
                          AcceptsDrained, PipelinesDrained, Stopped
<1> QED  BY <1>1, <1>2, <1>3, LeaseAccept, LeasePipeline DEF Next, Turns

LEMMA LeaseInit == Init => LeaseInv
BY DEF Init, LifecycleInit, LeaseInv, LeaseHasOwner, LeaseIsTaken, HoldsAcceptLock, Turns

(* Every lease is in the hands of somebody who ends it. *)
THEOREM LeaseInvCorrect == Spec => []LeaseInv
BY LeaseInit, LeaseStep, TypeCorrect, ArbitrationCorrect, PTL DEF Spec

(* Proactive turns are not locked out: behind every lease there is a caller *)
(* of accept or a pipeline that ends it, however often callers are          *)
(* cancelled.                                                              *)
THEOREM LeasesHaveOwners == Spec => []LeaseHasOwner
<1>1. LeaseInv => LeaseHasOwner
  BY DEF LeaseInv
<1> QED  BY <1>1, LeaseInvCorrect, PTL

-----------------------------------------------------------------------------
(* The protection of a turn, for callers that are cancelled at most once.  *)

ProtectBase == TypeOK /\ ArbitrationInv /\ LeaseInv /\ ProtectInv /\ MaxCallerCancels <= 1

LEMMA ProtectFrame ==
  ASSUME ProtectInv, UNCHANGED <<task, leases, acc, joining, callerCancels>>,
         \A u \in Users : signalled[u] => signalled'[u]
  PROVE  ProtectInv'
BY DEF ProtectInv, UserKeepsLease, UnwindJoins, Live

LEMMA SignalsStay ==
  ASSUME TypeOK, SignalActive \/ \E t : CancelRegistered(t)
  PROVE  \A u \in Turns : signalled[u] => signalled'[u]
<1>1. ASSUME SignalActive PROVE \A u \in Turns : signalled[u] => signalled'[u]
  BY <1>1 DEF SignalActive, Terminate, CancelActiveTask, TypeOK
<1> QED  BY <1>1 DEF CancelRegistered, Terminate, turnVars

(* A pipeline that lives is that of the active turn, so that whoever       *)
(* unwinds finds it.                                                       *)
LEMMA UnwindFinds ==
  ASSUME TypeOK, ArbitrationInv, NEW u \in Users, Live(u)
  PROVE  RegisteredToJoin(u) = u
<1>1. active = u /\ status[u] \in {"accepted", "streaming"} /\ u # NoTurn
  BY TurnsAssumption DEF ArbitrationInv, OutputExclusive, NotYetRunning, Live, InPipeline, Turns
<1> QED  BY <1>1 DEF RegisteredToJoin, ToJoin, NothingActive, Terminal

LEMMA ProtectAccept ==
  ASSUME ProtectBase, NEW u \in Users,
         Enter(u) \/ AcceptStep(u) \/ CancelCaller(u) \/ Finalize(u)
  PROVE  ProtectInv'
<1> USE DEF callerVars, interruptVars, stopVars, taskVars, lifecycleVars, turnVars,
           ProtectBase, ProtectInv, UserKeepsLease, UnwindJoins, Live,
           TypeOK, LifecycleTypeOK
<1>0. /\ acc[u] \in BeforeTask => task[u] = "none"
      /\ u \in Turns
  BY DEF ArbitrationInv, CallerProgress, Turns
<1>1. CASE Enter(u) \/ JoinedProactive(u) \/ DoNotStart(u) \/ Started(u) \/ CallerEnds(u)
  BY <1>1 DEF Enter, JoinedProactive, DoNotStart, Started, CallerEnds
<1>2. CASE BeginPriority(u)
  BY <1>0, <1>2 DEF BeginPriority, BeginUserTurn, BeforeTask, BeforeRegistration
<1>3. CASE Preempt(u)
  <2>1. \A v \in Users : signalled[v] => signalled'[v]
    BY <1>3, SignalsStay DEF Preempt, Turns
  <2> QED  BY <1>3, <2>1 DEF Preempt
<1>4. CASE Register(u)
  <2>1. task[u] = "none"
    BY <1>0, <1>4 DEF Register, BeforeTask, BeforeRegistration, HoldsAcceptLock
  <2> QED  BY <1>0, <1>4, <2>1 DEF Register, RegisterAs
<1>5. CASE RegisterRefused(u) \/ ReturnUnstarted(u)
  <2>1. /\ task[u] = "none" /\ leases' = leases \ {u}
        /\ UNCHANGED <<task, signalled, joining, callerCancels>>
        /\ acc' = [acc EXCEPT ![u] = "returned"]
    BY <1>0, <1>5 DEF RegisterRefused, ReturnUnstarted, EndUserTurn, BeforeTask,
                      BeforeRegistration, HoldsAcceptLock
  <2> QED  BY <2>1
<1>6. CASE StartPipeline(u)
  <2>1. u \in leases
    BY <1>6 DEF StartPipeline, LeaseInv, LeaseIsTaken
  <2> QED  BY <1>0, <1>6, <2>1 DEF StartPipeline
<1>7. CASE CancelCaller(u)
  <2>1. callerCancels = 0 /\ callerCancels' = 1
    BY <1>7 DEF CancelCaller
  <2>2. /\ UNCHANGED <<task, signalled, joining>>
        /\ \/ /\ acc[u] \in {"wantAccept", "joinProactive", "wantSignal", "joinOld"}
              /\ leases' = leases \ {u} /\ acc' = [acc EXCEPT ![u] = "returned"]
           \/ /\ UNCHANGED leases /\ acc' = [acc EXCEPT ![u] = "wantUnwind"]
    BY <1>7, <2>1 DEF CancelCaller, EndUserTurn
  <2>3. acc[u] \in {"wantAccept", "joinProactive", "wantSignal", "joinOld"} => ~Live(u)
    BY <1>0 DEF BeforeTask, BeforeRegistration, HoldsAcceptLock
  <2> QED  BY <2>1, <2>2, <2>3
<1>8. CASE Unwind(u)
  <2>1. \A v \in Users : signalled[v] => signalled'[v]
    BY <1>8, SignalsStay DEF Unwind, Turns
  <2>2. /\ acc[u] = "wantUnwind" /\ acc' = [acc EXCEPT ![u] = "joinUnwind"]
        /\ joining' = [joining EXCEPT ![u] = RegisteredToJoin(u)]
        /\ UNCHANGED <<task, leases, callerCancels>>
    BY <1>8 DEF Unwind
  <2>3. Live(u) => joining'[u] = u
    BY <2>2, UnwindFinds
  <2> QED  BY <2>1, <2>2, <2>3
<1>9. CASE Unwound(u)
  <2>1. ~Live(u)
    BY <1>9, TurnsAssumption DEF Unwound, Finished
  <2> QED  BY <1>9, <2>1 DEF Unwound, EndUserTurn
<1>10. CASE Finalize(u)
  BY <1>10, ProtectFrame DEF Finalize
<1> QED  BY <1>1, <1>2, <1>3, <1>4, <1>5, <1>6, <1>7, <1>8, <1>9, <1>10 DEF AcceptStep

LEMMA ProtectPipeline ==
  ASSUME ProtectBase, NEW t \in Turns,
         \/ PipelineStart(t) \/ PipelineResult(t) \/ TaskStep(t)
         \/ t \in Intents /\ SubmitIntent(t)
  PROVE  ProtectInv'
<1> USE DEF callerVars, interruptVars, stopVars, taskVars, lifecycleVars, turnVars,
           ProtectBase, ProtectInv, UserKeepsLease, UnwindJoins, Live,
           TypeOK, LifecycleTypeOK, Turns
<1>1. CASE t \in Users /\ RunUser(t)
  BY <1>1 DEF RunUser
<1>2. ASSUME t \in Intents, UNCHANGED <<leases, acc, joining, callerCancels>>,
             NEW s, task' = [task EXCEPT ![t] = s],
             \A u \in Users : signalled'[u] = signalled[u]
      PROVE  ProtectInv'
  BY <1>2, TurnsAssumption
<1>3. CASE t \in Intents /\ (RunProactive(t) \/ RejectProactive(t) \/ SubmitIntent(t))
  <2>1. \A u \in Users : signalled'[u] = signalled[u]
    BY <1>3, TurnsAssumption DEF RunProactive, RejectProactive, SubmitIntent, RegisterAs
  <2> QED  BY <1>2, <1>3, <2>1 DEF RunProactive, RejectProactive, SubmitIntent, TryStart
<1>4. CASE PipelineResult(t)
  <2>1. /\ task' = [task EXCEPT ![t] = "done"] /\ leases' = leases \ {t}
        /\ UNCHANGED <<acc, joining, callerCancels, signalled>>
    BY <1>4 DEF PipelineResult, PipelineEnds
  <2> QED  BY <2>1
<1>5. CASE TaskStep(t)
  <2>1. CASE CancelUnstarted(t)
    <3>1. t \in Intents
      BY <2>1 DEF CancelUnstarted, ArbitrationInv, NotYetRunning
    <3> QED  BY <1>2, <1>5, <2>1, <3>1 DEF TaskStep, CancelUnstarted
  <2>2. CASE DeliverCancel(t)
    BY <1>5, <2>2 DEF TaskStep, DeliverCancel
  <2> QED  BY <1>5, <2>1, <2>2 DEF TaskStep
<1> QED  BY <1>1, <1>3, <1>4, <1>5 DEF PipelineStart

LEMMA ProtectStep == ProtectBase /\ [Next]_vars => ProtectInv'
<1> SUFFICES ASSUME ProtectBase, [Next]_vars PROVE ProtectInv'
  OBVIOUS
<1>0. ProtectInv /\ TypeOK
  BY DEF ProtectBase
<1> USE DEF callerVars, interruptVars, stopVars, taskVars, lifecycleVars, turnVars
<1>1. CASE UNCHANGED vars
  BY <1>0, <1>1, ProtectFrame DEF vars
<1>2. ASSUME NEW i \in Interrupters, Interrupt(i) \/ CancelProactive(i) \/ InterruptStep(i)
      PROVE  ProtectInv'
  <2>1. CASE CancelTurn(i)
    <3>1. \A u \in Users : signalled[u] => signalled'[u]
      BY <1>0, <2>1, SignalsStay DEF CancelTurn, Turns
    <3> QED  BY <1>0, <2>1, <3>1, ProtectFrame DEF CancelTurn
  <2> QED  BY <1>0, <1>2, <2>1, ProtectFrame
           DEF InterruptStep, Interrupt, CancelProactive, CancelReturns, ProactiveCancelled
<1>3. ASSUME CloseProactive \/ StopStep  PROVE ProtectInv'
  <2>1. CASE Shutdown
    <3>1. \A u \in Users : signalled[u] => signalled'[u]
      BY <1>0, <2>1, SignalsStay DEF Shutdown, Turns
    <3> QED  BY <1>0, <2>1, <3>1, ProtectFrame DEF Shutdown
  <2> QED  BY <1>0, <1>3, <2>1, ProtectFrame
           DEF StopStep, CloseProactive, ProactiveClosed, AcceptsDrained, PipelinesDrained, Stopped
<1> QED  BY <1>1, <1>2, <1>3, ProtectAccept, ProtectPipeline DEF Next, Turns

LEMMA ProtectInit == Init => ProtectInv
BY DEF Init, LifecycleInit, ProtectInv, UserKeepsLease, UnwindJoins, Live, Turns

(* A user turn that nobody cancelled is protected: it reaches the finally   *)
(* that ends its priority, keeps its lease until then, and its clean-up is  *)
(* not cut short.  A second cancellation of a caller that already unwinds   *)
(* gives the lease back before the pipeline has ended (turns.py:207-210),   *)
(* so the callers of the theorem are cancelled at most once.               *)
THEOREM UserTurnsAreProtected ==
  MaxCallerCancels <= 1 => (Spec => []UserTurnIsProtected)
<1> SUFFICES ASSUME MaxCallerCancels <= 1 PROVE Spec => []UserTurnIsProtected
  OBVIOUS
<1>1. TypeOK /\ ArbitrationInv /\ LeaseInv /\ ProtectInv /\ [Next]_vars => ProtectInv'
  BY ProtectStep DEF ProtectBase
<1>2. ArbitrationInv /\ CancelInv /\ ProtectInv => UserTurnIsProtected
  BY DEF ArbitrationInv, NotYetRunning, CancelInv, UserThrownOnce, ProtectInv,
         UserTurnIsProtected, ProtectedStart, UserCleanupUninterrupted
<1> QED  BY <1>1, <1>2, ProtectInit, TypeCorrect, ArbitrationCorrect, LeaseInvCorrect,
            CancelInvCorrect, PTL DEF Spec

-----------------------------------------------------------------------------
(* The shutdown. *)

LEMMA StopFrame ==
  ASSUME StopInv, UNCHANGED <<spc, drain, lcClosed, closed, acc>>,
         \A t \in Turns : Live(t)' => Live(t),
         \A u \in Users : post'[u] = "pending" => post[u] = "pending"
  PROVE  StopInv'
BY DEF StopInv, Turns

LEMMA StopAccept ==
  ASSUME TypeOK, ArbitrationInv, StopInv, NEW u \in Users,
         Enter(u) \/ AcceptStep(u) \/ CancelCaller(u) \/ Finalize(u)
  PROVE  StopInv'
<1> USE DEF callerVars, interruptVars, stopVars, taskVars, lifecycleVars, turnVars
<1>0. acc \in [Users -> AccStates] /\ post \in [Turns -> {"none", "pending", "done"}]
      /\ u \in Turns
  BY DEF TypeOK, Turns
<1>1. ASSUME NEW s, acc' = [acc EXCEPT ![u] = s], s \in Registered => acc[u] \in Registered,
             UNCHANGED <<task, spc, drain, lcClosed, closed, post>>
      PROVE  StopInv'
  BY <1>0, <1>1 DEF StopInv, Live
<1>2. CASE Enter(u) \/ BeginPriority(u) \/ JoinedProactive(u) \/ Preempt(u)
  BY <1>1, <1>2 DEF Enter, BeginPriority, JoinedProactive, Preempt, Registered
<1>3. CASE RegisterRefused(u) \/ DoNotStart(u) \/ Started(u) \/ ReturnUnstarted(u)
  BY <1>1, <1>3 DEF RegisterRefused, DoNotStart, Started, ReturnUnstarted, Registered
<1>4. CASE Unwind(u) \/ Unwound(u) \/ CallerEnds(u)
  BY <1>1, <1>4 DEF Unwind, Unwound, CallerEnds, Registered
<1>5. CASE CancelCaller(u)
  BY <1>1, <1>5 DEF CancelCaller, Registered
<1>6. CASE Register(u)
  <2>1. ~closed /\ acc' = [acc EXCEPT ![u] = "observing"]
        /\ UNCHANGED <<task, spc, drain, lcClosed, closed, post>>
    BY <1>6 DEF Register
  <2>2. spc \notin {"drainAccept"} \cup AfterAccepts
    BY <2>1 DEF StopInv
  <2> QED  BY <2>1, <2>2 DEF StopInv, Live, AfterAccepts, AfterPipelines
<1>7. CASE StartPipeline(u)
  <2>1. ~closed /\ task' = [task EXCEPT ![u] = "ready"]
        /\ acc' = [acc EXCEPT ![u] = "starting"]
        /\ UNCHANGED <<spc, drain, lcClosed, closed, post>>
    BY <1>7 DEF StartPipeline, MayStart
  <2>2. spc \notin {"drainAccept"} \cup AfterAccepts
    BY <2>1 DEF StopInv
  <2>3. \A p \in Intents : Live(p)' => Live(p)
    BY <2>1, TurnsAssumption DEF Live, TypeOK, LifecycleTypeOK, Turns
  <2> QED  BY <2>1, <2>2, <2>3 DEF StopInv, AfterAccepts, AfterPipelines
<1>8. CASE Finalize(u)
  <2>1. UNCHANGED <<spc, drain, lcClosed, closed, acc, task>>
        /\ post' = [post EXCEPT ![u] = "done"]
    BY <1>8 DEF Finalize
  <2> QED  BY <1>0, <2>1, StopFrame DEF Live, Turns
<1> QED  BY <1>2, <1>3, <1>4, <1>5, <1>6, <1>7, <1>8 DEF AcceptStep

LEMMA StopPipeline ==
  ASSUME TypeOK, ArbitrationInv, StopInv, NEW t \in Turns,
         \/ PipelineStart(t) \/ PipelineResult(t) \/ TaskStep(t)
         \/ t \in Intents /\ SubmitIntent(t)
  PROVE  StopInv'
<1> USE DEF callerVars, interruptVars, stopVars, taskVars, lifecycleVars, turnVars,
           TypeOK, LifecycleTypeOK
<1>1. ASSUME NEW s, task' = [task EXCEPT ![t] = s], Live(t),
             UNCHANGED <<spc, drain, lcClosed, closed, acc, post>>
      PROVE  StopInv'
  <2>1. \A v \in Turns : Live(v)' => Live(v)
    BY <1>1 DEF Live
  <2> QED  BY <1>1, <2>1, StopFrame
<1>2. CASE (t \in Users /\ RunUser(t)) \/ (t \in Intents /\ (RunProactive(t) \/ RejectProactive(t)))
  BY <1>1, <1>2 DEF RunUser, RunProactive, RejectProactive, Live
<1>3. CASE TaskStep(t)
  BY <1>1, <1>3 DEF TaskStep, CancelUnstarted, DeliverCancel, Live
<1>4. CASE PipelineResult(t)
  <2>1. /\ Live(t) /\ task' = [task EXCEPT ![t] = "done"]
        /\ \A v \in Turns : v # t => post'[v] = post[v]
        /\ UNCHANGED <<spc, drain, lcClosed, closed, acc>>
    BY <1>4 DEF PipelineResult, PipelineEnds, Live
  <2>2. \A v \in Turns : Live(v)' => Live(v)
    BY <2>1 DEF Live
  <2>3. t \in Users => spc \notin AfterPipelines
    BY <2>1 DEF StopInv
  <2> QED  BY <2>1, <2>2, <2>3, TurnsAssumption DEF StopInv, Turns, AfterPipelines
<1>5. CASE t \in Intents /\ SubmitIntent(t)
  <2>1. ~lcClosed /\ spc = "up"
    BY <1>5 DEF SubmitIntent, TryStart, CanStart, StopInv
  <2> QED  BY <1>5, <2>1 DEF SubmitIntent, TryStart, StopInv, AfterAccepts, AfterPipelines
<1> QED  BY <1>2, <1>3, <1>4, <1>5 DEF PipelineStart

LEMMA StopItself ==
  ASSUME TypeOK, ArbitrationInv, StopInv, CloseProactive \/ StopStep
  PROVE  StopInv'
<1> USE DEF callerVars, interruptVars, stopVars, taskVars, lifecycleVars, turnVars,
           AfterAccepts, AfterPipelines
<1>1. CASE CloseProactive
  <2>1. \A p \in Intents : Live(p) => p = lcTask /\ p # NoTurn
    BY TurnsAssumption DEF ArbitrationInv, ArbiterKnows
  <2> QED  BY <1>1, <2>1 DEF CloseProactive, StopInv, Live
<1>2. CASE ProactiveClosed
  <2>1. \A p \in Intents : ~Live(p)
    BY <1>2, TurnsAssumption DEF ProactiveClosed, StopInv, Finished
  <2> QED  BY <1>2, <2>1 DEF ProactiveClosed, StopInv, Live
<1>3. CASE Shutdown
  <2>1. \A u \in Users : acc[u] \in Registered => InFlight(u)
    BY DEF Registered, InFlight
  <2>2. /\ spc = "wantShutdown" /\ spc' = "drainAccept" /\ closed' = TRUE
        /\ drain' = {u \in Users : InFlight(u)} /\ UNCHANGED <<task, acc, lcClosed, post>>
    BY <1>3 DEF Shutdown
  <2> QED  BY <2>1, <2>2 DEF StopInv, Live
<1>4. CASE AcceptsDrained
  <2>1. \A u \in Users : acc[u] \notin Registered
    BY <1>4 DEF AcceptsDrained, StopInv, Registered
  <2>2. \A u \in Users : Live(u) => status[u] # "unregistered"
    BY DEF ArbitrationInv, OutputExclusive, NotYetRunning, Live, InPipeline, Turns
  <2>3. /\ spc = "drainAccept" /\ spc' = "drainPipeline"
        /\ drain' = {t \in Turns : Live(t) /\ status[t] # "unregistered"}
        /\ UNCHANGED <<task, acc, lcClosed, closed, post>>
    BY <1>4 DEF AcceptsDrained
  <2> QED  BY <2>1, <2>2, <2>3 DEF StopInv, Live, Turns
<1>5. CASE PipelinesDrained
  <2>1. \A u \in Users : ~Live(u)
    BY <1>5, TurnsAssumption DEF PipelinesDrained, StopInv, Finished
  <2> QED  BY <1>5, <2>1 DEF PipelinesDrained, StopInv, Live
<1>6. CASE Stopped
  <2>1. \A u \in Users : post[u] # "pending"
    BY <1>6 DEF Stopped, StopInv
  <2> QED  BY <1>6, <2>1 DEF Stopped, StopInv, Live
<1> QED  BY <1>1, <1>2, <1>3, <1>4, <1>5, <1>6 DEF StopStep

LEMMA StopStepKeeps == TypeOK /\ ArbitrationInv /\ StopInv /\ [Next]_vars => StopInv'
<1> SUFFICES ASSUME TypeOK, ArbitrationInv, StopInv, [Next]_vars PROVE StopInv'
  OBVIOUS
<1> USE DEF callerVars, interruptVars, stopVars, taskVars, lifecycleVars, turnVars
<1>1. ASSUME UNCHANGED <<spc, drain, lcClosed, closed, acc, task, post>> PROVE StopInv'
  BY <1>1, StopFrame DEF Live
<1>2. CASE UNCHANGED vars
  BY <1>1, <1>2 DEF vars
<1>3. ASSUME NEW i \in Interrupters, Interrupt(i) \/ CancelProactive(i) \/ InterruptStep(i)
      PROVE  StopInv'
  BY <1>1, <1>3 DEF InterruptStep, Interrupt, CancelProactive, CancelTurn,
                    CancelReturns, ProactiveCancelled
<1> QED  BY <1>2, <1>3, StopAccept, StopPipeline, StopItself DEF Next, Turns

LEMMA StopInit == Init => StopInv
BY DEF Init, StopInv, AfterAccepts, AfterPipelines

(* Every wait of the shutdown leaves behind what the next relies on. *)
THEOREM StopInvCorrect == Spec => []StopInv
BY StopInit, StopStepKeeps, TypeCorrect, ArbitrationCorrect, PTL DEF Spec

(* shutdown leaves nothing behind: the accepts that were in flight, their   *)
(* pipelines and their deferred completions are waited for in an order in   *)
(* which none of them can start another.                                   *)
THEOREM ShutdownLeavesNothing == Spec => []StoppedIsQuiet
<1>1. TypeOK /\ RegistryInv /\ StopInv => StoppedIsQuiet
  <2> SUFFICES ASSUME TypeOK, RegistryInv, StopInv, spc = "stopped"
               PROVE  /\ \A u \in Users : acc[u] # "observing"
                      /\ \A t \in Turns : ~Live(t) /\ post[t] # "pending"
                      /\ active = NoTurn
                      /\ HasPipeline => \A t \in Turns : ~Open(t)
    BY DEF StoppedIsQuiet
  <2>1. /\ \A u \in Users : acc[u] # "observing" /\ ~Live(u) /\ post[u] # "pending"
        /\ \A p \in Intents : ~Live(p)
        /\ closed
    BY DEF StopInv, Registered, AfterAccepts, AfterPipelines
  <2>2. \A p \in Intents : post[p] # "pending"
    BY TurnsAssumption DEF RegistryInv, CompletionDeferred, Turns
  <2>3. active = NoTurn
    BY <2>1 DEF RegistryInv, ClosedUnwinds, InPipeline, Live, TypeOK, Turns
  <2>4. HasPipeline => \A t \in Turns : ~Open(t)
    BY <2>3, TurnsAssumption DEF RegistryInv, OpenTurnIsActive, Turns
  <2> QED  BY <2>1, <2>2, <2>3, <2>4 DEF Turns
<1> QED  BY <1>1, TypeCorrect, RegistryCorrect, StopInvCorrect, PTL

-----------------------------------------------------------------------------
(* Every step of the service is a step of the arbiter, or leaves it alone. *)

ArbiterSame == UNCHANGED <<status, active, announced, closed>>
ArbiterStep == Arbiter!Next \/ ArbiterSame

LEMMA EndsIsEnd ==
  ASSUME TypeOK, ArbitrationInv, RegistryInv, NEW v \in Turns, Ends(v)
  PROVE  Arbiter!End(v, "cancelled")
<1>1. status[v] = "accepted"
  BY DEF Ends, Open, RegistryInv, StreamingRuns, InPipeline, Live
<1>2. v \in Arbiter!Turns
  BY DEF Turns, Arbiter!Turns
<1> QED  BY <1>1 DEF Ends, Terminate, ClearActive, Arbiter!End

LEMMA ClaimAccept ==
  ASSUME TypeOK, ArbitrationInv, RegistryInv, NEW u \in Users,
         Enter(u) \/ AcceptStep(u) \/ CancelCaller(u)
  PROVE  ArbiterStep
<1>1. u \in Turns /\ u \in Arbiter!Turns
  BY DEF Turns, Arbiter!Turns
<1>2. CASE Register(u)
  <2>1. active = NoTurn /\ status[u] = "unregistered"
    BY <1>2 DEF Register, Finished, ArbitrationInv, CallerProgress, BeforeRegistration,
                HoldsAcceptLock
  <2>2. Arbiter!Claim(u)
    BY <1>2, <2>1 DEF Register, RegisterAs, Arbiter!Claim
  <2> QED  BY <1>1, <2>2 DEF ArbiterStep, Arbiter!Next
<1>3. ASSUME UNCHANGED <<status, active, announced>> \/ \E v \in Turns : Ends(v),
             UNCHANGED closed
      PROVE  ArbiterStep
  <2>1. ASSUME NEW v \in Turns, Ends(v)  PROVE ArbiterStep
    BY <1>3, <2>1, EndsIsEnd
       DEF ArbiterStep, Arbiter!Next, Arbiter!Turns, Turns, Arbiter!Ends
  <2> QED  BY <1>3, <2>1 DEF ArbiterStep, ArbiterSame
<1>4. CASE Preempt(u)
  BY <1>3, <1>4, SignalActiveCases DEF Preempt, Ends
<1>5. CASE Unwind(u)
  BY <1>1, <1>3, <1>5, CancelRegisteredCases DEF Unwind
<1>6. CASE ReturnUnstarted(u)
  <2>1. CASE active = u
    <3>1. ~HasPipeline
      BY <1>6, <2>1 DEF ReturnUnstarted, RegistryInv, DeclinedHasLost
    <3>2. Arbiter!Release(u)
      BY <1>6, <2>1, <3>1 DEF ReturnUnstarted, ClearActive, Arbiter!Release
    <3> QED  BY <3>2 DEF ArbiterStep, Arbiter!Next
  <2>2. CASE active # u
    BY <1>6, <2>2 DEF ReturnUnstarted, ClearActive, ArbiterStep, ArbiterSame
  <2> QED  BY <2>1, <2>2
<1>7. CASE ~Register(u) /\ ~Preempt(u) /\ ~Unwind(u) /\ ~ReturnUnstarted(u)
  <2>1. ArbiterSame
    BY <1>7 DEF AcceptStep, Enter, BeginPriority, JoinedProactive, RegisterRefused,
               StartPipeline, DoNotStart, Started, Unwound, CallerEnds, CancelCaller,
               turnVars, ArbiterSame
  <2> QED  BY <2>1 DEF ArbiterStep
<1> QED  BY <1>2, <1>4, <1>5, <1>6, <1>7

LEMMA PipelineEndsIsEnd ==
  ASSUME TypeOK, ArbitrationInv, RegistryInv, NEW t \in Turns,
         NEW result \in Terminal, PipelineEnds(t, result)
  PROVE  ArbiterStep
<1> DEFINE final == EndStatus(t, result)
<1>1. final \in Terminal
  BY DEF EndStatus, Terminal
<1>2. active = t /\ status[t] = "streaming"
  BY DEF PipelineEnds, ArbitrationInv, OutputExclusive, InPipeline
<1>3. /\ status' = [status EXCEPT ![t] = final]
      /\ active' = NoTurn
  BY <1>2 DEF PipelineEnds, ClearActive, Terminal
<1>4. announced' = IF final = "completed" /\ t \in Users THEN announced
                   ELSE [announced EXCEPT ![t] = Append(@, final)]
  <2>1. announced' = [announced EXCEPT ![t] =
                        IF ~(final = "completed" /\ t \in Users) THEN Append(@, final) ELSE @]
    BY <1>2, Zenon DEF PipelineEnds, Terminal
  <2>2. announced \in [Turns -> Seq(Terminal)]
    BY DEF TypeOK
  <2> HIDE DEF final
  <2>3. CASE final = "completed" /\ t \in Users
    <3>1. announced' = [announced EXCEPT ![t] = announced[t]]
      BY ONLY <2>1, <2>3
    <3> QED  BY ONLY <2>2, <2>3, <3>1
  <2>4. CASE ~(final = "completed" /\ t \in Users)
    BY ONLY <2>1, <2>4
  <2> QED  BY <2>3, <2>4
<1>5. UNCHANGED closed
  BY DEF PipelineEnds
<1> HIDE DEF final
<1>6. Arbiter!End(t, final)
  BY <1>2, <1>3, <1>4 DEF Arbiter!End
<1> QED  BY <1>1, <1>5, <1>6
         DEF ArbiterStep, Arbiter!Next, Arbiter!Turns, Turns, Arbiter!Ends, Terminal

LEMMA ArbiterPipeline ==
  ASSUME TypeOK, ArbitrationInv, RegistryInv, NEW t \in Turns,
         \/ PipelineStart(t) \/ PipelineResult(t) \/ TaskStep(t)
         \/ t \in Intents /\ SubmitIntent(t)
         \/ t \in Users /\ Finalize(t)
  PROVE  ArbiterStep
<1>1. CASE t \in Users /\ RunUser(t)
  <2>1. active = t /\ status[t] = "accepted"
    BY <1>1 DEF RunUser, ArbitrationInv, NotYetRunning
  <2>2. Arbiter!Generate(t)
    BY <1>1, <2>1 DEF RunUser, Arbiter!Generate
  <2> QED  BY <1>1, <2>2 DEF ArbiterStep, Arbiter!Next
<1>2. CASE t \in Intents /\ RunProactive(t)
  <2>1. status[t] = "unregistered" /\ t \notin Users
    BY <1>2 DEF RunProactive, ArbitrationInv, NotYetRunning
  <2>2. Arbiter!Claim(t)
    BY <1>2, <2>1 DEF RunProactive, RegisterAs, Arbiter!Claim
  <2> QED  BY <2>2 DEF ArbiterStep, Arbiter!Next, Arbiter!Turns, Turns
<1>3. CASE t \in Intents /\ RejectProactive(t)
  BY <1>3 DEF RejectProactive, turnVars, ArbiterStep, ArbiterSame
<1>4. CASE PipelineResult(t)
  BY <1>4, PipelineEndsIsEnd DEF PipelineResult
<1>5. CASE TaskStep(t)
  BY <1>5 DEF TaskStep, turnVars, ArbiterStep, ArbiterSame
<1>6. CASE t \in Intents /\ SubmitIntent(t)
  BY <1>6 DEF SubmitIntent, turnVars, ArbiterStep, ArbiterSame
<1>7. CASE t \in Users /\ Finalize(t)
  <2>1. status[t] = "completed" /\ announced[t] = <<>>
    BY <1>7 DEF Finalize, RegistryInv, CompletionDeferred
  <2>2. announced' = [announced EXCEPT ![t] = <<"completed">>]
    BY <1>7, <2>1, AppendToEmpty DEF Finalize
  <2>3. Arbiter!Tell(t)
    BY <1>7, <2>1, <2>2 DEF Finalize, Arbiter!Tell
  <2> QED  BY <1>7, <2>3 DEF ArbiterStep, Arbiter!Next
<1> QED  BY <1>1, <1>2, <1>3, <1>4, <1>5, <1>6, <1>7 DEF PipelineStart

LEMMA ArbiterInterrupt ==
  ASSUME TypeOK, ArbitrationInv, RegistryInv, NEW i \in Interrupters,
         Interrupt(i) \/ CancelProactive(i) \/ InterruptStep(i)
  PROVE  ArbiterStep
<1>1. CASE CancelTurn(i)
  <2>1. itgt[i] \in Turns /\ CancelRegistered(itgt[i]) /\ UNCHANGED closed
    BY <1>1 DEF CancelTurn, RegistryInv, InterruptHasTarget
  <2>2. ASSUME NEW v \in Turns, Ends(v)  PROVE ArbiterStep
    BY <2>1, <2>2, EndsIsEnd
       DEF ArbiterStep, Arbiter!Next, Arbiter!Turns, Turns, Arbiter!Ends
  <2> QED  BY <2>1, <2>2, CancelRegisteredCases DEF ArbiterStep, ArbiterSame
<1>2. CASE ~CancelTurn(i)
  BY <1>2 DEF InterruptStep, Interrupt, CancelProactive, CancelReturns, ProactiveCancelled,
              turnVars, ArbiterStep, ArbiterSame
<1> QED  BY <1>1, <1>2

LEMMA ArbiterStop ==
  ASSUME TypeOK, ArbitrationInv, RegistryInv, CloseProactive \/ StopStep
  PROVE  ArbiterStep
<1>1. CASE Shutdown
  <2>1. closed' = TRUE /\ SignalActive
    BY <1>1 DEF Shutdown
  <2>2. CASE UNCHANGED <<status, active, announced>>
    BY <2>1, <2>2 DEF ArbiterStep, Arbiter!Next, Arbiter!Close
  <2>3. CASE Ends(active)
    <3>1. Arbiter!End(active, "cancelled")
      BY <2>3, EndsIsEnd DEF Ends
    <3> QED  BY <2>1, <3>1 DEF ArbiterStep, Arbiter!Next, Arbiter!Close
  <2> QED  BY <2>1, <2>2, <2>3, SignalActiveCases
<1>2. CASE ~Shutdown
  BY <1>2 DEF StopStep, CloseProactive, ProactiveClosed, AcceptsDrained, PipelinesDrained,
              Stopped, turnVars, ArbiterStep, ArbiterSame
<1> QED  BY <1>1, <1>2

(* The turn service implements the arbiter of one output: turns claim it    *)
(* when nobody has it, give it up as they end, and are told of once.        *)
THEOREM ServiceImplementsArbiter == Spec => ImplementsArbiter
<1>1. Init => Arbiter!Init
  BY DEF Init, Arbiter!Init, Arbiter!Turns, Turns
<1>2. TypeOK /\ ArbitrationInv /\ RegistryInv /\ [Next]_vars
        => [Arbiter!Next]_(Arbiter!vars)
  <2> SUFFICES ASSUME TypeOK, ArbitrationInv, RegistryInv, [Next]_vars
               PROVE  [Arbiter!Next]_(Arbiter!vars)
    OBVIOUS
  <2>1. ArbiterSame => UNCHANGED Arbiter!vars
    BY DEF ArbiterSame, Arbiter!vars
  <2>2. CASE UNCHANGED vars
    BY <2>1, <2>2 DEF vars, turnVars, ArbiterSame
  <2>3. CASE Next
    <3>1. ArbiterStep
      BY <2>3, ClaimAccept, ArbiterPipeline, ArbiterInterrupt, ArbiterStop DEF Next, Turns
    <3> QED  BY <2>1, <3>1 DEF ArbiterStep
  <2> QED  BY <2>2, <2>3
<1> QED  BY <1>1, <1>2, TypeCorrect, ArbitrationCorrect, RegistryCorrect, PTL
         DEF Spec, ImplementsArbiter, Arbiter!Spec
=============================================================================
