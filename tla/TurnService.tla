----------------------------- MODULE TurnService -----------------------------
(***************************************************************************)
(* app/core/turns.py: the service that owns the single output of the       *)
(* companion.  It registers turns, preempts the active one, runs pipelines *)
(* and stops, over the arbiter of ProactiveLifecycle.                      *)
(*                                                                         *)
(* A task of the event loop is a program counter; an action is the code    *)
(* from one await that may suspend to the next.  Every acquisition of      *)
(* _accept_lock or _coordination_lock, and every join, starts an action: a *)
(* lock that is free is taken without suspending, so the model has more    *)
(* interleavings than the loop, and the locks alone must be enough.        *)
(*                                                                         *)
(*   _accept_lock        held at joinProactive, wantSignal, joinOld        *)
(*   _coordination_lock  held across a suspension only at "starting";      *)
(*                       every other section of it is within one action    *)
(*   _output_lock        not a guard: OutputExclusive shows it is never    *)
(*                       contended                                         *)
(***************************************************************************)
EXTENDS ProactiveLifecycle, Sequences, Naturals

CONSTANTS Interrupters,     \* concurrent callers of cancel and cancel_active
          Sessions,         \* session ids
          SessionOf,        \* the session of every turn
          HasPipeline,      \* the service was given a pipeline
          MaxCallerCancels  \* bound on cancellations of the callers of accept

ASSUME ServiceAssumption == /\ SessionOf \in [Turns -> Sessions]
                            /\ HasPipeline \in BOOLEAN
                            /\ MaxCallerCancels \in Nat

VARIABLES
  status,         \* _states[t].status, "unregistered" when t is not a key
  sessionTurn,    \* _session_turn
  active,         \* _active.turn_id; its task is the turn's once created
  signalled,      \* _ActiveTurn.cancellation_started
  closed,         \* _closed
  announced,      \* history: the terminal events published for a turn
  post,           \* the _finalize_completed task of a turn
  acc,            \* the task that calls accept for a user turn
  joining,        \* the turn whose task that caller joins
  callerCancels,  \* how often a caller of accept was cancelled
  ipc,            \* an interrupter
  itgt,           \* the turn it cancels, then joins
  spc,            \* the shutdown of the application (main.py lifespan)
  drain           \* the turns whose tasks it waits for

turnVars == <<status, sessionTurn, active, signalled, announced>>
callerVars == <<acc, joining, callerCancels>>
interruptVars == <<ipc, itgt>>
stopVars == <<spc, drain>>
vars == <<taskVars, lifecycleVars, turnVars, closed, post, callerVars,
          interruptVars, stopVars>>

Terminal == {"completed", "cancelled", "failed"}
Statuses == {"unregistered", "accepted", "streaming"} \cup Terminal

AccStates == {"idle", "wantAccept", "joinProactive", "wantSignal", "joinOld",
              "observing", "starting", "wantClear",
              "wantUnwind", "joinUnwind", "returned", "done"}
HoldsAcceptLock == {"joinProactive", "wantSignal", "joinOld"}
StopStates == {"up", "joinProactive", "wantShutdown", "drainAccept",
               "drainPipeline", "drainPost", "stopped"}

TypeOK ==
  /\ LifecycleTypeOK
  /\ status \in [Turns -> Statuses]
  /\ sessionTurn \in [Sessions -> Turns \cup {NoTurn}]
  /\ active \in Turns \cup {NoTurn}
  /\ signalled \in [Turns -> BOOLEAN]
  /\ closed \in BOOLEAN
  /\ announced \in [Turns -> Seq(Terminal)]
  /\ post \in [Turns -> {"none", "pending", "done"}]
  /\ acc \in [Users -> AccStates]
  /\ joining \in [Users -> Turns \cup {NoTurn}]
  /\ callerCancels \in Nat
  /\ ipc \in [Interrupters -> {"idle", "wantCancel", "join", "joinProactive"}]
  /\ itgt \in [Interrupters -> Turns \cup {NoTurn}]
  /\ spc \in StopStates
  /\ drain \in SUBSET Turns

Init ==
  /\ LifecycleInit
  /\ status = [t \in Turns |-> "unregistered"]
  /\ sessionTurn = [s \in Sessions |-> NoTurn]
  /\ active = NoTurn
  /\ signalled = [t \in Turns |-> FALSE]
  /\ closed = FALSE
  /\ announced = [t \in Turns |-> <<>>]
  /\ post = [t \in Turns |-> "none"]
  /\ acc = [u \in Users |-> "idle"]
  /\ joining = [u \in Users |-> NoTurn]
  /\ callerCancels = 0
  /\ ipc = [i \in Interrupters |-> "idle"]
  /\ itgt = [i \in Interrupters |-> NoTurn]
  /\ spc = "up"
  /\ drain = {}

-----------------------------------------------------------------------------
(* The registry of turns. *)

CoordFree == \A u \in Users : acc[u] # "starting"
AcceptFree == \A u \in Users : acc[u] \notin HoldsAcceptLock
Finished(t) == t # NoTurn => ~Live(t)
InFlight(u) == acc[u] \notin {"idle", "returned", "done"}

(* _clear_active_locked *)
ClearActive_KeepsSession(t) ==
  active' = (IF active = t THEN NoTurn ELSE active) /\ UNCHANGED sessionTurn

ClearActive(t) ==
  /\ active' = IF active = t THEN NoTurn ELSE active
  /\ sessionTurn' = [s \in Sessions |->
                       IF sessionTurn[s] = t THEN NoTurn ELSE sessionTurn[s]]

(* The registration of a turn in accept and run_proactive. *)
RegisterAs(t, st) ==
  /\ status' = [status EXCEPT ![t] = st]
  /\ sessionTurn' = [sessionTurn EXCEPT ![SessionOf[t]] = t]
  /\ active' = t
  /\ signalled' = [signalled EXCEPT ![t] = FALSE]
  /\ UNCHANGED announced

(* A turn without a task becomes cancelled and its event is published. *)
Terminate_Silent(t) ==
  /\ status' = [status EXCEPT ![t] = "cancelled"]
  /\ ClearActive(t)
  /\ UNCHANGED <<announced, signalled, token, throw>>

Terminate(t) ==
  /\ status' = [status EXCEPT ![t] = "cancelled"]
  /\ announced' = [announced EXCEPT ![t] = Append(@, "cancelled")]
  /\ ClearActive(t)
  /\ UNCHANGED <<signalled, token, throw>>

(* _signal_active_cancellation_locked; the task it returns to be joined is *)
(* that of ToJoin.                                                         *)
NothingActive == active # NoTurn => status[active] \in Terminal
ToJoin == IF NothingActive \/ ~Live(active) THEN NoTurn ELSE active

(* already_signalled is read before the token is cancelled. *)
CancelActiveTask_LateRead ==
  /\ signalled' = [signalled EXCEPT ![active] = TRUE]
  /\ token' = [token EXCEPT ![active] = TRUE]
  /\ UNCHANGED throw

CancelActiveTask_EveryTime ==
  /\ signalled' = [signalled EXCEPT ![active] = TRUE]
  /\ token' = [token EXCEPT ![active] = TRUE]
  /\ throw' = [throw EXCEPT ![active] = TRUE]

CancelActiveTask ==
  IF signalled[active]
  THEN UNCHANGED <<signalled, token, throw>>
  ELSE /\ signalled' = [signalled EXCEPT ![active] = TRUE]
       /\ token' = [token EXCEPT ![active] = TRUE]
       /\ throw' = [throw EXCEPT ![active] = @ \/ ~token[active]]

SignalActive ==
  \/ /\ NothingActive
     /\ ClearActive(active)
     /\ UNCHANGED <<status, signalled, announced, token, throw>>
  \/ /\ ~NothingActive /\ ~Live(active)
     /\ Terminate(active)
  \/ /\ ~NothingActive /\ Live(active)
     /\ CancelActiveTask
     /\ UNCHANGED <<status, sessionTurn, active, announced>>

(* _cancel_registered_turn *)
CancelRegistered(t) ==
  \/ /\ status[t] \in Terminal \cup {"unregistered"}
     /\ UNCHANGED <<turnVars, token, throw>>
  \/ /\ status[t] \in {"accepted", "streaming"} /\ active = t
     /\ SignalActive
  \/ /\ status[t] \in {"accepted", "streaming"} /\ active # t
     /\ Terminate(t)

RegisteredToJoin(t) ==
  IF active = t /\ status[t] # "unregistered" THEN ToJoin ELSE NoTurn

-----------------------------------------------------------------------------
(* accept *)

Enter(u) ==
  /\ acc[u] = "idle"
  /\ acc' = [acc EXCEPT ![u] = "wantAccept"]
  /\ UNCHANGED <<taskVars, lifecycleVars, turnVars, closed, post, joining,
                 callerCancels, interruptVars, stopVars>>

BeginPriority(u) ==
  /\ acc[u] = "wantAccept"
  /\ AcceptFree
  /\ BeginUserTurn(u)
  /\ joining' = [joining EXCEPT ![u] = lcTask]
  /\ acc' = [acc EXCEPT ![u] = "joinProactive"]
  /\ UNCHANGED <<task, interrupted, lcTask, lcClosed, turnVars, closed, post,
                 callerCancels, interruptVars, stopVars>>

JoinedProactive(u) ==
  /\ acc[u] = "joinProactive"
  /\ Finished(joining[u])
  /\ ForgetFinished(joining[u])
  /\ acc' = [acc EXCEPT ![u] = "wantSignal"]
  /\ UNCHANGED <<taskVars, leases, lcClosed, turnVars, closed, post, joining,
                 callerCancels, interruptVars, stopVars>>

Preempt(u) ==
  /\ acc[u] = "wantSignal"
  /\ CoordFree
  /\ SignalActive
  /\ joining' = [joining EXCEPT ![u] = ToJoin]
  /\ acc' = [acc EXCEPT ![u] = "joinOld"]
  /\ UNCHANGED <<task, interrupted, lifecycleVars, closed, post,
                 callerCancels, interruptVars, stopVars>>

Register_WithoutJoin(u) ==
  /\ acc[u] = "joinOld"
  /\ CoordFree
  /\ ~closed
  /\ RegisterAs(u, "accepted")
  /\ acc' = [acc EXCEPT ![u] = "observing"]
  /\ UNCHANGED <<taskVars, lifecycleVars, closed, post, joining,
                 callerCancels, interruptVars, stopVars>>

Register(u) ==
  /\ acc[u] = "joinOld"
  /\ Finished(joining[u])
  /\ CoordFree
  /\ ~closed
  /\ RegisterAs(u, "accepted")
  /\ acc' = [acc EXCEPT ![u] = "observing"]
  /\ UNCHANGED <<taskVars, lifecycleVars, closed, post, joining,
                 callerCancels, interruptVars, stopVars>>

RegisterRefused_KeepsLease(u) ==
  /\ acc[u] = "joinOld"
  /\ Finished(joining[u])
  /\ CoordFree
  /\ closed
  /\ acc' = [acc EXCEPT ![u] = "returned"]
  /\ UNCHANGED <<taskVars, lifecycleVars, turnVars, closed, post, joining,
                 callerCancels, interruptVars, stopVars>>

RegisterRefused(u) ==
  /\ acc[u] = "joinOld"
  /\ Finished(joining[u])
  /\ CoordFree
  /\ closed
  /\ EndUserTurn(u)
  /\ acc' = [acc EXCEPT ![u] = "returned"]
  /\ UNCHANGED <<taskVars, lcTask, lcSignalled, lcClosed, turnVars, closed,
                 post, joining, callerCancels, interruptVars, stopVars>>

(* The observers returned; the pipeline starts if the turn still has the   *)
(* output.                                                                 *)
MayStart(u) == ~closed /\ status[u] = "accepted" /\ active = u

StartPipeline(u) ==
  /\ acc[u] = "observing"
  /\ HasPipeline /\ CoordFree /\ MayStart(u)
  /\ task' = [task EXCEPT ![u] = "ready"]
  /\ acc' = [acc EXCEPT ![u] = "starting"]
  /\ UNCHANGED <<throw, interrupted, token, lifecycleVars, turnVars, closed,
                 post, joining, callerCancels, interruptVars, stopVars>>

DoNotStart(u) ==
  /\ acc[u] = "observing"
  /\ HasPipeline => CoordFree /\ ~MayStart(u)
  /\ acc' = [acc EXCEPT ![u] = "wantClear"]
  /\ UNCHANGED <<taskVars, lifecycleVars, turnVars, closed, post, joining,
                 callerCancels, interruptVars, stopVars>>

(* started is set right after the turn leaves "accepted".  From then on the *)
(* pipeline task ends the priority, no longer its caller.                  *)
Started(u) ==
  /\ acc[u] = "starting"
  /\ status[u] # "accepted"
  /\ acc' = [acc EXCEPT ![u] = "returned"]
  /\ UNCHANGED <<taskVars, lifecycleVars, turnVars, closed, post, joining,
                 callerCancels, interruptVars, stopVars>>

ReturnUnstarted(u) ==
  /\ acc[u] = "wantClear"
  /\ CoordFree
  /\ ClearActive(u)
  /\ EndUserTurn(u)
  /\ acc' = [acc EXCEPT ![u] = "returned"]
  /\ UNCHANGED <<taskVars, lcTask, lcSignalled, lcClosed, status, signalled,
                 announced, closed, post, joining, callerCancels,
                 interruptVars, stopVars>>

(* The task that called accept ends: a request handler, a voice submission *)
(* or the receiver of a WebSocket.                                         *)
CallerEnds(u) ==
  /\ acc[u] = "returned"
  /\ acc' = [acc EXCEPT ![u] = "done"]
  /\ UNCHANGED <<taskVars, lifecycleVars, turnVars, closed, post, joining,
                 callerCancels, interruptVars, stopVars>>

(* CancelledError reaches the caller at its await.  The loop runs ready    *)
(* tasks in order: a pipeline task created before the cancellation takes   *)
(* its first step before the caller sees it.                               *)
CancelCaller(u) ==
  /\ callerCancels < MaxCallerCancels
  /\ callerCancels' = callerCancels + 1
  /\ \/ /\ acc[u] \in {"wantAccept", "joinProactive", "wantSignal", "joinOld",
                       "wantUnwind", "joinUnwind"}
        /\ EndUserTurn(u)
        /\ acc' = [acc EXCEPT ![u] = "returned"]
     \/ /\ acc[u] \in {"observing", "starting", "wantClear"}
        /\ acc[u] = "starting" => task[u] # "ready"
        /\ acc' = [acc EXCEPT ![u] = "wantUnwind"]
        /\ UNCHANGED leases
  /\ UNCHANGED <<taskVars, lcTask, lcSignalled, lcClosed, turnVars, closed,
                 post, joining, interruptVars, stopVars>>

(* The except block: cancel the turn this call registered. *)
Unwind(u) ==
  /\ acc[u] = "wantUnwind"
  /\ CoordFree
  /\ CancelRegistered(u)
  /\ joining' = [joining EXCEPT ![u] = RegisteredToJoin(u)]
  /\ acc' = [acc EXCEPT ![u] = "joinUnwind"]
  /\ UNCHANGED <<task, interrupted, lifecycleVars, closed, post,
                 callerCancels, interruptVars, stopVars>>

Unwound(u) ==
  /\ acc[u] = "joinUnwind"
  /\ Finished(joining[u])
  /\ EndUserTurn(u)
  /\ acc' = [acc EXCEPT ![u] = "returned"]
  /\ UNCHANGED <<taskVars, lcTask, lcSignalled, lcClosed, turnVars, closed,
                 post, joining, callerCancels, interruptVars, stopVars>>

-----------------------------------------------------------------------------
(* Pipeline tasks: _run_user and run_proactive inside _run. *)

RunUser(u) ==
  /\ task[u] = "ready"
  /\ ~throw[u]
  /\ task' = [task EXCEPT ![u] = "running"]
  /\ status' = [status EXCEPT ![u] = "streaming"]
  /\ UNCHANGED <<throw, interrupted, token, lifecycleVars, sessionTurn,
                 active, signalled, announced, closed, post, callerVars,
                 interruptVars, stopVars>>

(* ProactiveRuntime.submit found a trigger worth an intent. *)
SubmitIntent(p) ==
  /\ TryStart(p)
  /\ UNCHANGED <<turnVars, closed, post, callerVars, interruptVars, stopVars>>

RunProactive(p) ==
  /\ task[p] = "ready"
  /\ ~throw[p]
  /\ HasPipeline
  /\ CoordFree
  /\ ~closed /\ active = NoTurn
  /\ task' = [task EXCEPT ![p] = "running"]
  /\ RegisterAs(p, "streaming")
  /\ UNCHANGED <<throw, interrupted, token, lifecycleVars, closed, post,
                 callerVars, interruptVars, stopVars>>

RejectProactive(p) ==
  /\ task[p] = "ready"
  /\ ~throw[p]
  /\ HasPipeline => CoordFree /\ (closed \/ active # NoTurn)
  /\ task' = [task EXCEPT ![p] = "done"]
  /\ token' = [token EXCEPT ![p] = HasPipeline]
  /\ ForgetSelf(p)
  /\ UNCHANGED <<throw, interrupted, leases, lcClosed, turnVars, closed, post,
                 callerVars, interruptVars, stopVars>>

(* The pipeline is over with the given result.  One that returns although   *)
(* its token is cancelled counts as cancelled.                              *)
EndStatus(t, result) ==
  IF result = "completed" /\ token[t] THEN "cancelled" ELSE result

PipelineEnds(t, result) ==
  LET final == EndStatus(t, result)
      open == status[t] \notin Terminal
      deferred == final = "completed" /\ t \in Users
  IN  /\ task[t] \in {"running", "cleanup"}
      /\ ~throw[t]
      /\ result = "cancelled" => task[t] = "cleanup"
      /\ task' = [task EXCEPT ![t] = "done"]
      /\ status' = [status EXCEPT ![t] =
                      IF open \/ final = "completed" THEN final ELSE @]
      /\ announced' = [announced EXCEPT ![t] =
                         IF (open \/ final = "completed") /\ ~deferred
                         THEN Append(@, final) ELSE @]
      /\ post' = [post EXCEPT ![t] = IF deferred THEN "pending" ELSE @]
      /\ ClearActive(t)
      /\ leases' = leases \ {t}
      /\ ForgetSelf(t)
      /\ UNCHANGED <<throw, interrupted, token, lcClosed, signalled, closed,
                     callerVars, interruptVars, stopVars>>

(* _finalize_completed: the observers of completion, then the event. *)
Finalize_Silent(u) ==
  /\ post[u] = "pending"
  /\ post' = [post EXCEPT ![u] = "done"]
  /\ UNCHANGED <<taskVars, lifecycleVars, turnVars, closed, callerVars,
                 interruptVars, stopVars>>

Finalize(u) ==
  /\ post[u] = "pending"
  /\ post' = [post EXCEPT ![u] = "done"]
  /\ announced' = [announced EXCEPT ![u] = Append(@, "completed")]
  /\ UNCHANGED <<taskVars, lifecycleVars, status, sessionTurn, active,
                 signalled, closed, callerVars, interruptVars, stopVars>>

TaskStep(t) ==
  /\ CancelUnstarted(t) \/ DeliverCancel(t)
  /\ UNCHANGED <<turnVars, closed, post, callerVars, interruptVars, stopVars>>

-----------------------------------------------------------------------------
(* cancel(session_id) and cancel(turn_id): the target is looked up before   *)
(* the coordination lock is requested.                                      *)

Interrupt(i) ==
  /\ ipc[i] = "idle"
  /\ \E t \in Turns :
       /\ \/ status[t] # "unregistered"
          \/ \E s \in Sessions : sessionTurn[s] = t
       /\ itgt' = [itgt EXCEPT ![i] = t]
  /\ ipc' = [ipc EXCEPT ![i] = "wantCancel"]
  /\ UNCHANGED <<taskVars, lifecycleVars, turnVars, closed, post, callerVars,
                 stopVars>>

CancelTurn(i) ==
  /\ ipc[i] = "wantCancel"
  /\ CoordFree
  /\ CancelRegistered(itgt[i])
  /\ itgt' = [itgt EXCEPT ![i] = RegisteredToJoin(itgt[i])]
  /\ ipc' = [ipc EXCEPT ![i] = "join"]
  /\ UNCHANGED <<task, interrupted, lifecycleVars, closed, post, callerVars,
                 stopVars>>

CancelReturns(i) ==
  /\ ipc[i] = "join"
  /\ Finished(itgt[i])
  /\ ipc' = [ipc EXCEPT ![i] = "idle"]
  /\ itgt' = [itgt EXCEPT ![i] = NoTurn]
  /\ UNCHANGED <<taskVars, lifecycleVars, turnVars, closed, post, callerVars,
                 stopVars>>

(* cancel_active: a feature was switched off, or perception turned sensitive. *)
CancelProactive(i) ==
  /\ ipc[i] = "idle"
  /\ SignalProactive
  /\ itgt' = [itgt EXCEPT ![i] = lcTask]
  /\ ipc' = [ipc EXCEPT ![i] = "joinProactive"]
  /\ UNCHANGED <<task, interrupted, leases, lcTask, lcClosed, turnVars, closed,
                 post, callerVars, stopVars>>

ProactiveCancelled(i) ==
  /\ ipc[i] = "joinProactive"
  /\ Finished(itgt[i])
  /\ ForgetFinished(itgt[i])
  /\ ipc' = [ipc EXCEPT ![i] = "idle"]
  /\ itgt' = [itgt EXCEPT ![i] = NoTurn]
  /\ UNCHANGED <<taskVars, leases, lcClosed, turnVars, closed, post,
                 callerVars, stopVars>>

-----------------------------------------------------------------------------
(* The end of the lifespan: ProactiveLifecycle.close, then shutdown. *)

CloseProactive ==
  /\ spc = "up"
  /\ lcClosed' = TRUE
  /\ SignalProactive
  /\ drain' = {lcTask} \ {NoTurn}
  /\ spc' = "joinProactive"
  /\ UNCHANGED <<task, interrupted, leases, lcTask, turnVars, closed, post,
                 callerVars, interruptVars>>

ProactiveClosed ==
  /\ spc = "joinProactive"
  /\ \A t \in drain : Finished(t)
  /\ ForgetFinished(IF lcTask \in drain THEN lcTask ELSE NoTurn)
  /\ spc' = "wantShutdown"
  /\ UNCHANGED <<taskVars, leases, lcClosed, turnVars, closed, post,
                 callerVars, interruptVars, drain>>

Shutdown ==
  /\ spc = "wantShutdown"
  /\ CoordFree
  /\ closed' = TRUE
  /\ SignalActive
  /\ drain' = {u \in Users : InFlight(u)}
  /\ spc' = "drainAccept"
  /\ UNCHANGED <<task, interrupted, lifecycleVars, post, callerVars,
                 interruptVars>>

AcceptsDrained ==
  /\ spc = "drainAccept"
  /\ \A u \in drain : acc[u] = "done"
  /\ drain' = {t \in Turns : Live(t) /\ status[t] # "unregistered"}
  /\ spc' = "drainPipeline"
  /\ UNCHANGED <<taskVars, lifecycleVars, turnVars, closed, post, callerVars,
                 interruptVars>>

PipelinesDrained_SkipsFinalizers ==
  /\ spc = "drainPipeline"
  /\ \A t \in drain : Finished(t)
  /\ drain' = {}
  /\ spc' = "drainPost"
  /\ UNCHANGED <<taskVars, lifecycleVars, turnVars, closed, post, callerVars,
                 interruptVars>>

PipelinesDrained ==
  /\ spc = "drainPipeline"
  /\ \A t \in drain : Finished(t)
  /\ drain' = {u \in Users : post[u] = "pending"}
  /\ spc' = "drainPost"
  /\ UNCHANGED <<taskVars, lifecycleVars, turnVars, closed, post, callerVars,
                 interruptVars>>

Stopped ==
  /\ spc = "drainPost"
  /\ \A u \in drain : post[u] = "done"
  /\ drain' = {}
  /\ spc' = "stopped"
  /\ UNCHANGED <<taskVars, lifecycleVars, turnVars, closed, post, callerVars,
                 interruptVars>>

-----------------------------------------------------------------------------
AcceptStep(u) ==
  \/ BeginPriority(u) \/ JoinedProactive(u) \/ Preempt(u)
  \/ Register(u) \/ RegisterRefused(u)
  \/ StartPipeline(u) \/ DoNotStart(u) \/ Started(u) \/ ReturnUnstarted(u)
  \/ Unwind(u) \/ Unwound(u) \/ CallerEnds(u)

PipelineStart(t) ==
  \/ t \in Users /\ RunUser(t)
  \/ t \in Intents /\ (RunProactive(t) \/ RejectProactive(t))

PipelineResult(t) == \E result \in Terminal : PipelineEnds(t, result)

InterruptStep(i) == CancelTurn(i) \/ CancelReturns(i) \/ ProactiveCancelled(i)

StopStep == ProactiveClosed \/ Shutdown \/ AcceptsDrained \/ PipelinesDrained
            \/ Stopped

Next ==
  \/ \E u \in Users : Enter(u) \/ AcceptStep(u) \/ CancelCaller(u) \/ Finalize(u)
  \/ \E p \in Intents : SubmitIntent(p)
  \/ \E t \in Turns : PipelineStart(t) \/ PipelineResult(t) \/ TaskStep(t)
  \/ \E i \in Interrupters :
       Interrupt(i) \/ CancelProactive(i) \/ InterruptStep(i)
  \/ CloseProactive
  \/ StopStep

Spec == Init /\ [][Next]_vars

(* The loop runs every task that can run.  Nothing makes a user speak, a    *)
(* trigger fire or the application stop, and an undisturbed pipeline may     *)
(* run for ever; one that was cancelled finishes its clean-up.              *)
Fairness ==
  /\ \A u \in Users : WF_vars(AcceptStep(u)) /\ WF_vars(Finalize(u))
  /\ \A t \in Turns : /\ WF_vars(PipelineStart(t))
                      /\ WF_vars(TaskStep(t))
                      /\ WF_vars(task[t] = "cleanup" /\ PipelineResult(t))
  /\ \A i \in Interrupters : WF_vars(InterruptStep(i))
  /\ WF_vars(StopStep)

FairSpec == Spec /\ Fairness

-----------------------------------------------------------------------------
(* Safety *)

InPipeline(t) == task[t] \in {"running", "cleanup"}
Open(t) == status[t] \in {"accepted", "streaming"}

(* At most one pipeline produces output, and it is that of the active turn, *)
(* which is streaming.  turns.py:74 promises to serialize the shared        *)
(* output; the locks of arbitration achieve it without _output_lock.        *)
OutputExclusive ==
  \A t \in Turns : InPipeline(t) => active = t /\ status[t] = "streaming"

(* A turn that is open has the output, so that the next message or the      *)
(* shutdown finds it.  Only without a pipeline does a turn stay accepted.   *)
OpenTurnIsActive ==
  /\ active # NoTurn => Open(active)
  /\ HasPipeline => \A t \in Turns : Open(t) => active = t

(* The index by session and the active turn agree: an interruption by       *)
(* session finds the turn that is active, and never a finished one.         *)
SessionIndexAgrees ==
  \A s \in Sessions :
    sessionTurn[s] = IF active # NoTurn /\ SessionOf[active] = s
                     THEN active ELSE NoTurn

(* lifecycle.py:25: proactive work never starts over, or survives, explicit *)
(* input.  Once a user turn has passed its preemption, no proactive task    *)
(* lives for as long as its lease does.                                     *)
ProactiveYields ==
  \A u \in leases : acc[u] # "joinProactive" => \A p \in Intents : ~Live(p)

(* A user turn that nobody cancels keeps its lease until its pipeline ends. *)
UserKeepsLease ==
  \A u \in Users : Live(u) /\ ~signalled[u] => u \in leases

(* A lease has an owner that will give it back: proactive turns are not     *)
(* locked out for ever.                                                     *)
LeaseHasOwner == \A u \in leases : InFlight(u) \/ Live(u)

(* turns.py:186-187: a user pipeline is never cancelled before the finally  *)
(* that ends its priority is entered.                                       *)
ProtectedStart == \A u \in Users : task[u] = "ready" => ~throw[u]

(* A cancellation is never lost between the two arbiters: a live task whose *)
(* token is cancelled has been, or is about to be, thrown a CancelledError. *)
CancellationReachesTask ==
  \A t \in Turns : Live(t) /\ token[t] => throw[t] \/ task[t] = "cleanup"

(* Every turn announces at most one terminal event, the one of its status,  *)
(* and a turn that ended otherwise than completed has announced it.         *)
AnnouncedOnce ==
  \A t \in Turns :
    /\ announced[t] # <<>> => status[t] \in Terminal /\ announced[t] = <<status[t]>>
    /\ status[t] \in {"cancelled", "failed"} => announced[t] # <<>>

(* A cancelled turn never completes, even if its pipeline returns normally. *)
CancelledStaysCancelled ==
  \A t \in Turns : token[t] => status[t] # "completed"

(* shutdown returns, and closes the pipeline and the sinks, only when no    *)
(* pipeline, no observer, no deferred completion and no open turn is left.  *)
StoppedIsQuiet ==
  spc = "stopped" =>
    /\ \A u \in Users : acc[u] # "observing"
    /\ \A t \in Turns : ~Live(t) /\ post[t] # "pending"
    /\ active = NoTurn
    /\ HasPipeline => \A t \in Turns : ~Open(t)

(* turns.py:468: the clean-up of a cancelled pipeline is not interrupted by *)
(* a second Task.cancel().                                                  *)
UserCleanupUninterrupted == \A u \in Users : ~interrupted[u]

(* A cancellation takes effect: it reaches the task, and neither the return *)
(* of the pipeline nor its late completion undoes it (turns.py:238).        *)
CancellationHolds == CancellationReachesTask /\ CancelledStaysCancelled

(* turns.py:186: the turn of a user is protected: its task reaches its      *)
(* finally, keeps its lease until then, and its clean-up runs to the end.   *)
UserTurnIsProtected == ProtectedStart /\ UserKeepsLease /\ UserCleanupUninterrupted

-----------------------------------------------------------------------------
(* The inductive invariant behind the theorems of TurnServiceProofs. *)

BeforeRegistration == {"idle", "wantAccept"} \cup HoldsAcceptLock
BeforeTask == BeforeRegistration \cup {"observing", "wantClear"}

(* One accept at a time is between its priority and its registration. *)
AcceptMutex ==
  \A u, v \in Users :
    acc[u] \in HoldsAcceptLock /\ acc[v] \in HoldsAcceptLock => u = v

(* The arbiter knows the proactive task that lives; when a user turn holds  *)
(* a lease it has signalled that task, and the signal is not lost.          *)
ArbiterKnows ==
  \A p \in Intents :
    Live(p) => /\ lcTask = p
               /\ leases # {} => lcSignalled
               /\ lcSignalled => throw[p] \/ task[p] = "cleanup"

(* What the caller of accept has done for its turn so far. *)
CallerProgress ==
  \A u \in Users :
    /\ acc[u] \in HoldsAcceptLock => u \in leases
    /\ acc[u] \in BeforeRegistration => status[u] = "unregistered"
    /\ acc[u] \in BeforeTask => task[u] = "none"
    /\ acc[u] = "joinProactive" => \A p \in Intents : Live(p) => joining[u] = p
    /\ acc[u] = "joinOld" /\ active # NoTurn => active = joining[u] /\ Live(active)

(* A task that has not reached its pipeline. *)
NotYetRunning ==
  /\ \A u \in Users :
       task[u] = "ready" => /\ acc[u] = "starting" /\ ~throw[u]
                            /\ active = u /\ status[u] = "accepted"
  /\ \A p \in Intents : task[p] \in {"none", "ready"} => status[p] = "unregistered"

(* A CancelledError is only pending for a task that can receive it. *)
PendingHasTarget == \A t \in Turns : throw[t] => Live(t)

(* The active turn is open, and a proactive one is in its pipeline. *)
ActiveIsOpen ==
  active # NoTurn => /\ Open(active)
                     /\ active \in Intents => InPipeline(active)

ArbitrationInv ==
  /\ OutputExclusive
  /\ ProactiveYields
  /\ AcceptMutex
  /\ ArbiterKnows
  /\ CallerProgress
  /\ NotYetRunning
  /\ PendingHasTarget
  /\ ActiveIsOpen

(* A turn that streams is in its pipeline. *)
StreamingRuns == \A t \in Turns : status[t] = "streaming" => InPipeline(t)

(* After closed only a pipeline that unwinds keeps the output. *)
ClosedUnwinds == closed /\ active # NoTurn => InPipeline(active)

(* A caller that declines to start a pipeline has lost the output. *)
DeclinedHasLost ==
  HasPipeline => \A u \in Users : acc[u] = "wantClear" => active # u

EchoNeverRuns ==
  ~HasPipeline => /\ \A u \in Users : task[u] = "none"
                  /\ \A p \in Intents : ~InPipeline(p)

(* What a finalizer has left to do. *)
CompletionDeferred ==
  \A t \in Turns :
    post[t] = "pending" => t \in Users /\ status[t] = "completed" /\ announced[t] = <<>>

InterruptHasTarget ==
  \A i \in Interrupters : ipc[i] = "wantCancel" => itgt[i] \in Turns

RegistryInv ==
  /\ InterruptHasTarget
  /\ OpenTurnIsActive
  /\ AnnouncedOnce
  /\ StreamingRuns
  /\ ClosedUnwinds
  /\ DeclinedHasLost
  /\ EchoNeverRuns
  /\ CompletionDeferred

-----------------------------------------------------------------------------
(* Steps *)

(* A terminal status is final: no completion overwrites a cancellation and  *)
(* no late cancellation a completion.                                       *)
TerminalIsFinal ==
  [][\A t \in Turns : status[t] \in Terminal => status'[t] = status[t]]_vars

(* The output changes hands only through nobody: a turn becomes active when *)
(* no other is, so a replaced turn was first ended, and none after closed.  *)
OutputHandedOver ==
  [][active' \notin {active, NoTurn} => active = NoTurn /\ ~closed]_vars

-----------------------------------------------------------------------------
(* Liveness *)

(* Every accept returns, whatever it preempts. *)
AcceptReturns == \A u \in Users : InFlight(u) ~> ~InFlight(u)

(* Every cancellation returns to its caller. *)
CancelReturnsToCaller == \A i \in Interrupters : ipc[i] # "idle" ~> ipc[i] = "idle"

(* A shutdown that began ends. *)
ShutdownEnds == spc # "up" ~> spc = "stopped"

(* Whoever joins a preempted task with a shield (turns.py:636) returns: the *)
(* callers of accept and of cancel, and the shutdown.                       *)
CallersReturn == AcceptReturns /\ CancelReturnsToCaller /\ ShutdownEnds

(* A turn that left the registry open state is announced to subscribers.    *)
EndIsAnnounced ==
  \A t \in Turns : status[t] \in Terminal ~> announced[t] # <<>>

-----------------------------------------------------------------------------
(* The service implements the abstract arbiter of one output. *)
Arbiter == INSTANCE TurnArbiter WITH phase <- status, floor <- active,
                                     told <- announced, accepting <- ~closed
ImplementsArbiter == Arbiter!Spec
=============================================================================
