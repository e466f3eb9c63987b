------------------------- MODULE ProactiveLifecycle -------------------------
(***************************************************************************)
(* app/proactive/lifecycle.py: the arbiter that keeps proactive turns away *)
(* from explicit input, and the asyncio tasks the turns run in.            *)
(*                                                                         *)
(* A turn is named by its turn_id: a member of Users for an explicit       *)
(* UserMessage, a member of Intents for a ProactiveIntent.  Every turn has *)
(* at most one pipeline task and one CancellationToken, so both are        *)
(* functions of the turn.                                                  *)
(*                                                                         *)
(* Every critical section of ProactiveLifecycle._lock runs without a       *)
(* suspension point, so the lock is free whenever a task asks for it and   *)
(* each section is part of the step of the task that runs it.              *)
(*                                                                         *)
(* A definition X_Y, here and in the other modules, is X with the mistake  *)
(* Y; no specification uses it (README, "Mutants").                        *)
(***************************************************************************)
CONSTANTS Users,    \* turn ids of explicit messages
          Intents,  \* turn ids of proactive intents
          NoTurn    \* None

ASSUME TurnsAssumption == /\ Users \cap Intents = {}
                          /\ NoTurn \notin Users \cup Intents

Turns == Users \cup Intents

VARIABLES
  task,         \* the pipeline task of a turn
  throw,        \* Task.cancel() was called, CancelledError not yet thrown
  interrupted,  \* history: a CancelledError hit the clean-up of the pipeline
  token,        \* CancellationToken.cancelled
  leases,       \* ProactiveLifecycle._user_turns
  lcTask,       \* ProactiveLifecycle._task (and _token, _intent)
  lcSignalled,  \* ProactiveLifecycle._cancellation_started
  lcClosed      \* ProactiveLifecycle._closed

taskVars == <<task, throw, interrupted, token>>
lifecycleVars == <<leases, lcTask, lcSignalled, lcClosed>>

-----------------------------------------------------------------------------
(* Tasks.  "ready" is created but not yet stepped; "cleanup" is unwinding   *)
(* from a CancelledError through the finally blocks of the pipeline.        *)

TaskStates == {"none", "ready", "running", "cleanup", "done"}

Live(t) == task[t] \in {"ready", "running", "cleanup"}

LifecycleTypeOK ==
  /\ task \in [Turns -> TaskStates]
  /\ throw \in [Turns -> BOOLEAN]
  /\ interrupted \in [Turns -> BOOLEAN]
  /\ token \in [Turns -> BOOLEAN]
  /\ leases \in SUBSET Users
  /\ lcTask \in Intents \cup {NoTurn}
  /\ lcSignalled \in BOOLEAN
  /\ lcClosed \in BOOLEAN

LifecycleInit ==
  /\ task = [t \in Turns |-> "none"]
  /\ throw = [t \in Turns |-> FALSE]
  /\ interrupted = [t \in Turns |-> FALSE]
  /\ token = [t \in Turns |-> FALSE]
  /\ leases = {}
  /\ lcTask = NoTurn
  /\ lcSignalled = FALSE
  /\ lcClosed = FALSE

-----------------------------------------------------------------------------
(* try_start.  A refused start changes nothing and is not an action. *)

CanStart_IgnoresLeases == ~lcClosed /\ (lcTask # NoTurn => ~Live(lcTask))

CanStart == ~lcClosed /\ leases = {} /\ (lcTask # NoTurn => ~Live(lcTask))

TryStart(p) ==
  /\ task[p] = "none"
  /\ CanStart
  /\ task' = [task EXCEPT ![p] = "ready"]
  /\ lcTask' = p
  /\ lcSignalled' = FALSE
  /\ UNCHANGED <<throw, interrupted, token, leases, lcClosed>>

(* _signal_cancel_locked. *)
SignalProactive_TokenOnly ==
  /\ token' = IF lcTask = NoTurn THEN token ELSE [token EXCEPT ![lcTask] = TRUE]
  /\ lcSignalled' = (lcTask # NoTurn)
  /\ UNCHANGED throw

SignalProactive ==
  IF lcSignalled \/ lcTask = NoTurn
  THEN UNCHANGED <<throw, token, lcSignalled>>
  ELSE /\ token' = [token EXCEPT ![lcTask] = TRUE]
       /\ throw' = [throw EXCEPT ![lcTask] = @ \/ Live(lcTask)]
       /\ lcSignalled' = Live(lcTask)

(* The end of _join_and_clear(p): a finished task is forgotten. *)
ForgetFinished(p) ==
  LET forget == p # NoTurn /\ lcTask = p /\ ~Live(p)
  IN  /\ lcTask' = IF forget THEN NoTurn ELSE lcTask
      /\ lcSignalled' = (lcSignalled /\ ~forget)

(* The finally block of _run, executed by the task of p itself. *)
ForgetSelf(p) ==
  /\ lcTask' = IF lcTask = p THEN NoTurn ELSE lcTask
  /\ lcSignalled' = (lcSignalled /\ lcTask # p)

(* begin_user_turn up to its join, and end_user_turn. *)
BeginUserTurn(u) == leases' = leases \cup {u} /\ SignalProactive
EndUserTurn(u) == leases' = leases \ {u}

(* A cancelled task that has not reached its pipeline.  Either its first    *)
(* step never ran and none of its finally blocks does, or (a proactive one) *)
(* it was queued on the coordination lock and the finally of _run runs.     *)
CancelUnstarted(t) ==
  /\ task[t] = "ready"
  /\ throw[t]
  /\ task' = [task EXCEPT ![t] = "done"]
  /\ throw' = [throw EXCEPT ![t] = FALSE]
  /\ \/ UNCHANGED <<lcTask, lcSignalled>>
     \/ t \in Intents /\ ForgetSelf(t)
  /\ UNCHANGED <<interrupted, token, leases, lcClosed>>

(* CancelledError is thrown into the pipeline at its current await: the    *)
(* pipeline starts to unwind, or its clean-up is cut short.                *)
DeliverCancel(t) ==
  /\ task[t] \in {"running", "cleanup"}
  /\ throw[t]
  /\ task' = [task EXCEPT ![t] = "cleanup"]
  /\ throw' = [throw EXCEPT ![t] = FALSE]
  /\ interrupted' = [interrupted EXCEPT ![t] = @ \/ task[t] = "cleanup"]
  /\ UNCHANGED <<token, lifecycleVars>>
=============================================================================
