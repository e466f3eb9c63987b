------------------------------- MODULE VtsBridge -------------------------------
(***************************************************************************)
(* The road of an expression to VTube Studio: the bounded queue of         *)
(* app/clients/vts/bridge.py and the task _run that connects, authorizes,  *)
(* serves and reconnects; the client of client.py with the tasks that open *)
(* its socket, receive from it and close it; the token of token_store.py.  *)
(*                                                                         *)
(* Expressions are numbered as they are published.  VTube Studio and the   *)
(* network are the environment: what they do wrong is counted, and stops   *)
(* after MaxFaults.  The delay of a reconnect is a timer, and its length   *)
(* is left out.                                                            *)
(***************************************************************************)
EXTENDS Naturals, Sequences, FiniteSets

CONSTANTS
    MaxExpressions, \* bound: expressions published
    Mapped,         \* the expressions that have a hotkey
    Capacity,       \* queue_capacity
    MaxFaults,      \* bound: faults of VTube Studio, the network and the disk
    Closer,         \* callers of close
    None

Expression == 1..MaxExpressions

ASSUME BridgeAssumption ==
    /\ MaxExpressions \in Nat /\ MaxFaults \in Nat
    /\ Capacity \in Nat \ {0}
    /\ Mapped \subseteq Expression
    /\ None \notin Expression

VARIABLES
    queue, published,   \* _queue, and how many expressions were published
    fate,           \* history: what became of each expression
    state,          \* _state
    closed,         \* _closed, and _stop, which is set with it
    active,         \* _active_client is the client of this round
    run,            \* where the task _run stands
    asks,           \* the request it awaits
    hand,           \* the action it took
    stored,         \* the token on disk: none, good, bad (refused) or alien
    client,         \* the client of this round
    leaked,         \* history: a client was replaced while its socket was open,
                    \* although its frames could be read and its close did not fail
    closeTask,      \* where _close of the bridge stands
    closer,         \* callers of close
    faults

queueVars == <<queue, published, fate>>
runVars   == <<state, active, run, asks, hand, leaked>>
closeVars == <<closed, closeTask, closer>>
vars == <<queueVars, runVars, closeVars, stored, client, faults>>

(* A client: _closed; its _connect_task; its socket; whether _connection   *)
(* is set and the receiver runs; the future of its request; its close.     *)
(* Two sockets stay open with nobody to close them: a "deaf" one sent a    *)
(* frame that its receiver cannot read, a "stuck" one failed to close.     *)
NewClient == [closed |-> FALSE, connect |-> "opening", socket |-> "none",
              installed |-> FALSE, answer |-> "none", closing |-> "none"]
NoClient == [NewClient EXCEPT !.connect = "none", !.closed = TRUE, !.closing = "done"]

Init ==
    /\ queue = <<>> /\ published = 0
    /\ fate = [e \in Expression |-> "none"]
    /\ state = "stopped" /\ closed = FALSE /\ active = FALSE
    /\ run = "none" /\ asks = "none" /\ hand = None
    /\ stored \in {"none", "good", "bad", "alien"}
    /\ client = NoClient /\ leaked = FALSE
    /\ closeTask = "none" /\ closer = [c \in Closer |-> "none"]
    /\ faults = 0

Fault == faults < MaxFaults /\ faults' = faults + 1

-----------------------------------------------------------------------------
(* The sink of events and the queue.                                       *)

Publish_DropsNewest ==
    /\ published < MaxExpressions /\ ~closed
    /\ published' = published + 1
    /\ IF Len(queue) = Capacity
       THEN fate' = [fate EXCEPT ![published'] = "dropped"] /\ UNCHANGED queue
       ELSE /\ queue' = Append(queue, published')
            /\ fate' = [fate EXCEPT ![published'] = "queued"]
    /\ UNCHANGED <<runVars, closeVars, stored, client, faults>>

(* VTSTurnEventSink.publish and enqueue_expression.                        *)
Publish ==
    /\ published < MaxExpressions /\ ~closed
    /\ published' = published + 1
    /\ IF Len(queue) = Capacity
       THEN /\ queue' = Append(Tail(queue), published')
            /\ fate' = [fate EXCEPT ![Head(queue)] = "dropped", ![published'] = "queued"]
       ELSE /\ queue' = Append(queue, published')
            /\ fate' = [fate EXCEPT ![published'] = "queued"]
    /\ UNCHANGED <<runVars, closeVars, stored, client, faults>>

(* start.                                                                  *)
Start ==
    /\ ~closed /\ run \in {"none", "done"}
    /\ run' = "loop"
    /\ UNCHANGED <<queueVars, state, active, asks, hand, leaked, closeVars, stored, client, faults>>

-----------------------------------------------------------------------------
(* The client.                                                             *)

Connected == ~client.closed /\ client.installed

(* The environment opens the socket or fails; so does a factory that was   *)
(* cancelled, which may return a socket all the same.                      *)
Open ==
    /\ \/ client.connect = "opening" /\ client' = [client EXCEPT !.connect = "opened", !.socket = "open"]
          /\ UNCHANGED faults
       \/ client.connect = "opening" /\ client' = [client EXCEPT !.connect = "failed"]
          /\ Fault
       \/ /\ client.connect = "cancelling"
          /\ \/ client' = [client EXCEPT !.connect = "cancelled"]
             \/ client' = [client EXCEPT !.connect = "opened", !.socket = "open"]
          /\ UNCHANGED faults
    /\ UNCHANGED <<queueVars, runVars, closeVars, stored>>

(* VTube Studio goes away.                                                 *)
Disconnect ==
    /\ client.socket = "open"
    /\ client' = [client EXCEPT !.socket = "lost"]
    /\ Fault
    /\ UNCHANGED <<queueVars, runVars, closeVars, stored>>

Fails(answer) == IF answer = "wait" THEN "lost" ELSE answer

(* _receive_loop meets the end of the connection: it forgets it and fails  *)
(* what is pending.                                                        *)
ReceiverEnds ==
    /\ client.installed /\ client.socket = "lost"
    /\ client' = [client EXCEPT !.installed = FALSE, !.answer = Fails(@)]
    /\ UNCHANGED <<queueVars, runVars, closeVars, stored, faults>>

(* It does the same for a frame that is no text, no JSON or no object, but *)
(* the socket is open then, and stays so.                                  *)
ReceiverChokes ==
    /\ client.installed /\ client.socket = "open"
    /\ client' = [client EXCEPT !.installed = FALSE, !.answer = Fails(@), !.socket = "deaf"]
    /\ Fault
    /\ UNCHANGED <<queueVars, runVars, closeVars, stored>>

(* The answer to a request as _dispatch resolves it: a refusal of a token, *)
(* an inactive API, an error of the API, an answer of another type; or the *)
(* request's time is up.                                                   *)
Answer ==
    /\ client.answer = "wait"
    /\ \/ /\ client.socket = "open"
          /\ client' = [client EXCEPT !.answer = IF asks = "auth" /\ stored = "bad" THEN "no" ELSE "ok"]
          /\ UNCHANGED faults
       \/ /\ client.socket = "open"
          /\ \E a \in {"no", "error"} : client' = [client EXCEPT !.answer = a]
          /\ Fault
       \/ client' = [client EXCEPT !.answer = "lost"] /\ Fault
    /\ UNCHANGED <<queueVars, runVars, closeVars, stored>>

(* The user takes the plugin's permission away.                            *)
Revoke ==
    /\ stored = "good" /\ stored' = "bad"
    /\ Fault
    /\ UNCHANGED <<queueVars, runVars, closeVars, client>>

(* close publishes _closed and starts the task that does the rest.         *)
CloseClient ==
    client' = IF client.closing = "none"
              THEN [client EXCEPT !.closed = TRUE, !.closing = "connect"] ELSE client

Held_Installed == client.installed

(* The connections that _close finds: the one that is installed and one    *)
(* that was opened and never installed.                                    *)
Held == client.installed \/ client.connect = "opened"

(* _close: cancel the opening of a connection and join it; then stop the   *)
(* receiver, which fails what is pending, and close the connections that   *)
(* are held; a close that fails ends the task all the same.                *)
ClientCloses ==
    /\ \/ /\ client.closing = "connect" /\ client.connect = "opening"
          /\ client' = [client EXCEPT !.connect = "cancelling"]
          /\ UNCHANGED faults
       \/ /\ client.closing = "connect" /\ client.connect \notin {"opening", "cancelling"}
          /\ client' = [client EXCEPT !.closing = "sockets", !.installed = FALSE,
                          !.answer = Fails(@), !.socket = IF Held THEN "closing" ELSE @]
          /\ UNCHANGED faults
       \/ /\ client.closing = "sockets"
          /\ client' = [client EXCEPT !.closing = "done",
                                      !.socket = IF @ = "closing" THEN "closed" ELSE @]
          /\ UNCHANGED faults
       \/ /\ client.closing = "sockets" /\ client.socket = "closing"
          /\ client' = [client EXCEPT !.closing = "done", !.socket = "stuck"]
          /\ Fault
    /\ UNCHANGED <<queueVars, runVars, closeVars, stored>>

-----------------------------------------------------------------------------
(* _run.                                                                   *)

Goto(pc) == run' = pc /\ UNCHANGED <<state, active, asks, hand, leaked>>

(* request: it fails at once where the client is not connected.            *)
Ask(what) ==
    /\ run' = "request" /\ asks' = what
    /\ client' = [client EXCEPT !.answer = IF Connected THEN "wait" ELSE "lost"]

(* The exception of a round: the end of _run after a close, or the close   *)
(* of the client and a pause.                                              *)
Fail ==
    /\ run' = IF closed THEN "final" ELSE "fail"
    /\ state' = IF closed THEN state ELSE "backoff"
    /\ hand' = None /\ asks' = "none"
    /\ CloseClient
    /\ UNCHANGED <<active, leaked>>

(* The top of the loop.                                                    *)
Round ==
    /\ run = "loop"
    /\ \/ /\ closed /\ run' = "done" /\ state' = "stopped"
          /\ UNCHANGED <<active, asks, hand, leaked, client, faults>>
       \/ /\ ~closed /\ Fault                    \* the factory fails
          /\ run' = "backoff" /\ state' = "backoff"
          /\ UNCHANGED <<active, asks, hand, leaked, client>>
       \/ /\ ~closed
          /\ run' = "connect" /\ state' = "connecting" /\ active' = TRUE
          /\ leaked' = (leaked \/ client.socket \in {"open", "closing"})
          /\ client' = NewClient
          /\ UNCHANGED <<asks, hand, faults>>
    /\ UNCHANGED <<queueVars, closeVars, stored>>

(* connect resumes: the socket becomes the connection unless close came.   *)
Connect ==
    /\ run = "connect"
    /\ \/ /\ client.connect = "opened" /\ ~client.closed
          /\ client' = [client EXCEPT !.connect = "none", !.installed = TRUE, !.answer = "wait"]
          /\ run' = "request" /\ asks' = "api" /\ state' = "authorizing"
          /\ UNCHANGED <<active, hand, leaked>>
       \/ /\ \/ client.connect = "failed"
             \/ client.connect = "opened" /\ client.closed
          /\ Fail
       \/ /\ client.connect = "cancelled"        \* CancelledError leaves _run
          /\ Goto("final") /\ UNCHANGED client
    /\ UNCHANGED <<queueVars, closeVars, stored, faults>>

(* api_state and _authorize; a method of the token store is a job in a     *)
(* thread that a close does not stop.                                      *)
ApiState ==
    /\ run = "request" /\ asks = "api" /\ client.answer # "wait"
    /\ IF client.answer = "ok" THEN Goto("load") /\ UNCHANGED client ELSE Fail
    /\ UNCHANGED <<queueVars, closeVars, stored, faults>>

Load ==
    /\ run = "load"
    /\ CASE stored = "none" ->
               /\ Ask("token")
               /\ UNCHANGED <<stored, state, active, hand, leaked>>
         [] stored = "alien" -> Goto("delete") /\ UNCHANGED <<stored, client>>
         [] OTHER ->
               /\ Ask("auth")
               /\ UNCHANGED <<stored, state, active, hand, leaked>>
    /\ UNCHANGED <<queueVars, closeVars, faults>>

Ready ==
    /\ run' = "ready" /\ state' = "ready" /\ asks' = "none"
    /\ UNCHANGED <<active, hand, leaked>>

Authenticated ==
    /\ run = "request" /\ asks = "auth" /\ client.answer # "wait"
    /\ CASE client.answer = "ok" -> Ready /\ UNCHANGED client
         [] client.answer = "no" -> Goto("delete") /\ UNCHANGED client
         [] OTHER                -> Fail
    /\ UNCHANGED <<queueVars, closeVars, stored, faults>>

Delete ==
    /\ run = "delete"
    /\ \/ /\ stored' = "none" /\ Ask("token")
          /\ UNCHANGED <<state, active, hand, leaked, faults>>
       \/ Fault /\ Fail /\ UNCHANGED stored
    /\ UNCHANGED <<queueVars, closeVars>>

(* A token is asked for, tried, and saved when it was accepted.            *)
TokenGranted ==
    /\ run = "request" /\ asks \in {"token", "reauth"} /\ client.answer # "wait"
    /\ IF client.answer # "ok" THEN Fail
       ELSE IF asks = "token"
            THEN Ask("reauth") /\ UNCHANGED <<state, active, hand, leaked>>
            ELSE Goto("save") /\ UNCHANGED client
    /\ UNCHANGED <<queueVars, closeVars, stored, faults>>

Save ==
    /\ run = "save"
    /\ \/ stored' = "good" /\ Ready /\ UNCHANGED <<client, faults>>
       \/ Fault /\ Fail /\ UNCHANGED stored
    /\ UNCHANGED <<queueVars, closeVars>>

(* _serve_ready: of the three tasks that are awaited several may be done;  *)
(* the stop comes first, and drops an action that was taken with it; then  *)
(* the action, even of a connection that is gone.                          *)
Serve ==
    /\ run = "ready"
    /\ \/ /\ closed /\ run' = "final" /\ CloseClient
          /\ \/ UNCHANGED <<queue, fate>>
             \/ /\ queue # <<>> /\ queue' = Tail(queue)
                /\ fate' = [fate EXCEPT ![Head(queue)] = "discarded"]
          /\ UNCHANGED <<state, active, asks, hand, leaked>>
       \/ /\ queue # <<>>
          /\ hand' = Head(queue) /\ queue' = Tail(queue)
          /\ fate' = [fate EXCEPT ![Head(queue)] = "taken"]
          /\ run' = "taken" /\ UNCHANGED <<state, active, asks, leaked, client>>
       \/ /\ ~client.installed /\ Fail /\ UNCHANGED <<queue, fate>>
    /\ UNCHANGED <<published, closeVars, stored, faults>>

(* _process_action.                                                        *)
Process ==
    /\ run = "taken"
    /\ IF hand \in Mapped
       THEN Ask("hotkey") /\ UNCHANGED <<fate, state, active, hand, leaked>>
       ELSE /\ fate' = [fate EXCEPT ![hand] = "unmapped"]
            /\ run' = "ready" /\ state' = "ready" /\ hand' = None
            /\ UNCHANGED <<asks, active, leaked, client>>
    /\ UNCHANGED <<queue, published, closeVars, stored, faults>>

Triggered ==
    /\ run = "request" /\ asks = "hotkey" /\ client.answer # "wait"
    /\ fate' = [fate EXCEPT ![hand] = CASE client.answer \in {"ok", "no"} -> "shown"
                                        [] client.answer = "error"        -> "failed"
                                        [] OTHER                          -> "lost"]
    /\ IF client.answer = "lost" THEN Fail
       ELSE /\ run' = "ready" /\ state' = "ready" /\ asks' = "none" /\ hand' = None
            /\ UNCHANGED <<active, leaked, client>>
    /\ UNCHANGED <<queue, published, closeVars, stored, faults>>

(* The client of a round that failed is closed; the pause; the finally.    *)
Failed ==
    /\ run = "fail" /\ client.closing = "done"
    /\ run' = "backoff" /\ active' = FALSE
    /\ UNCHANGED <<queueVars, state, asks, hand, leaked, closeVars, stored, client, faults>>

Backoff_UntilStop ==
    /\ run = "backoff" /\ closed
    /\ Goto("loop")
    /\ UNCHANGED <<queueVars, closeVars, stored, client, faults>>

(* _wait_for_stop ends with its time or with the stop.                     *)
Backoff ==
    /\ run = "backoff"
    /\ Goto("loop")
    /\ UNCHANGED <<queueVars, closeVars, stored, client, faults>>

Final ==
    /\ run = "final" /\ client.closing = "done"
    /\ run' = "done" /\ state' = "stopped" /\ active' = FALSE
    /\ UNCHANGED <<queueVars, asks, hand, leaked, closeVars, stored, client, faults>>

-----------------------------------------------------------------------------
(* close: every caller joins one task.                                     *)

Close(c) ==
    /\ closer[c] = "none"
    /\ closer' = [closer EXCEPT ![c] = "wait"]
    /\ closed' = TRUE
    /\ closeTask' = IF closeTask = "none" THEN "start" ELSE closeTask
    /\ UNCHANGED <<queueVars, runVars, stored, client, faults>>

(* The bridge's _close: the client of the round first, then the task.      *)
CloseStep ==
    /\ \/ /\ closeTask = "start"
          /\ IF active THEN CloseClient /\ closeTask' = "client"
             ELSE closeTask' = "run" /\ UNCHANGED client
          /\ UNCHANGED state
       \/ /\ closeTask = "client" /\ client.closing = "done"
          /\ closeTask' = "run" /\ UNCHANGED <<state, client>>
       \/ /\ closeTask = "run" /\ run \in {"none", "done"}
          /\ closeTask' = "done" /\ state' = "stopped" /\ UNCHANGED client
    /\ UNCHANGED <<queueVars, active, run, asks, hand, leaked, closed, closer, stored, faults>>

(* A caller returns with the task, or before it when it is cancelled: the  *)
(* task goes on.                                                           *)
CloseReturns(c) ==
    /\ closer[c] = "wait" /\ closeTask = "done"
    /\ closer' = [closer EXCEPT ![c] = "done"]
    /\ UNCHANGED <<queueVars, runVars, closed, closeTask, stored, client, faults>>

CancelClose(c) ==
    /\ closer[c] = "wait"
    /\ closer' = [closer EXCEPT ![c] = "cancelled"]
    /\ UNCHANGED <<queueVars, runVars, closed, closeTask, stored, client, faults>>

-----------------------------------------------------------------------------
RunStep ==
    \/ Round \/ Connect \/ ApiState \/ Load \/ Authenticated \/ Delete
    \/ TokenGranted \/ Save \/ Serve \/ Process \/ Triggered
    \/ Failed \/ Backoff \/ Final

Environment == Publish \/ Start \/ Disconnect \/ ReceiverChokes \/ Revoke

Next ==
    \/ Environment \/ RunStep
    \/ Open \/ Answer \/ ReceiverEnds \/ ClientCloses \/ CloseStep
    \/ \E c \in Closer : Close(c) \/ CloseReturns(c) \/ CancelClose(c)

(* The event loop goes on with every task that can; a socket opens and a   *)
(* request is answered in the end, or their time is up.                    *)
Fairness ==
    /\ WF_vars(RunStep) /\ WF_vars(Open) /\ WF_vars(Answer)
    /\ WF_vars(ReceiverEnds) /\ WF_vars(ClientCloses) /\ WF_vars(CloseStep)
    /\ \A c \in Closer : WF_vars(CloseReturns(c))

BridgeSpec == Init /\ [][Next]_vars /\ Fairness

-----------------------------------------------------------------------------
ClientType ==
    [closed : BOOLEAN, installed : BOOLEAN,
     connect : {"none", "opening", "opened", "failed", "cancelling", "cancelled"},
     socket : {"none", "open", "deaf", "lost", "closing", "closed", "stuck"},
     answer : {"none", "wait", "ok", "no", "error", "lost"},
     closing : {"none", "connect", "sockets", "done"}]

BridgeTypeOK ==
    /\ queue \in Seq(Expression) /\ Len(queue) <= Capacity
    /\ published \in 0..MaxExpressions
    /\ fate \in [Expression -> {"none", "queued", "dropped", "taken", "discarded",
                                "unmapped", "shown", "failed", "lost"}]
    /\ state \in {"stopped", "connecting", "authorizing", "ready", "backoff"}
    /\ closed \in BOOLEAN /\ active \in BOOLEAN /\ leaked \in BOOLEAN
    /\ run \in {"none", "loop", "connect", "request", "load", "delete", "save", "ready",
               "taken", "fail", "backoff", "final", "done"}
    /\ asks \in {"none", "api", "token", "auth", "reauth", "hotkey"}
    /\ hand \in Expression \cup {None} /\ faults \in 0..MaxFaults
    /\ stored \in {"none", "good", "bad", "alien"}
    /\ client \in ClientType
    /\ closeTask \in {"none", "start", "client", "run", "done"}
    /\ closer \in [Closer -> {"none", "wait", "done", "cancelled"}]

(* Expressions reach the avatar in the order of the dialogue and a full    *)
(* queue gives up the oldest: none overtakes another, and one is dropped   *)
(* only when as many newer ones as the queue holds came after it.          *)
ExpressionsInOrder ==
    \A e, f \in Expression : e < f =>
        /\ fate[f] \notin {"none", "queued", "dropped"} => fate[e] # "queued"
        /\ fate[f] = "dropped" => fate[e] # "queued"
        /\ fate[e] = "dropped" /\ fate[f] = "none" => f > e + Capacity

(* A connection that fails costs one expression at most, also where it     *)
(* ends in the moment in which an action is taken; what waits in the queue *)
(* outlives it.                                                            *)
FaultCostsOne ==
    LET Fate(s) == {e \in Expression : fate[e] \in s} IN
    /\ Cardinality(Fate({"lost", "failed"})) <= faults + (IF closed THEN 1 ELSE 0)
    /\ Cardinality(Fate({"discarded"})) <= (IF closed THEN 1 ELSE 0)
    /\ Fate({"queued"}) = {queue[i] : i \in 1..Len(queue)}

(* No expression is lost or shown out of turn but for these reasons.       *)
ExpressionsAreKept == ExpressionsInOrder /\ FaultCostsOne

(* When close is over no task of the bridge runs and nothing is in hand.   *)
(* Its last connection, and every one that a round left behind, is closed, *)
(* also one whose opening the close met; but not one of which VTube Studio *)
(* sent a frame that cannot be read, or whose own close failed.            *)
ClosedIsStill ==
    /\ ~leaked
    /\ closeTask = "done" =>
           /\ run \in {"none", "done"} /\ hand = None /\ state = "stopped"
           /\ client.socket \notin {"open", "closing"} /\ ~client.installed

(* Once its faults are over the bridge shows or gives up every expression  *)
(* that waits, unless it was not started or is closed; and every caller of *)
(* close returns.                                                          *)
ExpressionsLeave ==
    /\ \A e \in Expression :
           fate[e] = "queued" ~> fate[e] # "queued" \/ run = "none" \/ closed
    /\ closed ~> closeTask = "done" /\ \A c \in Closer : closer[c] # "wait"
=============================================================================
