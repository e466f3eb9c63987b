---------------------------- MODULE VtsBridgeProofs ----------------------------
(***************************************************************************)
(* Proofs about the bridge to VTube Studio, for any capacity of its queue, *)
(* any number of expressions, faults and callers of close: that a closed   *)
(* bridge is still, and that expressions leave the queue in order and are  *)
(* lost one per fault at most.                                             *)
(*                                                                         *)
(* The invariant has a part for the client (what its close has done), one  *)
(* for the round of _run (which client it has and what it holds), one for  *)
(* the close of the bridge, one for the queue (it holds the newest         *)
(* expressions, without a gap) and one that charges each loss to a fault.  *)
(***************************************************************************)
EXTENDS VtsBridge, TLAPS, FiniteSetTheorems

(* A close of the client publishes itself first, ends what opens before it *)
(* closes sockets, and leaves none open but one that is deaf or stuck.  An *)
(* open socket is held, until the close takes it.                          *)
ClientIsOrdered ==
    /\ client.closing # "none" => client.closed
    /\ client.closing \in {"sockets", "done"} =>
           /\ ~client.installed /\ client.connect \notin {"opening", "cancelling"}
           /\ client.socket # "open"
    /\ client.socket = "closing" => client.closing = "sockets"
    /\ client.socket = "open" => Held
    /\ client.connect \in {"opening", "cancelling"} => client.socket = "none"
    /\ client.closing \notin {"sockets", "done"} /\ client.connect = "opened" =>
           client.socket \in {"open", "lost"}
    /\ client.installed => client.socket \in {"open", "lost"} /\ client.connect = "none"

(* _run has a client of its own, from its connect to the failure or the    *)
(* end of the round.                                                       *)
InRound == run \in {"connect", "request", "load", "delete", "save", "ready", "taken"}
AwaitsHotkey == run = "request" /\ asks = "hotkey"

(* Outside a round the last client is closed; inside one nobody but the    *)
(* close of the bridge closes it, and a connection that is gone is one     *)
(* that VTube Studio left or that is deaf.                                 *)
RoundHasClient ==
    /\ ~InRound /\ run \notin {"fail", "final"} => client.closing = "done"
    /\ InRound /\ ~closed => ~client.closed
    /\ InRound /\ run # "connect" /\ ~client.closed => client.installed \/ client.socket \in {"lost", "deaf"}
    /\ hand # None <=> run = "taken" \/ AwaitsHotkey
    /\ asks = "hotkey" => run = "request"
    /\ run = "request" => client.answer # "none"

(* The close of the bridge ends behind the task _run. *)
CloseIsOrdered ==
    /\ closeTask # "none" => closed
    /\ closeTask = "done" => run \in {"none", "done"} /\ state = "stopped"
    /\ ~leaked

BridgeInv ==
    BridgeTypeOK /\ ClientIsOrdered /\ RoundHasClient /\ CloseIsOrdered

(* The queue holds the newest of what was published, without a gap; what   *)
(* was dropped is older than all of a full queue.                          *)
QueueIsRecent ==
    /\ Len(queue) <= published
    /\ \A i \in 1..Len(queue) : queue[i] = published - Len(queue) + i
    /\ \A e \in Expression :
           /\ fate[e] = "none" <=> e > published
           /\ fate[e] = "queued" <=> published - Len(queue) < e /\ e <= published
           /\ fate[e] = "dropped" => e + Capacity <= published
    /\ hand # None => fate[hand] = "taken"

(* The stop discards at most one expression, the one it was taken with, as *)
(* it ends _run.                                                           *)
Discarded == {e \in Expression : fate[e] = "discarded"}

OneDiscard ==
    /\ Cardinality(Discarded) <= 1
    /\ Discarded # {} => closed /\ run \in {"final", "done"}

(* Every loss has its fault: an error that was answered is one that is     *)
(* still to be counted as a loss, and so is a connection that is lost, or  *)
(* about to be closed, while an expression can still be taken for it.      *)
Losses == {e \in Expression : fate[e] \in {"lost", "failed"}}
Count(b) == IF b THEN 1 ELSE 0

WillFail == AwaitsHotkey /\ client.answer = "error"
WillLose ==
    InRound /\ (closed \/ client.socket \in {"lost", "deaf"} \/ (AwaitsHotkey /\ client.answer = "lost"))

FaultsAreSpent ==
    Cardinality(Losses) + Count(WillFail) + Count(WillLose) <= faults + Count(closed)

-----------------------------------------------------------------------------
(* The client.  What the bridge does to it is a close or a request.        *)

ClientInv == client \in ClientType /\ ClientIsOrdered

LEMMA CloseClientKeeps == ClientInv /\ CloseClient => ClientInv'
<1> SUFFICES ASSUME ClientInv, CloseClient PROVE ClientInv'
  OBVIOUS
<1>1. client' \in ClientType
  BY DEF ClientInv, CloseClient, ClientType
<1>2. ClientIsOrdered'
  BY DEF ClientInv, CloseClient, ClientType, ClientIsOrdered, Held
<1> QED  BY <1>1, <1>2 DEF ClientInv

LEMMA AskKeeps == ASSUME NEW what, ClientInv, Ask(what) PROVE ClientInv'
<1>1. client' \in ClientType
  BY DEF ClientInv, Ask, ClientType
<1>2. ClientIsOrdered'
  BY DEF ClientInv, Ask, ClientType, ClientIsOrdered, Held
<1> QED  BY <1>1, <1>2 DEF ClientInv

LEMMA ClientClosesKeeps == ClientInv /\ ClientCloses => ClientInv'
<1> SUFFICES ASSUME ClientInv, ClientCloses PROVE ClientInv'
  OBVIOUS
<1>1. client \in ClientType /\ ClientIsOrdered
  BY DEF ClientInv
<1> USE <1>1 DEF ClientType, ClientIsOrdered, Held
<1>2. CASE /\ client.closing = "connect" /\ client.connect = "opening"
           /\ client' = [client EXCEPT !.connect = "cancelling"]
  BY <1>2 DEF ClientInv
<1>3. CASE /\ client.closing = "connect" /\ client.connect \notin {"opening", "cancelling"}
           /\ client' = [client EXCEPT !.closing = "sockets", !.installed = FALSE,
                           !.answer = Fails(@), !.socket = IF Held THEN "closing" ELSE @]
  <2>1. Fails(client.answer) \in {"none", "wait", "ok", "no", "error", "lost"}
    BY DEF Fails
  <2>2. client' \in ClientType
    BY <1>3, <2>1
  <2>3. ClientIsOrdered'
    BY <1>3
  <2> QED  BY <2>2, <2>3 DEF ClientInv
<1>4. CASE /\ client.closing = "sockets"
           /\ client' = [client EXCEPT !.closing = "done",
                                       !.socket = IF @ = "closing" THEN "closed" ELSE @]
  BY <1>4 DEF ClientInv
<1>5. CASE /\ client.closing = "sockets" /\ client.socket = "closing"
           /\ client' = [client EXCEPT !.closing = "done", !.socket = "stuck"]
  BY <1>5 DEF ClientInv
<1> QED  BY <1>2, <1>3, <1>4, <1>5 DEF ClientCloses

LEMMA ClientKeeps ==
  ClientInv /\ (Disconnect \/ ReceiverChokes \/ Open \/ Answer \/ ReceiverEnds) => ClientInv'
<1> SUFFICES ASSUME ClientInv, Disconnect \/ ReceiverChokes \/ Open \/ Answer \/ ReceiverEnds
             PROVE  ClientInv'
  OBVIOUS
<1>1. client \in ClientType /\ ClientIsOrdered
  BY DEF ClientInv
<1>2. client' \in ClientType
  <2>1. CASE Disconnect
    BY <1>1, <2>1 DEF Disconnect, ClientType
  <2>2. CASE Open
    BY <1>1, <2>2 DEF Open, ClientType
  <2>3. CASE Answer
    BY <1>1, <2>3 DEF Answer, ClientType
  <2>4. CASE ReceiverEnds
    BY <1>1, <2>4 DEF ReceiverEnds, Fails, ClientType
  <2>5. CASE ReceiverChokes
    BY <1>1, <2>5 DEF ReceiverChokes, Fails, ClientType
  <2> QED  BY <2>1, <2>2, <2>3, <2>4, <2>5
<1>3. ClientIsOrdered'
  <2> USE <1>1 DEF ClientType, ClientIsOrdered, Held
  <2>1. CASE Disconnect
    BY <2>1 DEF Disconnect
  <2>2. CASE Open
    <3>1. CASE client.connect = "opening" /\ client' = [client EXCEPT !.connect = "opened", !.socket = "open"]
      BY <3>1
    <3>2. CASE client.connect = "opening" /\ client' = [client EXCEPT !.connect = "failed"]
      BY <3>2
    <3>3. CASE client.connect = "cancelling" /\ client' = [client EXCEPT !.connect = "cancelled"]
      BY <3>3
    <3>4. CASE client.connect = "cancelling" /\ client' = [client EXCEPT !.connect = "opened", !.socket = "open"]
      BY <3>4
    <3> QED  BY <2>2, <3>1, <3>2, <3>3, <3>4 DEF Open
  <2>3. CASE Answer
    BY <2>3 DEF Answer
  <2>4. CASE ReceiverEnds
    BY <2>4 DEF ReceiverEnds
  <2>5. CASE ReceiverChokes
    BY <2>5 DEF ReceiverChokes
  <2> QED  BY <2>1, <2>2, <2>3, <2>4, <2>5
<1> QED  BY <1>2, <1>3 DEF ClientInv

LEMMA ClientStep == ClientInv /\ [Next]_vars => ClientInv'
<1> SUFFICES ASSUME ClientInv, [Next]_vars PROVE ClientInv'
  OBVIOUS
<1>1. UNCHANGED client => ClientInv'
  BY DEF ClientInv, ClientIsOrdered, Held
<1>2. CASE Publish \/ Start \/ Revoke
  BY <1>1, <1>2 DEF Publish, Start, Revoke
<1>3. CASE \E c \in Closer : Close(c) \/ CloseReturns(c) \/ CancelClose(c)
  BY <1>1, <1>3 DEF Close, CloseReturns, CancelClose
<1>4. CASE Round
  <2>1. NewClient \in ClientType
    BY DEF NewClient, ClientType
  <2>2. client' = NewClient => ClientIsOrdered'
    BY DEF NewClient, ClientIsOrdered, Held
  <2> QED  BY <1>1, <1>4, <2>1, <2>2 DEF Round, ClientInv
<1>5. CASE Connect
  <2>1. CASE CloseClient \/ UNCHANGED client
    BY <1>1, <2>1, CloseClientKeeps
  <2>2. CASE /\ client.connect = "opened" /\ ~client.closed
             /\ client' = [client EXCEPT !.connect = "none", !.installed = TRUE, !.answer = "wait"]
    <3>1. client' \in ClientType
      BY <2>2 DEF ClientInv, ClientType
    <3>2. ClientIsOrdered'
      BY <2>2 DEF ClientInv, ClientType, ClientIsOrdered, Held
    <3> QED  BY <3>1, <3>2 DEF ClientInv
  <2> QED  BY <1>5, <2>1, <2>2 DEF Connect, Fail
<1>6. CASE ApiState \/ Load \/ Authenticated \/ Delete \/ TokenGranted \/ Save
  BY <1>1, <1>6, CloseClientKeeps, AskKeeps
     DEF ApiState, Load, Authenticated, Delete, TokenGranted, Save, Fail
<1>7. CASE Serve \/ Process \/ Triggered \/ Failed \/ Backoff \/ Final \/ CloseStep
  BY <1>1, <1>7, CloseClientKeeps, AskKeeps
     DEF Serve, Process, Triggered, Failed, Backoff, Final, CloseStep, Fail
<1>8. CASE UNCHANGED vars
  BY <1>1, <1>8 DEF vars
<1> QED  BY <1>2, <1>3, <1>4, <1>5, <1>6, <1>7, <1>8, ClientKeeps, ClientClosesKeeps
         DEF Next, Environment, RunStep

-----------------------------------------------------------------------------
(* Types.                                                                  *)

QueueTypes ==
    /\ queue \in Seq(Expression) /\ Len(queue) <= Capacity
    /\ published \in 0..MaxExpressions
    /\ fate \in [Expression -> {"none", "queued", "dropped", "taken", "discarded",
                                "unmapped", "shown", "failed", "lost"}]

(* Four actions touch the queue and the fates. *)
LEMMA QueueSteps == [Next]_vars => Publish \/ Serve \/ Process \/ Triggered \/ UNCHANGED queueVars
BY DEF Next, vars, Environment, RunStep, Start, Disconnect, ReceiverChokes, Revoke, Open, Answer, ReceiverEnds,
       ClientCloses, CloseStep, Close, CloseReturns, CancelClose, Round, Connect, ApiState, Load,
       Authenticated, Delete, TokenGranted, Save, Failed, Backoff, Final

LEMMA TailOfQueue ==
  ASSUME queue \in Seq(Expression), queue # <<>>
  PROVE  /\ Head(queue) \in Expression /\ Head(queue) = queue[1]
         /\ Tail(queue) \in Seq(Expression) /\ Len(Tail(queue)) = Len(queue) - 1
         /\ \A i \in 1..Len(queue) - 1 : Tail(queue)[i] = queue[i + 1]
OBVIOUS

LEMMA QueueTypeStep ==
  ASSUME QueueTypes, hand \in Expression \cup {None}, RoundHasClient, [Next]_vars
  PROVE  QueueTypes'
<1> USE BridgeAssumption DEF QueueTypes
<1>1. CASE Publish
  <2>1. published' \in Expression
    BY <1>1 DEF Publish, Expression
  <2>2. CASE Len(queue) = Capacity
    <3>1. /\ queue' = Append(Tail(queue), published')
          /\ fate' = [fate EXCEPT ![Head(queue)] = "dropped", ![published'] = "queued"]
      BY <1>1, <2>2 DEF Publish
    <3>2. queue' \in Seq(Expression) /\ Len(queue') = Len(queue)
      BY <2>1, <2>2, <3>1, TailOfQueue
    <3>3. queue # <<>>
      BY <2>2
    <3>4. Head(queue) \in Expression
      BY <3>3, TailOfQueue
    <3>5. fate' \in [Expression -> {"none", "queued", "dropped", "taken", "discarded",
                                   "unmapped", "shown", "failed", "lost"}]
      BY <2>1, <3>1, <3>4
    <3> QED  BY <2>1, <2>2, <3>2, <3>5 DEF Expression
  <2>3. CASE Len(queue) # Capacity
    <3>1. /\ queue' = Append(queue, published')
          /\ fate' = [fate EXCEPT ![published'] = "queued"]
      BY <1>1, <2>3 DEF Publish
    <3>2. queue' \in Seq(Expression) /\ Len(queue') = Len(queue) + 1
      BY <3>1, <2>1
    <3> QED  BY <2>1, <2>3, <3>1, <3>2 DEF Expression
  <2> QED  BY <2>2, <2>3
<1>2. CASE Serve
  BY <1>2, TailOfQueue DEF Serve
<1>3. CASE Process
  BY <1>3 DEF Process
<1>4. CASE Triggered
  BY <1>4 DEF Triggered, RoundHasClient, AwaitsHotkey
<1>5. CASE UNCHANGED queueVars
  BY <1>5 DEF queueVars
<1> QED  BY <1>1, <1>2, <1>3, <1>4, <1>5, QueueSteps

LEMMA TypeStep == BridgeInv /\ [Next]_vars => BridgeTypeOK'
<1> SUFFICES ASSUME BridgeInv, [Next]_vars PROVE BridgeTypeOK'
  OBVIOUS
<1>0. BridgeTypeOK /\ RoundHasClient
  BY DEF BridgeInv
<1>1. client' \in ClientType
  BY ClientStep DEF BridgeInv, BridgeTypeOK, ClientInv
<1>2. QueueTypes'
  BY <1>0, QueueTypeStep DEF BridgeTypeOK, QueueTypes
<1>3. /\ state' \in {"stopped", "connecting", "authorizing", "ready", "backoff"}
      /\ run' \in {"none", "loop", "connect", "request", "load", "delete", "save", "ready",
                  "taken", "fail", "backoff", "final", "done"}
      /\ asks' \in {"none", "api", "token", "auth", "reauth", "hotkey"}
      /\ active' \in BOOLEAN /\ leaked' \in BOOLEAN
  <2> USE <1>0 DEF BridgeTypeOK
  <2>1. CASE Round
    BY <2>1 DEF Round
  <2>2. CASE Connect \/ ApiState \/ Load \/ Authenticated
    BY <2>2 DEF Connect, ApiState, Load, Authenticated, Fail, Ask, Ready, Goto
  <2>3. CASE Delete \/ TokenGranted \/ Save
    BY <2>3 DEF Delete, TokenGranted, Save, Fail, Ask, Ready, Goto
  <2>4. CASE Serve \/ Process \/ Triggered
    BY <2>4 DEF Serve, Process, Triggered, Fail, Ask
  <2>5. CASE Failed \/ Backoff \/ Final
    BY <2>5 DEF Failed, Backoff, Final, Goto
  <2>7. CASE CloseStep \/ Start
    BY <2>7, SMTT(30) DEF CloseStep, Start
  <2>6. CASE UNCHANGED runVars
    BY <2>6 DEF runVars
  <2> QED  BY <2>1, <2>2, <2>3, <2>4, <2>5, <2>6, <2>7
           DEF Next, vars, Environment, RunStep, Publish, Disconnect, ReceiverChokes, Revoke, Open, Answer,
               ReceiverEnds, ClientCloses, Close, CloseReturns, CancelClose
<1>4. hand' \in Expression \cup {None}
  <2>1. CASE Serve
    BY <1>0, <2>1, TailOfQueue DEF Serve, Fail, BridgeTypeOK
  <2>2. Serve \/ hand' \in {hand, None}
    BY DEF Next, vars, runVars, Environment, RunStep, Publish, Start, Disconnect, ReceiverChokes, Revoke, Open,
           Answer, ReceiverEnds, ClientCloses, CloseStep, Close, CloseReturns, CancelClose, Round,
           Connect, ApiState, Load, Authenticated, Delete, TokenGranted, Save, Process, Triggered,
           Failed, Backoff, Final, Fail, Goto, Ask, Ready
  <2> QED  BY <1>0, <2>1, <2>2 DEF BridgeTypeOK
<1>5. stored' \in {"none", "good", "bad", "alien"}
  BY <1>0 DEF BridgeTypeOK, Next, vars, Environment, RunStep, Publish, Start, Disconnect, ReceiverChokes, Revoke,
     Open, Answer, ReceiverEnds, ClientCloses, CloseStep, Close, CloseReturns, CancelClose, Round,
     Connect, ApiState, Load, Authenticated, Delete, TokenGranted, Save, Serve, Process, Triggered,
     Failed, Backoff, Final
<1>6. faults' \in 0..MaxFaults
  <2>1. Fault \/ faults' = faults
    BY DEF Next, vars, Environment, RunStep, Publish, Start, Disconnect, ReceiverChokes, Revoke,
       Open, Answer, ReceiverEnds, ClientCloses, CloseStep, Close, CloseReturns, CancelClose,
       Round, Connect, ApiState, Load, Authenticated, Delete, TokenGranted, Save, Serve, Process,
       Triggered, Failed, Backoff, Final
  <2> QED  BY <1>0, <2>1, BridgeAssumption DEF Fault, BridgeTypeOK
<1>7. /\ closed' \in BOOLEAN /\ closeTask' \in {"none", "start", "client", "run", "done"}
      /\ closer' \in [Closer -> {"none", "wait", "done", "cancelled"}]
  <2> USE <1>0 DEF BridgeTypeOK
  <2>1. CASE CloseStep
    BY <2>1 DEF CloseStep
  <2>2. ASSUME NEW c \in Closer, Close(c) \/ CloseReturns(c) \/ CancelClose(c)
        PROVE  /\ closed' \in BOOLEAN /\ closeTask' \in {"none", "start", "client", "run", "done"}
               /\ closer' \in [Closer -> {"none", "wait", "done", "cancelled"}]
    BY <2>2 DEF Close, CloseReturns, CancelClose
  <2>3. CASE UNCHANGED closeVars
    BY <2>3 DEF closeVars
  <2> QED  BY <2>1, <2>2, <2>3
           DEF Next, vars, Environment, RunStep, Publish, Start, Disconnect, ReceiverChokes, Revoke, Open, Answer,
               ReceiverEnds, ClientCloses, Round, Connect, ApiState, Load, Authenticated, Delete,
               TokenGranted, Save, Serve, Process, Triggered, Failed, Backoff, Final
<1> QED  BY <1>1, <1>2, <1>3, <1>4, <1>5, <1>6, <1>7 DEF BridgeTypeOK, QueueTypes

-----------------------------------------------------------------------------
(* The rounds of _run and the close of the bridge.                         *)

(* A step of close touches the client only to close it. *)
LEMMA CloseStepCloses == CloseStep => UNCHANGED client \/ (closeTask = "start" /\ CloseClient)
<1>1. CASE closeTask = "start" /\ active
  BY <1>1 DEF CloseStep
<1>2. CASE ~(closeTask = "start" /\ active)
  BY <1>2 DEF CloseStep
<1> QED  BY <1>1, <1>2

LEMMA RoundStep == BridgeInv /\ [Next]_vars => RoundHasClient'
<1> SUFFICES ASSUME BridgeInv, [Next]_vars PROVE RoundHasClient'
  OBVIOUS
<1> USE DEF BridgeInv, BridgeTypeOK, ClientType, ClientIsOrdered, RoundHasClient, InRound,
            AwaitsHotkey, CloseIsOrdered
<1>1. CASE Round
  BY <1>1 DEF Round, NewClient
<1>2. CASE Connect
  BY <1>2 DEF Connect, Fail, CloseClient, Goto, closeVars
<1>3. CASE ApiState \/ Failed \/ Backoff \/ Final
  BY <1>3 DEF ApiState, Fail, CloseClient, Goto, Failed, Backoff, Final, closeVars
<1>4. CASE Load
  BY <1>4 DEF Load, Ask, Goto, closeVars
<1>5. CASE Authenticated
  BY <1>5 DEF Authenticated, Ready, Fail, CloseClient, Goto, closeVars
<1>6. CASE Delete
  BY <1>6 DEF Delete, Ask, Fail, CloseClient, closeVars
<1>7. CASE TokenGranted
  BY <1>7 DEF TokenGranted, Ask, Fail, CloseClient, Goto, closeVars
<1>8. CASE Save
  BY <1>8 DEF Save, Ready, Fail, CloseClient, closeVars
<1>9. CASE Serve
  <2>1. CASE closed /\ run' = "final" /\ CloseClient /\ UNCHANGED <<asks, hand>>
    BY <1>9, <2>1 DEF Serve, CloseClient, closeVars
  <2>2. CASE hand' = Head(queue) /\ queue # <<>> /\ run' = "taken" /\ UNCHANGED <<asks, client>>
    BY <1>9, <2>2, TailOfQueue, BridgeAssumption DEF Serve, closeVars
  <2>3. CASE ~client.installed /\ Fail
    BY <1>9, <2>3 DEF Serve, Fail, CloseClient, closeVars
  <2> QED  BY <1>9, <2>1, <2>2, <2>3 DEF Serve
<1>10. CASE Process
  BY <1>10 DEF Process, Ask, closeVars
<1>11. CASE Triggered
  BY <1>11 DEF Triggered, Fail, CloseClient, closeVars
<1>12. CASE Open
  <2>1. /\ client.socket = "none" /\ client.closing \notin {"sockets", "done"}
        /\ client'.closed = client.closed /\ client'.closing = client.closing
        /\ client'.installed = client.installed
    BY <1>12, ZenonT(60) DEF Open
  <2> QED  BY <1>12, <2>1 DEF Open, runVars, closeVars
<1>13. CASE Disconnect
  BY <1>13 DEF Disconnect, runVars, closeVars
<1>14. CASE Answer
  BY <1>14 DEF Answer, runVars, closeVars
<1>18. CASE ReceiverEnds
  BY <1>18 DEF ReceiverEnds, Fails, runVars, closeVars
<1>20. CASE ReceiverChokes
  BY <1>20 DEF ReceiverChokes, Fails, runVars, closeVars
<1>19. CASE ClientCloses
  <2>1. client.closed /\ client'.closed
    BY <1>19, ZenonT(60) DEF ClientCloses
  <2>2. client'.closing = client.closing \/ client.closing # "done"
    BY <1>19 DEF ClientCloses
  <2>3. client.answer # "none" => client'.answer # "none"
    <3>1. client'.answer \in {client.answer, Fails(client.answer)}
      BY <1>19, ZenonT(60) DEF ClientCloses
    <3> QED  BY <3>1 DEF Fails
  <2> QED  BY <1>19, <2>1, <2>2, <2>3 DEF ClientCloses, runVars, closeVars
<1>15. CASE CloseStep
  <2>1. client' = client \/ (closed /\ CloseClient)
    BY <1>15, CloseStepCloses
  <2>2. UNCHANGED <<run, hand, asks, closed>>
    BY <1>15 DEF CloseStep, queueVars
  <2>3. CASE client' = client
    BY <2>2, <2>3
  <2>4. CASE closed /\ CloseClient
    <3>1. /\ client'.closing = "done" <=> client.closing = "done"
          /\ client'.answer = client.answer
      BY <2>4 DEF CloseClient
    <3>2. client'.closed
      BY <2>4 DEF CloseClient
    <3> QED  BY <2>2, <2>4, <3>1, <3>2
  <2> QED  BY <2>1, <2>3, <2>4
<1>16. ASSUME NEW c \in Closer, Close(c) \/ CloseReturns(c) \/ CancelClose(c) PROVE RoundHasClient'
  BY <1>16 DEF Close, CloseReturns, CancelClose, runVars
<1>17. CASE Publish \/ Start \/ Revoke \/ UNCHANGED vars
  BY <1>17 DEF Publish, Start, Revoke, vars, runVars, closeVars
<1> QED  BY <1>1, <1>2, <1>3, <1>4, <1>5, <1>6, <1>7, <1>8, <1>9, <1>10, <1>11, <1>12, <1>13,
            <1>14, <1>15, <1>16, <1>17, <1>18, <1>19, <1>20 DEF Next, Environment, RunStep

LEMMA CloseInvStep == BridgeInv /\ [Next]_vars => CloseIsOrdered'
<1> SUFFICES ASSUME BridgeInv, [Next]_vars PROVE CloseIsOrdered'
  OBVIOUS
<1> USE DEF BridgeInv, RoundHasClient, InRound, CloseIsOrdered
<1>1. CASE Round
  <2>1. leaked = FALSE /\ client.socket \notin {"open", "closing"}
    BY <1>1 DEF Round, ClientIsOrdered, BridgeTypeOK
  <2>2. leaked' = FALSE
    BY <1>1, <2>1 DEF Round
  <2> QED  BY <1>1, <2>2 DEF Round, closeVars
<1>2. CASE Connect \/ ApiState \/ Load \/ Authenticated \/ Delete
  BY <1>2 DEF Connect, ApiState, Load, Authenticated, Delete, Fail, Goto, Ask, Ready, closeVars
<1>3. CASE TokenGranted \/ Save \/ Serve \/ Process \/ Triggered
  BY <1>3 DEF TokenGranted, Save, Serve, Process, Triggered, Fail, Goto, Ask, Ready, closeVars
<1>4. CASE Failed \/ Backoff \/ Final \/ Start
  BY <1>4 DEF Failed, Backoff, Final, Start, Goto, closeVars
<1>5. CASE CloseStep
  BY <1>5 DEF CloseStep
<1>6. ASSUME NEW c \in Closer, Close(c) \/ CloseReturns(c) \/ CancelClose(c) PROVE CloseIsOrdered'
  BY <1>6 DEF Close, CloseReturns, CancelClose, runVars
<1>7. CASE UNCHANGED <<runVars, closeVars>>
  BY <1>7 DEF runVars, closeVars
<1> QED  BY <1>1, <1>2, <1>3, <1>4, <1>5, <1>6, <1>7
         DEF Next, vars, Environment, RunStep, Publish, Disconnect, ReceiverChokes, Revoke, Open, Answer,
             ReceiverEnds, ClientCloses

LEMMA BridgeInit == Init => BridgeInv
<1> SUFFICES ASSUME Init PROVE BridgeInv
  OBVIOUS
<1>1. client \in ClientType
  BY DEF Init, NoClient, NewClient, ClientType
<1>2. QueueTypes
  <2>1. queue \in Seq(Expression) /\ Len(queue) = 0
    BY DEF Init
  <2> QED  BY <2>1, BridgeAssumption DEF Init, QueueTypes
<1>4. closer \in [Closer -> {"none", "wait", "done", "cancelled"}]
  BY DEF Init
<1>5. BridgeTypeOK
  <2>1. hand \in Expression \cup {None} /\ faults \in 0..MaxFaults
    BY BridgeAssumption DEF Init
  <2> QED  BY <1>1, <1>2, <1>4, <2>1 DEF Init, BridgeTypeOK, QueueTypes
<1>3. ClientIsOrdered /\ RoundHasClient /\ CloseIsOrdered
  BY DEF Init, NoClient, NewClient, ClientIsOrdered, RoundHasClient, InRound, AwaitsHotkey, CloseIsOrdered
<1> QED  BY <1>3, <1>5 DEF BridgeInv

(* _run has at most one client whose close has not ended, whatever failed   *)
(* and whenever close came; what a client has open it holds, so that its   *)
(* close finds it, unless it is deaf; and close ends behind both.          *)
THEOREM BridgeInvCorrect == BridgeSpec => []BridgeInv
<1>1. BridgeInv /\ [Next]_vars => BridgeInv'
  BY TypeStep, RoundStep, CloseInvStep, ClientStep DEF BridgeInv, BridgeTypeOK, ClientInv
<1> QED  BY <1>1, BridgeInit, PTL DEF BridgeSpec

(* The state of the bridge has its type. *)
THEOREM TypeCorrect == BridgeSpec => []BridgeTypeOK
<1>1. BridgeInv => BridgeTypeOK
  BY DEF BridgeInv
<1> QED  BY <1>1, BridgeInvCorrect, PTL

(* When close is over no task of the bridge runs and every connection that  *)
(* a round had is closed, also one whose opening the close met or whose    *)
(* factory returned it after its cancellation; but not one of which VTube  *)
(* Studio sent a frame that cannot be read, or whose own close failed.     *)
THEOREM ClosedIsStillCorrect == BridgeSpec => []ClosedIsStill
<1>1. BridgeInv => ClosedIsStill
  BY DEF BridgeInv, ClientIsOrdered, RoundHasClient, InRound, AwaitsHotkey, CloseIsOrdered, ClosedIsStill
<1> QED  BY <1>1, BridgeInvCorrect, PTL

-----------------------------------------------------------------------------
(* The queue.                                                              *)

LEMMA QueueStep == BridgeInv /\ QueueIsRecent /\ [Next]_vars => QueueIsRecent'
<1> SUFFICES ASSUME BridgeInv, QueueIsRecent, [Next]_vars PROVE QueueIsRecent'
  OBVIOUS
<1>0. /\ BridgeTypeOK /\ BridgeTypeOK' /\ Capacity \in Nat \ {0} /\ MaxExpressions \in Nat
      /\ hand # None => fate[hand] = "taken"
      /\ hand # None => hand \in Expression
  BY TypeStep, BridgeAssumption DEF BridgeInv, BridgeTypeOK, QueueIsRecent
<1>00. /\ queue \in Seq(Expression) /\ Len(queue) \in Nat /\ Len(queue) <= Capacity
       /\ published \in Nat /\ published <= MaxExpressions /\ DOMAIN fate = Expression
       /\ Len(queue) <= published
       /\ \A i \in 1..Len(queue) : queue[i] = published - Len(queue) + i
  BY <1>0 DEF BridgeTypeOK, QueueIsRecent
<1>1. CASE Publish
  <2>1. /\ published' = published + 1 /\ published' \in Expression
        /\ hand' = hand /\ (hand # None => hand # published')
    BY <1>0, <1>00, <1>1 DEF Publish, runVars, Expression, QueueIsRecent
  <2>2. CASE Len(queue) = Capacity
    <3>1. /\ queue # <<>> /\ queue[1] = published - Capacity + 1
      BY <1>0, <1>00, <2>2
    <3>2. /\ queue' = Append(Tail(queue), published')
          /\ fate' = [fate EXCEPT ![Head(queue)] = "dropped", ![published'] = "queued"]
      BY <1>1, <2>2 DEF Publish
    <3>3. /\ Len(queue') = Len(queue)
          /\ \A i \in 1..Len(queue) - 1 : queue'[i] = queue[i + 1]
          /\ queue'[Len(queue)] = published'
      BY <1>00, <2>1, <2>2, <3>1, <3>2, TailOfQueue
    <3>4. Head(queue) = published - Capacity + 1 /\ Head(queue) \in Expression
      BY <1>00, <3>1, TailOfQueue
    <3>5. \A i \in 1..Len(queue') : queue'[i] = published' - Len(queue') + i
      <4> SUFFICES ASSUME NEW i \in 1..Len(queue) PROVE queue'[i] = published' - Len(queue) + i
        BY <3>3
      <4>1. CASE i = Len(queue)
        BY <1>00, <2>1, <3>3, <4>1
      <4>2. CASE i # Len(queue)
        <5>1. i \in 1..Len(queue) - 1 /\ i + 1 \in 1..Len(queue)
          BY <1>00, <4>2
        <5>2. queue'[i] = published - Len(queue) + (i + 1)
          BY <1>00, <3>3, <5>1
        <5> QED  BY <1>00, <2>1, <5>2
      <4> QED  BY <4>1, <4>2
    <3>6. \A e \in Expression :
             fate'[e] = IF e = published' THEN "queued" ELSE
                        IF e = published - Capacity + 1 THEN "dropped" ELSE fate[e]
      BY <1>00, <2>1, <3>2, <3>4
    <3>7. hand' # None => fate'[hand'] = "taken"
      BY <1>0, <1>00, <2>1, <2>2, <3>1, <3>4, <3>6 DEF QueueIsRecent, Expression
    <3> QED  BY <1>0, <1>00, <2>1, <2>2, <3>1, <3>3, <3>5, <3>6, <3>7 DEF QueueIsRecent, Expression
  <2>3. CASE Len(queue) # Capacity
    <3>1. /\ queue' = Append(queue, published')
          /\ fate' = [fate EXCEPT ![published'] = "queued"]
      BY <1>1, <2>3 DEF Publish
    <3>2. /\ Len(queue') = Len(queue) + 1
          /\ \A i \in 1..Len(queue) : queue'[i] = queue[i]
          /\ queue'[Len(queue) + 1] = published'
      BY <1>00, <2>1, <3>1
    <3>3. \A i \in 1..Len(queue') : queue'[i] = published' - Len(queue') + i
      BY <1>00, <2>1, <3>2, SMTT(30)
    <3>4. \A e \in Expression : fate'[e] = IF e = published' THEN "queued" ELSE fate[e]
      BY <1>00, <2>1, <3>1
    <3> QED  BY <1>0, <1>00, <2>1, <2>3, <3>2, <3>3, <3>4 DEF QueueIsRecent, Expression
  <2> QED  BY <2>2, <2>3
<1>2. CASE Serve /\ UNCHANGED <<queue, fate>>
  BY <1>0, <1>2 DEF Serve, Fail, QueueIsRecent
<1>3. CASE Serve /\ queue # <<>> /\ queue' = Tail(queue)
  <2>1. /\ Len(queue') = Len(queue) - 1 /\ Len(queue) > 0
        /\ \A i \in 1..Len(queue) - 1 : queue'[i] = queue[i + 1]
        /\ Head(queue) = published - Len(queue) + 1 /\ Head(queue) \in Expression
    BY <1>00, <1>3, TailOfQueue
  <2>2. PICK f \in {"taken", "discarded"} :
             /\ fate' = [fate EXCEPT ![Head(queue)] = f] /\ published' = published
             /\ f = "taken" => hand' = Head(queue)
             /\ f = "discarded" => hand' = hand
    <3>1. queue' # queue
      BY <2>1
    <3> QED  BY <1>3, <3>1 DEF Serve
  <2>3. \A i \in 1..Len(queue') : queue'[i] = published' - Len(queue') + i
    BY <1>00, <2>1, <2>2
  <2>4. \A e \in Expression : fate'[e] = IF e = Head(queue) THEN f ELSE fate[e]
    BY <1>00, <2>2
  <2>5. hand' # None => fate'[hand'] = "taken"
    <3>1. CASE f = "taken"
      BY <2>1, <2>2, <2>4, <3>1
    <3>2. CASE f = "discarded"
      <4>1. hand = None
        BY <1>3 DEF Serve, BridgeInv, RoundHasClient, AwaitsHotkey
      <4> QED  BY <2>2, <3>2, <4>1
    <3> QED  BY <3>1, <3>2
  <2> QED  BY <1>0, <1>00, <2>1, <2>2, <2>3, <2>4, <2>5 DEF QueueIsRecent, Expression
<1>4. CASE Process \/ Triggered
  <2>1. hand # None /\ UNCHANGED <<queue, published>>
    BY <1>4 DEF Process, Triggered, BridgeInv, RoundHasClient, AwaitsHotkey
  <2>2. CASE UNCHANGED fate /\ UNCHANGED hand
    BY <2>1, <2>2 DEF QueueIsRecent
  <2>3. CASE \E f \in {"unmapped", "shown", "failed", "lost"} :
                fate' = [fate EXCEPT ![hand] = f] /\ hand' = None
    <3>1. PICK f \in {"unmapped", "shown", "failed", "lost"} :
             fate' = [fate EXCEPT ![hand] = f] /\ hand' = None
      BY <2>3
    <3>2. \A e \in Expression : fate'[e] = IF e = hand THEN f ELSE fate[e]
      BY <1>00, <3>1
    <3> QED  BY <1>0, <2>1, <3>1, <3>2 DEF QueueIsRecent
  <2> QED  BY <1>4, <2>2, <2>3 DEF Process, Triggered, Ask, Fail
<1>5. CASE UNCHANGED queueVars
  <2>1. hand' \in {hand, None} \/ Serve
    BY DEF Next, vars, runVars, Environment, RunStep, Publish, Start, Disconnect, ReceiverChokes, Revoke, Open,
           Answer, ReceiverEnds, ClientCloses, CloseStep, Close, CloseReturns, CancelClose, Round,
           Connect, ApiState, Load, Authenticated, Delete, TokenGranted, Save, Process, Triggered,
           Failed, Backoff, Final, Fail, Goto, Ask, Ready
  <2> QED  BY <1>2, <1>5, <2>1 DEF queueVars, QueueIsRecent
<1>6. Serve => UNCHANGED <<queue, fate>> \/ (queue # <<>> /\ queue' = Tail(queue))
  BY DEF Serve
<1> QED  BY <1>1, <1>2, <1>3, <1>4, <1>5, <1>6, QueueSteps

LEMMA QueueInit == Init => QueueIsRecent
<1> SUFFICES ASSUME Init PROVE QueueIsRecent
  OBVIOUS
<1>1. queue = <<>> /\ Len(queue) = 0 /\ published = 0 /\ hand = None
  BY DEF Init
<1>2. \A e \in Expression : fate[e] = "none" /\ e > 0
  BY BridgeAssumption DEF Init, Expression
<1> QED  BY <1>1, <1>2, BridgeAssumption DEF QueueIsRecent, Expression

-----------------------------------------------------------------------------
(* The fates of expressions and the faults that cost them.                 *)

LEMMA FatesAreFinite == IsFiniteSet(Losses) /\ IsFiniteSet(Discarded)
<1>1. IsFiniteSet(Expression)
  BY FS_Interval, BridgeAssumption DEF Expression
<1> QED  BY <1>1, FS_Subset DEF Losses, Discarded

LEMMA DiscardStep ==
  BridgeInv /\ QueueIsRecent /\ OneDiscard /\ [Next]_vars => OneDiscard'
<1> SUFFICES ASSUME BridgeInv, QueueIsRecent, OneDiscard, [Next]_vars PROVE OneDiscard'
  OBVIOUS
<1>1. CASE Serve
  <2>1. Discarded = {}
    BY <1>1 DEF Serve, OneDiscard
  <2>2. PICK h : /\ Discarded' \subseteq {h}
                 /\ Discarded' # {} => closed' /\ run' = "final"
    <3>1. CASE UNCHANGED fate
      BY <2>1, <3>1 DEF Discarded
    <3>2. CASE fate' # fate /\ closed /\ run' = "final"
               /\ fate' = [fate EXCEPT ![Head(queue)] = "discarded"]
      BY <1>1, <2>1, <3>2 DEF Discarded, BridgeInv, BridgeTypeOK, Serve, closeVars
    <3>3. CASE fate' = [fate EXCEPT ![Head(queue)] = "taken"]
      BY <2>1, <3>3 DEF Discarded, BridgeInv, BridgeTypeOK
    <3> QED  BY <1>1, <3>1, <3>2, <3>3 DEF Serve
  <2>3. Cardinality({h}) = 1 /\ IsFiniteSet({h})
    BY FS_Singleton
  <2>4. Cardinality(Discarded') <= 1
    BY <2>2, <2>3, FS_Subset
  <2> QED  BY <2>2, <2>4 DEF OneDiscard
<1>2. CASE ~Serve
  <2>1. Discarded' \subseteq Discarded
    <3>1. CASE Publish
      BY <3>1, TailOfQueue DEF Publish, Discarded, BridgeInv, BridgeTypeOK
    <3>2. CASE Process \/ Triggered
      BY <3>2 DEF Process, Triggered, Discarded, BridgeInv, BridgeTypeOK
    <3>3. CASE UNCHANGED queueVars
      BY <3>3 DEF queueVars, Discarded
    <3> QED  BY <1>2, <3>1, <3>2, <3>3, QueueSteps
  <2>2. /\ Cardinality(Discarded') <= Cardinality(Discarded)
        /\ Cardinality(Discarded) \in Nat /\ Cardinality(Discarded') \in Nat
    BY <2>1, FatesAreFinite, FS_Subset, FS_CardinalityType
  <2>3. closed /\ run \in {"final", "done"} => closed' /\ run' \in {"final", "done"}
    BY <1>2 DEF Next, vars, runVars, closeVars, Environment, RunStep, Publish, Start, Disconnect,
       ReceiverChokes, Revoke, Open, Answer, ReceiverEnds, ClientCloses, CloseStep, Close, CloseReturns,
       CancelClose, Round, Connect, ApiState, Load, Authenticated, Delete, TokenGranted, Save,
       Process, Triggered, Failed, Backoff, Final
  <2> QED  BY <2>1, <2>2, <2>3 DEF OneDiscard
<1> QED  BY <1>1, <1>2

(* Only the answer to a hotkey makes a loss, and makes one. *)
LEMMA LossStep ==
  ASSUME BridgeInv, QueueIsRecent, [Next]_vars
  PROVE  /\ Cardinality(Losses) \in Nat /\ Cardinality(Losses') \in Nat
         /\ Cardinality(Losses') <= Cardinality(Losses) + 1
         /\ Publish \/ Serve \/ Process \/ UNCHANGED fate
              => Cardinality(Losses') <= Cardinality(Losses)
         /\ Triggered /\ client.answer \notin {"error", "lost"}
              => Cardinality(Losses') <= Cardinality(Losses)
<1>1. Cardinality(Losses) \in Nat
  BY FatesAreFinite, FS_CardinalityType
<1>2. ASSUME Triggered, client.answer \in {"error", "lost"}
      PROVE  Cardinality(Losses') \in Nat /\ Cardinality(Losses') <= Cardinality(Losses) + 1
  <2>1. Losses' \subseteq Losses \cup {hand}
    BY <1>2 DEF Triggered, Losses, BridgeInv, BridgeTypeOK
  <2>2. /\ Cardinality(Losses \cup {hand}) <= Cardinality(Losses) + 1
        /\ IsFiniteSet(Losses \cup {hand})
    BY <1>1, FatesAreFinite, FS_AddElement
  <2>3. /\ Cardinality(Losses') <= Cardinality(Losses \cup {hand})
        /\ Cardinality(Losses \cup {hand}) \in Nat /\ Cardinality(Losses') \in Nat
    BY <2>1, <2>2, FS_Subset, FS_CardinalityType
  <2> QED  BY <1>1, <2>2, <2>3
<1>3. ASSUME \/ Publish \/ Serve \/ Process \/ UNCHANGED fate
             \/ Triggered /\ client.answer \notin {"error", "lost"}
      PROVE  Cardinality(Losses') \in Nat /\ Cardinality(Losses') <= Cardinality(Losses)
  <2>1. Losses' \subseteq Losses
    <3>1. CASE Publish
      BY <3>1, TailOfQueue DEF Publish, Losses, BridgeInv, BridgeTypeOK
    <3>2. CASE Serve \/ Process
      BY <3>2 DEF Serve, Process, Losses, BridgeInv, BridgeTypeOK
    <3>3. CASE Triggered /\ client.answer \notin {"error", "lost"}
      <4>1. client.answer \in {"ok", "no"}
        BY <3>3 DEF Triggered, BridgeInv, BridgeTypeOK, ClientType, RoundHasClient
      <4> QED  BY <3>3, <4>1 DEF Triggered, Losses, BridgeInv, BridgeTypeOK
    <3>4. CASE UNCHANGED fate
      BY <3>4 DEF Losses
    <3> QED  BY <1>3, <3>1, <3>2, <3>3, <3>4
  <2>2. Cardinality(Losses') <= Cardinality(Losses) /\ Cardinality(Losses') \in Nat
    BY <2>1, FatesAreFinite, FS_Subset, FS_CardinalityType
  <2> QED  BY <2>2
<1> QED  BY <1>1, <1>2, <1>3, QueueSteps DEF queueVars

LEMMA FaultStep ==
  BridgeInv /\ QueueIsRecent /\ FaultsAreSpent /\ [Next]_vars => FaultsAreSpent'
<1> SUFFICES ASSUME BridgeInv, QueueIsRecent, FaultsAreSpent, [Next]_vars PROVE FaultsAreSpent'
  OBVIOUS
<1> DEFINE NoLoss == Cardinality(Losses') <= Cardinality(Losses)
<1>1. /\ Cardinality(Losses) \in Nat /\ Cardinality(Losses') \in Nat
      /\ Cardinality(Losses') <= Cardinality(Losses) + 1
      /\ Publish \/ Serve \/ Process \/ UNCHANGED fate => NoLoss
      /\ Triggered /\ client.answer \notin {"error", "lost"} => NoLoss
      /\ faults \in Nat /\ faults' \in Nat
  <2>1. BridgeTypeOK /\ BridgeTypeOK'
    BY TypeStep DEF BridgeInv
  <2>2. faults \in Nat /\ faults' \in Nat
    BY <2>1, BridgeAssumption DEF BridgeTypeOK
  <2> QED  BY <2>2, LossStep
<1>2. Fault => faults' = faults + 1
  BY DEF Fault
(* What a step must not do but with a fault of its own. *)
<1>3. SUFFICES
        \/ /\ faults' = faults /\ (closed => closed') /\ NoLoss
           /\ WillFail' => WillFail
           /\ WillLose' => WillLose \/ (closed' /\ ~closed)
        \/ /\ faults' = faults + 1 /\ closed' = closed /\ NoLoss
           /\ (WillFail' => WillFail) \/ (WillLose' => WillLose)
        \/ /\ Triggered /\ client.answer = "error"
           /\ faults' = faults /\ closed' = closed
           /\ WillFail /\ ~WillFail' /\ (WillLose' => WillLose)
        \/ /\ Triggered /\ client.answer = "lost"
           /\ faults' = faults /\ closed' = closed
           /\ WillLose /\ ~WillLose' /\ ~WillFail'
  BY <1>1 DEF FaultsAreSpent, Count
<1> HIDE DEF NoLoss
<1> USE <1>1 DEF WillFail, WillLose, InRound, AwaitsHotkey, BridgeInv, RoundHasClient
<1>4. CASE Round
  BY <1>2, <1>4 DEF Round, NewClient, queueVars, closeVars
<1>5. CASE Connect
  BY <1>2, <1>5 DEF BridgeTypeOK, ClientType, Connect, Fail, Goto, queueVars, closeVars
<1>19. CASE ApiState
  BY <1>2, <1>19 DEF ApiState, Fail, Goto, queueVars, closeVars
<1>20. CASE Load
  BY <1>2, <1>20 DEF BridgeTypeOK, ClientType, Load, Ask, Goto, queueVars, closeVars
<1>21. CASE Authenticated
  BY <1>2, <1>21 DEF Authenticated, Ready, Fail, Goto, queueVars, closeVars
<1>6. CASE Delete
  BY <1>2, <1>6 DEF BridgeTypeOK, ClientType, Delete, Ask, Fail, queueVars, closeVars
<1>22. CASE TokenGranted
  BY <1>2, <1>22 DEF BridgeTypeOK, ClientType, TokenGranted, Ask, Fail, Goto, queueVars, closeVars
<1>23. CASE Save
  BY <1>2, <1>23 DEF Save, Ready, Fail, queueVars, closeVars
<1>7. CASE Serve
  BY <1>7 DEF Serve, Fail, CloseClient, closeVars
<1>8. CASE Process
  <2>1. CASE hand \notin Mapped
    BY <1>8, <2>1 DEF Process, closeVars
  <2>2. CASE hand \in Mapped
    <3>1. /\ run' = "request" /\ asks' = "hotkey" /\ run = "taken"
          /\ client'.answer = (IF Connected THEN "wait" ELSE "lost") /\ client'.socket = client.socket
      BY <1>8, <2>2 DEF Process, Ask, BridgeTypeOK, ClientType
    <3>2. Connected \/ closed \/ client.socket \in {"lost", "deaf"}
      BY <3>1 DEF Connected
    <3> QED  BY <1>8, <3>1, <3>2 DEF Process, closeVars
  <2> QED  BY <2>1, <2>2
<1>9. CASE Triggered
  <2>1. CASE client.answer = "lost"
    BY <1>9, <2>1 DEF Triggered, Fail, closeVars
  <2>2. CASE client.answer # "lost"
    BY <1>9, <2>2 DEF Triggered, closeVars
  <2> QED  BY <2>1, <2>2
<1>10. CASE Failed \/ Backoff \/ Final \/ Start \/ Publish \/ UNCHANGED vars
  BY <1>10 DEF Failed, Backoff, Final, Start, Publish, Goto, vars, queueVars, runVars, closeVars
<1>11. CASE Disconnect
  BY <1>2, <1>11 DEF Disconnect, queueVars, runVars, closeVars
<1>12. CASE Open
  <2>1. client'.answer = client.answer /\ client'.socket \in {client.socket, "open"}
    BY <1>12 DEF Open, BridgeTypeOK, ClientType
  <2> QED  BY <1>2, <1>12, <2>1 DEF Open, queueVars, runVars, closeVars
<1>13. CASE Answer
  <2>1. client'.socket = client.socket /\ client.answer = "wait"
    BY <1>13 DEF Answer, BridgeTypeOK, ClientType
  <2>2. client'.answer \in {"ok", "no"} \/ faults' = faults + 1
    BY <1>2, <1>13 DEF Answer, BridgeTypeOK, ClientType
  <2> QED  BY <1>2, <1>13, <2>1, <2>2 DEF Answer, queueVars, runVars, closeVars
<1>14. CASE ReceiverEnds
  BY <1>14 DEF ReceiverEnds, Fails, queueVars, runVars, closeVars
<1>24. CASE ReceiverChokes
  <2>1. client'.answer \in {client.answer, "lost"}
    BY <1>24 DEF ReceiverChokes, Fails, BridgeTypeOK, ClientType
  <2> QED  BY <1>2, <1>24, <2>1 DEF ReceiverChokes, queueVars, runVars, closeVars
<1>15. CASE ClientCloses
  <2>1. client.closed
    BY <1>15, ZenonT(60) DEF ClientCloses, ClientIsOrdered
  <2>2. client'.answer \in {client.answer, "lost"}
    <3>1. client'.answer \in {client.answer, Fails(client.answer)}
      BY <1>15, ZenonT(60) DEF ClientCloses, BridgeTypeOK, ClientType
    <3> QED  BY <3>1 DEF Fails
  <2>3. \/ faults' = faults
        \/ faults' = faults + 1
    BY <1>2, <1>15 DEF ClientCloses
  <2>4. UNCHANGED <<queueVars, runVars, closeVars>>
    BY <1>15 DEF ClientCloses
  <2>5. InRound => closed
    BY <2>1
  <2> QED  BY <2>2, <2>3, <2>4, <2>5 DEF queueVars, runVars, closeVars
<1>16. CASE Revoke
  BY <1>2, <1>16 DEF Revoke, queueVars, runVars, closeVars
<1>17. CASE CloseStep
  <2>1. client'.socket = client.socket /\ client'.answer = client.answer
    BY <1>17 DEF CloseStep, CloseClient, BridgeTypeOK, ClientType
  <2> QED  BY <1>17, <2>1 DEF CloseStep, queueVars
<1>18. ASSUME NEW c \in Closer, Close(c) \/ CloseReturns(c) \/ CancelClose(c)
       PROVE  /\ faults' = faults /\ (closed => closed')
              /\ NoLoss
              /\ WillFail' => WillFail
              /\ WillLose' => WillLose \/ (closed' /\ ~closed)
  BY <1>18 DEF Close, CloseReturns, CancelClose, queueVars, runVars
<1> QED  BY <1>4, <1>5, <1>6, <1>7, <1>8, <1>9, <1>10, <1>11, <1>12, <1>13, <1>14, <1>15, <1>16,
            <1>17, <1>18, <1>19, <1>20, <1>21, <1>22, <1>23, <1>24 DEF Next, Environment, RunStep

LEMMA FatesInit == Init => OneDiscard /\ FaultsAreSpent
<1> SUFFICES ASSUME Init PROVE OneDiscard /\ FaultsAreSpent
  OBVIOUS
<1>1. Discarded = {} /\ Losses = {}
  BY DEF Init, Discarded, Losses
<1>2. Cardinality(Discarded) = 0 /\ Cardinality(Losses) = 0
  BY <1>1, FS_EmptySet
<1>3. ~WillFail /\ ~WillLose /\ faults = 0 /\ closed = FALSE
  BY DEF Init, WillFail, WillLose, AwaitsHotkey, InRound
<1> QED  BY <1>1, <1>2, <1>3 DEF OneDiscard, FaultsAreSpent, Count

FateInv == QueueIsRecent /\ OneDiscard /\ FaultsAreSpent

(* The queue has no gap, and each expression that was lost has a fault or   *)
(* the close that cost it.                                                 *)
THEOREM FateInvCorrect == BridgeSpec => [](BridgeInv /\ FateInv)
<1>1. Init => FateInv
  BY QueueInit, FatesInit DEF FateInv
<1>2. BridgeInv /\ FateInv /\ [Next]_vars => FateInv'
  BY QueueStep, DiscardStep, FaultStep DEF FateInv
<1> QED  BY <1>1, <1>2, BridgeInvCorrect, PTL DEF BridgeSpec

(* Expressions reach the avatar in the order of the dialogue; a full queue *)
(* gives up the oldest; and a connection that fails at whatever moment     *)
(* costs one expression at most.                                           *)
THEOREM ExpressionsAreKeptCorrect == BridgeSpec => []ExpressionsAreKept
<1>1. BridgeInv /\ FateInv => ExpressionsAreKept
  <2> SUFFICES ASSUME BridgeInv, FateInv PROVE ExpressionsAreKept
    OBVIOUS
  <2>1. BridgeTypeOK /\ QueueIsRecent /\ OneDiscard /\ FaultsAreSpent
    BY DEF BridgeInv, FateInv
  <2>2. /\ Len(queue) \in Nat /\ published \in Nat /\ Capacity \in Nat
        /\ Expression \subseteq Nat /\ faults \in Nat
        /\ queue \in Seq(Expression)
    BY <2>1, BridgeAssumption DEF BridgeTypeOK, Expression
  <2>3. ExpressionsInOrder
    <3> SUFFICES ASSUME NEW e \in Expression, NEW f \in Expression, e < f
                 PROVE  /\ fate[f] \notin {"none", "queued", "dropped"} => fate[e] # "queued"
                        /\ fate[f] = "dropped" => fate[e] # "queued"
                        /\ fate[e] = "dropped" /\ fate[f] = "none" => f > e + Capacity
      BY DEF ExpressionsInOrder
    <3>1. e \in Nat /\ f \in Nat
      BY <2>2
    <3> QED  BY <2>1, <2>2, <3>1 DEF QueueIsRecent
  <2>4. {e \in Expression : fate[e] \in {"queued"}} = {queue[i] : i \in 1..Len(queue)}
    <3>1. ASSUME NEW i \in 1..Len(queue)
          PROVE  queue[i] \in Expression /\ fate[queue[i]] = "queued"
      <4>1. queue[i] \in Expression /\ queue[i] = published - Len(queue) + i
        BY <2>1, <2>2 DEF QueueIsRecent
      <4> QED  BY <2>1, <2>2, <4>1 DEF QueueIsRecent
    <3>2. ASSUME NEW e \in Expression, fate[e] = "queued"
          PROVE  \E i \in 1..Len(queue) : queue[i] = e
      <4>1. published - Len(queue) < e /\ e <= published /\ e \in Nat
        BY <2>1, <2>2, <3>2 DEF QueueIsRecent
      <4>2. e - (published - Len(queue)) \in 1..Len(queue)
        BY <2>2, <4>1
      <4>3. queue[e - (published - Len(queue))] = e
        BY <2>1, <2>2, <4>1, <4>2 DEF QueueIsRecent
      <4> QED  BY <4>2, <4>3
    <3> QED  BY <3>1, <3>2
  <2>5. /\ Cardinality({e \in Expression : fate[e] \in {"lost", "failed"}})
             <= faults + (IF closed THEN 1 ELSE 0)
        /\ Cardinality({e \in Expression : fate[e] \in {"discarded"}}) <= (IF closed THEN 1 ELSE 0)
    <3>1. /\ Cardinality(Losses) \in Nat /\ Cardinality(Discarded) \in Nat
          /\ {e \in Expression : fate[e] \in {"discarded"}} = Discarded
      BY FatesAreFinite, FS_CardinalityType DEF Discarded
    <3>2. Cardinality(Discarded) <= (IF closed THEN 1 ELSE 0)
      BY <2>1, <3>1, FS_EmptySet DEF OneDiscard
    <3>3. Cardinality(Losses) <= faults + (IF closed THEN 1 ELSE 0)
      BY <2>1, <2>2, <3>1 DEF FaultsAreSpent, Count
    <3> QED  BY <3>1, <3>2, <3>3 DEF Losses
  <2> QED  BY <2>3, <2>4, <2>5 DEF ExpressionsAreKept, FaultCostsOne
<1> QED  BY <1>1, FateInvCorrect, PTL
=============================================================================
