---------------------------- MODULE MemoryRuntime ----------------------------
(***************************************************************************)
(* The memory of app/memory: runtime.py (prompt snapshots with revocation  *)
(* epochs, supervisor of candidate tasks, feature switches, management     *)
(* requests, close) over service.py (the services that worker threads run  *)
(* under a lock) and the tables of MemoryStore.                            *)
(*                                                                         *)
(* A section of a service under its RLock and a transaction is one step;   *)
(* a coroutine is interrupted where it awaits a thread, a lock or a task.  *)
(* A cancelled candidate task first lets its thread end                    *)
(* (_drainable_to_thread).  The callback that the listener of the flag     *)
(* posts runs before the coroutine that waits for the same thread, and     *)
(* does what that coroutine does next: the two are one step.               *)
(***************************************************************************)
EXTENDS MemoryStore, TLC

CONSTANTS
    Message,    \* user messages, and their turns and candidate tasks
    Prompt,     \* calls of snapshot_for
    Request,    \* management requests
    Proposals,  \* sets of claims, one per slot, that the analyzer may return
    Edits,      \* texts a user may write into a memory, with their class
    Stores,     \* databases the program is started with: memories and flags
    MemoryId,   \* bound: rows that exist at a time
    None

(* What the tables may hold: the checks of the schema.                     *)
Claims   == UNION Proposals
Keys     == {c.key : c \in Claims} \cup UNION {{r.key : r \in s.db.rows} : s \in Stores}
Texts    == {c.text : c \in Claims} \cup {e.text : e \in Edits}
                \cup UNION {{r.text : r \in s.db.rows} : s \in Stores}
Rows     == [id : MemoryId, key : Keys, text : Texts, type : Types,
             sens : Sensitivities \ {"credential"}, status : {"active", "superseded"}]
Profiles == [key : Keys, id : MemoryId, text : Texts]
Database == [rows : SUBSET Rows, profiles : SUBSET Profiles]

ASSUME MemoryAssumption ==
    /\ None \notin Message \cup Prompt \cup Request
    /\ \A cs \in Proposals : \A c, d \in cs : c.key = d.key => c = d
    /\ \A c \in Claims : c.type \in Types /\ c.sens \in Sensitivities
    /\ \A e \in Edits : e.sens \in Sensitivities
    /\ \A s \in Stores : /\ s.ltm \in BOOLEAN /\ s.hist \in BOOLEAN
                        /\ s.db \in Database /\ Constraints(s.db)

Ops ==
    {[op |-> "ltm", on |-> b] : b \in BOOLEAN} \cup {[op |-> "hist", on |-> b] : b \in BOOLEAN}
    \cup {[op |-> "delete", id |-> i] : i \in MemoryId}
    \cup {[op |-> "update", id |-> i, edit |-> e] : i \in MemoryId, e \in Edits}
    \cup {[op |-> "clear"], [op |-> "clear_history"]}
    \cup {[op |-> "confirm", msg |-> m, approved |-> b] : m \in Message, b \in BOOLEAN}

NoOp == [op |-> "none"]

VARIABLES
    db,         \* memories and profiles
    history,    \* conversation_messages: message and role
    ltm, hist,  \* the flags long_term_memory and recent_history
    pending,    \* _pending: the confirmations, [msg, claim]
    epoch,      \* MemoryPromptContextSource._epoch
    prompt,     \* a call of snapshot_for: pc, epoch read, items built; history: what
                \* went meanwhile with a deletion that raised
    turn,       \* the turn of a message, as its observer sees it
    task,       \* the candidate task of a message: pc and claims left
    throw,      \* tasks with a CancelledError to be raised
    request,    \* a request: pc and operation
    took,       \* history: what a request has taken out of sight
    gone,       \* history: what finished requests have, and nobody put back
    consent,    \* history: the texts that the user has confirmed, now or before
    answered,   \* history: the confirmations that the user has answered
    featureLock,\* _feature_update_lock
    closer      \* MemoryCandidateSupervisor.close

dataVars == <<db, history, ltm, hist, pending, gone>>
taskVars == <<turn, task, throw>>
consentVars == <<consent, answered>>
vars == <<dataVars, epoch, prompt, taskVars, request, took, consentVars, featureLock, closer>>

Running(m) == task[m].pc \in {"analyze", "next", "store"}

(* What a snapshot that is built now contains.                             *)
Visible ==
    (IF hist THEN history ELSE {})
    \cup (IF ltm THEN ProfileItems(db) \cup MemoryItems(db, ProfileItems(db)) ELSE {})

Item == [id : Message, text : {"user", "assistant"}] \cup [id : MemoryId, text : Texts]

MemTypeOK ==
    /\ db \in Database
    /\ history \subseteq [id : Message, text : {"user", "assistant"}]
    /\ ltm \in BOOLEAN /\ hist \in BOOLEAN
    /\ pending \subseteq [msg : Message, claim : Claims]
    /\ epoch \in Nat
    /\ prompt \in [Prompt -> [pc : {"idle", "history", "profiles", "memories", "built", "retry", "done"},
                              epoch : Nat, items : SUBSET Item, missed : SUBSET Item]]
    /\ turn \in [Message -> {"idle", "accepted", "replied", "over"}]
    /\ task \in [Message -> [pc : {"none", "analyze", "next", "store", "done"},
                             claims : SUBSET Claims]]
    /\ throw \subseteq Message
    /\ request \in [Request -> [pc : {"idle", "lock", "thread", "cancel", "drain", "invalidate", "done"},
                                op : Ops \cup {NoOp}]]
    /\ took \in [Request -> SUBSET Item] /\ gone \subseteq Item
    /\ consent \subseteq Texts /\ answered \subseteq [msg : Message, claim : Claims]
    /\ featureLock \in Request \cup {None} /\ closer \in {"none", "drain", "done"}

Init ==
    /\ \E s \in Stores :
           /\ db = s.db /\ ltm = s.ltm /\ hist = s.hist
           /\ consent = {r.text : r \in {x \in s.db.rows : x.sens # "normal"}}
    /\ history = {}
    /\ pending = {} /\ epoch = 0
    /\ prompt = [p \in Prompt |-> [pc |-> "idle", epoch |-> 0, items |-> {}, missed |-> {}]]
    /\ turn = [m \in Message |-> "idle"]
    /\ task = [m \in Message |-> [pc |-> "none", claims |-> {}]]
    /\ throw = {}
    /\ request = [r \in Request |-> [pc |-> "idle", op |-> NoOp]]
    /\ took = [r \in Request |-> {}]
    /\ gone = {} /\ answered = {}
    /\ featureLock = None /\ closer = "none"

Ended(r) == request[r].pc = "done"

(* The history variable: what is visible again is not gone.               *)
Track ==
    gone' = (gone \cup UNION {took[r] : r \in {x \in Request : ~Ended(x) /\ Ended(x)'}})
                \ Visible'

-----------------------------------------------------------------------------
(* snapshot_for: a thread builds the snapshot in three sections, between   *)
(* two looks at the epoch.                                                 *)
PromptVars == <<dataVars, epoch, taskVars, request, took, consentVars, featureLock, closer>>

ReadEpoch(p) ==
    /\ prompt[p].pc \in {"idle", "retry"}
    /\ prompt' = [prompt EXCEPT ![p] = 
        [pc |-> "history", epoch |-> epoch, items |-> {}, missed |-> {}]]
    /\ UNCHANGED PromptVars

BuildHistory(p) ==
    /\ prompt[p].pc = "history"
    /\ prompt' = [prompt EXCEPT ![p].pc = "profiles", ![p].items = IF hist THEN history ELSE {}]
    /\ UNCHANGED PromptVars

BuildProfiles(p) ==
    /\ prompt[p].pc = "profiles"
    /\ prompt' = [prompt EXCEPT ![p].pc = "memories",
                                ![p].items = @ \cup (IF ltm THEN ProfileItems(db) ELSE {})]
    /\ UNCHANGED PromptVars

BuildMemories(p) ==
    /\ prompt[p].pc = "memories"
    /\ prompt' = [prompt EXCEPT ![p].pc = "built",
                    ![p].items = @ \cup (IF ltm THEN MemoryItems(db, ProfileItems(db)) ELSE {})]
    /\ UNCHANGED PromptVars

CheckEpoch_Never(p) ==
    /\ prompt[p].pc = "built"
    /\ prompt' = [prompt EXCEPT ![p] =
        [pc |-> "done", epoch |-> 0, items |-> {}, missed |-> {}]]
    /\ UNCHANGED PromptVars

(* The snapshot is handed out only if the epoch is still the same.         *)
CheckEpoch(p) ==
    /\ prompt[p].pc = "built"
    /\ prompt' = [prompt EXCEPT ![p] =
        [pc |-> IF @.epoch = epoch THEN "done" ELSE "retry", epoch |-> 0, items |-> {},
         missed |-> {}]]
    /\ UNCHANGED PromptVars

-----------------------------------------------------------------------------
(* MemoryTurnObserver.                                                     *)
TurnFrame == <<db, ltm, hist, pending, epoch, prompt, throw, request, took,
               consentVars, featureLock, closer>>

OnUserAccepted(m) ==
    /\ turn[m] = "idle"
    /\ turn' = [turn EXCEPT ![m] = "accepted"]
    /\ history' = IF hist THEN history \cup {[id |-> m, text |-> "user"]} ELSE history
    /\ UNCHANGED <<task, TurnFrame>>
    /\ Track

OnTurnCompleted(m) ==
    /\ turn[m] = "accepted"
    /\ turn' = [turn EXCEPT ![m] = "replied"]
    /\ history' = IF hist THEN history \cup {[id |-> m, text |-> "assistant"]} ELSE history
    /\ UNCHANGED <<task, TurnFrame>>
    /\ Track

(* MemoryCandidateSupervisor.submit.                                       *)
Submit(m) ==
    /\ turn[m] = "replied"
    /\ turn' = [turn EXCEPT ![m] = "over"]
    /\ task' = IF closer = "none" /\ ltm THEN [task EXCEPT ![m].pc = "analyze"] ELSE task
    /\ UNCHANGED <<history, TurnFrame>>
    /\ Track

-----------------------------------------------------------------------------
(* _analyze_and_store.                                                     *)
TaskFrame == <<history, ltm, hist, epoch, prompt, turn, request, took, featureLock, closer>>

EndTask(m) ==
    /\ task' = [task EXCEPT ![m] = [pc |-> "done", claims |-> {}]]
    /\ throw' = throw \ {m}

(* The analyzer answers with claims, or fails, which is not an error.      *)
Analyze(m) ==
    /\ task[m].pc = "analyze" /\ m \notin throw
    /\ \E cs \in Proposals \cup {{}} :
        task' = [task EXCEPT ![m] = [pc |-> "next", claims |-> cs]]
    /\ UNCHANGED <<throw, db, pending, consentVars, TaskFrame>>
    /\ Track

NextClaim(m) ==
    /\ task[m].pc = "next" /\ m \notin throw
    /\ IF task[m].claims = {} \/ ~ltm THEN EndTask(m)
       ELSE task' = [task EXCEPT ![m].pc = "store"] /\ UNCHANGED throw
    /\ UNCHANGED <<db, pending, consentVars, TaskFrame>>
    /\ Track

Interrupted(m) ==
    /\ task[m].pc \in {"analyze", "next"} /\ m \in throw
    /\ EndTask(m)
    /\ UNCHANGED <<db, pending, consentVars, TaskFrame>>
    /\ Track

(* A claim that was approved is stored; its id is new (bound: MemoryId).   *)
Save(c) ==
    \E id \in MemoryId :
        /\ id \notin {r.id : r \in db.rows}
        /\ db' = Upsert(db, c, id)

(* consider_user_claim, under the lock of the service.                     *)
Consider(m) ==
    /\ task[m].pc = "store"
    /\ \E c \in task[m].claims :
        /\ CASE ~ltm \/ Evaluate(c) = "reject" -> UNCHANGED <<db, pending>>
             [] ltm /\ Evaluate(c) = "confirmation_required" ->
                    pending' = pending \cup {[msg |-> m, claim |-> c]} /\ UNCHANGED db
             [] ltm /\ Evaluate(c) = "save" -> Save(c) /\ UNCHANGED pending
        /\ IF m \in throw \/ (ltm /\ Evaluate(c) = "save" /\ TypeConflict(db, c))
           THEN EndTask(m)
           ELSE /\ task' = [task EXCEPT ![m] = [pc |-> "next", claims |-> @.claims \ {c}]]
                /\ UNCHANGED throw
    /\ UNCHANGED <<consentVars, TaskFrame>>
    /\ Track

-----------------------------------------------------------------------------
(* Requests.                                                               *)
CancelAllNow == throw' = throw \cup {m \in Message : Running(m)}

Step(r, pc) ==
    request' = [request EXCEPT ![r] = [pc |-> pc, op |-> IF pc = "done" THEN NoOp ELSE @.op]]

(* What the step takes out of sight is remembered for the properties.      *)
Take(r) == took' = [took EXCEPT ![r] = Visible \ Visible']

Begin(r) ==
    /\ request[r].pc = "idle"
    /\ \E o \in Ops :
        request' = [request EXCEPT ![r] =
            [pc |-> IF o.op \in {"ltm", "hist"} THEN "lock" ELSE "thread", op |-> o]]
    /\ UNCHANGED <<dataVars, epoch, prompt, taskVars, took, consentVars, featureLock, closer>>

LockFeatures(r) ==
    /\ request[r].pc = "lock" /\ featureLock = None
    /\ featureLock' = r
    /\ Step(r, "thread")
    /\ UNCHANGED <<dataVars, epoch, prompt, taskVars, took, consentVars, closer>>

(* MemoryService.set_enabled in a thread; switched off, the tasks are      *)
(* cancelled as soon as the loop runs.                                     *)
SetLongTerm(r) ==
    /\ request[r].pc = "thread" /\ request[r].op.op = "ltm"
    /\ LET on == request[r].op.on
       IN  /\ ltm' = on
           /\ pending' = IF on THEN pending ELSE {}
           /\ Step(r, IF on THEN "invalidate" ELSE "cancel")
    /\ UNCHANGED <<db, history, hist, epoch, prompt, taskVars, consentVars, featureLock, closer>>
    /\ Take(r) /\ Track

CancelActive(r) ==
    /\ request[r].pc = "cancel"
    /\ CancelAllNow
    /\ Step(r, "drain")
    /\ UNCHANGED <<dataVars, epoch, prompt, turn, task, took, consentVars, featureLock, closer>>

Finalize_NoWait(r) ==
    /\ request[r].pc = "drain"
    /\ pending' = IF ltm THEN pending ELSE {}
    /\ Step(r, "invalidate")
    /\ UNCHANGED <<db, history, ltm, hist, epoch, prompt, taskVars, took, consentVars,
                   featureLock, closer>>
    /\ Track

(* wait_idle joins the tasks that it found; none is added meanwhile.       *)
Finalize(r) ==
    /\ request[r].pc = "drain"
    /\ \A m \in Message : ~Running(m)
    /\ pending' = IF ltm THEN pending ELSE {}
    /\ Step(r, "invalidate")
    /\ UNCHANGED <<db, history, ltm, hist, epoch, prompt, taskVars, took, consentVars,
                   featureLock, closer>>
    /\ Track

SetHistory(r) ==
    /\ request[r].pc = "thread" /\ request[r].op.op = "hist"
    /\ hist' = request[r].op.on
    /\ Step(r, "invalidate")
    /\ UNCHANGED <<db, history, ltm, pending, epoch, prompt, taskVars, consentVars,
                   featureLock, closer>>
    /\ Take(r) /\ Track

ManageFrame == <<ltm, hist, epoch, taskVars, featureLock, closer>>

(* A request that has done its work goes on to pc.                         *)
Managed(r, pc) == Step(r, pc) /\ Take(r) /\ Track /\ UNCHANGED prompt

(* A deletion is committed, and then the file is cleaned (secure_cleanup). *)
(* If that raises, the request ends there: the epoch stays, and what was   *)
(* deleted may be in a snapshot that is being built.                       *)
CleanupRaises(r) ==
    LET lost == Visible \ Visible'
    IN  /\ Step(r, "done")
        /\ gone' = (gone \cup lost) \ Visible'
        /\ prompt' = [p \in Prompt |->
             IF prompt[p].pc \in {"profiles", "memories", "built"}
             THEN [prompt[p] EXCEPT !.missed = @ \cup lost] ELSE prompt[p]]
        /\ UNCHANGED took

(* delete_for_management, without the lock of the service.                 *)
Delete(r) ==
    /\ request[r].pc = "thread" /\ request[r].op.op = "delete"
    /\ db' = DeleteRows(db, {request[r].op.id})
    /\ UNCHANGED <<history, pending, consentVars, ManageFrame>>
    /\ IF request[r].op.id \in {x.id : x \in db.rows}
       THEN Managed(r, "invalidate") \/ CleanupRaises(r) ELSE Managed(r, "done")

(* update_for_management: a credential, a missing or a duplicate memory    *)
(* ends the request.                                                       *)
Update(r) ==
    /\ request[r].pc = "thread" /\ request[r].op.op = "update"
    /\ LET o == request[r].op
       IN  IF o.edit.sens # "credential" /\ CanUpdate(db, o.id, o.edit.text)
           THEN /\ db' = UpdateContent(db, o.id, o.edit.text, o.edit.sens)
                /\ consent' = consent \cup {o.edit.text}
                /\ Step(r, "invalidate")
           ELSE Step(r, "done") /\ UNCHANGED <<db, consent>>
    /\ UNCHANGED <<history, pending, answered, prompt, ManageFrame>>
    /\ Take(r) /\ Track

Clear(r) ==
    /\ request[r].pc = "thread" /\ request[r].op.op = "clear"
    /\ db' = EmptyStore /\ pending' = {}
    /\ UNCHANGED <<history, consentVars, ManageFrame>>
    /\ Managed(r, "invalidate") \/ (db.rows # {} /\ CleanupRaises(r))

ClearHistory(r) ==
    /\ request[r].pc = "thread" /\ request[r].op.op = "clear_history"
    /\ history' = {}
    /\ UNCHANGED <<db, pending, consentVars, ManageFrame>>
    /\ Managed(r, "invalidate") \/ (history # {} /\ CleanupRaises(r))

ConfirmFrame == <<history, prompt, ManageFrame>>

(* The answer to the confirmation x.                                       *)
Answer(r, x) ==
    /\ answered' = answered \cup {x}
    /\ IF request[r].op.approved /\ ltm /\ ~TypeConflict(db, x.claim)
       THEN /\ Save(x.claim) /\ consent' = consent \cup {x.claim.text}
            /\ Step(r, "invalidate")
       ELSE Step(r, "done") /\ UNCHANGED <<db, consent>>

Confirm_PopsDeclined(r) ==
    /\ request[r].pc = "thread" /\ request[r].op.op = "confirm"
    /\ \/ /\ \A x \in pending : x.msg # request[r].op.msg
          /\ Step(r, "done")
          /\ UNCHANGED <<db, pending, consentVars>>
       \/ \E x \in pending :
            /\ x.msg = request[r].op.msg
            /\ pending' = IF request[r].op.approved THEN pending ELSE pending \ {x}
            /\ Answer(r, x)
    /\ UNCHANGED ConfirmFrame
    /\ Take(r) /\ Track

(* confirm: the confirmation is used up, whatever the answer.              *)
Confirm(r) ==
    /\ request[r].pc = "thread" /\ request[r].op.op = "confirm"
    /\ \/ /\ \A x \in pending : x.msg # request[r].op.msg
          /\ Step(r, "done")
          /\ UNCHANGED <<db, pending, consentVars>>
       \/ \E x \in pending :
            /\ x.msg = request[r].op.msg
            /\ pending' = pending \ {x}
            /\ Answer(r, x)
    /\ UNCHANGED ConfirmFrame
    /\ Take(r) /\ Track

Invalidate(r) ==
    /\ request[r].pc = "invalidate"
    /\ epoch' = epoch + 1
    /\ Step(r, "done")
    /\ featureLock' = IF featureLock = r THEN None ELSE featureLock
    /\ took' = [took EXCEPT ![r] = {}]
    /\ UNCHANGED <<db, history, ltm, hist, pending, prompt, taskVars, consentVars, closer>>
    /\ Track

-----------------------------------------------------------------------------
(* The TTL of a confirmation runs out: _prune_locked drops it, lazily or   *)
(* from the maintenance loop.                                              *)
Prune ==
    /\ \E x \in pending : pending' = pending \ {x}
    /\ UNCHANGED <<db, history, ltm, hist, gone, epoch, prompt, taskVars, request, took,
                   consentVars, featureLock, closer>>

Close ==
    /\ closer = "none"
    /\ closer' = "drain"
    /\ CancelAllNow
    /\ UNCHANGED <<dataVars, epoch, prompt, turn, task, request, took, consentVars, featureLock>>

CloseDrained ==
    /\ closer = "drain"
    /\ \A m \in Message : ~Running(m)
    /\ closer' = "done"
    /\ UNCHANGED <<dataVars, epoch, prompt, taskVars, request, took, consentVars, featureLock>>

-----------------------------------------------------------------------------
PromptStep(p) ==
    ReadEpoch(p) \/ BuildHistory(p) \/ BuildProfiles(p) \/ BuildMemories(p) \/ CheckEpoch(p)

TaskStep(m) == Analyze(m) \/ NextClaim(m) \/ Interrupted(m) \/ Consider(m)

RequestStep(r) ==
    \/ LockFeatures(r) \/ SetLongTerm(r) \/ CancelActive(r) \/ Finalize(r) \/ SetHistory(r)
    \/ Delete(r) \/ Update(r) \/ Clear(r) \/ ClearHistory(r) \/ Confirm(r) \/ Invalidate(r)

Next ==
    \/ \E p \in Prompt : PromptStep(p)
    \/ \E m \in Message : OnUserAccepted(m) \/ OnTurnCompleted(m) \/ Submit(m) \/ TaskStep(m)
    \/ \E r \in Request : Begin(r) \/ RequestStep(r)
    \/ Prune \/ Close \/ CloseDrained

MemSpec == Init /\ [][Next]_vars

-----------------------------------------------------------------------------
(* What a finished request has deleted, replaced or switched off is in no  *)
(* snapshot that is handed out afterwards, however long it took to build;  *)
(* unless the request raised after its deletion, while that snapshot was   *)
(* being built: then nothing tells the snapshot.                           *)
RevokedIsNotPrompted ==
    [][\A p \in Prompt :
        prompt[p].pc = "built" /\ prompt'[p].pc = "done"
        => prompt[p].items \cap gone \subseteq prompt[p].missed]_vars

(* "关闭时不读、不写，也不产生后台候选": once the switch of long-term memory     *)
(* is through, no candidate is analysed or stored and nothing waits for a  *)
(* confirmation.                                                           *)
OffMeansQuiet ==
    ~ltm /\ featureLock = None => pending = {} /\ \A m \in Message : ~Running(m)

RowsAreConfirmed == \A r \in db.rows : r.sens # "normal" => r.text \in consent

(* A sensitive fact is stored only after the user has confirmed it or has  *)
(* written it; and a confirmation that was answered, either way, is never  *)
(* asked for again, so that it is good for one storage at most.            *)
SensitiveIsConfirmed == RowsAreConfirmed /\ pending \cap answered = {}

(* A slot has one active memory; a profile repeats a stored memory, and is *)
(* the active one if that is a profile at all.                             *)
SlotHasOneValue ==
    /\ \A r, s \in Active(db) : r.key = s.key => r = s
    /\ \A p \in db.profiles : \E r \in db.rows : r.id = p.id /\ r.key = p.key /\ r.text = p.text
    /\ \A r \in Active(db) :
        r.type = "user_profile" =>
            {p \in db.profiles : p.key = r.key} = {[key |-> r.key, id |-> r.id, text |-> r.text]}
=============================================================================
