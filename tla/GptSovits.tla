------------------------------ MODULE GptSovits ------------------------------
(***************************************************************************)
(* The speech provider of app/clients/tts/gpt_sovits.py: calls of          *)
(* synthesize(), each a worker task and a caller that waits for it with a  *)
(* shield, the temporary WAV of a call, the cache with its locks and       *)
(* leases, and close().                                                    *)
(*                                                                         *)
(* The audio is abstract: a temporary file is named by its call, a cached  *)
(* file by its key and its contents by the call that made it.  An await    *)
(* at which a task may be cancelled ends an action; a file operation in a  *)
(* thread completes before the cancellation that met it is raised          *)
(* (_run_to_thread); one that fails raises its own error instead, and the  *)
(* cancellation is lost.  A call has a token (the turn's) and its worker a *)
(* pending Task.cancel(), issued at most once (_synthesis_cancellations).  *)
(***************************************************************************)
EXTENDS Integers, FiniteSets

CONSTANTS
    Call,       \* calls of synthesize
    Key,        \* cache keys
    None,
    Jobs,       \* the keys the calls may have; None: not to be cached
    Capacity,   \* files that fit into the cache
    Disturbed   \* bound: calls that are cancelled or whose token is

ASSUME GptAssumption ==
    /\ None \notin Call \cup Key
    /\ Jobs \subseteq [Call -> Key \cup {None}]
    /\ Disturbed \subseteq Call
    /\ Capacity \in Nat

VARIABLES
    key,        \* _cache_key of a call: of its text and request
    caller,     \* the call as its caller sees it
    worker,     \* where the task _synthesize stands
    throw,      \* Task.cancel() of the worker: "none", "pending" or "taken"
    tokens,     \* calls whose token is cancelled
    out,        \* what the worker is about to return, or has returned
    keyLocks,   \* _key_locks: the entry of a key, named by its creator
    entry,      \* the entry a worker holds a reference to
    users,      \* references to an entry
    owner,      \* who holds the lock of an entry
    maint,      \* who holds _cache_maintenance_lock across an await
    part,       \* calls whose .part file exists
    final,      \* calls whose temporary WAV exists
    paths,      \* _paths
    cachePart,  \* calls whose .part file in the cache exists
    cache,      \* the cached file of a key: the call that made it
    stale,      \* keys whose file is too old, or not readable as a WAV
    leases,     \* _cache_results: the file a result was given
    closer      \* where _close stands; anything but "none" is _closed

callVars  == <<key, caller, worker, throw, tokens, out>>
lockVars  == <<keyLocks, entry, users, owner>>
tempVars  == <<part, final, paths>>
cacheVars == <<cachePart, cache, stale, leases>>
vars == <<callVars, lockVars, maint, tempVars, cacheVars, closer>>

Working == {"request", "stream", "check", "replace", "cleanup",
            "promote", "copy", "lease", "drop", "undo"}
Live == {"start", "lock", "locked", "lookup"} \cup Working

GptTypeOK ==
    /\ key \in Jobs
    /\ caller \in [Call -> {"idle", "waiting", "joining", "returned",
                            "cancelled", "sweeping", "discarded"}]
    /\ worker \in [Call -> {"idle", "done"} \cup Live]
    /\ throw \in [Call -> {"none", "pending", "taken"}]
    /\ tokens \subseteq Call
    /\ out \in [Call -> {"none", "audio", "failed", "cancelled"}]
    /\ keyLocks \in [Key -> Call \cup {None}]
    /\ entry \in [Call -> Call \cup {None}]
    /\ users \in [Call -> Nat]
    /\ owner \in [Call -> Call \cup {None}]
    /\ maint \in Call \cup {None}
    /\ part \subseteq Call /\ final \subseteq Call /\ paths \subseteq Call
    /\ cachePart \subseteq Call
    /\ cache \in [Key -> Call \cup {None}]
    /\ stale \subseteq Key
    /\ leases \in [Call -> Call \cup {None}]
    /\ closer \in {"none", "cancel", "join", "sweep", "done"}

Init ==
    /\ key \in Jobs
    /\ caller = [c \in Call |-> "idle"]
    /\ worker = [c \in Call |-> "idle"]
    /\ throw = [c \in Call |-> "none"]
    /\ tokens = {}
    /\ out = [c \in Call |-> "none"]
    /\ keyLocks = [k \in Key |-> None]
    /\ entry = [c \in Call |-> None]
    /\ users = [c \in Call |-> 0]
    /\ owner = [c \in Call |-> None]
    /\ maint = None
    /\ part = {} /\ final = {} /\ paths = {}
    /\ cachePart = {}
    /\ cache = [k \in Key |-> None]
    /\ stale = {}
    /\ leases = [c \in Call |-> None]
    /\ closer = "none"

-----------------------------------------------------------------------------
(* Cancellation.                                                           *)

Interrupted(c) == throw[c] = "pending"
Cancelled(c)   == Interrupted(c) \/ c \in tokens

(* The worker goes on to pc, with o as its result if it ends there; a      *)
(* cancellation that it noticed has been delivered.                        *)
Goto(c, pc) ==
    /\ worker' = [worker EXCEPT ![c] = pc]
    /\ UNCHANGED <<out, throw>>

Leave(c, pc, o) ==
    /\ worker' = [worker EXCEPT ![c] = pc]
    /\ out' = [out EXCEPT ![c] = o]
    /\ throw' = [throw EXCEPT ![c] = IF @ = "pending" THEN "taken" ELSE @]

(* _cancel_synthesis of the workers in cs.                                 *)
CancelSynthesis(cs) ==
    throw' = [c \in Call |->
                IF c \in cs /\ worker[c] \in Live /\ throw[c] = "none"
                THEN "pending" ELSE throw[c]]

-----------------------------------------------------------------------------
(* The lock of a key: an entry with a count of its users.                  *)

(* One reference less; the entry is dropped from the index with its last.  *)
Forget(c) ==
    LET e == entry[c]
        k == key[c]
    IN  /\ users' = [users EXCEPT ![e] = @ - 1]
        /\ entry' = [entry EXCEPT ![c] = None]
        /\ keyLocks' = IF users[e] = 1 /\ keyLocks[k] = e
                       THEN [keyLocks EXCEPT ![k] = None] ELSE keyLocks

(* _release_key_lock, in the finally of _synthesize.                       *)
ReleaseKey(c) ==
    IF entry[c] = None THEN UNCHANGED lockVars
    ELSE owner' = [owner EXCEPT ![entry[c]] = None] /\ Forget(c)

Finish(c, o) == Leave(c, "done", o) /\ ReleaseKey(c)

Enlist_NewEntry(c) ==
    /\ keyLocks' = [keyLocks EXCEPT ![key[c]] = c]
    /\ entry' = [entry EXCEPT ![c] = c]
    /\ users' = [users EXCEPT ![c] = @ + 1]
    /\ UNCHANGED owner

(* setdefault and the first half of _acquire_key_lock.                     *)
Enlist(c) ==
    LET k == key[c]
        e == IF keyLocks[k] = None THEN c ELSE keyLocks[k]
    IN  /\ keyLocks' = [keyLocks EXCEPT ![k] = e]
        /\ entry' = [entry EXCEPT ![c] = e]
        /\ users' = [users EXCEPT ![e] = @ + 1]
        /\ UNCHANGED owner

-----------------------------------------------------------------------------
(* The calls.                                                              *)

(* synthesize: after close it answers with a failure.                      *)
Synthesize(c) ==
    /\ caller[c] = "idle" /\ c \notin tokens
    /\ IF closer = "none"
       THEN /\ caller' = [caller EXCEPT ![c] = "waiting"]
            /\ worker' = [worker EXCEPT ![c] = "start"]
            /\ UNCHANGED out
       ELSE /\ caller' = [caller EXCEPT ![c] = "returned"]
            /\ out' = [out EXCEPT ![c] = "failed"]
            /\ UNCHANGED worker
    /\ UNCHANGED <<key, throw, tokens, lockVars, maint, tempVars, cacheVars, closer>>

(* The task that called synthesize is cancelled: it cancels the worker     *)
(* and joins it.  Whatever the worker returns is lost.                     *)
CancelCall(c) ==
    /\ c \in Disturbed /\ caller[c] = "waiting"
    /\ caller' = [caller EXCEPT ![c] = "joining"]
    /\ CancelSynthesis({c})
    /\ UNCHANGED <<key, worker, tokens, out, lockVars, maint, tempVars, cacheVars, closer>>

CancelToken(c) ==
    /\ c \in Disturbed /\ caller[c] = "waiting" /\ c \notin tokens
    /\ tokens' = tokens \cup {c}
    /\ UNCHANGED <<key, caller, worker, throw, out, lockVars, maint, tempVars, cacheVars, closer>>

Return(c) ==
    /\ caller[c] \in {"waiting", "joining"} /\ worker[c] = "done"
    /\ caller' = [caller EXCEPT ![c] =
                    IF @ = "joining" \/ out[c] = "cancelled" THEN "cancelled" ELSE "returned"]
    /\ UNCHANGED <<key, worker, throw, tokens, out, lockVars, maint, tempVars, cacheVars, closer>>

-----------------------------------------------------------------------------
(* The worker, up to the cache.                                            *)

Start(c) ==
    /\ worker[c] = "start"
    /\ IF Cancelled(c) THEN Finish(c, "cancelled")
       ELSE IF key[c] = None THEN Goto(c, "request") /\ UNCHANGED lockVars
       ELSE Goto(c, "lock") /\ Enlist(c)
    /\ UNCHANGED <<key, caller, tokens, maint, tempVars, cacheVars, closer>>

(* The lock is taken by a task of its own, which _await_with_token joins   *)
(* with another await.                                                     *)
AcquireKey(c) ==
    /\ worker[c] = "lock" /\ owner[entry[c]] = None
    /\ owner' = [owner EXCEPT ![entry[c]] = c]
    /\ Goto(c, "locked")
    /\ UNCHANGED <<key, caller, tokens, keyLocks, entry, users, maint, tempVars, cacheVars, closer>>

HaveKey(c) ==
    /\ worker[c] = "locked" /\ ~Interrupted(c)
    /\ Goto(c, "lookup")
    /\ UNCHANGED <<key, caller, tokens, lockVars, maint, tempVars, cacheVars, closer>>

(* A cancellation gives the reference back.  One that comes after the lock *)
(* was taken drops the result of acquire(): nobody will release the lock.  *)
QuitKey(c) ==
    /\ worker[c] \in {"lock", "locked"} /\ Cancelled(c)
    /\ Leave(c, "done", "cancelled")
    /\ Forget(c)
    /\ UNCHANGED <<key, caller, tokens, owner, maint, tempVars, cacheVars, closer>>

-----------------------------------------------------------------------------
(* The cache directory.                                                    *)

Sweep_IgnoresLeases(ls, files) ==
    LET young == {k \in Key : files[k] # None /\ k \notin stale}
    IN  \E keep \in SUBSET young :
            /\ IF Cardinality(young) <= Capacity THEN keep = young
               ELSE Cardinality(keep) = Capacity
            /\ cache' = [k \in Key |-> IF k \in keep THEN files[k] ELSE None]
            /\ stale' = stale \cap keep

(* _cleanup_cache_directory: files that are too old go, then files until   *)
(* the rest fits, never one that a result of ls leases.  Which files go    *)
(* first (the oldest) is left open.                                        *)
Sweep(ls, files) ==
    LET leased == {key[c] : c \in {d \in Call : ls[d] # None}}
        young  == {k \in Key : files[k] # None /\ (k \notin stale \/ k \in leased)}
        pinned == young \cap leased
        room   == IF Cardinality(pinned) > Capacity THEN Cardinality(pinned) ELSE Capacity
    IN  \E keep \in SUBSET young :
            /\ pinned \subseteq keep
            /\ IF Cardinality(young) <= Capacity THEN keep = young
               ELSE Cardinality(keep) = room
            /\ cache' = [k \in Key |-> IF k \in keep THEN files[k] ELSE None]
            /\ stale' = stale \cap keep

Drop(k) == [cache EXCEPT ![k] = None]

(* _load_cached_result, under the maintenance lock: a file that is missing *)
(* or no good is a miss, and is unlinked whoever leases it.  A cancelled   *)
(* worker ends, or goes on uncached: if the operation that met the         *)
(* cancellation found no file, the cancellation is lost.                   *)
LookupMiss(c) ==
    /\ worker[c] = "lookup" /\ maint = None /\ c \notin tokens
    /\ cache[key[c]] = None \/ key[c] \in stale
    /\ cache' = Drop(key[c]) /\ stale' = stale \ {key[c]}
    /\ \/ Interrupted(c) /\ Finish(c, "cancelled")
       \/ Leave(c, "request", "none") /\ UNCHANGED lockVars
    /\ UNCHANGED <<key, caller, tokens, maint, tempVars, cachePart, leases, closer>>

LookupHit(c) ==
    /\ worker[c] = "lookup" /\ maint = None /\ ~Cancelled(c)
    /\ cache[key[c]] # None /\ key[c] \notin stale
    /\ leases' = [leases EXCEPT ![c] = cache[key[c]]]
    /\ Sweep(leases', cache)
    /\ Finish(c, "audio")
    /\ UNCHANGED <<key, caller, tokens, maint, tempVars, cachePart, closer>>

LookupCancelled(c) ==
    /\ worker[c] = "lookup" /\ Cancelled(c)
    /\ Finish(c, "cancelled")
    /\ UNCHANGED <<key, caller, tokens, maint, tempVars, cacheVars, closer>>

-----------------------------------------------------------------------------
(* _synthesize_uncached.                                                   *)

(* An answer that came with the cancellation of the token may win.         *)
Request(c) ==
    /\ worker[c] = "request"
    /\ \/ /\ ~Interrupted(c)
          /\ part' = part \cup {c}
          /\ Goto(c, "stream")
       \/ ~Interrupted(c) /\ Leave(c, "cleanup", "failed") /\ UNCHANGED part
       \/ Cancelled(c) /\ Leave(c, "cleanup", "cancelled") /\ UNCHANGED part
    /\ UNCHANGED <<key, caller, tokens, lockVars, maint, final, paths, cacheVars, closer>>

(* _write_response to its end, an error of the stream or a cancellation.   *)
Stream(c) ==
    /\ worker[c] = "stream"
    /\ \/ ~Interrupted(c) /\ Goto(c, "check")
       \/ ~Interrupted(c) /\ Leave(c, "cleanup", "failed")
       \/ Cancelled(c) /\ Leave(c, "cleanup", "cancelled")
    /\ UNCHANGED <<key, caller, tokens, lockVars, maint, tempVars, cacheVars, closer>>

(* _inspect_wave in a thread, which may meet a cancellation and refuse the *)
(* file, then the token.                                                   *)
Check(c) ==
    /\ worker[c] = "check"
    /\ \/ ~Cancelled(c) /\ Goto(c, "replace")
       \/ Leave(c, "cleanup", "failed")
       \/ Cancelled(c) /\ Leave(c, "cleanup", "cancelled")
    /\ UNCHANGED <<key, caller, tokens, lockVars, maint, tempVars, cacheVars, closer>>

Replace_Unregistered(c) ==
    /\ worker[c] = "replace"
    /\ part' = part \ {c} /\ final' = final \cup {c}
    /\ Leave(c, "cleanup", IF Cancelled(c) THEN "cancelled" ELSE "audio")
    /\ UNCHANGED <<key, caller, tokens, paths, lockVars, maint, cacheVars, closer>>

(* os.replace completes even if it is cancelled; the path is registered    *)
(* only if it is not.                                                      *)
Replace(c) ==
    /\ worker[c] = "replace"
    /\ part' = part \ {c} /\ final' = final \cup {c}
    /\ paths' = IF Interrupted(c) THEN paths ELSE paths \cup {c}
    /\ Leave(c, "cleanup", IF Cancelled(c) THEN "cancelled" ELSE "audio")
    /\ UNCHANGED <<key, caller, tokens, lockVars, maint, cacheVars, closer>>

(* _cleanup_uncached, to its end; only then is a cancellation raised that  *)
(* came meanwhile, and what was about to be returned is kept on the disk.  *)
Cleanup(c) ==
    /\ worker[c] = "cleanup"
    /\ part' = part \ {c}
    /\ IF out[c] = "audio" THEN UNCHANGED <<final, paths>>
       ELSE final' = final \ {c} /\ paths' = paths \ {c}
    /\ IF Interrupted(c) THEN Finish(c, "cancelled")
       ELSE IF out[c] = "audio" /\ key[c] # None
       THEN Goto(c, "promote") /\ UNCHANGED lockVars
       ELSE Finish(c, out[c])
    /\ UNCHANGED <<key, caller, tokens, maint, cacheVars, closer>>

-----------------------------------------------------------------------------
(* _promote_to_cache.                                                      *)

(* The file is too large for the cache, or its size cannot be read (which  *)
(* a cancelled worker takes for an answer).                                *)
KeepTemp(c) ==
    /\ worker[c] = "promote"
    /\ Finish(c, "audio")
    /\ UNCHANGED <<key, caller, tokens, maint, tempVars, cacheVars, closer>>

(* Cancelled before the copy, with the token checked under the lock.       *)
QuitPromotion(c) ==
    /\ worker[c] = "promote" /\ Cancelled(c)
    /\ Interrupted(c) \/ maint = None
    /\ Leave(c, "undo", "cancelled")
    /\ UNCHANGED <<key, caller, tokens, lockVars, maint, tempVars, cacheVars, closer>>

Copy(c) ==
    /\ worker[c] = "promote" /\ maint = None /\ ~Cancelled(c)
    /\ maint' = c
    /\ cachePart' = cachePart \cup {c}
    /\ Goto(c, "copy")
    /\ UNCHANGED <<key, caller, tokens, lockVars, tempVars, cache, stale, leases, closer>>

(* The copy replaces the cached file and is leased in the same step.       *)
Publish(c) ==
    /\ worker[c] = "copy" /\ ~Cancelled(c)
    /\ cachePart' = cachePart \ {c}
    /\ cache' = [cache EXCEPT ![key[c]] = c] /\ stale' = stale \ {key[c]}
    /\ leases' = [leases EXCEPT ![c] = c]
    /\ Goto(c, "lease")
    /\ UNCHANGED <<key, caller, tokens, lockVars, maint, tempVars, closer>>

(* _cleanup_failed_promotion under the lock.  A copy that fails keeps the  *)
(* temporary file, cancelled or not.  Cancelled during os.replace, the     *)
(* promotion does not know that the file is there: it stays.  With the     *)
(* token cancelled by then it knows, and unlinks it.                       *)
FailCopy(c) ==
    /\ worker[c] = "copy"
    /\ cachePart' = cachePart \ {c} /\ maint' = None
    /\ \/ Finish(c, "audio") /\ UNCHANGED <<cache, stale>>
       \/ Cancelled(c) /\ Leave(c, "undo", "cancelled") /\ UNCHANGED <<cache, stale, lockVars>>
       \/ /\ Interrupted(c)
          /\ cache' = [cache EXCEPT ![key[c]] = c] /\ stale' = stale \ {key[c]}
          /\ Leave(c, "undo", "cancelled")
          /\ UNCHANGED lockVars
       \/ /\ c \in tokens /\ ~Interrupted(c)
          /\ cache' = Drop(key[c]) /\ stale' = stale \ {key[c]}
          /\ Leave(c, "undo", "cancelled")
          /\ UNCHANGED lockVars
    /\ UNCHANGED <<key, caller, tokens, tempVars, leases, closer>>

(* The sweep that ends the locked section; cancelled, the promotion is     *)
(* taken back.                                                             *)
Settle(c) ==
    /\ worker[c] = "lease"
    /\ maint' = None
    /\ IF Interrupted(c)
       THEN /\ leases' = [leases EXCEPT ![c] = None]
            /\ cache' = Drop(key[c]) /\ stale' = stale \ {key[c]}
            /\ Leave(c, "undo", "cancelled")
       ELSE Sweep(leases, cache) /\ Goto(c, "drop") /\ UNCHANGED leases
    /\ UNCHANGED <<key, caller, tokens, lockVars, tempVars, cachePart, closer>>

(* The temporary file goes.  Cancelled now, the cached file goes as well,  *)
(* outside the maintenance lock.                                           *)
DropSource(c) ==
    /\ worker[c] = "drop"
    /\ final' = final \ {c} /\ paths' = paths \ {c}
    /\ IF Interrupted(c)
       THEN /\ leases' = [leases EXCEPT ![c] = None]
            /\ cache' = Drop(key[c]) /\ stale' = stale \ {key[c]}
            /\ Leave(c, "undo", "cancelled") /\ UNCHANGED lockVars
       ELSE Finish(c, "audio") /\ UNCHANGED <<cache, stale, leases>>
    /\ UNCHANGED <<key, caller, tokens, maint, part, cachePart, closer>>

(* _cleanup_cancelled_promotion: the temporary file, then a sweep.         *)
Undo(c) ==
    /\ worker[c] = "undo" /\ maint = None
    /\ final' = final \ {c} /\ paths' = paths \ {c}
    /\ Sweep(leases, cache)
    /\ Finish(c, "cancelled")
    /\ UNCHANGED <<key, caller, tokens, maint, part, cachePart, leases, closer>>

-----------------------------------------------------------------------------
(* discard and close.                                                      *)

Discard(c) ==
    /\ caller[c] = "returned" /\ out[c] = "audio"
    /\ IF leases[c] # None
       THEN /\ leases' = [leases EXCEPT ![c] = None]
            /\ caller' = [caller EXCEPT ![c] = "sweeping"]
            /\ UNCHANGED <<final, paths>>
       ELSE /\ caller' = [caller EXCEPT ![c] = "discarded"]
            /\ final' = IF c \in paths THEN final \ {c} ELSE final
            /\ paths' = paths \ {c}
            /\ UNCHANGED leases
    /\ UNCHANGED <<key, worker, throw, tokens, out, lockVars, maint, part,
                   cachePart, cache, stale, closer>>

SweepAfterDiscard(c) ==
    /\ caller[c] = "sweeping" /\ maint = None
    /\ caller' = [caller EXCEPT ![c] = "discarded"]
    /\ Sweep(leases, cache)
    /\ UNCHANGED <<key, worker, throw, tokens, out, lockVars, maint, tempVars,
                   cachePart, leases, closer>>

Close ==
    /\ closer = "none"
    /\ closer' = "cancel"
    /\ UNCHANGED <<callVars, lockVars, maint, tempVars, cacheVars>>

CloseCancel_OnlyJoins ==
    /\ closer = "cancel"
    /\ closer' = "join"
    /\ UNCHANGED <<callVars, lockVars, maint, tempVars, cacheVars>>

CloseCancel ==
    /\ closer = "cancel"
    /\ closer' = "join"
    /\ CancelSynthesis(Call)
    /\ UNCHANGED <<key, caller, worker, tokens, out, lockVars, maint, tempVars, cacheVars>>

(* No task and no call is left: leases and paths go.                       *)
CloseClear ==
    /\ closer = "join"
    /\ \A c \in Call : worker[c] \notin Live /\ caller[c] \notin {"waiting", "joining"}
    /\ closer' = "sweep"
    /\ leases' = [c \in Call |-> None]
    /\ final' = final \ paths /\ paths' = {}
    /\ UNCHANGED <<callVars, lockVars, maint, part, cachePart, cache, stale>>

CloseSweep ==
    /\ closer = "sweep" /\ maint = None
    /\ closer' = "done"
    /\ Sweep(leases, cache)
    /\ UNCHANGED <<callVars, lockVars, maint, tempVars, cachePart, leases>>

(* Time passes: a cached file is older than cache_ttl_seconds.             *)
Expire(k) ==
    /\ cache[k] # None /\ k \notin stale
    /\ stale' = stale \cup {k}
    /\ UNCHANGED <<callVars, lockVars, maint, tempVars, cachePart, cache, leases, closer>>

-----------------------------------------------------------------------------
WorkerStep(c) ==
    \/ Start(c) \/ AcquireKey(c) \/ HaveKey(c) \/ QuitKey(c)
    \/ LookupMiss(c) \/ LookupHit(c) \/ LookupCancelled(c)
    \/ Request(c) \/ Stream(c) \/ Check(c) \/ Replace(c) \/ Cleanup(c)
    \/ KeepTemp(c) \/ QuitPromotion(c) \/ Copy(c) \/ Publish(c) \/ FailCopy(c)
    \/ Settle(c) \/ DropSource(c) \/ Undo(c)

Next ==
    \/ \E c \in Call :
        \/ WorkerStep(c)
        \/ Synthesize(c) \/ CancelCall(c) \/ CancelToken(c) \/ Return(c)
        \/ Discard(c) \/ SweepAfterDiscard(c)
    \/ Close \/ CloseCancel \/ CloseClear \/ CloseSweep
    \/ \E k \in Key : Expire(k)

(* The loop runs what is ready, a thread ends its file operation, and the  *)
(* client's timeout ends a request; nobody has to call anything.           *)
Fairness ==
    /\ \A c \in Call : WF_vars(WorkerStep(c)) /\ WF_vars(Return(c))
                       /\ WF_vars(SweepAfterDiscard(c))
    /\ WF_vars(CloseCancel) /\ WF_vars(CloseClear) /\ WF_vars(CloseSweep)

GptSpec == Init /\ [][Next]_vars /\ Fairness

-----------------------------------------------------------------------------
(* Calls with the same key use one synthesis at a time: the entry of the   *)
(* key is neither dropped nor doubled while somebody works under it.       *)
OneSynthesisPerKey ==
    \A c, d \in Call :
        /\ c # d /\ key[c] = key[d] /\ key[c] # None
        /\ worker[c] \in Working
        => worker[d] \notin Working

(* A file that playback leases, and that is not too old, stays as it is:   *)
(* no sweep, promotion, clean-up of another call or discard touches it.    *)
LeasedAudioStays ==
    [][\A c \in Call :
        /\ leases[c] # None /\ leases'[c] # None
        /\ cache[key[c]] = leases[c] /\ key[c] \notin stale
        => cache'[key[c]] = leases[c]]_vars

(* Every temporary file is either in the hands of a worker or registered,  *)
(* so that discard and close find it; a handed out result is there.        *)
AudioIsOwned ==
    /\ \A c \in final : worker[c] \in Working \/ c \in paths
    /\ \A c \in Call :
        /\ caller[c] = "returned" /\ out[c] = "audio" /\ closer \notin {"sweep", "done"}
        => leases[c] # None \/ c \in final \cap paths

(* Nothing runs and nothing temporary or leased is left once close is over. *)
ClosedLeavesNothing ==
    closer = "done" =>
        /\ part = {} /\ final = {} /\ cachePart = {} /\ maint = None
        /\ \A c \in Call : /\ leases[c] = None /\ worker[c] \notin Live
                           /\ caller[c] \notin {"waiting", "joining"}

(* close ends, whoever waits for whom.                                     *)
CloseEnds == closer # "none" ~> closer = "done"

(* A call ends, unless the lock of its key was lost with a cancelled call. *)
LockIsLost(c) ==
    /\ entry[c] # None
    /\ owner[entry[c]] # None
    /\ worker[owner[entry[c]]] = "done" /\ out[owner[entry[c]]] = "cancelled"

CallEnds ==
    \A c \in Call : caller[c] = "waiting" ~> caller[c] # "waiting" \/ LockIsLost(c)

(* Audio has an owner from its first byte until it is gone, and close finds *)
(* all of it.                                                              *)
AudioIsAccounted == AudioIsOwned /\ ClosedLeavesNothing

(* Neither a call nor close waits for ever.                                *)
SpeechEnds == CloseEnds /\ CallEnds
=============================================================================
