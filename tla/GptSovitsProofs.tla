--------------------------- MODULE GptSovitsProofs ---------------------------
(* Theorems about GptSovits, for every set of calls and keys, every mapping *)
(* of calls to keys and every capacity of the cache.                       *)
EXTENDS GptSovits, FiniteSetTheorems, TLAPS

USE GptAssumption
USE DEF callVars, lockVars, tempVars, cacheVars

-----------------------------------------------------------------------------
(* Calls and the lock of a key. *)

(* A worker lives only while its caller waits, and none once close has     *)
(* joined them.                                                            *)
CallersWait ==
    \A c \in Call :
        /\ caller[c] = "idle" => worker[c] = "idle"
        /\ caller[c] \in {"waiting", "joining"} =>
               worker[c] # "idle" /\ closer \notin {"sweep", "done"}
        /\ worker[c] \in Live => caller[c] \in {"waiting", "joining"}

HoldsKey == {"locked", "lookup"} \cup Working

Refs(e) == {c \in Call : entry[c] = e}

(* A worker refers to an entry from its first step to its last.            *)
EntriesMatchWorkers ==
    \A c \in Call :
        /\ worker[c] \in {"lock", "locked", "lookup"} => key[c] # None
        /\ entry[c] # None <=> key[c] # None /\ worker[c] \in {"lock"} \cup HoldsKey

(* The entry that a worker refers to is the one that others find.          *)
EntriesAreIndexed ==
    \A c \in Call : entry[c] # None => keyLocks[key[c]] = entry[c]

(* The users of an entry are counted.                                      *)
UsersAreCounted ==
    \A e \in Call : IsFiniteSet(Refs(e)) /\ users[e] = Cardinality(Refs(e))

(* Whoever works under a key owns the lock of its entry.                   *)
HoldersOwn ==
    \A c \in Call : key[c] # None /\ worker[c] \in HoldsKey => owner[entry[c]] = c

KeyLockInv ==
    EntriesMatchWorkers /\ EntriesAreIndexed /\ UsersAreCounted /\ HoldersOwn

-----------------------------------------------------------------------------
(* Files and leases. *)

(* What only exists during a stage of a worker.                            *)
StagesOwn ==
    \A c \in Call :
        /\ c \in part => worker[c] \in {"stream", "check", "replace", "cleanup"}
        /\ c \in cachePart => worker[c] = "copy"
        /\ maint = c <=> worker[c] \in {"copy", "lease"}

(* A temporary WAV belongs to its worker, and then it is registered.       *)
FilesAreOwned ==
    \A c \in final :
        \/ worker[c] \in {"cleanup", "promote", "copy", "lease", "drop", "undo"}
        \/ worker[c] = "done" /\ c \in paths

(* Audio that is about to be returned is there or leased, and stays so     *)
(* until it is discarded.                                                  *)
ResultsAreThere ==
    \A c \in Call :
        /\ worker[c] = "idle" => out[c] # "audio"
        /\ worker[c] \in {"promote", "copy"} => out[c] = "audio" /\ c \in final \cap paths
        /\ worker[c] = "cleanup" /\ out[c] = "audio" => c \in final \cap paths
        /\ worker[c] \in {"lease", "drop"} => out[c] = "audio" /\ leases[c] = c
        /\ /\ worker[c] = "done" /\ out[c] = "audio"
           /\ caller[c] \notin {"sweeping", "discarded"} /\ closer \notin {"sweep", "done"}
           => leases[c] # None \/ c \in final \cap paths

(* close forgets and removes everything.                                   *)
CloseForgets ==
    closer \in {"sweep", "done"} => final = {} /\ \A c \in Call : leases[c] = None

FileInv == StagesOwn /\ FilesAreOwned /\ ResultsAreThere /\ CloseForgets

-----------------------------------------------------------------------------
(* The cache. *)

(* What is promoted to the cache has a key.                                *)
PromotedHasKey ==
    \A c \in Call : worker[c] \in {"promote", "copy", "lease", "drop", "undo"} => key[c] # None

(* A cached file was made by a call with this key that is past its copy.   *)
CacheHasMakers ==
    \A k \in Key : cache[k] # None =>
        key[cache[k]] = k /\ worker[cache[k]] \in {"lease", "drop", "undo", "done"}

(* Between the miss and the copy nobody else fills the place; after it     *)
(* nobody else replaces the file.                                          *)
PlaceIsFree ==
    \A c \in Call : key[c] # None =>
        /\ worker[c] \in {"request", "stream", "check", "replace", "cleanup", "promote", "copy"}
             => cache[key[c]] = None
        /\ worker[c] \in {"lease", "drop"} => cache[key[c]] \in {c, None}

(* A lease is of a result with a key, and a file of another call is leased *)
(* only when that call is done.                                            *)
LeasesAreSettled ==
    \A c \in Call : leases[c] # None =>
        /\ key[c] # None
        /\ leases[c] # c => worker[leases[c]] = "done"

CacheInv == PromotedHasKey /\ CacheHasMakers /\ PlaceIsFree /\ LeasesAreSettled
-----------------------------------------------------------------------------
(* The lock of a key: one lemma per kind of step, then all steps. *)

LEMMA KeyType ==
  ASSUME GptTypeOK
  PROVE  /\ key \in [Call -> Key \cup {None}]
         /\ \A c \in Call : key[c] # None => key[c] \in Key
BY DEF GptTypeOK

(* Between two holders of a key there is no difference.                    *)
LEMMA HoldersAreOne ==
  ASSUME GptTypeOK, KeyLockInv, NEW c \in Call, NEW d \in Call,
         key[c] = key[d], key[c] # None,
         worker[c] \in HoldsKey, worker[d] \in HoldsKey
  PROVE  c = d
<1>1. /\ entry[c] = keyLocks[key[c]]
      /\ entry[d] = keyLocks[key[c]]
  BY DEF KeyLockInv, EntriesMatchWorkers, EntriesAreIndexed
<1> QED  BY <1>1 DEF KeyLockInv, HoldersOwn

(* A worker that goes on, and one that starts, leaves the locks alone.     *)
LEMMA KeyIsKept ==
  ASSUME GptTypeOK, KeyLockInv, NEW c \in Call, NEW pc,
         worker' = [worker EXCEPT ![c] = pc],
         UNCHANGED <<key, lockVars>>,
         \/ worker[c] \in Working /\ pc \in Working
         \/ worker[c] = "lookup" /\ pc = "request"
         \/ worker[c] = "locked" /\ pc = "lookup"
         \/ worker[c] = "start" /\ key[c] = None /\ pc = "request"
         \/ worker[c] = "idle" /\ pc = "start"
  PROVE  KeyLockInv'
<1>1. \A d \in Call : d # c => worker'[d] = worker[d]
  BY DEF GptTypeOK
<1>2. worker'[c] = pc
  BY DEF GptTypeOK
<1>3. EntriesMatchWorkers'
  BY <1>1, <1>2 DEF KeyLockInv, EntriesMatchWorkers, HoldsKey, Working
<1>4. EntriesAreIndexed'
  BY DEF KeyLockInv, EntriesAreIndexed
<1>5. UsersAreCounted'
  BY DEF KeyLockInv, UsersAreCounted, Refs
<1>6. HoldersOwn'
  BY <1>1, <1>2 DEF KeyLockInv, HoldersOwn, HoldsKey, Working
<1> QED  BY <1>3, <1>4, <1>5, <1>6 DEF KeyLockInv

LEMMA KeyIsEnlisted ==
  ASSUME GptTypeOK, KeyLockInv, NEW c \in Call,
         worker[c] = "start", key[c] # None, Goto(c, "lock"), Enlist(c), UNCHANGED key
  PROVE  KeyLockInv'
<1> DEFINE e == IF keyLocks[key[c]] = None THEN c ELSE keyLocks[key[c]]
<1>1. \A d \in Call : d # c => worker'[d] = worker[d]
  BY DEF GptTypeOK, Goto
<1>2. worker'[c] = "lock"
  BY DEF GptTypeOK, Goto
<1>3. /\ e \in Call /\ entry[c] = None
      /\ entry' = [entry EXCEPT ![c] = e]
      /\ users' = [users EXCEPT ![e] = @ + 1]
      /\ keyLocks' = [keyLocks EXCEPT ![key[c]] = e]
      /\ owner' = owner
  BY DEF GptTypeOK, Enlist, KeyLockInv, EntriesMatchWorkers, HoldsKey, Working
<1>4. EntriesMatchWorkers'
  BY <1>1, <1>2, <1>3 DEF GptTypeOK, KeyLockInv, EntriesMatchWorkers
<1>5. EntriesAreIndexed'
  <2> SUFFICES ASSUME NEW d \in Call, entry'[d] # None
               PROVE  keyLocks'[key[d]] = entry'[d]
    BY DEF EntriesAreIndexed
  <2>1. CASE d = c
    BY <2>1, <1>3, KeyType DEF GptTypeOK
  <2>2. CASE d # c
    <3>1. entry'[d] = entry[d] /\ keyLocks[key[d]] = entry[d]
      BY <2>2, <1>3 DEF GptTypeOK, KeyLockInv, EntriesAreIndexed
    <3>2. CASE key[d] = key[c]
      BY <3>1, <3>2, <1>3, KeyType DEF GptTypeOK
    <3>3. CASE key[d] # key[c]
      BY <3>1, <3>3, <1>3 DEF GptTypeOK
    <3> QED  BY <3>2, <3>3
  <2> QED  BY <2>1, <2>2
<1>6. UsersAreCounted'
  <2> SUFFICES ASSUME NEW f \in Call
               PROVE  IsFiniteSet(Refs(f)') /\ users'[f] = Cardinality(Refs(f)')
    BY DEF UsersAreCounted
  <2>1. IsFiniteSet(Refs(f)) /\ users[f] = Cardinality(Refs(f))
    BY DEF KeyLockInv, UsersAreCounted
  <2>2. CASE f = e
    <3>1. Refs(f)' = Refs(f) \cup {c} /\ c \notin Refs(f)
      BY <2>2, <1>3 DEF GptTypeOK, Refs
    <3>2. users'[f] = users[f] + 1
      BY <2>2, <1>3 DEF GptTypeOK
    <3> QED  BY <3>1, <3>2, <2>1, FS_AddElement
  <2>3. CASE f # e
    <3>1. Refs(f)' = Refs(f)
      BY <2>3, <1>3 DEF GptTypeOK, Refs
    <3> QED  BY <3>1, <2>1, <2>3, <1>3 DEF GptTypeOK
  <2> QED  BY <2>2, <2>3
<1>7. HoldersOwn'
  BY <1>1, <1>2, <1>3 DEF GptTypeOK, KeyLockInv, HoldersOwn, HoldsKey, Working
<1> QED  BY <1>4, <1>5, <1>6, <1>7 DEF KeyLockInv

LEMMA KeyIsAcquired ==
  ASSUME GptTypeOK, KeyLockInv, NEW c \in Call, AcquireKey(c)
  PROVE  KeyLockInv'
<1>1. \A d \in Call : d # c => worker'[d] = worker[d]
  BY DEF GptTypeOK, AcquireKey, Goto
<1>2. /\ worker[c] = "lock" /\ worker'[c] = "locked"
      /\ entry[c] \in Call /\ owner[entry[c]] = None
      /\ owner' = [owner EXCEPT ![entry[c]] = c]
      /\ UNCHANGED <<key, keyLocks, entry, users>>
  BY DEF GptTypeOK, AcquireKey, Goto, KeyLockInv, EntriesMatchWorkers
<1>3. EntriesMatchWorkers'
  BY <1>1, <1>2 DEF KeyLockInv, EntriesMatchWorkers, HoldsKey
<1>4. EntriesAreIndexed' /\ UsersAreCounted'
  BY <1>2 DEF KeyLockInv, EntriesAreIndexed, UsersAreCounted, Refs
<1>5. HoldersOwn'
  BY <1>1, <1>2 DEF GptTypeOK, KeyLockInv, HoldersOwn
<1> QED  BY <1>3, <1>4, <1>5 DEF KeyLockInv

(* One reference less.                                                     *)
LEMMA ForgetKeepsCount ==
  ASSUME GptTypeOK, KeyLockInv, NEW c \in Call, entry[c] # None, Forget(c)
  PROVE  /\ EntriesAreIndexed' \/ key' # key
         /\ UsersAreCounted'
         /\ users' \in [Call -> Nat]
         /\ keyLocks' \in [Key -> Call \cup {None}]
         /\ entry' = [entry EXCEPT ![c] = None]
<1> DEFINE e == entry[c]
<1>1. /\ e \in Call
      /\ entry' = [entry EXCEPT ![c] = None]
      /\ users' = [users EXCEPT ![e] = @ - 1]
      /\ keyLocks' = IF users[e] = 1 /\ keyLocks[key[c]] = e
                     THEN [keyLocks EXCEPT ![key[c]] = None] ELSE keyLocks
  BY DEF GptTypeOK, Forget
<1>2. /\ c \in Refs(e) /\ IsFiniteSet(Refs(e))
      /\ users[e] = Cardinality(Refs(e)) /\ users[e] \in Nat /\ users[e] # 0
  <2>1. c \in Refs(e)
    BY DEF Refs
  <2>2. IsFiniteSet(Refs(e)) /\ users[e] = Cardinality(Refs(e))
    BY <1>1 DEF KeyLockInv, UsersAreCounted
  <2>3. Cardinality(Refs(e)) \in Nat /\ Cardinality(Refs(e)) # 0
    BY <2>1, <2>2, FS_EmptySet, FS_CardinalityType
  <2> QED  BY <2>1, <2>2, <2>3
<1>3. UsersAreCounted'
  <2> SUFFICES ASSUME NEW f \in Call
               PROVE  IsFiniteSet(Refs(f)') /\ users'[f] = Cardinality(Refs(f)')
    BY DEF UsersAreCounted
  <2>1. IsFiniteSet(Refs(f)) /\ users[f] = Cardinality(Refs(f))
    BY DEF KeyLockInv, UsersAreCounted
  <2>2. CASE f = e
    <3>1. Refs(f)' = Refs(f) \ {c}
      BY <2>2, <1>1 DEF GptTypeOK, Refs
    <3>2. users'[f] = users[f] - 1
      BY <2>2, <1>1 DEF GptTypeOK
    <3> QED  BY <3>1, <3>2, <2>1, <2>2, <1>2, FS_RemoveElement
  <2>3. CASE f # e
    <3>1. Refs(f)' = Refs(f)
      BY <2>3, <1>1 DEF GptTypeOK, Refs
    <3> QED  BY <3>1, <2>1, <2>3, <1>1 DEF GptTypeOK
  <2> QED  BY <2>2, <2>3
<1>4. ASSUME key' = key
      PROVE  EntriesAreIndexed'
  <2> SUFFICES ASSUME NEW d \in Call, entry'[d] # None
               PROVE  keyLocks'[key[d]] = entry'[d]
    BY <1>4 DEF EntriesAreIndexed
  <2>1. d # c /\ entry'[d] = entry[d] /\ keyLocks[key[d]] = entry[d]
    BY <1>1 DEF GptTypeOK, KeyLockInv, EntriesAreIndexed
  <2>2. keyLocks'[key[d]] = keyLocks[key[d]]
    <3>1. CASE users[e] = 1 /\ keyLocks[key[c]] = e
      <4>1. Refs(e) = {c}
        BY <3>1, <1>2, FS_Singleton
      <4>2. key[d] # key[c]
        BY <4>1, <3>1, <2>1 DEF Refs
      <4> QED  BY <4>2, <3>1, <1>1 DEF GptTypeOK
    <3>2. CASE ~(users[e] = 1 /\ keyLocks[key[c]] = e)
      BY <3>2, <1>1
    <3> QED  BY <3>1, <3>2
  <2> QED  BY <2>1, <2>2
<1>5. users' \in [Call -> Nat]
  BY <1>1, <1>2 DEF GptTypeOK
<1>6. keyLocks' \in [Key -> Call \cup {None}]
  BY <1>1 DEF GptTypeOK
<1> QED  BY <1>1, <1>3, <1>4, <1>5, <1>6

LEMMA KeyIsQuit ==
  ASSUME GptTypeOK, KeyLockInv, NEW c \in Call, QuitKey(c)
  PROVE  KeyLockInv'
<1>1. \A d \in Call : d # c => worker'[d] = worker[d]
  BY DEF GptTypeOK, QuitKey, Leave
<1>2. /\ worker[c] \in {"lock", "locked"} /\ worker'[c] = "done"
      /\ entry[c] # None /\ Forget(c)
      /\ UNCHANGED <<key, owner>>
  BY DEF GptTypeOK, QuitKey, Leave, KeyLockInv, EntriesMatchWorkers, HoldsKey
<1>3. EntriesAreIndexed' /\ UsersAreCounted' /\ entry' = [entry EXCEPT ![c] = None]
  BY <1>2, ForgetKeepsCount
<1>4. EntriesMatchWorkers'
  BY <1>1, <1>2, <1>3 DEF GptTypeOK, KeyLockInv, EntriesMatchWorkers, HoldsKey, Working
<1>5. HoldersOwn'
  BY <1>1, <1>2, <1>3 DEF GptTypeOK, KeyLockInv, HoldersOwn, HoldsKey, Working
<1> QED  BY <1>3, <1>4, <1>5 DEF KeyLockInv

LEMMA KeyIsReleased ==
  ASSUME GptTypeOK, KeyLockInv, NEW c \in Call,
         worker[c] \in {"start", "lookup"} \cup Working,
         worker' = [worker EXCEPT ![c] = "done"], ReleaseKey(c), UNCHANGED key
  PROVE  KeyLockInv'
<1>1. /\ \A d \in Call : d # c => worker'[d] = worker[d]
      /\ worker'[c] = "done"
  BY DEF GptTypeOK
<1>2. CASE entry[c] = None
  <2>1. UNCHANGED lockVars
    BY <1>2 DEF ReleaseKey
  <2>2. EntriesMatchWorkers'
    BY <1>1, <1>2, <2>1 DEF KeyLockInv, EntriesMatchWorkers, HoldsKey, Working
  <2>3. EntriesAreIndexed' /\ UsersAreCounted'
    BY <2>1 DEF KeyLockInv, EntriesAreIndexed, UsersAreCounted, Refs
  <2>4. HoldersOwn'
    BY <1>1, <2>1 DEF KeyLockInv, HoldersOwn, HoldsKey, Working
  <2> QED  BY <2>2, <2>3, <2>4 DEF KeyLockInv
<1>3. CASE entry[c] # None
  <2>1. /\ owner' = [owner EXCEPT ![entry[c]] = None] /\ Forget(c)
        /\ key[c] # None /\ worker[c] \in HoldsKey
    BY <1>3 DEF ReleaseKey, KeyLockInv, EntriesMatchWorkers, HoldsKey, Working
  <2>2. EntriesAreIndexed' /\ UsersAreCounted' /\ entry' = [entry EXCEPT ![c] = None]
    BY <1>3, <2>1, ForgetKeepsCount
  <2>3. EntriesMatchWorkers'
    BY <1>1, <2>2 DEF GptTypeOK, KeyLockInv, EntriesMatchWorkers, HoldsKey, Working
  <2>4. HoldersOwn'
    <3> SUFFICES ASSUME NEW d \in Call, key[d] # None, worker'[d] \in HoldsKey
                 PROVE  owner'[entry'[d]] = d
      BY DEF HoldersOwn
    <3>1. d # c /\ worker[d] \in HoldsKey
      BY <1>1 DEF HoldsKey, Working
    <3>2. entry'[d] = entry[d] /\ entry[d] \in Call /\ owner[entry[d]] = d
      BY <3>1, <2>2 DEF GptTypeOK, KeyLockInv, HoldersOwn, EntriesMatchWorkers
    <3>3. owner[entry[c]] = c
      BY <2>1 DEF KeyLockInv, HoldersOwn
    <3> QED  BY <3>1, <3>2, <3>3, <2>1 DEF GptTypeOK
  <2> QED  BY <2>2, <2>3, <2>4 DEF KeyLockInv
<1> QED  BY <1>2, <1>3
-----------------------------------------------------------------------------
(* What the operators that end a worker's step and the sweep return. *)

Outcomes == {"none", "audio", "failed", "cancelled"}

LEMMA GotoType ==
  ASSUME GptTypeOK, NEW c \in Call, NEW pc \in Live, Goto(c, pc)
  PROVE  /\ worker' \in [Call -> {"idle", "done"} \cup Live]
         /\ worker'[c] = pc /\ \A d \in Call : d # c => worker'[d] = worker[d]
         /\ UNCHANGED <<out, throw>>
BY DEF GptTypeOK, Goto

LEMMA LeaveType ==
  ASSUME GptTypeOK, NEW c \in Call, NEW pc \in Live \cup {"done"},
         NEW o \in Outcomes, Leave(c, pc, o)
  PROVE  /\ worker' \in [Call -> {"idle", "done"} \cup Live]
         /\ worker'[c] = pc /\ \A d \in Call : d # c => worker'[d] = worker[d]
         /\ out' \in [Call -> Outcomes]
         /\ out'[c] = o /\ \A d \in Call : d # c => out'[d] = out[d]
         /\ throw' \in [Call -> {"none", "pending", "taken"}]
BY DEF GptTypeOK, Leave, Outcomes

LEMMA ForgetType ==
  ASSUME GptTypeOK, KeyLockInv, NEW c \in Call, entry[c] # None, Forget(c)
  PROVE  /\ keyLocks' \in [Key -> Call \cup {None}]
         /\ entry' \in [Call -> Call \cup {None}]
         /\ users' \in [Call -> Nat]
BY ForgetKeepsCount DEF GptTypeOK

LEMMA ReleaseType ==
  ASSUME GptTypeOK, KeyLockInv, NEW c \in Call, ReleaseKey(c)
  PROVE  /\ keyLocks' \in [Key -> Call \cup {None}]
         /\ entry' \in [Call -> Call \cup {None}]
         /\ users' \in [Call -> Nat]
         /\ owner' \in [Call -> Call \cup {None}]
<1>1. CASE entry[c] = None
  BY <1>1 DEF ReleaseKey, GptTypeOK
<1>2. CASE entry[c] # None
  <2>1. Forget(c) /\ owner' = [owner EXCEPT ![entry[c]] = None]
    BY <1>2 DEF ReleaseKey
  <2> QED  BY <1>2, <2>1, ForgetType DEF GptTypeOK
<1> QED  BY <1>1, <1>2

(* A worker that ends, as the rest of the system sees it.                  *)
LEMMA FinishType ==
  ASSUME GptTypeOK, KeyLockInv, NEW c \in Call, NEW o \in Outcomes, Finish(c, o)
  PROVE  /\ worker' \in [Call -> {"idle", "done"} \cup Live]
         /\ worker'[c] = "done" /\ \A d \in Call : d # c => worker'[d] = worker[d]
         /\ out' \in [Call -> Outcomes]
         /\ out'[c] = o /\ \A d \in Call : d # c => out'[d] = out[d]
         /\ throw' \in [Call -> {"none", "pending", "taken"}]
         /\ keyLocks' \in [Key -> Call \cup {None}]
         /\ entry' \in [Call -> Call \cup {None}]
         /\ users' \in [Call -> Nat]
         /\ owner' \in [Call -> Call \cup {None}]
<1>1. Leave(c, "done", o) /\ ReleaseKey(c)
  BY DEF Finish
<1> QED  BY <1>1, LeaveType, ReleaseType

(* A sweep only removes, and no file that is leased.                       *)
LEMMA SweepSpares ==
  ASSUME GptTypeOK, NEW ls \in [Call -> Call \cup {None}], Sweep(ls, cache)
  PROVE  /\ cache' \in [Key -> Call \cup {None}]
         /\ stale' \subseteq stale
         /\ \A k \in Key : cache'[k] \in {cache[k], None}
         /\ \A c \in Call : ls[c] # None /\ key[c] # None => cache'[key[c]] = cache[key[c]]
<1> DEFINE leased == {key[c] : c \in {d \in Call : ls[d] # None}}
           young  == {k \in Key : cache[k] # None /\ (k \notin stale \/ k \in leased)}
<1>1. PICK keep \in SUBSET young :
        /\ young \cap leased \subseteq keep
        /\ cache' = [k \in Key |-> IF k \in keep THEN cache[k] ELSE None]
        /\ stale' = stale \cap keep
  BY DEF Sweep
<1>2. cache' \in [Key -> Call \cup {None}] /\ stale' \subseteq stale
  BY <1>1 DEF GptTypeOK
<1>3. \A k \in Key : cache'[k] \in {cache[k], None}
  BY <1>1
<1>4. ASSUME NEW c \in Call, ls[c] # None, key[c] # None
      PROVE  cache'[key[c]] = cache[key[c]]
  <2>1. key[c] \in Key /\ key[c] \in leased
    BY <1>4, KeyType
  <2>2. CASE cache[key[c]] = None
    BY <2>1, <2>2, <1>3
  <2>3. CASE cache[key[c]] # None
    <3>1. key[c] \in keep
      BY <2>1, <2>3, <1>1
    <3> QED  BY <3>1, <2>1, <1>1
  <2> QED  BY <2>2, <2>3
<1> QED  BY <1>2, <1>3, <1>4

-----------------------------------------------------------------------------
(* Types. *)

LEMMA GptTypeInit == Init => GptTypeOK
BY DEF Init, GptTypeOK, Live, Working

(* A worker with a key, up to its miss, and in the cache, has a key.       *)
LEMMA WorkerHasKey ==
  ASSUME GptTypeOK, KeyLockInv, NEW c \in Call, worker[c] \in {"lock", "locked", "lookup"}
  PROVE  key[c] \in Key /\ entry[c] \in Call
BY KeyType DEF GptTypeOK, KeyLockInv, EntriesMatchWorkers, HoldsKey

LEMMA TypeLock ==
  ASSUME GptTypeOK, KeyLockInv, NEW c \in Call,
         Start(c) \/ AcquireKey(c) \/ HaveKey(c) \/ QuitKey(c)
  PROVE  GptTypeOK'
<1>1. CASE Start(c)
  <2>1. CASE Finish(c, "cancelled")
    BY <1>1, <2>1, FinishType DEF GptTypeOK, Start, Outcomes
  <2>2. CASE Goto(c, "request") /\ UNCHANGED lockVars
    BY <1>1, <2>2, GotoType DEF GptTypeOK, Start, Live, Working
  <2>3. CASE key[c] # None /\ Goto(c, "lock") /\ Enlist(c)
    <3>1. /\ keyLocks' \in [Key -> Call \cup {None}]
          /\ entry' \in [Call -> Call \cup {None}]
          /\ users' \in [Call -> Nat]
          /\ owner' \in [Call -> Call \cup {None}]
      BY <2>3, KeyType DEF GptTypeOK, Enlist
    <3> QED  BY <1>1, <2>3, <3>1, GotoType DEF GptTypeOK, Start, Live, Working
  <2> QED  BY <1>1, <2>1, <2>2, <2>3 DEF Start
<1>2. CASE AcquireKey(c)
  BY <1>2, GotoType, ZenonT(60) DEF GptTypeOK, AcquireKey, Live, Working
<1>3. CASE HaveKey(c)
  BY <1>3, GotoType DEF GptTypeOK, HaveKey, Live, Working
<1>4. CASE QuitKey(c)
  <2>1. entry[c] # None /\ Leave(c, "done", "cancelled") /\ Forget(c)
    BY <1>4, WorkerHasKey DEF QuitKey
  <2> QED  BY <1>4, <2>1, LeaveType, ForgetType DEF GptTypeOK, QuitKey, Outcomes
<1> QED  BY <1>1, <1>2, <1>3, <1>4

LEMMA TypeLookup ==
  ASSUME GptTypeOK, KeyLockInv, NEW c \in Call,
         LookupMiss(c) \/ LookupHit(c) \/ LookupCancelled(c)
  PROVE  GptTypeOK'
<1>1. CASE LookupMiss(c)
  <2>1. cache' \in [Key -> Call \cup {None}] /\ stale' \subseteq Key
    BY <1>1 DEF GptTypeOK, LookupMiss, Drop
  <2>2. CASE Finish(c, "cancelled")
    BY <1>1, <2>1, <2>2, FinishType DEF GptTypeOK, LookupMiss, Outcomes
  <2>3. CASE Leave(c, "request", "none") /\ UNCHANGED lockVars
    BY <1>1, <2>1, <2>3, LeaveType
       DEF GptTypeOK, LookupMiss, lockVars, tempVars, Live, Working, Outcomes
  <2> QED  BY <1>1, <2>2, <2>3 DEF LookupMiss
<1>2. CASE LookupHit(c)
  <2>1. leases' \in [Call -> Call \cup {None}]
    BY <1>2, WorkerHasKey DEF GptTypeOK, LookupHit
  <2>2. cache' \in [Key -> Call \cup {None}] /\ stale' \subseteq Key
    BY <1>2, <2>1, SweepSpares DEF GptTypeOK, LookupHit
  <2> QED  BY <1>2, <2>1, <2>2, FinishType DEF GptTypeOK, LookupHit, Outcomes
<1>3. CASE LookupCancelled(c)
  BY <1>3, FinishType DEF GptTypeOK, LookupCancelled, Outcomes
<1> QED  BY <1>1, <1>2, <1>3

LEMMA TypeSynthesis ==
  ASSUME GptTypeOK, KeyLockInv, NEW c \in Call,
         Request(c) \/ Stream(c) \/ Check(c) \/ Replace(c) \/ Cleanup(c)
  PROVE  GptTypeOK'
<1>1. CASE Request(c)
  <2>1. CASE part' = part \cup {c} /\ Goto(c, "stream")
    BY <1>1, <2>1, GotoType DEF GptTypeOK, Request, Live, Working
  <2>2. ASSUME NEW o \in {"failed", "cancelled"}, Leave(c, "cleanup", o), UNCHANGED part
        PROVE  GptTypeOK'
    BY <1>1, <2>2, LeaveType DEF GptTypeOK, Request, Live, Working, Outcomes
  <2> QED  BY <1>1, <2>1, <2>2 DEF Request
<1>2. CASE Stream(c)
  <2>1. CASE Goto(c, "check")
    BY <1>2, <2>1, GotoType DEF GptTypeOK, Stream, Live, Working
  <2>2. ASSUME NEW o \in {"failed", "cancelled"}, Leave(c, "cleanup", o)
        PROVE  GptTypeOK'
    BY <1>2, <2>2, LeaveType DEF GptTypeOK, Stream, Live, Working, Outcomes
  <2> QED  BY <1>2, <2>1, <2>2 DEF Stream
<1>3. CASE Check(c)
  <2>1. CASE Goto(c, "replace")
    BY <1>3, <2>1, GotoType DEF GptTypeOK, Check, Live, Working
  <2>2. ASSUME NEW o \in {"failed", "cancelled"}, Leave(c, "cleanup", o)
        PROVE  GptTypeOK'
    BY <1>3, <2>2, LeaveType DEF GptTypeOK, Check, Live, Working, Outcomes
  <2> QED  BY <1>3, <2>1, <2>2 DEF Check
<1>4. CASE Replace(c)
  <2>1. Leave(c, "cleanup", IF Cancelled(c) THEN "cancelled" ELSE "audio")
    BY <1>4 DEF Replace
  <2> QED  BY <1>4, <2>1, LeaveType DEF GptTypeOK, Replace, Live, Working, Outcomes
<1>5. CASE Cleanup(c)
  <2>1. final' \subseteq Call /\ paths' \subseteq Call
    BY <1>5 DEF GptTypeOK, Cleanup
  <2>2. ASSUME NEW o \in Outcomes, Finish(c, o)
        PROVE  GptTypeOK'
    BY <1>5, <2>1, <2>2, FinishType DEF GptTypeOK, Cleanup, Outcomes
  <2>3. CASE Goto(c, "promote") /\ UNCHANGED lockVars
    BY <1>5, <2>1, <2>3, GotoType DEF GptTypeOK, Cleanup, Live, Working
  <2>4. out[c] \in Outcomes /\ "cancelled" \in Outcomes
    BY DEF GptTypeOK, Outcomes
  <2> QED  BY <1>5, <2>2, <2>3, <2>4 DEF Cleanup
<1> QED  BY <1>1, <1>2, <1>3, <1>4, <1>5

LEMMA TypePromotion ==
  ASSUME GptTypeOK, KeyLockInv, NEW c \in Call,
         \/ KeepTemp(c) \/ QuitPromotion(c) \/ Copy(c) \/ Publish(c) \/ FailCopy(c)
         \/ Settle(c) \/ DropSource(c) \/ Undo(c)
  PROVE  GptTypeOK'
<1>1. CASE KeepTemp(c)
  BY <1>1, FinishType DEF GptTypeOK, KeepTemp, Outcomes
<1>2. CASE QuitPromotion(c)
  BY <1>2, LeaveType DEF GptTypeOK, QuitPromotion, Live, Working, Outcomes
<1>3. CASE Copy(c)
  BY <1>3, GotoType DEF GptTypeOK, Copy, Live, Working
<1>4. CASE Publish(c)
  BY <1>4, GotoType DEF GptTypeOK, Publish, Live, Working
<1>5. CASE FailCopy(c)
  <2>1. cache' \in [Key -> Call \cup {None}] /\ stale' \subseteq Key
    BY <1>5 DEF GptTypeOK, FailCopy, Drop
  <2>2. CASE Finish(c, "audio")
    BY <1>5, <2>1, <2>2, FinishType DEF GptTypeOK, FailCopy, Outcomes
  <2>3. CASE Leave(c, "undo", "cancelled") /\ UNCHANGED lockVars
    BY <1>5, <2>1, <2>3, LeaveType DEF GptTypeOK, FailCopy, Live, Working, Outcomes
  <2> QED  BY <1>5, <2>2, <2>3 DEF FailCopy
<1>6. CASE Settle(c)
  <2>1. CASE /\ leases' = [leases EXCEPT ![c] = None]
             /\ cache' = Drop(key[c]) /\ stale' = stale \ {key[c]}
             /\ Leave(c, "undo", "cancelled")
    BY <1>6, <2>1, LeaveType DEF GptTypeOK, Settle, Drop, Live, Working, Outcomes
  <2>2. CASE Sweep(leases, cache) /\ Goto(c, "drop") /\ UNCHANGED leases
    <3>1. leases \in [Call -> Call \cup {None}]
      BY DEF GptTypeOK
    <3>2. cache' \in [Key -> Call \cup {None}] /\ stale' \subseteq Key
      BY <2>2, <3>1, SweepSpares DEF GptTypeOK
    <3> QED  BY <1>6, <2>2, <3>2, GotoType DEF GptTypeOK, Settle, Live, Working
  <2> QED  BY <1>6, <2>1, <2>2 DEF Settle
<1>7. CASE DropSource(c)
  <2>1. CASE /\ leases' = [leases EXCEPT ![c] = None]
             /\ cache' = Drop(key[c]) /\ stale' = stale \ {key[c]}
             /\ Leave(c, "undo", "cancelled") /\ UNCHANGED lockVars
    BY <1>7, <2>1, LeaveType DEF GptTypeOK, DropSource, Drop, Live, Working, Outcomes
  <2>2. CASE Finish(c, "audio") /\ UNCHANGED <<cache, stale, leases>>
    BY <1>7, <2>2, FinishType DEF GptTypeOK, DropSource, Outcomes
  <2> QED  BY <1>7, <2>1, <2>2 DEF DropSource
<1>8. CASE Undo(c)
  <2>1. leases \in [Call -> Call \cup {None}]
    BY DEF GptTypeOK
  <2>2. cache' \in [Key -> Call \cup {None}] /\ stale' \subseteq Key
    BY <1>8, <2>1, SweepSpares DEF GptTypeOK, Undo
  <2> QED  BY <1>8, <2>2, FinishType DEF GptTypeOK, Undo, Outcomes
<1> QED  BY <1>1, <1>2, <1>3, <1>4, <1>5, <1>6, <1>7, <1>8

CallerStep(c) ==
    \/ Synthesize(c) \/ CancelCall(c) \/ CancelToken(c) \/ Return(c)
    \/ Discard(c) \/ SweepAfterDiscard(c)

CloseStep == Close \/ CloseCancel \/ CloseClear \/ CloseSweep

LEMMA TypeCaller ==
  ASSUME GptTypeOK, NEW c \in Call, CallerStep(c)
  PROVE  GptTypeOK'
<1>1. CASE Synthesize(c)
  BY <1>1 DEF GptTypeOK, Synthesize, Live
<1>2. CASE CancelCall(c)
  BY <1>2 DEF GptTypeOK, CancelCall, CancelSynthesis
<1>3. CASE CancelToken(c)
  BY <1>3 DEF GptTypeOK, CancelToken
<1>4. CASE Return(c)
  BY <1>4 DEF GptTypeOK, Return
<1>5. CASE Discard(c)
  BY <1>5 DEF GptTypeOK, Discard
<1>6. CASE SweepAfterDiscard(c)
  <2>1. leases \in [Call -> Call \cup {None}]
    BY DEF GptTypeOK
  <2>2. cache' \in [Key -> Call \cup {None}] /\ stale' \subseteq Key
    BY <1>6, <2>1, SweepSpares DEF GptTypeOK, SweepAfterDiscard
  <2> QED  BY <1>6, <2>2 DEF GptTypeOK, SweepAfterDiscard
<1> QED  BY <1>1, <1>2, <1>3, <1>4, <1>5, <1>6 DEF CallerStep

LEMMA TypeClose ==
  ASSUME GptTypeOK, CloseStep \/ \E k \in Key : Expire(k)
  PROVE  GptTypeOK'
<1>1. CASE Close
  BY <1>1 DEF GptTypeOK, Close
<1>2. CASE CloseCancel
  BY <1>2 DEF GptTypeOK, CloseCancel, CancelSynthesis
<1>3. CASE CloseClear
  BY <1>3 DEF GptTypeOK, CloseClear
<1>4. CASE CloseSweep
  <2>1. leases \in [Call -> Call \cup {None}]
    BY DEF GptTypeOK
  <2>2. cache' \in [Key -> Call \cup {None}] /\ stale' \subseteq Key
    BY <1>4, <2>1, SweepSpares DEF GptTypeOK, CloseSweep
  <2> QED  BY <1>4, <2>2 DEF GptTypeOK, CloseSweep
<1>5. ASSUME NEW k \in Key, Expire(k) PROVE GptTypeOK'
  BY <1>5 DEF GptTypeOK, Expire
<1> QED  BY <1>1, <1>2, <1>3, <1>4, <1>5 DEF CloseStep

LEMMA TypeStep == GptTypeOK /\ KeyLockInv /\ [Next]_vars => GptTypeOK'
<1> SUFFICES ASSUME GptTypeOK, KeyLockInv, [Next]_vars PROVE GptTypeOK'
  OBVIOUS
<1>1. ASSUME NEW c \in Call, WorkerStep(c) PROVE GptTypeOK'
  BY <1>1, TypeLock, TypeLookup, TypeSynthesis, TypePromotion DEF WorkerStep
<1>2. ASSUME NEW c \in Call, CallerStep(c) PROVE GptTypeOK'
  BY <1>2, TypeCaller
<1>3. CASE CloseStep \/ \E k \in Key : Expire(k)
  BY <1>3, TypeClose
<1>4. CASE UNCHANGED vars
  BY <1>4 DEF vars, GptTypeOK
<1> QED  BY <1>1, <1>2, <1>3, <1>4 DEF Next, CallerStep, CloseStep
-----------------------------------------------------------------------------
(* What the steps of a worker have in common. *)

(* The worker goes on with its synthesis or ends.                          *)
WorksOn(c) ==
    /\ worker[c] \in Working /\ UNCHANGED <<key, caller, closer>>
    /\ \/ \E pc \in Working : worker' = [worker EXCEPT ![c] = pc] /\ UNCHANGED lockVars
       \/ \E o \in Outcomes : Finish(c, o)

LEMMA SynthesisWorks ==
  ASSUME GptTypeOK, NEW c \in Call,
         Request(c) \/ Stream(c) \/ Check(c) \/ Replace(c) \/ Cleanup(c)
  PROVE  WorksOn(c)
<1>1. CASE Request(c)
  BY <1>1 DEF Request, WorksOn, Working, Goto, Leave
<1>2. CASE Stream(c)
  BY <1>2 DEF Stream, WorksOn, Working, Goto, Leave
<1>3. CASE Check(c)
  BY <1>3 DEF Check, WorksOn, Working, Goto, Leave
<1>4. CASE Replace(c)
  BY <1>4 DEF Replace, WorksOn, Working, Leave
<1>5. CASE Cleanup(c)
  <2>1. out[c] \in Outcomes /\ "cancelled" \in Outcomes
    BY DEF GptTypeOK, Outcomes
  <2> QED  BY <1>5, <2>1 DEF Cleanup, WorksOn, Working, Goto
<1> QED  BY <1>1, <1>2, <1>3, <1>4, <1>5

LEMMA PromotionWorks ==
  ASSUME GptTypeOK, NEW c \in Call,
         \/ KeepTemp(c) \/ QuitPromotion(c) \/ Copy(c) \/ Publish(c) \/ FailCopy(c)
         \/ Settle(c) \/ DropSource(c) \/ Undo(c)
  PROVE  WorksOn(c)
<1>0. "audio" \in Outcomes /\ "cancelled" \in Outcomes
  BY DEF Outcomes
<1>1. CASE KeepTemp(c)
  BY <1>0, <1>1 DEF KeepTemp, WorksOn, Working
<1>2. CASE QuitPromotion(c)
  BY <1>2 DEF QuitPromotion, WorksOn, Working, Leave
<1>3. CASE Copy(c) \/ Publish(c)
  BY <1>3 DEF Copy, Publish, WorksOn, Working, Goto
<1>4. CASE FailCopy(c)
  <2>1. CASE Finish(c, "audio")
    BY <1>0, <1>4, <2>1 DEF FailCopy, WorksOn, Working
  <2>2. CASE Leave(c, "undo", "cancelled") /\ UNCHANGED lockVars
    BY <1>4, <2>2 DEF FailCopy, WorksOn, Working, Leave
  <2> QED  BY <1>4, <2>1, <2>2 DEF FailCopy
<1>5. CASE Settle(c)
  BY <1>5 DEF Settle, WorksOn, Working, Goto, Leave
<1>6. CASE DropSource(c)
  <2>1. CASE Finish(c, "audio")
    BY <1>0, <1>6, <2>1 DEF DropSource, WorksOn, Working
  <2>2. CASE Leave(c, "undo", "cancelled") /\ UNCHANGED lockVars
    BY <1>6, <2>2 DEF DropSource, WorksOn, Working, Leave
  <2> QED  BY <1>6, <2>1, <2>2 DEF DropSource
<1>7. CASE Undo(c)
  BY <1>0, <1>7 DEF Undo, WorksOn, Working
<1> QED  BY <1>1, <1>2, <1>3, <1>4, <1>5, <1>6, <1>7

(* A step of a worker is its own, of a living worker, whose caller waits.  *)
LEMMA WorkerMoves ==
  ASSUME GptTypeOK, NEW c \in Call, WorkerStep(c)
  PROVE  /\ worker[c] \in Live /\ worker'[c] \in (Live \ {"start"}) \cup {"done"}
         /\ \A d \in Call : d # c => worker'[d] = worker[d]
         /\ UNCHANGED <<key, caller, closer>>
<1>1. CASE WorksOn(c)
  BY <1>1 DEF GptTypeOK, WorksOn, Finish, Leave, Live, Working
<1>2. CASE Start(c) \/ AcquireKey(c) \/ HaveKey(c) \/ QuitKey(c)
  BY <1>2 DEF GptTypeOK, Start, AcquireKey, HaveKey, QuitKey, Goto, Finish, Leave, Live, Working
<1>3. CASE LookupMiss(c) \/ LookupHit(c) \/ LookupCancelled(c)
  BY <1>3 DEF GptTypeOK, LookupMiss, LookupHit, LookupCancelled, Goto, Finish, Leave, Live, Working
<1> QED  BY <1>1, <1>2, <1>3, SynthesisWorks, PromotionWorks DEF WorkerStep

LEMMA CallersWaitStep == GptTypeOK /\ CallersWait /\ [Next]_vars => CallersWait'
<1> SUFFICES ASSUME GptTypeOK, CallersWait, [Next]_vars PROVE CallersWait'
  OBVIOUS
<1>1. ASSUME NEW c \in Call, WorkerStep(c) PROVE CallersWait'
  <2>1. /\ worker[c] \in Live /\ worker'[c] \in (Live \ {"start"}) \cup {"done"}
        /\ \A d \in Call : d # c => worker'[d] = worker[d]
        /\ UNCHANGED <<caller, closer>>
    BY <1>1, WorkerMoves
  <2> QED  BY <2>1 DEF CallersWait, Live, Working
<1>2. ASSUME NEW c \in Call, CallerStep(c) PROVE CallersWait'
  <2>1. CASE Synthesize(c)
    BY <2>1 DEF GptTypeOK, CallersWait, Synthesize, Live, Working
  <2>2. CASE CancelCall(c) \/ CancelToken(c)
    BY <2>2 DEF GptTypeOK, CallersWait, CancelCall, CancelToken
  <2>3. CASE Return(c)
    BY <2>3 DEF GptTypeOK, CallersWait, Return, Live, Working
  <2>4. CASE Discard(c) \/ SweepAfterDiscard(c)
    BY <2>4 DEF GptTypeOK, CallersWait, Discard, SweepAfterDiscard
  <2> QED  BY <1>2, <2>1, <2>2, <2>3, <2>4 DEF CallerStep
<1>3. CASE CloseStep \/ \E k \in Key : Expire(k)
  BY <1>3 DEF CallersWait, CloseStep, Close, CloseCancel, CloseClear, CloseSweep, Expire
<1>4. CASE UNCHANGED vars
  BY <1>4 DEF vars, CallersWait
<1> QED  BY <1>1, <1>2, <1>3, <1>4 DEF Next, CallerStep, CloseStep

-----------------------------------------------------------------------------
(* The lock of a key, for every step. *)

LEMMA KeyLockWorker ==
  ASSUME GptTypeOK, KeyLockInv, NEW c \in Call, WorkerStep(c)
  PROVE  KeyLockInv'
<1>1. CASE Start(c)
  <2>1. CASE Finish(c, "cancelled")
    BY <1>1, <2>1, KeyIsReleased DEF Start, Finish, Leave
  <2>2. CASE key[c] = None /\ Goto(c, "request") /\ UNCHANGED lockVars
    BY <1>1, <2>2, KeyIsKept DEF Start, Goto
  <2>3. CASE key[c] # None /\ Goto(c, "lock") /\ Enlist(c)
    BY <1>1, <2>3, KeyIsEnlisted DEF Start
  <2> QED  BY <1>1, <2>1, <2>2, <2>3 DEF Start
<1>2. CASE AcquireKey(c) \/ QuitKey(c)
  BY <1>2, KeyIsAcquired, KeyIsQuit
<1>3. CASE HaveKey(c)
  BY <1>3, KeyIsKept DEF HaveKey, Goto
<1>4. CASE LookupMiss(c) \/ LookupHit(c) \/ LookupCancelled(c)
  <2>1. CASE \E o \in Outcomes : Finish(c, o)
    BY <1>4, <2>1, KeyIsReleased DEF LookupMiss, LookupHit, LookupCancelled, Finish, Leave
  <2>2. CASE LookupMiss(c) /\ Leave(c, "request", "none") /\ UNCHANGED lockVars
    BY <1>4, <2>2, KeyIsKept DEF LookupMiss, Leave
  <2> QED  BY <1>4, <2>1, <2>2 DEF LookupMiss, LookupHit, LookupCancelled, Outcomes
<1>5. CASE WorksOn(c)
  <2>1. CASE \E pc \in Working : worker' = [worker EXCEPT ![c] = pc] /\ UNCHANGED lockVars
    BY <1>5, <2>1, KeyIsKept DEF WorksOn
  <2>2. CASE \E o \in Outcomes : Finish(c, o)
    BY <1>5, <2>2, KeyIsReleased DEF WorksOn, Finish, Leave
  <2> QED  BY <1>5, <2>1, <2>2 DEF WorksOn
<1>6. CASE Request(c) \/ Stream(c) \/ Check(c) \/ Replace(c) \/ Cleanup(c)
  BY <1>5, <1>6, SynthesisWorks
<1>7. CASE \/ KeepTemp(c) \/ QuitPromotion(c) \/ Copy(c) \/ Publish(c) \/ FailCopy(c)
           \/ Settle(c) \/ DropSource(c) \/ Undo(c)
  BY <1>5, <1>7, PromotionWorks
<1> QED  BY <1>1, <1>2, <1>3, <1>4, <1>6, <1>7 DEF WorkerStep

LEMMA KeyLockStep == GptTypeOK /\ CallersWait /\ KeyLockInv /\ [Next]_vars => KeyLockInv'
<1> SUFFICES ASSUME GptTypeOK, CallersWait, KeyLockInv, [Next]_vars PROVE KeyLockInv'
  OBVIOUS
<1>1. ASSUME NEW c \in Call, WorkerStep(c) PROVE KeyLockInv'
  BY <1>1, KeyLockWorker
<1>2. ASSUME UNCHANGED <<key, worker, lockVars>> PROVE KeyLockInv'
  BY <1>2 DEF KeyLockInv, EntriesMatchWorkers, EntriesAreIndexed, UsersAreCounted,
              HoldersOwn, Refs
<1>3. ASSUME NEW c \in Call, CallerStep(c) PROVE KeyLockInv'
  <2>1. CASE Synthesize(c)
    <3>1. CASE worker' = [worker EXCEPT ![c] = "start"]
      <4>1. worker[c] = "idle"
        BY <2>1 DEF Synthesize, CallersWait
      <4> QED  BY <2>1, <3>1, <4>1, KeyIsKept DEF Synthesize
    <3>2. CASE UNCHANGED worker
      BY <1>2, <2>1, <3>2 DEF Synthesize
    <3> QED  BY <2>1, <3>1, <3>2 DEF Synthesize
  <2>2. CASE ~Synthesize(c)
    BY <1>2, <1>3, <2>2 DEF CallerStep, CancelCall, CancelToken, Return, Discard,
                            SweepAfterDiscard
  <2> QED  BY <2>1, <2>2
<1>4. CASE CloseStep \/ \E k \in Key : Expire(k)
  BY <1>2, <1>4 DEF CloseStep, Close, CloseCancel, CloseClear, CloseSweep, Expire
<1>5. CASE UNCHANGED vars
  BY <1>2, <1>5 DEF vars
<1> QED  BY <1>1, <1>3, <1>4, <1>5 DEF Next, CallerStep, CloseStep

-----------------------------------------------------------------------------
(* Every value has its type, whatever the calls, the keys and the cache     *)
(* are; the count of the users of an entry of _key_locks never falls below *)
(* zero.                                                                   *)
KeyInv == GptTypeOK /\ CallersWait /\ KeyLockInv

LEMMA KeyInvInit == Init => KeyInv
<1> SUFFICES ASSUME Init PROVE KeyInv
  OBVIOUS
<1>1. \A e \in Call : Refs(e) = {}
  BY DEF Init, Refs
<1>2. UsersAreCounted
  BY <1>1, FS_EmptySet DEF Init, UsersAreCounted
<1>3. CallersWait /\ EntriesMatchWorkers /\ EntriesAreIndexed /\ HoldersOwn
  BY DEF Init, CallersWait, EntriesMatchWorkers, EntriesAreIndexed, HoldersOwn, HoldsKey,
         Live, Working
<1> QED  BY <1>2, <1>3, GptTypeInit DEF KeyInv, KeyLockInv

(* The locks of the keys: every entry counts the workers that use it, at    *)
(* most one of them holds it, and an entry that is left is forgotten.       *)
THEOREM KeyInvCorrect == GptSpec => []KeyInv
<1>1. KeyInv /\ [Next]_vars => KeyInv'
  BY TypeStep, CallersWaitStep, KeyLockStep DEF KeyInv
<1> QED  BY <1>1, KeyInvInit, PTL DEF GptSpec

(* The state of the provider has its type.                                 *)
THEOREM TypeCorrect == GptSpec => []GptTypeOK
<1>1. KeyInv => GptTypeOK
  BY DEF KeyInv
<1> QED  BY <1>1, KeyInvCorrect, PTL

(* Calls with the same cache key never synthesize beside each other:       *)
(* _acquire_key_lock and _release_key_lock keep one entry per key as long  *)
(* as anybody uses it, whoever is cancelled at whichever await.            *)
THEOREM OneSynthesisPerKeyCorrect == GptSpec => []OneSynthesisPerKey
<1>1. KeyInv => OneSynthesisPerKey
  BY HoldersAreOne DEF KeyInv, OneSynthesisPerKey, HoldsKey
<1> QED  BY <1>1, KeyInvCorrect, PTL

-----------------------------------------------------------------------------
(* Files and leases. A step of a worker disturbs only what is its own. *)

(* What the step of worker c leaves alone.                                 *)
OthersKept(c) ==
    \A d \in Call : d # c =>
        /\ worker'[d] = worker[d] /\ out'[d] = out[d] /\ leases'[d] = leases[d]
        /\ d \in part' <=> d \in part
        /\ d \in cachePart' <=> d \in cachePart
        /\ d \in final' <=> d \in final
        /\ d \in paths' <=> d \in paths

LEMMA LockStepFiles ==
  ASSUME KeyInv, FileInv, NEW c \in Call,
         \/ Start(c) \/ AcquireKey(c) \/ HaveKey(c) \/ QuitKey(c)
         \/ LookupMiss(c) \/ LookupHit(c) \/ LookupCancelled(c)
  PROVE  FileInv'
<1>1. /\ worker[c] \in {"start", "lock", "locked", "lookup"}
      /\ worker'[c] \in {"lock", "locked", "lookup", "request", "done"}
      /\ \A d \in Call : d # c => worker'[d] = worker[d] /\ out'[d] = out[d]
      /\ worker'[c] = "done" /\ out'[c] = "audio" => leases'[c] # None
      /\ UNCHANGED <<part, final, paths, cachePart, maint, caller, closer>>
      /\ \A d \in Call : d # c => leases'[d] = leases[d]
      /\ closer \notin {"sweep", "done"}
  <2>0. GptTypeOK /\ KeyLockInv
    BY DEF KeyInv
  <2>1. CASE Start(c)
    BY <2>0, <2>1 DEF Start, Goto, Finish, Leave, GptTypeOK, KeyInv, CallersWait, Live
  <2>2. CASE AcquireKey(c) \/ HaveKey(c)
    BY <2>0, <2>2 DEF AcquireKey, HaveKey, Goto, GptTypeOK, KeyInv, CallersWait, Live
  <2>3. CASE QuitKey(c)
    BY <2>0, <2>3 DEF QuitKey, Leave, GptTypeOK, KeyInv, CallersWait, Live
  <2>4. CASE LookupMiss(c)
    BY <2>0, <2>4 DEF LookupMiss, Goto, Finish, Leave, GptTypeOK, KeyInv, CallersWait, Live
  <2>5. CASE LookupHit(c)
    <3>1. cache[key[c]] # None /\ leases' = [leases EXCEPT ![c] = cache[key[c]]]
      BY <2>5 DEF LookupHit
    <3>2. Leave(c, "done", "audio")
      BY <2>5 DEF LookupHit, Finish
    <3> QED  BY <2>0, <2>5, <3>1, <3>2 DEF LookupHit, Leave, GptTypeOK, KeyInv, CallersWait, Live
  <2>6. CASE LookupCancelled(c)
    BY <2>0, <2>6 DEF LookupCancelled, Finish, Leave, GptTypeOK, KeyInv, CallersWait, Live
  <2> QED  BY <2>1, <2>2, <2>3, <2>4, <2>5, <2>6
<1>2. StagesOwn'
  BY <1>1 DEF FileInv, StagesOwn
<1>3. FilesAreOwned'
  BY <1>1 DEF FileInv, FilesAreOwned, KeyInv, GptTypeOK
<1>4. ResultsAreThere'
  BY <1>1 DEF FileInv, ResultsAreThere
<1>5. CloseForgets'
  BY <1>1 DEF FileInv, CloseForgets
<1> QED  BY <1>2, <1>3, <1>4, <1>5 DEF FileInv

(* What a worker is responsible for at its place pc, with result o.        *)
OwnFiles(c) ==
    /\ c \in part => worker[c] \in {"stream", "check", "replace", "cleanup"}
    /\ c \in cachePart => worker[c] = "copy"
    /\ maint = c <=> worker[c] \in {"copy", "lease"}
    /\ c \in final =>
        \/ worker[c] \in {"cleanup", "promote", "copy", "lease", "drop", "undo"}
        \/ worker[c] = "done" /\ c \in paths
    /\ worker[c] \in {"promote", "copy"} => out[c] = "audio" /\ c \in final \cap paths
    /\ worker[c] = "cleanup" /\ out[c] = "audio" => c \in final \cap paths
    /\ worker[c] \in {"lease", "drop"} => out[c] = "audio" /\ leases[c] = c
    /\ worker[c] = "done" /\ out[c] = "audio" => leases[c] # None \/ c \in final \cap paths

LEMMA OwnFilesSuffice ==
  ASSUME KeyInv, FileInv, NEW c \in Call, worker[c] \in Live, WorkerStep(c),
         OthersKept(c), OwnFiles(c)',
         maint' = maint \/ (maint \in {c, None} /\ maint' \in {c, None}),
         GptTypeOK'
  PROVE  FileInv'
<1>1. /\ worker'[c] \in (Live \ {"start"}) \cup {"done"}
      /\ UNCHANGED <<key, caller, closer>>
      /\ closer \notin {"sweep", "done"}
  BY WorkerMoves DEF KeyInv, CallersWait
<1>2. StagesOwn'
  BY <1>1 DEF FileInv, StagesOwn, OthersKept, OwnFiles, KeyInv, GptTypeOK
<1>3. FilesAreOwned'
  BY <1>1 DEF FileInv, FilesAreOwned, OthersKept, OwnFiles, GptTypeOK
<1>4. ResultsAreThere'
  BY <1>1 DEF FileInv, ResultsAreThere, OthersKept, OwnFiles, Live, Working
<1>5. CloseForgets'
  BY <1>1 DEF CloseForgets
<1> QED  BY <1>2, <1>3, <1>4, <1>5 DEF FileInv

LEMMA SynthesisFiles ==
  ASSUME KeyInv, FileInv, NEW c \in Call,
         Request(c) \/ Stream(c) \/ Check(c) \/ Replace(c) \/ Cleanup(c)
  PROVE  OthersKept(c) /\ OwnFiles(c)' /\ maint' = maint
<1>0. GptTypeOK /\ KeyLockInv /\ StagesOwn /\ FilesAreOwned /\ ResultsAreThere
  BY DEF KeyInv, FileInv
<1>1. CASE Request(c)
  BY <1>0, <1>1 DEF Request, Goto, Leave, GptTypeOK, OthersKept, OwnFiles, StagesOwn,
                    FilesAreOwned, ResultsAreThere
<1>2. CASE Stream(c)
  BY <1>0, <1>2 DEF Stream, Goto, Leave, GptTypeOK, OthersKept, OwnFiles, StagesOwn,
                    FilesAreOwned, ResultsAreThere
<1>3. CASE Check(c)
  BY <1>0, <1>3 DEF Check, Goto, Leave, GptTypeOK, OthersKept, OwnFiles, StagesOwn,
                    FilesAreOwned, ResultsAreThere
<1>4. CASE Replace(c)
  BY <1>0, <1>4 DEF Replace, Leave, Cancelled, GptTypeOK, OthersKept, OwnFiles, StagesOwn,
                    FilesAreOwned, ResultsAreThere
<1>5. CASE Cleanup(c)
  BY <1>0, <1>5 DEF Cleanup, Goto, Finish, Leave, GptTypeOK, OthersKept, OwnFiles, StagesOwn,
                    FilesAreOwned, ResultsAreThere
<1> QED  BY <1>1, <1>2, <1>3, <1>4, <1>5

LEMMA PromotionFiles ==
  ASSUME KeyInv, FileInv, NEW c \in Call,
         \/ KeepTemp(c) \/ QuitPromotion(c) \/ Copy(c) \/ Publish(c) \/ FailCopy(c)
         \/ Settle(c) \/ DropSource(c) \/ Undo(c)
  PROVE  /\ OthersKept(c) /\ OwnFiles(c)'
         /\ maint' = maint \/ (maint \in {c, None} /\ maint' \in {c, None})
<1>0. GptTypeOK /\ KeyLockInv /\ StagesOwn /\ FilesAreOwned /\ ResultsAreThere
  BY DEF KeyInv, FileInv
<1>1. CASE KeepTemp(c)
  BY <1>0, <1>1 DEF KeepTemp, Finish, Leave, GptTypeOK, OthersKept, OwnFiles, StagesOwn,
                    FilesAreOwned, ResultsAreThere
<1>2. CASE QuitPromotion(c)
  BY <1>0, <1>2 DEF QuitPromotion, Leave, GptTypeOK, OthersKept, OwnFiles, StagesOwn,
                    FilesAreOwned, ResultsAreThere
<1>3. CASE Copy(c)
  BY <1>0, <1>3 DEF Copy, Goto, GptTypeOK, OthersKept, OwnFiles, StagesOwn,
                    FilesAreOwned, ResultsAreThere
<1>4. CASE Publish(c)
  BY <1>0, <1>4 DEF Publish, Goto, GptTypeOK, OthersKept, OwnFiles, StagesOwn,
                    FilesAreOwned, ResultsAreThere
<1>5. CASE FailCopy(c)
  <2>1. CASE Finish(c, "audio")
    BY <1>0, <1>5, <2>1 DEF FailCopy, Finish, Leave, GptTypeOK, OthersKept, OwnFiles, StagesOwn,
                      FilesAreOwned, ResultsAreThere
  <2>2. CASE Leave(c, "undo", "cancelled")
    BY <1>0, <1>5, <2>2 DEF FailCopy, Leave, GptTypeOK, OthersKept, OwnFiles, StagesOwn,
                      FilesAreOwned, ResultsAreThere
  <2> QED  BY <1>5, <2>1, <2>2 DEF FailCopy
<1>6. CASE Settle(c)
  BY <1>0, <1>6 DEF Settle, Goto, Leave, GptTypeOK, OthersKept, OwnFiles, StagesOwn,
                    FilesAreOwned, ResultsAreThere
<1>7. CASE DropSource(c)
  BY <1>0, <1>7 DEF DropSource, Finish, Leave, GptTypeOK, OthersKept, OwnFiles, StagesOwn,
                    FilesAreOwned, ResultsAreThere
<1>8. CASE Undo(c)
  BY <1>0, <1>8 DEF Undo, Finish, Leave, GptTypeOK, OthersKept, OwnFiles, StagesOwn,
                    FilesAreOwned, ResultsAreThere
<1> QED  BY <1>1, <1>2, <1>3, <1>4, <1>5, <1>6, <1>7, <1>8

LEMMA CallerFiles ==
  ASSUME KeyInv, FileInv, NEW c \in Call, CallerStep(c)
  PROVE  FileInv'
<1>0. /\ GptTypeOK /\ CallersWait
      /\ StagesOwn /\ FilesAreOwned /\ ResultsAreThere /\ CloseForgets
  BY DEF KeyInv, FileInv
<1>1. CASE Synthesize(c)
  BY <1>0, <1>1 DEF Synthesize, GptTypeOK, CallersWait, FileInv, StagesOwn, FilesAreOwned,
                    ResultsAreThere, CloseForgets
<1>2. CASE CancelCall(c) \/ CancelToken(c)
  BY <1>0, <1>2 DEF CancelCall, CancelToken, GptTypeOK, FileInv, StagesOwn, FilesAreOwned,
                    ResultsAreThere, CloseForgets
<1>3. CASE Return(c)
  BY <1>0, <1>3 DEF Return, GptTypeOK, FileInv, StagesOwn, FilesAreOwned,
                    ResultsAreThere, CloseForgets
<1>4. CASE Discard(c)
  <2>1. worker[c] \notin Live
    BY <1>0, <1>4 DEF Discard, CallersWait
  <2>2. StagesOwn'
    BY <1>0, <1>4 DEF Discard, StagesOwn
  <2>3. FilesAreOwned'
    BY <1>0, <1>4, <2>1 DEF Discard, FilesAreOwned, GptTypeOK
  <2>4. ResultsAreThere'
    BY <1>0, <1>4, <2>1 DEF Discard, ResultsAreThere, GptTypeOK, Live, Working
  <2>5. CloseForgets'
    BY <1>0, <1>4 DEF Discard, CloseForgets, GptTypeOK
  <2> QED  BY <2>2, <2>3, <2>4, <2>5 DEF FileInv
<1>5. CASE SweepAfterDiscard(c)
  BY <1>0, <1>5 DEF SweepAfterDiscard, GptTypeOK, FileInv, StagesOwn, FilesAreOwned,
                    ResultsAreThere, CloseForgets
<1> QED  BY <1>1, <1>2, <1>3, <1>4, <1>5 DEF CallerStep

LEMMA CloseFiles ==
  ASSUME KeyInv, FileInv, CloseStep \/ \E k \in Key : Expire(k)
  PROVE  FileInv'
<1>0. /\ GptTypeOK /\ CallersWait
      /\ StagesOwn /\ FilesAreOwned /\ ResultsAreThere /\ CloseForgets
  BY DEF KeyInv, FileInv
<1>1. CASE Close \/ CloseCancel
  BY <1>0, <1>1 DEF Close, CloseCancel, FileInv, StagesOwn, FilesAreOwned, ResultsAreThere,
                    CloseForgets
<1>2. CASE CloseClear
  <2>1. \A c \in Call : worker[c] \notin Live
    BY <1>2 DEF CloseClear
  <2>2. final' = {}
    BY <1>0, <1>2, <2>1 DEF CloseClear, FilesAreOwned, GptTypeOK, Live, Working
  <2>3. \A c \in Call : leases'[c] = None
    BY <1>2 DEF CloseClear
  <2> QED  BY <1>0, <1>2, <2>1, <2>2, <2>3 DEF CloseClear, FileInv, StagesOwn, FilesAreOwned,
                    ResultsAreThere, CloseForgets, Live, Working
<1>3. CASE CloseSweep \/ \E k \in Key : Expire(k)
  BY <1>0, <1>3 DEF CloseSweep, Expire, FileInv, StagesOwn, FilesAreOwned, ResultsAreThere,
                    CloseForgets
<1> QED  BY <1>1, <1>2, <1>3 DEF CloseStep

LEMMA FileStep == KeyInv /\ KeyInv' /\ FileInv /\ [Next]_vars => FileInv'
<1> SUFFICES ASSUME KeyInv, KeyInv', FileInv, [Next]_vars PROVE FileInv'
  OBVIOUS
<1>1. ASSUME NEW c \in Call, WorkerStep(c) PROVE FileInv'
  <2>1. worker[c] \in Live /\ GptTypeOK'
    BY <1>1, WorkerMoves DEF KeyInv
  <2>2. CASE Request(c) \/ Stream(c) \/ Check(c) \/ Replace(c) \/ Cleanup(c)
    BY <1>1, <2>1, <2>2, SynthesisFiles, OwnFilesSuffice
  <2>3. CASE \/ KeepTemp(c) \/ QuitPromotion(c) \/ Copy(c) \/ Publish(c) \/ FailCopy(c)
             \/ Settle(c) \/ DropSource(c) \/ Undo(c)
    BY <1>1, <2>1, <2>3, PromotionFiles, OwnFilesSuffice
  <2> QED  BY <1>1, <2>2, <2>3, LockStepFiles DEF WorkerStep
<1>2. ASSUME NEW c \in Call, CallerStep(c) PROVE FileInv'
  BY <1>2, CallerFiles
<1>3. CASE CloseStep \/ \E k \in Key : Expire(k)
  BY <1>3, CloseFiles
<1>4. CASE UNCHANGED vars
  BY <1>4 DEF vars, FileInv, StagesOwn, FilesAreOwned, ResultsAreThere, CloseForgets
<1> QED  BY <1>1, <1>2, <1>3, <1>4 DEF Next, CallerStep, CloseStep

(* Every temporary file has an owner, at every await of every call: a       *)
(* worker, or _paths, in which discard and close find it.                  *)
THEOREM FileInvCorrect == GptSpec => [](KeyInv /\ FileInv)
<1>1. Init => FileInv
  BY DEF Init, FileInv, StagesOwn, FilesAreOwned, ResultsAreThere, CloseForgets
<1>2. KeyInv /\ FileInv /\ KeyInv' /\ [Next]_vars => FileInv'
  BY FileStep
<1> QED  BY <1>1, <1>2, KeyInvCorrect, PTL DEF GptSpec

(* Audio has an owner from its first byte until it is gone, a result that  *)
(* was handed out is there until it is discarded, and close leaves nothing *)
(* temporary, leased or running.                                           *)
THEOREM AudioIsAccountedCorrect == GptSpec => []AudioIsAccounted
<1>1. KeyInv /\ FileInv => AudioIsAccounted
  <2> SUFFICES ASSUME KeyInv, FileInv PROVE AudioIsAccounted
    OBVIOUS
  <2>0. /\ GptTypeOK /\ CallersWait
        /\ StagesOwn /\ FilesAreOwned /\ ResultsAreThere /\ CloseForgets
    BY DEF KeyInv, FileInv
  <2>1. \A c \in final : worker[c] \in Working \/ c \in paths
    BY <2>0 DEF FilesAreOwned, Working
  <2>2. ASSUME NEW c \in Call, caller[c] = "returned", out[c] = "audio",
               closer \notin {"sweep", "done"}
        PROVE  leases[c] # None \/ c \in final \cap paths
    BY <2>0, <2>2 DEF ResultsAreThere, CallersWait, GptTypeOK, Live
  <2>3. AudioIsOwned
    BY <2>1, <2>2 DEF AudioIsOwned
  <2>4. ClosedLeavesNothing
    <3> SUFFICES ASSUME closer = "done"
                 PROVE  /\ part = {} /\ final = {} /\ cachePart = {} /\ maint = None
                        /\ \A c \in Call : /\ leases[c] = None /\ worker[c] \notin Live
                                           /\ caller[c] \notin {"waiting", "joining"}
      BY DEF ClosedLeavesNothing
    <3>1. \A c \in Call : worker[c] \notin Live /\ caller[c] \notin {"waiting", "joining"}
      BY <2>0 DEF CallersWait
    <3>2. final = {} /\ \A c \in Call : leases[c] = None
      BY <2>0 DEF CloseForgets
    <3>3. part = {} /\ cachePart = {} /\ maint = None
      BY <2>0, <3>1 DEF StagesOwn, GptTypeOK, Live, Working
    <3> QED  BY <3>1, <3>2, <3>3
  <2> QED  BY <2>3, <2>4 DEF AudioIsAccounted
<1> QED  BY <1>1, FileInvCorrect, PTL


-----------------------------------------------------------------------------
(* The cache and its leases. *)

Before == {"request", "stream", "check", "replace", "cleanup", "promote", "copy"}
After  == {"lease", "drop", "undo"}

(* A worker that moves keeps what the cache says of it true.               *)
MovesOn(d) ==
    \/ worker'[d] = worker[d]
    \/ /\ worker[d] # "done"
       /\ worker[d] \in After => worker'[d] \in After \cup {"done"}
       /\ worker'[d] \in {"promote", "copy"} \cup After => key[d] # None
       /\ worker'[d] \in Before /\ key[d] # None => cache'[key[d]] = None
       /\ worker'[d] \in {"lease", "drop"} => cache'[key[d]] \in {d, None}

(* Files and leases go, and none comes.                                    *)
LEMMA CacheShrinks ==
  ASSUME KeyInv, CacheInv, UNCHANGED key,
         \A k \in Key : cache'[k] \in {cache[k], None},
         \A d \in Call : leases'[d] \in {leases[d], None},
         \A d \in Call : MovesOn(d)
  PROVE  CacheInv'
<1>0. /\ GptTypeOK /\ PromotedHasKey /\ CacheHasMakers /\ PlaceIsFree /\ LeasesAreSettled
      /\ \A d \in Call : key[d] # None => key[d] \in Key
  BY KeyType DEF KeyInv, CacheInv
<1>1. PromotedHasKey'
  BY <1>0 DEF PromotedHasKey, MovesOn, After
<1>2. CacheHasMakers'
  <2> SUFFICES ASSUME NEW k \in Key, cache'[k] # None
               PROVE  /\ key[cache[k]] = k
                      /\ worker'[cache[k]] \in {"lease", "drop", "undo", "done"}
    BY DEF CacheHasMakers
  <2>1. /\ cache[k] \in Call /\ key[cache[k]] = k
        /\ worker[cache[k]] \in {"lease", "drop", "undo", "done"}
    BY <1>0 DEF CacheHasMakers, GptTypeOK
  <2> QED  BY <2>1 DEF MovesOn, After
<1>3. PlaceIsFree'
  <2> SUFFICES ASSUME NEW d \in Call, key[d] # None
               PROVE  /\ worker'[d] \in Before => cache'[key[d]] = None
                      /\ worker'[d] \in {"lease", "drop"} => cache'[key[d]] \in {d, None}
    BY DEF PlaceIsFree, Before
  <2>1. CASE worker'[d] = worker[d]
    BY <1>0, <2>1 DEF PlaceIsFree, Before
  <2>2. CASE worker'[d] # worker[d]
    BY <2>2 DEF MovesOn
  <2> QED  BY <2>1, <2>2
<1>4. LeasesAreSettled'
  <2> SUFFICES ASSUME NEW d \in Call, leases'[d] # None
               PROVE  key[d] # None /\ (leases[d] # d => worker'[leases[d]] = "done")
    BY DEF LeasesAreSettled
  <2>1. leases[d] \in Call /\ key[d] # None /\ (leases[d] # d => worker[leases[d]] = "done")
    BY <1>0 DEF LeasesAreSettled, GptTypeOK
  <2> QED  BY <2>1 DEF MovesOn
<1> QED  BY <1>1, <1>2, <1>3, <1>4 DEF CacheInv

(* A worker fills the place that it found empty, alone with its key.       *)
LEMMA CacheIsFilled ==
  ASSUME KeyInv, CacheInv, UNCHANGED key, NEW c \in Call, worker[c] = "copy",
         worker' = [worker EXCEPT ![c] = "lease"] \/ worker' = [worker EXCEPT ![c] = "undo"],
         cache' = [cache EXCEPT ![key[c]] = c],
         leases' = leases \/ leases' = [leases EXCEPT ![c] = c]
  PROVE  CacheInv'
<1>0. /\ GptTypeOK /\ KeyLockInv
      /\ PromotedHasKey /\ CacheHasMakers /\ PlaceIsFree /\ LeasesAreSettled
      /\ \A d \in Call : key[d] # None => key[d] \in Key
  BY KeyType DEF KeyInv, CacheInv
<1>1. /\ \A d \in Call : d # c => worker'[d] = worker[d] /\ leases'[d] = leases[d]
      /\ worker'[c] \in {"lease", "undo"} /\ leases'[c] \in {leases[c], c}
  BY <1>0 DEF GptTypeOK
<1>2. /\ key[c] \in Key /\ cache'[key[c]] = c
      /\ \A k \in Key \ {key[c]} : cache'[k] = cache[k]
  BY <1>0 DEF PromotedHasKey, GptTypeOK
<1>3. \A d \in Call : d # c /\ key[d] = key[c] => worker[d] \notin HoldsKey
  BY <1>0, <1>2, HoldersAreOne DEF HoldsKey, Working
<1>4. PromotedHasKey'
  BY <1>0, <1>1, <1>2 DEF PromotedHasKey
<1>5. CacheHasMakers'
  BY <1>0, <1>1, <1>2 DEF CacheHasMakers, GptTypeOK
<1>6. PlaceIsFree'
  BY <1>0, <1>1, <1>2, <1>3 DEF PlaceIsFree, HoldsKey, Working
<1>7. LeasesAreSettled'
  BY <1>0, <1>1, <1>2 DEF LeasesAreSettled, GptTypeOK
<1> QED  BY <1>4, <1>5, <1>6, <1>7 DEF CacheInv

(* What the cache has is leased when its maker is done with it.            *)
LEMMA CacheIsLeased ==
  ASSUME KeyInv, CacheInv, NEW c \in Call, LookupHit(c)
  PROVE  CacheInv'
<1>0. /\ GptTypeOK /\ KeyLockInv
      /\ PromotedHasKey /\ CacheHasMakers /\ PlaceIsFree /\ LeasesAreSettled
      /\ key[c] \in Key
  BY WorkerHasKey DEF KeyInv, CacheInv, LookupHit
<1>1. /\ worker[c] = "lookup" /\ cache[key[c]] # None /\ UNCHANGED key
      /\ leases' = [leases EXCEPT ![c] = cache[key[c]]] /\ Sweep(leases', cache)
      /\ Leave(c, "done", "audio")
  BY DEF LookupHit, Finish
<1>2. leases' \in [Call -> Call \cup {None}]
  BY <1>0, <1>1 DEF GptTypeOK
<1>3. \A k \in Key : cache'[k] \in {cache[k], None}
  BY <1>0, <1>1, <1>2, SweepSpares
<1>4. /\ \A d \in Call : d # c => worker'[d] = worker[d] /\ leases'[d] = leases[d]
      /\ worker'[c] = "done" /\ leases'[c] = cache[key[c]]
  BY <1>0, <1>1 DEF GptTypeOK, Leave
<1>5. worker[cache[key[c]]] = "done" /\ cache[key[c]] \in Call
  <2> DEFINE d == cache[key[c]]
  <2>1. d \in Call /\ key[d] = key[c] /\ worker[d] \in {"lease", "drop", "undo", "done"}
    BY <1>0, <1>1 DEF CacheHasMakers, GptTypeOK
  <2>2. d # c
    BY <2>1, <1>1
  <2> QED  BY <2>1, <2>2, <1>0, <1>1, HoldersAreOne DEF HoldsKey, Working
<1>6. PromotedHasKey'
  BY <1>0, <1>1, <1>4 DEF PromotedHasKey
<1>7. CacheHasMakers'
  BY <1>0, <1>1, <1>3, <1>4 DEF CacheHasMakers, GptTypeOK
<1>8. PlaceIsFree'
  BY <1>0, <1>1, <1>3, <1>4, KeyType DEF PlaceIsFree
<1>9. LeasesAreSettled'
  BY <1>0, <1>1, <1>4, <1>5 DEF LeasesAreSettled, GptTypeOK
<1> QED  BY <1>6, <1>7, <1>8, <1>9 DEF CacheInv

(* A sweep under a step that leases nothing new.                           *)
LEMMA SweepShrinks ==
  ASSUME GptTypeOK, Sweep(leases, cache)
  PROVE  \A k \in Key : cache'[k] \in {cache[k], None}
BY SweepSpares DEF GptTypeOK

LEMMA CacheEarly ==
  ASSUME KeyInv, CacheInv, NEW c \in Call,
         \/ Start(c) \/ AcquireKey(c) \/ HaveKey(c) \/ QuitKey(c)
         \/ LookupMiss(c) \/ LookupCancelled(c)
         \/ Request(c) \/ Stream(c) \/ Check(c) \/ Replace(c) \/ Cleanup(c)
  PROVE  CacheInv'
<1>0. /\ GptTypeOK /\ PlaceIsFree
      /\ \A d \in Call : key[d] # None => key[d] \in Key
  BY KeyType DEF KeyInv, CacheInv
<1>1. UNCHANGED <<key, leases>> /\ \A d \in Call \ {c} : worker'[d] = worker[d]
  BY <1>0 DEF Start, AcquireKey, HaveKey, QuitKey, LookupMiss, LookupCancelled,
     Request, Stream, Check, Replace, Cleanup, Goto, Leave, Finish, GptTypeOK
<1>2. CASE \/ Start(c) \/ AcquireKey(c) \/ HaveKey(c) \/ QuitKey(c) \/ LookupCancelled(c)
  <2>1. /\ worker[c] \notin After \cup {"done"} /\ UNCHANGED cache
        /\ worker'[c] \in {"lock", "locked", "lookup", "done"}
           \/ (worker'[c] = "request" /\ key[c] = None)
    BY <1>0, <1>2 DEF Start, AcquireKey, HaveKey, QuitKey, LookupCancelled, Goto, Leave,
                      Finish, GptTypeOK, After
  <2> QED  BY <1>0, <1>1, <2>1, CacheShrinks DEF MovesOn, After, Before
<1>3. CASE LookupMiss(c)
  <2>1. key[c] \in Key
    BY <1>3, WorkerHasKey DEF KeyInv, LookupMiss
  <2>2. /\ worker[c] = "lookup" /\ cache' = Drop(key[c])
        /\ worker'[c] \in {"request", "done"}
    BY <1>0, <1>3 DEF LookupMiss, Goto, Leave, Finish, GptTypeOK
  <2>3. cache'[key[c]] = None /\ \A k \in Key : cache'[k] \in {cache[k], None}
    BY <1>0, <2>1, <2>2 DEF Drop, GptTypeOK
  <2> QED  BY <1>0, <1>1, <2>2, <2>3, CacheShrinks DEF MovesOn, After, Before
<1>4. CASE Request(c) \/ Stream(c) \/ Check(c) \/ Replace(c) \/ Cleanup(c)
  <2>1. /\ worker[c] \in Before \ {"promote", "copy"} /\ UNCHANGED cache
        /\ \/ worker'[c] \in (Before \ {"promote", "copy"}) \cup {"done"}
           \/ worker'[c] = "promote" /\ key[c] # None
    <3>1. CASE Request(c)
      BY <1>0, <3>1 DEF Request, Goto, Leave, GptTypeOK, Before
    <3>2. CASE Stream(c) \/ Check(c)
      BY <1>0, <3>2 DEF Stream, Check, Goto, Leave, GptTypeOK, Before
    <3>3. CASE Replace(c)
      BY <1>0, <3>3 DEF Replace, Leave, GptTypeOK, Before
    <3>4. CASE Cleanup(c)
      BY <1>0, <3>4 DEF Cleanup, Goto, Finish, Leave, GptTypeOK, Before
    <3> QED  BY <1>4, <3>1, <3>2, <3>3, <3>4
  <2>2. key[c] # None => cache[key[c]] = None
    BY <1>0, <2>1 DEF PlaceIsFree, Before
  <2> QED  BY <1>0, <1>1, <2>1, <2>2, CacheShrinks DEF MovesOn, After, Before
<1> QED  BY <1>2, <1>3, <1>4

LEMMA CacheLate ==
  ASSUME KeyInv, CacheInv, NEW c \in Call,
         \/ KeepTemp(c) \/ QuitPromotion(c) \/ Copy(c) \/ Publish(c) \/ FailCopy(c)
         \/ Settle(c) \/ DropSource(c) \/ Undo(c)
  PROVE  CacheInv'
<1>0. /\ GptTypeOK /\ PlaceIsFree /\ PromotedHasKey
      /\ \A d \in Call : key[d] # None => key[d] \in Key
  BY KeyType DEF KeyInv, CacheInv
<1>1. UNCHANGED key /\ \A d \in Call \ {c} : worker'[d] = worker[d]
  BY <1>0 DEF KeepTemp, QuitPromotion, Copy, Publish, FailCopy, Settle, DropSource, Undo,
     Goto, Leave, Finish, GptTypeOK
<1>2. key[c] \in Key
  BY <1>0 DEF KeepTemp, QuitPromotion, Copy, Publish, FailCopy, Settle, DropSource, Undo,
     PromotedHasKey
<1>3. \A k \in Key : Drop(key[c])[k] \in {cache[k], None}
  BY <1>0, <1>2 DEF Drop, GptTypeOK
<1>4. CASE KeepTemp(c) \/ QuitPromotion(c) \/ Copy(c)
  <2>1. /\ worker[c] = "promote" /\ UNCHANGED <<cache, leases>>
        /\ worker'[c] \in {"done", "undo", "copy"}
    BY <1>0, <1>4 DEF KeepTemp, QuitPromotion, Copy, Goto, Finish, Leave, GptTypeOK
  <2>2. cache[key[c]] = None
    BY <1>0, <1>2, <2>1 DEF PlaceIsFree
  <2> QED  BY <1>0, <1>1, <1>2, <2>1, <2>2, CacheShrinks DEF MovesOn, After, Before
<1>5. CASE Publish(c)
  BY <1>5, CacheIsFilled DEF Publish, Goto
<1>6. CASE FailCopy(c)
  <2>1. CASE cache' = [cache EXCEPT ![key[c]] = c] /\ Leave(c, "undo", "cancelled")
    BY <1>6, <2>1, CacheIsFilled DEF FailCopy, Leave
  <2>2. CASE (UNCHANGED cache \/ cache' = Drop(key[c]))
             /\ (Leave(c, "undo", "cancelled") \/ Finish(c, "audio"))
    <3>1. worker[c] = "copy" /\ UNCHANGED leases /\ worker'[c] \in {"undo", "done"}
      BY <1>0, <1>6, <2>2 DEF FailCopy, Leave, Finish, GptTypeOK
    <3> QED  BY <1>0, <1>1, <1>2, <1>3, <2>2, <3>1, CacheShrinks DEF MovesOn, After, Before
  <2> QED  BY <1>6, <2>1, <2>2 DEF FailCopy
<1>7. CASE Settle(c)
  <2>1. worker[c] = "lease" /\ cache[key[c]] \in {c, None}
    BY <1>0, <1>2, <1>7 DEF Settle, PlaceIsFree
  <2>2. CASE Interrupted(c)
    <3>1. /\ cache' = Drop(key[c]) /\ worker'[c] = "undo"
          /\ \A d \in Call : leases'[d] \in {leases[d], None}
      BY <1>0, <1>7, <2>2 DEF Settle, Leave, GptTypeOK
    <3> QED  BY <1>0, <1>1, <1>2, <1>3, <2>1, <3>1, CacheShrinks DEF MovesOn, After, Before
  <2>3. CASE ~Interrupted(c)
    <3>1. Sweep(leases, cache) /\ worker'[c] = "drop" /\ UNCHANGED leases
      BY <1>0, <1>7, <2>3 DEF Settle, Goto, GptTypeOK
    <3>2. \A k \in Key : cache'[k] \in {cache[k], None}
      BY <1>0, <3>1, SweepShrinks
    <3> QED  BY <1>0, <1>1, <1>2, <2>1, <3>1, <3>2, CacheShrinks DEF MovesOn, After, Before
  <2> QED  BY <2>2, <2>3
<1>8. CASE DropSource(c)
  <2>1. /\ worker[c] = "drop" /\ worker'[c] \in {"undo", "done"}
        /\ UNCHANGED cache \/ cache' = Drop(key[c])
        /\ \A d \in Call : leases'[d] \in {leases[d], None}
    <3>1. CASE Interrupted(c)
      BY <1>0, <1>8, <3>1 DEF DropSource, Leave, GptTypeOK
    <3>2. CASE ~Interrupted(c)
      BY <1>0, <1>8, <3>2 DEF DropSource, Finish, Leave, GptTypeOK
    <3> QED  BY <3>1, <3>2
  <2> QED  BY <1>0, <1>1, <1>2, <1>3, <2>1, CacheShrinks DEF MovesOn, After, Before
<1>9. CASE Undo(c)
  <2>1. Sweep(leases, cache) /\ worker[c] = "undo" /\ worker'[c] = "done" /\ UNCHANGED leases
    BY <1>0, <1>9 DEF Undo, Finish, Leave, GptTypeOK
  <2>2. \A k \in Key : cache'[k] \in {cache[k], None}
    BY <1>0, <2>1, SweepShrinks
  <2> QED  BY <1>0, <1>1, <2>1, <2>2, CacheShrinks DEF MovesOn, After, Before
<1> QED  BY <1>4, <1>5, <1>6, <1>7, <1>8, <1>9

LEMMA CacheStep == KeyInv /\ CacheInv /\ [Next]_vars => CacheInv'
<1> SUFFICES ASSUME KeyInv, CacheInv, [Next]_vars PROVE CacheInv'
  OBVIOUS
<1>0. GptTypeOK /\ CallersWait
  BY DEF KeyInv
<1>1. ASSUME NEW c \in Call, WorkerStep(c) PROVE CacheInv'
  BY <1>1, CacheIsLeased, CacheEarly, CacheLate DEF WorkerStep
<1>2. ASSUME UNCHANGED <<key, worker>>,
             \A k \in Key : cache'[k] \in {cache[k], None},
             \A d \in Call : leases'[d] \in {leases[d], None}
      PROVE  CacheInv'
  BY <1>2, CacheShrinks DEF MovesOn
<1>3. ASSUME NEW c \in Call, CallerStep(c) PROVE CacheInv'
  <2>1. CASE Synthesize(c)
    <3>1. /\ worker[c] = "idle" /\ UNCHANGED <<key, cache, leases>>
          /\ \A d \in Call \ {c} : worker'[d] = worker[d]
          /\ worker'[c] \in {"start", worker[c]}
      BY <1>0, <2>1 DEF Synthesize, CallersWait, GptTypeOK
    <3>2. ASSUME NEW d \in Call PROVE MovesOn(d)
      BY <3>1 DEF MovesOn, After, Before
    <3> QED  BY <3>1, <3>2, CacheShrinks
  <2>2. CASE CancelCall(c) \/ CancelToken(c) \/ Return(c)
    BY <1>2, <2>2 DEF CancelCall, CancelToken, Return
  <2>3. CASE Discard(c)
    BY <1>0, <1>2, <2>3 DEF Discard, GptTypeOK
  <2>4. CASE SweepAfterDiscard(c)
    BY <1>0, <1>2, <2>4, SweepShrinks DEF SweepAfterDiscard
  <2> QED  BY <1>3, <2>1, <2>2, <2>3, <2>4 DEF CallerStep
<1>4. CASE CloseStep \/ \E k \in Key : Expire(k)
  <2>1. CASE Close \/ CloseCancel \/ \E k \in Key : Expire(k)
    BY <1>2, <2>1 DEF Close, CloseCancel, Expire
  <2>2. CASE CloseClear
    BY <1>2, <2>2 DEF CloseClear
  <2>3. CASE CloseSweep
    BY <1>0, <1>2, <2>3, SweepShrinks DEF CloseSweep
  <2> QED  BY <1>4, <2>1, <2>2, <2>3 DEF CloseStep
<1>5. CASE UNCHANGED vars
  BY <1>2, <1>5 DEF vars
<1> QED  BY <1>1, <1>3, <1>4, <1>5 DEF Next, CallerStep, CloseStep

(* The leases of the cache are of finished work, whatever is cancelled.    *)
THEOREM CacheInvCorrect == GptSpec => [](KeyInv /\ CacheInv)
<1>1. Init => CacheInv
  BY KeyInvInit DEF Init, CacheInv, PromotedHasKey, CacheHasMakers, PlaceIsFree, LeasesAreSettled
<1>2. KeyInv /\ CacheInv /\ [Next]_vars => CacheInv'
  BY CacheStep
<1> QED  BY <1>1, <1>2, KeyInvCorrect, PTL DEF GptSpec

-----------------------------------------------------------------------------
(* The leased file c of the cache, before and after a step.                *)
Leased(c) == leases[c] # None /\ leases'[c] # None
             /\ cache[key[c]] = leases[c] /\ key[c] \notin stale

LEMMA LeasedStays ==
  ASSUME KeyInv, CacheInv, [Next]_vars, NEW c \in Call, Leased(c)
  PROVE  cache'[key[c]] = leases[c]
<1>0. /\ GptTypeOK /\ PromotedHasKey /\ PlaceIsFree /\ LeasesAreSettled
      /\ key[c] \in Key /\ leases[c] \in Call
  BY KeyType DEF KeyInv, CacheInv, LeasesAreSettled, Leased, GptTypeOK
<1>1. ASSUME NEW ls \in [Call -> Call \cup {None}], Sweep(ls, cache), ls[c] # None
      PROVE  cache'[key[c]] = leases[c]
  BY <1>0, <1>1, SweepSpares DEF Leased
<1>2. CASE UNCHANGED cache
  BY <1>2 DEF Leased
<1>3. ASSUME NEW d \in Call, WorkerStep(d), cache' # cache
      PROVE  cache'[key[c]] = leases[c]
  <2>1. CASE LookupHit(d)
    <3>1. leases' \in [Call -> Call \cup {None}]
      BY <1>0, <2>1, WorkerHasKey DEF KeyInv, LookupHit, GptTypeOK
    <3> QED  BY <1>1, <2>1, <3>1 DEF LookupHit, Leased
  <2>2. CASE LookupMiss(d)
    <3>1. key[d] # key[c]
      BY <1>0, <2>2 DEF LookupMiss, Leased
    <3> QED  BY <1>0, <2>2, <3>1 DEF LookupMiss, Drop, Leased, GptTypeOK
  <2>3. CASE Publish(d) \/ FailCopy(d)
    <3>1. /\ worker[d] = "copy"
          /\ \/ cache' \in {cache, Drop(key[d])}
             \/ cache' = [cache EXCEPT ![key[d]] = d]
      BY <2>3 DEF Publish, FailCopy
    <3>2. key[d] # None /\ cache[key[d]] = None
      BY <1>0, <2>3 DEF Publish, FailCopy, PromotedHasKey, PlaceIsFree
    <3>3. key[d] # key[c]
      BY <1>0, <3>2 DEF Leased
    <3> QED  BY <1>0, <1>2, <3>1, <3>3 DEF Drop, Leased, GptTypeOK
  <2>4. CASE (Settle(d) \/ DropSource(d)) /\ Interrupted(d)
    <3>1. /\ worker[d] \in {"lease", "drop"} /\ cache' = Drop(key[d]) /\ leases'[d] = None
      BY <1>0, <2>4 DEF Settle, DropSource, GptTypeOK
    <3>2. c # d /\ key[d] # None /\ cache[key[d]] \in {d, None}
      BY <1>0, <3>1 DEF Leased, PromotedHasKey, PlaceIsFree
    <3>3. key[d] # key[c]
      BY <1>0, <3>1, <3>2 DEF Leased, LeasesAreSettled
    <3> QED  BY <1>0, <3>1, <3>3 DEF Drop, Leased, GptTypeOK
  <2>5. CASE (Settle(d) /\ ~Interrupted(d)) \/ Undo(d)
    BY <1>0, <1>1, <2>5 DEF Settle, Undo, Leased, GptTypeOK
  <2> QED  BY <1>3, <2>1, <2>2, <2>3, <2>4, <2>5
           DEF WorkerStep, Start, AcquireKey, HaveKey, QuitKey, LookupCancelled, Request,
               Stream, Check, Replace, Cleanup, KeepTemp, QuitPromotion, Copy, DropSource
<1>4. CASE CloseSweep \/ \E d \in Call : SweepAfterDiscard(d)
  BY <1>0, <1>1, <1>4 DEF CloseSweep, SweepAfterDiscard, Leased, GptTypeOK
<1> QED  BY <1>2, <1>3, <1>4
         DEF Next, vars, Synthesize, CancelCall, CancelToken, Return, Discard, Close,
             CloseCancel, CloseClear, Expire

(* Playback that holds a file of the cache keeps it: neither a sweep nor a *)
(* promotion, a cancelled promotion or a discard of another call unlinks or *)
(* replaces what _cache_results leases.                                    *)
THEOREM LeasedAudioStaysCorrect == GptSpec => LeasedAudioStays
<1>1. KeyInv /\ CacheInv /\ [Next]_vars
      => [\A c \in Call :
            /\ leases[c] # None /\ leases'[c] # None
            /\ cache[key[c]] = leases[c] /\ key[c] \notin stale
            => cache'[key[c]] = leases[c]]_vars
  BY LeasedStays DEF Leased
<1> QED  BY <1>1, CacheInvCorrect, PTL DEF GptSpec, LeasedAudioStays
=============================================================================
