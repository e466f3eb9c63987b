----------------------------- MODULE MemoryStore -----------------------------
(***************************************************************************)
(* What the tables of app/storage hold of one user's memories, and what    *)
(* each transaction of MemoryRepository does to them.                      *)
(*                                                                         *)
(* A claim is a record of MemoryClaim with what the policy reads of it:    *)
(*   key, text, type, importance and confidence (in hundredths),           *)
(*   sens (what the texts are detected as, or the hint, whichever is more  *)
(*   sensitive), explicit ("please remember"), transient ("just now").     *)
(* A database is [rows |-> memories, profiles |-> user_profiles].          *)
(***************************************************************************)
EXTENDS Integers, FiniteSets

Types == {"user_profile", "fact", "event", "emotion", "relationship"}
Sensitivities == {"normal", "health", "address", "other_sensitive", "credential"}
Decisions == {"reject", "confirmation_required", "save"}

(* classify_sensitivity and the hint: the more sensitive one counts.       *)
Rank == [s \in Sensitivities |->
            CASE s = "normal" -> 0 [] s = "other_sensitive" -> 1
              [] s \in {"health", "address"} -> 2 [] OTHER -> 3]
MostSensitive(detected, hint) == IF Rank[detected] >= Rank[hint] THEN detected ELSE hint

ImportanceThreshold == 55
ConfidenceThreshold == 80

EffectiveImportance(c) ==
    LET raised == IF c.explicit THEN c.importance + 10 ELSE c.importance
    IN  IF raised > 100 THEN 100 ELSE raised

(* MemoryPolicy.evaluate: the first rule that applies decides.             *)
Evaluate(c) ==
    IF \/ c.sens = "credential"
       \/ c.type = "user_profile" /\ ~c.profileKey
       \/ c.type \in {"fact", "emotion"} /\ c.transient
       \/ EffectiveImportance(c) < ImportanceThreshold
       \/ c.confidence < ConfidenceThreshold
    THEN "reject"
    ELSE IF c.sens # "normal" THEN "confirmation_required" ELSE "save"

-----------------------------------------------------------------------------
EmptyStore == [rows |-> {}, profiles |-> {}]

Active(db) == {r \in db.rows : r.status = "active"}

(* The keys of the tables and the index one_active_memory_per_key_idx; and *)
(* that the profile of a slot is its active memory, if that is a profile.  *)
Constraints(db) ==
    /\ \A r, s \in db.rows : r.id = s.id \/ (r.key = s.key /\ r.text = s.text) => r = s
    /\ \A r, s \in Active(db) : r.key = s.key => r = s
    /\ \A p, q \in db.profiles : p.key = q.key => p = q
    /\ \A p \in db.profiles :
          \E r \in db.rows : r.id = p.id /\ r.key = p.key /\ r.text = p.text
    /\ \A r \in Active(db) :
          r.type = "user_profile" => [key |-> r.key, id |-> r.id, text |-> r.text] \in db.profiles

(* The row that an approved claim would duplicate.                         *)
Exact(db, c) == {r \in db.rows : r.key = c.key /\ r.text = c.text}

(* upsert raises before its commit: the transaction is rolled back.        *)
TypeConflict(db, c) == \E r \in Exact(db, c) : r.type # c.type

(* upsert: another value of the slot is superseded, the same value revived *)
(* under its old id; a profile points to what was stored last.             *)
Upsert(db, c, fresh) ==
    LET old  == Exact(db, c)
        id   == IF old = {} THEN fresh ELSE (CHOOSE r \in old : TRUE).id
        row  == [id |-> id, key |-> c.key, text |-> c.text, type |-> c.type,
                 sens |-> c.sens, status |-> "active"]
        kept == {IF r.key = c.key THEN [r EXCEPT !.status = "superseded"] ELSE r
                    : r \in db.rows \ old}
    IN  IF TypeConflict(db, c) THEN db
        ELSE [rows |-> kept \cup {row},
              profiles |->
                IF c.type # "user_profile" THEN db.profiles
                ELSE {p \in db.profiles : p.key # c.key}
                        \cup {[key |-> c.key, id |-> id, text |-> c.text]}]

(* update_content fails on a text that the slot has in another row.        *)
CanUpdate(db, id, text) ==
    \E r \in db.rows :
        /\ r.id = id
        /\ \A s \in db.rows : s.id # id => s.key # r.key \/ s.text # text

UpdateContent_RowOnly(db, id, text, sens) ==
    [db EXCEPT !.rows = {IF r.id = id THEN [r EXCEPT !.text = text, !.sens = sens] ELSE r : r \in @}]

(* update_content: the row and its profile, whatever the row's status.     *)
UpdateContent(db, id, text, sens) ==
    [rows |-> {IF r.id = id THEN [r EXCEPT !.text = text, !.sens = sens] ELSE r : r \in db.rows},
     profiles |-> {IF p.id = id THEN [p EXCEPT !.text = text] ELSE p : p \in db.profiles}]

(* delete and clear: a profile goes with its memory (ON DELETE CASCADE).   *)
DeleteRows(db, ids) ==
    [rows |-> {r \in db.rows : r.id \notin ids},
     profiles |-> {p \in db.profiles : p.id \notin ids}]

(* list_profiles and search, as MemoryContextAssembler puts them together: *)
(* a memory that is a profile is not listed twice.                         *)
ProfileItems(db) == {[id |-> p.id, text |-> p.text] : p \in db.profiles}
MemoryItems(db, profiles) ==
    {[id |-> r.id, text |-> r.text] :
        r \in {s \in Active(db) : \A p \in profiles : p.id # s.id}}
=============================================================================
