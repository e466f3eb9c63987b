----------------------------- MODULE MemoryProofs -----------------------------
(***************************************************************************)
(* Proofs about the memory: for any messages, prompts, requests, proposals *)
(* of the analyzer, edits of the user, and any database to start from that *)
(* keeps the constraints of its schema.                                    *)
(*                                                                         *)
(* First what each transaction of MemoryStore does to a database; then the *)
(* tables, the switch of long-term memory, and the epochs of the prompts.  *)
(***************************************************************************)
EXTENDS MemoryRuntime, TLAPS

-----------------------------------------------------------------------------
(* The transactions of MemoryRepository keep the constraints.              *)

Storable(c) ==
    c.key \in Keys /\ c.text \in Texts /\ c.type \in Types /\ c.sens \in Sensitivities \ {"credential"}

FreshFor(d, id) == id \in MemoryId /\ \A r \in d.rows : r.id # id

(* What upsert makes of a row of another text, and the row that it writes.  *)
Marked(r, c) == IF r.key = c.key THEN [r EXCEPT !.status = "superseded"] ELSE r
Written(id, c) == [id |-> id, key |-> c.key, text |-> c.text, type |-> c.type,
                   sens |-> c.sens, status |-> "active"]

LEMMA MarkedIs ==
  ASSUME NEW r \in Rows, NEW c
  PROVE  /\ Marked(r, c) \in Rows /\ Marked(r, c).id = r.id /\ Marked(r, c).key = r.key
         /\ Marked(r, c).text = r.text /\ Marked(r, c).type = r.type /\ Marked(r, c).sens = r.sens
         /\ Marked(r, c).status = "active" => r.key # c.key /\ Marked(r, c) = r
         /\ r.key # c.key => Marked(r, c) = r
BY DEF Marked, Rows

LEMMA WrittenIs ==
  ASSUME NEW c, Storable(c), NEW id \in MemoryId
  PROVE  /\ Written(id, c) \in Rows /\ Written(id, c).id = id /\ Written(id, c).key = c.key
         /\ Written(id, c).text = c.text /\ Written(id, c).type = c.type
         /\ Written(id, c).sens = c.sens /\ Written(id, c).status = "active"
BY DEF Written, Rows, Storable

(* The shape of an upsert that does not fail. *)
LEMMA UpsertIs ==
  ASSUME NEW d \in Database, Constraints(d), NEW c, Storable(c),
         NEW fresh, FreshFor(d, fresh), ~TypeConflict(d, c)
  PROVE  \E id \in MemoryId :
           /\ \A r \in d.rows : r.id = id <=> r \in Exact(d, c)
           /\ Upsert(d, c, fresh).rows
                = {Marked(r, c) : r \in d.rows \ Exact(d, c)} \cup {Written(id, c)}
           /\ Upsert(d, c, fresh).profiles =
                IF c.type # "user_profile" THEN d.profiles
                ELSE {p \in d.profiles : p.key # c.key}
                        \cup {[key |-> c.key, id |-> id, text |-> c.text]}
<1> DEFINE old == Exact(d, c)
           id == IF old = {} THEN fresh ELSE (CHOOSE r \in old : TRUE).id
<1>1. id \in MemoryId /\ \A r \in d.rows : r.id = id <=> r \in old
  <2>1. CASE old = {}
    BY <2>1 DEF FreshFor
  <2>2. CASE old # {}
    <3> DEFINE o == CHOOSE r \in old : TRUE
    <3>1. o \in old
      BY <2>2
    <3>2. o \in d.rows /\ o.key = c.key /\ o.text = c.text
      BY <3>1 DEF Exact
    <3>3. \A r \in old : r = o
      BY <3>2 DEF Exact, Constraints
    <3>4. o.id \in MemoryId
      BY <3>2 DEF Database, Rows
    <3>5. \A r \in d.rows : r.id = o.id => r = o
      BY <3>2 DEF Constraints
    <3>6. id = o.id
      BY <2>2
    <3> HIDE DEF old, id, o
    <3> QED  BY <3>1, <3>3, <3>4, <3>5, <3>6
  <2> QED  BY <2>1, <2>2
<1>2. /\ Upsert(d, c, fresh).rows = {Marked(r, c) : r \in d.rows \ old} \cup {Written(id, c)}
      /\ Upsert(d, c, fresh).profiles =
           IF c.type # "user_profile" THEN d.profiles
           ELSE {p \in d.profiles : p.key # c.key} \cup {[key |-> c.key, id |-> id, text |-> c.text]}
  BY DEF Upsert, Marked, Written
<1> QED  BY <1>1, <1>2

LEMMA UpsertKeeps ==
  ASSUME NEW d \in Database, Constraints(d), NEW c, Storable(c), NEW fresh, FreshFor(d, fresh)
  PROVE  /\ Upsert(d, c, fresh) \in Database /\ Constraints(Upsert(d, c, fresh))
         /\ \A r \in Upsert(d, c, fresh).rows :
               \/ \E s \in d.rows : s.text = r.text /\ s.sens = r.sens
               \/ r.text = c.text /\ r.sens = c.sens
<1>1. CASE TypeConflict(d, c)
  BY <1>1 DEF Upsert
<1>2. CASE ~TypeConflict(d, c)
  <2> DEFINE u == Upsert(d, c, fresh)
  <2>1. PICK id \in MemoryId :
           /\ \A r \in d.rows : r.id = id <=> r \in Exact(d, c)
           /\ u.rows = {Marked(r, c) : r \in d.rows \ Exact(d, c)} \cup {Written(id, c)}
           /\ u.profiles = IF c.type # "user_profile" THEN d.profiles
                           ELSE {p \in d.profiles : p.key # c.key}
                                   \cup {[key |-> c.key, id |-> id, text |-> c.text]}
    BY <1>2, UpsertIs
  <2> DEFINE new == Written(id, c)
             kept == d.rows \ Exact(d, c)
  <2>2. u = [rows |-> u.rows, profiles |-> u.profiles]
    BY <1>2 DEF Upsert
  <2>3. d.rows \subseteq Rows /\ d.profiles \subseteq Profiles
    BY DEF Database
  <2>4. /\ new \in Rows /\ new.id = id /\ new.key = c.key /\ new.text = c.text
        /\ new.type = c.type /\ new.sens = c.sens /\ new.status = "active"
    BY WrittenIs
  <2>5. \A r \in kept : /\ r.id # id /\ (r.key # c.key \/ r.text # c.text)
                        /\ r \in Rows /\ r \in d.rows
    BY <2>1, <2>3 DEF Exact
  <2>6. \A x \in u.rows : x = new \/ \E r \in kept : x = Marked(r, c)
    BY <2>1
  <2>7. new \in u.rows /\ \A r \in kept : Marked(r, c) \in u.rows
    BY <2>1
  <2> HIDE DEF u, new, kept
  <2>8. u.rows \subseteq Rows
    BY <2>4, <2>5, <2>6, MarkedIs
  <2>9. u.profiles \subseteq Profiles
    BY <2>1, <2>3 DEF Profiles, Storable
  <2>10. \A x, y \in u.rows : x.id = y.id \/ (x.key = y.key /\ x.text = y.text) => x = y
    <3> SUFFICES ASSUME NEW x \in u.rows, NEW y \in u.rows,
                        x.id = y.id \/ (x.key = y.key /\ x.text = y.text), x # new, y # new
                 PROVE  x = y
      BY <2>4, <2>5, <2>6, MarkedIs
    <3>1. PICK r \in kept : x = Marked(r, c)
      BY <2>6
    <3>2. PICK s \in kept : y = Marked(s, c)
      BY <2>6
    <3>3. r.id = s.id \/ (r.key = s.key /\ r.text = s.text)
      BY <2>5, <3>1, <3>2, MarkedIs
    <3> QED  BY <2>5, <3>1, <3>2, <3>3 DEF Constraints
  <2>11. \A x \in u.rows : x.status = "active" /\ x # new => x \in kept /\ x.key # c.key
    BY <2>5, <2>6, MarkedIs
  <2>12. \A x, y \in Active(u) : x.key = y.key => x = y
    <3> SUFFICES ASSUME NEW x \in Active(u), NEW y \in Active(u), x.key = y.key PROVE x = y
      OBVIOUS
    <3>1. x \in u.rows /\ y \in u.rows /\ x.status = "active" /\ y.status = "active"
      BY DEF Active
    <3>2. CASE x = new \/ y = new
      BY <2>4, <2>11, <3>1, <3>2
    <3>3. CASE x # new /\ y # new
      BY <2>5, <2>11, <3>1, <3>3 DEF Active, Constraints
    <3> QED  BY <3>2, <3>3
  <2>13. \A p, q \in u.profiles : p.key = q.key => p = q
    BY <2>1 DEF Constraints
  <2>14. \A p \in u.profiles : \E x \in u.rows : x.id = p.id /\ x.key = p.key /\ x.text = p.text
    <3> SUFFICES ASSUME NEW p \in u.profiles
                 PROVE  \E x \in u.rows : x.id = p.id /\ x.key = p.key /\ x.text = p.text
      OBVIOUS
    <3>1. CASE p \in d.profiles
      <4>1. PICK r \in d.rows : r.id = p.id /\ r.key = p.key /\ r.text = p.text
        BY <3>1 DEF Constraints
      <4>2. CASE r \in kept
        BY <2>5, <2>7, <4>1, <4>2, MarkedIs
      <4>3. CASE r \in Exact(d, c)
        BY <2>1, <2>4, <2>7, <4>1, <4>3 DEF Exact
      <4> QED  BY <4>2, <4>3 DEF kept
    <3>2. CASE p = [key |-> c.key, id |-> id, text |-> c.text]
      BY <2>4, <2>7, <3>2
    <3> QED  BY <2>1, <3>1, <3>2
  <2>15. \A x \in Active(u) :
            x.type = "user_profile" => [key |-> x.key, id |-> x.id, text |-> x.text] \in u.profiles
    <3> SUFFICES ASSUME NEW x \in u.rows, x.status = "active", x.type = "user_profile"
                 PROVE  [key |-> x.key, id |-> x.id, text |-> x.text] \in u.profiles
      BY DEF Active
    <3>1. CASE x = new
      BY <2>1, <2>4, <3>1
    <3>2. CASE x # new
      <4>1. x \in d.rows /\ x.key # c.key
        BY <2>5, <2>11, <3>2
      <4>2. [key |-> x.key, id |-> x.id, text |-> x.text] \in d.profiles
        BY <4>1 DEF Constraints, Active
      <4> QED  BY <2>1, <4>1, <4>2
    <3> QED  BY <3>1, <3>2
  <2>16. \A x \in u.rows : \/ \E s \in d.rows : s.text = x.text /\ s.sens = x.sens
                           \/ x.text = c.text /\ x.sens = c.sens
    BY <2>4, <2>5, <2>6, MarkedIs
  <2>17. u \in Database /\ Constraints(u)
    BY <2>2, <2>8, <2>9, <2>10, <2>12, <2>13, <2>14, <2>15 DEF Database, Constraints
  <2> QED  BY <2>16, <2>17 DEF u
<1> QED  BY <1>1, <1>2

(* An update leaves a row as it is or gives it another text. *)
Edited(r, id, text, sens) == IF r.id = id THEN [r EXCEPT !.text = text, !.sens = sens] ELSE r

LEMMA EditedIs ==
  ASSUME NEW r \in Rows, NEW id, NEW text \in Texts, NEW sens \in Sensitivities \ {"credential"}
  PROVE  /\ Edited(r, id, text, sens) \in Rows
         /\ Edited(r, id, text, sens).id = r.id /\ Edited(r, id, text, sens).key = r.key
         /\ Edited(r, id, text, sens).type = r.type /\ Edited(r, id, text, sens).status = r.status
         /\ r.id = id => /\ Edited(r, id, text, sens).text = text
                         /\ Edited(r, id, text, sens).sens = sens
         /\ r.id # id => Edited(r, id, text, sens) = r
BY DEF Edited, Rows

LEMMA UpdateKeeps ==
  ASSUME NEW d \in Database, Constraints(d), NEW id \in MemoryId, NEW text \in Texts,
         NEW sens \in Sensitivities \ {"credential"}, CanUpdate(d, id, text)
  PROVE  /\ UpdateContent(d, id, text, sens) \in Database
         /\ Constraints(UpdateContent(d, id, text, sens))
         /\ \A r \in UpdateContent(d, id, text, sens).rows :
               (\E s \in d.rows : s.text = r.text /\ s.sens = r.sens) \/ r.text = text
<1> DEFINE u == UpdateContent(d, id, text, sens)
           Row(r) == Edited(r, id, text, sens)
           Pro(p) == IF p.id = id THEN [p EXCEPT !.text = text] ELSE p
<1>1. /\ u = [rows |-> u.rows, profiles |-> u.profiles]
      /\ u.rows = {Row(r) : r \in d.rows} /\ u.profiles = {Pro(p) : p \in d.profiles}
  BY DEF UpdateContent, Edited
<1>2. d.rows \subseteq Rows /\ d.profiles \subseteq Profiles
  BY DEF Database
<1>3. ASSUME NEW r \in d.rows
      PROVE  /\ Row(r) \in Rows /\ Row(r).id = r.id /\ Row(r).key = r.key /\ Row(r).type = r.type
             /\ Row(r).status = r.status /\ (r.id = id => Row(r).text = text /\ Row(r).sens = sens)
             /\ (r.id # id => Row(r) = r)
  BY <1>2, EditedIs
<1>4. ASSUME NEW p \in d.profiles
      PROVE  /\ Pro(p) \in Profiles /\ Pro(p).key = p.key /\ Pro(p).id = p.id
             /\ (p.id = id => Pro(p).text = text) /\ (p.id # id => Pro(p) = p)
  BY <1>2 DEF Profiles
<1>5. /\ \A x \in u.rows : \E r \in d.rows : x = Row(r)
      /\ \A r \in d.rows : Row(r) \in u.rows
      /\ \A q \in u.profiles : \E p \in d.profiles : q = Pro(p)
      /\ \A p \in d.profiles : Pro(p) \in u.profiles
  BY <1>1
<1> HIDE DEF u, Row, Pro
<1>6. u.rows \subseteq Rows /\ u.profiles \subseteq Profiles
  BY <1>3, <1>4, <1>5
<1>7. \A x, y \in u.rows : x.id = y.id \/ (x.key = y.key /\ x.text = y.text) => x = y
  <2> SUFFICES ASSUME NEW x \in u.rows, NEW y \in u.rows,
                      x.id = y.id \/ (x.key = y.key /\ x.text = y.text)
               PROVE  x = y
    OBVIOUS
  <2>1. PICK r \in d.rows : x = Row(r)
    BY <1>5
  <2>2. PICK s \in d.rows : y = Row(s)
    BY <1>5
  <2>3. PICK e \in d.rows : /\ e.id = id
                            /\ \A t \in d.rows : t.id # id => t.key # e.key \/ t.text # text
    BY DEF CanUpdate
  <2>4. \A t \in d.rows : t.id = id => t = e
    BY <2>3 DEF Constraints
  <2>5. CASE x.id = y.id
    BY <1>3, <2>1, <2>2, <2>5 DEF Constraints
  <2>6. CASE x.id # y.id /\ x.key = y.key /\ x.text = y.text
    BY <1>3, <2>1, <2>2, <2>3, <2>4, <2>6 DEF Constraints
  <2> QED  BY <2>5, <2>6
<1>8. \A x, y \in Active(u) : x.key = y.key => x = y
  <2> SUFFICES ASSUME NEW x \in u.rows, NEW y \in u.rows, x.status = "active", y.status = "active",
                      x.key = y.key
               PROVE  x = y
    BY DEF Active
  <2>1. PICK r \in d.rows : x = Row(r)
    BY <1>5
  <2>2. PICK s \in d.rows : y = Row(s)
    BY <1>5
  <2>3. r.status = "active" /\ s.status = "active" /\ r.key = s.key
    BY <1>3, <2>1, <2>2
  <2> QED  BY <2>1, <2>2, <2>3 DEF Active, Constraints
<1>9. \A p, q \in u.profiles : p.key = q.key => p = q
  <2> SUFFICES ASSUME NEW p \in u.profiles, NEW q \in u.profiles, p.key = q.key PROVE p = q
    OBVIOUS
  <2>1. PICK v \in d.profiles : p = Pro(v)
    BY <1>5
  <2>2. PICK w \in d.profiles : q = Pro(w)
    BY <1>5
  <2> QED  BY <1>4, <2>1, <2>2 DEF Constraints
<1>10. \A p \in u.profiles : \E x \in u.rows : x.id = p.id /\ x.key = p.key /\ x.text = p.text
  <2> SUFFICES ASSUME NEW p \in u.profiles
               PROVE  \E x \in u.rows : x.id = p.id /\ x.key = p.key /\ x.text = p.text
    OBVIOUS
  <2>1. PICK v \in d.profiles : p = Pro(v)
    BY <1>5
  <2>2. PICK r \in d.rows : r.id = v.id /\ r.key = v.key /\ r.text = v.text
    BY DEF Constraints
  <2>3. Row(r) \in u.rows /\ Row(r).id = p.id /\ Row(r).key = p.key /\ Row(r).text = p.text
    BY <1>3, <1>4, <1>5, <2>1, <2>2
  <2> QED  BY <2>3
<1>11. \A x \in Active(u) :
          x.type = "user_profile" => [key |-> x.key, id |-> x.id, text |-> x.text] \in u.profiles
  <2> SUFFICES ASSUME NEW x \in u.rows, x.status = "active", x.type = "user_profile"
               PROVE  [key |-> x.key, id |-> x.id, text |-> x.text] \in u.profiles
    BY DEF Active
  <2>1. PICK r \in d.rows : x = Row(r)
    BY <1>5
  <2> DEFINE p == [key |-> r.key, id |-> r.id, text |-> r.text]
  <2>2. p \in d.profiles
    BY <1>3, <2>1 DEF Constraints, Active
  <2>3. Pro(p) = [key |-> x.key, id |-> x.id, text |-> x.text]
    <3>1. Pro(p) \in Profiles /\ Pro(p).key = x.key /\ Pro(p).id = x.id
      BY <1>3, <1>4, <2>1, <2>2
    <3>2. Pro(p).text = x.text
      BY <1>3, <1>4, <2>1, <2>2
    <3> QED  BY <3>1, <3>2 DEF Profiles
  <2> QED  BY <1>5, <2>2, <2>3
<1>12. \A x \in u.rows : (\E s \in d.rows : s.text = x.text /\ s.sens = x.sens) \/ x.text = text
  BY <1>3, <1>5
<1>13. u \in Database /\ Constraints(u)
  BY <1>1, <1>6, <1>7, <1>8, <1>9, <1>10, <1>11 DEF Database, Constraints
<1> QED  BY <1>12, <1>13 DEF u

LEMMA DeleteKeeps ==
  ASSUME NEW d \in Database, Constraints(d), NEW ids
  PROVE  /\ DeleteRows(d, ids) \in Database /\ Constraints(DeleteRows(d, ids))
         /\ DeleteRows(d, ids).rows \subseteq d.rows
<1> DEFINE u == DeleteRows(d, ids)
<1>1. /\ u = [rows |-> u.rows, profiles |-> u.profiles]
      /\ u.rows = {r \in d.rows : r.id \notin ids}
      /\ u.profiles = {p \in d.profiles : p.id \notin ids}
  BY DEF DeleteRows
<1> HIDE DEF u
<1>2. u \in Database
  BY <1>1 DEF Database
<1>3. /\ \A r, s \in u.rows : r.id = s.id \/ (r.key = s.key /\ r.text = s.text) => r = s
      /\ \A r, s \in Active(u) : r.key = s.key => r = s
      /\ \A p, q \in u.profiles : p.key = q.key => p = q
  BY <1>1 DEF Constraints, Active
<1>4. \A p \in u.profiles : \E r \in u.rows : r.id = p.id /\ r.key = p.key /\ r.text = p.text
  BY <1>1 DEF Constraints
<1>5. \A r \in Active(u) :
        r.type = "user_profile" => [key |-> r.key, id |-> r.id, text |-> r.text] \in u.profiles
  BY <1>1 DEF Constraints, Active
<1>6. Constraints(u)
  BY <1>3, <1>4, <1>5 DEF Constraints
<1> QED  BY <1>1, <1>2, <1>6 DEF u

LEMMA EmptyKeeps == EmptyStore \in Database /\ Constraints(EmptyStore) /\ EmptyStore.rows = {}
BY DEF EmptyStore, Database, Constraints, Active

-----------------------------------------------------------------------------
(* The tables.                                                             *)

LEMMA ClaimIsStorable ==
  ASSUME NEW c \in Claims, Evaluate(c) # "reject"
  PROVE  Storable(c) /\ (Evaluate(c) = "save" => c.sens = "normal")
BY MemoryAssumption DEF Evaluate, Storable, Keys, Texts

(* What waits for a confirmation is sensitive and no credential; a row that *)
(* is sensitive was confirmed.                                             *)
TableInv ==
  /\ db \in Database /\ Constraints(db)
  /\ pending \subseteq [msg : Message, claim : Claims]
  /\ \A x \in pending : Evaluate(x.claim) = "confirmation_required"
  /\ RowsAreConfirmed /\ consent \subseteq Texts
  /\ task \in [Message -> [pc : {"none", "analyze", "next", "store", "done"}, claims : SUBSET Claims]]
  /\ request \in [Request -> [pc : {"idle", "lock", "thread", "cancel", "drain", "invalidate", "done"},
                              op : Ops \cup {NoOp}]]

tableVars == <<db, pending, consent, task, request>>

(* The steps of the tasks. *)
LEMMA TableTask == ASSUME TableInv, NEW m \in Message, TaskStep(m) PROVE TableInv'
<1>1. CASE Analyze(m)
  <2>1. PICK cs \in Proposals \cup {{}} : task' = [task EXCEPT ![m] = [pc |-> "next", claims |-> cs]]
    BY <1>1 DEF Analyze
  <2>2. cs \subseteq Claims
    BY <2>1 DEF Claims
  <2> QED  BY <1>1, <2>1, <2>2 DEF Analyze, TaskFrame, consentVars, TableInv, RowsAreConfirmed
<1>2. CASE NextClaim(m) \/ Interrupted(m)
  BY <1>2 DEF NextClaim, Interrupted, EndTask, TaskFrame, consentVars, TableInv, RowsAreConfirmed
<1>3. CASE Consider(m)
  <2>1. PICK c \in task[m].claims :
          /\ CASE ~ltm \/ Evaluate(c) = "reject" -> UNCHANGED <<db, pending>>
               [] ltm /\ Evaluate(c) = "confirmation_required" ->
                      pending' = pending \cup {[msg |-> m, claim |-> c]} /\ UNCHANGED db
               [] ltm /\ Evaluate(c) = "save" -> Save(c) /\ UNCHANGED pending
          /\ IF m \in throw \/ (ltm /\ Evaluate(c) = "save" /\ TypeConflict(db, c))
             THEN EndTask(m)
             ELSE /\ task' = [task EXCEPT ![m] = [pc |-> "next", claims |-> @.claims \ {c}]]
                  /\ UNCHANGED throw
    BY <1>3 DEF Consider
  <2>2. c \in Claims
    BY <2>1 DEF TableInv
  <2>3. /\ task' \in [Message -> [pc : {"none", "analyze", "next", "store", "done"},
                                  claims : SUBSET Claims]]
        /\ request' = request /\ consent' = consent
    BY <1>3, <2>1 DEF EndTask, Consider, TaskFrame, consentVars, TableInv
  <2>4. Evaluate(c) \in {"reject", "confirmation_required", "save"}
    BY DEF Evaluate
  <2>5. CASE UNCHANGED <<db, pending>>
    BY <2>3, <2>5 DEF TableInv, RowsAreConfirmed
  <2>6. CASE Evaluate(c) = "confirmation_required" /\ UNCHANGED db
             /\ pending' = pending \cup {[msg |-> m, claim |-> c]}
    BY <2>2, <2>3, <2>6 DEF TableInv, RowsAreConfirmed
  <2>7. CASE Evaluate(c) = "save" /\ Save(c) /\ UNCHANGED pending
    <3>1. PICK id \in MemoryId : id \notin {r.id : r \in db.rows} /\ db' = Upsert(db, c, id)
      BY <2>7 DEF Save
    <3>2. FreshFor(db, id) /\ Storable(c) /\ c.sens = "normal"
      BY <2>2, <2>7, <3>1, ClaimIsStorable DEF FreshFor
    <3>3. /\ db' \in Database /\ Constraints(db')
          /\ \A r \in db'.rows : \/ \E s \in db.rows : s.text = r.text /\ s.sens = r.sens
                                 \/ r.text = c.text /\ r.sens = c.sens
      BY <3>1, <3>2, UpsertKeeps DEF TableInv
    <3> QED  BY <2>3, <2>7, <3>2, <3>3 DEF TableInv, RowsAreConfirmed
  <2> QED  BY <2>1, <2>4, <2>5, <2>6, <2>7
<1> QED  BY <1>1, <1>2, <1>3 DEF TaskStep

(* The steps of the requests. *)
LEMMA UpdateHasEdit ==
  ASSUME NEW o \in Ops, o.op = "update" PROVE o.id \in MemoryId /\ o.edit \in Edits
<1>1. o \in {[op |-> "update", id |-> i, edit |-> e] : i \in MemoryId, e \in Edits}
  BY DEF Ops
<1>2. PICK i \in MemoryId, e \in Edits : o = [op |-> "update", id |-> i, edit |-> e]
  BY <1>1
<1> QED  BY <1>2

LEMMA TableRequest ==
  ASSUME TableInv, NEW r \in Request, Begin(r) \/ RequestStep(r) PROVE TableInv'
<1>0. \A pc \in {"idle", "lock", "thread", "cancel", "drain", "invalidate", "done"} :
        Step(r, pc) => request' \in
          [Request -> [pc : {"idle", "lock", "thread", "cancel", "drain", "invalidate", "done"},
                       op : Ops \cup {NoOp}]]
  BY DEF Step, TableInv
<1>1. CASE Begin(r)
  BY <1>1 DEF Begin, dataVars, taskVars, consentVars, TableInv, RowsAreConfirmed
<1>2. CASE LockFeatures(r) \/ CancelActive(r) \/ Invalidate(r)
  BY <1>0, <1>2 DEF LockFeatures, CancelActive, Invalidate, dataVars, taskVars, consentVars, TableInv,
                    RowsAreConfirmed
<1>3. CASE SetLongTerm(r) \/ Finalize(r)
  <2>1. /\ pending' \subseteq pending /\ UNCHANGED <<db, consent, task>>
        /\ Step(r, "invalidate") \/ Step(r, "cancel")
    BY <1>3 DEF SetLongTerm, Finalize, taskVars, consentVars
  <2> QED  BY <1>0, <2>1 DEF TableInv, RowsAreConfirmed
<1>4. CASE SetHistory(r) \/ ClearHistory(r)
  BY <1>0, <1>4 DEF SetHistory, ClearHistory, Managed, CleanupRaises, ManageFrame, taskVars, consentVars,
                         TableInv, RowsAreConfirmed
<1>5. CASE Delete(r)
  <2>1. /\ db' = DeleteRows(db, {request[r].op.id}) /\ UNCHANGED <<pending, consent, task>>
        /\ Step(r, "invalidate") \/ Step(r, "done")
    BY <1>5 DEF Delete, Managed, CleanupRaises, ManageFrame, taskVars, consentVars
  <2>2. db' \in Database /\ Constraints(db') /\ db'.rows \subseteq db.rows
    BY <2>1, DeleteKeeps DEF TableInv
  <2> QED  BY <1>0, <2>1, <2>2 DEF TableInv, RowsAreConfirmed
<1>6. CASE Clear(r)
  <2>1. /\ db' = EmptyStore /\ pending' = {} /\ UNCHANGED <<consent, task>>
        /\ Step(r, "invalidate") \/ Step(r, "done")
    BY <1>6 DEF Clear, Managed, CleanupRaises, ManageFrame, taskVars, consentVars
  <2> QED  BY <1>0, <2>1, EmptyKeeps DEF TableInv, RowsAreConfirmed
<1>7. CASE Update(r)
  <2>0. UNCHANGED <<pending, task>> /\ (Step(r, "invalidate") \/ Step(r, "done"))
    BY <1>7 DEF Update, ManageFrame, taskVars
  <2>1. CASE UNCHANGED <<db, consent>>
    BY <1>0, <2>0, <2>1 DEF TableInv, RowsAreConfirmed
  <2>2. CASE ~UNCHANGED <<db, consent>>
    <3> DEFINE o == request[r].op
    <3>1. /\ o.edit.sens # "credential" /\ CanUpdate(db, o.id, o.edit.text)
          /\ db' = UpdateContent(db, o.id, o.edit.text, o.edit.sens)
          /\ consent' = consent \cup {o.edit.text}
          /\ o.op = "update"
      BY <1>7, <2>2 DEF Update
    <3>2. o \in Ops
      BY <3>1 DEF TableInv, NoOp
    <3>3. o.id \in MemoryId /\ o.edit \in Edits
      BY <3>1, <3>2, UpdateHasEdit
    <3>4. o.edit.text \in Texts /\ o.edit.sens \in Sensitivities \ {"credential"}
      BY <3>1, <3>3, MemoryAssumption DEF Texts
    <3> HIDE DEF o
    <3>5. /\ db' \in Database /\ Constraints(db')
          /\ \A x \in db'.rows : (\E s \in db.rows : s.text = x.text /\ s.sens = x.sens)
                                 \/ x.text = o.edit.text
      BY <3>1, <3>3, <3>4, UpdateKeeps DEF TableInv
    <3> QED  BY <1>0, <2>0, <3>1, <3>4, <3>5 DEF TableInv, RowsAreConfirmed
  <2> QED  BY <2>1, <2>2
<1>8. CASE Confirm(r)
  <2>0. UNCHANGED task /\ (Step(r, "invalidate") \/ Step(r, "done")) /\ pending' \subseteq pending
    BY <1>8 DEF Confirm, Answer, ConfirmFrame, ManageFrame, taskVars, consentVars
  <2>1. CASE UNCHANGED <<db, consent>>
    BY <1>0, <2>0, <2>1 DEF TableInv, RowsAreConfirmed
  <2>2. CASE ~UNCHANGED <<db, consent>>
    <3>1. PICK x \in pending : Save(x.claim) /\ consent' = consent \cup {x.claim.text}
      BY <1>8, <2>2 DEF Confirm, Answer, consentVars
    <3>2. x.claim \in Claims /\ Evaluate(x.claim) = "confirmation_required"
      BY <3>1 DEF TableInv
    <3>3. Storable(x.claim)
      BY <3>2, ClaimIsStorable
    <3>4. PICK id \in MemoryId : id \notin {y.id : y \in db.rows} /\ db' = Upsert(db, x.claim, id)
      BY <3>1 DEF Save
    <3>5. FreshFor(db, id)
      BY <3>4 DEF FreshFor
    <3>6. /\ db' \in Database /\ Constraints(db')
          /\ \A y \in db'.rows : \/ \E s \in db.rows : s.text = y.text /\ s.sens = y.sens
                                 \/ y.text = x.claim.text /\ y.sens = x.claim.sens
      BY <3>3, <3>4, <3>5, UpsertKeeps DEF TableInv
    <3>7. x.claim.text \in Texts
      BY <3>3 DEF Storable
    <3> QED  BY <1>0, <2>0, <3>1, <3>6, <3>7 DEF TableInv, RowsAreConfirmed
  <2> QED  BY <2>1, <2>2
<1> QED  BY <1>1, <1>2, <1>3, <1>4, <1>5, <1>6, <1>7, <1>8 DEF RequestStep

LEMMA TableStep == TableInv /\ [Next]_vars => TableInv'
<1> SUFFICES ASSUME TableInv, [Next]_vars PROVE TableInv'
  OBVIOUS
<1>1. ASSUME NEW p \in Prompt, PromptStep(p) PROVE TableInv'
  BY <1>1 DEF PromptStep, ReadEpoch, BuildHistory, BuildProfiles, BuildMemories, CheckEpoch,
              PromptVars, dataVars, taskVars, consentVars, TableInv, RowsAreConfirmed
<1>2. ASSUME NEW m \in Message, OnUserAccepted(m) \/ OnTurnCompleted(m) \/ Submit(m)
      PROVE  TableInv'
  <2>1. /\ UNCHANGED <<db, pending, consent, request>>
        /\ task' = task \/ task' = [task EXCEPT ![m].pc = "analyze"]
    BY <1>2 DEF OnUserAccepted, OnTurnCompleted, Submit, TurnFrame, consentVars
  <2> QED  BY <2>1 DEF TableInv, RowsAreConfirmed
<1>3. CASE Prune \/ Close \/ CloseDrained \/ UNCHANGED vars
  <2>1. pending' \subseteq pending /\ UNCHANGED <<db, consent, task, request>>
    BY <1>3 DEF Prune, Close, CloseDrained, vars, dataVars, taskVars, consentVars
  <2> QED  BY <2>1 DEF TableInv, RowsAreConfirmed
<1> QED  BY <1>1, <1>2, <1>3, TableTask, TableRequest DEF Next

LEMMA TableInit == Init => TableInv
<1> SUFFICES ASSUME Init PROVE TableInv
  OBVIOUS
<1>1. PICK s \in Stores :
        /\ db = s.db
        /\ consent = {r.text : r \in {x \in s.db.rows : x.sens # "normal"}}
  BY DEF Init
<1>2. db \in Database /\ Constraints(db)
  BY <1>1, MemoryAssumption
<1>3. RowsAreConfirmed /\ consent \subseteq Texts
  BY <1>1 DEF RowsAreConfirmed, Texts
<1> QED  BY <1>2, <1>3 DEF Init, TableInv

(* Every transaction keeps the constraints of the schema, so that no upsert *)
(* or edit fails on an index, and no row holds a credential; a claim that  *)
(* waits for a confirmation needs one.                                     *)
THEOREM TableInvCorrect == MemSpec => []TableInv
BY TableInit, TableStep, PTL DEF MemSpec

(* A slot has one active memory, and a profile repeats its memory: upsert, *)
(* edits and deletions keep the two tables in step.                        *)
THEOREM SlotHasOneValueCorrect == MemSpec => []SlotHasOneValue
<1>1. TableInv => SlotHasOneValue
  <2> SUFFICES ASSUME Constraints(db) PROVE SlotHasOneValue
    BY DEF TableInv
  <2>1. ASSUME NEW r \in Active(db), r.type = "user_profile"
        PROVE  {p \in db.profiles : p.key = r.key} = {[key |-> r.key, id |-> r.id, text |-> r.text]}
    <3> DEFINE w == [key |-> r.key, id |-> r.id, text |-> r.text]
    <3>1. w \in db.profiles /\ w.key = r.key
      BY <2>1 DEF Constraints
    <3>2. \A p \in db.profiles : p.key = w.key => p = w
      BY <3>1 DEF Constraints
    <3> HIDE DEF w
    <3>3. {p \in db.profiles : p.key = r.key} = {w}
      BY <3>1, <3>2
    <3> QED  BY <3>3 DEF w
  <2> QED  BY <2>1 DEF Constraints, SlotHasOneValue
<1> QED  BY <1>1, TableInvCorrect, PTL

-----------------------------------------------------------------------------
(* The confirmations.                                                      *)

(* A claim waits for a confirmation only after its task has dealt with it, *)
(* and a task deals with a claim once: what was answered is not asked for  *)
(* again.                                                                  *)
AnswerInv ==
  /\ answered \subseteq [msg : Message, claim : Claims]
  /\ pending \cap answered = {}
  /\ \A x \in pending \cup answered :
        task[x.msg].pc \notin {"none", "analyze"} /\ x.claim \notin task[x.msg].claims
  /\ \A m \in Message : turn[m] # "over" => task[m].pc = "none"
  /\ turn \in [Message -> {"idle", "accepted", "replied", "over"}]

(* A step that asks for nothing and leaves the tasks alone. *)
LEMMA AnswerFrame ==
  ASSUME AnswerInv, UNCHANGED <<task, turn, answered>>, pending' \subseteq pending
  PROVE  AnswerInv'
BY DEF AnswerInv

LEMMA AnswerTurn ==
  ASSUME TableInv, AnswerInv, NEW m \in Message,
         OnUserAccepted(m) \/ OnTurnCompleted(m) \/ Submit(m)
  PROVE  AnswerInv'
<1>1. UNCHANGED <<pending, answered>>
  BY DEF OnUserAccepted, OnTurnCompleted, Submit, TurnFrame, consentVars
<1>2. turn[m] # "over" /\ task[m].pc = "none"
  BY DEF AnswerInv, OnUserAccepted, OnTurnCompleted, Submit
<1>3. \A x \in pending \cup answered : x.msg \in Message /\ x.msg # m
  BY <1>2 DEF AnswerInv, TableInv
<1>4. \A n \in Message : n # m => task'[n] = task[n] /\ turn'[n] = turn[n]
  BY DEF OnUserAccepted, OnTurnCompleted, Submit, TableInv, AnswerInv
<1>5. turn' \in [Message -> {"idle", "accepted", "replied", "over"}]
  BY DEF OnUserAccepted, OnTurnCompleted, Submit, AnswerInv
<1>6. turn'[m] # "over" => task'[m].pc = "none"
  BY <1>2 DEF OnUserAccepted, OnTurnCompleted, Submit, AnswerInv
<1> QED  BY <1>1, <1>3, <1>4, <1>5, <1>6 DEF AnswerInv

LEMMA AnswerTask ==
  ASSUME TableInv, AnswerInv, NEW m \in Message, TaskStep(m) PROVE AnswerInv'
<1>1. UNCHANGED <<turn, answered>> /\ task[m].pc \notin {"none", "done"}
  BY DEF TaskStep, Analyze, NextClaim, Interrupted, Consider, TaskFrame, consentVars
<1>2. \A n \in Message : n # m => task'[n] = task[n]
  BY DEF TaskStep, Analyze, NextClaim, Interrupted, Consider, EndTask, TableInv
<1>3. task'[m].pc # "none" /\ turn[m] = "over"
  <2>1. task'[m].pc # "none"
    <3>1. CASE Analyze(m) \/ NextClaim(m)
      BY <3>1 DEF Analyze, NextClaim, EndTask, TableInv
    <3>2. CASE Interrupted(m)
      BY <3>2 DEF Interrupted, EndTask, TableInv
    <3>3. CASE Consider(m)
      <4>1. EndTask(m) \/ \E cs : task' = [task EXCEPT ![m] = [pc |-> "next", claims |-> cs]]
        BY <3>3 DEF Consider
      <4> QED  BY <4>1 DEF EndTask, TableInv
    <3> QED  BY <3>1, <3>2, <3>3 DEF TaskStep
  <2>2. turn[m] = "over"
    BY <1>1 DEF AnswerInv
  <2> QED  BY <2>1, <2>2
<1>4. CASE Analyze(m)
  <2>1. \A x \in pending \cup answered : x.msg \in Message /\ x.msg # m
    BY <1>4 DEF AnswerInv, TableInv, Analyze
  <2>2. UNCHANGED pending
    BY <1>4 DEF Analyze
  <2> QED  BY <1>1, <1>2, <1>3, <2>1, <2>2 DEF AnswerInv
<1>5. CASE NextClaim(m) \/ Interrupted(m)
  <2>1. UNCHANGED pending
    BY <1>5 DEF NextClaim, Interrupted
  <2>2. task'[m].pc \in {"store", "done"} /\ task'[m].claims \subseteq task[m].claims
    BY <1>5 DEF NextClaim, Interrupted, EndTask, TableInv
  <2>3. \A x \in pending \cup answered : x.msg \in Message
    BY DEF AnswerInv, TableInv
  <2> QED  BY <1>1, <1>2, <1>3, <2>1, <2>2, <2>3 DEF AnswerInv
<1>6. CASE Consider(m)
  <2>1. PICK c \in task[m].claims :
          /\ pending' \subseteq pending \cup {[msg |-> m, claim |-> c]}
          /\ \/ EndTask(m)
             \/ task' = [task EXCEPT ![m] = [pc |-> "next", claims |-> @.claims \ {c}]]
    <3>1. PICK c \in task[m].claims :
          /\ CASE ~ltm \/ Evaluate(c) = "reject" -> UNCHANGED <<db, pending>>
               [] ltm /\ Evaluate(c) = "confirmation_required" ->
                      pending' = pending \cup {[msg |-> m, claim |-> c]} /\ UNCHANGED db
               [] ltm /\ Evaluate(c) = "save" -> Save(c) /\ UNCHANGED pending
          /\ IF m \in throw \/ (ltm /\ Evaluate(c) = "save" /\ TypeConflict(db, c))
             THEN EndTask(m)
             ELSE /\ task' = [task EXCEPT ![m] = [pc |-> "next", claims |-> @.claims \ {c}]]
                  /\ UNCHANGED throw
      BY <1>6 DEF Consider
    <3>2. Evaluate(c) \in {"reject", "confirmation_required", "save"}
      BY DEF Evaluate
    <3>3. pending' \subseteq pending \cup {[msg |-> m, claim |-> c]}
      BY <3>1, <3>2
    <3> QED  BY <3>1, <3>3
  <2>2. /\ task'[m].pc \in {"next", "done"}
        /\ task'[m].claims \subseteq task[m].claims /\ c \notin task'[m].claims
    BY <2>1 DEF EndTask, TableInv
  <2>3. [msg |-> m, claim |-> c] \notin answered
    BY <2>1 DEF AnswerInv
  <2>4. \A x \in pending \cup answered : x.msg \in Message
    BY DEF AnswerInv, TableInv
  <2>5. pending' \cap answered' = {}
    BY <1>1, <2>1, <2>3 DEF AnswerInv
  <2>6. \A x \in pending' \cup answered' :
          task'[x.msg].pc \notin {"none", "analyze"} /\ x.claim \notin task'[x.msg].claims
    <3>1. ASSUME NEW x \in pending \cup answered
          PROVE  task'[x.msg].pc \notin {"none", "analyze"} /\ x.claim \notin task'[x.msg].claims
      BY <1>2, <2>2, <2>4, <3>1 DEF AnswerInv
    <3> QED  BY <1>1, <2>1, <2>2, <3>1
  <2> QED  BY <1>1, <1>2, <1>3, <2>5, <2>6 DEF AnswerInv
<1> QED  BY <1>4, <1>5, <1>6 DEF TaskStep

LEMMA AnswerRequest ==
  ASSUME TableInv, AnswerInv, NEW r \in Request, Begin(r) \/ RequestStep(r) PROVE AnswerInv'
<1>1. UNCHANGED <<task, turn>>
  BY DEF Begin, RequestStep, LockFeatures, SetLongTerm, CancelActive, Finalize, SetHistory,
         Delete, Update, Clear, ClearHistory, Confirm, ConfirmFrame, Invalidate, ManageFrame,
         taskVars
<1>2. CASE Confirm(r)
  <2>1. UNCHANGED <<pending, answered>>
        \/ \E x \in pending : pending' = pending \ {x} /\ answered' = answered \cup {x}
    BY <1>2 DEF Confirm, Answer, consentVars
  <2> QED  BY <1>1, <2>1 DEF AnswerInv, TableInv
<1>3. CASE ~Confirm(r)
  <2>1. UNCHANGED answered /\ pending' \subseteq pending
    BY <1>3 DEF Begin, RequestStep, LockFeatures, SetLongTerm, CancelActive, Finalize, SetHistory,
           Delete, Update, Clear, ClearHistory, Invalidate, dataVars, consentVars
  <2> QED  BY <1>1, <2>1, AnswerFrame
<1> QED  BY <1>2, <1>3

LEMMA AnswerStep == TableInv /\ AnswerInv /\ [Next]_vars => AnswerInv'
<1> SUFFICES ASSUME TableInv, AnswerInv, [Next]_vars PROVE AnswerInv'
  OBVIOUS
<1>1. ASSUME NEW p \in Prompt, PromptStep(p) PROVE AnswerInv'
  BY <1>1, AnswerFrame DEF PromptStep, ReadEpoch, BuildHistory, BuildProfiles, BuildMemories,
     CheckEpoch, PromptVars, dataVars, taskVars, consentVars
<1>2. CASE Prune \/ Close \/ CloseDrained \/ UNCHANGED vars
  BY <1>2, AnswerFrame DEF Prune, Close, CloseDrained, vars, dataVars, taskVars, consentVars
<1> QED  BY <1>1, <1>2, AnswerTurn, AnswerTask, AnswerRequest DEF Next

(* A confirmation that was answered is never pending again, whatever tasks *)
(* and requests do.                                                        *)
THEOREM AnswerInvCorrect == MemSpec => [](TableInv /\ AnswerInv)
<1>1. Init => AnswerInv
  BY DEF Init, AnswerInv
<1> QED  BY <1>1, AnswerStep, TableInvCorrect, PTL DEF MemSpec

(* A sensitive fact is stored only after the user has confirmed or written *)
(* it, in this run of the program or in an earlier one; and a confirmation *)
(* is good for one storage at most.                                        *)
THEOREM SensitiveIsConfirmedCorrect == MemSpec => []SensitiveIsConfirmed
<1>1. TableInv /\ AnswerInv => SensitiveIsConfirmed
  BY DEF TableInv, AnswerInv, SensitiveIsConfirmed
<1> QED  BY <1>1, AnswerInvCorrect, PTL

-----------------------------------------------------------------------------
(* The switch of long-term memory.                                         *)

(* While the switch is off nothing waits for a confirmation, and tasks are *)
(* left only to the request that has the feature lock and drains them.     *)
SwitchInv ==
  /\ ltm \in BOOLEAN /\ hist \in BOOLEAN
  /\ ~ltm => pending = {}
  /\ ~ltm /\ (\A r \in Request : request[r].pc \notin {"cancel", "drain"})
       => \A m \in Message : ~Running(m)
  /\ \A r \in Request :
       /\ request[r].pc = "lock" => request[r].op.op \in {"ltm", "hist"}
       /\ request[r].pc \in {"cancel", "drain"} => featureLock = r
       /\ request[r].pc = "thread" /\ request[r].op.op \in {"ltm", "hist"} => featureLock = r

LEMMA SwitchHasFlag == ASSUME NEW o \in Ops, o.op \in {"ltm", "hist"} PROVE o.on \in BOOLEAN
<1>1. o \in {[op |-> "ltm", on |-> b] : b \in BOOLEAN} \cup {[op |-> "hist", on |-> b] : b \in BOOLEAN}
  BY DEF Ops
<1>2. PICK b \in BOOLEAN : o = [op |-> "ltm", on |-> b] \/ o = [op |-> "hist", on |-> b]
  BY <1>1
<1> QED  BY <1>2

(* A step that starts no task and adds no confirmation while the switch is *)
(* off, and is not one of the switch.                                      *)
LEMMA SwitchFrame ==
  ASSUME SwitchInv, UNCHANGED <<ltm, hist, request, featureLock>>,
         ~ltm => pending' \subseteq pending,
         ~ltm => \A m \in Message : Running(m)' => Running(m)
  PROVE  SwitchInv'
BY DEF SwitchInv

LEMMA SwitchTask ==
  ASSUME TableInv, SwitchInv, NEW m \in Message, TaskStep(m) PROVE SwitchInv'
<1>1. UNCHANGED <<ltm, hist, request, featureLock>>
  BY DEF TaskStep, Analyze, NextClaim, Interrupted, Consider, TaskFrame
<1>2. ~ltm => pending' \subseteq pending
  <2>1. CASE Consider(m)
    BY <2>1 DEF Consider
  <2>2. CASE ~Consider(m)
    BY <2>2 DEF TaskStep, Analyze, NextClaim, Interrupted
  <2> QED  BY <2>1, <2>2
<1>3. Running(m) /\ \A n \in Message : n # m => task'[n] = task[n]
  BY DEF TaskStep, Analyze, NextClaim, Interrupted, Consider, EndTask, Running, TableInv
<1>4. \A n \in Message : Running(n)' => Running(n)
  BY <1>3 DEF Running
<1> QED  BY <1>1, <1>2, <1>4, SwitchFrame

LEMMA SwitchTurn ==
  ASSUME TableInv, SwitchInv, NEW m \in Message, OnUserAccepted(m) \/ OnTurnCompleted(m) \/ Submit(m)
  PROVE  SwitchInv'
<1>1. UNCHANGED <<ltm, hist, request, featureLock, pending>>
  BY DEF OnUserAccepted, OnTurnCompleted, Submit, TurnFrame
<1>2. ~ltm => UNCHANGED task
  BY DEF OnUserAccepted, OnTurnCompleted, Submit
<1>3. ~ltm => \A n \in Message : Running(n)' => Running(n)
  BY <1>2 DEF Running
<1> QED  BY <1>1, <1>3, SwitchFrame

LEMMA StepIs ==
  ASSUME TableInv, NEW r \in Request, NEW pc, Step(r, pc)
  PROVE  /\ request'[r].pc = pc /\ (pc # "done" => request'[r].op = request[r].op)
         /\ \A x \in Request : x # r => request'[x] = request[x]
BY DEF Step, TableInv

LEMMA SwitchRequest ==
  ASSUME TableInv, SwitchInv, NEW r \in Request, Begin(r) \/ RequestStep(r) PROVE SwitchInv'
<1>0. None \notin Request
  BY MemoryAssumption
<1>1. CASE Begin(r)
  <2>1. PICK o \in Ops : request' = [request EXCEPT ![r] =
                            [pc |-> IF o.op \in {"ltm", "hist"} THEN "lock" ELSE "thread", op |-> o]]
    BY <1>1 DEF Begin
  <2>2. /\ request'[r].op = o
        /\ request'[r].pc = IF o.op \in {"ltm", "hist"} THEN "lock" ELSE "thread"
        /\ \A x \in Request : x # r => request'[x] = request[x]
    BY <2>1 DEF TableInv
  <2> QED  BY <1>1, <2>2 DEF Begin, dataVars, taskVars, SwitchInv, Running
<1>2. CASE LockFeatures(r)
  BY <1>0, <1>2, StepIs DEF LockFeatures, dataVars, taskVars, SwitchInv, Running
<1>3. CASE SetLongTerm(r)
  <2>1. request[r].op \in Ops
    BY <1>3 DEF SetLongTerm, TableInv, NoOp
  <2>2. /\ featureLock = r /\ request[r].op.on \in BOOLEAN
        /\ UNCHANGED <<task, hist, featureLock>>
        /\ ltm' = request[r].op.on
        /\ pending' = IF ltm' THEN pending ELSE {}
        /\ Step(r, IF ltm' THEN "invalidate" ELSE "cancel")
    BY <1>3, <2>1, SwitchHasFlag DEF SetLongTerm, taskVars, SwitchInv
  <2>3. request'[r].pc = IF ltm' THEN "invalidate" ELSE "cancel"
    BY <2>2, StepIs
  <2>4. \A x \in Request : x # r => request'[x] = request[x]
    BY <2>2, StepIs
  <2> QED  BY <2>2, <2>3, <2>4 DEF SwitchInv
<1>4. CASE CancelActive(r)
  BY <1>4, StepIs DEF CancelActive, dataVars, taskVars, SwitchInv, Running
<1>5. CASE Finalize(r)
  <2>1. /\ pending' = (IF ltm THEN pending ELSE {})
        /\ \A m \in Message : ~Running(m)'
        /\ UNCHANGED <<ltm, hist, featureLock>> /\ Step(r, "invalidate")
    BY <1>5 DEF Finalize, taskVars, Running
  <2> QED  BY <2>1, StepIs DEF SwitchInv
<1>6. CASE SetHistory(r)
  <2>1. request[r].op \in Ops
    BY <1>6 DEF SetHistory, TableInv, NoOp
  <2>2. /\ request[r].op.on \in BOOLEAN /\ hist' = request[r].op.on /\ Step(r, "invalidate")
        /\ request[r].pc = "thread" /\ UNCHANGED <<ltm, pending, task, featureLock>>
    BY <1>6, <2>1, SwitchHasFlag DEF SetHistory, taskVars
  <2> QED  BY <2>2, StepIs DEF SwitchInv, Running
<1>7. CASE Delete(r) \/ Update(r) \/ Clear(r) \/ ClearHistory(r) \/ Confirm(r)
  <2>1. /\ UNCHANGED <<ltm, hist, task, featureLock>> /\ pending' \subseteq pending
        /\ Step(r, "invalidate") \/ Step(r, "done")
        /\ request[r].pc = "thread"
    BY <1>7 DEF Delete, Update, Clear, ClearHistory, Managed, CleanupRaises, Confirm, Answer,
               ConfirmFrame, ManageFrame, taskVars
  <2>2. /\ request'[r].pc \in {"invalidate", "done"}
        /\ \A x \in Request : x # r => request'[x] = request[x]
    BY <2>1, StepIs
  <2> QED  BY <2>1, <2>2 DEF SwitchInv, Running
<1>8. CASE Invalidate(r)
  <2>1. /\ UNCHANGED <<ltm, hist, task, pending>> /\ Step(r, "done")
        /\ featureLock' = (IF featureLock = r THEN None ELSE featureLock)
        /\ request[r].pc = "invalidate"
    BY <1>8 DEF Invalidate, taskVars
  <2>2. /\ request'[r].pc = "done"
        /\ \A x \in Request : x # r => request'[x] = request[x]
    BY <2>1, StepIs
  <2> QED  BY <2>1, <2>2 DEF SwitchInv, Running
<1> QED  BY <1>1, <1>2, <1>3, <1>4, <1>5, <1>6, <1>7, <1>8 DEF RequestStep

LEMMA SwitchStep == TableInv /\ SwitchInv /\ [Next]_vars => SwitchInv'
<1> SUFFICES ASSUME TableInv, SwitchInv, [Next]_vars PROVE SwitchInv'
  OBVIOUS
<1>1. ASSUME NEW p \in Prompt, PromptStep(p) PROVE SwitchInv'
  BY <1>1 DEF PromptStep, ReadEpoch, BuildHistory, BuildProfiles, BuildMemories, CheckEpoch,
              PromptVars, dataVars, taskVars, SwitchInv, Running
<1>2. CASE Prune \/ Close \/ CloseDrained \/ UNCHANGED vars
  <2>1. UNCHANGED <<ltm, hist, request, featureLock, task>> /\ pending' \subseteq pending
    BY <1>2 DEF Prune, Close, CloseDrained, vars, dataVars, taskVars
  <2> QED  BY <2>1, SwitchFrame DEF Running
<1> QED  BY <1>1, <1>2, SwitchTask, SwitchTurn, SwitchRequest DEF Next

(* The switch of long-term memory is a barrier: set_enabled, the drain and *)
(* the finalization of one request are not undone by another.              *)
THEOREM SwitchInvCorrect == MemSpec => [](TableInv /\ SwitchInv)
<1>1. Init => SwitchInv
  BY MemoryAssumption DEF Init, SwitchInv, Running
<1> QED  BY <1>1, SwitchStep, TableInvCorrect, PTL DEF MemSpec

(* 关闭时不读、不写，也不产生后台候选: once the switch is through nothing is     *)
(* analysed or stored and nothing waits for a confirmation.                *)
THEOREM OffMeansQuietCorrect == MemSpec => []OffMeansQuiet
<1>1. SwitchInv => OffMeansQuiet
  BY MemoryAssumption DEF SwitchInv, OffMeansQuiet
<1> QED  BY <1>1, SwitchInvCorrect, PTL

-----------------------------------------------------------------------------
(* The epochs of the prompts.                                              *)

(* What a request took out of sight is in no snapshot of the epoch: a       *)
(* snapshot that was begun before has an older epoch, one that is begun     *)
(* afterwards reads what is visible.  Only a deletion that raised leaves    *)
(* the epoch as it is: what it deleted is what a snapshot then misses.      *)
PromptTypes ==
  /\ history \subseteq [id : Message, text : {"user", "assistant"}]
  /\ epoch \in Nat /\ gone \subseteq Item /\ took \in [Request -> SUBSET Item]
  /\ prompt \in [Prompt -> [pc : {"idle", "history", "profiles", "memories", "built", "retry", "done"},
                            epoch : Nat, items : SUBSET Item, missed : SUBSET Item]]

PromptIsFresh(p) ==
  /\ prompt[p].epoch <= epoch
  /\ prompt[p].pc \in {"profiles", "memories", "built"} /\ prompt[p].epoch = epoch
       => prompt[p].items \cap gone \subseteq prompt[p].missed

PromptInv ==
  /\ PromptTypes
  /\ gone \cap Visible = {}
  /\ \A r \in Request : request[r].pc \in {"idle", "lock", "thread"} => took[r] = {}
  /\ \A p \in Prompt : PromptIsFresh(p)

LEMMA ItemsAre ==
  ASSUME TableInv, PromptTypes
  PROVE  /\ ProfileItems(db) \subseteq Item /\ MemoryItems(db, ProfileItems(db)) \subseteq Item
         /\ history \subseteq Item /\ Visible \subseteq Item
<1>1. db.rows \subseteq Rows /\ db.profiles \subseteq Profiles
  BY DEF TableInv, Database
<1>2. ProfileItems(db) \subseteq Item
  BY <1>1 DEF ProfileItems, Profiles, Item
<1>3. MemoryItems(db, ProfileItems(db)) \subseteq Item
  BY <1>1 DEF MemoryItems, Active, Rows, Item
<1>4. history \subseteq Item
  BY DEF PromptTypes, Item
<1> QED  BY <1>2, <1>3, <1>4 DEF Visible

(* A step that takes only out of gone, or puts nothing into it. *)
LEMMA PromptFrame ==
  ASSUME PromptInv, UNCHANGED <<prompt, epoch>>,
         history' \subseteq [id : Message, text : {"user", "assistant"}],
         gone' \subseteq gone, gone' \cap Visible' = {},
         took' \in [Request -> SUBSET Item],
         \A r \in Request : request'[r].pc \in {"idle", "lock", "thread"} => took'[r] = {}
  PROVE  PromptInv'
<1>1. PromptTypes'
  BY DEF PromptInv, PromptTypes
<1>2. \A p \in Prompt : PromptIsFresh(p)'
  BY DEF PromptInv, PromptIsFresh
<1> QED  BY <1>1, <1>2 DEF PromptInv

LEMMA TrackIs ==
  ASSUME Track, \A r \in Request : ~Ended(r) /\ Ended(r)' => took[r] = {}
  PROVE  gone' \subseteq gone /\ gone' \cap Visible' = {}
BY DEF Track

(* A section that starts a snapshot, or adds to one, puts in what is visible. *)
LEMMA SectionStarts ==
  ASSUME PromptTypes, NEW p \in Prompt, NEW some \in SUBSET Item, some \cap gone = {},
         PromptIsFresh(p), prompt' = [prompt EXCEPT ![p].pc = "profiles", ![p].items = some]
  PROVE  /\ prompt' \in [Prompt -> [pc : {"idle", "history", "profiles", "memories", "built", "retry", "done"},
                                   epoch : Nat, items : SUBSET Item, missed : SUBSET Item]]
         /\ \A q \in Prompt : q # p => prompt'[q] = prompt[q]
         /\ prompt'[p].epoch <= epoch
         /\ prompt'[p].items \cap gone \subseteq prompt'[p].missed
<1> DEFINE Record == [pc : {"idle", "history", "profiles", "memories", "built", "retry", "done"},
                      epoch : Nat, items : SUBSET Item, missed : SUBSET Item]
<1>1. prompt \in [Prompt -> Record]
  BY DEF PromptTypes
<1>2. [prompt[p] EXCEPT !.pc = "profiles", !.items = some] \in Record
  BY <1>1
<1>3. prompt' = [prompt EXCEPT ![p] = [prompt[p] EXCEPT !.pc = "profiles", !.items = some]]
  OBVIOUS
<1>4. prompt'[p].epoch = prompt[p].epoch /\ prompt'[p].items = some
  BY <1>1
<1> HIDE DEF Record
<1>5. prompt' \in [Prompt -> Record] /\ \A q \in Prompt : q # p => prompt'[q] = prompt[q]
  BY <1>1, <1>2, <1>3
<1> QED  BY <1>4, <1>5 DEF PromptIsFresh, Record

LEMMA SectionAdds ==
  ASSUME PromptTypes, NEW p \in Prompt, NEW some \in SUBSET Item, some \cap gone = {},
         PromptIsFresh(p), prompt[p].pc \in {"profiles", "memories"},
         NEW pc \in {"memories", "built"},
         prompt' = [prompt EXCEPT ![p].pc = pc, ![p].items = @ \cup some]
  PROVE  /\ prompt' \in [Prompt -> [pc : {"idle", "history", "profiles", "memories", "built", "retry", "done"},
                                   epoch : Nat, items : SUBSET Item, missed : SUBSET Item]]
         /\ \A q \in Prompt : q # p => prompt'[q] = prompt[q]
         /\ prompt'[p].epoch <= epoch
         /\ prompt'[p].epoch = epoch => prompt'[p].items \cap gone \subseteq prompt'[p].missed
<1> DEFINE Record == [pc : {"idle", "history", "profiles", "memories", "built", "retry", "done"},
                      epoch : Nat, items : SUBSET Item, missed : SUBSET Item]
<1>1. prompt \in [Prompt -> Record]
  BY DEF PromptTypes
<1>2. [prompt[p] EXCEPT !.pc = pc, !.items = @ \cup some] \in Record
  BY <1>1
<1>3. prompt' = [prompt EXCEPT ![p] = [prompt[p] EXCEPT !.pc = pc, !.items = @ \cup some]]
  OBVIOUS
<1>4. /\ prompt'[p].epoch = prompt[p].epoch /\ prompt'[p].missed = prompt[p].missed
      /\ prompt'[p].items = prompt[p].items \cup some
  BY <1>1
<1> HIDE DEF Record
<1>5. prompt' \in [Prompt -> Record] /\ \A q \in Prompt : q # p => prompt'[q] = prompt[q]
  BY <1>1, <1>2, <1>3
<1>6. prompt'[p].epoch = epoch => prompt'[p].items \cap gone \subseteq prompt'[p].missed
  BY <1>4 DEF PromptIsFresh
<1>7. prompt'[p].epoch <= epoch
  BY <1>4 DEF PromptIsFresh
<1> QED  BY <1>5, <1>6, <1>7 DEF Record

LEMMA PromptPrompt ==
  ASSUME TableInv, PromptInv, NEW p \in Prompt, PromptStep(p) PROVE PromptInv'
<1>1. UNCHANGED <<db, history, ltm, hist, gone, epoch, took, request>>
  BY DEF PromptStep, ReadEpoch, BuildHistory, BuildProfiles, BuildMemories, CheckEpoch,
         PromptVars, dataVars
<1>2. UNCHANGED Visible
  BY <1>1 DEF Visible
<1>3. PromptTypes
  BY DEF PromptInv
<1> DEFINE new == prompt'[p]
<1>4. /\ prompt' \in [Prompt -> [pc : {"idle", "history", "profiles", "memories", "built", "retry", "done"},
                                 epoch : Nat, items : SUBSET Item, missed : SUBSET Item]]
      /\ \A q \in Prompt : q # p => prompt'[q] = prompt[q]
      /\ new.epoch <= epoch
      /\ new.pc \in {"profiles", "memories", "built"} /\ new.epoch = epoch
           => new.items \cap gone \subseteq new.missed
  <2>0. /\ PromptIsFresh(p) /\ gone \cap Visible = {}
        /\ prompt[p].epoch \in Nat /\ epoch \in Nat
    BY <1>3 DEF PromptInv, PromptTypes
  <2>1. CASE ReadEpoch(p) \/ CheckEpoch(p)
    BY <1>3, <2>0, <2>1 DEF ReadEpoch, CheckEpoch, PromptTypes
  <2>2. CASE BuildHistory(p)
    <3> DEFINE some == IF hist THEN history ELSE {}
    <3>1. some \subseteq Visible \cap Item
      BY <1>3, ItemsAre DEF Visible
    <3>2. prompt' = [prompt EXCEPT ![p].pc = "profiles", ![p].items = some]
      BY <2>2 DEF BuildHistory
    <3> HIDE DEF some
    <3>3. some \in SUBSET Item /\ some \cap gone = {}
      BY <2>0, <3>1
    <3> QED  BY <1>3, <2>0, <3>2, <3>3, SectionStarts
  <2>3. CASE BuildProfiles(p)
    <3> DEFINE some == IF ltm THEN ProfileItems(db) ELSE {}
    <3>1. some \subseteq Visible \cap Item
      BY <1>3, ItemsAre DEF Visible
    <3>2. prompt' = [prompt EXCEPT ![p].pc = "memories", ![p].items = @ \cup some]
      BY <2>3 DEF BuildProfiles
    <3>3. prompt[p].pc = "profiles"
      BY <2>3 DEF BuildProfiles
    <3> HIDE DEF some
    <3> QED  BY <1>3, <2>0, <3>1, <3>2, <3>3, SectionAdds
  <2>4. CASE BuildMemories(p)
    <3> DEFINE some == IF ltm THEN MemoryItems(db, ProfileItems(db)) ELSE {}
    <3>1. some \subseteq Visible \cap Item
      BY <1>3, ItemsAre DEF Visible
    <3>2. prompt' = [prompt EXCEPT ![p].pc = "built", ![p].items = @ \cup some]
      BY <2>4 DEF BuildMemories
    <3>3. prompt[p].pc = "memories"
      BY <2>4 DEF BuildMemories
    <3> HIDE DEF some
    <3> QED  BY <1>3, <2>0, <3>1, <3>2, <3>3, SectionAdds
  <2> QED  BY <2>1, <2>2, <2>3, <2>4 DEF PromptStep
<1> HIDE DEF new
<1>5. PromptTypes'
  BY <1>1, <1>3, <1>4 DEF PromptTypes
<1>6. \A q \in Prompt : PromptIsFresh(q)'
  BY <1>1, <1>4 DEF PromptInv, PromptIsFresh, new
<1> QED  BY <1>1, <1>2, <1>5, <1>6 DEF PromptInv

LEMMA PromptTurn ==
  ASSUME TableInv, PromptInv, NEW m \in Message,
         OnUserAccepted(m) \/ OnTurnCompleted(m) \/ Submit(m) \/ TaskStep(m)
  PROVE  PromptInv'
<1>1. UNCHANGED <<prompt, epoch, request, took>> /\ Track
  BY DEF OnUserAccepted, OnTurnCompleted, Submit, TurnFrame, TaskStep, Analyze, NextClaim,
         Interrupted, Consider, TaskFrame
<1>2. history' \subseteq [id : Message, text : {"user", "assistant"}]
  <2>0. history \subseteq [id : Message, text : {"user", "assistant"}]
    BY DEF PromptInv, PromptTypes
  <2>1. CASE OnUserAccepted(m)
    <3>1. history' = IF hist THEN history \cup {[id |-> m, text |-> "user"]} ELSE history
      BY <2>1 DEF OnUserAccepted
    <3> QED  BY <2>0, <3>1
  <2>2. CASE OnTurnCompleted(m)
    <3>1. history' = IF hist THEN history \cup {[id |-> m, text |-> "assistant"]} ELSE history
      BY <2>2 DEF OnTurnCompleted
    <3> QED  BY <2>0, <3>1
  <2>3. CASE Submit(m) \/ TaskStep(m)
    <3>1. UNCHANGED history
      BY <2>3 DEF Submit, TurnFrame, TaskStep, Analyze, NextClaim, Interrupted, Consider,
                  TaskFrame
    <3> QED  BY <2>0, <3>1
  <2> QED  BY <2>1, <2>2, <2>3
<1>3. gone' \subseteq gone /\ gone' \cap Visible' = {}
  BY <1>1, TrackIs DEF Ended
<1> QED  BY <1>1, <1>2, <1>3, PromptFrame DEF PromptInv, PromptTypes

(* A deletion that raises: what it took out of sight is what the snapshots *)
(* that are being built miss.                                              *)
LEMMA PromptRaises ==
  ASSUME TableInv, PromptInv, NEW r \in Request, CleanupRaises(r), UNCHANGED epoch,
         history' \subseteq history, request'[r].pc \in {"invalidate", "cancel", "done"},
         \A x \in Request : x # r => request'[x] = request[x]
  PROVE  PromptInv'
<1> DEFINE lost == Visible \ Visible'
<1>0. PromptTypes /\ lost \subseteq Item
  BY ItemsAre DEF PromptInv
<1>1. gone' = (gone \cup lost) \ Visible' /\ UNCHANGED took
  BY DEF CleanupRaises
<1>2. \A p \in Prompt :
        prompt'[p] = IF prompt[p].pc \in {"profiles", "memories", "built"}
                     THEN [prompt[p] EXCEPT !.missed = @ \cup lost] ELSE prompt[p]
  BY DEF CleanupRaises
<1>3. prompt' = [p \in Prompt |-> prompt'[p]]
  BY DEF CleanupRaises
<1> HIDE DEF lost
<1>4. ASSUME NEW p \in Prompt
      PROVE  /\ prompt'[p] \in [pc : {"idle", "history", "profiles", "memories", "built", "retry", "done"},
                                epoch : Nat, items : SUBSET Item, missed : SUBSET Item]
             /\ prompt'[p].pc = prompt[p].pc /\ prompt'[p].epoch = prompt[p].epoch
             /\ prompt'[p].items = prompt[p].items
             /\ prompt[p].pc \in {"profiles", "memories", "built"}
                  => prompt'[p].missed = prompt[p].missed \cup lost
  <2>1. prompt[p] \in [pc : {"idle", "history", "profiles", "memories", "built", "retry", "done"},
                       epoch : Nat, items : SUBSET Item, missed : SUBSET Item]
    BY <1>0 DEF PromptTypes
  <2>2. CASE prompt[p].pc \in {"profiles", "memories", "built"}
    <3>1. prompt'[p] = [prompt[p] EXCEPT !.missed = prompt[p].missed \cup lost]
      BY <1>2, <2>2
    <3>2. prompt[p].missed \cup lost \subseteq Item
      BY <1>0, <2>1
    <3> QED  BY <2>1, <2>2, <3>1, <3>2
  <2>3. CASE prompt[p].pc \notin {"profiles", "memories", "built"}
    BY <1>2, <2>1, <2>3
  <2> QED  BY <2>2, <2>3
<1>5. PromptTypes'
  BY <1>0, <1>1, <1>3, <1>4 DEF PromptTypes
<1>6. \A p \in Prompt : PromptIsFresh(p)'
  BY <1>1, <1>4 DEF PromptInv, PromptIsFresh
<1>7. \A x \in Request : request'[x].pc \in {"idle", "lock", "thread"} => took'[x] = {}
  BY <1>1 DEF PromptInv
<1> QED  BY <1>1, <1>5, <1>6, <1>7 DEF PromptInv

LEMMA PromptRequest ==
  ASSUME TableInv, TableInv', PromptInv, NEW r \in Request, Begin(r) \/ RequestStep(r)
  PROVE  PromptInv'
<1>0. PromptTypes
  BY DEF PromptInv
<1>1. CASE Begin(r) \/ LockFeatures(r)
  <2>1. /\ UNCHANGED <<prompt, epoch, took, history, gone, db, ltm, hist>>
        /\ request[r].pc \in {"idle", "lock"}
    BY <1>1 DEF Begin, LockFeatures, dataVars
  <2>2. \A x \in Request : x # r => request'[x] = request[x]
    BY <1>1, StepIs DEF Begin, LockFeatures, TableInv
  <2>3. UNCHANGED Visible
    BY <2>1 DEF Visible
  <2> QED  BY <1>0, <2>1, <2>2, <2>3, PromptFrame DEF PromptInv, PromptTypes
<1>2. CASE CancelActive(r) \/ Finalize(r)
  <2>1. /\ UNCHANGED <<prompt, epoch, took, history, db, ltm, hist>>
        /\ request'[r].pc \in {"drain", "invalidate"}
        /\ \A x \in Request : x # r => request'[x] = request[x]
    BY <1>2, StepIs DEF CancelActive, Finalize, dataVars
  <2>2. gone' \subseteq gone /\ gone' \cap Visible' = {}
    <3>1. CASE CancelActive(r)
      BY <2>1, <3>1 DEF CancelActive, dataVars, Visible, PromptInv
    <3>2. CASE Finalize(r)
      BY <2>1, <3>2, TrackIs DEF Finalize, Ended
    <3> QED  BY <1>2, <3>1, <3>2
  <2> QED  BY <1>0, <2>1, <2>2, PromptFrame DEF PromptInv, PromptTypes
<1>3. CASE \/ SetLongTerm(r) \/ SetHistory(r) \/ Delete(r) \/ Update(r) \/ Clear(r)
           \/ ClearHistory(r) \/ Confirm(r)
  <2>1. UNCHANGED epoch /\ request[r].pc = "thread" /\ history' \subseteq history
    BY <1>3 DEF SetLongTerm, SetHistory, Delete, Update, Clear, ClearHistory, Confirm,
                ConfirmFrame, ManageFrame
  <2>2. CleanupRaises(r) \/ (UNCHANGED prompt /\ Take(r) /\ Track)
    BY <1>3 DEF SetLongTerm, SetHistory, Delete, Update, Clear, ClearHistory, Confirm,
                ConfirmFrame, Managed
  <2>3. /\ request'[r].pc \in {"invalidate", "cancel", "done"}
        /\ \A x \in Request : x # r => request'[x] = request[x]
    <3>1. Step(r, "invalidate") \/ Step(r, "cancel") \/ Step(r, "done")
      BY <1>3 DEF SetLongTerm, SetHistory, Delete, Update, Clear, ClearHistory, Confirm, Answer,
                  Managed, CleanupRaises
    <3> QED  BY <3>1, StepIs
  <2>4. CASE UNCHANGED prompt /\ Take(r) /\ Track
    <3>1. gone' \subseteq gone /\ gone' \cap Visible' = {}
      BY <2>1, <2>3, <2>4, TrackIs DEF Ended, PromptInv
    <3>2. /\ took' \in [Request -> SUBSET Item]
          /\ \A x \in Request : x # r => took'[x] = took[x]
      BY <1>0, <2>4, ItemsAre DEF Take, PromptTypes
    <3> QED  BY <1>0, <2>1, <2>3, <2>4, <3>1, <3>2, PromptFrame DEF PromptInv, PromptTypes
  <2>5. CASE CleanupRaises(r)
    BY <2>1, <2>3, <2>5, PromptRaises
  <2> QED  BY <2>2, <2>4, <2>5
<1>4. CASE Invalidate(r)
  <2>1. /\ epoch' = epoch + 1 /\ took' = [took EXCEPT ![r] = {}] /\ Track
        /\ UNCHANGED <<history, prompt>>
        /\ request'[r].pc = "done" /\ \A x \in Request : x # r => request'[x] = request[x]
    BY <1>4, StepIs DEF Invalidate
  <2>2. gone' \subseteq Item /\ gone' \cap Visible' = {}
    BY <1>0, <2>1 DEF Track, PromptTypes
  <2>3. PromptTypes'
    BY <1>0, <2>1, <2>2 DEF PromptTypes
  <2>4. \A p \in Prompt : PromptIsFresh(p)'
    <3>1. \A p \in Prompt : prompt[p].epoch \in Nat /\ prompt[p].epoch <= epoch
      BY <1>0 DEF PromptInv, PromptTypes, PromptIsFresh
    <3>2. epoch \in Nat
      BY <1>0 DEF PromptTypes
    <3> QED  BY <2>1, <3>1, <3>2 DEF PromptIsFresh
  <2>5. \A x \in Request : request'[x].pc \in {"idle", "lock", "thread"} => took'[x] = {}
    BY <1>0, <2>1 DEF PromptInv, PromptTypes
  <2> QED  BY <2>2, <2>3, <2>4, <2>5 DEF PromptInv
<1> QED  BY <1>1, <1>2, <1>3, <1>4 DEF RequestStep

LEMMA PromptInvStep == TableInv /\ TableInv' /\ PromptInv /\ [Next]_vars => PromptInv'
<1> SUFFICES ASSUME TableInv, TableInv', PromptInv, [Next]_vars PROVE PromptInv'
  OBVIOUS
<1>1. CASE Prune \/ Close \/ CloseDrained \/ UNCHANGED vars
  <2>1. UNCHANGED <<prompt, epoch, took, history, gone, db, ltm, hist, request>>
    BY <1>1 DEF Prune, Close, CloseDrained, vars, dataVars, taskVars
  <2> QED  BY <2>1, PromptFrame DEF PromptInv, PromptTypes, Visible
<1> QED  BY <1>1, PromptPrompt, PromptTurn, PromptRequest DEF Next

(* Between two looks at the epoch no request has ended that took something *)
(* of what was built in sight, but deletions that raised: what these took  *)
(* is counted, so that a snapshot begun after them is free of it as well.  *)
THEOREM PromptInvCorrect == MemSpec => [](TableInv /\ PromptInv)
<1>1. Init => PromptInv
  <2> SUFFICES ASSUME Init PROVE PromptInv
    OBVIOUS
  <2>1. PromptTypes
    BY DEF Init, PromptTypes
  <2> QED  BY <2>1 DEF Init, PromptInv, PromptIsFresh
<1> QED  BY <1>1, PromptInvStep, TableInvCorrect, PTL DEF MemSpec

(* What a finished request has deleted, replaced or switched off is in no   *)
(* snapshot that is handed out afterwards, although a snapshot is built in *)
(* sections that any request may come between; the one exception is what a *)
(* deletion took that raised while the snapshot was being built.           *)
THEOREM RevokedIsNotPromptedCorrect == MemSpec => RevokedIsNotPrompted
<1>1. TableInv /\ PromptInv /\ [Next]_vars
      => [\A p \in Prompt :
            prompt[p].pc = "built" /\ prompt'[p].pc = "done"
            => prompt[p].items \cap gone \subseteq prompt[p].missed]_vars
  <2> SUFFICES ASSUME TableInv, PromptInv, [Next]_vars, NEW p \in Prompt,
                      prompt[p].pc = "built", prompt'[p].pc = "done"
               PROVE  prompt[p].items \cap gone \subseteq prompt[p].missed
    OBVIOUS
  <2>0. prompt \in [Prompt -> [pc : {"idle", "history", "profiles", "memories", "built", "retry", "done"},
                               epoch : Nat, items : SUBSET Item, missed : SUBSET Item]]
    BY DEF PromptInv, PromptTypes
  <2>1. UNCHANGED prompt \/ (\E r \in Request : CleanupRaises(r)) \/ \E q \in Prompt : PromptStep(q)
    BY DEF Next, vars, OnUserAccepted, OnTurnCompleted, Submit, TurnFrame, TaskStep, Analyze,
           NextClaim, Interrupted, Consider, TaskFrame, Begin, RequestStep, LockFeatures,
           SetLongTerm, CancelActive, Finalize, SetHistory, Delete, Update, Clear, ClearHistory,
           Managed, Confirm, ConfirmFrame, Invalidate, ManageFrame, Prune, Close, CloseDrained
  <2>2. ASSUME NEW r \in Request, CleanupRaises(r) PROVE prompt'[p].pc = prompt[p].pc
    BY <2>0, <2>2 DEF CleanupRaises
  <2>3. PICK q \in Prompt : PromptStep(q)
    BY <2>1, <2>2
  <2>4. q = p /\ CheckEpoch(p)
    BY <2>0, <2>3 DEF PromptStep, ReadEpoch, BuildHistory, BuildProfiles, BuildMemories, CheckEpoch
  <2>5. prompt[p].epoch = epoch
    BY <2>0, <2>4 DEF CheckEpoch
  <2> QED  BY <2>5 DEF PromptInv, PromptIsFresh
<1> QED  BY <1>1, PromptInvCorrect, PTL DEF MemSpec, RevokedIsNotPrompted

(* Every variable keeps its type: the tables and the snapshots from the     *)
(* invariants above, the turns, the cancellations, the lock and the closer *)
(* from a scan of the steps.                                               *)
THEOREM MemTypeCorrect == MemSpec => []MemTypeOK
<1> DEFINE Rest == /\ turn \in [Message -> {"idle", "accepted", "replied", "over"}]
                   /\ throw \subseteq Message /\ featureLock \in Request \cup {None}
                   /\ closer \in {"none", "drain", "done"}
<1>1. Init => Rest
  BY DEF Init
<1>2. TableInv /\ Rest /\ [Next]_vars => Rest'
  <2> SUFFICES ASSUME TableInv, Rest, [Next]_vars PROVE Rest'
    OBVIOUS
  <2>1. CASE UNCHANGED vars
    BY <2>1 DEF vars, taskVars
  <2>2. ASSUME NEW p \in Prompt, PromptStep(p) PROVE Rest'
    BY <2>2 DEF PromptStep, ReadEpoch, BuildHistory, BuildProfiles, BuildMemories, CheckEpoch,
                PromptVars, taskVars
  <2>3. ASSUME NEW m \in Message,
               OnUserAccepted(m) \/ OnTurnCompleted(m) \/ Submit(m) \/ TaskStep(m)
        PROVE  Rest'
    BY <2>3 DEF OnUserAccepted, OnTurnCompleted, Submit, TurnFrame, TaskStep, Analyze, NextClaim,
                Interrupted, Consider, TaskFrame, EndTask
  <2>4. ASSUME NEW r \in Request, Begin(r) \/ RequestStep(r) PROVE Rest'
    BY <2>4 DEF Begin, RequestStep, LockFeatures, SetLongTerm, CancelActive, CancelAllNow,
                Finalize, SetHistory, Delete, Update, Clear, ClearHistory, Confirm, ConfirmFrame,
                Invalidate, ManageFrame, dataVars, taskVars
  <2>5. ASSUME Prune \/ Close \/ CloseDrained PROVE Rest'
    BY <2>5 DEF Prune, Close, CloseDrained, CancelAllNow, dataVars, taskVars
  <2> QED  BY <2>1, <2>2, <2>3, <2>4, <2>5 DEF Next
<1>3. TableInv /\ SwitchInv /\ PromptInv /\ AnswerInv /\ Rest => MemTypeOK
  BY DEF AnswerInv, TableInv, SwitchInv, PromptInv, PromptTypes, MemTypeOK
<1> QED  BY <1>1, <1>2, <1>3, TableInvCorrect, AnswerInvCorrect, SwitchInvCorrect,
            PromptInvCorrect, PTL DEF MemSpec
=============================================================================
