---------------------------- MODULE StorageProofs ----------------------------
(***************************************************************************)
(* Proofs about Storage, for any rooms, users, names, values and fields,   *)
(* and any number of commands and deaths.                                  *)
(***************************************************************************)
EXTENDS Storage, TLAPS

(* What one statement does to a table of rows: rows is db but for the row  *)
(* at k, which may be there or not.                                        *)
SameBut(k, rows) ==
  /\ DOMAIN rows \ {k} = DOMAIN db \ {k}
  /\ \A x \in DOMAIN db : x # k => rows[x] = db[x]

LEMMA InsertedFacts ==
  ASSUME NEW k, NEW v
  PROVE  SameBut(k, inserted(k, v)) /\ k \in DOMAIN inserted(k, v) /\ inserted(k, v)[k] = v
BY DEF inserted, with, SameBut

LEMMA UpdatedFacts ==
  ASSUME NEW k, NEW v
  PROVE  /\ SameBut(k, updated(k, v))
         /\ DOMAIN updated(k, v) = DOMAIN db
         /\ k \in DOMAIN db => updated(k, v)[k] = v
BY DEF updated, SameBut

(* append() touches its own row only; what it does not call an error is    *)
(* stored, if it fits.                                                     *)
LEMMA AppendFacts ==
  ASSUME NEW k, NEW v
  PROVE  LET a == append(k, v)
         IN  /\ SameBut(k, a.rows)
             /\ a.res = 0 => a.rows = db
             /\ a.res # 0 /\ fits(k, v) => k \in DOMAIN a.rows /\ a.rows[k] = v
             /\ k \in DOMAIN a.rows =>
                  \/ a.rows[k] = v /\ fitsValue(k, v) /\ (k \in DOMAIN db \/ fitsName(k))
                  \/ k \in DOMAIN db /\ a.rows[k] = db[k]
<1>1. CASE canInsert(k, v)
  BY <1>1, InsertedFacts DEF append, canInsert, fits
<1>2. CASE ~canInsert(k, v) /\ k \in DOMAIN db /\ ~fitsValue(k, v)
  <2>1. append(k, v) = [res |-> 0, rows |-> db]
    BY <1>2 DEF append
  <2>2. SameBut(k, db)
    BY DEF SameBut
  <2>3. QED
    BY <1>2, <2>1, <2>2
<1>3. CASE ~canInsert(k, v) /\ ~(k \in DOMAIN db /\ ~fitsValue(k, v))
  <2>1. append(k, v) = [res |-> 2, rows |-> updated(k, v)]
    BY <1>3 DEF append
  <2>2. fits(k, v) => k \in DOMAIN db
    BY <1>3 DEF canInsert
  <2>3. QED
    BY <1>3, <2>1, <2>2, UpdatedFacts
<1>4. QED
  BY <1>1, <1>2, <1>3

(* So does saveValue().                                                    *)
LEMMA SaveFacts ==
  ASSUME NEW k, NEW v
  PROVE  LET rows == saveValue(k, v)
         IN  /\ SameBut(k, rows)
             /\ fits(k, v) => k \in DOMAIN rows /\ rows[k] = v
             /\ k \in DOMAIN rows =>
                  \/ rows[k] = v /\ fitsValue(k, v) /\ (k \in DOMAIN db \/ fitsName(k))
                  \/ k \in DOMAIN db /\ rows[k] = db[k]
<1>1. SameBut(k, db)
  BY DEF SameBut
<1>2. CASE k \in DOMAIN db
  BY <1>1, <1>2, UpdatedFacts DEF saveValue, fits
<1>3. CASE k \notin DOMAIN db
  BY <1>1, <1>3, InsertedFacts DEF saveValue, fits
<1>4. QED
  BY <1>2, <1>3

(* DELETE leaves the rows it does not name.                                *)
LEMMA DeletedFacts ==
  ASSUME NEW rows
  PROVE  /\ DOMAIN deleted(rows) = DOMAIN db \ rows
         /\ \A x \in DOMAIN db \ rows : deleted(rows)[x] = db[x]
BY DEF deleted, Restrict

(* The fields of a room depend on its own rows only.                       *)
LEMMA LoadFacts ==
  ASSUME NEW r, NEW old, NEW new,
         \A f \in Available :
           /\ field(r, f) \in DOMAIN old <=> field(r, f) \in DOMAIN new
           /\ field(r, f) \in DOMAIN old => old[field(r, f)] = new[field(r, f)]
  PROVE  loadFields(old, r) = loadFields(new, r)
BY DEF loadFields

-----------------------------------------------------------------------------
(* The inductive invariant: the types, a configurator that knows what the  *)
(* table says, and answers that are true and about fields already saved.   *)
Answered ==
  \A a \in answer, f \in DOMAIN saving.todo : a.key # field(saving.room, f)

IInv == TypeOK /\ SettingsAreApplied /\ AnswerIsTrue /\ Answered

RowsOK(rows) == /\ DOMAIN rows \subseteq RowKey
                /\ \A k \in DOMAIN rows : fits(k, rows[k]) /\ rows[k] \in Value

LEMMA FieldFacts ==
  ASSUME NEW r \in Room, NEW f \in Available
  PROVE  field(r, f) \in RowKey
BY DEF field, RowKey, StorageKey

LEMMA LoadType ==
  ASSUME NEW r, NEW rows, RowsOK(rows)
  PROVE  loadFields(rows, r) \in Fields
BY StorageAssumption DEF loadFields, Fields, RowsOK

LEMMA RosterFacts ==
  ASSUME TypeOK, NEW u \in User
  PROVE  /\ withStorage(u) \in Seq(User) /\ IsInjective(withStorage(u))
         /\ hasStorage(u) => idOf(u) \in Nat \ {0}
         /\ Len(roster) + 1 \in Nat \ {0}
<1>1. roster \in Seq(User) /\ IsInjective(roster)
  BY DEF TypeOK
<1>2. hasStorage(u) => idOf(u) \in DOMAIN roster
  BY DEF hasStorage, idOf
<1>3. ~hasStorage(u) => Append(roster, u) \in Seq(User) /\ IsInjective(Append(roster, u))
  <2> SUFFICES ASSUME ~hasStorage(u)
               PROVE  Append(roster, u) \in Seq(User) /\ IsInjective(Append(roster, u))
    OBVIOUS
  <2>1. \A i \in DOMAIN roster : roster[i] # u
    BY DEF hasStorage
  <2>2. QED
    BY <1>1, <2>1 DEF IsInjective
<1>4. QED
  BY <1>1, <1>2, <1>3 DEF withStorage

LEMMA KeyFacts ==
  ASSUME TypeOK, NEW c \in Sender
  PROVE  keyOf(c) \in StorageKey
BY RosterFacts DEF keyOf, StorageKey, Sender, Here

LEMMA RowsStep ==
  ASSUME TypeOK, NEW k, NEW v \in Value, NEW rows, SameBut(k, rows),
         fitsName(k) => k \in RowKey,
         k \in DOMAIN rows =>
           \/ rows[k] = v /\ fitsValue(k, v) /\ (k \in DOMAIN db \/ fitsName(k))
           \/ k \in DOMAIN db /\ rows[k] = db[k]
  PROVE  RowsOK(rows)
<1>1. RowsOK(db)
  BY DEF TypeOK, RowsOK
<1>2. \A x \in DOMAIN rows : x # k => x \in DOMAIN db /\ rows[x] = db[x]
  BY DEF SameBut
<1>3. k \in DOMAIN rows => k \in RowKey /\ fits(k, rows[k]) /\ rows[k] \in Value
  BY <1>1 DEF RowsOK, fits
<1>4. QED
  BY <1>1, <1>2, <1>3 DEF RowsOK

LEMMA InitHolds == Init => IInv
<1> SUFFICES ASSUME Init PROVE IInv
  OBVIOUS
<1>1. roster \in Seq(User) /\ IsInjective(roster)
  BY DEF Init, IsInjective
<1>2. DOMAIN db = {} /\ answer = {} /\ Here = {}
  BY DEF Init, Here
<1>3. cache \in [Room -> Fields \union {NoFields}] /\ form \in [Room -> Fields \union {NoFields}]
  BY DEF Init
<1>4. 0 \in 0..MaxCommands /\ 0 \in 0..MaxDeaths
  BY StorageAssumption
<1>5. TypeOK
  BY <1>1, <1>2, <1>3, <1>4 DEF Init, TypeOK
<1>6. QED
  BY <1>2, <1>5 DEF IInv, SettingsAreApplied, AnswerIsTrue, Answered

(* A statement about words or aliases leaves the fields of all rooms.      *)
LEMMA SettingsKept ==
  ASSUME SettingsAreApplied, cache' = cache, saving' = saving,
         \A r \in Room, f \in Available :
           /\ field(r, f) \in DOMAIN db <=> field(r, f) \in DOMAIN db'
           /\ field(r, f) \in DOMAIN db => db[field(r, f)] = db'[field(r, f)]
  PROVE  SettingsAreApplied'
<1>1. \A r \in Room : loadFields(db, r) = loadFields(db', r)
  BY LoadFacts
<1>2. QED
  BY <1>1 DEF SettingsAreApplied, Here

LEMMA AddIsStore ==
  ASSUME TypeOK, NEW c \in Sender, NEW role, WordAdd(c, role) \/ AliasAdd(c, role)
  PROVE  \E k : \E v \in Value :
           /\ Store(c, role, k, v)
           /\ fitsName(k) => k \in RowKey
           /\ \A r, f : k # field(r, f)
<1>1. keyOf(c) \in StorageKey
  BY KeyFacts
<1>2. ASSUME NEW name \in Name, NEW n \in IF c \in User THEN {NoNick} ELSE Nick
      PROVE  LET k == [table |-> "words", key |-> keyOf(c), name |-> name, nick |-> n]
             IN  /\ fitsName(k) => k \in RowKey
                 /\ \A r, f : k # field(r, f)
  <2>1. \A r, f : field(r, f).table = "configuration"
    BY DEF field
  <2>2. QED
    BY <1>1, <1>2, <2>1 DEF fitsName, RowKey
<1>3. ASSUME NEW name \in Name
      PROVE  LET k == [table |-> "aliases", key |-> keyOf(c), name |-> name]
             IN  k \in RowKey /\ \A r, f : k # field(r, f)
  <2>1. \A r, f : field(r, f).table = "configuration"
    BY DEF field
  <2>2. QED
    BY <1>1, <1>3, <2>1 DEF RowKey
<1>4. CASE WordAdd(c, role)
  <2>1. PICK name \in Name, v \in Value, n \in IF c \in User THEN {NoNick} ELSE Nick :
          Store(c, role, [table |-> "words", key |-> keyOf(c), name |-> name, nick |-> n], v)
    BY <1>4 DEF WordAdd
  <2> DEFINE k == [table |-> "words", key |-> keyOf(c), name |-> name, nick |-> n]
  <2>2. Store(c, role, k, v) /\ (fitsName(k) => k \in RowKey) /\ \A r, f : k # field(r, f)
    BY <1>2, <2>1
  <2> HIDE DEF k
  <2>3. QED
    BY <2>2
<1>5. CASE AliasAdd(c, role)
  <2>1. PICK name \in Name, v \in Value :
          Store(c, role, [table |-> "aliases", key |-> keyOf(c), name |-> name], v)
    BY <1>5 DEF AliasAdd
  <2> DEFINE k == [table |-> "aliases", key |-> keyOf(c), name |-> name]
  <2>2. Store(c, role, k, v) /\ (fitsName(k) => k \in RowKey) /\ \A r, f : k # field(r, f)
    BY <1>3, <2>1
  <2> HIDE DEF k
  <2>3. QED
    BY <2>2
<1>6. QED
  BY <1>4, <1>5

LEMMA LookUpType ==
  ASSUME TypeOK, NEW c, LookUp(c) \/ roster' = roster
  PROVE  roster' \in Seq(User) /\ IsInjective(roster')
<1>1. CASE c \in User /\ LookUp(c)
  BY <1>1, RosterFacts DEF LookUp
<1>2. CASE roster' = roster
  BY <1>2 DEF TypeOK
<1>3. QED
  BY <1>1, <1>2 DEF LookUp

LEMMA CommandType ==
  ASSUME TypeOK, Command
  PROVE  up /\ saving = NotSaving /\ commands' \in 0..MaxCommands
BY StorageAssumption DEF TypeOK, Command, IsIdle

LEMMA StoreStep ==
  ASSUME IInv, NEW c \in Sender, NEW role, NEW k, NEW v \in Value,
         Store(c, role, k, v),
         fitsName(k) => k \in RowKey, \A r, f : k # field(r, f)
  PROVE  IInv'
<1>0. TypeOK /\ SettingsAreApplied
  BY DEF IInv
<1> DEFINE a == append(k, v)
<1>1. /\ db' = a.rows
      /\ answer' = IF a.res = 0 THEN {} ELSE {[key |-> k, value |-> v]}
      /\ saving = NotSaving /\ commands' \in 0..MaxCommands
      /\ UNCHANGED <<up, autoCreate, cache, form, saving, deaths>>
  BY <1>0, CommandType DEF Store, TablesOnly
<1>2. /\ SameBut(k, db')
      /\ a.res # 0 /\ fits(k, v) => k \in DOMAIN db' /\ db'[k] = v
      /\ k \in DOMAIN db' =>
           \/ db'[k] = v /\ fitsValue(k, v) /\ (k \in DOMAIN db \/ fitsName(k))
           \/ k \in DOMAIN db /\ db'[k] = db[k]
  BY <1>1, AppendFacts
<1> HIDE DEF a
<1>3. RowsOK(db')
  BY <1>0, <1>2, RowsStep
<1>4. roster' \in Seq(User) /\ IsInjective(roster')
  BY <1>0, LookUpType DEF Store
<1>5. \A x \in answer' : x = [key |-> k, value |-> v] /\ a.res # 0
  BY <1>1
<1>6. TypeOK'
  BY <1>0, <1>1, <1>3, <1>4, <1>5 DEF TypeOK, RowsOK, fits, fitsName, fitsValue
<1>7. SettingsAreApplied'
  <2>1. \A r \in Room, f \in Available :
          /\ field(r, f) \in DOMAIN db <=> field(r, f) \in DOMAIN db'
          /\ field(r, f) \in DOMAIN db => db[field(r, f)] = db'[field(r, f)]
    BY <1>2 DEF SameBut
  <2>2. QED
    BY <1>0, <1>1, <2>1, SettingsKept
<1>8. AnswerIsTrue'
  BY <1>2, <1>5 DEF AnswerIsTrue, fits, fitsName, fitsValue
<1>9. Answered'
  BY <1>1 DEF Answered, NotSaving
<1>10. QED
  BY <1>6, <1>7, <1>8, <1>9 DEF IInv

LEMMA DeleteStep ==
  ASSUME IInv, NEW c, NEW role, NEW least, NEW rows,
         DeleteRows(c, role, least, rows),
         \A r, f : field(r, f) \notin rows
  PROVE  IInv'
<1>0. TypeOK /\ SettingsAreApplied
  BY DEF IInv
<1>1. /\ db' = deleted(rows) /\ answer' = {}
      /\ saving = NotSaving /\ commands' \in 0..MaxCommands
      /\ UNCHANGED <<up, autoCreate, cache, form, saving, deaths>>
  BY <1>0, CommandType DEF DeleteRows, TablesOnly
<1>2. DOMAIN db' = DOMAIN db \ rows /\ \A x \in DOMAIN db' : db'[x] = db[x]
  BY <1>1, DeletedFacts
<1>3. roster' \in Seq(User) /\ IsInjective(roster')
  BY <1>0, LookUpType DEF DeleteRows
<1>4. TypeOK'
  BY <1>0, <1>1, <1>2, <1>3 DEF TypeOK, fits, fitsName, fitsValue
<1>5. SettingsAreApplied'
  BY <1>0, <1>1, <1>2, SettingsKept
<1>6. QED
  BY <1>1, <1>4, <1>5 DEF IInv, AnswerIsTrue, Answered

(* Fields to be saved: those of the form or of SET that are available.     *)
LEMMA TodoFacts ==
  ASSUME NEW r \in Room, NEW fields, NEW f, NEW v \in Value,
         fields \in Fields \union {NoFields}, saveFields(r, with(fields, f, v))
  PROVE  /\ saving' \in [room : Room, todo : UNION {[S -> Value] : S \in SUBSET Available}]
         /\ saving'.room = r
<1> DEFINE new == with(fields, f, v)
           T == DOMAIN new \cap Available
<1>1. saving' = [room |-> r, todo |-> [x \in T |-> new[x]]]
  BY DEF saveFields, Restrict
<1>2. ASSUME NEW x \in T PROVE new[x] \in Value
  BY <1>2 DEF with, Fields, NoFields
<1> HIDE DEF new
<1>3. [x \in T |-> new[x]] \in [T -> Value] /\ T \in SUBSET Available
  BY <1>2
<1>4. QED
  BY <1>1, <1>3

(* SET and a submitted form: nothing is written yet.                       *)
LEMMA SavesStep ==
  ASSUME IInv, NEW r \in Room, NEW role, ConfigSet(r, role) \/ Submit(r, role)
  PROVE  IInv'
<1>0. TypeOK /\ SettingsAreApplied
  BY DEF IInv
<1>1. /\ r \in Here /\ answer' = {} /\ saving = NotSaving /\ commands' \in 0..MaxCommands
      /\ UNCHANGED <<up, autoCreate, roster, db, cache, deaths>>
  BY <1>0, CommandType DEF ConfigSet, Submit, Saves
<1>2. \E f \in Field, v \in Value, fields \in Fields \union {NoFields} :
        saveFields(r, with(fields, f, v))
  <2>1. CASE ConfigSet(r, role)
    BY <2>1, StorageAssumption DEF ConfigSet
  <2>2. CASE Submit(r, role)
    <3>1. form[r] \in Fields \union {NoFields}
      BY <1>0 DEF TypeOK
    <3>2. QED
      BY <2>2, <3>1 DEF Submit
  <2>3. QED
    BY <2>1, <2>2
<1>3. /\ saving' \in [room : Room, todo : UNION {[S -> Value] : S \in SUBSET Available}]
      /\ saving'.room = r
  BY <1>2, TodoFacts
<1>4. form' \in [Room -> Fields \union {NoFields}]
  BY <1>0 DEF ConfigSet, Submit, TypeOK
<1>5. TypeOK'
  BY <1>0, <1>1, <1>3, <1>4 DEF TypeOK, fits, fitsName, fitsValue
<1>6. SettingsAreApplied'
  <2>1. \A x \in Room : saving.room # x
    BY <1>1, StorageAssumption DEF NotSaving
  <2>2. QED
    BY <1>0, <1>1, <2>1 DEF SettingsAreApplied, Here, loadFields
<1>7. QED
  BY <1>1, <1>5, <1>6 DEF IInv, AnswerIsTrue, Answered

(* One field is written; after the last one the configurator reads them.   *)
LEMMA SaveValueStep ==
  ASSUME IInv, SaveValue
  PROVE  IInv'
<1>0. TypeOK /\ SettingsAreApplied /\ AnswerIsTrue /\ Answered
  BY DEF IInv
<1>1. PICK f \in DOMAIN saving.todo :
        LET r == saving.room
            k == field(r, f)
            v == saving.todo[f]
            rest == DOMAIN saving.todo \ {f}
        IN  /\ db' = saveValue(k, v)
            /\ answer' = answer \union {[key |-> k, value |-> v]}
            /\ IF rest = {}
                 THEN saving' = NotSaving /\ cache' = parse(r, db')
                 ELSE /\ saving' = [saving EXCEPT !.todo = Restrict(@, rest)]
                      /\ cache' = cache
  BY DEF SaveValue
<1>2. saving \in [room : Room, todo : UNION {[S -> Value] : S \in SUBSET Available}]
  BY <1>0 DEF TypeOK, NotSaving
<1> DEFINE r == saving.room
           k == field(r, f)
           v == saving.todo[f]
           rest == DOMAIN saving.todo \ {f}
<1>3. /\ r \in Room /\ f \in Available /\ v \in Value
      /\ DOMAIN saving.todo \subseteq Available
      /\ \A x \in DOMAIN saving.todo : saving.todo[x] \in Value
  BY <1>2
<1>4. k \in RowKey
  BY <1>3, FieldFacts
<1>5. \A q, x : field(q, x) = k => q = r /\ x = f
  BY DEF field
<1>6. /\ db' = saveValue(k, v)
      /\ answer' = answer \union {[key |-> k, value |-> v]}
      /\ \/ rest = {} /\ saving' = NotSaving /\ cache' = parse(r, db')
         \/ /\ rest # {} /\ cache' = cache
            /\ saving' = [saving EXCEPT !.todo = Restrict(@, rest)]
  BY <1>1
<1> HIDE DEF k, v
<1>7. /\ SameBut(k, db')
      /\ fits(k, v) => k \in DOMAIN db' /\ db'[k] = v
      /\ k \in DOMAIN db' =>
           \/ db'[k] = v /\ fitsValue(k, v) /\ (k \in DOMAIN db \/ fitsName(k))
           \/ k \in DOMAIN db /\ db'[k] = db[k]
  BY <1>6, SaveFacts
<1>8. RowsOK(db')
  BY <1>0, <1>3, <1>4, <1>7, RowsStep
<1>9. \/ saving' = NotSaving
      \/ /\ saving' \in [room : Room, todo : UNION {[S -> Value] : S \in SUBSET Available}]
         /\ saving'.room = r /\ DOMAIN saving'.todo = rest
  <2>1. CASE saving' = [saving EXCEPT !.todo = Restrict(@, rest)]
    <3>1. saving' = [room |-> r, todo |-> [x \in rest |-> saving.todo[x]]]
      BY <1>2, <2>1 DEF Restrict
    <3>2. [x \in rest |-> saving.todo[x]] \in [rest -> Value] /\ rest \in SUBSET Available
      BY <1>3
    <3>3. QED
      BY <1>3, <3>1, <3>2
  <2>2. QED
    BY <1>6, <2>1
<1>10. cache' \in [Room -> Fields \union {NoFields}]
  BY <1>0, <1>3, <1>6, <1>8, LoadType DEF parse, TypeOK
<1>11. TypeOK'
  BY <1>0, <1>3, <1>6, <1>8, <1>9, <1>10
     DEF SaveValue, TypeOK, RowsOK, fits, fitsName, fitsValue
<1>12. SettingsAreApplied'
  <2> SUFFICES ASSUME NEW q \in Here', saving'.room # q
               PROVE  cache'[q] = loadFields(db', q)
    BY DEF SettingsAreApplied
  <2>1. q \in Room
    BY DEF Here
  <2>2. CASE q = r
    BY <1>0, <1>3, <1>6, <1>9, <2>2 DEF parse, TypeOK
  <2>3. CASE q # r
    <3>1. loadFields(db, q) = loadFields(db', q)
      <4>1. \A x \in Available : field(q, x) # k
        BY <1>5, <2>3
      <4>2. QED
        BY <1>7, <4>1, LoadFacts DEF SameBut
    <3>2. cache'[q] = cache[q]
      BY <1>0, <1>6, <2>1, <2>3 DEF parse, TypeOK
    <3>3. QED
      BY <1>0, <2>1, <2>3, <3>1, <3>2 DEF SettingsAreApplied, Here
  <2>4. QED
    BY <2>2, <2>3
<1>13. AnswerIsTrue'
  <2> SUFFICES ASSUME NEW a \in answer', fits(a.key, a.value)'
               PROVE  a.key \in DOMAIN db' /\ db'[a.key] = a.value
    BY DEF AnswerIsTrue
  <2>1. fits(a.key, a.value)
    BY DEF fits, fitsName, fitsValue
  <2>2. CASE a = [key |-> k, value |-> v]
    BY <1>7, <2>1, <2>2
  <2>3. CASE a \in answer
    <3>1. a.key # k
      BY <1>0, <1>1, <2>3 DEF Answered, k
    <3>2. a.key \in DOMAIN db /\ db[a.key] = a.value
      BY <1>0, <2>1, <2>3 DEF AnswerIsTrue
    <3>3. QED
      BY <1>7, <3>1, <3>2 DEF SameBut
  <2>4. QED
    BY <1>6, <2>2, <2>3
<1>14. Answered'
  <2>1. CASE saving' = NotSaving
    BY <2>1 DEF Answered, NotSaving
  <2>2. CASE saving'.room = r /\ DOMAIN saving'.todo = rest
    <3> SUFFICES ASSUME NEW a \in answer', NEW x \in rest
                 PROVE  a.key # field(r, x)
      BY <2>2 DEF Answered, field
    <3>1. CASE a \in answer
      BY <1>0, <3>1 DEF Answered
    <3>2. CASE a = [key |-> k, value |-> v]
      BY <1>5, <3>2
    <3>3. QED
      BY <1>6, <3>1, <3>2
  <2>3. QED
    BY <1>9, <2>1, <2>2
<1>15. QED
  BY <1>11, <1>12, <1>13, <1>14 DEF IInv

(* Steps that change no row and save no field.                             *)
LEMMA OtherStep ==
  ASSUME IInv,
         \/ \E c, role, least : Refuse(c, role, least)
         \/ \E r \in Room : Enter(r) \/ Leave(r) \/ Cancel(r)
         \/ \E r \in Room : \E role : OpenForm(r, role)
         \/ Die \/ Start \/ UNCHANGED vars
  PROVE  IInv'
<1>0. TypeOK /\ SettingsAreApplied /\ AnswerIsTrue /\ Answered /\ RowsOK(db)
  BY DEF IInv, TypeOK, RowsOK
<1>1. db' = db /\ (answer' = {} \/ answer' = answer)
  BY DEF Refuse, Enter, Leave, Cancel, OpenForm, Die, Start, vars
<1>2. saving' = saving \/ saving' = NotSaving
  BY DEF Refuse, Enter, Leave, Cancel, OpenForm, Die, Start, vars, TablesOnly
<1>3. AnswerIsTrue' /\ Answered'
  BY <1>0, <1>1, <1>2
     DEF AnswerIsTrue, Answered, NotSaving, fits, fitsName, fitsValue, field
<1>4. \A r \in Room : loadFields(db', r) = loadFields(db, r)
  BY <1>1 DEF loadFields
<1>5. CASE \E c, role, least : Refuse(c, role, least)
  <2>1. PICK c, role, least : Refuse(c, role, least)
    BY <1>5
  <2>2. roster' \in Seq(User) /\ IsInjective(roster')
    BY <1>0, <2>1, LookUpType DEF Refuse
  <2>3. /\ commands' \in 0..MaxCommands
        /\ UNCHANGED <<up, autoCreate, db, cache, form, saving, deaths>>
    BY <1>0, <2>1, CommandType DEF Refuse, TablesOnly
  <2>4. TypeOK'
    BY <1>0, <1>1, <2>2, <2>3 DEF TypeOK, fits, fitsName, fitsValue
  <2>5. SettingsAreApplied'
    BY <1>0, <1>4, <2>3 DEF SettingsAreApplied, Here
  <2>6. QED
    BY <1>3, <2>4, <2>5 DEF IInv
<1>6. CASE \E r \in Room : Enter(r)
  <2>1. PICK r \in Room : Enter(r)
    BY <1>6
  <2>2. loadFields(db, r) \in Fields
    BY <1>0, LoadType
  <2>3. TypeOK'
    BY <1>0, <1>1, <2>1, <2>2 DEF Enter, parse, TypeOK, fits, fitsName, fitsValue
  <2>4. SettingsAreApplied'
    BY <1>0, <1>4, <2>1 DEF Enter, parse, SettingsAreApplied, Here, TypeOK
  <2>5. QED
    BY <1>3, <2>3, <2>4 DEF IInv
<1>7. CASE \E r \in Room : Leave(r)
  <2>1. PICK r \in Room : Leave(r)
    BY <1>7
  <2>2. TypeOK'
    BY <1>0, <1>1, <2>1 DEF Leave, TypeOK, fits, fitsName, fitsValue
  <2>3. SettingsAreApplied'
    BY <1>0, <1>4, <2>1 DEF Leave, SettingsAreApplied, Here, TypeOK
  <2>4. QED
    BY <1>3, <2>2, <2>3 DEF IInv
<1>8. CASE \E r \in Room : Cancel(r) \/ \E role : OpenForm(r, role)
  <2>1. PICK r \in Room : Cancel(r) \/ \E role : OpenForm(r, role)
    BY <1>8
  <2>2. loadFields(db, r) \in Fields
    BY <1>0, LoadType
  <2>3. Command /\ UNCHANGED <<up, autoCreate, roster, db, cache, saving, deaths>>
    BY <2>1 DEF Cancel, OpenForm
  <2>4. form' \in [Room -> Fields \union {NoFields}]
    BY <1>0, <2>1, <2>2 DEF Cancel, OpenForm, TypeOK
  <2>5. TypeOK'
    BY <1>0, <1>1, <2>3, <2>4, CommandType DEF TypeOK, fits, fitsName, fitsValue
  <2>6. SettingsAreApplied'
    BY <1>0, <1>4, <2>3 DEF SettingsAreApplied, Here
  <2>7. QED
    BY <1>3, <2>5, <2>6 DEF IInv
<1>9. CASE Die
  <2>1. deaths' \in 0..MaxDeaths
    BY <1>0, <1>9, StorageAssumption DEF Die, TypeOK
  <2>2. TypeOK'
    BY <1>0, <1>1, <1>9, <2>1 DEF Die, TypeOK, fits, fitsName, fitsValue
  <2>3. Here' = {}
    BY <1>9 DEF Die, Here
  <2>4. QED
    BY <1>3, <2>2, <2>3 DEF IInv, SettingsAreApplied
<1>10. CASE Start \/ UNCHANGED vars
  <2>1. /\ up' \in BOOLEAN /\ autoCreate' \in AutoCreate
        /\ UNCHANGED <<roster, db, cache, form, saving, answer, commands, deaths>>
    BY <1>0, <1>10 DEF Start, vars, TypeOK
  <2>2. TypeOK'
    BY <1>0, <2>1 DEF TypeOK, fits, fitsName, fitsValue
  <2>3. SettingsAreApplied'
    BY <1>0, <1>4, <2>1 DEF SettingsAreApplied, Here
  <2>4. QED
    BY <1>3, <2>2, <2>3 DEF IInv
<1>11. QED
  BY <1>5, <1>6, <1>7, <1>8, <1>9, <1>10

LEMMA DelRows ==
  ASSUME NEW table \in {"words", "aliases"}, NEW key, NEW name
  PROVE  \A r, f : /\ field(r, f) \notin ofStorage(table, key)
                   /\ field(r, f) \notin ofName(table, key, name)
BY DEF ofStorage, ofName, field

(* The steps of Next, sorted by what they do.                              *)
LEMMA Steps ==
  ASSUME [Next]_vars
  PROVE  \/ \E c \in Sender : \E role : WordAdd(c, role) \/ AliasAdd(c, role)
         \/ \E c \in Sender, table \in {"words", "aliases"} : \E role, least, name :
              \/ DeleteRows(c, role, least, ofName(table, keyOf(c), name))
              \/ DeleteRows(c, role, least, ofStorage(table, keyOf(c)))
         \/ \E r \in Room : \E role : ConfigSet(r, role) \/ Submit(r, role)
         \/ SaveValue
         \/ \E c, role, least : Refuse(c, role, least)
         \/ \E r \in Room : Enter(r) \/ Leave(r) \/ Cancel(r)
         \/ \E r \in Room : \E role : OpenForm(r, role)
         \/ Die \/ Start \/ UNCHANGED vars
<1>1. ASSUME NEW c \in Sender, NEW role,
             \/ WordAdd(c, role) \/ WordClear(c, role)
             \/ AliasAdd(c, role) \/ AliasClear(c, role) \/ Del(c, role)
             \/ Refuse(c, role, ROLE_ADMIN) \/ Refuse(c, role, ROLE_OWNER)
      PROVE  \/ WordAdd(c, role) \/ AliasAdd(c, role)
             \/ \E table \in {"words", "aliases"} : \E least, name :
                  \/ DeleteRows(c, role, least, ofName(table, keyOf(c), name))
                  \/ DeleteRows(c, role, least, ofStorage(table, keyOf(c)))
             \/ \E least : Refuse(c, role, least)
  <2>1. CASE WordClear(c, role)
    BY <2>1 DEF WordClear
  <2>2. CASE AliasClear(c, role)
    BY <2>2 DEF AliasClear
  <2>3. CASE Del(c, role)
    BY <2>3 DEF Del
  <2>4. QED
    BY <1>1, <2>1, <2>2, <2>3
<1>2. QED
  BY <1>1 DEF Next

(* The inductive invariant holds in every reachable state.                 *)
THEOREM Invariance == Spec => []IInv
<1>1. IInv /\ [Next]_vars => IInv'
  <2> SUFFICES ASSUME IInv, [Next]_vars PROVE IInv'
    OBVIOUS
  <2>1. CASE \E c \in Sender : \E role : WordAdd(c, role) \/ AliasAdd(c, role)
    BY <2>1, AddIsStore, StoreStep DEF IInv
  <2>2. CASE \E c \in Sender, table \in {"words", "aliases"} : \E role, least, name :
               \/ DeleteRows(c, role, least, ofName(table, keyOf(c), name))
               \/ DeleteRows(c, role, least, ofStorage(table, keyOf(c)))
    BY <2>2, DelRows, DeleteStep
  <2>3. CASE \E r \in Room : \E role : ConfigSet(r, role) \/ Submit(r, role)
    BY <2>3, SavesStep
  <2>4. CASE SaveValue
    BY <2>4, SaveValueStep
  <2>5. QED
    BY <2>1, <2>2, <2>3, <2>4, Steps, OtherStep
<1>2. QED
  BY InitHolds, <1>1, PTL DEF Spec

(* Every reachable state is type correct.                                  *)
THEOREM TypeCorrect == Spec => []TypeOK
<1>1. IInv => TypeOK
  BY DEF IInv
<1>2. QED
  BY Invariance, <1>1, PTL

(* What "Saved", "Updated" and "completed" say is stored is stored.        *)
THEOREM AnswersAreTrue == Spec => []AnswerIsTrue
<1>1. IInv => AnswerIsTrue
  BY DEF IInv
<1>2. QED
  BY Invariance, <1>1, PTL

(* Whenever saveFields() is not at work on it, the configurator of a room  *)
(* has the settings the table has.                                         *)
THEOREM SettingsAreCurrent == Spec => []SettingsAreApplied
<1>1. IInv => SettingsAreApplied
  BY DEF IInv
<1>2. QED
  BY Invariance, <1>1, PTL

-----------------------------------------------------------------------------
(* A step that changes the row at k only, and names it when it is stored,  *)
(* or one that takes rows of one place away, is a step of                  *)
(* WritesStayInPlace.                                                      *)
InPlace == \A k \in Changed :
             /\ \A x \in Changed : x.key = k.key
             /\ k \in DOMAIN db' => \E a \in answer' : a.key = k

LEMMA OneRowInPlace ==
  ASSUME NEW k, SameBut(k, db'), db' = db \/ \E a \in answer' : a.key = k
  PROVE  InPlace
<1>1. Changed \subseteq {k} /\ (db' = db => Changed = {})
  BY DEF Changed, SameBut
<1>2. QED
  BY <1>1 DEF InPlace

LEMMA DeletedInPlace ==
  ASSUME NEW rows, NEW key, db' = deleted(rows), \A x \in rows : x.key = key
  PROVE  InPlace
<1>1. /\ DOMAIN db' = DOMAIN db \ rows
      /\ \A x \in DOMAIN db' : db'[x] = db[x]
  <2>1. PICK d : d = deleted(rows)
    OBVIOUS
  <2>2. DOMAIN d = DOMAIN db \ rows /\ \A x \in DOMAIN db \ rows : d[x] = db[x]
    BY <2>1, DeletedFacts
  <2>3. QED
    BY <2>1, <2>2
<1>2. Changed \subseteq rows \ DOMAIN db'
  BY <1>1 DEF Changed
<1>3. QED
  BY <1>2 DEF InPlace

(* Every write stays in the place that asked for it, and stores no row the *)
(* answer does not name.                                                   *)
THEOREM WritesAreConfined == Spec => WritesStayInPlace
<1>1. TypeOK /\ [Next]_vars => InPlace
  <2> SUFFICES ASSUME TypeOK, [Next]_vars PROVE InPlace
    OBVIOUS
  <2>1. CASE \E c \in Sender : \E role : WordAdd(c, role) \/ AliasAdd(c, role)
    <3>1. PICK c, role, k, v : Store(c, role, k, v)
      BY <2>1, AddIsStore
    <3> DEFINE a == append(k, v)
    <3>2. /\ db' = a.rows
          /\ answer' = IF a.res = 0 THEN {} ELSE {[key |-> k, value |-> v]}
      BY <3>1 DEF Store
    <3>3. SameBut(k, a.rows) /\ (a.res = 0 => a.rows = db)
      BY AppendFacts
    <3> HIDE DEF a
    <3>4. db' = db \/ \E x \in answer' : x.key = k
      BY <3>2, <3>3
    <3>5. QED
      BY <3>2, <3>3, <3>4, OneRowInPlace
  <2>2. CASE \E c \in Sender, table \in {"words", "aliases"} : \E role, least, name :
               \/ DeleteRows(c, role, least, ofName(table, keyOf(c), name))
               \/ DeleteRows(c, role, least, ofStorage(table, keyOf(c)))
    <3>1. PICK c, table, name :
            \/ db' = deleted(ofName(table, keyOf(c), name))
            \/ db' = deleted(ofStorage(table, keyOf(c)))
      BY <2>2 DEF DeleteRows
    <3>2. \A x \in ofStorage(table, keyOf(c)) : x.key = keyOf(c)
      BY DEF ofStorage
    <3>3. ofName(table, keyOf(c), name) \subseteq ofStorage(table, keyOf(c))
      BY DEF ofName
    <3>4. QED
      BY <3>1, <3>2, <3>3, DeletedInPlace
  <2>3. CASE SaveValue
    <3>1. PICK f : LET k == field(saving.room, f)
                   IN  /\ db' = saveValue(k, saving.todo[f])
                       /\ answer' = answer \union {[key |-> k, value |-> saving.todo[f]]}
      BY <2>3 DEF SaveValue
    <3> DEFINE k == field(saving.room, f)
    <3>2. db' = saveValue(k, saving.todo[f])
      BY <3>1
    <3>3. [key |-> k, value |-> saving.todo[f]] \in answer'
      BY <3>1
    <3>4. \E a \in answer' : a.key = k
      BY <3>3
    <3> HIDE DEF k
    <3>5. QED
      BY <3>2, <3>4, SaveFacts, OneRowInPlace
  <2>4. CASE db' = db
    BY <2>4 DEF InPlace, Changed
  <2>5. QED
    BY <2>1, <2>2, <2>3, <2>4, Steps
       DEF ConfigSet, Submit, Saves, Refuse, Enter, Leave, Cancel, OpenForm,
           Die, Start, vars
<1>2. TypeOK /\ [Next]_vars => [InPlace]_vars
  BY <1>1
<1>3. QED
  BY TypeCorrect, <1>1, PTL DEF Spec, WritesStayInPlace, InPlace
=============================================================================
