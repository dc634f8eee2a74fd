------------------------------ MODULE Storage ------------------------------
(***************************************************************************)
(* What the bot stores for a room or for a user of its own: words          *)
(* (wordlist.cpp, wordplugin.cpp), aliases (aliaslist.cpp,                 *)
(* aliasplugin.cpp) and the fields of a room's configuration               *)
(* (sqlbasedconfigurator.cpp, mucconfigurator.cpp, configplugin.cpp), each *)
(* under the StorageKey that MucPlugin or RosterPlugin gives the sender.   *)
(*                                                                         *)
(* The tables are those of pgsql.sql: DataStorage::connect() turns down    *)
(* every database but one of version 401, which MySQL has no scripts for.  *)
(* A statement that fails changes nothing and the process goes on.  The    *)
(* bot may die between two statements of a handler.                        *)
(*                                                                         *)
(* SHOW, COUNT, NAMES, GET and LIST read only and are left out, and so are *)
(* the date of a word, whether an alias is global and what a value means.  *)
(***************************************************************************)
EXTENDS Naturals, Functions, Sequences

CONSTANTS
  Room,         \* ids of the rooms (conferences.id)
  User,         \* bare JIDs that talk to the bot outside of rooms
  Nick,         \* nicks that define words
  NoNick,       \* the null string JIDtoNick() gives for a user
  Name,         \* names of words and aliases
  LongName,     \* those of more than 50 characters
  Value,        \* values of all three tables
  LongValue,    \* those of more than 250 characters
  Field,        \* fields a form may name
  Available,    \* those configuration_fields has for the MUC plugin
  Default,      \* their default_value
  Role,         \* what the sender may be
  AutoCreate,   \* what roster/autocreate_storage may be
  MaxCommands,  \* commands that are given
  MaxDeaths     \* how often the process dies

ROLE_ADMIN == 50
ROLE_OWNER == 100

ASSUME StorageAssumption ==
  /\ Room \subseteq Nat \ {0}
  /\ NoNick \notin Nick
  /\ LongName \subseteq Name /\ LongValue \subseteq Value
  /\ Available \subseteq Field /\ Default \in Value
  /\ Role \subseteq Nat /\ AutoCreate \subseteq BOOLEAN
  /\ {MaxCommands, MaxDeaths} \subseteq Nat

VARIABLES
  up, autoCreate,  \* does the process run, and its roster/autocreate_storage
  roster,          \* the table roster: users in the order of their ids
  db,              \* the tables words, aliases and configuration
  cache,           \* cache[r]: the fields the MucConfigurator of r has parsed
  form,            \* form[r]: what a form somebody is filling in for r shows
  saving,          \* the room and what saveFields() still has to save
  answer,          \* the rows the last answer says are stored
  commands, deaths

vars == <<up, autoCreate, roster, db, cache, form, saving, answer, commands,
          deaths>>

StorageKey == [plugin : {1}, storage : Room] \union
              [plugin : {2}, storage : Nat \ {0}]

RowKey ==
  [table : {"words"}, key : StorageKey, name : Name, nick : Nick] \union
  [table : {"aliases"}, key : StorageKey, name : Name] \union
  [table : {"configuration"}, key : StorageKey, name : Available]

Fields == [Available -> Value]
NoFields == <<>>
NotSaving == [room |-> 0, todo |-> <<>>]

-----------------------------------------------------------------------------
(* The database.                                                           *)

(* Does a row fit its columns: a name of varchar(50), a nick that is not   *)
(* null, a value of text, varchar(200) or varchar(250)?                    *)
fitsName(k) == /\ k.name \notin LongName
               /\ k.table = "words" => k.nick # NoNick
fitsValue(k, v) == k.table = "words" \/ v \notin LongValue
fits(k, v) == fitsName(k) /\ fitsValue(k, v)

(* f with v at k, where it may have had a value or none.                   *)
with(f, k, v) == [x \in DOMAIN f \union {k} |-> IF x = k THEN v ELSE f[x]]

canInsert(k, v) == k \notin DOMAIN db /\ fits(k, v)
inserted(k, v) == with(db, k, v)

(* Mutant: WHERE forgets the nick.                                         *)
updatedForAll(k, v) ==
  [x \in DOMAIN db |-> IF x.table = k.table /\ x.key = k.key /\ x.name = k.name
                         THEN v ELSE db[x]]

(* UPDATE ... SET value=? WHERE the key is k: no row is no error.          *)
updated(k, v) == [x \in DOMAIN db |-> IF x = k THEN v ELSE db[x]]

deleted(rows) == Restrict(db, DOMAIN db \ rows)

ofStorage(table, key) == {k \in DOMAIN db : k.table = table /\ k.key = key}
ofName(table, key, name) == {k \in ofStorage(table, key) : k.name = name}

(* Mutant: a definition that exists is left as it is.                      *)
appendOnly(k, v) ==
  [res |-> IF canInsert(k, v) THEN 1 ELSE 2,
   rows |-> IF canInsert(k, v) THEN inserted(k, v) ELSE db]

(* append() of WordList and of AliasList: INSERT, and if that fails        *)
(* UPDATE.  0 stands for an error, 1 for added, 2 for updated.  WordList   *)
(* goes on to delete all but MAXOLD definitions with DELETE ... ORDER BY   *)
(* DATE LIMIT, which is no statement of PostgreSQL and fails unnoticed.    *)
append(k, v) ==
  IF canInsert(k, v) THEN [res |-> 1, rows |-> inserted(k, v)]
  ELSE IF k \in DOMAIN db /\ ~fitsValue(k, v) THEN [res |-> 0, rows |-> db]
  ELSE [res |-> 2, rows |-> updated(k, v)]

-----------------------------------------------------------------------------
(* Whose storage: GluxiBot::getStorage() asks MucPlugin, then RosterPlugin.*)

idOf(u) == CHOOSE i \in DOMAIN roster : roster[i] = u
hasStorage(u) == \E i \in DOMAIN roster : roster[i] = u

(* RosterPlugin::getStorage() with createStorage().                        *)
withStorage(u) ==
  IF hasStorage(u) \/ ~autoCreate THEN roster ELSE Append(roster, u)

Here == {r \in Room : cache[r] # NoFields}

(* The senders that have a storage, and the key of each.                   *)
IsServed(c) == IF c \in User THEN hasStorage(c) \/ autoCreate ELSE c \in Here
keyOf(c) ==
  IF c \in User
    THEN [plugin |-> 2,
          storage |-> IF hasStorage(c) THEN idOf(c) ELSE Len(roster) + 1]
    ELSE [plugin |-> 1, storage |-> c]

Sender == Here \union User

-----------------------------------------------------------------------------
IsIdle == up /\ saving = NotSaving

Command == IsIdle /\ commands < MaxCommands /\ commands' = commands + 1

(* The sender's storage is looked up, and created when it is a user's      *)
(* first.                                                                  *)
LookUp(c) == roster' = IF c \in User THEN withStorage(c) ELSE roster

TablesOnly == UNCHANGED <<up, autoCreate, cache, form, saving, deaths>>

(* Too low a role, or a sender without a storage: nothing is stored.  The  *)
(* alias plugin has looked for an alias of the name of the command before, *)
(* unless it is ALIAS.                                                     *)
Refuse(c, role, least) ==
  /\ Command
  /\ role < least \/ ~IsServed(c)
  /\ LookUp(c) \/ roster' = roster
  /\ db' = db /\ answer' = {}
  /\ TablesOnly

(* append() and the answer "Saved", "Updated" or "Can't save".             *)
Store(c, role, k, v) ==
  /\ Command /\ role >= ROLE_ADMIN /\ IsServed(c)
  /\ LET a == append(k, v)
     IN  /\ db' = a.rows
         /\ answer' = IF a.res = 0 THEN {} ELSE {[key |-> k, value |-> v]}
  /\ LookUp(c)
  /\ TablesOnly

(* WORD ADD name=value.  Only an occupant of a room has a nick.            *)
WordAdd(c, role) ==
  \E name \in Name, v \in Value,
     n \in IF c \in User THEN {NoNick} ELSE Nick :
    Store(c, role, [table |-> "words", key |-> keyOf(c), name |-> name, nick |-> n],
          v)

(* ALIAS ADD name=value.                                                   *)
AliasAdd(c, role) ==
  \E name \in Name, v \in Value :
    Store(c, role, [table |-> "aliases", key |-> keyOf(c), name |-> name], v)

DeleteRows(c, role, least, rows) ==
  /\ Command /\ role >= least /\ IsServed(c)
  /\ db' = deleted(rows)
  /\ answer' = {}
  /\ LookUp(c)
  /\ TablesOnly

(* WORD DEL and ALIAS DEL.                                                 *)
Del(c, role) ==
  \E table \in {"words", "aliases"}, name \in Name :
    DeleteRows(c, role, ROLE_ADMIN, ofName(table, keyOf(c), name))

(* WORD CLEAR, for the owner, and ALIAS CLEAR.                             *)
WordClear(c, role) ==
  DeleteRows(c, role, ROLE_OWNER, ofStorage("words", keyOf(c)))
AliasClear(c, role) ==
  DeleteRows(c, role, ROLE_ADMIN, ofStorage("aliases", keyOf(c)))

-----------------------------------------------------------------------------
(* The configuration of a room.                                            *)

field(r, f) == [table |-> "configuration",
                key |-> [plugin |-> 1, storage |-> r], name |-> f]

(* loadFields(): the available fields with their stored or default values. *)
loadFields(rows, r) ==
  [f \in Available |-> IF field(r, f) \in DOMAIN rows
                         THEN rows[field(r, f)] ELSE Default]

(* saveValue(): SELECT, then UPDATE or INSERT, of which nobody asks        *)
(* whether they succeeded.                                                 *)
saveValue(k, v) ==
  IF k \in DOMAIN db THEN IF fitsValue(k, v) THEN updated(k, v) ELSE db
  ELSE IF fits(k, v) THEN inserted(k, v) ELSE db

(* Mutant: saveFields() leaves the configurator as it is.                  *)
parseOnce(r, rows) ==
  IF r \in Here THEN cache ELSE [cache EXCEPT ![r] = loadFields(rows, r)]

(* MucConfigurator::parse(), which saveFields() ends with.                 *)
parse(r, rows) == [cache EXCEPT ![r] = loadFields(rows, r)]

(* The bot has entered r: MucPlugin::onPresence() creates the configurator *)
(* with the Conference.                                                    *)
Enter(r) ==
  /\ IsIdle /\ r \notin Here
  /\ cache' = parse(r, db)
  /\ UNCHANGED <<up, autoCreate, roster, db, form, saving, answer, commands,
                 deaths>>

(* LEAVE, a kick: the Conference goes, the rows stay.                      *)
Leave(r) ==
  /\ IsIdle /\ r \in Here
  /\ cache' = [cache EXCEPT ![r] = NoFields]
  /\ answer' = {}
  /\ UNCHANGED <<up, autoCreate, roster, db, form, saving, commands, deaths>>

(* The fields that configuration_fields knows, in whatever order the form  *)
(* has them.                                                               *)
saveFields(r, fields) ==
  saving' = [room |-> r, todo |-> Restrict(fields, DOMAIN fields \cap Available)]

Saves(r, role) ==
  /\ Command /\ role >= ROLE_ADMIN /\ r \in Here
  /\ answer' = {}
  /\ UNCHANGED <<up, autoCreate, roster, db, cache, deaths>>

(* SET field value.                                                        *)
ConfigSet(r, role) ==
  /\ Saves(r, role)
  /\ \E f \in Available, v \in Value : saveFields(r, with(NoFields, f, v))
  /\ UNCHANGED form

(* handleDiscoRequest(): somebody opens the form.                          *)
OpenForm(r, role) ==
  /\ Command /\ role >= ROLE_ADMIN /\ r \in Here
  /\ form' = [form EXCEPT ![r] = loadFields(db, r)]
  /\ answer' = {}
  /\ UNCHANGED <<up, autoCreate, roster, db, cache, saving, deaths>>

(* ... changes a field, or names one the bot does not know, and submits    *)
(* all of them; or cancels.                                                *)
Submit(r, role) ==
  /\ Saves(r, role) /\ form[r] # NoFields
  /\ \E f \in Field, v \in Value : saveFields(r, with(form[r], f, v))
  /\ form' = [form EXCEPT ![r] = NoFields]

Cancel(r) ==
  /\ Command /\ form[r] # NoFields
  /\ form' = [form EXCEPT ![r] = NoFields]
  /\ answer' = {}
  /\ UNCHANGED <<up, autoCreate, roster, db, cache, saving, deaths>>

(* One turn of the loop of SqlBasedConfigurator::saveFields(); after the   *)
(* last one parse() and the answer "Updated" or "completed".               *)
SaveValue ==
  /\ up
  /\ \E f \in DOMAIN saving.todo :
       LET r == saving.room
           k == field(r, f)
           v == saving.todo[f]
           rest == DOMAIN saving.todo \ {f}
       IN  /\ db' = saveValue(k, v)
           /\ answer' = answer \union {[key |-> k, value |-> v]}
           /\ IF rest = {}
                THEN saving' = NotSaving /\ cache' = parse(r, db')
                ELSE /\ saving' = [saving EXCEPT !.todo = Restrict(@, rest)]
                     /\ cache' = cache
  /\ UNCHANGED <<up, autoCreate, roster, form, commands, deaths>>

-----------------------------------------------------------------------------
(* The process dies, between two statements too, and starts again.         *)
Die ==
  /\ up /\ deaths < MaxDeaths
  /\ deaths' = deaths + 1 /\ up' = FALSE
  /\ cache' = [r \in Room |-> NoFields] /\ saving' = NotSaving /\ answer' = {}
  /\ UNCHANGED <<autoCreate, roster, db, form, commands>>

Start ==
  /\ ~up /\ up' = TRUE
  /\ autoCreate' \in AutoCreate
  /\ UNCHANGED <<roster, db, cache, form, saving, answer, commands, deaths>>

Init ==
  /\ up = TRUE /\ autoCreate \in AutoCreate
  /\ roster = <<>> /\ db = <<>>
  /\ cache = [r \in Room |-> NoFields] /\ form = [r \in Room |-> NoFields]
  /\ saving = NotSaving /\ answer = {}
  /\ commands = 0 /\ deaths = 0

Next ==
  \/ \E c \in Sender, role \in Role :
       \/ WordAdd(c, role) \/ WordClear(c, role)
       \/ AliasAdd(c, role) \/ AliasClear(c, role)
       \/ Del(c, role)
       \/ Refuse(c, role, ROLE_ADMIN) \/ Refuse(c, role, ROLE_OWNER)
  \/ \E r \in Room, role \in Role :
       ConfigSet(r, role) \/ OpenForm(r, role) \/ Submit(r, role)
  \/ \E r \in Room : Enter(r) \/ Leave(r) \/ Cancel(r)
  \/ SaveValue \/ Die \/ Start

Spec == Init /\ [][Next]_vars

-----------------------------------------------------------------------------
(* Each variable holds what the code's types and tables allow.             *)
TypeOK ==
  /\ up \in BOOLEAN /\ autoCreate \in AutoCreate
  /\ roster \in Seq(User) /\ IsInjective(roster)
  /\ DOMAIN db \subseteq RowKey
  /\ \A k \in DOMAIN db : fits(k, db[k]) /\ db[k] \in Value
  /\ cache \in [Room -> Fields \union {NoFields}]
  /\ form \in [Room -> Fields \union {NoFields}]
  /\ \/ saving = NotSaving
     \/ saving \in [room : Room, todo : UNION {[S -> Value] : S \in SUBSET Available}]
  /\ \A a \in answer : a.value \in Value
  /\ commands \in 0..MaxCommands /\ deaths \in 0..MaxDeaths

(* What an answer ("Saved", "Updated", "completed") says is stored is in   *)
(* the table, for whatever fits its columns: INSERT, UPDATE and SELECT     *)
(* agree on what the row is.                                               *)
AnswerIsTrue ==
  \A a \in answer :
    fits(a.key, a.value) => a.key \in DOMAIN db /\ db[a.key] = a.value

(* Out of saveFields() a room's configurator goes by what the table says,  *)
(* across deaths, forms of other days and fields nobody has set.           *)
SettingsAreApplied ==
  \A r \in Here : saving.room # r => cache[r] = loadFields(db, r)

Changed == {k \in DOMAIN db \union DOMAIN db' :
              \/ k \in DOMAIN db \ DOMAIN db' \/ k \in DOMAIN db' \ DOMAIN db
              \/ k \in DOMAIN db /\ k \in DOMAIN db' /\ db[k] # db'[k]}

(* A step changes the rows of one place only, never of two rooms or of the *)
(* user whose storage has the same number, and gives a row a value only    *)
(* where the answer names it: nobody touches the definitions of other      *)
(* nicks.                                                                  *)
WritesStayInPlace ==
  [][\A k \in Changed :
       /\ \A x \in Changed : x.key = k.key
       /\ k \in DOMAIN db' => \E a \in answer' : a.key = k]_vars
=============================================================================
