------------------------------- MODULE AList -------------------------------
(***************************************************************************)
(* The automatic lists of one room (alist.cpp, alistitem.cpp, autoLists()  *)
(* of mucplugin.cpp): rules to ban, kick, devoice or voice whoever fits a  *)
(* chain of conditions.  The rows of conference_alists are the truth, the  *)
(* AListItem objects a cache of them that is reloaded after every insert.  *)
(*                                                                         *)
(* A chain takes one row per condition.  There are no transactions: every  *)
(* INSERT and DELETE stands alone, and the process may die between two.    *)
(***************************************************************************)
EXTENDS Integers, FiniteSets, Sequences, SequencesExt

CONSTANTS
  Cond,         \* conditions of a rule: matcher, test, value and "!"
  Test,         \* Test[c]: c without its "!", what the unique key can see
  UsedList,     \* the lists the admins put rules into
  SharedTails,  \* may a new chain end in conditions whose rows are stored?
  UsedChain,    \* the chains of conditions they give
  MaxId         \* rows that are ever inserted

List == {"ban", "kick", "visitor", "participant", "moderator"}
CHILD_ALIST == "child"

ASSUME ListAssumption ==
  /\ DOMAIN Test = Cond
  /\ UsedList \subseteq List
  /\ SharedTails \in BOOLEAN
  /\ UsedChain \subseteq Seq(Cond) \ {<<>>}
  /\ MaxId \in Nat

VARIABLES
  up,       \* there is a Conference object
  rows,     \* the table conference_alists
  lastId,   \* its auto_increment
  items     \* items[l]: the AListItem objects of list l

listVars == <<up, rows, lastId, items>>

(* When a rule expires, compared to now.                                   *)
Expiry == {"never", "ahead", "past"}

(* child is 0 at the end of a chain, -1 when the child's INSERT failed.    *)
Row == [id : 1..MaxId, list : List \union {CHILD_ALIST}, cond : Cond,
        expire : Expiry, child : -1..MaxId]

(* An item with its children: the ids of their rows and the conditions.    *)
Item == [ids : Seq(1..MaxId), chain : Seq(Cond), expire : Expiry]

NoItems == [l \in List |-> {}]

ListInit ==
  /\ up = FALSE
  /\ rows = {}
  /\ lastId = 0
  /\ items = NoItems

-----------------------------------------------------------------------------
(* Reading the table.                                                      *)

(* The rows from the one with id i down, as child_id leads.                *)
chainOf(R) ==
  LET path[i \in -1..MaxId] ==
        LET found == {q \in R : q.id = i}
        IN  IF found = {} THEN <<>>
            ELSE LET q == CHOOSE q \in found : TRUE IN <<q>> \o path[q.child]
  IN  path

itemFromQuery(R, r) ==
  LET chain == chainOf(R)[r.id]
  IN  [ids   |-> [i \in DOMAIN chain |-> chain[i].id],
       chain |-> [i \in DOMAIN chain |-> chain[i].cond],
       expire |-> r.expire]

load(R, l) == {itemFromQuery(R, r) : r \in {q \in R : q.list = l}}

\* Mutant: only the first conditions are compared.
isSameTop(c, d) == Test[c[1]] = Test[d[1]]

(* Neither expire nor "!" count.                                           *)
isSameCondition(c, d) ==
  /\ Len(c) = Len(d)
  /\ \A i \in DOMAIN c : Test[c[i]] = Test[d[i]]

-----------------------------------------------------------------------------
(* Writing it.  A table is given as [rows, lastId, id], id being that of   *)
(* the row inserted last, or of the lack of one.                           *)

(* The unique key is (list, matcher, test, value, child_id).               *)
violatesKey(R, list, cond, child) ==
  \E r \in R : r.list = list /\ Test[r.cond] = Test[cond] /\ r.child = child

appendPrivate(t, list, cond, expire) ==
  IF violatesKey(t.rows, list, cond, t.id) THEN [t EXCEPT !.id = -1]
  ELSE LET r == [id |-> t.lastId + 1, list |-> list, cond |-> cond,
                 expire |-> expire, child |-> t.id]
       IN  [rows |-> t.rows \union {r}, lastId |-> r.id, id |-> r.id]

(* The last condition goes first, so that a row can name its child: the    *)
(* table after k INSERTs.                                                  *)
appendChildren(R, chain) ==
  LET t[k \in 0..Len(chain)] ==
        IF k = 0 THEN [rows |-> R, lastId |-> lastId, id |-> 0]
        ELSE appendPrivate(t[k - 1], CHILD_ALIST, chain[Len(chain) - k + 1], "never")
  IN  t

\* Mutant: the child's id is not handed to its parent.
insertUnlinked(R, l, chain, expire) ==
  appendPrivate([appendChildren(R, Tail(chain))[Len(chain) - 1] EXCEPT !.id = 0],
                l, chain[1], expire)

insertChain(R, l, chain, expire) ==
  appendPrivate(appendChildren(R, Tail(chain))[Len(chain) - 1], l, chain[1], expire)

\* Mutant: the children are deleted before their parent.
deletedBackwards(x, k) == {x.ids[i] : i \in (Len(x.ids) - k + 1)..Len(x.ids)}

(* What removeItem() has deleted after k of its statements.                *)
deleted(x, k) == {x.ids[i] : i \in 1..k}

Without(R, ids) == {r \in R : r.id \notin ids}
removeItem(R, x) == Without(R, deleted(x, Len(x.ids)))

isExpired(x) == x.expire = "past"

\* Mutant: the items that stay are not loaded again.
removeExpiredRows(t, L) ==
  LET gone == {x \in UNION {t.items[l] : l \in L} : isExpired(x)}
  IN  [rows |-> Without(t.rows, UNION {deleted(x, Len(x.ids)) : x \in gone}),
       items |-> t.items]

(* removeExpired() of the lists L, for t = [rows, items].                  *)
removeExpired(t, L) ==
  LET gone == {x \in UNION {t.items[l] : l \in L} : isExpired(x)}
      left == Without(t.rows, UNION {deleted(x, Len(x.ids)) : x \in gone})
  IN  [rows  |-> left,
       items |-> [l \in List |-> IF t.items[l] \intersect gone = {} THEN t.items[l]
                                 ELSE load(left, l)]]

(* Conference::removeExpired() leaves two lists out.                       *)
ExpiringList == {"kick", "visitor", "moderator"}
-----------------------------------------------------------------------------
(* The commands.                                                           *)

(* The list after ABAN and the like, up to recheckJIDs(): an item with the *)
(* same conditions goes, the new one is stored and the list is reloaded.   *)
Replaced(l, chain) ==
  LET same == {x \in items[l] : isSameCondition(x.chain, chain)}
  IN  IF same = {} THEN {rows} ELSE {removeItem(rows, x) : x \in same}

tailIsStored(R, chain) ==
  \E r \in R, i \in 2..Len(chain) :
    r.list = CHILD_ALIST /\ Test[r.cond] = Test[chain[i]]

MayAdd(l, chain, R) ==
  /\ up
  /\ R \in Replaced(l, chain)
  /\ lastId + Len(chain) <= MaxId
  /\ SharedTails \/ ~tailIsStored(R, chain)

added(l, chain, expire, R) ==
  LET t == insertChain(R, l, chain, expire)
  IN  [rows |-> t.rows, lastId |-> t.lastId,
       items |-> [items EXCEPT ![l] = load(t.rows, l)]]

Del(l, x) ==
  /\ up
  /\ rows' = removeItem(rows, x)
  /\ items' = [items EXCEPT ![l] = @ \ {x}]
  /\ UNCHANGED <<up, lastId>>

Clear(l) ==
  /\ up
  /\ rows' = Without(rows, UNION {deleted(x, Len(x.ids)) : x \in items[l]})
  /\ items' = [items EXCEPT ![l] = {}]
  /\ UNCHANGED <<up, lastId>>

Show(l) ==
  LET t == removeExpired([rows |-> rows, items |-> items], {l})
  IN  /\ up
      /\ rows' = t.rows
      /\ items' = t.items
      /\ UNCHANGED <<up, lastId>>

-----------------------------------------------------------------------------
(* Time, and the ends of the process.                                      *)

timePasses ==
  \E r \in {q \in rows : q.expire = "ahead"} :
    /\ rows' = (rows \ {r}) \union {[r EXCEPT !.expire = "past"]}
    /\ items' = [l \in List |->
         {IF x.ids[1] = r.id THEN [x EXCEPT !.expire = "past"] ELSE x : x \in items[l]}]
    /\ UNCHANGED <<up, lastId>>

(* The constructor of AList asks removeExpired() before it has any item.   *)
starts ==
  /\ ~up
  /\ up' = TRUE
  /\ items' = [l \in List |-> load(rows, l)]
  /\ UNCHANGED <<rows, lastId>>

stops ==
  /\ up
  /\ up' = FALSE
  /\ items' = NoItems
  /\ UNCHANGED <<rows, lastId>>

(* The process dies after k statements of a removeItem(), of whatever      *)
(* command, or of an append() that has removed what it replaces.           *)
diesInRemoveItem(l, x, k) ==
  /\ up
  /\ rows' = Without(rows, deleted(x, k))
  /\ up' = FALSE
  /\ items' = NoItems
  /\ UNCHANGED lastId

diesInAppend(l, chain, R, k) ==
  LET t == appendChildren(R, Tail(chain))[k]
  IN  /\ MayAdd(l, chain, R)
      /\ rows' = t.rows
      /\ lastId' = t.lastId
      /\ up' = FALSE
      /\ items' = NoItems

-----------------------------------------------------------------------------
(* What the items hold is what the table would give a new process.         *)
CacheIsFaithful == up => \A l \in List : items[l] = load(rows, l)

(* No chain is cut or grafted: a child row that is named exists, and two   *)
(* rows never name the same one.                                           *)
LinksHold ==
  \A r \in rows :
    r.child > 0 =>
      /\ \E q \in rows : q.id = r.child /\ q.list = CHILD_ALIST
      /\ \A q \in rows : q.child = r.child => q = r

(* The rules in force are the rows of the lists with their chains.         *)
RulesStored ==
  UNION {{[list |-> l, chain |-> x.chain, expire |-> x.expire] : x \in load(rows, l)}
           : l \in List}

RuleBook == INSTANCE RuleBook WITH rules <- RulesStored
ImplementsRuleBook == RuleBook!Spec
=============================================================================
