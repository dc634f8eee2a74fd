------------------------- MODULE CheckMemberProofs -------------------------
(***************************************************************************)
(* Proofs about the automatic lists, for any conditions, chains of any     *)
(* length, any number of occupants, rows, commands and deaths.             *)
(***************************************************************************)
EXTENDS CheckMember, AListProofs

USE ListAssumption

(* The inductive invariant.  The table is one an INSERT may go into; the   *)
(* items of a Conference are what it would load; without one nobody is     *)
(* known.                                                                  *)
Cached == items = IF up THEN allItems(rows) ELSE NoItems
Known == /\ up \in BOOLEAN
         /\ role \in [Person -> Roles \union {"none"}]
         /\ version \in [Person -> {"unknown", "told", "silent"}]
         /\ asked \in [Person -> SUBSET Sentences]
         /\ ~up => \A p \in Person : role[p] = "none"

IInv == Fillable(rows) /\ Cached /\ Known

-----------------------------------------------------------------------------
(* What the steps do to the table and the lists.                           *)

LEMMA Shrunk ==
  ASSUME Fillable(rows), NEW Q, Table(Q), \A q \in Q : \E r \in rows : r.id = q.id,
         rows' = Q, lastId' = lastId
  PROVE  Fillable(rows)'
BY DEF Fillable

LEMMA CachedItems ==
  ASSUME Cached, up, NEW l \in List
  PROVE  items = allItems(rows) /\ items[l] = load(rows, l)
BY DEF Cached, allItems

LEMMA ReplacedTable ==
  ASSUME Fillable(rows), Cached, up, NEW l \in List, NEW chain, NEW R \in Replaced(l, chain)
  PROVE  /\ Fillable(R) /\ R \subseteq rows
         /\ \A k \in List : load(R, k) \subseteq load(rows, k)
         /\ \A k \in List \ {l} : load(R, k) = load(rows, k)
<1>1. CASE R = rows
  BY <1>1
<1>2. CASE \E x \in items[l] : R = removeItem(rows, x)
  <2>1. PICK x \in load(rows, l) : R = removeItem(rows, x)
    BY <1>2, CachedItems
  <2>2. Table(R) /\ R \subseteq rows /\ allItems(R) = [k \in List |-> load(rows, k) \ {x}]
    BY <2>1, RemoveItem DEF Fillable
  <2>3. \A k \in List : load(R, k) = load(rows, k) \ {x}
    BY <2>2 DEF allItems
  <2>4. \A k \in List \ {l} : x \notin load(rows, k)
    BY ItemInOneList DEF Fillable
  <2> QED BY <2>2, <2>3, <2>4 DEF Fillable
<1> QED BY <1>1, <1>2 DEF Replaced

LEMMA AddedTable ==
  ASSUME Fillable(rows), Cached, up, NEW l \in List, NEW chain \in Seq(Cond) \ {<<>>},
         NEW expire \in {"never", "ahead"},
         NEW R, MayAdd(l, chain, R), NEW a, a = added(l, chain, expire, R)
  PROVE  /\ Table(a.rows) /\ a.lastId \in 0..MaxId /\ \A r \in a.rows : r.id <= a.lastId
         /\ a.items = allItems(a.rows)
<1>1. R \in Replaced(l, chain) /\ lastId + Len(chain) <= MaxId
  BY DEF MayAdd
<1>2. Fillable(R) /\ R \subseteq rows /\ \A k \in List \ {l} : load(R, k) = load(rows, k)
  BY <1>1, ReplacedTable
<1> DEFINE u == insertChain(R, l, chain, expire)
<1>3. expire \in Expiry
  BY DEF Expiry
<1>4. /\ Table(u.rows) /\ R \subseteq u.rows
      /\ u.lastId \in lastId..MaxId
      /\ \A r \in u.rows : r.id <= u.lastId
      /\ \A r \in u.rows \ R : r.list \in {l, CHILD_ALIST}
  <2> HIDE DEF u
  <2>1. u = insertChain(R, l, chain, expire)
    BY DEF u
  <2> QED BY <1>1, <1>2, <1>3, <2>1, ChainFills
<1>5. a = [rows |-> u.rows, lastId |-> u.lastId, items |-> [items EXCEPT ![l] = load(u.rows, l)]]
  BY DEF added
<1> HIDE DEF u
<1>6. u.lastId \in 0..MaxId
  BY <1>2, <1>4 DEF Fillable
<1>7. \A k \in List \ {l} : load(u.rows, k) = load(R, k)
  <2> TAKE k \in List \ {l}
  <2>1. \A r \in u.rows \ R : r.list # k
    BY <1>4 DEF List, CHILD_ALIST
  <2> QED BY <1>2, <1>4, <2>1, GrownLoads DEF Fillable
<1>8. items = allItems(rows)
  BY CachedItems
<1>9. a.items = allItems(u.rows)
  BY <1>2, <1>5, <1>7, <1>8 DEF allItems
<1> QED BY <1>4, <1>5, <1>6, <1>9

LEMMA ExpiredTable ==
  ASSUME Fillable(rows), Cached, up, NEW L, L \subseteq List,
         NEW t, t = removeExpired([rows |-> rows, items |-> items], L)
  PROVE  /\ Fillable(t.rows) /\ t.items = allItems(t.rows)
         /\ \A l \in List : load(t.rows, l) = load(rows, l) \ expired(rows, L)
<1>1. t = removeExpired([rows |-> rows, items |-> allItems(rows)], L)
  BY CachedItems DEF Cached
<1>2. /\ Table(t.rows) /\ t.rows \subseteq rows
      /\ t.items = allItems(t.rows)
      /\ \A l \in List : load(t.rows, l) = load(rows, l) \ expired(rows, L)
  BY <1>1, RemoveExpired DEF Fillable
<1> QED BY <1>2 DEF Fillable

LEMMA ListNames == ExpiringList \subseteq List /\ UsedList \subseteq List
BY DEF ExpiringList, List

-----------------------------------------------------------------------------
(* What checkMember() asks.                                                *)

LEMMA Smallest ==
  ASSUME NEW S, S \subseteq Nat, S # {}
  PROVE  Min(S) \in S /\ \A i \in S : Min(S) <= i
BY LeastNat, Zenon DEF Min

hitsOf(its, p, r, know, e) ==
  {i \in DOMAIN Precedence : /\ reaches(Precedence[i], p, r)
                             /\ aFind(its, Precedence[i], p, know, e) # {}}

LEMMA PrecedenceFacts ==
  /\ DOMAIN Precedence = 1..5
  /\ Precedence[1] = "ban" /\ Precedence[2] = "kick"
  /\ \A i \in 1..5 : Precedence[i] \in List
  /\ \A l \in List : \E i \in 1..5 : l = Precedence[i]
BY DEF Precedence, List

LEMMA CheckedByRule ==
  ASSUME NEW its, NEW p, NEW r, NEW know, NEW e, NEW s \in checkMember(its, p, r, know, e)
  PROVE  \E l \in List : /\ Sentence(l) = s
                        /\ reaches(l, p, r)
                        /\ aFind(its, l, p, know, e) # {}
<1> DEFINE H == hitsOf(its, p, r, know, e)
<1>1. H \subseteq Nat
  BY PrecedenceFacts DEF hitsOf
<1>2. H # {} /\ s = Sentence(Precedence[Min(H)])
  BY DEF checkMember, hitsOf
<1>3. Min(H) \in H
  <2> HIDE DEF H
  <2> QED BY <1>1, <1>2, Smallest
<1>4. /\ Precedence[Min(H)] \in List
      /\ reaches(Precedence[Min(H)], p, r) /\ aFind(its, Precedence[Min(H)], p, know, e) # {}
  BY <1>3, PrecedenceFacts DEF hitsOf
<1> QED BY <1>2, <1>4

LEMMA CheckedType ==
  ASSUME NEW its, NEW p, NEW r, NEW know, NEW e
  PROVE  checkMember(its, p, r, know, e) \subseteq Sentences
<1>1. \A l \in List : Sentence(l) \in Sentences
  BY DEF Sentence, Sentences, Roles, List
<1> QED BY <1>1, CheckedByRule

(* Who is hit by the first two lists is sentenced, unless the bot is an    *)
(* owner and has somebody to warn.                                         *)
LEMMA CheckedForSure ==
  ASSUME NEW its, NEW p, NEW r, NEW know, NEW e, NEW l \in {"ban", "kick"},
         reaches(l, p, r), aFind(its, l, p, know, e) # {},
         ~BotIsOwner \/ e.s = "null"
  PROVE  checkMember(its, p, r, know, e) \intersect {"outcast", "none"} # {}
<1> DEFINE H == hitsOf(its, p, r, know, e)
           m == Min(H)
<1>1. H \subseteq 1..5
  BY PrecedenceFacts DEF hitsOf
<1>2. PICK i \in H : i \in 1..2
  <2>1. CASE l = "ban"
    <3>1. 1 \in H
      BY <2>1, PrecedenceFacts DEF hitsOf
    <3> QED BY <3>1
  <2>2. CASE l = "kick"
    <3>1. 2 \in H
      BY <2>2, PrecedenceFacts DEF hitsOf
    <3> QED BY <3>1
  <2> QED BY <2>1, <2>2
<1>3. m \in 1..2
  <2> HIDE DEF H
  <2>1. H \subseteq Nat /\ H # {}
    BY <1>1, <1>2
  <2>2. Min(H) \in H /\ Min(H) <= i
    BY <1>2, <2>1, Smallest
  <2>3. Min(H) \in 1..5 /\ i \in 1..2
    BY <1>1, <1>2, <2>2
  <2> HIDE DEF m
  <2>4. m \in 1..5 /\ m <= i
    BY <2>2, <2>3 DEF m
  <2> QED BY <2>3, <2>4
<1>4. H # {}
  BY <1>2
<1>5. checkMember(its, p, r, know, e) =
        IF Precedence[m] = "ban" /\ BotIsOwner /\ e.s # "null" THEN {}
        ELSE {Sentence(Precedence[m])}
  BY <1>4 DEF checkMember, hitsOf
<1> HIDE DEF m
<1>6. Precedence[m] \in {"ban", "kick"}
  BY <1>3, PrecedenceFacts
<1> QED BY <1>5, <1>6 DEF Sentence

-----------------------------------------------------------------------------
(* The inductive invariant is one.                                         *)

LEMMA ListsStart == Init => IInv
<1> SUFFICES ASSUME Init PROVE IInv
  OBVIOUS
<1>1. Fillable(rows)
  BY DEF Init, ListInit, Fillable, Table
<1> QED BY <1>1 DEF Init, ListInit, IInv, Cached, Known

LEMMA PresenceKeeps ==
  ASSUME IInv, up, NEW p \in Person, NEW r \in Roles, onPresence(p, r)
  PROVE  IInv'
<1> DEFINE t == removeExpired([rows |-> rows, items |-> items], ExpiringList)
<1>1. Fillable(t.rows) /\ t.items = allItems(t.rows)
  BY ExpiredTable, ListNames DEF IInv
<1>2. rows' = t.rows /\ items' = t.items /\ up' = up /\ lastId' = lastId
  BY DEF onPresence
<1> HIDE DEF t
<1>3. Fillable(rows)' /\ Cached'
  BY <1>1, <1>2 DEF Fillable, Cached, allItems
<1>4. asked' \in [Person -> SUBSET Sentences]
  <2>1. checkMember(t.items, p, r, version[p], Presence) \subseteq Sentences
    BY CheckedType
  <2> QED BY <2>1 DEF onPresence, IInv, Known, t
<1>5. Known'
  BY <1>4 DEF onPresence, IInv, Known
<1> QED BY <1>3, <1>5 DEF IInv

LEMMA MemberKeeps ==
  ASSUME IInv, NEW p \in Person, member(p)
  PROVE  IInv'
<1>1. ASSUME NEW r \in Roles, enters(p, r) \/ showsPresence(p, r) PROVE IInv'
  BY <1>1, PresenceKeeps DEF enters, showsPresence, present
<1>2. ASSUME UNCHANGED listVars PROVE (Fillable(rows) /\ Cached)'
  BY <1>2 DEF listVars, IInv, Fillable, Cached, allItems
<1>3. CASE leaves(p)
  <2>1. Known'
    BY <1>3 DEF leaves, listVars, IInv, Known
  <2> QED BY <1>2, <1>3, <2>1 DEF leaves, IInv
<1>4. ASSUME NEW text, NEW what, says(p, text, what) PROVE IInv'
  <2>1. checkMember(items, p, role[p], version[p], Message(text, what)) \subseteq Sentences
    BY CheckedType
  <2>2. Known'
    BY <1>4, <2>1 DEF says, listVars, IInv, Known
  <2> QED BY <1>2, <1>4, <2>2 DEF says, IInv
<1>5. ASSUME NEW how \in {"told", "silent"}, versionStored(p, how) PROVE IInv'
  <2>1. checkMember(items, p, role[p], how, VersionKnown) \subseteq Sentences
    BY CheckedType
  <2>2. Known'
    BY <1>5, <2>1 DEF versionStored, listVars, IInv, Known
  <2> QED BY <1>2, <1>5, <2>2 DEF versionStored, IInv
<1> QED BY <1>1, <1>3, <1>4, <1>5 DEF member

LEMMA AddKeeps ==
  ASSUME IInv, NEW l \in List, NEW chain \in Seq(Cond) \ {<<>>},
         NEW expire \in {"never", "ahead"}, autoListsAdd(l, chain, expire)
  PROVE  IInv'
<1>1. PICK R \in Replaced(l, chain) :
        LET a == added(l, chain, expire, R)
            t == removeExpired([rows |-> a.rows, items |-> a.items], ExpiringList)
        IN  /\ MayAdd(l, chain, R)
            /\ lastId' = a.lastId
            /\ rows' = t.rows
            /\ items' = t.items
            /\ asked' = recheckJIDs(t.items)
  BY DEF autoListsAdd
<1> DEFINE a == added(l, chain, expire, R)
           t == removeExpired([rows |-> a.rows, items |-> a.items], ExpiringList)
<1>2. up /\ up' = up /\ role' = role /\ version' = version
  BY <1>1 DEF MayAdd, autoListsAdd
<1>3. /\ Table(a.rows) /\ a.lastId \in 0..MaxId /\ \A r \in a.rows : r.id <= a.lastId
      /\ a.items = allItems(a.rows)
  <2> HIDE DEF a
  <2>1. a = added(l, chain, expire, R) /\ MayAdd(l, chain, R)
    BY <1>1 DEF a
  <2> QED BY <1>2, <2>1, AddedTable DEF IInv
<1>4. /\ Table(t.rows) /\ t.rows \subseteq a.rows
      /\ t.items = allItems(t.rows)
  <2> HIDE DEF a
  <2> QED BY <1>3, RemoveExpired, ListNames
<1>5. lastId' = a.lastId /\ rows' = t.rows /\ items' = t.items /\ asked' = recheckJIDs(t.items)
  BY <1>1
<1> HIDE DEF a, t
<1>6. Fillable(rows)' /\ Cached'
  BY <1>2, <1>3, <1>4, <1>5 DEF Fillable, Cached, allItems
<1>7. asked' \in [Person -> SUBSET Sentences]
  <2>1. \A p \in Person : checkMember(t.items, p, role[p], version[p], Recheck) \subseteq Sentences
    BY CheckedType
  <2> QED BY <1>5, <2>1 DEF recheckJIDs, IInv, Known
<1> QED BY <1>2, <1>6, <1>7 DEF IInv, Known

LEMMA DelKeeps ==
  ASSUME IInv, NEW l \in List, NEW x \in items[l], Del(l, x)
  PROVE  (Fillable(rows) /\ Cached)'
<1>1. up /\ up' = up /\ lastId' = lastId /\ rows' = removeItem(rows, x)
      /\ items' = [items EXCEPT ![l] = @ \ {x}]
  BY DEF Del
<1>2. items = allItems(rows) /\ x \in load(rows, l)
  BY <1>1, CachedItems DEF IInv
<1>3. /\ Table(rows') /\ rows' \subseteq rows
      /\ allItems(rows') = [k \in List |-> load(rows, k) \ {x}]
  BY <1>1, <1>2, RemoveItem DEF IInv, Fillable
<1>4. \A k \in List : k # l => x \notin load(rows, k)
  BY <1>2, ItemInOneList DEF IInv, Fillable
<1>5. items' = allItems(rows')
  <2>1. items' = [k \in List |-> load(rows, k) \ {x}]
    BY <1>1, <1>2, <1>4 DEF allItems
  <2> QED BY <1>3, <2>1
<1> QED BY <1>1, <1>3, <1>5 DEF IInv, Fillable, Cached, allItems

LEMMA ClearKeeps ==
  ASSUME IInv, NEW l \in List, Clear(l)
  PROVE  (Fillable(rows) /\ Cached)'
<1>1. up /\ up' = up /\ lastId' = lastId /\ rows' = Without(rows, rowsOf(items[l]))
      /\ items' = [items EXCEPT ![l] = {}]
  BY DEF Clear, rowsOf
<1>2. items = allItems(rows) /\ items[l] = load(rows, l)
  BY <1>1, CachedItems DEF IInv
<1>3. Table(rows') /\ rows' \subseteq rows /\ items' = allItems(rows')
  BY <1>1, <1>2, ClearList DEF IInv, Fillable
<1> QED BY <1>1, <1>3 DEF IInv, Fillable, Cached, allItems

LEMMA ShowKeeps ==
  ASSUME IInv, NEW l \in List, Show(l)
  PROVE  (Fillable(rows) /\ Cached)'
<1> DEFINE t == removeExpired([rows |-> rows, items |-> items], {l})
<1>1. up /\ up' = up /\ lastId' = lastId /\ rows' = t.rows /\ items' = t.items
  BY DEF Show
<1>2. Fillable(t.rows) /\ t.items = allItems(t.rows)
  BY <1>1, ExpiredTable DEF IInv
<1> HIDE DEF t
<1> QED BY <1>1, <1>2 DEF Fillable, Cached, allItems

LEMMA EditKeeps ==
  ASSUME IInv, autoListsEdit
  PROVE  IInv'
<1>1. (Fillable(rows) /\ Cached)' /\ up' = up
  BY ListNames, DelKeeps, ClearKeeps, ShowKeeps DEF autoListsEdit, Del, Clear, Show
<1> QED BY <1>1 DEF autoListsEdit, memberVars, IInv, Known

LEMMA TimeKeeps ==
  ASSUME IInv, time
  PROVE  IInv'
<1>1. PICK r \in rows : /\ r.expire = "ahead"
                      /\ rows' = (rows \ {r}) \union {due(r)}
                      /\ items' = [l \in List |->
                           {IF x.ids[1] = r.id THEN due(x) ELSE x : x \in items[l]}]
                      /\ UNCHANGED <<up, lastId>>
  BY DEF time, timePasses, due
<1>2. Table(rows)
  BY DEF IInv, Fillable
<1>3. Changed(rows, rows', r, due(r))
  BY <1>1, <1>2, DueChanges
<1>4. Fillable(rows)'
  <2>1. Table(rows')
    BY <1>2, <1>3, ChangedTable
  <2> QED BY <1>1, <1>3, <2>1 DEF Fillable, Changed, IInv
<1>5. Cached'
  <2>1. CASE up
    <3>1. \A l \in List : load(rows', l) = {IF x.ids[1] = r.id THEN due(x) ELSE x : x \in load(rows, l)}
      BY <1>1, <1>2, DueLoads
    <3>2. \A l \in List : items[l] = load(rows, l)
      BY <2>1, CachedItems DEF IInv
    <3> QED BY <1>1, <2>1, <3>1, <3>2 DEF Cached, allItems
  <2>2. CASE ~up
    BY <1>1, <2>2 DEF IInv, Cached, NoItems
  <2> QED BY <2>1, <2>2
<1> QED BY <1>1, <1>4, <1>5 DEF time, memberVars, IInv, Known

LEMMA StartKeeps ==
  ASSUME IInv, start
  PROVE  IInv'
BY DEF start, starts, memberVars, IInv, Known, Fillable, Cached, allItems

LEMMA StopKeeps ==
  ASSUME IInv, stop
  PROVE  IInv'
BY DEF stop, stops, forgotten, IInv, Known, Fillable, Cached

LEMMA ForgottenIsKnown ==
  ASSUME IInv, forgotten, up' = FALSE
  PROVE  Known'
BY DEF forgotten, IInv, Known

LEMMA DieKeeps ==
  ASSUME IInv, die
  PROVE  IInv'
<1>1. ASSUME NEW l \in UsedList, NEW x \in items[l], NEW k \in 1..(Len(x.ids) - 1),
             diesInRemoveItem(l, x, k)
      PROVE  (Fillable(rows) /\ Cached)' /\ up' = FALSE
  <2>1. up /\ l \in List /\ Table(rows)
    BY <1>1, ListNames DEF diesInRemoveItem, IInv, Fillable
  <2>2. PICK r \in rows : isTop(r) /\ x = itemFromQuery(rows, r)
    BY <2>1, CachedItems, RuleIsTop DEF IInv, Rules
  <2>3. Len(x.ids) \in Nat
    BY <2>1, <2>2, ItemShape
  <2>4. k \in 0..Len(x.ids)
    BY <2>3
  <2>5. Table(Without(rows, deleted(x, k)))
    BY <2>1, <2>2, <2>4, DeletedIsClosed, WithoutTable
  <2>6. Without(rows, deleted(x, k)) \subseteq rows
    BY DEF Without
  <2> QED BY <1>1, <2>5, <2>6 DEF diesInRemoveItem, IInv, Fillable, Cached
<1>2. ASSUME NEW l \in UsedList, NEW chain \in UsedChain, NEW R \in Replaced(l, chain),
             NEW k \in 0..(Len(chain) - 1), diesInAppend(l, chain, R, k)
      PROVE  (Fillable(rows) /\ Cached)' /\ up' = FALSE
  <2> DEFINE c == Tail(chain)
             f == appendChildren(R, c)
  <2>1. up /\ l \in List /\ lastId + Len(chain) <= MaxId
    BY <1>2, ListNames DEF diesInAppend, MayAdd
  <2>2. Fillable(R)
    BY <2>1, ReplacedTable DEF IInv
  <2>3. /\ c \in Seq(Cond) /\ Len(c) = Len(chain) - 1 /\ Len(chain) \in Nat
        /\ lastId \in Nat
    BY <2>2, TailOfChain DEF Fillable
  <2>4. k \in 0..Len(c) /\ lastId + Len(c) <= MaxId
    BY <2>1, <2>3
  <2>5. Filling(f[k]) /\ f[k].lastId \in lastId..(lastId + k)
    <3> HIDE DEF c, f
    <3>1. f = appendChildren(R, c)
      BY DEF f
    <3> QED BY <2>2, <2>3, <2>4, <3>1, ChildrenFill
  <2>6. rows' = f[k].rows /\ lastId' = f[k].lastId /\ up' = FALSE /\ items' = NoItems
    BY <1>2 DEF diesInAppend
  <2> HIDE DEF f
  <2> QED BY <2>5, <2>6 DEF Fillable, Filling, Cached
<1>3. (Fillable(rows) /\ Cached)' /\ up' = FALSE
  BY <1>1, <1>2 DEF die
<1> QED BY <1>3, ForgottenIsKnown DEF die, IInv

(* The inductive invariant holds, whatever is stored, said and interrupted.*)
THEOREM Invariance == Spec => []IInv
<1>1. Init => IInv
  BY ListsStart
<1>2. IInv /\ [Next]_vars => IInv'
  <2> SUFFICES ASSUME IInv, [Next]_vars PROVE IInv'
    OBVIOUS
  <2>1. ASSUME NEW p \in Person, member(p) PROVE IInv'
    BY <2>1, MemberKeeps
  <2>2. ASSUME NEW l \in UsedList, NEW chain \in UsedChain, NEW expire \in {"never", "ahead"},
               autoListsAdd(l, chain, expire)
        PROVE  IInv'
    BY <2>2, AddKeeps, ListNames
  <2>3. CASE autoListsEdit
    BY <2>3, EditKeeps
  <2>4. CASE time
    BY <2>4, TimeKeeps
  <2>5. CASE start
    BY <2>5, StartKeeps
  <2>6. CASE stop
    BY <2>6, StopKeeps
  <2>7. CASE die
    BY <2>7, DieKeeps
  <2>8. CASE UNCHANGED vars
    BY <2>8 DEF vars, IInv, Fillable, Cached, Known, allItems
  <2> QED BY <2>1, <2>2, <2>3, <2>4, <2>5, <2>6, <2>7, <2>8 DEF Next
<1> QED BY <1>1, <1>2, PTL DEF Spec

LEMMA LoadedItem ==
  ASSUME NEW R, Table(R), NEW l \in List, NEW x \in load(R, l)
  PROVE  x \in Item /\ x.chain \in Seq(Cond) /\ Len(x.chain) \in Nat \ {0}
<1>1. PICK r \in R : x = itemFromQuery(R, r)
  BY DEF load
<1> QED BY <1>1, ItemType, ItemShape

(* Every variable stays in its type.                                       *)
THEOREM TypeCorrect == Spec => []TypeOK
<1>1. IInv => TypeOK
  <2> SUFFICES ASSUME IInv PROVE TypeOK
    OBVIOUS
  <2>1. \A l \in List : load(rows, l) \subseteq Item
    BY LoadedItem DEF IInv, Fillable
  <2>2. items \in [List -> SUBSET Item]
    BY <2>1 DEF IInv, Cached, allItems, NoItems
  <2> QED BY <2>2 DEF IInv, Known, Fillable, Table, TypeOK
<1> QED BY <1>1, Invariance, PTL

(* The items in memory are what the table would give a new process: no     *)
(* command of autoLists(), no expiry and no failed INSERT leaves an item   *)
(* that is not stored, or a stored rule that is not in force.              *)
THEOREM ListsAreFaithful == Spec => []CacheIsFaithful
<1>1. IInv => CacheIsFaithful
  BY CachedItems DEF IInv, CacheIsFaithful
<1> QED BY <1>1, Invariance, PTL

(* However the process dies between two statements of append() and         *)
(* removeItem(), every child_id leads to a row, and to nobody else's.      *)
THEOREM ChainsAreWhole == Spec => []LinksHold
<1>1. IInv => LinksHold
  BY DEF IInv, Fillable, Table, LinksHold
<1> QED BY <1>1, Invariance, PTL

-----------------------------------------------------------------------------
(* Nobody is sentenced without a rule.                                     *)

LEMMA MatchIsKnown ==
  ASSUME NEW c \in Cond, NEW p, NEW know, NEW e, partMatches(c, p, know, e)
  PROVE  Kind[c] \in BodyKinds \/ partMatches(c, p, know, Recheck)
<1>1. Kind[c] \in Kinds
  BY MemberAssumption
<1> QED BY <1>1 DEF partMatches, BodyKinds, Kinds

(* A rule of l in the table R that sentences p to s, in role r and by what *)
(* is known.                                                               *)
ruleFor(R, p, r, know, s) ==
  \E l \in List : \E x \in load(R, l) :
    /\ Sentence(l) = s
    /\ reaches(l, p, r)
    /\ \A i \in DOMAIN x.chain :
         \/ Kind[x.chain[i]] \in BodyKinds
         \/ partMatches(x.chain[i], p, know, Recheck)

LEMMA SentenceHasRule ==
  ASSUME NEW R, Table(R), NEW its, its = allItems(R), NEW p, NEW r, NEW know, NEW e,
         NEW s \in checkMember(its, p, r, know, e)
  PROVE  ruleFor(R, p, r, know, s)
<1>1. PICK l \in List : Sentence(l) = s /\ reaches(l, p, r) /\ aFind(its, l, p, know, e) # {}
  BY CheckedByRule
<1>2. PICK x \in load(R, l) : chainMatches(x.chain, p, know, e)
  BY <1>1 DEF aFind, allItems
<1>3. x.chain \in Seq(Cond)
  BY LoadedItem
<1>4. ASSUME NEW i \in DOMAIN x.chain
      PROVE  Kind[x.chain[i]] \in BodyKinds \/ partMatches(x.chain[i], p, know, Recheck)
  <2>1. x.chain[i] \in Cond
    BY <1>3
  <2>2. partMatches(x.chain[i], p, know, e)
    BY <1>2 DEF chainMatches
  <2> QED BY <2>1, <2>2, MatchIsKnown
<1> QED BY <1>1, <1>4 DEF ruleFor

JustSentences ==
  \A p \in Person : \A s \in asked'[p] \ asked[p] : ruleFor(rows', p, role'[p], version'[p], s)

LEMMA PresenceIsJust ==
  ASSUME IInv, up, NEW p \in Person, NEW r \in Roles, onPresence(p, r)
  PROVE  JustSentences
<1> DEFINE t == removeExpired([rows |-> rows, items |-> items], ExpiringList)
<1>1. Table(t.rows) /\ t.items = allItems(t.rows)
  BY ExpiredTable, ListNames DEF IInv, Fillable
<1>2. /\ rows' = t.rows /\ role'[p] = r /\ version' = version
      /\ \A q \in Person \ {p} : asked'[q] = asked[q]
      /\ asked'[p] \subseteq asked[p] \union checkMember(t.items, p, r, version[p], Presence)
  BY DEF onPresence, IInv, Known
<1> HIDE DEF t
<1>3. \A s \in asked'[p] \ asked[p] : ruleFor(rows', p, role'[p], version'[p], s)
  BY <1>1, <1>2, SentenceHasRule
<1> QED BY <1>2, <1>3 DEF JustSentences

LEMMA MemberIsJust ==
  ASSUME IInv, NEW p \in Person, member(p)
  PROVE  JustSentences
<1>1. ASSUME NEW r \in Roles, enters(p, r) \/ showsPresence(p, r) PROVE JustSentences
  BY <1>1, PresenceIsJust DEF enters, showsPresence, present
<1>2. CASE leaves(p)
  BY <1>2 DEF leaves, IInv, Known, JustSentences
<1>3. ASSUME NEW r, NEW know, NEW e, up, rows' = rows, role'[p] = r, version'[p] = know,
             asked' = [asked EXCEPT ![p] = @ \union checkMember(items, p, r, know, e)]
      PROVE  JustSentences
  <2>1. items = allItems(rows) /\ Table(rows)
    BY <1>3, CachedItems DEF IInv, Fillable, Cached
  <2>2. \A q \in Person \ {p} : asked'[q] = asked[q]
    BY <1>3 DEF IInv, Known
  <2>3. asked'[p] = asked[p] \union checkMember(items, p, r, know, e)
    BY <1>3 DEF IInv, Known
  <2>4. \A s \in asked'[p] \ asked[p] : ruleFor(rows', p, role'[p], version'[p], s)
    BY <1>3, <2>1, <2>3, SentenceHasRule
  <2> QED BY <2>2, <2>4 DEF JustSentences
<1>4. ASSUME NEW text, NEW what, says(p, text, what) PROVE JustSentences
  <2>1. up /\ rows' = rows /\ role' = role /\ version' = version
    BY <1>4 DEF says, present, listVars
  <2>2. asked' = [asked EXCEPT ![p] = @ \union checkMember(items, p, role[p], version[p], Message(text, what))]
    BY <1>4 DEF says
  <2> QED BY <1>3, <2>1, <2>2
<1>5. ASSUME NEW how \in {"told", "silent"}, versionStored(p, how) PROVE JustSentences
  <2>1. up /\ rows' = rows /\ role' = role /\ version'[p] = how
    BY <1>5 DEF versionStored, present, listVars, IInv, Known
  <2>2. asked' = [asked EXCEPT ![p] = @ \union checkMember(items, p, role[p], how, VersionKnown)]
    BY <1>5 DEF versionStored
  <2> QED BY <1>3, <2>1, <2>2
<1> QED BY <1>1, <1>2, <1>4, <1>5 DEF member

(* What autoListsAdd() does, step by step.                                 *)
LEMMA AddShape ==
  ASSUME IInv, NEW l \in List, NEW chain \in Seq(Cond) \ {<<>>},
         NEW expire \in {"never", "ahead"}, autoListsAdd(l, chain, expire)
  PROVE  /\ up /\ up' = up /\ role' = role /\ version' = version
         /\ Table(rows') /\ items' = allItems(rows')
         /\ asked' = recheckJIDs(items')
<1>1. up /\ up' = up /\ role' = role /\ version' = version /\ asked' = recheckJIDs(items')
  BY DEF autoListsAdd, MayAdd
<1>2. Fillable(rows)' /\ Cached'
  BY AddKeeps DEF IInv
<1> QED BY <1>1, <1>2 DEF Fillable, Cached

LEMMA AddIsJust ==
  ASSUME IInv, NEW l \in List, NEW chain \in Seq(Cond) \ {<<>>},
         NEW expire \in {"never", "ahead"}, autoListsAdd(l, chain, expire)
  PROVE  JustSentences
<1>1. /\ up' = up /\ role' = role /\ version' = version
      /\ Table(rows') /\ items' = allItems(rows')
      /\ asked' = recheckJIDs(items')
  BY AddShape
<1>2. \A p \in Person : asked'[p] \subseteq asked[p] \union checkMember(items', p, role[p], version[p], Recheck)
  BY <1>1 DEF recheckJIDs
<1>3. ASSUME NEW p \in Person, NEW s \in asked'[p] \ asked[p]
      PROVE  ruleFor(rows', p, role'[p], version'[p], s)
  <2>1. s \in checkMember(items', p, role[p], version[p], Recheck)
    BY <1>2, <1>3
  <2> QED BY <1>1, <2>1, SentenceHasRule
<1> QED BY <1>3 DEF JustSentences

LEMMA OthersAreJust ==
  ASSUME asked' = asked \/ forgotten
  PROVE  JustSentences
BY DEF forgotten, JustSentences

(* Nobody is sentenced without a rule of the table that says so, that      *)
(* reaches him, and of which all that the bot can know is so: not by an    *)
(* item deleted before, and not by one condition of a chain alone.         *)
THEOREM SentencesAreJust == Spec => NobodyWithoutRule
<1>1. IInv /\ [Next]_vars => [JustSentences]_vars
  <2> SUFFICES ASSUME IInv, Next PROVE JustSentences
    OBVIOUS
  <2>1. ASSUME NEW p \in Person, member(p) PROVE JustSentences
    BY <2>1, MemberIsJust
  <2>2. ASSUME NEW l \in UsedList, NEW chain \in UsedChain, NEW expire \in {"never", "ahead"},
               autoListsAdd(l, chain, expire)
        PROVE  JustSentences
    BY <2>2, AddIsJust, ListNames
  <2>3. CASE autoListsEdit \/ time \/ start
    BY <2>3, OthersAreJust DEF autoListsEdit, time, start, memberVars
  <2>4. CASE stop \/ die
    BY <2>4, OthersAreJust DEF stop, die
  <2> QED BY <2>1, <2>2, <2>3, <2>4 DEF Next
<1>2. [JustSentences]_vars =>
        [\A p \in Person : \A s \in asked'[p] \ asked[p] :
           \E l \in List : \E x \in load(rows', l) :
             /\ Sentence(l) = s
             /\ reaches(l, p, role'[p])
             /\ \A i \in DOMAIN x.chain :
                  \/ Kind[x.chain[i]] \in BodyKinds
                  \/ partMatches(x.chain[i], p, version'[p], Recheck)]_vars
  BY DEF JustSentences, ruleFor
<1> QED BY <1>1, <1>2, Invariance, PTL DEF Spec, NobodyWithoutRule

-----------------------------------------------------------------------------
(* Who fits a rule is reported.                                            *)

(* A rule with this chain is due for p, by what is known.                  *)
fitsChain(chain, p, know) ==
  /\ Len(chain) = 1 => Kind[chain[1]] = "presence"
  /\ \A i \in DOMAIN chain : /\ Kind[chain[i]] \in {"presence", "version"}
                            /\ partMatches(chain[i], p, know, Recheck)

sentenced(a) == a \intersect {"outcast", "none"} # {}

EnforcedOn(p) ==
  \A l \in {"ban", "kick"} : \A x \in items[l] :
    present(p) /\ reaches(l, p, role[p]) /\ fitsChain(x.chain, p, version[p]) => sentenced(asked[p])

LEMMA EnforcedOnAll == Enforced <=> \A p \in Person : EnforcedOn(p)
BY DEF Enforced, EnforcedOn, fitsChain, sentenced, holds

LEMMA EnforcedOnAllNext == Enforced' <=> \A p \in Person : EnforcedOn(p)'
BY DEF Enforced, EnforcedOn, fitsChain, sentenced, holds

LEMMA OneIsLeast ==
  ASSUME NEW n \in Nat \ {0}, ~(n > 1)
  PROVE  n = 1
OBVIOUS

LEMMA OccasionFields ==
  \A e \in {Presence, Recheck, VersionKnown} :
    /\ e.text = FALSE /\ e.s # "message"
    /\ e # VersionKnown => e.matcher = "unknown"
<1>1. Presence.text = FALSE /\ Presence.s # "message" /\ Presence.matcher = "unknown"
  BY DEF Presence
<1>2. Recheck.text = FALSE /\ Recheck.s # "message" /\ Recheck.matcher = "unknown"
  BY DEF Recheck, Presence
<1>3. VersionKnown.text = FALSE /\ VersionKnown.s # "message"
  BY DEF VersionKnown, Recheck, Presence
<1> QED BY <1>1, <1>2, <1>3

(* Such a rule is found on any of the occasions that may have made it due. *)
LEMMA DueIsFound ==
  ASSUME NEW R, Table(R), NEW l \in List, NEW x \in load(R, l), NEW p, NEW know,
         fitsChain(x.chain, p, know),
         NEW e \in {Presence, Recheck, VersionKnown}, e = VersionKnown => Len(x.chain) > 1
  PROVE  aFind(allItems(R), l, p, know, e) # {}
<1>1. x.chain \in Seq(Cond) /\ Len(x.chain) \in Nat \ {0}
  BY LoadedItem
<1>2. /\ e.text = FALSE /\ e.s # "message"
      /\ e # VersionKnown => e.matcher = "unknown"
  BY OccasionFields
<1>3. isOccasion(x.chain, e)
  <2>1. CASE Len(x.chain) > 1
    BY <1>2, <2>1 DEF isOccasion
  <2>2. CASE ~(Len(x.chain) > 1)
    <3>1. Kind[x.chain[1]] = "presence"
      <4>1. Len(x.chain) = 1
        BY <1>1, <2>2, OneIsLeast, Zenon
      <4> QED BY <4>1 DEF fitsChain
    <3> QED BY <1>2, <2>2, <3>1 DEF isOccasion
  <2> QED BY <2>1, <2>2
<1>4. chainMatches(x.chain, p, know, e)
  <2> SUFFICES ASSUME NEW i \in DOMAIN x.chain PROVE partMatches(x.chain[i], p, know, e)
    BY DEF chainMatches
  <2>1. /\ Kind[x.chain[i]] \in {"presence", "version"}
        /\ partMatches(x.chain[i], p, know, Recheck)
    BY DEF fitsChain
  <2> QED BY <2>1 DEF partMatches
<1>5. x \in aFind(allItems(R), l, p, know, e)
  BY <1>3, <1>4 DEF aFind, allItems
<1> QED BY <1>5

LEMMA DueIsSentenced ==
  ASSUME NEW R, Table(R), NEW l \in {"ban", "kick"}, NEW x \in load(R, l), NEW p, NEW r, NEW know,
         ~BotIsOwner, reaches(l, p, r), fitsChain(x.chain, p, know),
         NEW e \in {Presence, Recheck, VersionKnown}, e = VersionKnown => Len(x.chain) > 1
  PROVE  sentenced(checkMember(allItems(R), p, r, know, e))
<1>1. l \in List
  BY DEF List
<1>2. aFind(allItems(R), l, p, know, e) # {}
  BY <1>1, DueIsFound
<1> QED BY <1>2, CheckedForSure DEF sentenced

(* Nothing is due that was not.                                            *)
LEMMA NothingNewDue ==
  ASSUME NEW p \in Person, EnforcedOn(p), present(p)' => present(p),
         role'[p] = role[p], version'[p] = version[p], asked[p] \subseteq asked'[p],
         \A l \in List : \A x \in items'[l] : \E y \in items[l] : y.chain = x.chain
  PROVE  EnforcedOn(p)'
<1> SUFFICES ASSUME NEW l \in {"ban", "kick"}, NEW x \in items'[l], present(p)',
                    reaches(l, p, role'[p]), fitsChain(x.chain, p, version'[p])
             PROVE  sentenced(asked'[p])
  BY DEF EnforcedOn
<1>1. PICK y \in items[l] : y.chain = x.chain
  BY DEF List
<1>2. sentenced(asked[p])
  BY <1>1 DEF EnforcedOn
<1> QED BY <1>2 DEF sentenced

LEMMA NobodyPresent ==
  ASSUME NEW p \in Person, ~present(p)'
  PROVE  EnforcedOn(p)'
BY DEF EnforcedOn

LEMMA PresenceEnforces ==
  ASSUME IInv, up, NEW p \in Person, NEW r \in Roles, onPresence(p, r),
         \A q \in Person : EnforcedOn(q), EveryPresence, ~BotIsOwner,
         NEW q \in Person
  PROVE  EnforcedOn(q)'
<1> DEFINE t == removeExpired([rows |-> rows, items |-> items], ExpiringList)
<1>1. /\ Table(t.rows) /\ t.items = allItems(t.rows)
      /\ \A l \in List : load(t.rows, l) \subseteq load(rows, l)
  BY ExpiredTable, ListNames DEF IInv, Fillable
<1>2. /\ up' = up /\ items' = t.items /\ version' = version
      /\ role' = [role EXCEPT ![p] = r]
      /\ asked' = [asked EXCEPT ![p] = (@ \ {r}) \union checkMember(t.items, p, r, version[p], Presence)]
  BY DEF onPresence
<1> HIDE DEF t
<1>3. CASE q = p
  <2>1. role'[p] = r /\ version'[p] = version[p]
        /\ checkMember(t.items, p, r, version[p], Presence) \subseteq asked'[p]
    BY <1>2 DEF IInv, Known
  <2> SUFFICES ASSUME NEW l \in {"ban", "kick"}, NEW x \in items'[l],
                      reaches(l, p, r), fitsChain(x.chain, p, version[p])
               PROVE  sentenced(asked'[p])
    BY <1>3, <2>1 DEF EnforcedOn
  <2>2. x \in load(t.rows, l)
    BY <1>1, <1>2 DEF allItems, List
  <2>3. Presence # VersionKnown
    BY DEF Presence, VersionKnown, Recheck
  <2>4. sentenced(checkMember(t.items, p, r, version[p], Presence))
    BY <1>1, <2>2, <2>3, DueIsSentenced
  <2> QED BY <2>1, <2>4 DEF sentenced
<1>4. CASE q # p
  <2>1. role'[q] = role[q] /\ version'[q] = version[q] /\ asked'[q] = asked[q]
    BY <1>2, <1>4 DEF IInv, Known
  <2>2. \A l \in List : items'[l] \subseteq items[l]
    BY <1>1, <1>2, CachedItems DEF allItems, IInv
  <2>3. present(q)' => present(q)
    BY <1>2, <2>1 DEF present
  <2> QED BY <2>1, <2>2, <2>3, NothingNewDue
<1> QED BY <1>3, <1>4

LEMMA MemberEnforces ==
  ASSUME IInv, NEW p \in Person, member(p),
         \A q \in Person : EnforcedOn(q), EveryPresence, ~BotIsOwner,
         NEW q \in Person
  PROVE  EnforcedOn(q)'
<1>0. ASSUME UNCHANGED listVars
      PROVE  up' = up /\ \A l \in List : \A x \in items'[l] : \E y \in items[l] : y.chain = x.chain
  BY <1>0 DEF listVars
<1>1. ASSUME NEW r \in Roles, enters(p, r) \/ showsPresence(p, r) PROVE EnforcedOn(q)'
  BY <1>1, PresenceEnforces DEF enters, showsPresence, present
<1>2. CASE leaves(p)
  <2>1. q = p => ~present(q)'
    BY <1>2 DEF leaves, present, IInv, Known
  <2>2. q # p => role'[q] = role[q] /\ version'[q] = version[q] /\ asked'[q] = asked[q]
    BY <1>2 DEF leaves, IInv, Known
  <2>3. UNCHANGED listVars
    BY <1>2 DEF leaves
  <2> QED BY <1>0, <2>1, <2>2, <2>3, NobodyPresent, NothingNewDue DEF present
<1>3. ASSUME NEW text, NEW what, says(p, text, what) PROVE EnforcedOn(q)'
  <2>1. role' = role /\ version' = version /\ UNCHANGED listVars /\ asked[q] \subseteq asked'[q]
    BY <1>3 DEF says, IInv, Known
  <2> QED BY <1>0, <2>1, NothingNewDue DEF present
<1>4. ASSUME NEW how \in {"told", "silent"}, versionStored(p, how) PROVE EnforcedOn(q)'
  <2>1. role' = role /\ UNCHANGED listVars /\ up' = up /\ up
    BY <1>4 DEF versionStored, listVars, present
  <2>2. CASE q # p
    <3>1. version'[q] = version[q] /\ asked'[q] = asked[q]
      BY <1>4, <2>2 DEF versionStored, IInv, Known
    <3> QED BY <1>0, <2>1, <3>1, NothingNewDue DEF present
  <2>3. CASE q = p
    <3>1. version'[p] = how /\ asked[p] \subseteq asked'[p]
          /\ checkMember(items, p, role[p], how, VersionKnown) \subseteq asked'[p]
      BY <1>4 DEF versionStored, IInv, Known
    <3> SUFFICES ASSUME NEW l \in {"ban", "kick"}, NEW x \in items[l], present(p),
                        reaches(l, p, role[p]), fitsChain(x.chain, p, how)
                 PROVE  sentenced(asked'[p])
      BY <2>1, <2>3, <3>1 DEF EnforcedOn, listVars, present
    <3>2. l \in List /\ items = allItems(rows) /\ x \in load(rows, l) /\ Table(rows)
      BY <2>1, CachedItems DEF IInv, List, Fillable
    <3>3. CASE Len(x.chain) > 1
      <4>1. sentenced(checkMember(items, p, role[p], how, VersionKnown))
        BY <3>2, <3>3, DueIsSentenced
      <4> QED BY <3>1, <4>1 DEF sentenced
    <3>4. CASE ~(Len(x.chain) > 1)
      <4>1. Len(x.chain) = 1 /\ x.chain \in Seq(Cond)
        <5>1. Len(x.chain) \in Nat \ {0} /\ x.chain \in Seq(Cond)
          BY <3>2, LoadedItem
        <5> QED BY <3>4, <5>1, OneIsLeast, Zenon
      <4>2. DOMAIN x.chain = {1} /\ Kind[x.chain[1]] = "presence"
        BY <4>1 DEF fitsChain
      <4>3. partMatches(x.chain[1], p, version[p], Recheck)
        <5>1. partMatches(x.chain[1], p, how, Recheck)
          BY <4>2 DEF fitsChain
        <5> QED BY <4>2, <5>1 DEF partMatches
      <4>4. fitsChain(x.chain, p, version[p])
        BY <4>2, <4>3 DEF fitsChain
      <4>5. sentenced(asked[p])
        BY <4>4 DEF EnforcedOn
      <4> QED BY <3>1, <4>5 DEF sentenced
    <3> QED BY <3>3, <3>4
  <2> QED BY <2>2, <2>3
<1> QED BY <1>1, <1>2, <1>3, <1>4 DEF member

LEMMA AddEnforces ==
  ASSUME IInv, NEW l \in List, NEW chain \in Seq(Cond) \ {<<>>},
         NEW expire \in {"never", "ahead"}, autoListsAdd(l, chain, expire), ~BotIsOwner,
         NEW q \in Person
  PROVE  EnforcedOn(q)'
<1>1. /\ up /\ up' = up /\ role' = role /\ version' = version
      /\ Table(rows') /\ items' = allItems(rows')
      /\ asked' = recheckJIDs(items')
  BY AddShape
<1> SUFFICES ASSUME NEW k \in {"ban", "kick"}, NEW x \in items'[k], present(q),
                    reaches(k, q, role[q]), fitsChain(x.chain, q, version[q])
             PROVE  sentenced(asked'[q])
  BY <1>1 DEF EnforcedOn, present
<1>2. asked'[q] = asked[q] \union checkMember(items', q, role[q], version[q], Recheck)
  BY <1>1 DEF recheckJIDs
<1>3. x \in load(rows', k)
  BY <1>1 DEF allItems, List
<1>4. Recheck # VersionKnown
  BY DEF Presence, Recheck, VersionKnown
<1>5. sentenced(checkMember(items', q, role[q], version[q], Recheck))
  BY <1>1, <1>3, <1>4, DueIsSentenced
<1> QED BY <1>2, <1>5 DEF sentenced

LEMMA EditEnforces ==
  ASSUME IInv, autoListsEdit, NEW q \in Person, EnforcedOn(q)
  PROVE  EnforcedOn(q)'
<1>1. UNCHANGED memberVars /\ up' = up
  BY DEF autoListsEdit, Del, Clear, Show
<1>2. \A l \in List : items'[l] \subseteq items[l]
  <2>1. ASSUME NEW l \in List, NEW x \in items[l], Del(l, x) PROVE \A k \in List : items'[k] \subseteq items[k]
    BY <2>1 DEF Del, IInv, Cached, allItems, NoItems
  <2>2. ASSUME NEW l \in List, Clear(l) PROVE \A k \in List : items'[k] \subseteq items[k]
    BY <2>2 DEF Clear, IInv, Cached, allItems, NoItems
  <2>3. ASSUME NEW l \in List, Show(l) PROVE \A k \in List : items'[k] \subseteq items[k]
    <3> DEFINE t == removeExpired([rows |-> rows, items |-> items], {l})
    <3>1. up /\ items' = t.items
      BY <2>3 DEF Show
    <3>2. t.items = allItems(t.rows) /\ \A k \in List : load(t.rows, k) \subseteq load(rows, k)
      BY <3>1, ExpiredTable DEF IInv
    <3> HIDE DEF t
    <3> QED BY <3>1, <3>2, CachedItems DEF allItems, IInv
  <2> QED BY <2>1, <2>2, <2>3, ListNames DEF autoListsEdit
<1> QED BY <1>1, <1>2, NothingNewDue DEF memberVars, present

LEMMA TimeEnforces ==
  ASSUME IInv, time, NEW q \in Person, EnforcedOn(q)
  PROVE  EnforcedOn(q)'
<1>1. PICK r \in rows : items' = [l \in List |->
                           {IF x.ids[1] = r.id THEN [x EXCEPT !.expire = "past"] ELSE x : x \in items[l]}]
  BY DEF time, timePasses
<1>2. ASSUME NEW l \in List, NEW x \in items'[l] PROVE \E y \in items[l] : y.chain = x.chain
  <2>1. PICK y \in items[l] : x = IF y.ids[1] = r.id THEN [y EXCEPT !.expire = "past"] ELSE y
    BY <1>1, <1>2
  <2>2. y \in Item
    <3>1. items[l] \subseteq Item
      BY LoadedItem DEF IInv, Fillable, Cached, allItems, NoItems
    <3> QED BY <3>1
  <2>3. x.chain = y.chain
    BY <2>1, <2>2 DEF Item
  <2> QED BY <2>3
<1>3. UNCHANGED memberVars /\ up' = up
  BY DEF time, timePasses
<1> QED BY <1>2, <1>3, NothingNewDue DEF memberVars, present

(* A rule is enforced as soon as it can be, whichever came last: the       *)
(* occupant, what is known of him, or the rule; and whatever came between. *)
(* A room that looks at rules on entry only misses those a change of role  *)
(* brings into reach, and an owner bot warns before it bans.               *)
THEOREM RulesAreEnforced ==
  EveryPresence /\ ~BotIsOwner => (Spec => []Enforced)
<1> SUFFICES ASSUME EveryPresence, ~BotIsOwner PROVE Spec => []Enforced
  OBVIOUS
<1>1. Init => Enforced
  BY DEF Init, ListInit, Enforced, present
<1>2. IInv /\ Enforced /\ [Next]_vars => Enforced'
  <2> SUFFICES ASSUME IInv, Enforced, [Next]_vars, NEW q \in Person PROVE EnforcedOn(q)'
    BY EnforcedOnAllNext
  <2>0. \A p \in Person : EnforcedOn(p)
    BY EnforcedOnAll
  <2>1. ASSUME NEW p \in Person, member(p) PROVE EnforcedOn(q)'
    BY <2>0, <2>1, MemberEnforces
  <2>2. ASSUME NEW l \in UsedList, NEW chain \in UsedChain, NEW expire \in {"never", "ahead"},
               autoListsAdd(l, chain, expire)
        PROVE  EnforcedOn(q)'
    BY <2>2, AddEnforces, ListNames
  <2>3. CASE autoListsEdit
    BY <2>0, <2>3, EditEnforces
  <2>4. CASE time
    BY <2>0, <2>4, TimeEnforces
  <2>5. CASE start
    BY <2>5, NobodyPresent DEF start, starts, memberVars, present, IInv, Known
  <2>6. CASE stop \/ die
    <3>1. ~up'
      BY <2>6 DEF stop, stops, die, diesInRemoveItem, diesInAppend
    <3> QED BY <3>1, NobodyPresent DEF present
  <2>7. CASE UNCHANGED vars
    <3>1. /\ up' = up /\ items' = items /\ role' = role /\ version' = version /\ asked' = asked
      BY <2>7 DEF vars
    <3> QED BY <2>0, <3>1, NothingNewDue DEF present
  <2> QED BY <2>1, <2>2, <2>3, <2>4, <2>5, <2>6, <2>7 DEF Next
<1> QED BY <1>1, <1>2, Invariance, PTL DEF Spec

-----------------------------------------------------------------------------
(* What a step does to the rules of the lists.  As long as no two chains    *)
(* share a tail, a list has one rule for the conditions it tests.          *)

rule(l, x) == [list |-> l, chain |-> x.chain, expire |-> x.expire]

rulesOf(R) == UNION {{rule(l, x) : x \in load(R, l)} : l \in List}

OneRuleEach(R) ==
  \A l \in List : \A x, y \in load(R, l) : isSameCondition(x.chain, y.chain) => x = y

Lapses(R, Q) ==
  \E G : /\ \A x \in G : isExpired(x)
         /\ \A k \in List : load(Q, k) = load(R, k) \ G

Loses(R, Q, l, x) ==
  /\ x \in load(R, l)
  /\ \A k \in List : load(Q, k) = IF k = l THEN load(R, k) \ {x} ELSE load(R, k)

Clears(R, Q, l) ==
  \A k \in List : load(Q, k) = IF k = l THEN {} ELSE load(R, k)

same(R, l, chain) == {y \in load(R, l) : isSameCondition(y.chain, chain)}

Gains(R, Q, l, x) ==
  /\ ~isExpired(x)
  /\ \E G : /\ \A y \in G : isExpired(y)
            /\ \A k \in List :
                 load(Q, k) = IF k = l THEN ((load(R, k) \ same(R, k, x.chain)) \union {x}) \ G
                                       ELSE load(R, k) \ G

FallsDueIn(R, Q, r) ==
  /\ r \in R /\ r.expire = "ahead"
  /\ Q = (R \ {r}) \union {due(r)}

LEMMA RuleOf ==
  ASSUME NEW R, NEW q
  PROVE  q \in rulesOf(R) <=> \E l \in List : \E x \in load(R, l) : q = rule(l, x)
BY DEF rulesOf

LEMMA RuleFields ==
  ASSUME NEW l, NEW x, NEW k, NEW y, rule(l, x) = rule(k, y)
  PROVE  l = k /\ x.chain = y.chain /\ x.expire = y.expire
<1>1. rule(l, x).list = l /\ rule(l, x).chain = x.chain /\ rule(l, x).expire = x.expire
  BY DEF rule
<1>2. rule(k, y).list = k /\ rule(k, y).chain = y.chain /\ rule(k, y).expire = y.expire
  BY DEF rule
<1> QED BY <1>1, <1>2

LEMMA SameSelf ==
  ASSUME NEW c
  PROVE  isSameCondition(c, c)
BY DEF isSameCondition

LEMMA RuleOfOne ==
  ASSUME NEW R, OneRuleEach(R), NEW l \in List, NEW x \in load(R, l), NEW y \in load(R, l),
         rule(l, x) = rule(l, y)
  PROVE  x = y
<1>1. x.chain = y.chain
  BY RuleFields
<1> QED BY <1>1, SameSelf DEF OneRuleEach

LEMMA SameIsSame ==
  ASSUME NEW c \in Seq(Cond), NEW d \in Seq(Cond)
  PROVE  isSameCondition(c, d) <=> RuleBook!Same(c, d)
<1>1. (DOMAIN c = DOMAIN d) <=> (Len(c) = Len(d))
  <2>1. DOMAIN c = 1..Len(c) /\ DOMAIN d = 1..Len(d) /\ Len(c) \in Nat /\ Len(d) \in Nat
    OBVIOUS
  <2>2. CASE Len(c) = Len(d)
    BY <2>1, <2>2
  <2>3. CASE DOMAIN c = DOMAIN d
    <3> DEFINE m == Len(c)
               n == Len(d)
    <3>1. 1..m = 1..n /\ m \in Nat /\ n \in Nat
      BY <2>1, <2>3
    <3> HIDE DEF m, n
    <3>2. m = n
      BY <3>1
    <3> QED BY <3>2 DEF m, n
  <2> QED BY <2>2, <2>3
<1> QED BY <1>1 DEF isSameCondition, RuleBook!Same

-----------------------------------------------------------------------------
(* A list keeps one rule each.                                             *)

LEMMA LapseOne ==
  ASSUME NEW R, NEW Q, OneRuleEach(R), \A l \in List : load(Q, l) \subseteq load(R, l)
  PROVE  OneRuleEach(Q)
BY DEF OneRuleEach

LEMMA SameSym ==
  ASSUME NEW c \in Seq(Cond), NEW d \in Seq(Cond), isSameCondition(c, d)
  PROVE  isSameCondition(d, c)
BY DEF isSameCondition

LEMMA GainOne ==
  ASSUME NEW R, Table(R), NEW Q, OneRuleEach(R), NEW l \in List, NEW x \in Item, Gains(R, Q, l, x)
  PROVE  OneRuleEach(Q)
<1>1. \A k \in List : load(Q, k) \subseteq
         IF k = l THEN (load(R, k) \ same(R, k, x.chain)) \union {x} ELSE load(R, k)
  BY DEF Gains
<1> SUFFICES ASSUME NEW k \in List, NEW y \in load(Q, k), NEW z \in load(Q, k),
                    isSameCondition(y.chain, z.chain)
             PROVE  y = z
  BY DEF OneRuleEach
<1>2. CASE y \in load(R, k) /\ z \in load(R, k)
  BY <1>2 DEF OneRuleEach
<1>3. ASSUME NEW w \in load(R, k) PROVE w.chain \in Seq(Cond)
  BY <1>3, LoadedItem DEF Item
<1>4. CASE k = l /\ y \in same(R, k, x.chain) \union {x} /\ y # x
  BY <1>1, <1>4
<1>5. x.chain \in Seq(Cond)
  BY DEF Item
<1>6. CASE k = l /\ y = x /\ z # x
  <2>1. z \in load(R, k) /\ z \notin same(R, k, x.chain)
    BY <1>1, <1>6
  <2> QED BY <1>3, <1>5, <1>6, <2>1, SameSym DEF same
<1>7. CASE k = l /\ z = x /\ y # x
  <2>1. y \in load(R, k) /\ y \notin same(R, k, x.chain)
    BY <1>1, <1>7
  <2> QED BY <1>7, <2>1 DEF same
<1> QED BY <1>1, <1>2, <1>6, <1>7

LEMMA DueFields ==
  ASSUME NEW x \in Item
  PROVE  due(x).chain = x.chain /\ due(x).expire = "past" /\ due(x).ids = x.ids
BY DEF Item, due

LEMMA DueOne ==
  ASSUME NEW R, Table(R), NEW Q, OneRuleEach(R), NEW r, FallsDueIn(R, Q, r)
  PROVE  OneRuleEach(Q)
<1> SUFFICES ASSUME NEW k \in List, NEW y \in load(Q, k), NEW z \in load(Q, k),
                    isSameCondition(y.chain, z.chain)
             PROVE  y = z
  BY DEF OneRuleEach
<1> DEFINE g(x) == IF x.ids[1] = r.id THEN due(x) ELSE x
<1>1. load(Q, k) = {g(x) : x \in load(R, k)}
  BY DueLoads DEF FallsDueIn
<1>2. PICK v \in load(R, k) : y = g(v)
  BY <1>1
<1>3. PICK w \in load(R, k) : z = g(w)
  BY <1>1
<1>4. v \in Item /\ w \in Item
  BY LoadedItem
<1>5. y.chain = v.chain /\ z.chain = w.chain
  BY <1>2, <1>3, <1>4, DueFields
<1>6. v = w
  BY <1>5 DEF OneRuleEach
<1> QED BY <1>2, <1>3, <1>6
-----------------------------------------------------------------------------
(* Every such change is one a rule book may see.                           *)

LEMMA StoredRules == RulesStored = rulesOf(rows)
BY DEF RulesStored, rulesOf, rule

LEMMA StoredRulesNext == RulesStored' = rulesOf(rows')
BY DEF RulesStored, rulesOf, rule

LEMMA LapseStep ==
  ASSUME Lapses(rows, rows')
  PROVE  RuleBook!Lapse
<1> DEFINE A == rulesOf(rows)
           B == rulesOf(rows')
<1>1. PICK G : /\ \A x \in G : isExpired(x)
               /\ \A k \in List : load(rows', k) = load(rows, k) \ G
  BY DEF Lapses
<1>2. B \subseteq A
  <2> SUFFICES ASSUME NEW q \in B PROVE q \in A
    OBVIOUS
  <2>1a. PICK l \in List : \E x \in load(rows', l) : q = rule(l, x)
    BY RuleOf
  <2>1. PICK x \in load(rows', l) : q = rule(l, x)
    BY <2>1a
  <2>2. x \in load(rows, l)
    BY <1>1
  <2> QED BY <2>1, <2>2, RuleOf
<1>3. ASSUME NEW q \in A \ B PROVE q.expire = "past"
  <2>1a. PICK l \in List : \E x \in load(rows, l) : q = rule(l, x)
    BY RuleOf
  <2>1. PICK x \in load(rows, l) : q = rule(l, x)
    BY <2>1a
  <2>2. x \notin load(rows', l)
    BY <1>3, <2>1, RuleOf
  <2>3. isExpired(x)
    BY <1>1, <2>2
  <2>4. q.expire = x.expire
    BY <2>1 DEF rule
  <2> QED BY <2>3, <2>4 DEF isExpired
<1>4. RulesStored = A /\ RulesStored' = B
  BY StoredRules, StoredRulesNext
<1> HIDE DEF A, B
<1> QED BY <1>2, <1>3, <1>4 DEF RuleBook!Lapse, RuleBook!OnlyDueLapse

LEMMA LoseStep ==
  ASSUME OneRuleEach(rows), NEW l \in List, NEW x, Loses(rows, rows', l, x)
  PROVE  \E r \in RulesStored : RuleBook!Withdraw(r)
<1> DEFINE A == rulesOf(rows)
           B == rulesOf(rows')
           r == rule(l, x)
<1>1. x \in load(rows, l)
      /\ \A k \in List : load(rows', k) = IF k = l THEN load(rows, k) \ {x} ELSE load(rows, k)
  BY DEF Loses
<1>2. r \in A
  BY <1>1, RuleOf
<1>3. ASSUME NEW q PROVE q \in B <=> q \in A /\ q # r
  <2>1. ASSUME q \in B PROVE q \in A /\ q # r
    <3>1a. PICK k \in List : \E y \in load(rows', k) : q = rule(k, y)
      BY <2>1, RuleOf
    <3>1. PICK y \in load(rows', k) : q = rule(k, y)
      BY <3>1a
    <3>2. y \in load(rows, k) /\ (k = l => y # x)
      BY <1>1
    <3>3. q # r
      BY <1>1, <3>1, <3>2, RuleFields, RuleOfOne
    <3> QED BY <3>1, <3>2, <3>3, RuleOf
  <2>2. ASSUME q \in A, q # r PROVE q \in B
    <3>1a. PICK k \in List : \E y \in load(rows, k) : q = rule(k, y)
      BY <2>2, RuleOf
    <3>1. PICK y \in load(rows, k) : q = rule(k, y)
      BY <3>1a
    <3>2. y \in load(rows', k)
      BY <1>1, <2>2, <3>1
    <3> QED BY <3>1, <3>2, RuleOf
  <2> QED BY <2>1, <2>2
<1>4. RulesStored = A /\ RulesStored' = B
  BY StoredRules, StoredRulesNext
<1> HIDE DEF A, B, r
<1>5. B = A \ {r}
  BY <1>3
<1> QED BY <1>2, <1>4, <1>5 DEF RuleBook!Withdraw

LEMMA ClearStep ==
  ASSUME NEW l \in List, Clears(rows, rows', l)
  PROVE  RuleBook!Clear(l)
<1> DEFINE A == rulesOf(rows)
           B == rulesOf(rows')
<1>1. ASSUME NEW q PROVE q \in B <=> q \in A /\ q.list # l
  <2>1. ASSUME q \in B PROVE q \in A /\ q.list # l
    <3>1a. PICK k \in List : \E y \in load(rows', k) : q = rule(k, y)
      BY <2>1, RuleOf
    <3>1. PICK y \in load(rows', k) : q = rule(k, y)
      BY <3>1a
    <3>2. y \in load(rows, k) /\ k # l
      BY DEF Clears
    <3>3. q.list = k
      BY <3>1 DEF rule
    <3> QED BY <3>1, <3>2, <3>3, RuleOf
  <2>2. ASSUME q \in A, q.list # l PROVE q \in B
    <3>1a. PICK k \in List : \E y \in load(rows, k) : q = rule(k, y)
      BY <2>2, RuleOf
    <3>1. PICK y \in load(rows, k) : q = rule(k, y)
      BY <3>1a
    <3>2. q.list = k
      BY <3>1 DEF rule
    <3>3. y \in load(rows', k)
      BY <2>2, <3>2 DEF Clears
    <3> QED BY <3>1, <3>3, RuleOf
  <2> QED BY <2>1, <2>2
<1>2. RulesStored = A /\ RulesStored' = B
  BY StoredRules, StoredRulesNext
<1> HIDE DEF A, B
<1>3. B = {q \in A : q.list # l}
  BY <1>1
<1> QED BY <1>2, <1>3 DEF RuleBook!Clear

(* The items whose row falls due: one, and no other rule is like it.       *)
LEMMA DueStep ==
  ASSUME Table(rows), OneRuleEach(rows), NEW r \in rows, FallsDueIn(rows, rows', r)
  PROVE  \E q \in RulesStored : RuleBook!FallsDue(q)
<1> DEFINE A == rulesOf(rows)
           B == rulesOf(rows')
           x == itemFromQuery(rows, r)
           l == r.list
           s == rule(l, x)
           p == [s EXCEPT !.expire = "past"]
           g(y) == IF y.ids[1] = r.id THEN due(y) ELSE y
<1>1. l \in List /\ r.expire = "ahead"
  BY RowType DEF FallsDueIn, Table
<1>2. x \in load(rows, l) /\ x.expire = "ahead" /\ x \in Item
  BY <1>1, ItemShape, LoadedItem DEF load
<1>3. \A k \in List : load(rows', k) = {g(y) : y \in load(rows, k)}
  BY DueLoads DEF FallsDueIn
<1>4. ASSUME NEW k \in List, NEW y \in load(rows, k)
      PROVE  y.ids[1] = r.id <=> (k = l /\ y = x)
  <2>1. PICK t \in rows : t.list = k /\ y = itemFromQuery(rows, t)
    BY DEF load
  <2>2. y.ids[1] = t.id /\ x.ids[1] = r.id
    BY <2>1, ItemNamesRow
  <2> HIDE DEF x
  <2>3. t.id = r.id => t = r
    BY DEF Table
  <2> QED BY <2>1, <2>2, <2>3 DEF x
<1>5. rule(l, due(x)) = p
  <2>1. due(x).chain = x.chain /\ due(x).expire = "past"
    BY <1>2, DueFields
  <2> HIDE DEF x
  <2> QED BY <2>1 DEF rule
<1>6. s \in A /\ s.expire = "ahead"
  BY <1>1, <1>2, RuleOf DEF rule
<1>7. ASSUME NEW q PROVE q \in B <=> (q \in A /\ q # s) \/ q = p
  <2> HIDE DEF p, s, x
  <2>1. ASSUME q \in B PROVE (q \in A /\ q # s) \/ q = p
    <3>1a. PICK k \in List : \E z \in load(rows', k) : q = rule(k, z)
      BY <2>1, RuleOf
    <3>1. PICK z \in load(rows', k) : q = rule(k, z)
      BY <3>1a
    <3>2. PICK y \in load(rows, k) : z = g(y)
      BY <1>3
    <3>3. CASE k = l /\ y = x
      BY <1>4, <1>5, <3>1, <3>2, <3>3
    <3>4. CASE ~(k = l /\ y = x)
      <4>1. z = y
        BY <1>4, <3>2, <3>4
      <4>2. q \in A
        BY <3>1, <4>1, RuleOf
      <4>3. q # s
        BY <1>2, <3>1, <3>4, <4>1, RuleFields, RuleOfOne DEF s
      <4> QED BY <4>2, <4>3
    <3> QED BY <3>3, <3>4
  <2>2. ASSUME q \in A, q # s PROVE q \in B
    <3>1a. PICK k \in List : \E y \in load(rows, k) : q = rule(k, y)
      BY <2>2, RuleOf
    <3>1. PICK y \in load(rows, k) : q = rule(k, y)
      BY <3>1a
    <3>2. ~(k = l /\ y = x)
      BY <2>2, <3>1 DEF s
    <3>3. g(y) = y
      BY <1>4, <3>2
    <3>4. y \in load(rows', k)
      BY <1>3, <3>3
    <3> QED BY <3>1, <3>4, RuleOf
  <2>3. p \in B
    <3>1. g(x) = due(x)
      BY <1>1, <1>2, <1>4
    <3>2. due(x) \in load(rows', l)
      BY <1>1, <1>2, <1>3, <3>1
    <3> QED BY <1>1, <1>5, <3>2, RuleOf
  <2> QED BY <2>1, <2>2, <2>3
<1>8. RulesStored = A /\ RulesStored' = B
  BY StoredRules, StoredRulesNext
<1> HIDE DEF A, B, s
<1>9. B = (A \ {s}) \union {p}
  BY <1>7
<1> QED BY <1>6, <1>8, <1>9 DEF RuleBook!FallsDue

LEMMA GainStep ==
  ASSUME Table(rows), NEW l \in List, NEW x \in Item, Gains(rows, rows', l, x)
  PROVE  \E r \in RulesStored' : RuleBook!Order(r)
<1> DEFINE A == rulesOf(rows)
           B == rulesOf(rows')
           r == rule(l, x)
           others == {q \in A : ~(q.list = r.list /\ RuleBook!Same(q.chain, r.chain))}
<1>1. PICK G : /\ \A y \in G : isExpired(y)
               /\ \A k \in List :
                    load(rows', k) = IF k = l THEN ((load(rows, k) \ same(rows, k, x.chain)) \union {x}) \ G
                                              ELSE load(rows, k) \ G
  BY DEF Gains
<1>2. ~isExpired(x) /\ x \notin G
  BY <1>1 DEF Gains
<1>3. r.list = l /\ r.chain = x.chain /\ r.expire = x.expire
  BY DEF rule
<1>4. x \in load(rows', l)
  BY <1>1, <1>2
<1>5. r \in B
  BY <1>4, RuleOf
<1>6. ASSUME NEW k \in List, NEW y \in load(rows, k)
      PROVE  rule(k, y) \in others <=> ~(k = l /\ y \in same(rows, k, x.chain))
  <2>1. rule(k, y).list = k /\ rule(k, y).chain = y.chain /\ rule(k, y) \in A
    BY RuleOf DEF rule
  <2>2. y.chain \in Seq(Cond) /\ x.chain \in Seq(Cond)
    BY LoadedItem DEF Item
  <2>3. RuleBook!Same(y.chain, x.chain) <=> isSameCondition(y.chain, x.chain)
    BY <2>2, SameIsSame
  <2> HIDE DEF A, r
  <2> QED BY <1>3, <2>1, <2>3 DEF same
<1>7. B \ {r} \subseteq others
  <2> SUFFICES ASSUME NEW q \in B, q # r PROVE q \in others
    OBVIOUS
  <2>1a. PICK k \in List : \E y \in load(rows', k) : q = rule(k, y)
    BY RuleOf
  <2>1. PICK y \in load(rows', k) : q = rule(k, y)
    BY <2>1a
  <2>2. ~(k = l /\ y = x)
    BY <2>1
  <2>3. y \in load(rows, k) /\ ~(k = l /\ y \in same(rows, k, x.chain))
    BY <1>1, <2>2
  <2> HIDE DEF others, r
  <2> QED BY <1>6, <2>1, <2>3
<1>8. ASSUME NEW q \in others \ B PROVE q.expire = "past"
  <2>0. q \in A
    OBVIOUS
  <2>1a. PICK k \in List : \E y \in load(rows, k) : q = rule(k, y)
    BY <2>0, RuleOf
  <2>1. PICK y \in load(rows, k) : q = rule(k, y)
    BY <2>1a
  <2>2. ~(k = l /\ y \in same(rows, k, x.chain))
    <3> HIDE DEF others
    <3> QED BY <1>6, <1>8, <2>1
  <2>3. y \notin load(rows', k)
    BY <1>8, <2>1, RuleOf
  <2>4. y \in G
    BY <1>1, <2>2, <2>3
  <2>5. q.expire = y.expire
    BY <2>1 DEF rule
  <2> QED BY <1>1, <2>4, <2>5 DEF isExpired
<1>9. RulesStored = A /\ RulesStored' = B
  BY StoredRules, StoredRulesNext
<1>10. r.expire # "past"
  BY <1>2, <1>3 DEF isExpired
<1>11. RuleBook!Others(r) = others
  BY <1>9 DEF RuleBook!Others
<1> HIDE DEF A, B, r, others
<1> QED BY <1>5, <1>7, <1>8, <1>9, <1>10, <1>11 DEF RuleBook!Order, RuleBook!OnlyDueLapse

-----------------------------------------------------------------------------
(* Every step of the bot is such a change.                                 *)

ListChange ==
  \/ Lapses(rows, rows')
  \/ \E l \in List : \E x \in load(rows, l) : Loses(rows, rows', l, x)
  \/ \E l \in List : Clears(rows, rows', l)
  \/ \E r \in rows : FallsDueIn(rows, rows', r)
  \/ \E l \in List, x \in Item : Gains(rows, rows', l, x)

LEMMA SameLoads ==
  ASSUME \A l \in List : load(rows', l) = load(rows, l)
  PROVE  ListChange
<1> DEFINE G == {}
<1>1. /\ \A x \in G : isExpired(x)
      /\ \A k \in List : load(rows', k) = load(rows, k) \ G
  OBVIOUS
<1>2. Lapses(rows, rows')
  BY <1>1 DEF Lapses
<1> QED BY <1>2 DEF ListChange

LEMMA SameRows ==
  ASSUME rows' = rows
  PROVE  ListChange
<1>1. \A l \in List : load(rows', l) = load(rows, l)
  OBVIOUS
<1> QED BY <1>1, SameLoads

LEMMA ExpiredChange ==
  ASSUME IInv, up, NEW L, L \subseteq List,
         rows' = removeExpired([rows |-> rows, items |-> items], L).rows
  PROVE  ListChange
<1>1. \A l \in List : load(rows', l) = load(rows, l) \ expired(rows, L)
  BY ExpiredTable DEF IInv
<1>2. \A x \in expired(rows, L) : isExpired(x)
  BY DEF expired
<1>3. Lapses(rows, rows')
  BY <1>1, <1>2 DEF Lapses
<1> QED BY <1>3 DEF ListChange

LEMMA LostItem ==
  ASSUME Table(rows), NEW Q, NEW l \in List, NEW x \in load(rows, l),
         \A k \in List : load(Q, k) = load(rows, k) \ {x}
  PROVE  Loses(rows, Q, l, x)
<1>1. \A k \in List : k # l => x \notin load(rows, k)
  BY ItemInOneList
<1> QED BY <1>1 DEF Loses

LEMMA LessItem ==
  ASSUME Table(rows), NEW l \in List, NEW x \in load(rows, l),
         \A k \in List : load(rows', k) = load(rows, k) \ {x}
  PROVE  ListChange
BY LostItem DEF ListChange

LEMMA MemberChange ==
  ASSUME IInv, NEW p \in Person, member(p)
  PROVE  ListChange
<1>1. CASE \E r \in Roles : enters(p, r) \/ showsPresence(p, r)
  BY <1>1, ExpiredChange, ListNames DEF enters, showsPresence, present, onPresence
<1>2. CASE rows' = rows
  BY <1>2, SameRows
<1> QED BY <1>1, <1>2 DEF member, leaves, says, versionStored, listVars

LEMMA EditChange ==
  ASSUME IInv, autoListsEdit
  PROVE  ListChange
<1>1. ASSUME NEW l \in List, NEW x \in items[l], Del(l, x) PROVE ListChange
  <2>1. up /\ rows' = removeItem(rows, x)
    BY <1>1 DEF Del
  <2>2. x \in load(rows, l)
    BY <2>1, CachedItems DEF IInv
  <2>3. allItems(rows') = [k \in List |-> load(rows, k) \ {x}]
    BY <2>1, <2>2, RemoveItem DEF IInv, Fillable
  <2>4. \A k \in List : load(rows', k) = load(rows, k) \ {x}
    BY <2>3 DEF allItems
  <2> QED BY <2>2, <2>4, LessItem DEF IInv, Fillable
<1>2. ASSUME NEW l \in List, Clear(l) PROVE ListChange
  <2>1. up /\ rows' = Without(rows, rowsOf(items[l]))
    BY <1>2 DEF Clear, rowsOf
  <2>2. items[l] = load(rows, l)
    BY <2>1, CachedItems DEF IInv
  <2>3. allItems(rows') = [allItems(rows) EXCEPT ![l] = {}]
    BY <2>1, <2>2, ClearList DEF IInv, Fillable
  <2>4. Clears(rows, rows', l)
    BY <2>3 DEF allItems, Clears
  <2> QED BY <2>4 DEF ListChange
<1>3. ASSUME NEW l \in List, Show(l) PROVE ListChange
  <2>1. up /\ rows' = removeExpired([rows |-> rows, items |-> items], {l}).rows
    BY <1>3 DEF Show
  <2> QED BY <2>1, ExpiredChange
<1> QED BY <1>1, <1>2, <1>3, ListNames DEF autoListsEdit

LEMMA TimeChange ==
  ASSUME time
  PROVE  ListChange
<1>1. PICK r \in rows : r.expire = "ahead" /\ rows' = (rows \ {r}) \union {due(r)}
  BY DEF time, timePasses, due
<1> QED BY <1>1 DEF ListChange, FallsDueIn

(* A deletion that is cut short after its first statement has lost the     *)
(* rule, and nothing else.                                                 *)
LEMMA CutDeletion ==
  ASSUME NEW R, Table(R), NEW l \in List, NEW x \in load(R, l), NEW k \in 1..Len(x.ids),
         NEW Q, Q = Without(R, deleted(x, k))
  PROVE  \A m \in List : load(Q, m) = load(R, m) \ {x}
<1>1. PICK r \in R : r.list = l /\ isTop(r) /\ x = itemFromQuery(R, r)
  BY DEF load, isTop, List, CHILD_ALIST
<1> DEFINE p == chainOf(R)[r.id]
           n == Len(x.ids)
           P == removeItem(R, x)
<1>2. /\ IsPath(R, p) /\ p[1] = r /\ n = Len(p) /\ n \in Nat \ {0}
      /\ \A i \in 1..n : x.ids[i] = p[i].id
  BY <1>1, ItemShape
<1>3. k \in 0..n /\ 1 \in 1..k
  BY <1>2
<1>4. Table(Q)
  BY <1>1, <1>3, DeletedIsClosed, WithoutTable
<1>5. Table(P) /\ \A m \in List : load(P, m) = load(R, m) \ {x}
  <2>1. Table(P) /\ allItems(P) = [m \in List |-> load(R, m) \ {x}]
    BY RemoveItem
  <2> HIDE DEF P
  <2> QED BY <2>1 DEF allItems
<1>6. P = Without(R, deleted(x, n))
  BY DEF removeItem
<1>7. deleted(x, k) \subseteq deleted(x, n)
  BY <1>3 DEF deleted
<1>8. P \subseteq Q
  BY <1>6, <1>7 DEF Without
<1>9. ASSUME NEW q \in Q \ P PROVE q.list = CHILD_ALIST
  <2>1. q \in R /\ q.id \notin deleted(x, k) /\ q.id \in deleted(x, n)
    BY <1>6, <1>9 DEF Without
  <2>2. PICK i \in 1..n : q.id = x.ids[i]
    BY <2>1 DEF deleted
  <2>3. i # 1
    BY <1>3, <2>1, <2>2 DEF deleted
  <2>4. i \in 2..Len(p)
    BY <1>2, <2>2, <2>3
  <2>5. p[i] \in R /\ p[i].list = CHILD_ALIST
    BY <1>2, <2>4, InsideIsChild
  <2>6. q = p[i]
    BY <1>2, <2>1, <2>2, <2>5 DEF Table
  <2> QED BY <2>5, <2>6
<1>10. \A m \in List : load(Q, m) = load(P, m)
  <2> TAKE m \in List
  <2>1. \A q \in Q \ P : q.list # m
    BY <1>9 DEF List, CHILD_ALIST
  <2> HIDE DEF P
  <2> QED BY <1>4, <1>5, <1>8, <2>1, GrownLoads
<1> HIDE DEF P
<1> QED BY <1>5, <1>10

(* Replacing removes the one rule that tests the same.                     *)
LEMMA ReplacedRules ==
  ASSUME Fillable(rows), Cached, up, OneRuleEach(rows),
         NEW l \in List, NEW chain \in Seq(Cond), NEW R \in Replaced(l, chain)
  PROVE  \A k \in List : load(R, k) = IF k = l THEN load(rows, k) \ same(rows, k, chain)
                                              ELSE load(rows, k)
<1> DEFINE S == same(rows, l, chain)
<1>1. S = {x \in items[l] : isSameCondition(x.chain, chain)}
  BY CachedItems DEF same
<1>2. CASE S = {}
  <2>1. R = rows
    BY <1>1, <1>2 DEF Replaced
  <2> QED BY <1>2, <2>1
<1>3. CASE S # {}
  <2>1. PICK x \in S : R = removeItem(rows, x)
    BY <1>1, <1>3 DEF Replaced
  <2>2. x \in load(rows, l)
    BY DEF same
  <2>3. S = {x}
    <3> SUFFICES ASSUME NEW y \in S PROVE y = x
      OBVIOUS
    <3>1. y \in load(rows, l) /\ isSameCondition(y.chain, chain) /\ isSameCondition(x.chain, chain)
      BY DEF same
    <3>2. x.chain \in Seq(Cond) /\ y.chain \in Seq(Cond)
      BY <2>2, <3>1, LoadedItem DEF Fillable
    <3>3. isSameCondition(y.chain, x.chain)
      BY <3>1, <3>2 DEF isSameCondition
    <3> QED BY <2>2, <3>1, <3>3 DEF OneRuleEach
  <2>4. allItems(R) = [k \in List |-> load(rows, k) \ {x}]
    BY <2>1, <2>2, RemoveItem DEF Fillable
  <2>5. \A k \in List : load(R, k) = load(rows, k) \ {x}
    BY <2>4 DEF allItems
  <2>6. \A k \in List : k # l => x \notin load(rows, k)
    BY <2>2, ItemInOneList DEF Fillable
  <2> TAKE k \in List
  <2>7. CASE k = l
    <3>1. load(R, k) = load(rows, k) \ S
      BY <2>3, <2>5
    <3> QED BY <2>7, <3>1
  <2>8. CASE k # l
    <3>1. load(R, k) = load(rows, k) \ {x} /\ x \notin load(rows, k)
      BY <2>5, <2>6, <2>8
    <3> QED BY <2>8, <3>1
  <2> QED BY <2>7, <2>8
<1> QED BY <1>2, <1>3

LEMMA LoneRow ==
  ASSUME NEW R, Table(R), NEW r \in R, r.child = 0
  PROVE  Len(itemFromQuery(R, r).chain) = 1 /\ itemFromQuery(R, r).chain[1] = r.cond
<1> DEFINE p == chainOf(R)[r.id]
           x == itemFromQuery(R, r)
<1>1. /\ IsPath(R, p) /\ p[1] = r /\ Len(p) \in Nat \ {0}
      /\ Len(x.chain) = Len(p) /\ \A i \in 1..Len(p) : x.chain[i] = p[i].cond
  BY ItemShape
<1> HIDE DEF p, x
<1>2. Len(p) = 1
  <2> SUFFICES ASSUME Len(p) # 1 PROVE FALSE
    OBVIOUS
  <2>1. 2 \in 2..Len(p) /\ 2 - 1 = 1
    <3> DEFINE n == Len(p)
    <3>1. n \in Nat \ {0} /\ n # 1
      BY <1>1
    <3> HIDE DEF n
    <3>2. 2 \in 2..n
      BY <3>1
    <3> QED BY <3>2 DEF n
  <2>2. p[2 - 1].child = p[2].id /\ p[2].id > 0
    BY <1>1, <2>1, InsideIsChild
  <2> QED BY <1>1, <2>1, <2>2
<1> QED BY <1>1, <1>2 DEF x

(* After that the unique key has nothing against a rule of one condition.  *)
LEMMA NoKeyInTheWay ==
  ASSUME NEW R, Table(R), NEW l, NEW chain \in Seq(Cond), Len(chain) = 1,
         same(R, l, chain) = {}
  PROVE  ~violatesKey(R, l, chain[1], 0)
<1> SUFFICES ASSUME NEW r \in R, r.list = l, Test[r.cond] = Test[chain[1]], r.child = 0
             PROVE  FALSE
  BY DEF violatesKey
<1> DEFINE x == itemFromQuery(R, r)
<1>1. x \in load(R, l)
  BY DEF load
<1>2. Len(x.chain) = 1 /\ x.chain[1] = r.cond /\ x.chain \in Seq(Cond)
  <2>1. x.chain \in Seq(Cond)
    BY ItemShape
  <2> QED BY <2>1, LoneRow
<1> HIDE DEF x
<1>3. isSameCondition(x.chain, chain)
  BY <1>2 DEF isSameCondition
<1> QED BY <1>1, <1>3 DEF same

(* The table Q holds what R does, and the rule x of list l.                *)
With(R, Q, l, x) ==
  \A k \in List : load(Q, k) = IF k = l THEN load(R, k) \union {x} ELSE load(R, k)

LEMMA AddedRule ==
  ASSUME IInv, ~SharedTails, NEW l \in List, NEW chain \in Seq(Cond) \ {<<>>},
         NEW expire \in {"never", "ahead"}, NEW R, MayAdd(l, chain, R),
         Len(chain) = 1 => OneRuleEach(rows),
         NEW a, a = added(l, chain, expire, R)
  PROVE  \E x \in Item : x.chain = chain /\ x.expire = expire /\ With(R, a.rows, l, x)
<1> DEFINE u == insertChain(R, l, chain, expire)
<1>1. /\ up /\ R \in Replaced(l, chain) /\ lastId + Len(chain) <= MaxId
      /\ ~tailIsStored(R, chain) /\ chain \in Seq(Cond) /\ expire \in Expiry
  BY DEF MayAdd, Expiry
<1>2. Fillable(R) /\ Table(R)
  BY <1>1, ReplacedTable DEF IInv, Fillable
<1>3. ASSUME Len(chain) = 1 PROVE ~violatesKey(R, l, chain[1], 0)
  <2>1. load(R, l) = load(rows, l) \ same(rows, l, chain)
    BY <1>1, <1>3, ReplacedRules DEF IInv
  <2>2. same(R, l, chain) = {}
    BY <2>1 DEF same
  <2> QED BY <1>1, <1>2, <1>3, <2>2, NoKeyInTheWay
<1>4. u = insertChain(R, l, chain, expire)
  OBVIOUS
<1>5. a.rows = u.rows
  BY DEF added
<1> HIDE DEF u
<1>6. PICK x \in Item : /\ x.chain = chain /\ x.expire = expire
                       /\ load(u.rows, l) = load(R, l) \union {x}
  <2>1. /\ Fillable(R) /\ chain \in Seq(Cond) \ {<<>>} /\ lastId + Len(chain) <= MaxId
        /\ ~tailIsStored(R, chain) /\ expire \in Expiry
        /\ Len(chain) = 1 => ~violatesKey(R, l, chain[1], 0)
    BY <1>1, <1>2, <1>3
  <2>2. PICK w, ch : w = insertChain(R, l, chain, expire) /\ ch = chain
    OBVIOUS
  <2>3. \A v : v = insertChain(R, l, ch, expire) =>
               \E x \in Item : /\ x.chain = ch /\ x.expire = expire
                              /\ load(v.rows, l) = load(R, l) \union {x}
    BY <2>1, <2>2, InsertedRule
  <2>4. \E x \in Item : /\ x.chain = ch /\ x.expire = expire
                        /\ load(w.rows, l) = load(R, l) \union {x}
    BY <2>2, <2>3
  <2> QED BY <1>4, <2>2, <2>4
<1>7. /\ Table(u.rows) /\ R \subseteq u.rows
      /\ \A r \in u.rows \ R : r.list \in {l, CHILD_ALIST}
  BY <1>1, <1>2, <1>4, ChainFills
<1>8. ASSUME NEW k \in List, k # l PROVE load(u.rows, k) = load(R, k)
  <2>1. \A r \in u.rows \ R : r.list # k
    BY <1>7, <1>8 DEF List, CHILD_ALIST
  <2> QED BY <1>2, <1>7, <2>1, GrownLoads
<1> QED BY <1>5, <1>6, <1>8 DEF With


(* What an ABAN leaves of the lists, after removeExpired().                *)
Left(R, l, x, G) ==
  /\ ~isExpired(x)
  /\ \A y \in G : isExpired(y)
  /\ \A k \in List : load(rows', k) = IF k = l THEN (load(R, k) \union {x}) \ G
                                            ELSE load(R, k) \ G

LEMMA AddLeaves ==
  ASSUME IInv, ~SharedTails, NEW l \in List, NEW chain \in Seq(Cond) \ {<<>>},
         NEW expire \in {"never", "ahead"}, autoListsAdd(l, chain, expire),
         Len(chain) = 1 => OneRuleEach(rows)
  PROVE  \E R \in Replaced(l, chain), x \in Item : \E G : x.chain = chain /\ Left(R, l, x, G)
<1>1. PICK R \in Replaced(l, chain) :
        LET a == added(l, chain, expire, R)
            t == removeExpired([rows |-> a.rows, items |-> a.items], ExpiringList)
        IN  MayAdd(l, chain, R) /\ rows' = t.rows
  BY DEF autoListsAdd
<1> DEFINE a == added(l, chain, expire, R)
           t == removeExpired([rows |-> a.rows, items |-> a.items], ExpiringList)
           G == expired(a.rows, ExpiringList)
<1>2. MayAdd(l, chain, R) /\ up /\ rows' = t.rows
  BY <1>1 DEF MayAdd
<1>3. a = added(l, chain, expire, R)
  OBVIOUS
<1> HIDE DEF a
<1>4. Table(a.rows) /\ a.items = allItems(a.rows)
  BY <1>2, <1>3, AddedTable DEF IInv
<1>5. PICK x \in Item : x.chain = chain /\ x.expire = expire /\ With(R, a.rows, l, x)
  BY <1>2, <1>3, AddedRule
<1>6. \A k \in List : load(rows', k) = load(a.rows, k) \ G
  <2>1. \A k \in List : load(t.rows, k) = load(a.rows, k) \ G
    BY <1>4, ListNames, RemoveExpired
  <2> HIDE DEF t, G
  <2> QED BY <1>2, <2>1
<1>7. \A y \in G : isExpired(y)
  BY DEF expired
<1>8. ~isExpired(x)
  BY <1>5 DEF isExpired
<1> HIDE DEF G, t
<1>9. Left(R, l, x, G)
  BY <1>5, <1>6, <1>7, <1>8 DEF Left, With
<1> QED BY <1>5, <1>9

LEMMA AddChange ==
  ASSUME IInv, ~SharedTails, OneRuleEach(rows), NEW l \in List, NEW chain \in Seq(Cond) \ {<<>>},
         NEW expire \in {"never", "ahead"}, autoListsAdd(l, chain, expire)
  PROVE  ListChange
<1>1. PICK R \in Replaced(l, chain) : \E x \in Item : \E G : x.chain = chain /\ Left(R, l, x, G)
  BY AddLeaves
<1>2. PICK x \in Item : \E G : x.chain = chain /\ Left(R, l, x, G)
  BY <1>1
<1>3. PICK G : x.chain = chain /\ Left(R, l, x, G)
  BY <1>2
<1>4. up
  BY DEF autoListsAdd, MayAdd
<1>5. \A k \in List : load(R, k) = IF k = l THEN load(rows, k) \ same(rows, k, x.chain) ELSE load(rows, k)
  BY <1>3, <1>4, ReplacedRules DEF IInv
<1>6. Gains(rows, rows', l, x)
  BY <1>3, <1>5 DEF Left, Gains
<1> QED BY <1>6 DEF ListChange

LEMMA DieChange ==
  ASSUME IInv, die
  PROVE  ListChange
<1>1. ASSUME NEW l \in UsedList, NEW x \in items[l], NEW k \in 1..(Len(x.ids) - 1),
             diesInRemoveItem(l, x, k)
      PROVE  ListChange
  <2>1. up /\ l \in List /\ rows' = Without(rows, deleted(x, k)) /\ Table(rows)
    BY <1>1, ListNames DEF diesInRemoveItem, IInv, Fillable
  <2>2. x \in load(rows, l)
    BY <2>1, CachedItems DEF IInv
  <2>3. k \in 1..Len(x.ids)
    <3>1. Len(x.ids) \in Nat
      BY <2>1, <2>2, ItemShape DEF load
    <3> QED BY <3>1
  <2>4. \A m \in List : load(rows', m) = load(rows, m) \ {x}
    BY <2>1, <2>2, <2>3, CutDeletion
  <2> QED BY <2>1, <2>2, <2>4, LessItem
<1>2. ASSUME NEW l \in UsedList, NEW chain \in UsedChain, NEW R \in Replaced(l, chain),
             NEW k \in 0..(Len(chain) - 1), diesInAppend(l, chain, R, k)
      PROVE  ListChange
  <2> DEFINE c == Tail(chain)
             f == appendChildren(R, c)
  <2>1. up /\ l \in List /\ lastId + Len(chain) <= MaxId /\ Table(rows)
    BY <1>2, ListNames DEF diesInAppend, MayAdd, IInv, Fillable
  <2>2. Fillable(R)
    BY <2>1, ReplacedTable DEF IInv
  <2>3. /\ c \in Seq(Cond) /\ Len(c) = Len(chain) - 1 /\ Len(chain) \in Nat
        /\ lastId \in Nat
    BY <2>2, TailOfChain, ListAssumption DEF Fillable
  <2>4. k \in 0..Len(c) /\ lastId + Len(c) <= MaxId
    BY <2>1, <2>3, ListAssumption
  <2>5. /\ Filling(f[k])
        /\ f[k].lastId \in lastId..(lastId + k)
        /\ R \subseteq f[k].rows
        /\ \A r \in f[k].rows \ R : r.list = CHILD_ALIST
    <3> HIDE DEF c, f
    <3>1. f = appendChildren(R, c)
      BY DEF f
    <3> QED BY <2>2, <2>3, <2>4, <3>1, ChildrenFill
  <2>6. rows' = f[k].rows
    BY <1>2 DEF diesInAppend
  <2> HIDE DEF f
  <2>7. \A m \in List : load(rows', m) = load(R, m)
    <3> TAKE m \in List
    <3>1. \A r \in rows' \ R : r.list # m
      BY <2>5, <2>6 DEF List, CHILD_ALIST
    <3>2. Table(rows') /\ Table(R) /\ R \subseteq rows'
      BY <2>2, <2>5, <2>6 DEF Filling, Fillable
    <3> QED BY <3>1, <3>2, GrownLoads
  <2>8. CASE R = rows
    BY <2>7, <2>8, SameLoads
  <2>9. CASE \E x \in items[l] : R = removeItem(rows, x)
    <3>1. PICK x \in load(rows, l) : R = removeItem(rows, x)
      BY <2>1, <2>9, CachedItems DEF IInv
    <3>2. allItems(R) = [m \in List |-> load(rows, m) \ {x}]
      BY <2>1, <3>1, RemoveItem
    <3>3. \A m \in List : load(rows', m) = load(rows, m) \ {x}
      BY <2>7, <3>2 DEF allItems
    <3> QED BY <2>1, <3>1, <3>3, LessItem
  <2> QED BY <2>8, <2>9 DEF Replaced
<1> QED BY <1>1, <1>2 DEF die

LEMMA NextChange ==
  ASSUME IInv, ~SharedTails, OneRuleEach(rows), [Next]_vars
  PROVE  ListChange
<1>1. CASE \E p \in Person : member(p)
  BY <1>1, MemberChange
<1>2. ASSUME NEW l \in UsedList, NEW chain \in UsedChain, NEW expire \in {"never", "ahead"},
             autoListsAdd(l, chain, expire)
      PROVE  ListChange
  <2>1. l \in List /\ chain \in Seq(Cond) \ {<<>>}
    BY ListNames, ListAssumption
  <2> QED BY <1>2, <2>1, AddChange
<1>3. CASE autoListsEdit
  BY <1>3, EditChange
<1>4. CASE time
  BY <1>4, TimeChange
<1>5. CASE start \/ stop \/ UNCHANGED vars
  <2>1. rows' = rows
    BY <1>5 DEF start, starts, stop, stops, vars
  <2> QED BY <2>1, SameRows
<1>6. CASE die
  BY <1>6, DieChange
<1> QED BY <1>1, <1>2, <1>3, <1>4, <1>5, <1>6 DEF Next

LEMMA ChangeKeepsOne ==
  ASSUME Table(rows), OneRuleEach(rows), ListChange
  PROVE  OneRuleEach(rows')
<1>1. CASE \A l \in List : load(rows', l) \subseteq load(rows, l)
  BY <1>1, LapseOne
<1>2. CASE Lapses(rows, rows')
  BY <1>1, <1>2 DEF Lapses
<1>3. CASE \E l \in List : \E x \in load(rows, l) : Loses(rows, rows', l, x)
  BY <1>1, <1>3 DEF Loses
<1>4. CASE \E l \in List : Clears(rows, rows', l)
  BY <1>1, <1>4 DEF Clears
<1>5. CASE \E r \in rows : FallsDueIn(rows, rows', r)
  BY <1>5, DueOne
<1>6. CASE \E l \in List, x \in Item : Gains(rows, rows', l, x)
  BY <1>6, GainOne
<1> QED BY <1>2, <1>3, <1>4, <1>5, <1>6 DEF ListChange

LEMMA ChangeIsOrdered ==
  ASSUME Table(rows), OneRuleEach(rows), ListChange
  PROVE  RuleBook!Next
<1>1. CASE Lapses(rows, rows')
  BY <1>1, LapseStep DEF RuleBook!Next
<1>2. CASE \E l \in List : \E x \in load(rows, l) : Loses(rows, rows', l, x)
  BY <1>2, LoseStep DEF RuleBook!Next
<1>3. CASE \E l \in List : Clears(rows, rows', l)
  BY <1>3, ClearStep DEF RuleBook!Next
<1>4. CASE \E r \in rows : FallsDueIn(rows, rows', r)
  BY <1>4, DueStep DEF RuleBook!Next
<1>5. CASE \E l \in List, x \in Item : Gains(rows, rows', l, x)
  BY <1>5, GainStep DEF RuleBook!Next
<1> QED BY <1>1, <1>2, <1>3, <1>4, <1>5 DEF ListChange

(* "Added" is true: an ABAN leaves in its list the rule it was given, with *)
(* every condition, as long as no two chains share a tail.                 *)
THEOREM AddedMeansThere ==
  ~SharedTails => (Spec => AddedIsThere)
<1> SUFFICES ASSUME ~SharedTails PROVE Spec => AddedIsThere
  OBVIOUS
<1> DEFINE There(l, chain, expire) ==
             Len(chain) > 1 /\ autoListsAdd(l, chain, expire) => \E x \in items'[l] : x.chain = chain
<1>1. ASSUME IInv, NEW l \in UsedList, NEW chain \in UsedChain, NEW expire \in {"never", "ahead"},
             Len(chain) > 1, autoListsAdd(l, chain, expire)
      PROVE  \E x \in items'[l] : x.chain = chain
  <2>1. l \in List /\ chain \in Seq(Cond) \ {<<>>}
    BY ListNames, ListAssumption
  <2>1a. Len(chain) # 1
    <3> DEFINE n == Len(chain)
    <3>1. n \in Nat /\ n > 1
      BY <1>1, <2>1, TailOfChain
    <3> HIDE DEF n
    <3>2. n # 1
      BY <3>1
    <3> QED BY <3>2 DEF n
  <2>2. PICK R \in Replaced(l, chain) : \E x \in Item : \E G : x.chain = chain /\ Left(R, l, x, G)
    BY <1>1, <2>1, <2>1a, AddLeaves
  <2>3. PICK x \in Item : \E G : x.chain = chain /\ Left(R, l, x, G)
    BY <2>2
  <2>4. PICK G : x.chain = chain /\ Left(R, l, x, G)
    BY <2>3
  <2>5. x \in load(rows', l)
    BY <2>1, <2>4 DEF Left
  <2>6. items' = allItems(rows')
    BY <1>1, <2>1, AddShape
  <2> QED BY <2>1, <2>4, <2>5, <2>6 DEF allItems
<1>2. IInv /\ [Next]_vars =>
        [\A l \in UsedList, chain \in UsedChain, expire \in {"never", "ahead"} :
           Len(chain) > 1 /\ autoListsAdd(l, chain, expire) => \E x \in items'[l] : x.chain = chain]_vars
  BY <1>1
<1> QED BY <1>2, Invariance, PTL DEF Spec, AddedIsThere

(* The lists are a rule book: what the admins ordered is in force with all *)
(* its conditions until it is withdrawn, replaced or due, whoever comes,   *)
(* and wherever the process dies; as long as no two chains share a tail.   *)
THEOREM ListsAreRuleBook ==
  ~SharedTails => (Spec => ImplementsRuleBook)
<1> SUFFICES ASSUME ~SharedTails PROVE Spec => ImplementsRuleBook
  OBVIOUS
<1> DEFINE One == OneRuleEach(rows)
<1>1. Init => One /\ RuleBook!Init
  <2> SUFFICES ASSUME Init PROVE One /\ RuleBook!Init
    OBVIOUS
  <2>1. \A l \in List : load(rows, l) = {}
    BY DEF Init, ListInit, load
  <2>2. RulesStored = {}
    BY <2>1 DEF RulesStored
  <2> QED BY <2>1, <2>2 DEF OneRuleEach, RuleBook!Init
<1>2. IInv /\ One /\ [Next]_vars => One' /\ [RuleBook!Next]_RulesStored
  BY NextChange, ChangeKeepsOne, ChangeIsOrdered DEF IInv, Fillable
<1> HIDE DEF One
<1> QED BY <1>1, <1>2, Invariance, PTL DEF Spec, ImplementsRuleBook, RuleBook!Spec
=============================================================================
