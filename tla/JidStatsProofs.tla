--------------------------- MODULE JidStatsProofs ---------------------------
(***************************************************************************)
(* What JidStats keeps is kept, whichever statement the process dies at:   *)
(* every statement leaves sound tables behind, a handler is a trail of     *)
(* such statements, and every seat finds its rows where it left them.      *)
(* The counts and times of a trail add up: no database in it differs from  *)
(* the first by more than the message that is being counted, or by more    *)
(* time than the nicks whose time was added have waited.                   *)
(***************************************************************************)
EXTENDS JidStats, SequenceTheorems, FiniteSetTheorems, WellFoundedInduction, TLAPS

-----------------------------------------------------------------------------
(* What the tables are like between any two statements.                    *)

Table(Key, Row) == UNION {[K -> Row] : K \in SUBSET Key}

Id == Nat
Count == Nat
JidRow == [jid : Name, temporary : BOOLEAN]
NickRow == [online : BOOLEAN, logged : Nat]
StatRow == [messages : Nat, time : Nat]

Database ==
  [jids   : Table(Id, JidRow),
   nicks  : Table(Nick \X Id, NickRow),
   stats  : Table(Id, StatRow),
   times  : Table(Id, Table(Cells, Count)),
   lastId : Nat]

(* Whatever belongs to a JID belongs to one that is there.                 *)
ForeignKeys(d) ==
  /\ DOMAIN d.jids \subseteq 1..d.lastId
  /\ DOMAIN d.stats \subseteq DOMAIN d.jids
  /\ DOMAIN d.times \subseteq DOMAIN d.jids
  /\ \A k \in DOMAIN d.nicks : k[2] \in DOMAIN d.jids

(* A JID has one row, the temporary ones are those of the code, and only   *)
(* the nick one is made of is stored under it.                             *)
Names(d) ==
  /\ \A i, k \in DOMAIN d.jids : d.jids[i].jid = d.jids[k].jid => i = k
  /\ \A i \in DOMAIN d.jids : d.jids[i].temporary <=> d.jids[i].jid \in LocalJid
  /\ \A k \in DOMAIN d.nicks :
       d.jids[k[2]].jid \in LocalJid => d.jids[k[2]].jid[1] = k[1]

(* Records that are not complete have counted nothing.                     *)
full(d, id) == id \in DOMAIN d.times /\ DOMAIN d.times[id] = Cells
blank(d, id) == \A cell \in DOMAIN d.times[id] : d.times[id][cell] = 0
Records(d) == \A id \in DOMAIN d.times : full(d, id) \/ blank(d, id)

Sound(d) == d \in Database /\ ForeignKeys(d) /\ Names(d) /\ Records(d)

-----------------------------------------------------------------------------
(* What is counted, row by row: 0 where there is no row.                   *)

timeOf(d, id) == IF id \in DOMAIN d.stats THEN d.stats[id].time ELSE 0
messagesOf(d, id) == IF id \in DOMAIN d.stats THEN d.stats[id].messages ELSE 0
valueOf(d, id, c) ==
  IF id \in DOMAIN d.times /\ c \in DOMAIN d.times[id] THEN d.times[id][c] ELSE 0

(* The time since the last action of n that is still to be added to id.    *)
waits(at, all, n, id) ==
  IF all[n] # Nobody /\ all[n].id = id THEN at - all[n].since ELSE 0

(* F[s] is the sum of g over s, whichever element is added last.           *)
Sums(F, S, g) ==
  /\ F \in [SUBSET S -> Int]
  /\ F[{}] = 0
  /\ \A s \in SUBSET S : \A x \in s : F[s] = g[x] + F[s \ {x}]

(* The sum of a function over its domain, and those the properties speak   *)
(* of: a report, and the time nobody has added yet.                        *)
SumOf(g) == (CHOOSE F : Sums(F, DOMAIN g, g))[DOMAIN g]

Total(d, id, i) == SumOf([c \in cellsOf(i) |-> valueOf(d, id, c)])
Waited(at, all, id) == SumOf([n \in Nick |-> waits(at, all, n, id)])

(* No count of a JID differs from another by more than c.                  *)
Balanced(c, d) ==
  /\ c \in Nat
  /\ \A id : \A i \in DOMAIN reportArray : differ(Total(d, id, i), messagesOf(d, id)) <= c

(* Nobody has, or is about to have, more time than it was credited with.   *)
Earns(at, earned, d, all) ==
  \A id \in DOMAIN d.jids :
    d.jids[id].jid \in Person => timeOf(d, id) + Waited(at, all, id) <= earned[d.jids[id].jid]

-----------------------------------------------------------------------------
(* What a seat is like.                                                    *)

Recorded(d, n, s) ==
  /\ <<n, s.id>> \in DOMAIN d.nicks /\ d.nicks[<<n, s.id>>].online
  /\ s.id \in DOMAIN d.stats
  /\ full(d, s.id)

(* A seat has all its rows, under the name it is known by; or it was       *)
(* stored without a JID, then showed it, and has none.                     *)
Kept(d, n, s) ==
  /\ Recorded(d, n, s)
  /\ d.jids[s.id].jid = s.jid
  /\ s.temporary => s.jid \in LocalJid
Lost(d, s) ==
  s.temporary /\ s.jid \in Person /\ s.id <= d.lastId /\ s.id \notin DOMAIN d.jids
SeatOK(d, n, s) == Kept(d, n, s) \/ Lost(d, s)

(* Whoever is known, and has come to prove it, is who sits there.          *)
Honest(who, all) ==
  \A n \in Nick :
    all[n] # Nobody /\ ~all[n].validate /\ all[n].jid \in Person => who[n] = all[n].jid

Seating ==
  /\ \A n \in Seated : SeatOK(db, n, seats[n]) /\ seats[n].since <= now
  /\ ~up => Seated = {}
  /\ up => \A n \in Nick \ untold :
             room[n] # Nobody => n \in Seated /\ ~seats[n].validate
  /\ Honest(room, seats)

TypeOK ==
  /\ room \in [Nick -> Person \union {Nobody}]
  /\ up \in BOOLEAN
  /\ untold \subseteq {n \in Nick : room[n] # Nobody}
  /\ seats \in [Nick -> Seat \union {Nobody}]
  /\ now \in Clock
  /\ crashes \in Nat
  /\ credit \in [Person -> Nat]
  /\ db.lastId <= MaxIds

Inv ==
  /\ TypeOK /\ Sound(db) /\ Seating
  /\ Balanced(cut, db)
  /\ Earns(now, credit, db, seats)

(* What a database keeps of an earlier one about the JIDs that are known.  *)
KeepsLog(d, e, id) ==
  \A key \in DOMAIN d.nicks :
    key[2] = id => key \in DOMAIN e.nicks /\ e.nicks[key].logged >= d.nicks[key].logged
KeepsKnown(d, e) ==
  \A id \in DOMAIN d.jids :
    ~d.jids[id].temporary =>
      /\ id \in DOMAIN e.jids /\ e.jids[id] = d.jids[id]
      /\ KeepsLog(d, e, id)
      /\ id \in DOMAIN d.stats =>
           /\ id \in DOMAIN e.stats
           /\ e.stats[id].messages >= d.stats[id].messages
           /\ e.stats[id].time >= d.stats[id].time
      /\ id \in DOMAIN d.times =>
           \A cell \in DOMAIN d.times[id] :
             d.times[id][cell] > 0 =>
               /\ id \in DOMAIN e.times /\ cell \in DOMAIN e.times[id]
               /\ e.times[id][cell] >= d.times[id][cell]

(* The seats of the nicks in M are as good in e as they were in d.         *)
Spares(M, d, e) ==
  \A m \in M : \A s \in Seat : SeatOK(d, m, s) => SeatOK(e, m, s)

(* No JID gets a name it did not have, and none comes back.                *)
SameNames(d, e) ==
  \A id \in DOMAIN e.jids :
    id \in 1..d.lastId => id \in DOMAIN d.jids /\ e.jids[id].jid = d.jids[id].jid

(* What one statement, or many, may do.                                    *)
Step(M, d, e) ==
  /\ Sound(e)
  /\ KeepsKnown(d, e)
  /\ d.lastId <= e.lastId
  /\ Spares(M, d, e)
  /\ SameNames(d, e)

(* What most of them do to the counts and times: nothing, unless a JID     *)
(* loses all its rows.                                                     *)
SameCounts(d, e, id) ==
  /\ messagesOf(e, id) = messagesOf(d, id)
  /\ \A c : valueOf(e, id, c) = valueOf(d, id, c)
NoCounts(e, id) ==
  /\ messagesOf(e, id) = 0
  /\ \A c : valueOf(e, id, c) = 0
Even(d, e) == \A id : SameCounts(d, e, id) \/ NoCounts(e, id)
Idle(d, e) == \A id : timeOf(e, id) = timeOf(d, id) \/ timeOf(e, id) = 0
Calm(d, e) == Even(d, e) /\ Idle(d, e)

-----------------------------------------------------------------------------
(* Tables.                                                                 *)

LEMMA TableIs ==
  ASSUME NEW K, NEW R, NEW f
  PROVE  f \in Table(K, R) <=> /\ f = [k \in DOMAIN f |-> f[k]]
                               /\ DOMAIN f \subseteq K
                               /\ \A k \in DOMAIN f : f[k] \in R
BY DEF Table

(* g is f with one row written.                                            *)
Written(g, f, key, row) ==
  /\ DOMAIN g = DOMAIN f \union {key}
  /\ g[key] = row
  /\ \A k \in DOMAIN f : k # key => g[k] = f[k]

LEMMA Inserted ==
  ASSUME NEW K, NEW R, NEW f \in Table(K, R), NEW key \in K, NEW row \in R,
         NEW g, g = inserted(f, key, row)
  PROVE  g \in Table(K, R) /\ Written(g, f, key, row)
BY TableIs DEF inserted, Written

LEMMA Changed ==
  ASSUME NEW K, NEW R, NEW f \in Table(K, R), NEW key \in DOMAIN f, NEW row \in R,
         NEW g, g = [f EXCEPT ![key] = row]
  PROVE  g \in Table(K, R) /\ Written(g, f, key, row)
<1>1. /\ f = [k \in DOMAIN f |-> f[k]]
      /\ DOMAIN f \subseteq K
      /\ \A k \in DOMAIN f : f[k] \in R
  BY TableIs
<1>2. g = [k \in DOMAIN f |-> IF k = key THEN row ELSE f[k]]
  BY <1>1
<1>3. g = [k \in DOMAIN g |-> g[k]] /\ DOMAIN g = DOMAIN f
  BY <1>2
<1>4. \A k \in DOMAIN g : g[k] \in R
  BY <1>1, <1>2
<1>5. g \in Table(K, R)
  BY <1>1, <1>3, <1>4, TableIs
<1> QED BY <1>2, <1>5 DEF Written

LEMMA Restricted ==
  ASSUME NEW K, NEW R, NEW f \in Table(K, R), NEW S, S \subseteq DOMAIN f,
         NEW g, g = Restrict(f, S)
  PROVE  /\ g \in Table(K, R)
         /\ DOMAIN g = S
         /\ \A k \in S : g[k] = f[k]
BY TableIs DEF Restrict

LEMMA EmptyTable ==
  ASSUME NEW K, NEW R
  PROVE  <<>> \in Table(K, R) /\ DOMAIN <<>> = {}
<1>1. DOMAIN <<>> = {}
  OBVIOUS
<1>2. <<>> = [k \in {} |-> <<>>[k]]
  OBVIOUS
<1> QED BY <1>1, <1>2, TableIs

LEMMA Fields ==
  ASSUME NEW d \in Database
  PROVE  /\ d.jids \in Table(Id, JidRow)
         /\ d.nicks \in Table(Nick \X Id, NickRow)
         /\ d.stats \in Table(Id, StatRow)
         /\ d.times \in Table(Id, Table(Cells, Count))
         /\ d.lastId \in Nat
         /\ d = [jids |-> d.jids, nicks |-> d.nicks, stats |-> d.stats,
                 times |-> d.times, lastId |-> d.lastId]
BY DEF Database

(* The rows of a database.                                                 *)
LEMMA Rows ==
  ASSUME NEW d \in Database
  PROVE  /\ \A i \in DOMAIN d.jids :
              /\ i \in Nat /\ d.jids[i].jid \in Name
              /\ d.jids[i].temporary \in BOOLEAN
         /\ \A k \in DOMAIN d.nicks :
              /\ k \in Nick \X Nat /\ d.nicks[k].online \in BOOLEAN
              /\ d.nicks[k].logged \in Nat
         /\ \A i \in DOMAIN d.stats :
              /\ i \in Nat /\ d.stats[i].messages \in Nat
              /\ d.stats[i].time \in Nat
         /\ \A i \in DOMAIN d.times :
              /\ i \in Nat /\ d.times[i] \in Table(Cells, Count)
              /\ DOMAIN d.times[i] \subseteq Cells
              /\ \A c \in DOMAIN d.times[i] : d.times[i][c] \in Nat
<1>1. ASSUME NEW i \in DOMAIN d.jids
      PROVE  i \in Id /\ d.jids[i] \in JidRow
  <2>1. d.jids \in Table(Id, JidRow)
    BY Fields
  <2> QED BY <2>1, TableIs
<1>2. ASSUME NEW k \in DOMAIN d.nicks
      PROVE  k \in Nick \X Id /\ d.nicks[k] \in NickRow
  <2>1. d.nicks \in Table(Nick \X Id, NickRow)
    BY Fields
  <2> QED BY <2>1, TableIs
<1>3. ASSUME NEW i \in DOMAIN d.stats
      PROVE  i \in Id /\ d.stats[i] \in StatRow
  <2>1. d.stats \in Table(Id, StatRow)
    BY Fields
  <2> QED BY <2>1, TableIs
<1>4. ASSUME NEW i \in DOMAIN d.times
      PROVE  /\ i \in Id /\ d.times[i] \in Table(Cells, Count)
             /\ DOMAIN d.times[i] \subseteq Cells
             /\ \A c \in DOMAIN d.times[i] : d.times[i][c] \in Count
  <2>1. d.times \in Table(Id, Table(Cells, Count))
    BY Fields
  <2>2. i \in Id /\ d.times[i] \in Table(Cells, Count)
    BY <2>1, TableIs
  <2> QED BY <2>2, TableIs
<1> QED BY <1>1, <1>2, <1>3, <1>4 DEF Id, Count, JidRow, NickRow, StatRow

-----------------------------------------------------------------------------
(* Steps follow one another.                                               *)

LEMMA StayStep ==
  ASSUME NEW d, Sound(d), NEW M
  PROVE  Step(M, d, d)
<1>1. d.lastId \in Nat /\ d.lastId <= d.lastId
  BY Fields DEF Sound
<1>2. KeepsKnown(d, d)
  <2>1. \A id : KeepsLog(d, d, id)
    BY Rows DEF KeepsLog, Sound
  <2> QED BY <2>1, Rows DEF KeepsKnown, Sound
<1>3. SameNames(d, d)
  BY DEF SameNames
<1> QED BY <1>1, <1>2, <1>3 DEF Step, Spares

LEMMA KeepsAgain ==
  ASSUME NEW d, NEW e, NEW f, Sound(d), Sound(e), Sound(f),
         KeepsKnown(d, e), KeepsKnown(e, f)
  PROVE  KeepsKnown(d, f)
<1> SUFFICES ASSUME NEW id \in DOMAIN d.jids, ~d.jids[id].temporary
             PROVE  /\ id \in DOMAIN f.jids /\ f.jids[id] = d.jids[id]
                    /\ KeepsLog(d, f, id)
                    /\ id \in DOMAIN d.stats =>
                         /\ id \in DOMAIN f.stats
                         /\ f.stats[id].messages >= d.stats[id].messages
                         /\ f.stats[id].time >= d.stats[id].time
                    /\ id \in DOMAIN d.times =>
                         \A cell \in DOMAIN d.times[id] :
                           d.times[id][cell] > 0 =>
                             /\ id \in DOMAIN f.times /\ cell \in DOMAIN f.times[id]
                             /\ f.times[id][cell] >= d.times[id][cell]
  BY DEF KeepsKnown
<1>1. id \in DOMAIN e.jids /\ e.jids[id] = d.jids[id]
  BY DEF KeepsKnown
<1>2. id \in DOMAIN f.jids /\ f.jids[id] = d.jids[id]
  BY <1>1 DEF KeepsKnown
<1>3. ASSUME id \in DOMAIN d.stats
      PROVE  /\ id \in DOMAIN f.stats
             /\ f.stats[id].messages >= d.stats[id].messages
             /\ f.stats[id].time >= d.stats[id].time
  <2>1. /\ id \in DOMAIN e.stats
        /\ e.stats[id].messages >= d.stats[id].messages
        /\ e.stats[id].time >= d.stats[id].time
    BY <1>3 DEF KeepsKnown
  <2>2. /\ id \in DOMAIN f.stats
        /\ f.stats[id].messages >= e.stats[id].messages
        /\ f.stats[id].time >= e.stats[id].time
    BY <1>1, <2>1 DEF KeepsKnown
  <2> QED BY <1>3, <2>1, <2>2, Rows DEF Sound
<1>4. ASSUME id \in DOMAIN d.times, NEW cell \in DOMAIN d.times[id], d.times[id][cell] > 0
      PROVE  /\ id \in DOMAIN f.times /\ cell \in DOMAIN f.times[id]
             /\ f.times[id][cell] >= d.times[id][cell]
  <2>1. /\ id \in DOMAIN e.times /\ cell \in DOMAIN e.times[id]
        /\ e.times[id][cell] >= d.times[id][cell]
    BY <1>4 DEF KeepsKnown
  <2>2. d.times[id][cell] \in Nat /\ e.times[id][cell] \in Nat
    BY <1>4, <2>1, Rows DEF Sound
  <2>3. e.times[id][cell] > 0
    BY <1>4, <2>1, <2>2
  <2>4. /\ id \in DOMAIN f.times /\ cell \in DOMAIN f.times[id]
        /\ f.times[id][cell] >= e.times[id][cell]
    BY <1>1, <2>1, <2>3 DEF KeepsKnown
  <2> QED BY <2>1, <2>2, <2>4, Rows DEF Sound
<1>5. KeepsLog(d, f, id)
  <2>1. KeepsLog(d, e, id) /\ KeepsLog(e, f, id)
    BY <1>1 DEF KeepsKnown
  <2>2. /\ \A key \in DOMAIN d.nicks : d.nicks[key].logged \in Nat
        /\ \A key \in DOMAIN e.nicks : e.nicks[key].logged \in Nat
        /\ \A key \in DOMAIN f.nicks : f.nicks[key].logged \in Nat
    BY Rows DEF Sound
  <2> QED BY <2>1, <2>2 DEF KeepsLog
<1> QED BY <1>2, <1>3, <1>4, <1>5

LEMMA StepAgain ==
  ASSUME NEW M, NEW d, NEW e, NEW f, Sound(d), Step(M, d, e), Step(M, e, f)
  PROVE  Step(M, d, f)
<1>1. Sound(e) /\ Sound(f)
  BY DEF Step
<1>2. KeepsKnown(d, f)
  BY <1>1, KeepsAgain DEF Step
<1>3. d.lastId <= f.lastId
  BY <1>1, Fields DEF Step, Sound
<1>4. Spares(M, d, f)
  BY DEF Step, Spares
<1>5. SameNames(d, f)
  <2>1. d.lastId \in Nat /\ e.lastId \in Nat /\ d.lastId <= e.lastId
    BY <1>1, Fields DEF Step, Sound
  <2>2. \A id \in 1..d.lastId : id \in 1..e.lastId
    BY <2>1
  <2> QED BY <2>2 DEF Step, SameNames
<1> QED BY <1>1, <1>2, <1>3, <1>4, <1>5 DEF Step

LEMMA StepOfFewer ==
  ASSUME NEW M, NEW L, L \subseteq M, NEW d, NEW e, Step(M, d, e)
  PROVE  Step(L, d, e)
BY DEF Step, Spares

LEMMA StayCalm ==
  ASSUME NEW d
  PROVE  Calm(d, d)
BY DEF Calm, Even, SameCounts, Idle

(* Tables that count the same.                                             *)
LEMMA SameStatsCount ==
  ASSUME NEW d, NEW e, e.stats = d.stats
  PROVE  \A id : messagesOf(e, id) = messagesOf(d, id) /\ timeOf(e, id) = timeOf(d, id)
BY DEF messagesOf, timeOf

LEMMA SameTimesCount ==
  ASSUME NEW d, NEW e, e.times = d.times
  PROVE  \A id, c : valueOf(e, id, c) = valueOf(d, id, c)
BY DEF valueOf

LEMMA SameCountsCalm ==
  ASSUME NEW d, NEW e,
         \A id : messagesOf(e, id) = messagesOf(d, id) /\ timeOf(e, id) = timeOf(d, id),
         \A id, c : valueOf(e, id, c) = valueOf(d, id, c)
  PROVE  Calm(d, e)
BY DEF Calm, Even, SameCounts, Idle

-----------------------------------------------------------------------------
(* Statements that leave conference_jids alone.                            *)

StatsGrow(d, e) ==
  /\ DOMAIN e.stats \subseteq DOMAIN e.jids
  /\ \A i \in DOMAIN d.stats :
       /\ i \in DOMAIN e.stats
       /\ e.stats[i].messages >= d.stats[i].messages
       /\ e.stats[i].time >= d.stats[i].time

TimesGrow(d, e) ==
  /\ DOMAIN e.times \subseteq DOMAIN e.jids
  /\ \A i \in DOMAIN e.times : full(e, i) \/ blank(e, i)
  /\ \A i \in DOMAIN d.times : full(d, i) =>
       /\ full(e, i)
       /\ \A c \in Cells : e.times[i][c] >= d.times[i][c]

NicksStay(M, d, e) ==
  /\ \A k \in DOMAIN e.nicks :
       /\ k[2] \in DOMAIN e.jids
       /\ e.jids[k[2]].jid \in LocalJid => e.jids[k[2]].jid[1] = k[1]
  /\ \A k \in DOMAIN d.nicks :
       /\ k \in DOMAIN e.nicks /\ e.nicks[k].logged >= d.nicks[k].logged
       /\ k[1] \in M /\ d.nicks[k].online => e.nicks[k].online

SameJids(d, e) == e.jids = d.jids /\ e.lastId = d.lastId

LEMMA SameStats ==
  ASSUME NEW d, Sound(d), NEW e, SameJids(d, e), e.stats = d.stats
  PROVE  StatsGrow(d, e)
<1>1. \A i \in DOMAIN d.stats : d.stats[i].messages \in Nat /\ d.stats[i].time \in Nat
  BY Rows DEF Sound
<1> QED BY <1>1 DEF StatsGrow, SameJids, Sound, ForeignKeys

LEMMA SameTimes ==
  ASSUME NEW d, Sound(d), NEW e, SameJids(d, e), e.times = d.times
  PROVE  TimesGrow(d, e)
<1>1. \A i \in DOMAIN d.times : \A c \in DOMAIN d.times[i] : d.times[i][c] \in Nat
  BY Rows DEF Sound
<1>2. \A i \in DOMAIN d.times : full(d, i) => full(e, i) /\ \A c \in Cells : e.times[i][c] >= d.times[i][c]
  BY <1>1 DEF full
<1>3. \A i \in DOMAIN e.times : full(e, i) \/ blank(e, i)
  BY DEF Sound, Records, full, blank
<1> QED BY <1>2, <1>3 DEF TimesGrow, SameJids, Sound, ForeignKeys

LEMMA SameNicks ==
  ASSUME NEW d, Sound(d), NEW e, SameJids(d, e), e.nicks = d.nicks, NEW M
  PROVE  NicksStay(M, d, e)
<1>1. \A k \in DOMAIN d.nicks : d.nicks[k].logged \in Nat
  BY Rows DEF Sound
<1> QED BY <1>1 DEF NicksStay, SameJids, Sound, ForeignKeys, Names

LEMMA QuietStep ==
  ASSUME NEW d, Sound(d), NEW e \in Database, SameJids(d, e), NEW M, M \subseteq Nick,
         StatsGrow(d, e), TimesGrow(d, e), NicksStay(M, d, e)
  PROVE  Step(M, d, e)
<1>1. Sound(e)
  <2>1. ForeignKeys(e)
    BY DEF Sound, ForeignKeys, SameJids, StatsGrow, TimesGrow, NicksStay
  <2>2. Names(e)
    BY DEF Sound, Names, SameJids, NicksStay
  <2>3. Records(e)
    BY DEF Records, TimesGrow
  <2> QED BY <2>1, <2>2, <2>3 DEF Sound
<1>2. KeepsKnown(d, e)
  <2> SUFFICES ASSUME NEW id \in DOMAIN d.jids
               PROVE  /\ id \in DOMAIN e.jids /\ e.jids[id] = d.jids[id]
                      /\ KeepsLog(d, e, id)
                      /\ id \in DOMAIN d.stats =>
                           /\ id \in DOMAIN e.stats
                           /\ e.stats[id].messages >= d.stats[id].messages
                           /\ e.stats[id].time >= d.stats[id].time
                      /\ id \in DOMAIN d.times =>
                           \A cell \in DOMAIN d.times[id] :
                             d.times[id][cell] > 0 =>
                               /\ id \in DOMAIN e.times /\ cell \in DOMAIN e.times[id]
                               /\ e.times[id][cell] >= d.times[id][cell]
    BY DEF KeepsKnown
  <2>1. id \in DOMAIN e.jids /\ e.jids[id] = d.jids[id]
    BY DEF SameJids
  <2>2. ASSUME id \in DOMAIN d.times, NEW cell \in DOMAIN d.times[id], d.times[id][cell] > 0
        PROVE  /\ id \in DOMAIN e.times /\ cell \in DOMAIN e.times[id]
               /\ e.times[id][cell] >= d.times[id][cell]
    <3>1. full(d, id)
      <4>1. ~ blank(d, id)
        BY <2>2 DEF blank
      <4> QED BY <2>2, <4>1 DEF Sound, Records
    <3>2. cell \in Cells /\ full(e, id)
      BY <2>2, <3>1 DEF full, TimesGrow
    <3> QED BY <2>2, <3>1, <3>2 DEF full, TimesGrow
  <2>3. KeepsLog(d, e, id)
    BY DEF KeepsLog, NicksStay
  <2> QED BY <2>1, <2>2, <2>3 DEF StatsGrow
<1>3. d.lastId <= e.lastId
  BY Fields DEF SameJids, Sound
<1>4. Spares(M, d, e)
  <2> SUFFICES ASSUME NEW m \in M, NEW s \in Seat, SeatOK(d, m, s) PROVE SeatOK(e, m, s)
    BY DEF Spares
  <2>1. CASE Lost(d, s)
    BY <2>1 DEF SeatOK, Lost, SameJids
  <2>2. CASE Kept(d, m, s)
    <3>1. Recorded(d, m, s)
      BY <2>2 DEF Kept
    <3>2. <<m, s.id>> \in DOMAIN e.nicks /\ e.nicks[<<m, s.id>>].online
      <4>1. <<m, s.id>> \in DOMAIN d.nicks /\ d.nicks[<<m, s.id>>].online /\ <<m, s.id>>[1] = m
        BY <3>1 DEF Recorded
      <4> QED BY <4>1 DEF NicksStay
    <3>3. s.id \in DOMAIN e.stats
      BY <3>1 DEF Recorded, StatsGrow
    <3>4. full(e, s.id)
      BY <3>1 DEF Recorded, TimesGrow, full
    <3>5. e.jids[s.id].jid = s.jid /\ (s.temporary => s.jid \in LocalJid)
      BY <2>2 DEF Kept, SameJids
    <3> QED BY <3>2, <3>3, <3>4, <3>5 DEF SeatOK, Kept, Recorded
  <2> QED BY <2>1, <2>2 DEF SeatOK
<1>5. SameNames(d, e)
  BY DEF SameNames, SameJids, Sound, ForeignKeys
<1> QED BY <1>1, <1>2, <1>3, <1>4, <1>5 DEF Step

(* What a statement leaves of a database.                                  *)
LEMMA OtherStats ==
  ASSUME NEW d \in Database, NEW stats \in Table(Id, StatRow),
         NEW e, e = [d EXCEPT !.stats = stats]
  PROVE  /\ e \in Database /\ SameJids(d, e)
         /\ e.stats = stats /\ e.times = d.times /\ e.nicks = d.nicks
BY DEF Database, SameJids

LEMMA OtherTimes ==
  ASSUME NEW d \in Database, NEW times \in Table(Id, Table(Cells, Count)),
         NEW e, e = [d EXCEPT !.times = times]
  PROVE  /\ e \in Database /\ SameJids(d, e)
         /\ e.times = times /\ e.stats = d.stats /\ e.nicks = d.nicks
BY DEF Database, SameJids

LEMMA OtherNicks ==
  ASSUME NEW d \in Database, NEW nicks \in Table(Nick \X Id, NickRow),
         NEW e, e = [d EXCEPT !.nicks = nicks]
  PROVE  /\ e \in Database /\ SameJids(d, e)
         /\ e.nicks = nicks /\ e.stats = d.stats /\ e.times = d.times
BY DEF Database, SameJids

(* The step a statement makes in a database, with the table it touches.    *)
ByStats(d, e) == Step(Nick, d, e) /\ SameJids(d, e) /\ e.times = d.times /\ e.nicks = d.nicks
ByTimes(d, e) == Step(Nick, d, e) /\ SameJids(d, e) /\ e.stats = d.stats /\ e.nicks = d.nicks
ByNicks(M, d, e) == Step(M, d, e) /\ SameJids(d, e) /\ e.stats = d.stats /\ e.times = d.times

LEMMA StatsStep ==
  ASSUME NEW d, Sound(d), NEW stats \in Table(Id, StatRow),
         NEW e, e = [d EXCEPT !.stats = stats], StatsGrow(d, e)
  PROVE  ByStats(d, e) /\ e.stats = stats
<1>1. /\ e \in Database /\ SameJids(d, e)
      /\ e.stats = stats /\ e.times = d.times /\ e.nicks = d.nicks
  BY OtherStats DEF Sound
<1>2. TimesGrow(d, e) /\ NicksStay(Nick, d, e)
  BY <1>1, SameTimes, SameNicks
<1>3. Step(Nick, d, e)
  BY <1>1, <1>2, QuietStep
<1> QED BY <1>1, <1>3 DEF ByStats

LEMMA TimesStep ==
  ASSUME NEW d, Sound(d), NEW times \in Table(Id, Table(Cells, Count)),
         NEW e, e = [d EXCEPT !.times = times], TimesGrow(d, e)
  PROVE  ByTimes(d, e) /\ e.times = times
<1>1. /\ e \in Database /\ SameJids(d, e)
      /\ e.times = times /\ e.stats = d.stats /\ e.nicks = d.nicks
  BY OtherTimes DEF Sound
<1>2. StatsGrow(d, e) /\ NicksStay(Nick, d, e)
  BY <1>1, SameStats, SameNicks
<1>3. Step(Nick, d, e)
  BY <1>1, <1>2, QuietStep
<1> QED BY <1>1, <1>3 DEF ByTimes

LEMMA NicksStep ==
  ASSUME NEW d, Sound(d), NEW nicks \in Table(Nick \X Id, NickRow), NEW M, M \subseteq Nick,
         NEW e, e = [d EXCEPT !.nicks = nicks], NicksStay(M, d, e)
  PROVE  ByNicks(M, d, e) /\ e.nicks = nicks
<1>1. /\ e \in Database /\ SameJids(d, e)
      /\ e.nicks = nicks /\ e.stats = d.stats /\ e.times = d.times
  BY OtherNicks DEF Sound
<1>2. StatsGrow(d, e) /\ TimesGrow(d, e)
  BY <1>1, SameStats, SameTimes
<1>3. Step(M, d, e)
  BY <1>1, <1>2, QuietStep
<1> QED BY <1>1, <1>3 DEF ByNicks

-----------------------------------------------------------------------------
(* The statements, one by one.                                             *)

LEMMA InsertStat ==
  ASSUME NEW d, Sound(d), NEW id \in DOMAIN d.jids, id \notin DOMAIN d.stats,
         NEW e, e = insertStat(d, id)
  PROVE  ByStats(d, e) /\ DOMAIN e.stats = DOMAIN d.stats \union {id} /\ Calm(d, e)
<1> DEFINE zero == [messages |-> 0, time |-> 0]
<1>0. PICK stats : stats = inserted(d.stats, id, zero)
  OBVIOUS
<1>1. d.stats \in Table(Id, StatRow) /\ id \in Id /\ zero \in StatRow
  BY Fields, Rows DEF Sound, StatRow, Id
<1> HIDE DEF zero
<1>2. stats \in Table(Id, StatRow) /\ Written(stats, d.stats, id, zero)
  BY <1>0, <1>1, Inserted
<1>3. e = [d EXCEPT !.stats = stats]
  BY <1>0 DEF insertStat, zero
<1>4. e.jids = d.jids /\ e.stats = stats
  BY <1>2, <1>3, OtherStats DEF Sound, SameJids
<1>5. \A k \in DOMAIN d.stats : d.stats[k].messages \in Nat /\ d.stats[k].time \in Nat
  BY Rows DEF Sound
<1>6. StatsGrow(d, e)
  BY <1>2, <1>4, <1>5 DEF Written, StatsGrow, Sound, ForeignKeys
<1>7. ByStats(d, e)
  BY <1>2, <1>3, <1>6, StatsStep
<1>8. \A i : messagesOf(e, i) = messagesOf(d, i) /\ timeOf(e, i) = timeOf(d, i)
  BY <1>2, <1>4 DEF Written, messagesOf, timeOf, zero
<1>9. Calm(d, e)
  BY <1>7, <1>8, SameTimesCount, SameCountsCalm DEF ByStats
<1> QED BY <1>2, <1>4, <1>7, <1>9 DEF Written

(* UPDATE conference_jidstat: a value goes up.                             *)
LEMMA UpdateStat ==
  ASSUME NEW d, Sound(d), NEW id \in DOMAIN d.stats, NEW row \in StatRow,
         row.messages >= d.stats[id].messages, row.time >= d.stats[id].time,
         NEW e, e = [d EXCEPT !.stats = [d.stats EXCEPT ![id] = row]]
  PROVE  ByStats(d, e) /\ Written(e.stats, d.stats, id, row)
<1>1. PICK stats : stats = [d.stats EXCEPT ![id] = row]
  OBVIOUS
<1>2. d.stats \in Table(Id, StatRow)
  BY Fields DEF Sound
<1>3. stats \in Table(Id, StatRow) /\ Written(stats, d.stats, id, row)
  BY <1>1, <1>2, Changed
<1>4. e = [d EXCEPT !.stats = stats]
  BY <1>1
<1>5. e.jids = d.jids /\ e.stats = stats
  <2>1. d \in Database
    BY DEF Sound
  <2> QED BY <1>1, <2>1 DEF Database
<1>6. \A k \in DOMAIN d.stats : d.stats[k].messages \in Nat /\ d.stats[k].time \in Nat
  BY Rows DEF Sound
<1>7. StatsGrow(d, e)
  BY <1>3, <1>5, <1>6 DEF Written, StatsGrow, Sound, ForeignKeys
<1> QED BY <1>3, <1>4, <1>5, <1>7, StatsStep

LEMMA NoUpdate ==
  ASSUME NEW d, Sound(d)
  PROVE  /\ [d EXCEPT !.stats = d.stats] = d
         /\ [d EXCEPT !.times = d.times] = d
         /\ [d EXCEPT !.nicks = d.nicks] = d
         /\ [d EXCEPT !.jids = d.jids] = d
BY Fields DEF Sound

LEMMA SameByAll ==
  ASSUME NEW d, Sound(d)
  PROVE  ByStats(d, d) /\ ByTimes(d, d) /\ \A M : ByNicks(M, d, d)
BY StayStep DEF ByStats, ByTimes, ByNicks, SameJids

LEMMA AddTime ==
  ASSUME NEW d, Sound(d), NEW id, NEW delta \in Nat, NEW e, e = addTime(d, id, delta)
  PROVE  /\ ByStats(d, e) /\ Even(d, e)
         /\ \A i : timeOf(e, i) = timeOf(d, i) \/ (i = id /\ timeOf(e, i) = timeOf(d, i) + delta)
<1>1. CASE id \in DOMAIN d.stats
  <2> DEFINE row == [d.stats[id] EXCEPT !.time = d.stats[id].time + delta]
  <2>1. e = [d EXCEPT !.stats = [d.stats EXCEPT ![id] = row]]
    BY <1>1 DEF addTime, updated
  <2>2. d.stats[id] \in StatRow
    BY <1>1, Fields, TableIs DEF Sound
  <2>3. /\ row \in StatRow
        /\ row.messages >= d.stats[id].messages /\ row.time >= d.stats[id].time
        /\ row.messages = d.stats[id].messages /\ row.time = d.stats[id].time + delta
    BY <2>2 DEF StatRow
  <2> HIDE DEF row
  <2>4. ByStats(d, e) /\ Written(e.stats, d.stats, id, row)
    BY <1>1, <2>1, <2>3, UpdateStat
  <2>5. \A i : messagesOf(e, i) = messagesOf(d, i)
    BY <1>1, <2>3, <2>4 DEF Written, messagesOf
  <2>6. \A i : timeOf(e, i) = timeOf(d, i) \/ (i = id /\ timeOf(e, i) = timeOf(d, i) + delta)
    BY <1>1, <2>3, <2>4 DEF Written, timeOf
  <2>7. Even(d, e)
    BY <2>4, <2>5, SameTimesCount DEF ByStats, Even, SameCounts
  <2> QED BY <2>4, <2>6, <2>7
<1>2. CASE id \notin DOMAIN d.stats
  <2>1. e = d
    BY <1>2, NoUpdate DEF addTime, updated
  <2> QED BY <2>1, SameByAll, StayCalm DEF Calm
<1> QED BY <1>1, <1>2

LEMMA CountMessage ==
  ASSUME NEW d, Sound(d), NEW id, NEW e, e = countMessage(d, id)
  PROVE  /\ ByStats(d, e)
         /\ id \notin DOMAIN d.stats => e = d
         /\ id \in DOMAIN d.stats =>
              /\ \A i : timeOf(e, i) = timeOf(d, i)
              /\ \A i : i # id => messagesOf(e, i) = messagesOf(d, i)
              /\ messagesOf(e, id) = messagesOf(d, id) + 1
<1>1. CASE id \in DOMAIN d.stats
  <2> DEFINE row == [d.stats[id] EXCEPT !.messages = d.stats[id].messages + 1]
  <2>1. e = [d EXCEPT !.stats = [d.stats EXCEPT ![id] = row]]
    BY <1>1 DEF countMessage, updated
  <2>2. d.stats[id] \in StatRow
    BY <1>1, Fields, TableIs DEF Sound
  <2>3. /\ row \in StatRow
        /\ row.messages >= d.stats[id].messages /\ row.time >= d.stats[id].time
        /\ row.messages = d.stats[id].messages + 1 /\ row.time = d.stats[id].time
    BY <2>2 DEF StatRow
  <2> HIDE DEF row
  <2>4. ByStats(d, e) /\ Written(e.stats, d.stats, id, row)
    BY <1>1, <2>1, <2>3, UpdateStat
  <2>5. \A i : timeOf(e, i) = timeOf(d, i)
    BY <1>1, <2>3, <2>4 DEF Written, timeOf
  <2>6. /\ \A i : i # id => messagesOf(e, i) = messagesOf(d, i)
        /\ messagesOf(e, id) = messagesOf(d, id) + 1
    BY <1>1, <2>3, <2>4 DEF Written, messagesOf
  <2> QED BY <1>1, <2>4, <2>5, <2>6
<1>2. CASE id \notin DOMAIN d.stats
  <2>1. e = d
    BY <1>2, NoUpdate DEF countMessage, updated
  <2> QED BY <1>2, <2>1, SameByAll
<1> QED BY <1>1, <1>2

(* Another row for the cells of id; those of the others are as they were.  *)
LEMMA OtherCells ==
  ASSUME NEW d, Sound(d), NEW id \in DOMAIN d.jids, NEW cells \in Table(Cells, Count),
         NEW times \in Table(Id, Table(Cells, Count)),
         Written(times, d.times, id, cells),
         DOMAIN cells = Cells \/ \A c \in DOMAIN cells : cells[c] = 0,
         full(d, id) => /\ DOMAIN cells = Cells
                        /\ \A c \in Cells : cells[c] >= d.times[id][c],
         NEW e, e = [d EXCEPT !.times = times]
  PROVE  ByTimes(d, e) /\ e.times = times
<1>1. e.jids = d.jids /\ e.times = times
  BY OtherTimes DEF Sound, SameJids
<1>2. \A k \in DOMAIN d.times : \A c \in DOMAIN d.times[k] : d.times[k][c] \in Nat
  BY Rows DEF Sound
<1>3. \A i \in DOMAIN e.times : full(e, i) \/ blank(e, i)
  <2> SUFFICES ASSUME NEW i \in DOMAIN e.times PROVE full(e, i) \/ blank(e, i)
    OBVIOUS
  <2>1. CASE i = id
    BY <1>1, <2>1 DEF Written, full, blank
  <2>2. CASE i # id
    <3>1. i \in DOMAIN d.times /\ e.times[i] = d.times[i]
      BY <1>1, <2>2 DEF Written
    <3> QED BY <3>1 DEF Sound, Records, full, blank
  <2> QED BY <2>1, <2>2
<1>4. ASSUME NEW i \in DOMAIN d.times, full(d, i)
      PROVE  full(e, i) /\ \A c \in Cells : e.times[i][c] >= d.times[i][c]
  <2>1. CASE i = id
    BY <1>1, <1>4, <2>1 DEF Written, full
  <2>2. CASE i # id
    BY <1>1, <1>2, <1>4, <2>2 DEF Written, full
  <2> QED BY <2>1, <2>2
<1>5. TimesGrow(d, e)
  BY <1>1, <1>3, <1>4 DEF Written, TimesGrow, Sound, ForeignKeys
<1> QED BY <1>5, TimesStep

LEMMA ClearTimes ==
  ASSUME NEW d, Sound(d), NEW id \in DOMAIN d.jids, ~ full(d, id),
         NEW e, e = clearTimes(d, id)
  PROVE  /\ ByTimes(d, e)
         /\ id \in DOMAIN e.times /\ DOMAIN e.times[id] = {} /\ blank(e, id)
         /\ \A k \in DOMAIN d.times : k # id => k \in DOMAIN e.times /\ e.times[k] = d.times[k]
         /\ Calm(d, e)
<1>1. PICK cells : cells = <<>>
  OBVIOUS
<1>2. cells \in Table(Cells, Count) /\ DOMAIN cells = {}
  BY <1>1, EmptyTable
<1>3. PICK times : times = inserted(d.times, id, cells)
  OBVIOUS
<1>4. d.times \in Table(Id, Table(Cells, Count)) /\ id \in Id
  BY Fields, Rows DEF Sound, Id
<1>5. /\ times \in Table(Id, Table(Cells, Count))
      /\ Written(times, d.times, id, cells)
  BY <1>2, <1>3, <1>4, Inserted
<1>6. e = [d EXCEPT !.times = times]
  BY <1>1, <1>3 DEF clearTimes
<1>7. ByTimes(d, e) /\ e.times = times
  <2>1. \A c \in DOMAIN cells : cells[c] = 0
    BY <1>2
  <2> QED BY <1>2, <1>5, <1>6, <2>1, OtherCells
<1>8. \A i, c : valueOf(e, i, c) = valueOf(d, i, c)
  <2>1. id \in DOMAIN d.times => blank(d, id)
    BY DEF Sound, Records
  <2> QED BY <1>2, <1>5, <1>7, <2>1 DEF Written, valueOf, blank
<1>9. Calm(d, e)
  BY <1>7, <1>8, SameStatsCount, SameCountsCalm DEF ByTimes
<1> QED BY <1>2, <1>5, <1>7, <1>9 DEF Written, blank

LEMMA InsertTime ==
  ASSUME NEW d, Sound(d), NEW id \in DOMAIN d.times, blank(d, id), NEW cell \in Cells,
         NEW e, e = insertTime(d, id, cell)
  PROVE  /\ ByTimes(d, e)
         /\ id \in DOMAIN e.times /\ DOMAIN e.times[id] = DOMAIN d.times[id] \union {cell}
         /\ blank(e, id)
         /\ \A k \in DOMAIN d.times : k # id => k \in DOMAIN e.times /\ e.times[k] = d.times[k]
         /\ Calm(d, e)
<1>1. PICK cells : cells = inserted(d.times[id], cell, 0)
  OBVIOUS
<1>2. d.times[id] \in Table(Cells, Count) /\ DOMAIN d.times[id] \subseteq Cells /\ id \in Id
  BY Rows DEF Sound, Id
<1>2a. 0 \in Count
  BY DEF Count
<1>3. cells \in Table(Cells, Count) /\ Written(cells, d.times[id], cell, 0)
  BY <1>1, <1>2, <1>2a, Inserted
<1>4. PICK times : times = inserted(d.times, id, cells)
  OBVIOUS
<1>5. d.times \in Table(Id, Table(Cells, Count))
  BY Fields DEF Sound
<1>6. /\ times \in Table(Id, Table(Cells, Count))
      /\ Written(times, d.times, id, cells)
  BY <1>2, <1>3, <1>4, <1>5, Inserted
<1>7. e = [d EXCEPT !.times = times]
  BY <1>1, <1>4 DEF insertTime
<1>8. \A c \in DOMAIN cells : cells[c] = 0
  BY <1>3 DEF Written, blank
<1>9. full(d, id) => /\ DOMAIN cells = Cells
                     /\ \A c \in Cells : cells[c] >= d.times[id][c]
  BY <1>2, <1>3, <1>8 DEF Written, full, blank
<1>10. id \in DOMAIN d.jids
  BY DEF Sound, ForeignKeys
<1>11. ByTimes(d, e) /\ e.times = times
  BY <1>3, <1>6, <1>7, <1>8, <1>9, <1>10, OtherCells
<1>12. \A i, c : valueOf(e, i, c) = valueOf(d, i, c)
  BY <1>3, <1>6, <1>8, <1>11 DEF Written, valueOf, blank
<1>13. Calm(d, e)
  BY <1>11, <1>12, SameStatsCount, SameCountsCalm DEF ByTimes
<1> QED BY <1>3, <1>6, <1>8, <1>11, <1>13 DEF Written, blank

LEMMA CountTime ==
  ASSUME NEW d, Sound(d), NEW id, id \in DOMAIN d.times => full(d, id), NEW cell,
         NEW e, e = countTime(d, id, cell)
  PROVE  /\ ByTimes(d, e)
         /\ id \in DOMAIN e.times => full(e, id)
         /\ id \notin DOMAIN d.times => e = d
         /\ id \in DOMAIN d.times /\ cell \in Cells =>
              /\ full(e, id)
              /\ valueOf(e, id, cell) = valueOf(d, id, cell) + 1
              /\ \A i, c : i # id \/ c # cell => valueOf(e, i, c) = valueOf(d, i, c)
<1>1. CASE id \notin DOMAIN d.times
  <2>1. e = d
    BY <1>1, NoUpdate DEF countTime, updated
  <2> QED BY <1>1, <2>1, SameByAll
<1>2. CASE id \in DOMAIN d.times /\ cell \notin DOMAIN d.times[id]
  <2>1. d.times \in Table(Id, Table(Cells, Count))
    BY Fields DEF Sound
  <2>2. [d.times EXCEPT ![id] = d.times[id]] = d.times
    BY <1>2, <2>1, TableIs
  <2>3. e = [d EXCEPT !.times = [d.times EXCEPT ![id] = d.times[id]]]
    BY <1>2 DEF countTime, updated
  <2>4. e = d
    BY <2>2, <2>3, NoUpdate
  <2>5. cell \notin Cells
    BY <1>2 DEF full
  <2> QED BY <1>2, <2>4, <2>5, SameByAll
<1>3. CASE id \in DOMAIN d.times /\ cell \in DOMAIN d.times[id]
  <2>1. PICK cells : cells = [d.times[id] EXCEPT ![cell] = d.times[id][cell] + 1]
    OBVIOUS
  <2>2. /\ d.times[id] \in Table(Cells, Count) /\ id \in Nat
        /\ \A c \in DOMAIN d.times[id] : d.times[id][c] \in Nat
    BY <1>3, Rows DEF Sound
  <2>3. d.times[id][cell] + 1 \in Count
    BY <1>3, <2>2 DEF Count
  <2>4. /\ cells \in Table(Cells, Count)
        /\ Written(cells, d.times[id], cell, d.times[id][cell] + 1)
    BY <1>3, <2>1, <2>2, <2>3, Changed
  <2>5. PICK times : times = [d.times EXCEPT ![id] = cells]
    OBVIOUS
  <2>6. d.times \in Table(Id, Table(Cells, Count))
    BY Fields DEF Sound
  <2>7. /\ times \in Table(Id, Table(Cells, Count))
        /\ Written(times, d.times, id, cells)
    BY <1>3, <2>4, <2>5, <2>6, Changed
  <2>8. e = [d EXCEPT !.times = times]
    BY <1>3, <2>1, <2>5 DEF countTime, updated
  <2>9. DOMAIN cells = Cells /\ \A c \in Cells : cells[c] >= d.times[id][c]
    BY <1>3, <2>2, <2>4 DEF Written, full
  <2>10. id \in DOMAIN d.jids
    BY <1>3 DEF Sound, ForeignKeys
  <2>12. ByTimes(d, e) /\ e.times = times
    BY <2>4, <2>7, <2>8, <2>9, <2>10, OtherCells
  <2>13. full(e, id)
    BY <2>7, <2>9, <2>12 DEF Written, full
  <2>14. /\ valueOf(e, id, cell) = valueOf(d, id, cell) + 1
         /\ \A i, c : i # id \/ c # cell => valueOf(e, i, c) = valueOf(d, i, c)
    BY <1>3, <2>4, <2>7, <2>12 DEF Written, valueOf
  <2> QED BY <1>3, <2>12, <2>13, <2>14
<1> QED BY <1>1, <1>2, <1>3

LEMMA UpdateNick ==
  ASSUME NEW d, Sound(d), NEW key \in DOMAIN d.nicks, NEW row \in NickRow,
         NEW M, M \subseteq Nick, key[1] \in M /\ d.nicks[key].online => row.online,
         row.logged >= d.nicks[key].logged,
         NEW e, e = [d EXCEPT !.nicks = [d.nicks EXCEPT ![key] = row]]
  PROVE  ByNicks(M, d, e)
<1>1. PICK nicks : nicks = [d.nicks EXCEPT ![key] = row]
  OBVIOUS
<1>2. d.nicks \in Table(Nick \X Id, NickRow) /\ d \in Database
  BY Fields DEF Sound
<1>3. nicks \in Table(Nick \X Id, NickRow) /\ Written(nicks, d.nicks, key, row)
  BY <1>1, <1>2, Changed
<1>4. e = [d EXCEPT !.nicks = nicks]
  BY <1>1
<1>5. e.jids = d.jids /\ e.nicks = nicks
  BY <1>1, <1>2 DEF Database
<1>6. \A k \in DOMAIN e.nicks :
        /\ k[2] \in DOMAIN e.jids
        /\ e.jids[k[2]].jid \in LocalJid => e.jids[k[2]].jid[1] = k[1]
  BY <1>3, <1>5 DEF Written, Sound, ForeignKeys, Names
<1>7. \A k \in DOMAIN d.nicks :
        /\ k \in DOMAIN e.nicks /\ e.nicks[k].logged >= d.nicks[k].logged
        /\ k[1] \in M /\ d.nicks[k].online => e.nicks[k].online
  <2>1. \A k \in DOMAIN d.nicks : d.nicks[k].logged \in Nat
    BY <1>2, Rows
  <2> QED BY <1>3, <1>5, <2>1 DEF Written
<1>8. NicksStay(M, d, e)
  BY <1>6, <1>7 DEF NicksStay
<1> QED BY <1>3, <1>4, <1>8, NicksStep

(* The rows of the nicks hold none of these counts.                        *)
LEMMA NicksCalm ==
  ASSUME NEW d, NEW e, NEW M, ByNicks(M, d, e)
  PROVE  Calm(d, e)
BY SameStatsCount, SameTimesCount, SameCountsCalm DEF ByNicks

LEMMA SetOnline ==
  ASSUME NEW d, Sound(d), NEW n \in Nick, NEW id \in DOMAIN d.jids,
         d.jids[id].jid \in LocalJid => d.jids[id].jid[1] = n,
         NEW e, e = setOnline(d, n, id)
  PROVE  /\ ByNicks(Nick, d, e) /\ <<n, id>> \in DOMAIN e.nicks /\ e.nicks[<<n, id>>].online
         /\ Calm(d, e)
<1>1. PICK key : key = <<n, id>>
  OBVIOUS
<1>2. d.nicks \in Table(Nick \X Id, NickRow) /\ d \in Database /\ id \in Id
  BY Fields, Rows DEF Sound, Id
<1>3. PICK count \in Nat : /\ count = IF key \in DOMAIN d.nicks THEN d.nicks[key].logged ELSE 0
                           /\ key \in DOMAIN d.nicks => count >= d.nicks[key].logged
  BY <1>2, Rows
<1>4. PICK row \in NickRow : row = [online |-> TRUE, logged |-> count]
  BY DEF NickRow
<1>5. row.online /\ row.logged = count
  BY <1>4
<1>6. PICK nicks : nicks = inserted(d.nicks, key, row)
  OBVIOUS
<1>7. key \in Nick \X Id
  BY <1>1, <1>2
<1>8. nicks \in Table(Nick \X Id, NickRow) /\ Written(nicks, d.nicks, key, row)
  BY <1>2, <1>6, <1>7, Inserted
<1>9. e = [d EXCEPT !.nicks = nicks]
  <2>1. e = [d EXCEPT !.nicks = inserted(d.nicks, key, [online |-> TRUE, logged |-> count])]
    BY <1>1, <1>3 DEF setOnline
  <2> QED BY <1>4, <1>6, <2>1
<1>10. e.jids = d.jids /\ e.nicks = nicks
  BY <1>2, <1>9 DEF Database
<1>11. \A k \in DOMAIN e.nicks :
        /\ k[2] \in DOMAIN e.jids
        /\ e.jids[k[2]].jid \in LocalJid => e.jids[k[2]].jid[1] = k[1]
  <2> SUFFICES ASSUME NEW k \in DOMAIN e.nicks
               PROVE  /\ k[2] \in DOMAIN e.jids
                      /\ e.jids[k[2]].jid \in LocalJid => e.jids[k[2]].jid[1] = k[1]
    OBVIOUS
  <2>1. CASE k = key
    BY <1>1, <1>10, <2>1
  <2>2. CASE k # key
    BY <1>8, <1>10, <2>2 DEF Written, Sound, ForeignKeys, Names
  <2> QED BY <2>1, <2>2
<1>12. \A k \in DOMAIN d.nicks :
         /\ k \in DOMAIN e.nicks /\ e.nicks[k].logged >= d.nicks[k].logged
         /\ k[1] \in Nick /\ d.nicks[k].online => e.nicks[k].online
  <2> SUFFICES ASSUME NEW k \in DOMAIN d.nicks
               PROVE  /\ k \in DOMAIN e.nicks /\ e.nicks[k].logged >= d.nicks[k].logged
                      /\ k[1] \in Nick /\ d.nicks[k].online => e.nicks[k].online
    OBVIOUS
  <2>1. d.nicks[k].logged \in Nat
    BY <1>2, Rows
  <2>2. CASE k = key
    <3>1. key \in DOMAIN nicks /\ nicks[key] = row
      BY <1>8 DEF Written
    <3>2. row.logged >= d.nicks[key].logged
      BY <1>3, <1>5, <2>2
    <3> QED BY <1>5, <1>10, <2>2, <3>1, <3>2
  <2>3. CASE k # key
    BY <1>8, <1>10, <2>1, <2>3 DEF Written
  <2> QED BY <2>2, <2>3
<1>13. NicksStay(Nick, d, e)
  BY <1>11, <1>12 DEF NicksStay
<1>14. ByNicks(Nick, d, e)
  BY <1>8, <1>9, <1>13, NicksStep
<1>15. Calm(d, e)
  BY <1>14, NicksCalm
<1> QED BY <1>1, <1>5, <1>8, <1>10, <1>14, <1>15 DEF Written

LEMMA SetOffline ==
  ASSUME NEW d, Sound(d), NEW n \in Nick, NEW id, NEW e, e = setOffline(d, n, id)
  PROVE  ByNicks(Nick \ {n}, d, e) /\ Calm(d, e)
<1>1. CASE <<n, id>> \in DOMAIN d.nicks
  <2> DEFINE row == [d.nicks[<<n, id>>] EXCEPT !.online = FALSE]
  <2>1. e = [d EXCEPT !.nicks = [d.nicks EXCEPT ![<<n, id>>] = row]]
    BY <1>1 DEF setOffline, updated
  <2>2. d.nicks[<<n, id>>] \in NickRow
    BY <1>1, Fields, TableIs DEF Sound
  <2>3. /\ row \in NickRow /\ row.logged = d.nicks[<<n, id>>].logged
        /\ d.nicks[<<n, id>>].logged \in Nat
    BY <2>2 DEF NickRow
  <2> HIDE DEF row
  <2>4. <<n, id>>[1] \notin Nick \ {n}
    OBVIOUS
  <2>5. ByNicks(Nick \ {n}, d, e)
    BY <1>1, <2>1, <2>3, <2>4, UpdateNick
  <2> QED BY <2>5, NicksCalm
<1>2. CASE <<n, id>> \notin DOMAIN d.nicks
  <2>1. e = d
    BY <1>2, NoUpdate DEF setOffline, updated
  <2> QED BY <2>1, SameByAll, StayCalm
<1> QED BY <1>1, <1>2

LEMMA Log ==
  ASSUME NEW d, Sound(d), NEW n \in Nick, NEW id, NEW e, e = log(d, n, id)
  PROVE  ByNicks(Nick, d, e) /\ Calm(d, e)
<1>1. CASE <<n, id>> \in DOMAIN d.nicks
  <2> DEFINE row == [d.nicks[<<n, id>>] EXCEPT !.logged = d.nicks[<<n, id>>].logged + 1]
  <2>1. e = [d EXCEPT !.nicks = [d.nicks EXCEPT ![<<n, id>>] = row]]
    BY <1>1 DEF log, updated
  <2>2. d.nicks[<<n, id>>] \in NickRow
    BY <1>1, Fields, TableIs DEF Sound
  <2>3. /\ row \in NickRow /\ row.online = d.nicks[<<n, id>>].online
        /\ row.logged >= d.nicks[<<n, id>>].logged
    BY <2>2 DEF NickRow
  <2> HIDE DEF row
  <2>4. ByNicks(Nick, d, e)
    BY <1>1, <2>1, <2>3, UpdateNick
  <2> QED BY <2>4, NicksCalm
<1>2. CASE <<n, id>> \notin DOMAIN d.nicks
  <2>1. e = d
    BY <1>2, NoUpdate DEF log, updated
  <2> QED BY <2>1, SameByAll, StayCalm
<1> QED BY <1>1, <1>2

LEMMA AllOffline ==
  ASSUME NEW d, Sound(d), NEW e, e = allOffline(d)
  PROVE  ByNicks({}, d, e) /\ Calm(d, e)
<1>1. PICK nicks : nicks = [k \in DOMAIN d.nicks |-> [d.nicks[k] EXCEPT !.online = FALSE]]
  OBVIOUS
<1>2. d.nicks \in Table(Nick \X Id, NickRow) /\ d \in Database
  BY Fields DEF Sound
<1>3. /\ DOMAIN nicks = DOMAIN d.nicks /\ DOMAIN nicks \subseteq Nick \X Id
      /\ nicks = [k \in DOMAIN nicks |-> nicks[k]]
  BY <1>1, <1>2, TableIs
<1>4. ASSUME NEW k \in DOMAIN nicks
      PROVE  nicks[k] \in NickRow /\ nicks[k].logged = d.nicks[k].logged
  <2>1. d.nicks[k] \in NickRow
    BY <1>2, <1>3, TableIs
  <2>2. nicks[k] = [d.nicks[k] EXCEPT !.online = FALSE]
    BY <1>1, <1>3
  <2> QED BY <2>1, <2>2 DEF NickRow
<1>5. nicks \in Table(Nick \X Id, NickRow)
  BY <1>3, <1>4, TableIs
<1>6. e = [d EXCEPT !.nicks = nicks]
  BY <1>1 DEF allOffline
<1>7. e.jids = d.jids /\ e.nicks = nicks
  BY <1>2, <1>6 DEF Database
<1>8. NicksStay({}, d, e)
  <2>1. \A k \in DOMAIN d.nicks : d.nicks[k].logged \in Nat
    BY <1>2, Rows
  <2> QED BY <1>3, <1>4, <1>7, <2>1 DEF NicksStay, Sound, ForeignKeys, Names
<1>9. ByNicks({}, d, e)
  BY <1>5, <1>6, <1>8, NicksStep
<1> QED BY <1>9, NicksCalm

-----------------------------------------------------------------------------
(* The statements on conference_jids.                                      *)

LEMMA InsertJid ==
  ASSUME NEW d, Sound(d), NEW name \in Name, NEW temporary \in BOOLEAN,
         temporary <=> name \in LocalJid,
         \A i \in DOMAIN d.jids : d.jids[i].jid # name,
         NEW e, e = insertJid(d, name, temporary)
  PROVE  /\ Step(Nick, d, e)
         /\ e.lastId = d.lastId + 1
         /\ d.lastId + 1 \in DOMAIN e.jids /\ e.jids[d.lastId + 1].jid = name
         /\ Calm(d, e)
<1>1. d \in Database /\ d.jids \in Table(Id, JidRow) /\ d.lastId \in Nat
  BY Fields DEF Sound
<1>2. PICK id : id = d.lastId + 1
  OBVIOUS
<1>3. id \in Nat /\ id \in Id /\ id > d.lastId /\ id \in 1..id
  BY <1>1, <1>2 DEF Id
<1>4. PICK row \in JidRow : row = [jid |-> name, temporary |-> temporary]
  BY DEF JidRow
<1>5. row.jid = name /\ row.temporary = temporary
  BY <1>4
<1>6. PICK jids : jids = inserted(d.jids, id, row)
  OBVIOUS
<1>7. jids \in Table(Id, JidRow) /\ Written(jids, d.jids, id, row)
  BY <1>1, <1>3, <1>6, Inserted
<1>8. e = [d EXCEPT !.lastId = id, !.jids = jids]
  BY <1>2, <1>4, <1>6 DEF insertJid
<1>9. /\ e \in Database /\ e.jids = jids /\ e.lastId = id
      /\ e.stats = d.stats /\ e.times = d.times /\ e.nicks = d.nicks
  BY <1>1, <1>3, <1>7, <1>8 DEF Database
<1>10. id \notin DOMAIN d.jids
  BY <1>1, <1>3 DEF Sound, ForeignKeys
<1>11. /\ DOMAIN e.jids = DOMAIN d.jids \union {id}
       /\ e.jids[id] = row
       /\ \A i \in DOMAIN d.jids : e.jids[i] = d.jids[i]
  BY <1>7, <1>9, <1>10 DEF Written
<1>12. Sound(e)
  <2>1. ForeignKeys(e)
    <3>1. DOMAIN e.jids \subseteq 1..id
      BY <1>1, <1>3, <1>11 DEF Sound, ForeignKeys
    <3> QED BY <1>9, <1>11, <3>1 DEF Sound, ForeignKeys
  <2>2. Names(e)
    <3>1. \A i, k \in DOMAIN e.jids : e.jids[i].jid = e.jids[k].jid => i = k
      BY <1>5, <1>11 DEF Sound, Names
    <3>2. \A i \in DOMAIN e.jids : e.jids[i].temporary <=> e.jids[i].jid \in LocalJid
      BY <1>5, <1>11 DEF Sound, Names
    <3>3. \A k \in DOMAIN e.nicks :
            e.jids[k[2]].jid \in LocalJid => e.jids[k[2]].jid[1] = k[1]
      BY <1>9, <1>11 DEF Sound, ForeignKeys, Names
    <3> QED BY <3>1, <3>2, <3>3 DEF Names
  <2>3. Records(e)
    BY <1>9 DEF Sound, Records, full, blank
  <2> QED BY <1>9, <2>1, <2>2, <2>3 DEF Sound
<1>13. KeepsKnown(d, e)
  <2>1. \A i \in DOMAIN d.stats : d.stats[i].messages \in Nat /\ d.stats[i].time \in Nat
    BY <1>1, Rows
  <2>2. \A i \in DOMAIN d.times : \A c \in DOMAIN d.times[i] : d.times[i][c] \in Nat
    BY <1>1, Rows
  <2>3. \A i : KeepsLog(d, e, i)
    BY <1>1, <1>9, Rows DEF KeepsLog
  <2> QED BY <1>9, <1>11, <2>1, <2>2, <2>3 DEF KeepsKnown
<1>14. Spares(Nick, d, e)
  <2> SUFFICES ASSUME NEW m \in Nick, NEW s \in Seat, SeatOK(d, m, s) PROVE SeatOK(e, m, s)
    BY DEF Spares
  <2>1. CASE Kept(d, m, s)
    <3>1. s.id \in DOMAIN d.jids
      BY <2>1 DEF Kept, Recorded, full, Sound, ForeignKeys
    <3> QED BY <1>9, <1>11, <2>1, <3>1 DEF SeatOK, Kept, Recorded, full
  <2>2. CASE Lost(d, s)
    <3>1. s.id \in Nat
      BY StatsAssumption DEF Seat
    <3>2. s.id <= e.lastId /\ s.id # id
      BY <1>1, <1>3, <1>9, <2>2, <3>1 DEF Lost
    <3> QED BY <1>11, <2>2, <3>2 DEF SeatOK, Lost
  <2> QED BY <2>1, <2>2 DEF SeatOK
<1>15. SameNames(d, e)
  <2>1. id \notin 1..d.lastId
    BY <1>1, <1>3
  <2> QED BY <1>11, <2>1 DEF SameNames
<1>16. Calm(d, e)
  BY <1>9, SameStatsCount, SameTimesCount, SameCountsCalm
<1> QED BY <1>1, <1>2, <1>3, <1>5, <1>9, <1>11, <1>12, <1>13, <1>14, <1>15, <1>16 DEF Step

(* Rows that only the nicks outside M can be stored under.                 *)
MayGo(d, doomed, M) ==
  \A i \in DOMAIN d.jids : i \in doomed =>
    d.jids[i].temporary /\ d.jids[i].jid[1] \notin M

LEMMA DeleteJids ==
  ASSUME NEW d, Sound(d), NEW doomed, NEW M, M \subseteq Nick, MayGo(d, doomed, M),
         NEW e, e = deleteJids(d, doomed)
  PROVE  /\ Step(M, d, e)
         /\ e.lastId = d.lastId
         /\ DOMAIN e.jids = DOMAIN d.jids \ doomed
         /\ Calm(d, e)
<1>1. /\ d \in Database
      /\ d.jids \in Table(Id, JidRow)
      /\ d.nicks \in Table(Nick \X Id, NickRow)
      /\ d.stats \in Table(Id, StatRow)
      /\ d.times \in Table(Id, Table(Cells, Count))
      /\ d.lastId \in Nat
  BY Fields DEF Sound
<1>2. PICK jids : jids = Restrict(d.jids, DOMAIN d.jids \ doomed)
  OBVIOUS
<1>3. PICK stats : stats = Restrict(d.stats, DOMAIN d.stats \ doomed)
  OBVIOUS
<1>4. PICK times : times = Restrict(d.times, DOMAIN d.times \ doomed)
  OBVIOUS
<1>5. PICK K : K = {k \in DOMAIN d.nicks : k[2] \notin doomed}
  OBVIOUS
<1>6. PICK nicks : nicks = Restrict(d.nicks, K)
  OBVIOUS
<1>7. /\ jids \in Table(Id, JidRow) /\ DOMAIN jids = DOMAIN d.jids \ doomed
      /\ \A i \in DOMAIN d.jids \ doomed : jids[i] = d.jids[i]
  BY <1>1, <1>2, Restricted
<1>8. /\ stats \in Table(Id, StatRow) /\ DOMAIN stats = DOMAIN d.stats \ doomed
      /\ \A i \in DOMAIN d.stats \ doomed : stats[i] = d.stats[i]
  BY <1>1, <1>3, Restricted
<1>9. /\ times \in Table(Id, Table(Cells, Count)) /\ DOMAIN times = DOMAIN d.times \ doomed
      /\ \A i \in DOMAIN d.times \ doomed : times[i] = d.times[i]
  BY <1>1, <1>4, Restricted
<1>10. /\ nicks \in Table(Nick \X Id, NickRow) /\ DOMAIN nicks = K
       /\ \A k \in K : nicks[k] = d.nicks[k]
  BY <1>1, <1>5, <1>6, Restricted
<1>11. /\ e \in Database /\ e.lastId = d.lastId
       /\ e.jids = jids /\ e.stats = stats /\ e.times = times /\ e.nicks = nicks
  <2>1. e = [d EXCEPT !.jids = jids, !.stats = stats, !.times = times, !.nicks = nicks]
    BY <1>2, <1>3, <1>4, <1>5, <1>6 DEF deleteJids
  <2> QED BY <1>1, <1>7, <1>8, <1>9, <1>10, <2>1 DEF Database
<1>12. Sound(e)
  <2>1. ForeignKeys(e)
    BY <1>5, <1>7, <1>8, <1>9, <1>10, <1>11 DEF Sound, ForeignKeys
  <2>2. Names(e)
    <3>1. \A i, k \in DOMAIN e.jids : e.jids[i].jid = e.jids[k].jid => i = k
      BY <1>7, <1>11 DEF Sound, Names
    <3>2. \A i \in DOMAIN e.jids : e.jids[i].temporary <=> e.jids[i].jid \in LocalJid
      BY <1>7, <1>11 DEF Sound, Names
    <3>3. \A k \in DOMAIN e.nicks : k \in DOMAIN d.nicks /\ e.jids[k[2]] = d.jids[k[2]]
      BY <1>5, <1>7, <1>10, <1>11 DEF Sound, ForeignKeys
    <3> QED BY <3>1, <3>2, <3>3 DEF Sound, Names
  <2>3. Records(e)
    BY <1>9, <1>11 DEF Sound, Records, full, blank
  <2> QED BY <1>11, <2>1, <2>2, <2>3 DEF Sound
<1>13. KeepsKnown(d, e)
  <2>1. \A i \in DOMAIN d.stats : d.stats[i].messages \in Nat /\ d.stats[i].time \in Nat
    BY <1>1, Rows
  <2>2. \A i \in DOMAIN d.times : \A c \in DOMAIN d.times[i] : d.times[i][c] \in Nat
    BY <1>1, Rows
  <2>3. \A i \in DOMAIN d.jids : ~d.jids[i].temporary => i \notin doomed
    BY DEF MayGo
  <2>4. \A i \in DOMAIN d.jids : i \notin doomed => KeepsLog(d, e, i)
    BY <1>1, <1>5, <1>10, <1>11, Rows DEF KeepsLog
  <2> QED BY <1>7, <1>8, <1>9, <1>11, <2>1, <2>2, <2>3, <2>4 DEF KeepsKnown
<1>14. Spares(M, d, e)
  <2> SUFFICES ASSUME NEW m \in M, NEW s \in Seat, SeatOK(d, m, s) PROVE SeatOK(e, m, s)
    BY DEF Spares
  <2>1. CASE Kept(d, m, s)
    <3>1. s.id \in DOMAIN d.jids /\ <<m, s.id>> \in DOMAIN d.nicks
      BY <2>1 DEF Kept, Recorded, full, Sound, ForeignKeys
    <3>2. s.id \notin doomed
      <4> SUFFICES ASSUME s.id \in doomed PROVE FALSE
        OBVIOUS
      <4>1. d.jids[s.id].jid \in LocalJid /\ d.jids[s.id].jid[1] # m
        BY <3>1 DEF Sound, Names, MayGo
      <4>2. d.jids[<<m, s.id>>[2]].jid \in LocalJid => d.jids[<<m, s.id>>[2]].jid[1] = <<m, s.id>>[1]
        BY <3>1 DEF Sound, Names
      <4> QED BY <4>1, <4>2
    <3>3. <<m, s.id>> \in K
      BY <1>5, <3>1, <3>2
    <3> QED BY <1>7, <1>8, <1>9, <1>10, <1>11, <2>1, <3>1, <3>2, <3>3 DEF SeatOK, Kept, Recorded, full
  <2>2. CASE Lost(d, s)
    BY <1>7, <1>11, <2>2 DEF SeatOK, Lost
  <2> QED BY <2>1, <2>2 DEF SeatOK
<1>15. d.lastId <= e.lastId
  BY <1>1, <1>11
<1>16. SameNames(d, e)
  BY <1>7, <1>11 DEF SameNames
<1>17. ASSUME NEW id, id \in doomed
       PROVE  NoCounts(e, id) /\ timeOf(e, id) = 0
  <2>1. id \notin DOMAIN e.stats /\ id \notin DOMAIN e.times
    BY <1>8, <1>9, <1>11, <1>17
  <2> QED BY <2>1 DEF NoCounts, timeOf, messagesOf, valueOf
<1>18. ASSUME NEW id, id \notin doomed
       PROVE  SameCounts(d, e, id) /\ timeOf(e, id) = timeOf(d, id)
  <2>1. messagesOf(e, id) = messagesOf(d, id) /\ timeOf(e, id) = timeOf(d, id)
    BY <1>8, <1>11, <1>18 DEF timeOf, messagesOf
  <2>2. \A c : valueOf(e, id, c) = valueOf(d, id, c)
    BY <1>9, <1>11, <1>18 DEF valueOf
  <2> QED BY <2>1, <2>2 DEF SameCounts
<1>19. Calm(d, e)
  BY <1>17, <1>18 DEF Calm, Even, Idle
<1> QED BY <1>7, <1>11, <1>12, <1>13, <1>14, <1>15, <1>16, <1>19 DEF Step

(* Jid::updateJid() after remove(): there is nothing left to rename.       *)
LEMMA UpdateNothing ==
  ASSUME NEW d, Sound(d), NEW id, id \notin DOMAIN d.jids, NEW name
  PROVE  updateJid(d, id, name) = d
BY NoUpdate DEF updateJid, updated

-----------------------------------------------------------------------------
(* Induction, and what is finite.                                          *)

LEMMA LeastNat ==
  ASSUME NEW T, T \subseteq Nat, T # {}
  PROVE  \E x \in T : \A y \in T : x <= y
<1> DEFINE R == OpToRel(<, Nat)
<1>1. IsWellFoundedOn(R, Nat)
  BY NatLessThanWellFounded
<1>2. \E x \in T : \A y \in T : ~ (<<y, x>> \in R)
  <2> HIDE DEF R
  <2> QED BY <1>1, WFMin
<1>3. \A x, y \in Nat : <<y, x>> \notin R => ~(y < x)
  BY Zenon DEF OpToRel
<1> HIDE DEF R
<1>4. PICK x \in T : \A y \in T : ~(y < x)
  BY <1>2, <1>3, Zenon
<1> QED BY <1>4

LEMMA Induction ==
  ASSUME NEW S, 0 \in S, \A n \in S \cap Nat : n + 1 \in S
  PROVE  Nat \subseteq S
<1> SUFFICES ASSUME Nat \ S # {} PROVE FALSE
  OBVIOUS
<1>1. PICK x \in Nat \ S : \A y \in Nat \ S : x <= y
  BY LeastNat
<1>2. x - 1 \in S /\ x - 1 \in Nat
  BY <1>1
<1> QED BY <1>1, <1>2

(* The items of a set, one after the other.                                *)
LEMMA ItemsOf ==
  ASSUME NEW S, IsFiniteSet(S), NEW q, q = SetToSeq(S)
  PROVE  /\ Cardinality(S) \in Nat
         /\ q \in [1..Cardinality(S) -> S]
         /\ DOMAIN q = 1..Cardinality(S)
         /\ \A x \in S : \E k \in 1..Cardinality(S) : q[k] = x
         /\ \A i, k \in 1..Cardinality(S) : q[i] = q[k] => i = k
<1>1. PICK n : n = Cardinality(S)
  OBVIOUS
<1>2. n \in Nat /\ ExistsBijection(1..n, S)
  BY <1>1, FS_CardinalityType
<1>3. PICK f \in Bijection(1..n, S) : TRUE
  BY <1>2 DEF ExistsBijection
<1>4. f \in [1..n -> S] /\ IsInjective(f)
  BY <1>3 DEF Bijection, Injection, IsInjective
<1>5. q \in [1..n -> S] /\ IsInjective(q)
  BY <1>1, <1>4 DEF SetToSeq
<1>6. q \in Injection(1..n, S)
  BY <1>5 DEF Injection
<1>7. IsFiniteSet(1..n) /\ Cardinality(1..n) = n
  BY <1>2, FS_Interval
<1>8. q \in Surjection(1..n, S)
  BY <1>1, <1>6, <1>7, FS_Injection
<1>9. \A x \in S : \E k \in 1..n : q[k] = x
  BY <1>8 DEF Surjection
<1> QED BY <1>1, <1>2, <1>5, <1>9 DEF IsInjective

LEMMA ReportIs ==
  ASSUME NEW i \in DOMAIN reportArray
  PROVE  /\ reportArray[i].div \in Nat /\ reportArray[i].period \in Nat
         /\ reportArray[i].div > 0 /\ reportArray[i].period > 0
         /\ reportArray[i].div % reportArray[i].period = 0
<1>1. PICK R : R = [div : Nat, period : Nat]
  OBVIOUS
<1>2. reportArray \in Seq(R) /\ DOMAIN reportArray = 1..Len(reportArray)
  BY <1>1, StatsAssumption
<1>3. reportArray[i] \in R
  BY <1>2, ElementOfSeq
<1> QED BY <1>1, <1>3, StatsAssumption

LEMMA ReportFinite ==
  ASSUME NEW i \in DOMAIN reportArray
  PROVE  IsFiniteSet(cellsOf(i))
<1>1. PICK last \in Int : last = reportArray[i].div \div reportArray[i].period - 1
  BY ReportIs
<1> DEFINE f == [k \in 0..last |-> <<i, k>>]
<1>2. f \in Surjection(0..last, cellsOf(i))
  BY <1>1 DEF Surjection, cellsOf
<1>3. IsFiniteSet(0..last)
  BY FS_Interval
<1> HIDE DEF f
<1> QED BY <1>2, <1>3, FS_Surjection

LEMMA CellsFinite == IsFiniteSet(Cells)
<1>1. PICK n \in Nat : DOMAIN reportArray = 1..n /\ n = Len(reportArray)
  BY StatsAssumption
<1>2. \A i \in 1..n : IsFiniteSet(cellsOf(i))
  BY <1>1, ReportFinite
<1> DEFINE S == {cellsOf(i) : i \in 1..n}
           g == [i \in 1..n |-> cellsOf(i)]
<1>3. g \in Surjection(1..n, S)
  BY DEF Surjection
<1>4. IsFiniteSet(1..n)
  BY FS_Interval
<1>5. IsFiniteSet(S)
  <2> HIDE DEF g, S
  <2> QED BY <1>3, <1>4, FS_Surjection
<1>6. \A T \in S : IsFiniteSet(T)
  BY <1>2
<1>7. Cells = UNION S
  BY <1>1 DEF Cells
<1> HIDE DEF S
<1> QED BY <1>5, <1>6, <1>7, FS_UNION

LEMMA HasRecords ==
  ASSUME NEW d, Sound(d), NEW id
  PROVE  hasRecords(d, id) <=> full(d, id)
<1>1. ASSUME hasRecords(d, id) PROVE full(d, id)
  <2>1. id \in DOMAIN d.times /\ Cardinality(DOMAIN d.times[id]) = Cardinality(Cells)
    BY <1>1 DEF hasRecords, correctRecordCount
  <2>2. DOMAIN d.times[id] \in SUBSET Cells
    BY <2>1, Rows DEF Sound
  <2>3. DOMAIN d.times[id] = Cells
    BY <2>1, <2>2, CellsFinite, FS_Subset
  <2> QED BY <2>1, <2>3 DEF full
<1> QED BY <1>1 DEF hasRecords, correctRecordCount, full

-----------------------------------------------------------------------------
(* Sums over a finite set.                                                 *)

(* Whatever holds of the empty set, and of a set when it holds of it with  *)
(* one element less, holds of every finite set.                            *)
LEMMA Shrinking ==
  ASSUME NEW S, IsFiniteSet(S), NEW T, {} \in T,
         \A s \in SUBSET S : s # {} /\ (\A x \in s : s \ {x} \in T) => s \in T
  PROVE  \A s \in SUBSET S : s \in T
<1> DEFINE N == {k \in Nat : \A s \in SUBSET S : Cardinality(s) = k => s \in T}
<1>1. \A s \in SUBSET S : IsFiniteSet(s) /\ Cardinality(s) \in Nat
  BY FS_Subset, FS_CardinalityType
<1>2. 0 \in N
  BY <1>1, FS_EmptySet
<1>3. ASSUME NEW k \in N \cap Nat PROVE k + 1 \in N
  <2> SUFFICES ASSUME NEW s \in SUBSET S, Cardinality(s) = k + 1 PROVE s \in T
    OBVIOUS
  <2>1. s # {}
    <3>1. k + 1 # 0
      OBVIOUS
    <3> QED BY <3>1, FS_EmptySet
  <2>2. ASSUME NEW x \in s PROVE s \ {x} \in T
    <3>1. s \ {x} \in SUBSET S
      OBVIOUS
    <3>2. Cardinality(s \ {x}) = k
      BY <1>1, FS_RemoveElement
    <3> QED BY <3>1, <3>2
  <2> QED BY <2>1, <2>2
<1>4. Nat \subseteq N
  <2> HIDE DEF N
  <2> QED BY <1>2, <1>3, Induction
<1> QED BY <1>1, <1>4

LEMMA SumsExist ==
  ASSUME NEW S, IsFiniteSet(S), NEW g \in [S -> Int]
  PROVE  \E F : Sums(F, S, g)
<1> DEFINE T == {s \in SUBSET S : \E F : Sums(F, s, g)}
<1>1. {} \in T
  <2> DEFINE F == [r \in SUBSET {} |-> 0]
  <2>1. Sums(F, {}, g)
    BY DEF Sums
  <2> HIDE DEF F
  <2> QED BY <2>1
<1>2. ASSUME NEW s \in SUBSET S, s # {}, \A x \in s : s \ {x} \in T
      PROVE  s \in T
  <2>1. PICK x \in s : TRUE
    BY <1>2
  <2>2. PICK R : R = s \ {x}
    OBVIOUS
  <2>3. PICK F : Sums(F, R, g)
    BY <1>2, <2>2
  <2>4. /\ F \in [SUBSET R -> Int] /\ F[{}] = 0
        /\ \A r \in SUBSET R : \A y \in r : F[r] = g[y] + F[r \ {y}]
    BY <2>3 DEF Sums
  <2>5. g[x] \in Int /\ \A y \in s : g[y] \in Int
    OBVIOUS
  <2> DEFINE H == [r \in SUBSET s |-> IF x \in r THEN g[x] + F[r \ {x}] ELSE F[r]]
  <2>6. \A r \in SUBSET s : r \ {x} \in SUBSET R
    BY <2>2
  <2>7. ASSUME NEW r \in SUBSET s, x \notin r PROVE r \in SUBSET R /\ H[r] = F[r]
    BY <2>2, <2>7
  <2>8. H \in [SUBSET s -> Int]
    BY <2>4, <2>5, <2>6, <2>7
  <2>9. ASSUME NEW r \in SUBSET s, NEW y \in r PROVE H[r] = g[y] + H[r \ {y}]
    <3>1. CASE x \notin r
      <4>1. r \in SUBSET R /\ r \ {y} \in SUBSET s /\ x \notin r \ {y}
        BY <2>7, <3>1
      <4> QED BY <2>4, <2>7, <3>1, <4>1
    <3>2. CASE y = x
      <4>1. r \ {x} \in SUBSET s /\ x \notin r \ {x}
        OBVIOUS
      <4> QED BY <2>7, <3>2, <4>1
    <3>3. CASE x \in r /\ y # x
      <4>1. /\ r \ {x} \in SUBSET R /\ y \in r \ {x} /\ r \ {y} \in SUBSET s
            /\ x \in r \ {y}
        BY <2>6, <3>3
      <4>2. (r \ {x}) \ {y} = (r \ {y}) \ {x}
        OBVIOUS
      <4>3. H[r] = g[x] + F[r \ {x}] /\ H[r \ {y}] = g[x] + F[(r \ {y}) \ {x}]
        BY <3>3, <4>1
      <4>4. F[r \ {x}] = g[y] + F[(r \ {y}) \ {x}]
        <5>1. PICK q : q = r \ {x}
          OBVIOUS
        <5>2. F[q] = g[y] + F[q \ {y}]
          BY <2>4, <4>1, <5>1
        <5> QED BY <4>2, <5>1, <5>2
      <4>5. F[(r \ {y}) \ {x}] \in Int /\ g[y] \in Int
        <5>1. (r \ {y}) \ {x} \in SUBSET R
          BY <4>1, <4>2
        <5> QED BY <2>4, <2>5, <5>1
      <4> HIDE DEF H
      <4> QED BY <2>5, <4>3, <4>4, <4>5
    <3> QED BY <3>1, <3>2, <3>3
  <2>10. H[{}] = 0
    BY <2>4
  <2> HIDE DEF H
  <2>11. Sums(H, s, g)
    BY <2>8, <2>9, <2>10 DEF Sums
  <2> QED BY <2>11
<1>3. S \in T
  <2> HIDE DEF T
  <2> QED BY <1>1, <1>2, Shrinking
<1> QED BY <1>3

LEMMA SumOfSums ==
  ASSUME NEW S, IsFiniteSet(S), NEW g \in [S -> Int]
  PROVE  \E F : Sums(F, S, g) /\ SumOf(g) = F[S]
<1>1. DOMAIN g = S
  OBVIOUS
<1>2. PICK F : F = CHOOSE K : Sums(K, DOMAIN g, g)
  OBVIOUS
<1>3. Sums(F, S, g)
  BY <1>1, <1>2, SumsExist
<1> QED BY <1>1, <1>2, <1>3 DEF SumOf

LEMMA SumInt ==
  ASSUME NEW S, IsFiniteSet(S), NEW g \in [S -> Int]
  PROVE  SumOf(g) \in Int
<1>1. PICK F : Sums(F, S, g) /\ SumOf(g) = F[S]
  BY SumOfSums
<1>2. F \in [SUBSET S -> Int] /\ S \in SUBSET S
  BY <1>1 DEF Sums
<1> QED BY <1>1, <1>2

(* A function that is nowhere negative has such a sum.                     *)
LEMMA SumNat ==
  ASSUME NEW S, IsFiniteSet(S), NEW g \in [S -> Nat]
  PROVE  SumOf(g) \in Nat
<1>1. g \in [S -> Int]
  OBVIOUS
<1>2. PICK F : Sums(F, S, g) /\ SumOf(g) = F[S]
  BY <1>1, SumOfSums
<1>3. /\ F[{}] = 0
      /\ \A s \in SUBSET S : \A x \in s : F[s] = g[x] + F[s \ {x}]
  BY <1>2 DEF Sums
<1> DEFINE T == {s \in SUBSET S : F[s] \in Nat}
<1>4. {} \in T
  BY <1>3
<1>5. ASSUME NEW s \in SUBSET S, s # {}, \A x \in s : s \ {x} \in T
      PROVE  s \in T
  <2>1. PICK x \in s : TRUE
    BY <1>5
  <2>2. F[s] = g[x] + F[s \ {x}] /\ g[x] \in Nat /\ F[s \ {x}] \in Nat
    BY <1>3, <1>5, <2>1
  <2> QED BY <2>2
<1>6. S \in T
  <2> HIDE DEF T
  <2> QED BY <1>4, <1>5, Shrinking
<1> QED BY <1>2, <1>6

(* What is added at every point is added to the sum.                       *)
LEMMA SumPlus ==
  ASSUME NEW S, IsFiniteSet(S), NEW g \in [S -> Int], NEW h \in [S -> Int],
         NEW k \in [S -> Int], \A x \in S : k[x] = g[x] + h[x]
  PROVE  SumOf(k) = SumOf(g) + SumOf(h)
<1>1. PICK F : Sums(F, S, g) /\ SumOf(g) = F[S]
  BY SumOfSums
<1>2. PICK G : Sums(G, S, h) /\ SumOf(h) = G[S]
  BY SumOfSums
<1>3. PICK H : Sums(H, S, k) /\ SumOf(k) = H[S]
  BY SumOfSums
<1>4. /\ F[{}] = 0 /\ G[{}] = 0 /\ H[{}] = 0
      /\ \A s \in SUBSET S : F[s] \in Int /\ G[s] \in Int /\ H[s] \in Int
      /\ \A s \in SUBSET S : \A x \in s : F[s] = g[x] + F[s \ {x}]
      /\ \A s \in SUBSET S : \A x \in s : G[s] = h[x] + G[s \ {x}]
      /\ \A s \in SUBSET S : \A x \in s : H[s] = k[x] + H[s \ {x}]
  BY <1>1, <1>2, <1>3 DEF Sums
<1> DEFINE T == {s \in SUBSET S : H[s] = F[s] + G[s]}
<1>5. {} \in T
  BY <1>4
<1>6. ASSUME NEW s \in SUBSET S, s # {}, \A x \in s : s \ {x} \in T
      PROVE  s \in T
  <2>1. PICK x \in s : TRUE
    BY <1>6
  <2>2. PICK r \in SUBSET S : r = s \ {x}
    OBVIOUS
  <2>3. /\ F[s] = g[x] + F[r] /\ G[s] = h[x] + G[r] /\ H[s] = k[x] + H[r]
        /\ H[r] = F[r] + G[r]
    BY <1>4, <1>6, <2>1, <2>2
  <2>4. /\ g[x] \in Int /\ h[x] \in Int /\ k[x] = g[x] + h[x]
        /\ F[r] \in Int /\ G[r] \in Int
    BY <1>4, <2>1
  <2>5. H[s] = F[s] + G[s]
    BY <2>3, <2>4
  <2> QED BY <2>5
<1>7. S \in T
  <2> HIDE DEF T
  <2> QED BY <1>5, <1>6, Shrinking
<1> QED BY <1>1, <1>2, <1>3, <1>7

LEMMA SumMonotone ==
  ASSUME NEW S, IsFiniteSet(S), NEW g \in [S -> Int], NEW h \in [S -> Int],
         \A x \in S : g[x] <= h[x]
  PROVE  SumOf(g) \in Int /\ SumOf(h) \in Int /\ SumOf(g) <= SumOf(h)
<1> DEFINE k == [x \in S |-> h[x] - g[x]]
<1>1. k \in [S -> Nat] /\ k \in [S -> Int] /\ \A x \in S : h[x] = g[x] + k[x]
  OBVIOUS
<1> HIDE DEF k
<1>2. SumOf(h) = SumOf(g) + SumOf(k) /\ SumOf(k) \in Nat
  BY <1>1, SumPlus, SumNat
<1>3. SumOf(g) \in Int
  BY SumInt
<1> QED BY <1>2, <1>3

LEMMA SumZero ==
  ASSUME NEW S, IsFiniteSet(S), NEW g \in [S -> Int], \A x \in S : g[x] = 0
  PROVE  SumOf(g) = 0
<1>1. \A x \in S : g[x] = g[x] + g[x]
  OBVIOUS
<1>2. SumOf(g) = SumOf(g) + SumOf(g)
  BY <1>1, SumPlus
<1>3. PICK n \in Int : n = SumOf(g)
  BY SumInt
<1>4. n = n + n
  BY <1>2, <1>3
<1>5. n = 0
  <2> HIDE <1>2, <1>3
  <2> QED BY <1>4
<1> QED BY <1>3, <1>5

(* Where g is 0 it does not count.                                         *)
LEMMA SumInside ==
  ASSUME NEW S, IsFiniteSet(S), NEW g \in [S -> Int], NEW W \in SUBSET S,
         \A x \in S \ W : g[x] = 0, NEW F, Sums(F, S, g)
  PROVE  F[S] = F[W]
<1>1. /\ \A s \in SUBSET S : F[s] \in Int
      /\ \A s \in SUBSET S : \A x \in s : F[s] = g[x] + F[s \ {x}]
  BY DEF Sums
<1>0. PICK R \in SUBSET S : R = S \ W
  OBVIOUS
<1> DEFINE T == {s \in SUBSET R : F[W \union s] = F[W]}
<1>2. {} \in T
  <2>1. W \union {} = W
    OBVIOUS
  <2> QED BY <2>1
<1>3. ASSUME NEW s \in SUBSET R, s # {}, \A x \in s : s \ {x} \in T
      PROVE  s \in T
  <2>1. PICK x \in s : TRUE
    BY <1>3
  <2>2. W \union s \in SUBSET S /\ (W \union s) \ {x} = W \union (s \ {x})
    BY <1>0, <2>1
  <2>3. F[W \union s] = g[x] + F[W \union (s \ {x})] /\ g[x] = 0
    BY <1>0, <1>1, <2>1, <2>2
  <2>4. F[W \union (s \ {x})] = F[W] /\ F[W] \in Int
    BY <1>1, <1>3, <2>1
  <2> QED BY <2>3, <2>4
<1>4. IsFiniteSet(R)
  BY FS_Subset
<1>5. R \in T
  <2>1. \A s \in SUBSET R : s # {} /\ (\A x \in s : s \ {x} \in T) => s \in T
    BY <1>3
  <2> HIDE DEF T
  <2>2. \A s \in SUBSET R : s \in T
    BY <1>2, <1>4, <2>1, Shrinking
  <2> QED BY <2>2
<1>6. W \union R = S
  BY <1>0
<1> QED BY <1>5, <1>6

(* One more at one point is one more.                                      *)
LEMMA SumPoint ==
  ASSUME NEW S, IsFiniteSet(S), NEW g \in [S -> Int], NEW h \in [S -> Int], NEW a \in S,
         h[a] = g[a] + 1, \A x \in S : x # a => h[x] = g[x]
  PROVE  SumOf(h) = SumOf(g) + 1
<1> DEFINE k == [x \in S |-> IF x = a THEN 1 ELSE 0]
<1>1. k \in [S -> Int] /\ \A x \in S : h[x] = g[x] + k[x]
  OBVIOUS
<1>2. k[a] = 1 /\ \A x \in S \ {a} : k[x] = 0
  OBVIOUS
<1> HIDE DEF k
<1>3. PICK F : Sums(F, S, k) /\ SumOf(k) = F[S]
  BY <1>1, SumOfSums
<1>4. F[S] = F[{a}]
  <2>1. {a} \in SUBSET S
    OBVIOUS
  <2> QED BY <1>1, <1>2, <1>3, <2>1, SumInside
<1>5. F[{a}] = k[a] + F[{}]
  <2>1. {a} \in SUBSET S /\ a \in {a} /\ {a} \ {a} = {}
    OBVIOUS
  <2> QED BY <1>3, <2>1 DEF Sums
<1>6. SumOf(k) = 1
  BY <1>2, <1>3, <1>4, <1>5 DEF Sums
<1> QED BY <1>1, <1>6, SumPlus

(* The sum of ones is a count.                                             *)
LEMMA SumCount ==
  ASSUME NEW S, IsFiniteSet(S), NEW W \in SUBSET S, NEW g \in [S -> Int],
         \A x \in S : g[x] = IF x \in W THEN 1 ELSE 0
  PROVE  SumOf(g) = Cardinality(W)
<1>1. PICK F : Sums(F, S, g) /\ SumOf(g) = F[S]
  BY SumOfSums
<1>2. F[S] = F[W]
  BY <1>1, SumInside
<1>3. /\ F[{}] = 0
      /\ \A s \in SUBSET S : \A x \in s : F[s] = g[x] + F[s \ {x}]
  BY <1>1 DEF Sums
<1> DEFINE T == {s \in SUBSET W : F[s] = Cardinality(s)}
<1>4. {} \in T
  BY <1>3, FS_EmptySet
<1>5. \A s \in SUBSET W : IsFiniteSet(s) /\ Cardinality(s) \in Nat
  BY FS_Subset, FS_CardinalityType
<1>6. ASSUME NEW s \in SUBSET W, s # {}, \A x \in s : s \ {x} \in T
      PROVE  s \in T
  <2>1. PICK x \in s : TRUE
    BY <1>6
  <2>2. F[s] = 1 + F[s \ {x}] /\ F[s \ {x}] = Cardinality(s \ {x})
    BY <1>3, <1>6, <2>1
  <2>3. Cardinality(s \ {x}) = Cardinality(s) - 1
    BY <1>5, <2>1, FS_RemoveElement
  <2> QED BY <1>5, <2>2, <2>3
<1>7. W \in T
  <2>1. IsFiniteSet(W)
    BY <1>5
  <2> HIDE DEF T
  <2> QED BY <1>4, <1>6, <2>1, Shrinking
<1> QED BY <1>1, <1>2, <1>7

(* What MapThenSumSet adds up with: some element of s is added last.       *)
Adds(it, W, g) ==
  it = [s \in SUBSET W |-> IF s = {} THEN 0
                           ELSE g[CHOOSE x \in s : TRUE] + it[s \ {CHOOSE x \in s : TRUE}]]

LEMMA AddsUp ==
  ASSUME NEW S, IsFiniteSet(S), NEW g \in [S -> Int], NEW W \in SUBSET S,
         \A x \in S \ W : g[x] = 0
  PROVE  /\ \E it : Adds(it, W, g)
         /\ \A it : Adds(it, W, g) => it[W] = SumOf(g)
<1>1. PICK F : Sums(F, S, g) /\ SumOf(g) = F[S]
  BY SumOfSums
<1>2. F[S] = F[W]
  BY <1>1, SumInside
<1>3. /\ F[{}] = 0
      /\ \A s \in SUBSET S : \A x \in s : F[s] = g[x] + F[s \ {x}]
  BY <1>1 DEF Sums
<1>4. \E it : Adds(it, W, g)
  <2> DEFINE it == [s \in SUBSET W |-> F[s]]
  <2>1. ASSUME NEW s \in SUBSET W
        PROVE  it[s] = IF s = {} THEN 0
                       ELSE g[CHOOSE x \in s : TRUE] + it[s \ {CHOOSE x \in s : TRUE}]
    <3>1. PICK y : y = CHOOSE x \in s : TRUE
      OBVIOUS
    <3>2. s # {} => y \in s
      BY <3>1
    <3>3. s # {} => F[s] = g[y] + F[s \ {y}]
      BY <1>3, <3>2
    <3>4. s \ {y} \in SUBSET W
      OBVIOUS
    <3> QED BY <1>3, <3>1, <3>3, <3>4
  <2>2. it = [s \in SUBSET W |-> it[s]]
    OBVIOUS
  <2> HIDE DEF it
  <2>3. Adds(it, W, g)
    BY <2>1, <2>2 DEF Adds
  <2> QED BY <2>3
<1>5. ASSUME NEW it, Adds(it, W, g) PROVE it[W] = SumOf(g)
  <2> DEFINE T == {s \in SUBSET W : it[s] = F[s]}
  <2>1. {} \in T
    BY <1>3, <1>5 DEF Adds
  <2>2. ASSUME NEW s \in SUBSET W, s # {}, \A x \in s : s \ {x} \in T
        PROVE  s \in T
    <3>1. PICK y : y = CHOOSE x \in s : TRUE
      OBVIOUS
    <3>2. y \in s
      BY <2>2, <3>1
    <3>3. it[s] = g[y] + it[s \ {y}]
      BY <1>5, <2>2, <3>1 DEF Adds
    <3>4. it[s \ {y}] = F[s \ {y}] /\ F[s] = g[y] + F[s \ {y}]
      BY <1>3, <2>2, <3>2
    <3>5. it[s] = F[s]
      BY <3>3, <3>4
    <3> QED BY <3>5
  <2>3. W \in T
    <3>1. IsFiniteSet(W)
      BY FS_Subset
    <3> HIDE DEF T
    <3> QED BY <2>1, <2>2, <3>1, Shrinking
  <2> QED BY <1>1, <1>2, <2>3
<1> QED BY <1>4, <1>5

-----------------------------------------------------------------------------
(* Folds.                                                                  *)

LEMMA MaxInside ==
  ASSUME NEW n \in Nat, NEW s \in SUBSET (1..n), s # {}
  PROVE  Max(s) \in s
<1> DEFINE T == {k \in Nat : n - k \in s}
<1>1. T # {}
  <2>1. PICK x \in s : TRUE
    OBVIOUS
  <2>2. n - x \in Nat /\ n - (n - x) = x
    OBVIOUS
  <2> QED BY <2>1, <2>2
<1>2. PICK k \in T : \A y \in T : k <= y
  <2>1. T \subseteq Nat
    OBVIOUS
  <2> HIDE DEF T
  <2> QED BY <1>1, <2>1, LeastNat
<1>3. \A y \in s : n - k >= y
  <2> SUFFICES ASSUME NEW y \in s PROVE n - k >= y
    OBVIOUS
  <2>1. n - y \in Nat /\ n - (n - y) = y
    OBVIOUS
  <2>2. n - y \in T
    BY <2>1
  <2>3. k <= n - y /\ k \in Nat /\ y \in Nat
    <3>1. k \in Nat
      OBVIOUS
    <3> HIDE DEF T
    <3> QED BY <1>2, <2>2, <3>1
  <2> HIDE DEF T
  <2> QED BY <2>3
<1>4. n - k \in s
  BY <1>2
<1> HIDE DEF T
<1> QED BY <1>3, <1>4 DEF Max

(* What FoldLeft folds with: F[s] is what the items at the places s make   *)
(* of base, and D[s] what is known of it.                                  *)
Folds(F, m, D, base, G) ==
  /\ F = [s \in SUBSET (1..m) |-> F[s]]
  /\ \A s \in SUBSET (1..m) :
       /\ F[s] \in D[s]
       /\ F[s] = IF s = {} THEN base ELSE G[<<Max(s), F[s \ {Max(s)}]>>]

Carries(n, D, base, G) ==
  /\ base \in D[{}]
  /\ \A s \in SUBSET (1..n) : \A k \in (1..n) \ s : \A v \in D[s] :
       G[<<k, v>>] \in D[s \union {k}]

LEMMA FoldExists ==
  ASSUME NEW n \in Nat, NEW D, NEW base, NEW G, Carries(n, D, base, G)
  PROVE  \E F : Folds(F, n, D, base, G)
<1> DEFINE T == {m \in Nat : m <= n => \E F : Folds(F, m, D, base, G)}
<1>1. 0 \in T
  <2> DEFINE F == [s \in SUBSET (1..0) |-> base]
  <2>1. \A s \in SUBSET (1..0) : s = {}
    OBVIOUS
  <2>2. Folds(F, 0, D, base, G)
    BY <2>1 DEF Folds, Carries
  <2> QED BY <2>2
<1>2. ASSUME NEW m \in T \cap Nat PROVE m + 1 \in T
  <2>1. SUFFICES ASSUME m + 1 <= n PROVE \E F : Folds(F, m + 1, D, base, G)
    OBVIOUS
  <2>2. PICK F : Folds(F, m, D, base, G)
    BY <2>1
  <2>3. \A s \in SUBSET (1..m) :
          /\ F[s] \in D[s]
          /\ F[s] = IF s = {} THEN base ELSE G[<<Max(s), F[s \ {Max(s)}]>>]
    BY <2>2 DEF Folds
  <2> DEFINE H == [s \in SUBSET (1..(m + 1)) |->
                     IF m + 1 \in s THEN G[<<m + 1, F[s \ {m + 1}]>>] ELSE F[s]]
  <2>4. ASSUME NEW s \in SUBSET (1..(m + 1)), m + 1 \in s
        PROVE  /\ Max(s) = m + 1 /\ H[s \ {m + 1}] = F[s \ {m + 1}]
               /\ H[s] = G[<<m + 1, F[s \ {m + 1}]>>] /\ H[s] \in D[s]
    <3>1. Max(s) = m + 1
      <4>1. \A y \in s : y \in Nat /\ m + 1 >= y
        OBVIOUS
      <4>2. \A x \in s : (\A y \in s : x >= y) => x = m + 1
        BY <2>4, <4>1
      <4> QED BY <2>4, <4>1, <4>2 DEF Max
    <3>2. PICK r \in SUBSET (1..m) : r = s \ {m + 1}
      <4>1. \A y \in s : y # m + 1 => y \in 1..m
        OBVIOUS
      <4> QED BY <4>1
    <3>3. r \in SUBSET (1..n) /\ m + 1 \in (1..n) \ r /\ r \union {m + 1} = s
      BY <2>1, <2>4, <3>2
    <3>4. F[r] \in D[r]
      BY <2>3
    <3>5. G[<<m + 1, F[r]>>] \in D[s]
      BY <3>3, <3>4 DEF Carries
    <3>6. H[r] = F[r]
      BY <3>2
    <3>7. H[s] = G[<<m + 1, F[r]>>]
      BY <2>4, <3>2
    <3> QED BY <3>1, <3>2, <3>5, <3>6, <3>7
  <2>5. ASSUME NEW s \in SUBSET (1..(m + 1)), m + 1 \notin s
        PROVE  /\ H[s] = F[s] /\ H[s \ {Max(s)}] = F[s \ {Max(s)}]
               /\ s \in SUBSET (1..m)
    <3>1. PICK r : r = s \ {Max(s)}
      OBVIOUS
    <3>2. r \in SUBSET (1..(m + 1)) /\ m + 1 \notin r
      BY <2>5, <3>1
    <3> QED BY <2>5, <3>1, <3>2
  <2>6. ASSUME NEW s \in SUBSET (1..(m + 1))
        PROVE  /\ H[s] \in D[s]
               /\ H[s] = IF s = {} THEN base ELSE G[<<Max(s), H[s \ {Max(s)}]>>]
    <3> HIDE DEF H
    <3>1. CASE m + 1 \in s
      BY <2>4, <3>1
    <3>2. CASE m + 1 \notin s
      BY <2>3, <2>5, <3>2
    <3> QED BY <3>1, <3>2
  <2>7. H = [s \in SUBSET (1..(m + 1)) |-> H[s]]
    OBVIOUS
  <2> HIDE DEF H
  <2>8. Folds(H, m + 1, D, base, G)
    BY <2>6, <2>7 DEF Folds
  <2> QED BY <2>8
<1>3. n \in T
  <2> HIDE DEF T
  <2> QED BY <1>1, <1>2, Induction
<1> QED BY <1>3

(* Whatever unfolds like the fold does ends where it ends.                 *)
Unfolds(it, n, D, base, G) ==
  /\ it[{}] = base
  /\ \A s \in SUBSET (1..n) : s # {} /\ it[s \ {Max(s)}] \in D[s \ {Max(s)}] =>
       it[s] = G[<<Max(s), it[s \ {Max(s)}]>>]

LEMMA FoldEnds ==
  ASSUME NEW n \in Nat, NEW D, NEW base, NEW G, Carries(n, D, base, G),
         NEW it, Unfolds(it, n, D, base, G)
  PROVE  it[1..n] \in D[1..n]
<1> DEFINE T == {s \in SUBSET (1..n) : it[s] \in D[s]}
<1>1. {} \in T
  BY DEF Unfolds, Carries
<1>2. ASSUME NEW s \in SUBSET (1..n), s # {}, \A x \in s : s \ {x} \in T
      PROVE  s \in T
  <2>1. PICK k : k = Max(s)
    OBVIOUS
  <2>2. k \in s
    BY <1>2, <2>1, MaxInside
  <2>3. PICK r \in SUBSET (1..n) : r = s \ {k}
    OBVIOUS
  <2>4. k \in (1..n) \ r /\ r \union {k} = s
    BY <2>2, <2>3
  <2>5. it[r] \in D[r]
    BY <1>2, <2>2, <2>3
  <2>6. it[s] = G[<<k, it[r]>>]
    BY <1>2, <2>1, <2>3, <2>5 DEF Unfolds
  <2>7. G[<<k, it[r]>>] \in D[s]
    BY <2>4, <2>5 DEF Carries
  <2> QED BY <2>6, <2>7
<1>3. IsFiniteSet(1..n)
  BY FS_Interval
<1>4. 1..n \in T
  <2>1. PICK N : N = 1..n
    OBVIOUS
  <2>2. \A s \in SUBSET N : s # {} /\ (\A x \in s : s \ {x} \in T) => s \in T
    BY <1>2, <2>1
  <2>3. IsFiniteSet(N)
    BY <1>3, <2>1
  <2> HIDE DEF T
  <2>4. \A s \in SUBSET N : s \in T
    BY <1>1, <2>2, <2>3, Shrinking
  <2>5. N \in SUBSET N
    OBVIOUS
  <2> QED BY <2>1, <2>4, <2>5
<1> QED BY <1>4

-----------------------------------------------------------------------------
(* The sums the properties speak of.                                       *)

LEMMA Counts ==
  ASSUME NEW d, Sound(d)
  PROVE  \A id : /\ timeOf(d, id) \in Nat /\ messagesOf(d, id) \in Nat
                 /\ \A c : valueOf(d, id, c) \in Nat
BY Rows DEF Sound, timeOf, messagesOf, valueOf

LEMMA TotalIs ==
  ASSUME Sound(db), NEW id \in DOMAIN db.times, NEW i \in DOMAIN reportArray
  PROVE  total(id, i) = Total(db, id, i)
<1>1. PICK g : g = [c \in cellsOf(i) |-> valueOf(db, id, c)]
  OBVIOUS
<1>2. g \in [cellsOf(i) -> Int]
  BY <1>1, Counts
<1>3. PICK W : W = cellsOf(i) \intersect DOMAIN db.times[id]
  OBVIOUS
<1>4. W \in SUBSET cellsOf(i) /\ \A c \in cellsOf(i) \ W : g[c] = 0
  BY <1>1, <1>3 DEF valueOf
<1>5. PICK row : row = db.times[id]
  OBVIOUS
<1>6. \A c \in W : g[c] = row[c]
  BY <1>1, <1>3, <1>5 DEF valueOf
<1> DEFINE Sum(it) ==
      it = [s \in SUBSET W |-> IF s = {} THEN 0
                               ELSE row[CHOOSE x \in s : TRUE] + it[s \ {CHOOSE x \in s : TRUE}]]
<1>7. total(id, i) = (CHOOSE it : Sum(it))[W]
  BY <1>3, <1>5 DEF total, MapThenSumSet, MapThenFoldSet
<1>8. ASSUME NEW it PROVE Adds(it, W, g) <=> Sum(it)
  <2>1. \A s \in SUBSET W : s # {} => g[CHOOSE x \in s : TRUE] = row[CHOOSE x \in s : TRUE]
    BY <1>6
  <2> QED BY <2>1 DEF Adds
<1> HIDE DEF Sum
<1>9. IsFiniteSet(cellsOf(i))
  BY ReportFinite
<1>10. /\ \E it : Adds(it, W, g)
       /\ \A it : Adds(it, W, g) => it[W] = SumOf(g)
  BY <1>2, <1>4, <1>9, AddsUp
<1>11. (CHOOSE it : Sum(it))[W] = SumOf(g)
  BY <1>8, <1>10
<1> QED BY <1>1, <1>7, <1>11 DEF Total

(* The time of those who sit there, which nobody has added yet.            *)
pendingOf(id) ==
  LET pending(n) == now - seats[n].since
  IN  MapThenSumSet(pending, {n \in Seated : seats[n].id = id})

LEMMA WaitedIs ==
  ASSUME NEW id, \A n \in Nick : waits(now, seats, n, id) \in Nat
  PROVE  pendingOf(id) = Waited(now, seats, id)
<1>1. PICK g : g = [n \in Nick |-> waits(now, seats, n, id)]
  OBVIOUS
<1>2. g \in [Nick -> Int]
  BY <1>1
<1>3. PICK W : W = {n \in Seated : seats[n].id = id}
  OBVIOUS
<1>4. W \in SUBSET Nick /\ \A n \in Nick \ W : g[n] = 0
  BY <1>1, <1>3 DEF waits, Seated
<1>6. \A n \in W : g[n] = now - seats[n].since
  BY <1>1, <1>3, <1>4 DEF waits, Seated
<1> DEFINE Sum(it) ==
      it = [s \in SUBSET W |-> IF s = {} THEN 0
                               ELSE (now - seats[CHOOSE x \in s : TRUE].since) + it[s \ {CHOOSE x \in s : TRUE}]]
<1>7. pendingOf(id) = (CHOOSE it : Sum(it))[W]
  BY <1>3 DEF pendingOf, MapThenSumSet, MapThenFoldSet
<1>8. ASSUME NEW it PROVE Adds(it, W, g) <=> Sum(it)
  <2>1. \A s \in SUBSET W : s # {} => g[CHOOSE x \in s : TRUE] = now - seats[CHOOSE x \in s : TRUE].since
    BY <1>6
  <2> QED BY <2>1 DEF Adds
<1> HIDE DEF Sum
<1>9. IsFiniteSet(Nick)
  BY NamesAssumption
<1>10. /\ \E it : Adds(it, W, g)
       /\ \A it : Adds(it, W, g) => it[W] = SumOf(g)
  BY <1>2, <1>4, <1>9, AddsUp
<1>11. (CHOOSE it : Sum(it))[W] = SumOf(g)
  BY <1>8, <1>10
<1> QED BY <1>1, <1>7, <1>11 DEF Waited

-----------------------------------------------------------------------------
(* What the counts and times come to.                                      *)

LEMMA TotalInt ==
  ASSUME NEW d, Sound(d), NEW id, NEW i \in DOMAIN reportArray
  PROVE  Total(d, id, i) \in Nat
<1>1. PICK g : g = [c \in cellsOf(i) |-> valueOf(d, id, c)]
  OBVIOUS
<1>2. g \in [cellsOf(i) -> Nat]
  BY <1>1, Counts
<1> QED BY <1>1, <1>2, ReportFinite, SumNat DEF Total

LEMMA SameSums ==
  ASSUME NEW d, NEW e, NEW id, SameCounts(d, e, id)
  PROVE  \A i : Total(e, id, i) = Total(d, id, i)
<1>1. ASSUME NEW i
      PROVE  [c \in cellsOf(i) |-> valueOf(e, id, c)] = [c \in cellsOf(i) |-> valueOf(d, id, c)]
  BY DEF SameCounts
<1> QED BY <1>1 DEF Total

LEMMA NoSums ==
  ASSUME NEW e, NEW id, NoCounts(e, id), NEW i \in DOMAIN reportArray
  PROVE  Total(e, id, i) = 0
<1>1. PICK g : g = [c \in cellsOf(i) |-> valueOf(e, id, c)]
  OBVIOUS
<1>2. g \in [cellsOf(i) -> Int] /\ \A c \in cellsOf(i) : g[c] = 0
  BY <1>1 DEF NoCounts
<1> QED BY <1>1, <1>2, ReportFinite, SumZero DEF Total

LEMMA EvenBalanced ==
  ASSUME NEW gap, NEW d, NEW e, Balanced(gap, d), Even(d, e)
  PROVE  Balanced(gap, e)
<1> SUFFICES ASSUME NEW id
             PROVE  \A i \in DOMAIN reportArray : differ(Total(e, id, i), messagesOf(e, id)) <= gap
  BY DEF Balanced
<1>1. CASE SameCounts(d, e, id)
  <2>1. messagesOf(e, id) = messagesOf(d, id)
    BY <1>1 DEF SameCounts
  <2> QED BY <1>1, <2>1, SameSums DEF Balanced
<1>2. CASE NoCounts(e, id)
  <2>1. messagesOf(e, id) = 0 /\ differ(0, 0) <= gap
    BY <1>2 DEF NoCounts, Balanced, differ
  <2> QED BY <1>2, <2>1, NoSums
<1> QED BY <1>1, <1>2 DEF Even

(* Whoever sits there has been there since a time that has passed.         *)
Timely ==
  /\ now \in Clock
  /\ \A n \in Nick : seats[n] # Nobody => seats[n] \in Seat /\ seats[n].since <= now

LEMMA WaitsNat ==
  ASSUME Timely
  PROVE  \A n \in Nick : \A id : waits(now, seats, n, id) \in Nat
<1> SUFFICES ASSUME NEW n \in Nick, NEW id PROVE waits(now, seats, n, id) \in Nat
  OBVIOUS
<1>1. CASE seats[n] # Nobody
  <2>1. now \in Nat /\ seats[n].since \in Nat /\ seats[n].since <= now
    BY <1>1, StatsAssumption DEF Timely, Seat, Clock
  <2> QED BY <2>1 DEF waits
<1>2. CASE seats[n] = Nobody
  BY <1>2 DEF waits
<1> QED BY <1>1, <1>2

LEMMA WaitedNat ==
  ASSUME Timely, NEW id
  PROVE  Waited(now, seats, id) \in Nat
<1>1. PICK g : g = [n \in Nick |-> waits(now, seats, n, id)]
  OBVIOUS
<1>2. g \in [Nick -> Nat] /\ IsFiniteSet(Nick)
  BY <1>1, WaitsNat, NamesAssumption
<1> QED BY <1>1, <1>2, SumNat DEF Waited

(* What the nicks in A were waiting for may be added.                      *)
Spent(A, id) == SumOf([n \in Nick |-> IF n \in A THEN waits(now, seats, n, id) ELSE 0])
Spends(A, d, e) ==
  \A id : timeOf(e, id) = 0 \/ timeOf(e, id) <= timeOf(d, id) + Spent(A, id)

LEMMA SpentNat ==
  ASSUME Timely, NEW A, NEW id
  PROVE  Spent(A, id) \in Nat
<1>1. PICK g : g = [n \in Nick |-> IF n \in A THEN waits(now, seats, n, id) ELSE 0]
  OBVIOUS
<1>2. g \in [Nick -> Nat] /\ IsFiniteSet(Nick)
  BY <1>1, WaitsNat, NamesAssumption
<1> QED BY <1>1, <1>2, SumNat DEF Spent

LEMMA SpentMore ==
  ASSUME Timely, NEW A, NEW n \in Nick, n \notin A, NEW B, B = A \union {n}, NEW id
  PROVE  Spent(B, id) = Spent(A, id) + waits(now, seats, n, id)
<1>1. PICK g : g = [m \in Nick |-> IF m \in A THEN waits(now, seats, m, id) ELSE 0]
  OBVIOUS
<1>2. PICK h : h = [m \in Nick |-> IF m = n THEN waits(now, seats, n, id) ELSE 0]
  OBVIOUS
<1>3. PICK k : k = [m \in Nick |-> IF m \in B THEN waits(now, seats, m, id) ELSE 0]
  OBVIOUS
<1>4. /\ g \in [Nick -> Int] /\ h \in [Nick -> Int] /\ k \in [Nick -> Int]
      /\ IsFiniteSet(Nick)
  <2>1. \A m \in Nick : waits(now, seats, m, id) \in Int
    BY WaitsNat
  <2> QED BY <1>1, <1>2, <1>3, <2>1, NamesAssumption
<1>5. \A m \in Nick : k[m] = g[m] + h[m]
  <2> SUFFICES ASSUME NEW m \in Nick PROVE k[m] = g[m] + h[m]
    OBVIOUS
  <2>1. waits(now, seats, m, id) \in Int
    BY WaitsNat
  <2>2. CASE m = n
    BY <1>1, <1>2, <1>3, <2>1, <2>2
  <2>3. CASE m # n
    BY <1>1, <1>2, <1>3, <2>1, <2>3
  <2> QED BY <2>2, <2>3
<1>6. SumOf(k) = SumOf(g) + SumOf(h)
  BY <1>4, <1>5, SumPlus
<1>7. SumOf(h) = waits(now, seats, n, id)
  <2>1. PICK F : Sums(F, Nick, h) /\ SumOf(h) = F[Nick]
    BY <1>4, SumOfSums
  <2>2. PICK W \in SUBSET Nick : W = {n}
    OBVIOUS
  <2>3. \A m \in Nick \ W : h[m] = 0
    BY <1>2, <2>2
  <2>4. F[Nick] = F[W]
    BY <1>4, <2>1, <2>3, SumInside
  <2>5. n \in W /\ W \ {n} = {} /\ h[n] = waits(now, seats, n, id) /\ h[n] \in Int
    BY <1>2, <1>4, <2>2
  <2>6. F[W] = h[n] + F[W \ {n}] /\ F[{}] = 0
    BY <2>1, <2>5 DEF Sums
  <2> QED BY <2>1, <2>4, <2>5, <2>6
<1> QED BY <1>1, <1>3, <1>6, <1>7 DEF Spent

LEMMA SpendsStill ==
  ASSUME NEW A, NEW d, NEW x, NEW e, Spends(A, d, x), Idle(x, e)
  PROVE  Spends(A, d, e)
BY DEF Spends, Idle

LEMMA SpendsMore ==
  ASSUME Timely, NEW A, NEW n \in Nick, n \notin A, NEW B, B = A \union {n},
         NEW d, Sound(d), NEW x, Sound(x), Spends(A, d, x), NEW e,
         \A i : \/ timeOf(e, i) = timeOf(x, i)
               \/ timeOf(e, i) = timeOf(x, i) + waits(now, seats, n, i)
  PROVE  Spends(B, d, e)
<1> SUFFICES ASSUME NEW id
             PROVE  timeOf(e, id) = 0 \/ timeOf(e, id) <= timeOf(d, id) + Spent(B, id)
  BY DEF Spends
<1>1. Spent(B, id) = Spent(A, id) + waits(now, seats, n, id)
  BY SpentMore
<1>2. Spent(A, id) \in Nat /\ waits(now, seats, n, id) \in Nat
  BY SpentNat, WaitsNat
<1>3. timeOf(d, id) \in Nat /\ timeOf(x, id) \in Nat
  BY Counts
<1>4. timeOf(x, id) = 0 \/ timeOf(x, id) <= timeOf(d, id) + Spent(A, id)
  BY DEF Spends
<1>5. \/ timeOf(e, id) = timeOf(x, id)
      \/ timeOf(e, id) = timeOf(x, id) + waits(now, seats, n, id)
  OBVIOUS
<1> QED BY <1>1, <1>2, <1>3, <1>4, <1>5

-----------------------------------------------------------------------------
(* Trails.                                                                 *)

(* Sound, keeps what d has, counts as much as it should but for a gap, and *)
(* has no time but that of d and of the nicks in A.                        *)
Near(M, A, gap, d, e) == Step(M, d, e) /\ Balanced(gap, e) /\ Spends(A, d, e)

(* All databases of a trail are like that, and none has more JIDs than the *)
(* last.                                                                   *)
Trail(M, A, gap, d, t) ==
  /\ t \in Seq(Database) /\ t # <<>>
  /\ \A k \in 1..Len(t) : Near(M, A, gap, d, t[k]) /\ t[k].lastId <= t[Len(t)].lastId

LEMMA TrailStarts ==
  ASSUME Timely, NEW gap, NEW d, Sound(d), Balanced(gap, d), NEW M, NEW A
  PROVE  Trail(M, A, gap, d, <<d>>) /\ Last(<<d>>) = d
<1>1. d \in Database /\ d.lastId \in Nat
  BY Fields DEF Sound
<1>2. Step(M, d, d)
  BY StayStep
<1>3. Spends(A, d, d)
  <2>1. \A id : timeOf(d, id) \in Nat /\ Spent(A, id) \in Nat
    BY Counts, SpentNat
  <2> QED BY <2>1 DEF Spends
<1> QED BY <1>1, <1>2, <1>3 DEF Trail, Near, Last

LEMMA TrailEnds ==
  ASSUME NEW M, NEW A, NEW gap, NEW d, NEW t, Trail(M, A, gap, d, t)
  PROVE  /\ Step(M, d, Last(t)) /\ Sound(Last(t))
         /\ Balanced(gap, Last(t)) /\ Spends(A, d, Last(t))
<1>1. Len(t) \in 1..Len(t)
  BY DEF Trail
<1> QED BY <1>1 DEF Trail, Near, Last, Step

LEMMA TrailOfFewer ==
  ASSUME NEW M, NEW L, L \subseteq M, NEW A, NEW gap, NEW d, NEW t, Trail(M, A, gap, d, t)
  PROVE  Trail(L, A, gap, d, t)
BY StepOfFewer DEF Trail, Near

Grows(u, t, e) == u = Append(t, e)

LEMMA TrailGrows ==
  ASSUME NEW M, NEW A, NEW gap, NEW d, Sound(d), NEW t, Trail(M, A, gap, d, t),
         NEW e, Step(M, Last(t), e), Balanced(gap, e), Spends(A, d, e),
         NEW u, Grows(u, t, e)
  PROVE  Trail(M, A, gap, d, u) /\ Last(u) = e
<1>1. PICK n \in Nat : n = Len(t)
  BY DEF Trail
<1>2. /\ t \in Seq(Database) /\ n >= 1 /\ Last(t) = t[n]
      /\ \A k \in 1..n : Near(M, A, gap, d, t[k]) /\ t[k].lastId <= t[n].lastId
  BY <1>1 DEF Trail, Last
<1>3. /\ Sound(t[n]) /\ Sound(e) /\ e \in Database
      /\ t[n].lastId <= e.lastId
  BY <1>2 DEF Near, Step, Sound
<1>4. /\ u \in Seq(Database) /\ u # <<>> /\ Len(u) = n + 1
      /\ u[n + 1] = e /\ \A k \in 1..n : u[k] = t[k]
  BY <1>1, <1>2, <1>3, AppendProperties DEF Grows
<1>5. Near(M, A, gap, d, e)
  <2>1. Step(M, d, Last(t))
    BY TrailEnds
  <2>2. Step(M, d, e)
    BY <2>1, StepAgain
  <2> QED BY <2>2 DEF Near
<1>6. ASSUME NEW k \in 1..(n + 1) PROVE Near(M, A, gap, d, u[k]) /\ u[k].lastId <= e.lastId
  <2>1. CASE k = n + 1
    <3>1. e.lastId \in Nat
      BY <1>3, Fields
    <3> QED BY <1>4, <1>5, <2>1, <3>1
  <2>2. CASE k # n + 1
    <3>1. k \in 1..n /\ n \in 1..n
      BY <1>2, <2>2
    <3>2. Sound(t[k])
      BY <1>2, <3>1 DEF Near, Step
    <3>3. t[k].lastId \in Nat /\ t[n].lastId \in Nat /\ e.lastId \in Nat
      BY <1>3, <3>2, Fields DEF Sound
    <3>4. t[k].lastId <= t[n].lastId /\ u[k] = t[k]
      BY <1>2, <1>4, <3>1
    <3> QED BY <1>2, <1>3, <3>1, <3>3, <3>4
  <2> QED BY <2>1, <2>2
<1> QED BY <1>4, <1>6 DEF Trail, Last

(* A statement that counts nothing and adds no time.                       *)
LEMMA TrailCalms ==
  ASSUME NEW M, NEW A, NEW gap, NEW d, Sound(d), NEW t, Trail(M, A, gap, d, t),
         NEW e, Step(M, Last(t), e), Calm(Last(t), e), NEW u, Grows(u, t, e)
  PROVE  Trail(M, A, gap, d, u) /\ Last(u) = e
<1>1. Balanced(gap, Last(t)) /\ Spends(A, d, Last(t))
  BY TrailEnds
<1>2. Balanced(gap, e)
  BY <1>1, EvenBalanced DEF Calm
<1>3. Spends(A, d, e)
  BY <1>1, SpendsStill DEF Calm
<1> QED BY <1>2, <1>3, TrailGrows

(* A statement that adds the time n was waiting for.                       *)
LEMMA TrailPays ==
  ASSUME Timely, NEW M, NEW A, NEW gap, NEW d, Sound(d), NEW t, Trail(M, A, gap, d, t),
         NEW n \in Nick, n \notin A, NEW B, B = A \union {n},
         NEW e, Step(M, Last(t), e), Even(Last(t), e),
         \A i : \/ timeOf(e, i) = timeOf(Last(t), i)
               \/ timeOf(e, i) = timeOf(Last(t), i) + waits(now, seats, n, i),
         NEW u, Grows(u, t, e)
  PROVE  Trail(M, B, gap, d, u) /\ Last(u) = e
<1>1. Sound(Last(t)) /\ Balanced(gap, Last(t)) /\ Spends(A, d, Last(t))
  BY TrailEnds
<1>2. Balanced(gap, e)
  BY <1>1, EvenBalanced
<1>3. Spends(B, d, e)
  BY <1>1, SpendsMore
<1>4. ASSUME NEW x, Near(M, A, gap, d, x) PROVE Near(M, B, gap, d, x)
  <2>1. Sound(x) /\ Spends(A, d, x)
    BY <1>4 DEF Near, Step
  <2>2. Spends(B, d, x)
    BY <2>1, SpendsMore
  <2> QED BY <1>4, <2>2 DEF Near
<1>5. Trail(M, B, gap, d, t)
  BY <1>4 DEF Trail
<1> QED BY <1>2, <1>3, <1>5, TrailGrows

(* A handler that ends leaves what its trail ends with; one the process    *)
(* dies in leaves what some statement made.                                *)
LEMMA Handles ==
  ASSUME NEW M, NEW A, NEW gap, Sound(db), NEW t, Trail(M, A, gap, db, t),
         NEW after, handles(t, after)
  PROVE  /\ Near(M, A, gap, db, db')
         /\ db'.lastId <= Last(t).lastId
         /\ \/ db' = Last(t) /\ seats' = after /\ crashes' = crashes
            \/ crashes' = crashes + 1 /\ seats' = [n \in Nick |-> Nobody]
<1>1. /\ DOMAIN t = 1..Len(t) /\ Len(t) \in 1..Len(t)
      /\ \A k \in 1..Len(t) : Near(M, A, gap, db, t[k]) /\ t[k].lastId <= Last(t).lastId
  BY DEF Trail, Last
<1>2. PICK k \in 1..Len(t) : db' = t[k]
  BY <1>1 DEF handles, Last
<1> QED BY <1>1, <1>2 DEF handles

-----------------------------------------------------------------------------
(* Jid, JidStat and JidTimeStat are loaded.                                *)

LEMMA LoadJid ==
  ASSUME NEW M \in SUBSET Nick, NEW A, NEW gap, NEW d, Sound(d),
         NEW t, Trail(M, A, gap, d, t),
         NEW name \in Name, NEW temporary \in BOOLEAN, temporary <=> name \in LocalJid,
         NEW u, u = loadJid(t, name, temporary),
         NEW id, id = idOf(Last(u), name)
  PROVE  Trail(M, A, gap, d, u) /\ id \in DOMAIN Last(u).jids /\ Last(u).jids[id].jid = name
<1>1. PICK x : x = Last(t)
  OBVIOUS
<1>2. Sound(x)
  BY <1>1, TrailEnds
<1>3. CASE \E i \in DOMAIN x.jids : x.jids[i].jid = name
  <2>1. u = t
    BY <1>1, <1>3 DEF loadJid
  <2> QED BY <1>1, <1>3, <2>1 DEF idOf
<1>4. CASE ~ \E i \in DOMAIN x.jids : x.jids[i].jid = name
  <2>1. PICK e : e = insertJid(x, name, temporary)
    OBVIOUS
  <2>2. /\ Step(Nick, x, e)
        /\ x.lastId + 1 \in DOMAIN e.jids /\ e.jids[x.lastId + 1].jid = name
        /\ Calm(x, e)
    BY <1>2, <1>4, <2>1, InsertJid
  <2>3. Step(M, x, e)
    BY <2>2, StepOfFewer
  <2>4. Grows(u, t, e)
    BY <1>1, <1>4, <2>1 DEF loadJid, then, Grows
  <2>5. Trail(M, A, gap, d, u) /\ Last(u) = e
    BY <1>1, <2>2, <2>3, <2>4, TrailCalms
  <2> QED BY <2>2, <2>5 DEF idOf
<1> QED BY <1>3, <1>4

(* Whatever is loaded later leaves what was loaded.                        *)
Loads(x, y) ==
  /\ SameJids(x, y) /\ y.nicks = x.nicks
  /\ DOMAIN x.stats \subseteq DOMAIN y.stats
  /\ \A i : full(x, i) => full(y, i)

LEMMA LoadsAgain ==
  ASSUME NEW x, NEW y, NEW z, Loads(x, y), Loads(y, z)
  PROVE  Loads(x, z)
BY DEF Loads, SameJids

LEMMA LoadStat ==
  ASSUME NEW M \in SUBSET Nick, NEW A, NEW gap, NEW d, Sound(d),
         NEW t, Trail(M, A, gap, d, t),
         NEW id \in DOMAIN Last(t).jids, NEW u, u = loadStat(t, id)
  PROVE  Trail(M, A, gap, d, u) /\ Loads(Last(t), Last(u)) /\ id \in DOMAIN Last(u).stats
<1>1. PICK x : x = Last(t)
  OBVIOUS
<1>2. Sound(x)
  BY <1>1, TrailEnds
<1>3. CASE id \in DOMAIN x.stats
  <2>1. u = t
    BY <1>1, <1>3 DEF loadStat
  <2> QED BY <1>1, <1>3, <2>1 DEF Loads, SameJids
<1>4. CASE id \notin DOMAIN x.stats
  <2>1. PICK e : e = insertStat(x, id)
    OBVIOUS
  <2>2. ByStats(x, e) /\ DOMAIN e.stats = DOMAIN x.stats \union {id} /\ Calm(x, e)
    BY <1>1, <1>2, <1>4, <2>1, InsertStat
  <2>3. Step(M, x, e)
    BY <2>2, StepOfFewer DEF ByStats
  <2>4. Grows(u, t, e)
    BY <1>1, <1>4, <2>1 DEF loadStat, then, Grows
  <2>5. Trail(M, A, gap, d, u) /\ Last(u) = e
    BY <1>1, <2>2, <2>3, <2>4, TrailCalms
  <2> QED BY <1>1, <2>2, <2>5 DEF Loads, ByStats, full
<1> QED BY <1>3, <1>4

(* While the records of id are created: x is the database before that.     *)
Creating(x, e, id) ==
  /\ SameJids(x, e) /\ e.nicks = x.nicks /\ e.stats = x.stats
  /\ id \in DOMAIN e.times /\ blank(e, id)
  /\ \A i \in DOMAIN x.times : i # id => i \in DOMAIN e.times /\ e.times[i] = x.times[i]

OneMore(x, y, id, cell) == DOMAIN y.times[id] = DOMAIN x.times[id] \union {cell}

LEMMA CreateOne ==
  ASSUME NEW M \in SUBSET Nick, NEW A, NEW gap, NEW d, Sound(d),
         NEW t, Trail(M, A, gap, d, t), NEW x, NEW id,
         Creating(x, Last(t), id), NEW cell \in Cells,
         NEW u, Grows(u, t, insertTime(Last(t), id, cell))
  PROVE  /\ Trail(M, A, gap, d, u) /\ Creating(x, Last(u), id)
         /\ OneMore(Last(t), Last(u), id, cell)
<1>1. PICK y : y = Last(t)
  OBVIOUS
<1>2. PICK e : e = insertTime(y, id, cell)
  OBVIOUS
<1>3. Sound(y) /\ id \in DOMAIN y.times /\ blank(y, id)
  BY <1>1, TrailEnds DEF Creating
<1>4. /\ ByTimes(y, e)
      /\ id \in DOMAIN e.times /\ DOMAIN e.times[id] = DOMAIN y.times[id] \union {cell}
      /\ blank(e, id)
      /\ \A k \in DOMAIN y.times : k # id => k \in DOMAIN e.times /\ e.times[k] = y.times[k]
      /\ Calm(y, e)
  BY <1>2, <1>3, InsertTime
<1>5. Step(M, y, e)
  BY <1>4, StepOfFewer DEF ByTimes
<1>6. Trail(M, A, gap, d, u) /\ Last(u) = e
  <2>1. Grows(u, t, e)
    BY <1>1, <1>2
  <2> QED BY <1>1, <1>4, <1>5, <2>1, TrailCalms
<1>7. Creating(x, e, id)
  BY <1>1, <1>4 DEF Creating, ByTimes, SameJids
<1> QED BY <1>1, <1>4, <1>6, <1>7 DEF OneMore

LEMMA CreateRecords ==
  ASSUME NEW M \in SUBSET Nick, NEW A, NEW gap, NEW d, Sound(d),
         NEW t, Trail(M, A, gap, d, t),
         NEW id \in DOMAIN Last(t).jids, ~ full(Last(t), id),
         NEW u, u = createRecords(t, id)
  PROVE  Trail(M, A, gap, d, u) /\ Loads(Last(t), Last(u)) /\ full(Last(u), id)
<1>1. PICK x : x = Last(t)
  OBVIOUS
<1>2. PICK base : base = Append(t, clearTimes(x, id))
  OBVIOUS
<1>3. Trail(M, A, gap, d, base) /\ Creating(x, Last(base), id) /\ DOMAIN Last(base).times[id] = {}
  <2>1. PICK e : e = clearTimes(x, id)
    OBVIOUS
  <2>2. Sound(x)
    BY <1>1, TrailEnds
  <2>3. /\ ByTimes(x, e)
        /\ id \in DOMAIN e.times /\ DOMAIN e.times[id] = {} /\ blank(e, id)
        /\ \A k \in DOMAIN x.times : k # id => k \in DOMAIN e.times /\ e.times[k] = x.times[k]
        /\ Calm(x, e)
    BY <1>1, <2>1, <2>2, ClearTimes
  <2>4. Step(M, x, e)
    BY <2>3, StepOfFewer DEF ByTimes
  <2>5. Trail(M, A, gap, d, base) /\ Last(base) = e
    <3>1. Grows(base, t, e)
      BY <1>2, <2>1 DEF Grows
    <3> QED BY <1>1, <2>3, <2>4, <3>1, TrailCalms
  <2> QED BY <2>3, <2>5 DEF Creating, ByTimes
<1>4. PICK cells : cells = SetToSeq(Cells)
  OBVIOUS
<1>5. PICK n \in Nat : /\ cells \in [1..n -> Cells] /\ DOMAIN cells = 1..n
                       /\ \A c \in Cells : \E k \in 1..n : cells[k] = c
  BY <1>4, CellsFinite, ItemsOf
<1> DEFINE done(s) == {cells[k] : k \in s}
           D == [s \in SUBSET (1..n) |->
                   {v \in Seq(Database) : /\ Trail(M, A, gap, d, v) /\ Creating(x, Last(v), id)
                                         /\ DOMAIN Last(v).times[id] = done(s)}]
           U == UNION {D[s] : s \in SUBSET (1..n)}
           next(v, k) == Append(v, insertTime(Last(v), id, cells[k]))
           G == [p \in (1..n) \X U |-> next(p[2], p[1])]
<1>6. base \in D[{}]
  <2>1. done({}) = {} /\ {} \in SUBSET (1..n)
    OBVIOUS
  <2> HIDE DEF done
  <2> QED BY <1>3, <2>1 DEF Trail
<1>7. ASSUME NEW s \in SUBSET (1..n), NEW k \in (1..n) \ s, NEW v \in D[s]
      PROVE  next(v, k) \in D[s \union {k}]
  <2>1. PICK w : w = next(v, k)
    OBVIOUS
  <2>2. PICK r \in SUBSET (1..n) : r = s \union {k}
    OBVIOUS
  <2>3. done(r) = done(s) \union {cells[k]}
    BY <2>2
  <2> HIDE DEF done
  <2>4. /\ Trail(M, A, gap, d, v) /\ Creating(x, Last(v), id) /\ cells[k] \in Cells
        /\ DOMAIN Last(v).times[id] = done(s)
    BY <1>5
  <2>5. /\ Trail(M, A, gap, d, w) /\ Creating(x, Last(w), id)
        /\ OneMore(Last(v), Last(w), id, cells[k])
    <3>1. Grows(w, v, insertTime(Last(v), id, cells[k]))
      BY <2>1 DEF Grows
    <3> HIDE DEF next, D
    <3> QED BY <2>4, <3>1, CreateOne
  <2>6. w \in Seq(Database) /\ DOMAIN Last(w).times[id] = done(r)
    BY <2>3, <2>4, <2>5 DEF OneMore, Trail
  <2>7. w \in D[r]
    BY <2>5, <2>6
  <2> QED BY <2>1, <2>2, <2>7
<1>8. \A k \in 1..n, s \in SUBSET (1..n) : \A v \in D[s] : G[<<k, v>>] = next(v, k)
  <2> HIDE DEF D, next
  <2> QED OBVIOUS
<1>9. Carries(n, D, base, G)
  <2> HIDE DEF D, U, G, next
  <2>1. ASSUME NEW s \in SUBSET (1..n), NEW k \in (1..n) \ s, NEW v \in D[s]
        PROVE  G[<<k, v>>] \in D[s \union {k}]
    <3>1. next(v, k) \in D[s \union {k}]
      BY <1>7
    <3>2. k \in 1..n
      OBVIOUS
    <3>3. G[<<k, v>>] = next(v, k)
      BY <1>8, <3>2
    <3> QED BY <3>1, <3>3
  <2> QED BY <1>6, <2>1 DEF Carries
<1>10. PICK it : /\ u = it[1..n]
                 /\ it = [s \in SUBSET (1..n) |->
                            IF s = {} THEN base ELSE next(it[s \ {Max(s)}], Max(s))]
  <2>1. u = (CHOOSE it : it = [s \in SUBSET (1..n) |->
                                 IF s = {} THEN base ELSE next(it[s \ {Max(s)}], Max(s))])[1..n]
    BY <1>1, <1>2, <1>4, <1>5 DEF createRecords, FoldLeft, MapThenFoldSet, then
  <2>2. \E it : it = [s \in SUBSET (1..n) |->
                        IF s = {} THEN base ELSE next(it[s \ {Max(s)}], Max(s))]
    <3>1. PICK F : Folds(F, n, D, base, G)
      <4> HIDE DEF D, U, G, next
      <4> QED BY <1>9, FoldExists
    <3>2. ASSUME NEW s \in SUBSET (1..n)
          PROVE  F[s] = IF s = {} THEN base ELSE next(F[s \ {Max(s)}], Max(s))
      <4> HIDE DEF D, U, G, next
      <4>1. s # {} => Max(s) \in 1..n
        BY MaxInside
      <4>2. F[s \ {Max(s)}] \in D[s \ {Max(s)}] /\ s \ {Max(s)} \in SUBSET (1..n)
        BY <3>1 DEF Folds
      <4>3. F[s] = IF s = {} THEN base ELSE G[<<Max(s), F[s \ {Max(s)}]>>]
        BY <3>1 DEF Folds
      <4> QED BY <1>8, <4>1, <4>2, <4>3
    <3>3. F = [s \in SUBSET (1..n) |-> F[s]]
      BY <3>1 DEF Folds
    <3> HIDE DEF D, U, G, next
    <3> QED BY <3>2, <3>3
  <2> HIDE DEF next
  <2> QED BY <2>1, <2>2
<1>11. Unfolds(it, n, D, base, G)
  <2>1. it[{}] = base
    BY <1>10
  <2>2. ASSUME NEW s \in SUBSET (1..n), s # {}, it[s \ {Max(s)}] \in D[s \ {Max(s)}]
        PROVE  it[s] = G[<<Max(s), it[s \ {Max(s)}]>>]
    <3>1. Max(s) \in 1..n /\ s \ {Max(s)} \in SUBSET (1..n)
      BY <2>2, MaxInside
    <3>2. it[s] = next(it[s \ {Max(s)}], Max(s))
      BY <1>10, <2>2
    <3> HIDE DEF D, U, G, next
    <3> QED BY <1>8, <2>2, <3>1, <3>2
  <2> HIDE DEF D, U, G, next
  <2> QED BY <2>1, <2>2 DEF Unfolds
<1>12. u \in D[1..n]
  <2> HIDE DEF D, U, G, next
  <2>1. it[1..n] \in D[1..n]
    BY <1>9, <1>11, FoldEnds
  <2>2. u = it[1..n]
    BY <1>10
  <2> QED BY <2>1, <2>2
<1>13. DOMAIN Last(u).times[id] = Cells
  <2>1. done(1..n) = Cells
    BY <1>5
  <2> HIDE DEF done
  <2> QED BY <1>12, <2>1
<1>14. Trail(M, A, gap, d, u) /\ Creating(x, Last(u), id)
  <2> HIDE DEF done
  <2> QED BY <1>12
<1>15. Loads(x, Last(u)) /\ full(Last(u), id)
  BY <1>13, <1>14 DEF Creating, Loads, full
<1> QED BY <1>1, <1>14, <1>15

LEMMA LoadTimes ==
  ASSUME NEW M \in SUBSET Nick, NEW A, NEW gap, NEW d, Sound(d),
         NEW t, Trail(M, A, gap, d, t),
         NEW id \in DOMAIN Last(t).jids, NEW u, u = loadTimes(t, id)
  PROVE  Trail(M, A, gap, d, u) /\ Loads(Last(t), Last(u)) /\ full(Last(u), id)
<1>1. hasRecords(Last(t), id) <=> full(Last(t), id)
  BY TrailEnds, HasRecords
<1>2. CASE full(Last(t), id)
  BY <1>1, <1>2 DEF loadTimes, Loads, SameJids
<1>3. CASE ~ full(Last(t), id)
  BY <1>1, <1>3, CreateRecords DEF loadTimes
<1> QED BY <1>2, <1>3

(* new JidStat(id).                                                        *)
LEMMA LoadRecords ==
  ASSUME NEW M \in SUBSET Nick, NEW A, NEW gap, NEW d, Sound(d),
         NEW t, Trail(M, A, gap, d, t),
         NEW id \in DOMAIN Last(t).jids, NEW u, u = loadTimes(loadStat(t, id), id)
  PROVE  /\ Trail(M, A, gap, d, u) /\ Loads(Last(t), Last(u))
         /\ id \in DOMAIN Last(u).stats /\ full(Last(u), id)
<1>1. PICK v : v = loadStat(t, id)
  OBVIOUS
<1>2. Trail(M, A, gap, d, v) /\ Loads(Last(t), Last(v)) /\ id \in DOMAIN Last(v).stats
  BY <1>1, LoadStat
<1>3. id \in DOMAIN Last(v).jids
  BY <1>2 DEF Loads, SameJids
<1>4. u = loadTimes(v, id)
  BY <1>1
<1>5. Trail(M, A, gap, d, u) /\ Loads(Last(v), Last(u)) /\ full(Last(u), id)
  BY <1>2, <1>3, <1>4, LoadTimes
<1>6. Loads(Last(t), Last(u))
  BY <1>2, <1>5, LoadsAgain
<1> QED BY <1>2, <1>5, <1>6 DEF Loads

-----------------------------------------------------------------------------
(* The parts of the handlers.                                              *)

SameIds(t, u) == Last(u).lastId = Last(t).lastId

(* A statement more, that spares everybody.                                *)
LEMMA OneStatement ==
  ASSUME NEW M \in SUBSET Nick, NEW A, NEW gap, NEW d, Sound(d),
         NEW t, Trail(M, A, gap, d, t),
         NEW L, M \subseteq L, NEW e, Step(L, Last(t), e), Calm(Last(t), e),
         NEW u, Grows(u, t, e)
  PROVE  Trail(M, A, gap, d, u) /\ Last(u) = e
<1>1. Step(M, Last(t), e)
  BY StepOfFewer
<1> QED BY <1>1, TrailCalms

(* The time of n is added, which was not before.                           *)
LEMMA AddsTime ==
  ASSUME Timely, NEW M \in SUBSET Nick, NEW A, NEW gap, NEW d, Sound(d),
         NEW t, Trail(M, A, gap, d, t),
         NEW n \in Nick, n \notin A, seats[n] # Nobody, NEW B, B = A \union {n},
         NEW u, u = updateOnlineTime(t, seats[n])
  PROVE  Trail(M, B, gap, d, u) /\ SameIds(t, u) /\ ByStats(Last(t), Last(u))
<1>1. PICK s \in Seat : s = seats[n] /\ s.since <= now
  BY DEF Timely
<1>2. PICK delta : delta = now - s.since
  OBVIOUS
<1>3. delta \in Nat
  <2>1. s.since \in Nat /\ now \in Nat
    BY StatsAssumption DEF Timely, Seat, Clock
  <2> QED BY <1>1, <1>2, <2>1
<1>4. PICK e : e = addTime(Last(t), s.id, delta)
  OBVIOUS
<1>5. /\ ByStats(Last(t), e) /\ Even(Last(t), e)
      /\ \A i : \/ timeOf(e, i) = timeOf(Last(t), i)
               \/ (i = s.id /\ timeOf(e, i) = timeOf(Last(t), i) + delta)
  BY <1>3, <1>4, AddTime, TrailEnds
<1>6. \A i : \/ timeOf(e, i) = timeOf(Last(t), i)
           \/ timeOf(e, i) = timeOf(Last(t), i) + waits(now, seats, n, i)
  BY <1>1, <1>2, <1>5 DEF waits
<1>7. Grows(u, t, e)
  BY <1>1, <1>2, <1>4 DEF updateOnlineTime, then, Grows
<1>8. Step(M, Last(t), e)
  BY <1>5, StepOfFewer DEF ByStats
<1>9. Trail(M, B, gap, d, u) /\ Last(u) = e
  BY <1>5, <1>6, <1>7, <1>8, TrailPays
<1> QED BY <1>5, <1>9 DEF SameIds, ByStats, SameJids

LEMMA GoesOffline ==
  ASSUME NEW n \in Nick, NEW M \in SUBSET (Nick \ {n}), NEW A, NEW gap, NEW d, Sound(d),
         NEW t, Trail(M, A, gap, d, t),
         NEW id, NEW e, e = setOffline(Last(t), n, id), NEW u, Grows(u, t, e)
  PROVE  Trail(M, A, gap, d, u) /\ SameIds(t, u)
<1>1. ByNicks(Nick \ {n}, Last(t), e) /\ Calm(Last(t), e)
  BY SetOffline, TrailEnds
<1>2. Trail(M, A, gap, d, u) /\ Last(u) = e
  BY <1>1, OneStatement DEF ByNicks
<1> QED BY <1>1, <1>2 DEF SameIds, ByNicks, SameJids

LEMMA RemovesNick ==
  ASSUME Timely, NEW n \in Nick, NEW M \in SUBSET (Nick \ {n}), NEW A, NEW gap,
         NEW d, Sound(d), NEW t, Trail(M, A, gap, d, t),
         n \notin A, seats[n] # Nobody, NEW B, B = A \union {n}, NEW u, u = removeNick(t, n)
  PROVE  Trail(M, B, gap, d, u) /\ SameIds(t, u)
<1>1. PICK v : v = Append(t, setOffline(Last(t), n, seats[n].id))
  OBVIOUS
<1>2. Trail(M, A, gap, d, v) /\ SameIds(t, v)
  <2>1. Grows(v, t, setOffline(Last(t), n, seats[n].id))
    BY <1>1 DEF Grows
  <2> QED BY <2>1, GoesOffline
<1>3. u = updateOnlineTime(v, seats[n])
  BY <1>1 DEF removeNick, then
<1>4. Trail(M, B, gap, d, u) /\ SameIds(v, u)
  <2>1. M \in SUBSET Nick
    OBVIOUS
  <2> QED BY <1>2, <1>3, <2>1, AddsTime
<1> QED BY <1>2, <1>4 DEF SameIds

(* new Nick(conf, n, j): a Nick that has what it needs.                    *)
IsNew(r, n, j) ==
  /\ Kept(Last(r.trail), n, r.seat)
  /\ r.seat.since = now /\ r.seat.validate = FALSE
  /\ r.seat.jid \in Person => r.seat.jid = j
  /\ Last(r.trail).lastId <= MaxIds => r.seat \in Seat

LEMMA NewNick ==
  ASSUME NEW M \in SUBSET Nick, NEW A, NEW gap, NEW d, Sound(d),
         NEW t, Trail(M, A, gap, d, t),
         NEW n \in Nick, NEW j \in Person \union {Nobody}, now \in Clock,
         NEW r, r = newNick(t, n, j)
  PROVE  Trail(M, A, gap, d, r.trail) /\ IsNew(r, n, j)
<1>1. PICK name : name = IF j = Nobody THEN <<n, now>> ELSE j
  OBVIOUS
<1>2. PICK temporary \in BOOLEAN : temporary = (j = Nobody)
  OBVIOUS
<1>3. /\ name \in Name /\ (temporary <=> name \in LocalJid) /\ (name \in LocalJid => name[1] = n)
      /\ name \in Person => name = j
  <2>1. CASE j = Nobody
    <3>1. name \in LocalJid /\ name[1] = n
      BY <1>1, <2>1 DEF LocalJid
    <3> QED BY <1>2, <2>1, <3>1, NamesAssumption DEF Name
  <2>2. CASE j # Nobody
    BY <1>1, <1>2, <2>2, NamesAssumption DEF Name
  <2> QED BY <2>1, <2>2
<1>4. PICK t1 : t1 = loadJid(t, name, temporary)
  OBVIOUS
<1>5. PICK id : id = idOf(Last(t1), name)
  OBVIOUS
<1>6. Trail(M, A, gap, d, t1) /\ id \in DOMAIN Last(t1).jids /\ Last(t1).jids[id].jid = name
  BY <1>3, <1>4, <1>5, LoadJid
<1>7. PICK t2 : t2 = loadTimes(loadStat(t1, id), id)
  OBVIOUS
<1>8. PICK y : y = Last(t2)
  OBVIOUS
<1>9. /\ Trail(M, A, gap, d, t2) /\ Loads(Last(t1), y)
      /\ id \in DOMAIN y.stats /\ full(y, id)
  BY <1>6, <1>7, <1>8, LoadRecords
<1>10. Sound(y) /\ id \in DOMAIN y.jids /\ y.jids[id].jid = name
  BY <1>6, <1>8, <1>9, TrailEnds DEF Loads, SameJids
<1>11. PICK e : e = setOnline(y, n, id)
  OBVIOUS
<1>12. /\ ByNicks(Nick, y, e) /\ <<n, id>> \in DOMAIN e.nicks /\ e.nicks[<<n, id>>].online
       /\ Calm(y, e)
  BY <1>3, <1>10, <1>11, SetOnline
<1>13. r = [trail |-> Append(t2, e),
            seat |-> [id |-> id, jid |-> name, temporary |-> temporary,
                      since |-> now, validate |-> FALSE]]
  BY <1>1, <1>2, <1>4, <1>5, <1>7, <1>8, <1>11 DEF newNick, then
<1>14. Grows(r.trail, t2, e)
  BY <1>13 DEF Grows
<1>15. Trail(M, A, gap, d, r.trail) /\ Last(r.trail) = e
  BY <1>8, <1>9, <1>12, <1>14, OneStatement DEF ByNicks
<1>16. /\ r.seat.id = id /\ r.seat.jid = name /\ r.seat.temporary = temporary
       /\ r.seat.since = now /\ r.seat.validate = FALSE
       /\ r.seat = [id |-> id, jid |-> name, temporary |-> temporary,
                    since |-> now, validate |-> FALSE]
  BY <1>13
<1>17. Kept(e, n, r.seat)
  BY <1>3, <1>9, <1>10, <1>12, <1>16 DEF Kept, Recorded, ByNicks, SameJids, full
<1>18. ASSUME e.lastId <= MaxIds PROVE r.seat \in Seat
  <2>1. Sound(e) /\ id \in DOMAIN e.jids
    BY <1>10, <1>12 DEF ByNicks, Step, SameJids
  <2>2. e.lastId \in Nat /\ id \in 1..e.lastId
    BY <2>1, Fields DEF Sound, ForeignKeys
  <2>3. id \in 1..MaxIds
    BY <1>18, <2>2, StatsAssumption
  <2> QED BY <1>3, <1>16, <2>3 DEF Seat
<1> QED BY <1>3, <1>15, <1>16, <1>17, <1>18 DEF IsNew

(* Jid::setFullJid().                                                      *)
LEMMA SetsFullJid ==
  ASSUME NEW n \in Nick, NEW M, M = Nick \ {n}, NEW A, NEW gap, NEW d, Sound(d),
         NEW t, Trail(M, A, gap, d, t),
         NEW s \in Seat, SeatOK(Last(t), n, s), NEW j \in Person, becomesKnown(s, j),
         NEW u, u = setFullJid(t, s, j),
         NEW after, after.id = s.id, after.temporary = s.temporary, after.jid = j
  PROVE  Trail(M, A, gap, d, u) /\ SameIds(t, u) /\ Lost(Last(u), after)
<1>1. PICK x : x = Last(t)
  OBVIOUS
<1>2. Sound(x) /\ s.temporary
  BY <1>1, TrailEnds DEF becomesKnown
<1>3. PICK e : e = deleteJids(x, {s.id})
  OBVIOUS
<1>4. x.lastId \in Nat /\ s.id \in Nat /\ s.id <= x.lastId
  <2>1. x.lastId \in Nat /\ s.id \in Nat
    BY <1>2, Fields, StatsAssumption DEF Sound, Seat
  <2>2. Kept(x, n, s) => s.id \in 1..x.lastId
    BY <1>2 DEF Kept, Recorded, Sound, ForeignKeys
  <2> QED BY <1>1, <2>1, <2>2 DEF SeatOK, Lost
<1>5. ASSUME s.id \in DOMAIN x.jids
      PROVE  x.jids[s.id].temporary /\ x.jids[s.id].jid[1] \notin M
  <2>1. Kept(x, n, s)
    BY <1>1, <1>5 DEF SeatOK, Lost
  <2>2. x.jids[s.id].jid \in LocalJid /\ <<n, s.id>> \in DOMAIN x.nicks
    BY <1>2, <2>1 DEF Kept, Recorded
  <2>3. x.jids[s.id].temporary
    BY <1>2, <1>5, <2>2 DEF Sound, Names
  <2>4. x.jids[<<n, s.id>>[2]].jid \in LocalJid => x.jids[<<n, s.id>>[2]].jid[1] = <<n, s.id>>[1]
    BY <1>2, <2>2 DEF Sound, Names
  <2> QED BY <2>2, <2>3, <2>4
<1>6. /\ Step(M, x, e) /\ e.lastId = x.lastId
      /\ DOMAIN e.jids = DOMAIN x.jids \ {s.id}
      /\ Calm(x, e)
  <2>1. PICK doomed : doomed = {s.id}
    OBVIOUS
  <2>2. MayGo(x, doomed, M)
    BY <1>5, <2>1 DEF MayGo
  <2>3. M \subseteq Nick /\ e = deleteJids(x, doomed)
    BY <1>3, <2>1
  <2>4. /\ Step(M, x, e) /\ e.lastId = x.lastId
        /\ DOMAIN e.jids = DOMAIN x.jids \ doomed
        /\ Calm(x, e)
    BY <1>2, <2>2, <2>3, DeleteJids
  <2> QED BY <2>1, <2>4
<1>7. PICK v : v = Append(t, e)
  OBVIOUS
<1>8. Trail(M, A, gap, d, v) /\ Last(v) = e
  <2>1. Grows(v, t, e)
    BY <1>7 DEF Grows
  <2> QED BY <1>1, <1>6, <2>1, TrailCalms
<1>9. Sound(e) /\ updateJid(e, s.id, j) = e
  <2>1. Sound(e)
    BY <1>6 DEF Step
  <2> QED BY <1>6, <2>1, UpdateNothing
<1>10. Grows(u, v, e)
  <2>1. u = Append(v, updateJid(Last(v), s.id, j))
    BY <1>1, <1>3, <1>7 DEF setFullJid, then
  <2> QED BY <1>8, <1>9, <2>1 DEF Grows
<1>11. Trail(M, A, gap, d, u) /\ Last(u) = e
  <2>1. Step(M, Last(v), e)
    BY <1>8, <1>9, StayStep
  <2>2. Calm(Last(v), e)
    BY <1>8, StayCalm
  <2> QED BY <1>8, <1>10, <2>1, <2>2, TrailCalms
<1> QED BY <1>1, <1>2, <1>4, <1>6, <1>11 DEF SameIds, Lost

-----------------------------------------------------------------------------
(* The parts that go through a list.                                       *)

(* The cell of a report that is counted is one of its own.                 *)
LEMMA CellIsThere ==
  ASSUME now \in Clock, NEW i \in DOMAIN reportArray,
         NEW k, k = ((now % MaxSecond) % reportArray[i].div) \div reportArray[i].period
  PROVE  <<i, k>> \in cellsOf(i)
<1>1. PICK div \in Nat, p \in Nat : /\ div = reportArray[i].div /\ p = reportArray[i].period
                                    /\ div > 0 /\ p > 0 /\ div % p = 0
  BY ReportIs
<1>2. PICK r \in Nat : r = (now % MaxSecond) % div /\ r < div
  <2>1. now \in Nat /\ MaxSecond \in Nat /\ MaxSecond > 0
    BY StatsAssumption DEF Clock
  <2>2. now % MaxSecond \in Nat
    BY <2>1
  <2> QED BY <1>1, <2>2
<1>3. PICK D \in Nat : D = div \div p /\ div = p * D
  BY <1>1
<1>4. k \in Nat /\ p * k <= r /\ k = r \div p
  BY <1>1, <1>2
<1>5. k < D
  <2> SUFFICES ASSUME k >= D PROVE FALSE
    BY <1>4
  <2>1. PICK m \in Nat : k = D + m
    BY <1>4
  <2>2. p * k = p * D + p * m
    BY <1>1, <2>1
  <2>3. p * m \in Nat
    BY <1>1
  <2> QED BY <1>2, <1>3, <1>4, <2>2, <2>3
<1>6. k \in 0..(D - 1)
  BY <1>4, <1>5
<1> QED BY <1>1, <1>3, <1>6 DEF cellsOf

(* While a message is counted that x did not count: those reports have     *)
(* counted it whose places are in s.                                       *)
Counted(x, y, id, s) ==
  /\ SameJids(x, y) /\ y.stats = x.stats /\ y.nicks = x.nicks
  /\ id \notin DOMAIN x.times => y = x
  /\ id \in DOMAIN x.times => full(y, id)
  /\ \A i, c : i # id => valueOf(y, i, c) = valueOf(x, i, c)
  /\ id \in DOMAIN x.times =>
       \A i \in DOMAIN reportArray :
         Total(y, id, i) = IF i \in s THEN Total(x, id, i) + 1 ELSE Total(x, id, i)

(* A gap that is wide enough for one more message in any report.           *)
Wide(gap, x, id) ==
  /\ Balanced(gap, x)
  /\ \A i \in DOMAIN reportArray : differ(Total(x, id, i), messagesOf(x, id)) + 1 <= gap

LEMMA CountedBalanced ==
  ASSUME NEW x, Sound(x), NEW id, NEW gap, Wide(gap, x, id), NEW y, NEW s, Counted(x, y, id, s)
  PROVE  Balanced(gap, y)
<1>1. CASE id \notin DOMAIN x.times
  BY <1>1 DEF Counted, Wide
<1>2. CASE id \in DOMAIN x.times
  <2>1. \A i : messagesOf(y, i) = messagesOf(x, i)
    BY SameStatsCount DEF Counted
  <2>2. ASSUME NEW i \in DOMAIN reportArray
        PROVE  differ(Total(y, id, i), messagesOf(y, id)) <= gap
    <3>1. PICK a, m \in Nat : a = Total(x, id, i) /\ m = messagesOf(x, id)
      BY TotalInt, Counts
    <3>2. differ(a, m) + 1 <= gap /\ gap \in Nat
      BY <3>1 DEF Wide, Balanced
    <3>3. Total(y, id, i) = a + 1 \/ Total(y, id, i) = a
      BY <1>2, <3>1 DEF Counted
    <3>4. a \in Nat
      BY <3>1, TotalInt
    <3>5. differ(a + 1, m) <= gap /\ differ(a, m) <= gap
      BY <3>1, <3>2, <3>4 DEF differ
    <3> QED BY <2>1, <3>1, <3>3, <3>5
  <2>3. ASSUME NEW i, i # id, NEW k PROVE Total(y, i, k) = Total(x, i, k)
    <3>1. [c \in cellsOf(k) |-> valueOf(y, i, c)] = [c \in cellsOf(k) |-> valueOf(x, i, c)]
      BY <2>3 DEF Counted
    <3> QED BY <3>1 DEF Total
  <2> SUFFICES ASSUME NEW i
               PROVE  \A k \in DOMAIN reportArray :
                        differ(Total(y, i, k), messagesOf(y, i)) <= gap
    BY DEF Balanced, Wide
  <2>4. CASE i = id
    BY <2>2, <2>4
  <2>5. CASE i # id
    BY <2>1, <2>3, <2>5 DEF Balanced, Wide
  <2> QED BY <2>4, <2>5
<1> QED BY <1>1, <1>2

(* One report counts it.                                                   *)
LEMMA CountsOne ==
  ASSUME NEW x, NEW y, Sound(y), NEW id, NEW s, Counted(x, y, id, s),
         NEW i \in DOMAIN reportArray, i \notin s, NEW cell \in cellsOf(i),
         NEW r, r = s \union {i}, NEW e, e = countTime(y, id, cell)
  PROVE  ByTimes(y, e) /\ Counted(x, e, id, r)
<1>1. CASE id \notin DOMAIN x.times
  <2>1. y = x /\ id \notin DOMAIN y.times
    BY <1>1 DEF Counted
  <2>2. ByTimes(y, e) /\ e = y
    BY <2>1, CountTime
  <2> QED BY <1>1, <2>1, <2>2 DEF Counted
<1>2. CASE id \in DOMAIN x.times
  <2>1. full(y, id) /\ id \in DOMAIN y.times /\ cell \in Cells
    BY <1>2 DEF Counted, full, Cells
  <2>2. /\ ByTimes(y, e) /\ full(e, id)
        /\ valueOf(e, id, cell) = valueOf(y, id, cell) + 1
        /\ \A k, c : k # id \/ c # cell => valueOf(e, k, c) = valueOf(y, k, c)
    BY <2>1, CountTime
  <2>3. Total(e, id, i) = Total(y, id, i) + 1
    <3>1. PICK g : g = [c \in cellsOf(i) |-> valueOf(y, id, c)]
      OBVIOUS
    <3>2. PICK h : h = [c \in cellsOf(i) |-> valueOf(e, id, c)]
      OBVIOUS
    <3>3. Sound(e)
      BY <2>2 DEF ByTimes, Step
    <3>4. g \in [cellsOf(i) -> Int] /\ h \in [cellsOf(i) -> Int]
      BY <3>1, <3>2, <3>3, Counts
    <3>5. h[cell] = g[cell] + 1 /\ \A c \in cellsOf(i) : c # cell => h[c] = g[c]
      BY <2>2, <3>1, <3>2
    <3>6. SumOf(h) = SumOf(g) + 1
      BY <3>4, <3>5, ReportFinite, SumPoint
    <3> QED BY <3>1, <3>2, <3>6 DEF Total
  <2>4. ASSUME NEW k \in DOMAIN reportArray, k # i PROVE Total(e, id, k) = Total(y, id, k)
    <3>1. \A c \in cellsOf(k) : c # cell
      BY <2>4 DEF cellsOf
    <3>2. [c \in cellsOf(k) |-> valueOf(e, id, c)] = [c \in cellsOf(k) |-> valueOf(y, id, c)]
      BY <2>2, <3>1
    <3> QED BY <3>2 DEF Total
  <2>5. \A k \in DOMAIN reportArray :
          Total(e, id, k) = IF k \in r THEN Total(x, id, k) + 1 ELSE Total(x, id, k)
    <3> SUFFICES ASSUME NEW k \in DOMAIN reportArray
                 PROVE  Total(e, id, k) = IF k \in r THEN Total(x, id, k) + 1 ELSE Total(x, id, k)
      OBVIOUS
    <3>1. Total(y, id, k) = IF k \in s THEN Total(x, id, k) + 1 ELSE Total(x, id, k)
      BY <1>2 DEF Counted
    <3>2. CASE k = i
      BY <2>3, <3>1, <3>2
    <3>3. CASE k # i
      BY <2>4, <3>1, <3>3
    <3> QED BY <3>2, <3>3
  <2>6. \A k, c : k # id => valueOf(e, k, c) = valueOf(x, k, c)
    BY <2>2 DEF Counted
  <2>7. SameJids(x, e) /\ e.stats = x.stats /\ e.nicks = x.nicks
    BY <2>2 DEF ByTimes, Counted, SameJids
  <2> QED BY <1>2, <2>2, <2>5, <2>6, <2>7 DEF Counted
<1> QED BY <1>1, <1>2

(* JidTimeStat::logMessage().                                              *)
LEMMA LogsMessage ==
  ASSUME now \in Clock, NEW A, NEW gap, NEW d, Sound(d), NEW t, Trail(Nick, A, gap, d, t),
         NEW id, id \in DOMAIN Last(t).times => full(Last(t), id), Wide(gap, Last(t), id),
         NEW u, u = logMessage(t, id)
  PROVE  /\ Trail(Nick, A, gap, d, u)
         /\ Counted(Last(t), Last(u), id, DOMAIN reportArray)
<1>1. PICK n \in Nat : DOMAIN reportArray = 1..n
  BY StatsAssumption
<1>2. PICK reports : reports = [i \in DOMAIN reportArray |-> i]
  OBVIOUS
<1>3. DOMAIN reports = 1..n /\ \A k \in 1..n : reports[k] = k
  BY <1>1, <1>2
<1>4. PICK x : x = Last(t)
  OBVIOUS
<1>5. Sound(x) /\ Wide(gap, x, id)
  BY <1>4, TrailEnds
<1> DEFINE cell(i) == <<i, ((now % MaxSecond) % reportArray[i].div) \div reportArray[i].period>>
           D == [s \in SUBSET (1..n) |->
                   {v \in Seq(Database) : Trail(Nick, A, gap, d, v) /\ Counted(x, Last(v), id, s)}]
           U == UNION {D[s] : s \in SUBSET (1..n)}
           next(v, k) == Append(v, countTime(Last(v), id, cell(reports[k])))
           G == [p \in (1..n) \X U |-> next(p[2], p[1])]
<1>6. t \in D[{}]
  <2>1. Counted(x, x, id, {})
    BY <1>4 DEF Counted, SameJids
  <2>2. {} \in SUBSET (1..n) /\ t \in Seq(Database)
    BY DEF Trail
  <2> QED BY <1>4, <2>1, <2>2
<1>7. ASSUME NEW s \in SUBSET (1..n), NEW k \in (1..n) \ s, NEW v \in D[s]
      PROVE  next(v, k) \in D[s \union {k}]
  <2>1. PICK w : w = next(v, k)
    OBVIOUS
  <2>2. PICK r \in SUBSET (1..n) : r = s \union {k}
    OBVIOUS
  <2>3. PICK c : c = cell(k)
    OBVIOUS
  <2>4. k \in DOMAIN reportArray /\ c \in cellsOf(k) /\ reports[k] = k
    BY <1>1, <1>3, <2>3, CellIsThere
  <2>5. PICK e : e = countTime(Last(v), id, c)
    OBVIOUS
  <2>6. Trail(Nick, A, gap, d, v) /\ Counted(x, Last(v), id, s)
    OBVIOUS
  <2>7. Grows(w, v, e)
    BY <2>1, <2>3, <2>4, <2>5 DEF Grows
  <2> HIDE DEF cell, next, D, U, G
  <2>8. Sound(Last(v)) /\ Spends(A, d, Last(v))
    BY <2>6, TrailEnds
  <2>9. ByTimes(Last(v), e) /\ Counted(x, e, id, r)
    BY <2>2, <2>4, <2>5, <2>6, <2>8, CountsOne
  <2>10. Balanced(gap, e)
    BY <1>5, <2>9, CountedBalanced
  <2>11. Spends(A, d, e)
    <3>1. Idle(Last(v), e)
      BY <2>9, SameStatsCount DEF ByTimes, Idle
    <3> QED BY <2>8, <3>1, SpendsStill
  <2>12. Trail(Nick, A, gap, d, w) /\ Last(w) = e
    BY <2>6, <2>7, <2>9, <2>10, <2>11, TrailGrows DEF ByTimes
  <2>13. w \in D[r]
    BY <2>9, <2>12 DEF D, Trail
  <2> QED BY <2>1, <2>2, <2>13
<1>8. \A k \in 1..n, s \in SUBSET (1..n) : \A v \in D[s] : G[<<k, v>>] = next(v, k)
  <2> HIDE DEF D, next
  <2> QED OBVIOUS
<1>9. Carries(n, D, t, G)
  <2> HIDE DEF D, U, G, next
  <2>1. ASSUME NEW s \in SUBSET (1..n), NEW k \in (1..n) \ s, NEW v \in D[s]
        PROVE  G[<<k, v>>] \in D[s \union {k}]
    <3>1. next(v, k) \in D[s \union {k}]
      BY <1>7
    <3>2. k \in 1..n
      OBVIOUS
    <3>3. G[<<k, v>>] = next(v, k)
      BY <1>8, <3>2
    <3> QED BY <3>1, <3>3
  <2> QED BY <1>6, <2>1 DEF Carries
<1>10. PICK it : /\ u = it[1..n]
                 /\ it = [s \in SUBSET (1..n) |->
                            IF s = {} THEN t ELSE next(it[s \ {Max(s)}], Max(s))]
  <2>1. u = (CHOOSE it : it = [s \in SUBSET (1..n) |->
                                 IF s = {} THEN t ELSE next(it[s \ {Max(s)}], Max(s))])[1..n]
    <3> DEFINE R == DOMAIN reports
    <3>1. u = (CHOOSE it : it = [s \in SUBSET R |->
                                   IF s = {} THEN t ELSE next(it[s \ {Max(s)}], Max(s))])[R]
      <4> HIDE DEF D, U, G
      <4> QED BY <1>2 DEF logMessage, FoldLeft, MapThenFoldSet, then
    <3>2. R = 1..n
      BY <1>3
    <3> HIDE DEF next, R
    <3> QED BY <3>1, <3>2
  <2>2. \E it : it = [s \in SUBSET (1..n) |->
                        IF s = {} THEN t ELSE next(it[s \ {Max(s)}], Max(s))]
    <3>1. PICK F : Folds(F, n, D, t, G)
      <4> HIDE DEF D, U, G, next
      <4> QED BY <1>9, FoldExists
    <3>2. ASSUME NEW s \in SUBSET (1..n)
          PROVE  F[s] = IF s = {} THEN t ELSE next(F[s \ {Max(s)}], Max(s))
      <4> HIDE DEF D, U, G, next
      <4>1. s # {} => Max(s) \in 1..n
        BY MaxInside
      <4>2. F[s \ {Max(s)}] \in D[s \ {Max(s)}] /\ s \ {Max(s)} \in SUBSET (1..n)
        BY <3>1 DEF Folds
      <4>3. F[s] = IF s = {} THEN t ELSE G[<<Max(s), F[s \ {Max(s)}]>>]
        BY <3>1 DEF Folds
      <4> QED BY <1>8, <4>1, <4>2, <4>3
    <3>3. F = [s \in SUBSET (1..n) |-> F[s]]
      BY <3>1 DEF Folds
    <3> HIDE DEF D, U, G, next
    <3> QED BY <3>2, <3>3
  <2> HIDE DEF next
  <2> QED BY <2>1, <2>2
<1>11. Unfolds(it, n, D, t, G)
  <2>1. it[{}] = t
    BY <1>10
  <2>2. ASSUME NEW s \in SUBSET (1..n), s # {}, it[s \ {Max(s)}] \in D[s \ {Max(s)}]
        PROVE  it[s] = G[<<Max(s), it[s \ {Max(s)}]>>]
    <3>1. Max(s) \in 1..n /\ s \ {Max(s)} \in SUBSET (1..n)
      BY <2>2, MaxInside
    <3>2. it[s] = next(it[s \ {Max(s)}], Max(s))
      BY <1>10, <2>2
    <3> HIDE DEF D, U, G, next
    <3> QED BY <1>8, <2>2, <3>1, <3>2
  <2> HIDE DEF D, U, G, next
  <2> QED BY <2>1, <2>2 DEF Unfolds
<1>12. u \in D[1..n]
  <2> HIDE DEF D, U, G, next
  <2>1. it[1..n] \in D[1..n]
    BY <1>9, <1>11, FoldEnds
  <2>2. u = it[1..n]
    BY <1>10
  <2> QED BY <2>1, <2>2
<1> QED BY <1>1, <1>4, <1>12

(* ~Nick() of some.                                                        *)
LEMMA RemovesNicks ==
  ASSUME Timely, NEW gap, NEW d, Sound(d), NEW gone \in SUBSET Nick,
         NEW t, Trail(Nick \ gone, {}, gap, d, t), \A n \in gone : seats[n] # Nobody,
         NEW u, u = removeNicks(t, gone)
  PROVE  Trail(Nick \ gone, gone, gap, d, u) /\ SameIds(t, u)
<1>1. PICK nicks : nicks = SetToSeq(gone)
  OBVIOUS
<1>2. PICK n \in Nat : /\ nicks \in [1..n -> gone] /\ DOMAIN nicks = 1..n
                       /\ \A m \in gone : \E k \in 1..n : nicks[k] = m
                       /\ \A i, k \in 1..n : nicks[i] = nicks[k] => i = k
  <2>1. IsFiniteSet(gone)
    BY NamesAssumption, FS_Subset
  <2> QED BY <1>1, <2>1, ItemsOf
<1> DEFINE done(s) == {nicks[k] : k \in s}
           D == [s \in SUBSET (1..n) |->
                   {v \in Seq(Database) : /\ Trail(Nick \ gone, done(s), gap, d, v)
                                         /\ SameIds(t, v)}]
           U == UNION {D[s] : s \in SUBSET (1..n)}
           next(v, k) == removeNick(v, nicks[k])
           G == [p \in (1..n) \X U |-> next(p[2], p[1])]
<1>6. t \in D[{}]
  <2>1. done({}) = {} /\ {} \in SUBSET (1..n)
    OBVIOUS
  <2> HIDE DEF done
  <2> QED BY <2>1 DEF Trail, SameIds
<1>7. ASSUME NEW s \in SUBSET (1..n), NEW k \in (1..n) \ s, NEW v \in D[s]
      PROVE  next(v, k) \in D[s \union {k}]
  <2>1. PICK w : w = next(v, k)
    OBVIOUS
  <2>2. PICK r \in SUBSET (1..n) : r = s \union {k}
    OBVIOUS
  <2>3. PICK m \in gone : m = nicks[k]
    BY <1>2
  <2>4. m \notin done(s)
    BY <1>2, <2>3
  <2>5. PICK A : A = done(s)
    OBVIOUS
  <2>6. PICK B : B = done(r)
    OBVIOUS
  <2>7. B = A \union {m}
    BY <2>2, <2>3, <2>5, <2>6
  <2>8. Trail(Nick \ gone, A, gap, d, v) /\ SameIds(t, v)
    BY <2>5
  <2>9. w = removeNick(v, m) /\ seats[m] # Nobody /\ m \in Nick /\ Nick \ gone \in SUBSET (Nick \ {m})
    BY <2>1, <2>3
  <2> HIDE DEF done, next, D, U, G
  <2>10. Trail(Nick \ gone, B, gap, d, w) /\ SameIds(v, w)
    BY <2>4, <2>5, <2>7, <2>8, <2>9, RemovesNick
  <2>11. w \in D[r]
    BY <2>6, <2>8, <2>10 DEF D, Trail, SameIds
  <2> QED BY <2>1, <2>2, <2>11
<1>8. \A k \in 1..n, s \in SUBSET (1..n) : \A v \in D[s] : G[<<k, v>>] = next(v, k)
  <2> HIDE DEF D, next
  <2> QED OBVIOUS
<1>9. Carries(n, D, t, G)
  <2> HIDE DEF D, U, G, next
  <2>1. ASSUME NEW s \in SUBSET (1..n), NEW k \in (1..n) \ s, NEW v \in D[s]
        PROVE  G[<<k, v>>] \in D[s \union {k}]
    <3>1. next(v, k) \in D[s \union {k}]
      BY <1>7
    <3>2. k \in 1..n
      OBVIOUS
    <3>3. G[<<k, v>>] = next(v, k)
      BY <1>8, <3>2
    <3> QED BY <3>1, <3>3
  <2> QED BY <1>6, <2>1 DEF Carries
<1>10. PICK it : /\ u = it[1..n]
                 /\ it = [s \in SUBSET (1..n) |->
                            IF s = {} THEN t ELSE next(it[s \ {Max(s)}], Max(s))]
  <2>1. u = (CHOOSE it : it = [s \in SUBSET (1..n) |->
                                 IF s = {} THEN t ELSE next(it[s \ {Max(s)}], Max(s))])[1..n]
    BY <1>1, <1>2 DEF removeNicks, FoldLeft, MapThenFoldSet
  <2>2. \E it : it = [s \in SUBSET (1..n) |->
                        IF s = {} THEN t ELSE next(it[s \ {Max(s)}], Max(s))]
    <3>1. PICK F : Folds(F, n, D, t, G)
      <4> HIDE DEF D, U, G, next
      <4> QED BY <1>9, FoldExists
    <3>2. ASSUME NEW s \in SUBSET (1..n)
          PROVE  F[s] = IF s = {} THEN t ELSE next(F[s \ {Max(s)}], Max(s))
      <4> HIDE DEF D, U, G, next
      <4>1. s # {} => Max(s) \in 1..n
        BY MaxInside
      <4>2. F[s \ {Max(s)}] \in D[s \ {Max(s)}] /\ s \ {Max(s)} \in SUBSET (1..n)
        BY <3>1 DEF Folds
      <4>3. F[s] = IF s = {} THEN t ELSE G[<<Max(s), F[s \ {Max(s)}]>>]
        BY <3>1 DEF Folds
      <4> QED BY <1>8, <4>1, <4>2, <4>3
    <3>3. F = [s \in SUBSET (1..n) |-> F[s]]
      BY <3>1 DEF Folds
    <3> HIDE DEF D, U, G, next
    <3> QED BY <3>2, <3>3
  <2> HIDE DEF next
  <2> QED BY <2>1, <2>2
<1>11. Unfolds(it, n, D, t, G)
  <2>1. it[{}] = t
    BY <1>10
  <2>2. ASSUME NEW s \in SUBSET (1..n), s # {}, it[s \ {Max(s)}] \in D[s \ {Max(s)}]
        PROVE  it[s] = G[<<Max(s), it[s \ {Max(s)}]>>]
    <3>1. Max(s) \in 1..n /\ s \ {Max(s)} \in SUBSET (1..n)
      BY <2>2, MaxInside
    <3>2. it[s] = next(it[s \ {Max(s)}], Max(s))
      BY <1>10, <2>2
    <3> HIDE DEF D, U, G, next
    <3> QED BY <1>8, <2>2, <3>1, <3>2
  <2> HIDE DEF D, U, G, next
  <2> QED BY <2>1, <2>2 DEF Unfolds
<1>12. u \in D[1..n]
  <2> HIDE DEF D, U, G, next
  <2>1. it[1..n] \in D[1..n]
    BY <1>9, <1>11, FoldEnds
  <2>2. u = it[1..n]
    BY <1>10
  <2> QED BY <2>1, <2>2
<1>13. done(1..n) = gone
  BY <1>2
<1> HIDE DEF done
<1> QED BY <1>12, <1>13

(* The last update of those who leave lazily.                              *)
updatedAll(t, all) ==
  LET update(v, n) == updateOnlineTime(v, seats[n])
  IN  FoldLeft(update, t, SetToSeq(all))

LEMMA UpdatesAll ==
  ASSUME Timely, NEW gap, NEW d, Sound(d), NEW all \in SUBSET Nick,
         NEW t, Trail(Nick, {}, gap, d, t), \A n \in all : seats[n] # Nobody,
         NEW u, u = updatedAll(t, all)
  PROVE  Trail(Nick, all, gap, d, u) /\ SameIds(t, u)
<1>1. PICK nicks : nicks = SetToSeq(all)
  OBVIOUS
<1>2. PICK n \in Nat : /\ nicks \in [1..n -> all] /\ DOMAIN nicks = 1..n
                       /\ \A m \in all : \E k \in 1..n : nicks[k] = m
                       /\ \A i, k \in 1..n : nicks[i] = nicks[k] => i = k
  <2>1. IsFiniteSet(all)
    BY NamesAssumption, FS_Subset
  <2> QED BY <1>1, <2>1, ItemsOf
<1> DEFINE done(s) == {nicks[k] : k \in s}
           D == [s \in SUBSET (1..n) |->
                   {v \in Seq(Database) : /\ Trail(Nick, done(s), gap, d, v)
                                         /\ SameIds(t, v)}]
           U == UNION {D[s] : s \in SUBSET (1..n)}
           next(v, k) == updateOnlineTime(v, seats[nicks[k]])
           G == [p \in (1..n) \X U |-> next(p[2], p[1])]
<1>6. t \in D[{}]
  <2>1. done({}) = {} /\ {} \in SUBSET (1..n)
    OBVIOUS
  <2> HIDE DEF done
  <2> QED BY <2>1 DEF Trail, SameIds
<1>7. ASSUME NEW s \in SUBSET (1..n), NEW k \in (1..n) \ s, NEW v \in D[s]
      PROVE  next(v, k) \in D[s \union {k}]
  <2>1. PICK w : w = next(v, k)
    OBVIOUS
  <2>2. PICK r \in SUBSET (1..n) : r = s \union {k}
    OBVIOUS
  <2>3. PICK m \in all : m = nicks[k]
    BY <1>2
  <2>4. m \notin done(s)
    BY <1>2, <2>3
  <2>5. PICK A : A = done(s)
    OBVIOUS
  <2>6. PICK B : B = done(r)
    OBVIOUS
  <2>7. B = A \union {m}
    BY <2>2, <2>3, <2>5, <2>6
  <2>8. Trail(Nick, A, gap, d, v) /\ SameIds(t, v)
    BY <2>5
  <2>9. w = updateOnlineTime(v, seats[m]) /\ seats[m] # Nobody /\ m \in Nick /\ Nick \in SUBSET Nick
    BY <2>1, <2>3
  <2> HIDE DEF done, next, D, U, G
  <2>10. Trail(Nick, B, gap, d, w) /\ SameIds(v, w)
    BY <2>4, <2>5, <2>7, <2>8, <2>9, AddsTime
  <2>11. w \in D[r]
    BY <2>6, <2>8, <2>10 DEF D, Trail, SameIds
  <2> QED BY <2>1, <2>2, <2>11
<1>8. \A k \in 1..n, s \in SUBSET (1..n) : \A v \in D[s] : G[<<k, v>>] = next(v, k)
  <2> HIDE DEF D, next
  <2> QED OBVIOUS
<1>9. Carries(n, D, t, G)
  <2> HIDE DEF D, U, G, next
  <2>1. ASSUME NEW s \in SUBSET (1..n), NEW k \in (1..n) \ s, NEW v \in D[s]
        PROVE  G[<<k, v>>] \in D[s \union {k}]
    <3>1. next(v, k) \in D[s \union {k}]
      BY <1>7
    <3>2. k \in 1..n
      OBVIOUS
    <3>3. G[<<k, v>>] = next(v, k)
      BY <1>8, <3>2
    <3> QED BY <3>1, <3>3
  <2> QED BY <1>6, <2>1 DEF Carries
<1>10. PICK it : /\ u = it[1..n]
                 /\ it = [s \in SUBSET (1..n) |->
                            IF s = {} THEN t ELSE next(it[s \ {Max(s)}], Max(s))]
  <2>1. u = (CHOOSE it : it = [s \in SUBSET (1..n) |->
                                 IF s = {} THEN t ELSE next(it[s \ {Max(s)}], Max(s))])[1..n]
    BY <1>1, <1>2 DEF updatedAll, FoldLeft, MapThenFoldSet
  <2>2. \E it : it = [s \in SUBSET (1..n) |->
                        IF s = {} THEN t ELSE next(it[s \ {Max(s)}], Max(s))]
    <3>1. PICK F : Folds(F, n, D, t, G)
      <4> HIDE DEF D, U, G, next
      <4> QED BY <1>9, FoldExists
    <3>2. ASSUME NEW s \in SUBSET (1..n)
          PROVE  F[s] = IF s = {} THEN t ELSE next(F[s \ {Max(s)}], Max(s))
      <4> HIDE DEF D, U, G, next
      <4>1. s # {} => Max(s) \in 1..n
        BY MaxInside
      <4>2. F[s \ {Max(s)}] \in D[s \ {Max(s)}] /\ s \ {Max(s)} \in SUBSET (1..n)
        BY <3>1 DEF Folds
      <4>3. F[s] = IF s = {} THEN t ELSE G[<<Max(s), F[s \ {Max(s)}]>>]
        BY <3>1 DEF Folds
      <4> QED BY <1>8, <4>1, <4>2, <4>3
    <3>3. F = [s \in SUBSET (1..n) |-> F[s]]
      BY <3>1 DEF Folds
    <3> HIDE DEF D, U, G, next
    <3> QED BY <3>2, <3>3
  <2> HIDE DEF next
  <2> QED BY <2>1, <2>2
<1>11. Unfolds(it, n, D, t, G)
  <2>1. it[{}] = t
    BY <1>10
  <2>2. ASSUME NEW s \in SUBSET (1..n), s # {}, it[s \ {Max(s)}] \in D[s \ {Max(s)}]
        PROVE  it[s] = G[<<Max(s), it[s \ {Max(s)}]>>]
    <3>1. Max(s) \in 1..n /\ s \ {Max(s)} \in SUBSET (1..n)
      BY <2>2, MaxInside
    <3>2. it[s] = next(it[s \ {Max(s)}], Max(s))
      BY <1>10, <2>2
    <3> HIDE DEF D, U, G, next
    <3> QED BY <1>8, <2>2, <3>1, <3>2
  <2> HIDE DEF D, U, G, next
  <2> QED BY <2>1, <2>2 DEF Unfolds
<1>12. u \in D[1..n]
  <2> HIDE DEF D, U, G, next
  <2>1. it[1..n] \in D[1..n]
    BY <1>9, <1>11, FoldEnds
  <2>2. u = it[1..n]
    BY <1>10
  <2> QED BY <2>1, <2>2
<1>13. done(1..n) = all
  BY <1>2
<1> HIDE DEF done
<1> QED BY <1>12, <1>13

(* The statistics of those who are loaded.                                 *)
present(loaded) == {m \in Nick : loaded[m] # Nobody}
loadedAll(t, loaded, all) ==
  LET load(u, n) == loadTimes(loadStat(u, loaded[n].id), loaded[n].id)
  IN  FoldLeft(load, t, SetToSeq(all))

HasAll(e, id) == id \in DOMAIN e.stats /\ full(e, id)

LEMMA LoadsStats ==
  ASSUME NEW A, NEW gap, NEW d, Sound(d), NEW t, Trail(Nick, A, gap, d, t), NEW loaded,
         \A m \in present(loaded) : loaded[m].id \in DOMAIN Last(t).jids,
         NEW u, u = loadStats(t, loaded)
  PROVE  /\ Trail(Nick, A, gap, d, u) /\ SameIds(t, u) /\ Loads(Last(t), Last(u))
         /\ \A m \in present(loaded) : HasAll(Last(u), loaded[m].id)
<1>0. PICK all : all = present(loaded)
  OBVIOUS
<1>1. PICK nicks : nicks = SetToSeq(all)
  OBVIOUS
<1>1a. u = loadedAll(t, loaded, all)
  <2>1. u = loadedAll(t, loaded, present(loaded))
    BY Zenon DEF loadStats, loadedAll, present
  <2> QED BY <1>0, <2>1
<1>2. PICK n \in Nat : /\ nicks \in [1..n -> present(loaded)] /\ DOMAIN nicks = 1..n
                       /\ \A m \in present(loaded) : \E k \in 1..n : nicks[k] = m
  <2>1. IsFiniteSet(present(loaded))
    BY NamesAssumption, FS_Subset DEF present
  <2>2. nicks = SetToSeq(present(loaded))
    BY <1>0, <1>1
  <2>3. PICK n : n = Cardinality(present(loaded))
    OBVIOUS
  <2>4. /\ n \in Nat /\ nicks \in [1..n -> present(loaded)] /\ DOMAIN nicks = 1..n
        /\ \A m \in present(loaded) : \E k \in 1..n : nicks[k] = m
    BY <2>1, <2>2, <2>3, ItemsOf
  <2> QED BY <2>4
<1>3. PICK x : x = Last(t)
  OBVIOUS
<1> DEFINE id(k) == loaded[nicks[k]].id
           D == [s \in SUBSET (1..n) |->
                   {v \in Seq(Database) : /\ Trail(Nick, A, gap, d, v) /\ Loads(x, Last(v))
                                         /\ \A i \in s : HasAll(Last(v), id(i))}]
           U == UNION {D[s] : s \in SUBSET (1..n)}
           next(v, k) == loadTimes(loadStat(v, id(k)), id(k))
           G == [p \in (1..n) \X U |-> next(p[2], p[1])]
<1>6. t \in D[{}]
  <2>1. {} \in SUBSET (1..n) /\ Loads(x, Last(t))
    BY <1>3 DEF Loads, SameJids
  <2> QED BY <2>1 DEF Trail
<1>7. ASSUME NEW s \in SUBSET (1..n), NEW k \in (1..n) \ s, NEW v \in D[s]
      PROVE  next(v, k) \in D[s \union {k}]
  <2>1. PICK w : w = next(v, k)
    OBVIOUS
  <2>2. PICK r \in SUBSET (1..n) : r = s \union {k}
    OBVIOUS
  <2>3. PICK i : i = id(k)
    OBVIOUS
  <2>4. /\ Trail(Nick, A, gap, d, v) /\ Loads(x, Last(v))
        /\ \A l \in s : HasAll(Last(v), id(l))
    OBVIOUS
  <2>5. i \in DOMAIN Last(v).jids
    BY <1>2, <1>3, <2>3, <2>4 DEF Loads, SameJids
  <2>6. w = loadTimes(loadStat(v, i), i)
    BY <2>1, <2>3
  <2>7. /\ Trail(Nick, A, gap, d, w) /\ Loads(Last(v), Last(w)) /\ HasAll(Last(w), i)
    <3> HIDE DEF D, U, G, next, id
    <3> QED BY <2>4, <2>5, <2>6, LoadRecords DEF HasAll
  <2>8. Loads(x, Last(w))
    BY <2>4, <2>7, LoadsAgain
  <2> HIDE DEF D, U, G, next, id
  <2>9. \A l \in r : HasAll(Last(w), id(l))
    <3>1. \A l \in s : HasAll(Last(w), id(l))
      BY <2>4, <2>7 DEF HasAll, Loads
    <3> QED BY <2>2, <2>3, <2>7, <3>1
  <2>10. w \in D[r]
    BY <2>7, <2>8, <2>9 DEF D, Trail
  <2> QED BY <2>1, <2>2, <2>10
<1>8. \A k \in 1..n, s \in SUBSET (1..n) : \A v \in D[s] : G[<<k, v>>] = next(v, k)
  <2> HIDE DEF D, next
  <2> QED OBVIOUS
<1>9. Carries(n, D, t, G)
  <2> HIDE DEF D, U, G, next
  <2>1. ASSUME NEW s \in SUBSET (1..n), NEW k \in (1..n) \ s, NEW v \in D[s]
        PROVE  G[<<k, v>>] \in D[s \union {k}]
    <3>1. next(v, k) \in D[s \union {k}]
      BY <1>7
    <3>2. k \in 1..n
      OBVIOUS
    <3>3. G[<<k, v>>] = next(v, k)
      BY <1>8, <3>2
    <3> QED BY <3>1, <3>3
  <2> QED BY <1>6, <2>1 DEF Carries
<1>10. PICK it : /\ u = it[1..n]
                 /\ it = [s \in SUBSET (1..n) |->
                            IF s = {} THEN t ELSE next(it[s \ {Max(s)}], Max(s))]
  <2>1. u = (CHOOSE it : it = [s \in SUBSET (1..n) |->
                                 IF s = {} THEN t ELSE next(it[s \ {Max(s)}], Max(s))])[1..n]
    BY <1>1, <1>1a, <1>2 DEF loadedAll, FoldLeft, MapThenFoldSet
  <2>2. \E it : it = [s \in SUBSET (1..n) |->
                        IF s = {} THEN t ELSE next(it[s \ {Max(s)}], Max(s))]
    <3>1. PICK F : Folds(F, n, D, t, G)
      <4> HIDE DEF D, U, G, next
      <4> QED BY <1>9, FoldExists
    <3>2. ASSUME NEW s \in SUBSET (1..n)
          PROVE  F[s] = IF s = {} THEN t ELSE next(F[s \ {Max(s)}], Max(s))
      <4> HIDE DEF D, U, G, next
      <4>1. s # {} => Max(s) \in 1..n
        BY MaxInside
      <4>2. F[s \ {Max(s)}] \in D[s \ {Max(s)}] /\ s \ {Max(s)} \in SUBSET (1..n)
        BY <3>1 DEF Folds
      <4>3. F[s] = IF s = {} THEN t ELSE G[<<Max(s), F[s \ {Max(s)}]>>]
        BY <3>1 DEF Folds
      <4> QED BY <1>8, <4>1, <4>2, <4>3
    <3>3. F = [s \in SUBSET (1..n) |-> F[s]]
      BY <3>1 DEF Folds
    <3> HIDE DEF D, U, G, next
    <3> QED BY <3>2, <3>3
  <2> HIDE DEF next
  <2> QED BY <2>1, <2>2
<1>11. Unfolds(it, n, D, t, G)
  <2>1. it[{}] = t
    BY <1>10
  <2>2. ASSUME NEW s \in SUBSET (1..n), s # {}, it[s \ {Max(s)}] \in D[s \ {Max(s)}]
        PROVE  it[s] = G[<<Max(s), it[s \ {Max(s)}]>>]
    <3>1. Max(s) \in 1..n /\ s \ {Max(s)} \in SUBSET (1..n)
      BY <2>2, MaxInside
    <3>2. it[s] = next(it[s \ {Max(s)}], Max(s))
      BY <1>10, <2>2
    <3> HIDE DEF D, U, G, next
    <3> QED BY <1>8, <2>2, <3>1, <3>2
  <2> HIDE DEF D, U, G, next
  <2> QED BY <2>1, <2>2 DEF Unfolds
<1>12. u \in D[1..n]
  <2> HIDE DEF D, U, G, next
  <2>1. it[1..n] \in D[1..n]
    BY <1>9, <1>11, FoldEnds
  <2>2. u = it[1..n]
    BY <1>10
  <2> QED BY <2>1, <2>2
<1>13. \A m \in present(loaded) : HasAll(Last(u), loaded[m].id)
  <2>1. \A i \in 1..n : HasAll(Last(u), id(i))
    BY <1>12
  <2> QED BY <1>2, <2>1
<1>14. Trail(Nick, A, gap, d, u) /\ Loads(x, Last(u))
  BY <1>12
<1> QED BY <1>3, <1>13, <1>14 DEF SameIds, Loads, SameJids

-----------------------------------------------------------------------------
(* The seats after a handler.                                              *)

Fits(d, all) ==
  /\ all \in [Nick -> Seat \union {Nobody}]
  /\ \A n \in Nick : all[n] # Nobody => SeatOK(d, n, all[n]) /\ all[n].since <= now

LEMMA FitsNow ==
  ASSUME Inv
  PROVE  Fits(db, seats) /\ Timely
<1>1. Fits(db, seats)
  BY DEF Inv, TypeOK, Seating, Seated, Fits
<1> QED BY <1>1 DEF Inv, TypeOK, Fits, Timely

(* Whoever is spared, and whoever comes with its rows, fits.               *)
LEMMA FitsAlso ==
  ASSUME NEW M \in SUBSET Nick, NEW d, NEW e, Step(M, d, e), NEW all, Fits(d, all),
         NEW after \in [Nick -> Seat \union {Nobody}],
         \A n \in Nick : \/ after[n] = Nobody
                         \/ n \in M /\ after[n] = all[n]
                         \/ SeatOK(e, n, after[n]) /\ after[n].since <= now
  PROVE  Fits(e, after)
<1> SUFFICES ASSUME NEW n \in Nick, after[n] # Nobody
             PROVE  SeatOK(e, n, after[n]) /\ after[n].since <= now
  BY DEF Fits
<1>1. CASE n \in M /\ after[n] = all[n]
  <2>1. after[n] \in Seat /\ SeatOK(d, n, after[n]) /\ after[n].since <= now
    BY <1>1 DEF Fits
  <2> QED BY <1>1, <2>1 DEF Step, Spares
<1>2. CASE SeatOK(e, n, after[n]) /\ after[n].since <= now
  BY <1>2
<1> QED BY <1>1, <1>2

(* Whoever sits there after a handler waits since now, or as before and    *)
(* its time was not added; A are those whose time was.                     *)
Paid(A, after) ==
  \A n \in Nick :
    \/ after[n] = Nobody
    \/ after[n].since = now
    \/ /\ n \notin A /\ seats[n] # Nobody
       /\ after[n].id = seats[n].id /\ after[n].since = seats[n].since

LEMMA PaidOnce ==
  ASSUME Timely, NEW A, NEW after, Paid(A, after), NEW id
  PROVE  /\ Waited(now, after, id) \in Int
         /\ Waited(now, after, id) + Spent(A, id) <= Waited(now, seats, id)
<1>1. PICK g : g = [n \in Nick |-> waits(now, after, n, id)]
  OBVIOUS
<1>2. PICK h : h = [n \in Nick |-> IF n \in A THEN waits(now, seats, n, id) ELSE 0]
  OBVIOUS
<1>3. PICK w : w = [n \in Nick |-> waits(now, seats, n, id)]
  OBVIOUS
<1>4. now \in Nat
  BY StatsAssumption DEF Timely, Clock
<1>5. ASSUME NEW n \in Nick
      PROVE  g[n] \in Int /\ h[n] \in Int /\ w[n] \in Int /\ g[n] + h[n] <= w[n]
  <2>1. w[n] \in Nat /\ h[n] \in Nat /\ h[n] <= w[n] /\ (n \notin A => h[n] = 0)
    <3>1. waits(now, seats, n, id) \in Nat
      BY WaitsNat
    <3> QED BY <1>2, <1>3, <3>1
  <2>2. CASE after[n] = Nobody
    BY <1>1, <2>1, <2>2 DEF waits
  <2>3. CASE after[n].since = now
    BY <1>1, <1>4, <2>1, <2>3 DEF waits
  <2>4. CASE /\ n \notin A /\ seats[n] # Nobody
             /\ after[n].id = seats[n].id /\ after[n].since = seats[n].since
    <3>1. g[n] = 0 \/ g[n] = w[n]
      BY <1>1, <1>3, <2>4 DEF waits
    <3> QED BY <2>1, <2>4, <3>1
  <2> QED BY <2>2, <2>3, <2>4 DEF Paid
<1>6. PICK k : k = [n \in Nick |-> g[n] + h[n]]
  OBVIOUS
<1>7. /\ g \in [Nick -> Int] /\ h \in [Nick -> Int] /\ k \in [Nick -> Int]
      /\ w \in [Nick -> Int] /\ IsFiniteSet(Nick)
  <2>1. \A n \in Nick : g[n] \in Int /\ h[n] \in Int /\ w[n] \in Int /\ g[n] + h[n] \in Int
    BY <1>5
  <2> QED BY <1>1, <1>2, <1>3, <1>6, <2>1, NamesAssumption
<1>8. SumOf(k) = SumOf(g) + SumOf(h)
  BY <1>6, <1>7, SumPlus
<1>9. SumOf(k) <= SumOf(w)
  BY <1>5, <1>6, <1>7, SumMonotone
<1>10. SumOf(g) \in Int
  BY <1>7, SumInt
<1> QED BY <1>1, <1>2, <1>3, <1>8, <1>9, <1>10 DEF Waited, Spent

(* A JID that is not there yet has no time and nobody who waits for any.   *)
LEMMA NewHasNoTime ==
  ASSUME Inv, NEW id, id \notin 1..db.lastId
  PROVE  timeOf(db, id) = 0 /\ Waited(now, seats, id) = 0
<1>1. Sound(db) /\ Fits(db, seats) /\ Timely
  BY FitsNow DEF Inv
<1>2. timeOf(db, id) = 0
  BY <1>1 DEF timeOf, Sound, ForeignKeys
<1>3. ASSUME NEW n \in Nick, seats[n] # Nobody PROVE seats[n].id # id
  <2>1. PICK s \in Seat : s = seats[n] /\ SeatOK(db, n, s)
    BY <1>1, <1>3 DEF Fits
  <2>2. db.lastId \in Nat /\ s.id \in Nat /\ s.id >= 1
    BY <1>1, Fields, StatsAssumption DEF Sound, Seat
  <2>3. CASE Kept(db, n, s)
    <3>1. s.id \in DOMAIN db.stats
      BY <2>3 DEF Kept, Recorded
    <3> QED BY <1>1, <2>1, <3>1 DEF Sound, ForeignKeys
  <2>4. CASE Lost(db, s)
    BY <2>1, <2>2, <2>4 DEF Lost
  <2> QED BY <2>1, <2>3, <2>4 DEF SeatOK
<1>4. PICK g : g = [n \in Nick |-> waits(now, seats, n, id)]
  OBVIOUS
<1>5. g \in [Nick -> Int] /\ \A n \in Nick : g[n] = 0
  BY <1>3, <1>4 DEF waits
<1>6. SumOf(g) = 0
  BY <1>5, NamesAssumption, SumZero
<1> QED BY <1>2, <1>4, <1>6 DEF Waited

LEMMA EarnsStill ==
  ASSUME Inv, NEW M, NEW A, NEW gap, Near(M, A, gap, db, db'), NEW after, Paid(A, after)
  PROVE  Earns(now, credit, db', after)
<1> SUFFICES ASSUME NEW id \in DOMAIN db'.jids, db'.jids[id].jid \in Person
             PROVE  timeOf(db', id) + Waited(now, after, id) <= credit[db'.jids[id].jid]
  BY DEF Earns
<1>1. Sound(db) /\ Timely /\ Sound(db') /\ SameNames(db, db') /\ Spends(A, db, db')
  BY FitsNow DEF Inv, Near, Step
<1>2. PICK t, W, S \in Nat, e \in Nat, V \in Int, c \in Nat :
        /\ t = timeOf(db, id) /\ e = timeOf(db', id) /\ c = credit[db'.jids[id].jid]
        /\ W = Waited(now, seats, id) /\ S = Spent(A, id) /\ V = Waited(now, after, id)
        /\ t \in Nat /\ W \in Nat
  <2>1. timeOf(db, id) \in Nat /\ timeOf(db', id) \in Nat
    BY <1>1, Counts
  <2>2. Waited(now, seats, id) \in Nat /\ Spent(A, id) \in Nat
    BY <1>1, WaitedNat, SpentNat
  <2>3. Waited(now, after, id) \in Int
    BY <1>1, PaidOnce
  <2>4. credit[db'.jids[id].jid] \in Nat
    BY DEF Inv, TypeOK
  <2> QED BY <2>1, <2>2, <2>3, <2>4
<1>3. V + S <= W
  BY <1>1, <1>2, PaidOnce
<1>4. e = 0 \/ e <= t + S
  BY <1>1, <1>2 DEF Spends
<1>5. t + W <= c
  <2>1. CASE id \in 1..db.lastId
    <3>1. id \in DOMAIN db.jids /\ db.jids[id].jid = db'.jids[id].jid
      BY <1>1, <2>1 DEF SameNames
    <3> QED BY <1>2, <3>1 DEF Inv, Earns
  <2>2. CASE id \notin 1..db.lastId
    <3>1. t = 0 /\ W = 0
      BY <1>2, <2>2, NewHasNoTime
    <3> QED BY <1>2, <3>1
  <2> QED BY <2>1, <2>2
<1>6. e + V <= c
  BY <1>2, <1>3, <1>4, <1>5
<1> QED BY <1>2, <1>6

(* What is sure of the tables and seats when a handler has ended, one way  *)
(* or the other.                                                           *)
Ended(after) ==
  /\ Sound(db') /\ KeepsKnown(db, db') /\ db'.lastId <= MaxIds
  /\ crashes' \in Nat
  /\ Fits(db', seats')
  /\ Earns(now, credit, db', seats')
  /\ \/ crashes' = crashes /\ seats' = after
     \/ crashes' = crashes + 1 /\ seats' = [n \in Nick |-> Nobody]

LEMMA Ends ==
  ASSUME Inv, NEW M \in SUBSET Nick, NEW A, NEW gap, NEW t, Trail(M, A, gap, db, t),
         Last(t).lastId <= MaxIds,
         NEW after, Fits(Last(t), after), Paid(A, after), handles(t, after)
  PROVE  /\ Ended(after) /\ Balanced(gap, db')
         /\ crashes' = crashes => db' = Last(t)
<1>1. Sound(db) /\ crashes \in Nat
  BY DEF Inv, TypeOK
<1>2. /\ Near(M, A, gap, db, db') /\ db'.lastId <= Last(t).lastId
      /\ \/ db' = Last(t) /\ seats' = after /\ crashes' = crashes
         \/ crashes' = crashes + 1 /\ seats' = [n \in Nick |-> Nobody]
  BY <1>1, Handles
<1>3. Sound(Last(t)) /\ Sound(db')
  BY <1>2, TrailEnds DEF Near, Step
<1>4. db'.lastId <= MaxIds
  <2>1. db'.lastId \in Nat /\ Last(t).lastId \in Nat /\ MaxIds \in Nat
    BY <1>3, Fields, StatsAssumption DEF Sound
  <2> QED BY <1>2, <2>1
<1>5. Fits(db', seats')
  BY <1>2 DEF Fits
<1>6. crashes' \in Nat
  BY <1>1, <1>2
<1>7. Earns(now, credit, db', seats')
  <2>1. Paid(A, seats')
    BY <1>2 DEF Paid
  <2> QED BY <1>2, <2>1, EarnsStill
<1>8. crashes' = crashes => db' = Last(t)
  BY <1>1, <1>2
<1> QED BY <1>1, <1>2, <1>3, <1>4, <1>5, <1>6, <1>7, <1>8 DEF Ended, Near, Step

(* The rest of a step around a handler.                                    *)
LEMMA Rest ==
  ASSUME Inv, NEW after, Ended(after), now' = now, credit' = credit, Balanced(cut', db'),
         room' \in [Nick -> Person \union {Nobody}], Honest(room', after),
         up' \in BOOLEAN, up' => crashes' = crashes,
         untold' \subseteq {n \in Nick : room'[n] # Nobody},
         ~up' /\ crashes' = crashes => after = [n \in Nick |-> Nobody],
         up' => \A n \in Nick \ untold' :
                  room'[n] # Nobody => after[n] # Nobody /\ ~after[n].validate
  PROVE  Inv'
<1>0. crashes \in Nat
  BY DEF Inv, TypeOK
<1>1. TypeOK'
  BY DEF Inv, TypeOK, Ended, Fits
<1>2. Seating'
  <2>1. \A n \in Seated' : SeatOK(db', n, seats'[n]) /\ seats'[n].since <= now'
    BY DEF Ended, Fits, Seated
  <2>2. ~up' => Seated' = {}
    BY DEF Ended, Seated
  <2>3. up' => \A n \in Nick \ untold' :
                 room'[n] # Nobody => n \in Seated' /\ ~seats'[n].validate
    BY <1>0 DEF Ended, Seated
  <2>4. Honest(room', seats')
    BY DEF Ended, Honest
  <2> QED BY <2>1, <2>2, <2>3, <2>4 DEF Seating
<1>3. Sound(db)' /\ Balanced(cut, db)'
  BY DEF Ended
<1>4. Earns(now, credit, db, seats)'
  <2>1. Earns(now', credit', db', seats')
    BY DEF Ended
  <2> QED BY <2>1
<1> QED BY <1>1, <1>2, <1>3, <1>4 DEF Inv

LEMMA SameSeat ==
  ASSUME NEW d, NEW n, NEW s, SeatOK(d, n, s),
         NEW r, r.id = s.id, r.jid = s.jid, r.temporary = s.temporary
  PROVE  SeatOK(d, n, r)
BY DEF SeatOK, Kept, Recorded, Lost

-----------------------------------------------------------------------------
(* onPresence().                                                           *)

LEMMA FoundNow ==
  ASSUME Inv
  PROVE  /\ Sound(db) /\ Last(Found) = db
         /\ \A M, A : Trail(M, A, cut, db, Found)
         /\ db.lastId <= MaxIds /\ now \in Clock
<1>1. Sound(db) /\ Balanced(cut, db) /\ Timely
  BY FitsNow DEF Inv
<1>2. \A M, A : Trail(M, A, cut, db, <<db>>) /\ Last(<<db>>) = db
  BY <1>1, TrailStarts
<1> QED BY <1>1, <1>2 DEF Inv, TypeOK, Found

(* After it the occupant has a seat, under the JID that is shown or one it *)
(* showed before, and the others have theirs.                              *)
SeatedNow(n, j, after) ==
  /\ after[n] # Nobody /\ ~after[n].validate
  /\ after[n].jid \in Person =>
       \/ after[n].jid = j
       \/ seats[n] # Nobody /\ ~seats[n].validate /\ after[n].jid = seats[n].jid
  /\ \A m \in Nick \ {n} : after[m] = seats[m]

LEMMA Sees ==
  ASSUME Inv, NEW n \in Nick, NEW j \in Person \union {Nobody}, sees(n, j)
  PROVE  \E after : Ended(after) /\ SeatedNow(n, j, after) /\ Balanced(cut, db')
<1>1. PICK s \in Seat \union {Nobody} : s = seats[n]
  BY DEF Inv, TypeOK
<1>2. PICK M \in SUBSET (Nick \ {n}) : M = Nick \ {n}
  OBVIOUS
<1>3. /\ Sound(db) /\ Last(Found) = db
      /\ \A A : Trail(M, A, cut, db, Found)
      /\ db.lastId <= MaxIds /\ now \in Clock /\ Fits(db, seats) /\ Timely
  BY FoundNow, FitsNow
<1>4. s # Nobody => s \in Seat /\ SeatOK(db, n, s) /\ s.since <= now
  BY <1>1, <1>3 DEF Fits
<1>5. now <= now
  BY <1>3, StatsAssumption DEF Clock
<1>6. ASSUME NEW A, \A m \in A : m = n,
             NEW t, Trail(M, A, cut, db, t), Last(t).lastId <= MaxIds,
             NEW seat \in Seat, SeatOK(Last(t), n, seat), seat.since <= now, ~seat.validate,
             seat.jid \in Person => \/ seat.jid = j
                                    \/ s # Nobody /\ ~s.validate /\ seat.jid = s.jid,
             \/ seat.since = now
             \/ n \notin A /\ s # Nobody /\ seat.id = s.id /\ seat.since = s.since,
             handles(t, [seats EXCEPT ![n] = seat])
      PROVE  \E after : Ended(after) /\ SeatedNow(n, j, after) /\ Balanced(cut, db')
  <2>1. PICK after : after = [seats EXCEPT ![n] = seat]
    OBVIOUS
  <2>2. /\ after \in [Nick -> Seat \union {Nobody}] /\ after[n] = seat
        /\ \A m \in Nick \ {n} : after[m] = seats[m]
    BY <2>1 DEF Inv, TypeOK
  <2>3. Step(M, db, Last(t))
    BY <1>6, TrailEnds
  <2>4. Fits(Last(t), after)
    BY <1>2, <1>3, <1>6, <2>2, <2>3, FitsAlso
  <2>5. Paid(A, after)
    <3> SUFFICES ASSUME NEW m \in Nick
                 PROVE  \/ after[m] = Nobody
                        \/ after[m].since = now
                        \/ /\ m \notin A /\ seats[m] # Nobody
                           /\ after[m].id = seats[m].id /\ after[m].since = seats[m].since
      BY DEF Paid
    <3>1. CASE m = n
      BY <1>1, <1>6, <2>2, <3>1
    <3>2. CASE m # n
      BY <1>6, <2>2, <3>2
    <3> QED BY <3>1, <3>2
  <2>6. Ended(after) /\ Balanced(cut, db')
    <3>1. handles(t, after)
      BY <1>6, <2>1
    <3>2. M \in SUBSET Nick
      BY <1>2
    <3> QED BY <1>6, <2>4, <2>5, <3>1, <3>2, Ends
  <2>7. SeatedNow(n, j, after)
    BY <1>1, <1>6, <2>2, NamesAssumption DEF SeatedNow
  <2> QED BY <2>6, <2>7
<1>7. CASE s = Nobody \/ (s.validate /\ s.jid # j)
  <2>1. PICK t : t = IF s = Nobody THEN Found ELSE removeNick(Found, n)
    OBVIOUS
  <2>2. PICK A : A = {n}
    OBVIOUS
  <2>3. Trail(M, A, cut, db, t)
    <3>1. CASE s = Nobody
      BY <1>3, <2>1, <3>1
    <3>2. CASE s # Nobody
      <4>1. t = removeNick(Found, n) /\ seats[n] # Nobody
        BY <1>1, <2>1, <3>2
      <4>2. PICK E : E = {}
        OBVIOUS
      <4>3. A = E \union {n} /\ n \notin E
        BY <2>2, <4>2
      <4>4. Trail(M, E, cut, db, Found)
        BY <1>3
      <4> QED BY <1>3, <4>1, <4>3, <4>4, RemovesNick
    <3> QED BY <3>1, <3>2
  <2>4. PICK fresh : fresh = newNick(t, n, j)
    OBVIOUS
  <2>5. Last(fresh.trail).lastId <= MaxIds /\ handles(fresh.trail, [seats EXCEPT ![n] = fresh.seat])
    BY <1>1, <1>7, <2>1, <2>4 DEF sees
  <2>6. /\ Trail(M, A, cut, db, fresh.trail) /\ Kept(Last(fresh.trail), n, fresh.seat)
        /\ fresh.seat.since = now /\ fresh.seat.validate = FALSE
        /\ fresh.seat.jid \in Person => fresh.seat.jid = j
        /\ fresh.seat \in Seat
    <3>1. M \in SUBSET Nick
      BY <1>2
    <3>2. PICK gap : gap = cut
      OBVIOUS
    <3>3. Sound(db) /\ now \in Clock /\ Trail(M, A, gap, db, t)
      BY <1>3, <2>3, <3>2
    <3>4. Trail(M, A, gap, db, fresh.trail) /\ IsNew(fresh, n, j)
      BY <2>4, <3>1, <3>3, NewNick
    <3> QED BY <2>5, <3>2, <3>4 DEF IsNew
  <2>7. \A m \in A : m = n
    BY <2>2
  <2> QED BY <1>5, <1>6, <2>5, <2>6, <2>7 DEF SeatOK
<1>8. CASE ~(s = Nobody \/ (s.validate /\ s.jid # j))
  <2>1. s \in Seat /\ SeatOK(db, n, s) /\ s.since <= now /\ s # Nobody
    BY <1>4, <1>8
  <2>2. PICK t : t = IF s.validate THEN Found ELSE setLastAction(Found, s)
    OBVIOUS
  <2>3. PICK A : A = IF s.validate THEN {} ELSE {n}
    OBVIOUS
  <2>4. Trail(M, A, cut, db, t) /\ SameIds(Found, t) /\ SeatOK(Last(t), n, s)
    <3>1. CASE s.validate
      BY <1>3, <2>1, <2>2, <3>1 DEF SameIds
    <3>2. CASE ~s.validate
      <4>1. t = updateOnlineTime(Found, seats[n]) /\ M \in SUBSET Nick /\ seats[n] # Nobody
        BY <1>1, <1>2, <2>1, <2>2, <3>2 DEF setLastAction
      <4>2. PICK E : E = {}
        OBVIOUS
      <4>3. A = E \union {n} /\ n \notin E
        BY <2>3, <3>2, <4>2
      <4>4. Trail(M, E, cut, db, Found)
        BY <1>3
      <4>5. Trail(M, A, cut, db, t) /\ SameIds(Found, t) /\ ByStats(Last(Found), Last(t))
        BY <1>3, <4>1, <4>3, <4>4, AddsTime
      <4>6. SeatOK(Last(t), n, s)
        BY <1>3, <2>1, <4>5 DEF ByStats, Step, Spares
      <4> QED BY <4>5, <4>6
    <3> QED BY <3>1, <3>2
  <2>5. PICK r : r = seenAgain(s, j)
    OBVIOUS
  <2>6. PICK u : u = setFullJid(t, s, j)
    OBVIOUS
  <2>7. Last(u).lastId <= MaxIds /\ handles(u, [seats EXCEPT ![n] = r])
    BY <1>1, <1>8, <2>2, <2>5, <2>6 DEF sees
  <2>8. /\ r \in Seat /\ r.id = s.id /\ r.temporary = s.temporary
        /\ r.jid = (IF becomesKnown(s, j) THEN j ELSE s.jid)
        /\ r.since = (IF s.validate THEN s.since ELSE now)
        /\ r.since <= now /\ ~r.validate
    <3>1. r = [id |-> s.id, jid |-> IF becomesKnown(s, j) THEN j ELSE s.jid,
               temporary |-> s.temporary, since |-> IF s.validate THEN s.since ELSE now,
               validate |-> FALSE]
      BY <2>1, <2>5 DEF seenAgain, Seat
    <3>2. becomesKnown(s, j) => j \in Name
      BY DEF becomesKnown, Name
    <3> QED BY <1>3, <1>5, <2>1, <3>1, <3>2 DEF Seat
  <2>9. Trail(M, A, cut, db, u) /\ SeatOK(Last(u), n, r)
    <3>1. CASE becomesKnown(s, j)
      <4>1. j \in Person
        BY <3>1 DEF becomesKnown
      <4>2. r.jid = j
        BY <2>8, <3>1
      <4>3. Trail(M, A, cut, db, u) /\ Lost(Last(u), r)
        BY <1>2, <1>3, <2>1, <2>4, <2>6, <2>8, <3>1, <4>1, <4>2, SetsFullJid
      <4> QED BY <4>3 DEF SeatOK
    <3>2. CASE ~becomesKnown(s, j)
      <4>1. u = t /\ r.jid = s.jid
        BY <2>6, <2>8, <3>2 DEF setFullJid
      <4> QED BY <2>4, <2>8, <4>1, SameSeat
    <3> QED BY <3>1, <3>2
  <2>10. r.jid \in Person => r.jid = j \/ (s # Nobody /\ ~s.validate /\ r.jid = s.jid)
    BY <1>8, <2>1, <2>8
  <2>11. \/ r.since = now
         \/ n \notin A /\ s # Nobody /\ r.id = s.id /\ r.since = s.since
    BY <2>1, <2>3, <2>8
  <2>12. \A m \in A : m = n
    BY <2>3
  <2> QED BY <1>6, <2>7, <2>8, <2>9, <2>10, <2>11, <2>12
<1> QED BY <1>7, <1>8

-----------------------------------------------------------------------------
(* A message: while it is counted in one place after the other, the counts *)
(* differ by one more than before, and when it is counted everywhere by    *)
(* no more.  The chat log is none of them.                                 *)

LEMMA SameTotals ==
  ASSUME NEW d, NEW e, e.times = d.times
  PROVE  \A id, i : Total(e, id, i) = Total(d, id, i)
<1> SUFFICES ASSUME NEW id, NEW i PROVE Total(e, id, i) = Total(d, id, i)
  OBVIOUS
<1>1. [c \in cellsOf(i) |-> valueOf(e, id, c)] = [c \in cellsOf(i) |-> valueOf(d, id, c)]
  BY SameTimesCount
<1> QED BY <1>1 DEF Total

(* Whatever differs by no more than c has room for one more.               *)
LEMMA WideGap ==
  ASSUME NEW d, Sound(d), NEW c, Balanced(c, d), NEW gap, gap = c + 1, NEW id
  PROVE  Wide(gap, d, id)
<1>1. c \in Nat /\ gap \in Nat
  BY DEF Balanced
<1>2. ASSUME NEW j, NEW i \in DOMAIN reportArray
      PROVE  differ(Total(d, j, i), messagesOf(d, j)) + 1 <= gap
  <2>1. PICK a, m \in Nat : a = Total(d, j, i) /\ m = messagesOf(d, j) /\ a \in Nat
    BY Counts, TotalInt
  <2>2. differ(a, m) <= c
    BY <2>1 DEF Balanced
  <2>3. differ(a, m) + 1 <= gap
    BY <1>1, <2>1, <2>2 DEF differ
  <2> QED BY <2>1, <2>3
<1>3. ASSUME NEW j, NEW i \in DOMAIN reportArray
      PROVE  differ(Total(d, j, i), messagesOf(d, j)) <= gap
  <2>1. PICK a, m \in Nat : a = Total(d, j, i) /\ m = messagesOf(d, j) /\ a \in Nat
    BY Counts, TotalInt
  <2>2. differ(a, m) <= c
    BY <2>1 DEF Balanced
  <2>3. differ(a, m) <= gap
    BY <1>1, <2>1, <2>2 DEF differ
  <2> QED BY <2>1, <2>3
<1>4. Balanced(gap, d)
  BY <1>1, <1>3 DEF Balanced
<1> QED BY <1>2, <1>4 DEF Wide

(* Every report and msg_count have it: nothing differs by more.            *)
LEMMA CountedAll ==
  ASSUME NEW d, Sound(d), NEW c, Balanced(c, d), NEW id, id \in DOMAIN d.stats, id \in DOMAIN d.times,
         NEW y, Sound(y), Counted(d, y, id, DOMAIN reportArray),
         NEW f, f = countMessage(y, id)
  PROVE  Balanced(c, f)
<1>1. /\ y.stats = d.stats /\ id \in DOMAIN y.stats
      /\ \A i, k : i # id => valueOf(y, i, k) = valueOf(d, i, k)
      /\ \A k \in DOMAIN reportArray : Total(y, id, k) = Total(d, id, k) + 1
  BY DEF Counted
<1>2. /\ f.times = y.times
      /\ messagesOf(f, id) = messagesOf(y, id) + 1
      /\ \A i : i # id => messagesOf(f, i) = messagesOf(y, i)
  BY <1>1, CountMessage DEF ByStats
<1>3. \A i : messagesOf(y, i) = messagesOf(d, i)
  BY <1>1, SameStatsCount
<1>4. \A i, k : Total(f, i, k) = Total(y, i, k)
  BY <1>2, SameTotals
<1>5. ASSUME NEW a \in Nat, NEW m \in Nat PROVE differ(a + 1, m + 1) = differ(a, m)
  BY DEF differ
<1>6. messagesOf(d, id) \in Nat
  BY Counts
<1>7. ASSUME NEW k \in DOMAIN reportArray PROVE differ(Total(f, id, k), messagesOf(f, id)) <= c
  <2>1. Total(d, id, k) \in Nat
    BY TotalInt
  <2>2. differ(Total(d, id, k) + 1, messagesOf(d, id) + 1) <= c
    BY <1>5, <1>6, <2>1 DEF Balanced
  <2> QED BY <1>1, <1>2, <1>3, <1>4, <2>2
<1>8. ASSUME NEW i, i # id, NEW k \in DOMAIN reportArray
      PROVE  differ(Total(f, i, k), messagesOf(f, i)) <= c
  <2>1. messagesOf(f, i) = messagesOf(d, i)
    BY <1>2, <1>3, <1>8
  <2>2. [x \in cellsOf(k) |-> valueOf(y, i, x)] = [x \in cellsOf(k) |-> valueOf(d, i, x)]
    BY <1>1, <1>8
  <2>3. Total(y, i, k) = Total(d, i, k)
    BY <2>2 DEF Total
  <2> QED BY <1>4, <2>1, <2>3 DEF Balanced
<1> QED BY <1>7, <1>8 DEF Balanced

(* logMessageStanza(), if it comes to that.                                *)
LEMMA LogTrail ==
  ASSUME Inv, NEW n \in Nick, NEW id, NEW gap, gap = cut + 1, NEW E, E = {}, NEW e, NEW t,
         \/ e = db /\ t = Found
         \/ e = log(db, n, id) /\ Grows(t, Found, e)
  PROVE  /\ Trail(Nick, E, gap, db, t) /\ Last(t) = e
         /\ ByNicks(Nick, db, e) /\ Balanced(cut, e) /\ Wide(gap, e, id)
<1>1. /\ Sound(db) /\ Balanced(cut, db) /\ Timely /\ now \in Clock
      /\ Fits(db, seats) /\ Last(Found) = db
  BY FitsNow, FoundNow DEF Inv
<1>2. Trail(Nick, E, gap, db, Found)
  <2>1. Balanced(gap, db)
    BY <1>1, WideGap DEF Wide
  <2> QED BY <1>1, <2>1, TrailStarts DEF Found
<1>3. ByNicks(Nick, db, e) /\ Calm(db, e)
  BY <1>1, SameByAll, StayCalm, Log
<1>4. Balanced(cut, e)
  BY <1>1, <1>3, EvenBalanced DEF Calm
<1>5. Wide(gap, e, id)
  <2>1. Sound(e)
    BY <1>3 DEF ByNicks, Step
  <2> QED BY <1>4, <2>1, WideGap
<1>6. Trail(Nick, E, gap, db, t) /\ Last(t) = e
  <2>1. CASE e = db /\ t = Found
    BY <1>1, <1>2, <2>1
  <2>2. CASE e = log(db, n, id) /\ Grows(t, Found, e)
    <3>1. Step(Nick, Last(Found), e) /\ Balanced(gap, e)
      BY <1>1, <1>3, <1>5 DEF ByNicks, Wide
    <3>2. Spends(E, db, e)
      <4>1. Spends(E, db, db)
        BY <1>1, <1>2, TrailEnds
      <4> QED BY <1>3, <4>1, SpendsStill DEF Calm
    <3> QED BY <1>1, <1>2, <2>2, <3>1, <3>2, TrailGrows
  <2> QED BY <2>1, <2>2
<1> QED BY <1>3, <1>4, <1>5, <1>6

(* statMessage() after it.                                                 *)
LEMMA SaysTrail ==
  ASSUME Inv, NEW n \in Nick, seats[n] # Nobody, NEW id, id = seats[n].id,
         NEW gap, gap = cut + 1, NEW E, E = {}, NEW e, NEW t,
         \/ e = db /\ t = Found
         \/ e = log(db, n, id) /\ Grows(t, Found, e),
         NEW u, u = logMessage(t, id), NEW f, f = countMessage(Last(u), id),
         NEW v, Grows(v, u, f)
  PROVE  /\ Trail(Nick, E, gap, db, v) /\ Balanced(cut, Last(v))
         /\ Last(v).lastId = db.lastId
<1>1. /\ Sound(db) /\ Timely /\ now \in Clock /\ Fits(db, seats)
  BY FitsNow, FoundNow
<1>2. Kept(db, n, seats[n]) \/ Lost(db, seats[n])
  BY <1>1 DEF Fits, SeatOK
<1>3. /\ Trail(Nick, E, gap, db, t) /\ Last(t) = e
      /\ ByNicks(Nick, db, e) /\ Balanced(cut, e) /\ Wide(gap, e, id)
  BY LogTrail
<1>4. Sound(e)
  BY <1>3 DEF ByNicks, Step
<1>5. PICK y : y = Last(u)
  OBVIOUS
<1>6. /\ Trail(Nick, E, gap, db, u) /\ Counted(e, y, id, DOMAIN reportArray)
      /\ Sound(y) /\ Spends(E, db, y)
  <2>1. id \in DOMAIN e.times => full(e, id)
    <3>1. CASE Kept(db, n, seats[n])
      BY <1>3, <3>1 DEF Kept, Recorded, ByNicks, full
    <3>2. CASE Lost(db, seats[n])
      BY <1>1, <1>3, <3>2 DEF Lost, Sound, ForeignKeys, ByNicks
    <3> QED BY <1>2, <3>1, <3>2
  <2>2. /\ Trail(Nick, E, gap, db, u)
        /\ Counted(Last(t), Last(u), id, DOMAIN reportArray)
    BY <1>1, <1>3, <2>1, LogsMessage
  <2> QED BY <1>3, <1>5, <2>2, TrailEnds
<1>7. ByStats(y, f) /\ Idle(y, f)
  <2>1. /\ ByStats(y, f)
        /\ f = y \/ \A i : timeOf(f, i) = timeOf(y, i)
    BY <1>5, <1>6, CountMessage
  <2> QED BY <2>1 DEF Idle
<1>8. Balanced(cut, f)
  <2>1. CASE Kept(db, n, seats[n])
    <3>1. id \in DOMAIN db.stats /\ id \in DOMAIN db.times
      BY <2>1 DEF Kept, Recorded, full
    <3>2. id \in DOMAIN e.stats /\ id \in DOMAIN e.times /\ f = countMessage(y, id)
      BY <1>3, <1>5, <3>1 DEF ByNicks
    <3> QED BY <1>3, <1>4, <1>6, <3>2, CountedAll
  <2>2. CASE Lost(db, seats[n])
    <3>1. id \notin DOMAIN e.times /\ id \notin DOMAIN e.stats
      BY <1>1, <1>3, <2>2 DEF Lost, Sound, ForeignKeys, ByNicks
    <3>2. y = e
      BY <1>6, <3>1 DEF Counted
    <3>3. f = e
      BY <1>4, <1>5, <3>1, <3>2, CountMessage
    <3> QED BY <1>3, <3>3
  <2> QED BY <1>2, <2>1, <2>2
<1>9. Trail(Nick, E, gap, db, v) /\ Last(v) = f
  <2>1. Step(Nick, Last(u), f) /\ Sound(f)
    BY <1>5, <1>7 DEF ByStats, Step
  <2>2. Balanced(gap, f)
    BY <1>8, <2>1, WideGap DEF Wide
  <2>3. Spends(E, db, f)
    BY <1>6, <1>7, SpendsStill
  <2> QED BY <1>1, <1>6, <2>1, <2>2, <2>3, TrailGrows
<1>10. f.lastId = db.lastId
  BY <1>3, <1>6, <1>7 DEF ByNicks, Counted, ByStats, SameJids
<1> QED BY <1>8, <1>9, <1>10

-----------------------------------------------------------------------------
(* The actions.                                                            *)

LEMMA KeepsAll ==
  ASSUME Sound(db)
  PROVE  KeepsKnown(db, db)
BY StayStep DEF Step

(* Nothing happens to the tables and the seats.                            *)
LEMMA Unseen ==
  ASSUME Inv, UNCHANGED <<db, seats, crashes>>
  PROVE  Ended(seats) /\ KeepsKnown(db, db') /\ Balanced(cut, db')
BY FitsNow, KeepsAll DEF Inv, TypeOK, Ended

LEMMA UpAfter ==
  ASSUME Inv, survives
  PROVE  /\ up' \in BOOLEAN /\ (up' => up /\ crashes' = crashes)
         /\ (up /\ crashes' = crashes => up')
BY DEF Inv, TypeOK, survives

LEMMA EntersRight ==
  ASSUME Inv, NEW n \in Nick, NEW p \in Person, enters(n, p)
  PROVE  Inv' /\ KeepsKnown(db, db')
<1>1. /\ untold = {} /\ untold' = {} /\ now' = now /\ credit' = credit /\ cut' = cut
      /\ room' \in [Nick -> Person \union {Nobody}]
      /\ room[n] = Nobody /\ room'[n] = p
      /\ \A m \in Nick \ {n} : room'[m] = room[m]
      /\ Honest(room, seats)
  BY DEF Inv, TypeOK, Seating, enters, bystanders
<1>2. /\ up' \in BOOLEAN /\ (up' => up /\ crashes' = crashes)
      /\ (up /\ crashes' = crashes => up')
  BY UpAfter DEF enters
<1>3. CASE up
  <2>1. PICK j \in item(p) : sees(n, j)
    BY <1>3 DEF enters
  <2>2. j \in Person \union {Nobody}
    BY DEF item
  <2>3. PICK after : Ended(after) /\ SeatedNow(n, j, after) /\ Balanced(cut, db')
    BY <2>1, <2>2, Sees
  <2>4. \A m \in Nick \ {n} : room[m] # Nobody => seats[m] # Nobody /\ ~seats[m].validate
    BY <1>1, <1>3 DEF Inv, Seating, Seated
  <2>5. \A m \in Nick \ untold' : room'[m] # Nobody => after[m] # Nobody /\ ~after[m].validate
    BY <1>1, <2>3, <2>4 DEF SeatedNow
  <2>6. Honest(room', after)
    <3>1. after[n].jid \in Person => after[n].jid = p
      <4>1. j = p \/ j = Nobody
        BY <2>1 DEF item
      <4>2. Nobody \notin Person
        BY StatsAssumption
      <4>3. seats[n] # Nobody /\ ~seats[n].validate => seats[n].jid \notin Person
        BY <1>1, <4>2 DEF Honest
      <4> QED BY <2>3, <4>1, <4>2, <4>3 DEF SeatedNow
    <3>2. \A m \in Nick \ {n} : after[m] = seats[m]
      BY <2>3 DEF SeatedNow
    <3> QED BY <1>1, <3>1, <3>2 DEF Honest
  <2>7. Balanced(cut', db')
    BY <1>1, <2>3
  <2>8. Inv'
    BY <1>1, <1>2, <1>3, <2>3, <2>5, <2>6, <2>7, Rest
  <2> QED BY <2>3, <2>8 DEF Ended
<1>4. CASE ~up
  <2>1. UNCHANGED <<db, seats, crashes>>
    BY <1>4 DEF enters
  <2>2. Ended(seats) /\ KeepsKnown(db, db') /\ Balanced(cut, db')
    BY <2>1, Unseen
  <2>3. seats = [m \in Nick |-> Nobody]
    BY <1>4 DEF Inv, TypeOK, Seating, Seated
  <2>4. Honest(room', seats) /\ Balanced(cut', db')
    BY <1>1, <2>2, <2>3 DEF Honest
  <2>5. Inv'
    BY <1>1, <1>2, <1>4, <2>2, <2>3, <2>4, Rest
  <2> QED BY <2>2, <2>5
<1> QED BY <1>3, <1>4

LEMMA ToldRight ==
  ASSUME Inv, NEW n \in Nick, told(n)
  PROVE  Inv' /\ KeepsKnown(db, db')
<1>1. /\ up /\ now' = now /\ room' = room /\ credit' = credit /\ cut' = cut
      /\ room \in [Nick -> Person \union {Nobody}]
      /\ untold \subseteq {m \in Nick : room[m] # Nobody}
      /\ untold' = IF up' THEN untold \ {n} ELSE {}
      /\ Honest(room, seats)
  BY DEF Inv, TypeOK, Seating, told, bystanders
<1>2. /\ up' \in BOOLEAN /\ (up' => up /\ crashes' = crashes)
      /\ (up /\ crashes' = crashes => up')
  BY UpAfter DEF told
<1>3. PICK j \in item(room[n]) : sees(n, j)
  BY DEF told
<1>4. j \in Person \union {Nobody}
  BY <1>1 DEF item
<1>5. PICK after : Ended(after) /\ SeatedNow(n, j, after) /\ Balanced(cut, db')
  BY <1>3, <1>4, Sees
<1>6. \A m \in Nick \ untold : room[m] # Nobody => seats[m] # Nobody /\ ~seats[m].validate
  BY <1>1 DEF Inv, Seating, Seated
<1>7. up' => \A m \in Nick \ untold' :
               room'[m] # Nobody => after[m] # Nobody /\ ~after[m].validate
  BY <1>1, <1>5, <1>6 DEF SeatedNow
<1>8. untold' \subseteq {m \in Nick : room'[m] # Nobody}
  BY <1>1
<1>9. Honest(room', after)
  <2>1. after[n].jid \in Person => after[n].jid = room[n]
    <3>1. j = room[n] \/ j = Nobody
      BY <1>3 DEF item
    <3>2. Nobody \notin Person
      BY StatsAssumption
    <3>3. seats[n] # Nobody /\ ~seats[n].validate /\ seats[n].jid \in Person => seats[n].jid = room[n]
      BY <1>1 DEF Honest
    <3> QED BY <1>5, <3>1, <3>2, <3>3 DEF SeatedNow
  <2>2. \A m \in Nick \ {n} : after[m] = seats[m]
    BY <1>5 DEF SeatedNow
  <2> QED BY <1>1, <2>1, <2>2 DEF Honest
<1>10. Balanced(cut', db')
  BY <1>1, <1>5
<1>11. Inv'
  BY <1>1, <1>2, <1>5, <1>7, <1>8, <1>9, <1>10, Rest
<1> QED BY <1>5, <1>11 DEF Ended

LEMMA ShowsRight ==
  ASSUME Inv, NEW n \in Nick, shows(n)
  PROVE  Inv' /\ KeepsKnown(db, db')
<1>1. /\ up /\ now' = now /\ room' = room /\ credit' = credit /\ cut' = cut
      /\ room \in [Nick -> Person \union {Nobody}]
      /\ untold = {} /\ untold' = {}
      /\ Honest(room, seats)
  BY DEF Inv, TypeOK, Seating, shows, bystanders
<1>2. /\ up' \in BOOLEAN /\ (up' => up /\ crashes' = crashes)
      /\ (up /\ crashes' = crashes => up')
  BY UpAfter DEF shows
<1>3. PICK j \in item(room[n]) : sees(n, j)
  BY DEF shows
<1>4. j \in Person \union {Nobody}
  BY <1>1 DEF item
<1>5. PICK after : Ended(after) /\ SeatedNow(n, j, after) /\ Balanced(cut, db')
  BY <1>3, <1>4, Sees
<1>6. \A m \in Nick : room[m] # Nobody => seats[m] # Nobody /\ ~seats[m].validate
  BY <1>1 DEF Inv, Seating, Seated
<1>7. \A m \in Nick \ untold' : room'[m] # Nobody => after[m] # Nobody /\ ~after[m].validate
  BY <1>1, <1>5, <1>6 DEF SeatedNow
<1>8. Honest(room', after)
  <2>1. after[n].jid \in Person => after[n].jid = room[n]
    <3>1. j = room[n] \/ j = Nobody
      BY <1>3 DEF item
    <3>2. Nobody \notin Person
      BY StatsAssumption
    <3>3. seats[n] # Nobody /\ ~seats[n].validate /\ seats[n].jid \in Person => seats[n].jid = room[n]
      BY <1>1 DEF Honest
    <3> QED BY <1>5, <3>1, <3>2, <3>3 DEF SeatedNow
  <2>2. \A m \in Nick \ {n} : after[m] = seats[m]
    BY <1>5 DEF SeatedNow
  <2> QED BY <1>1, <2>1, <2>2 DEF Honest
<1>9. Balanced(cut', db')
  BY <1>1, <1>5
<1>10. Inv'
  BY <1>1, <1>2, <1>5, <1>7, <1>8, <1>9, Rest
<1> QED BY <1>5, <1>10 DEF Ended

LEMMA LeavesRight ==
  ASSUME Inv, NEW n \in Nick, leaves(n)
  PROVE  Inv' /\ KeepsKnown(db, db')
<1>1. /\ untold = {} /\ untold' = {} /\ now' = now /\ room[n] # Nobody
      /\ credit' = credit /\ cut' = cut
      /\ room' \in [Nick -> Person \union {Nobody}] /\ room'[n] = Nobody
      /\ \A m \in Nick \ {n} : room'[m] = room[m]
      /\ Honest(room, seats)
  BY DEF Inv, TypeOK, Seating, leaves, bystanders
<1>2. /\ up' \in BOOLEAN /\ (up' => up /\ crashes' = crashes)
      /\ (up /\ crashes' = crashes => up')
  BY UpAfter DEF leaves
<1>3. CASE up
  <2>1. \A m \in Nick : room[m] # Nobody => seats[m] # Nobody /\ ~seats[m].validate
    BY <1>1, <1>3 DEF Inv, Seating, Seated
  <2>2. Fits(db, seats) /\ seats[n] # Nobody /\ Timely
    BY <1>1, <2>1, FitsNow
  <2>3. PICK s \in Seat : s = seats[n]
    BY <2>2 DEF Fits
  <2>4. PICK M \in SUBSET (Nick \ {n}) : M = Nick \ {n}
    OBVIOUS
  <2>5. PICK A, E : E = {} /\ A = E \union {n}
    OBVIOUS
  <2>6. /\ Sound(db) /\ Trail(M, E, cut, db, Found) /\ Last(Found) = db
        /\ db.lastId <= MaxIds
    BY FoundNow
  <2>7. PICK t : t = updateOnlineTime(Found, s)
    OBVIOUS
  <2>8. Trail(M, A, cut, db, t) /\ SameIds(Found, t)
    <3>1. M \in SUBSET Nick /\ n \notin E /\ t = updateOnlineTime(Found, seats[n])
      BY <2>3, <2>4, <2>5, <2>7
    <3> QED BY <2>2, <2>5, <2>6, <3>1, AddsTime
  <2>9. PICK u : u = Append(t, setOffline(Last(t), n, s.id))
    OBVIOUS
  <2>10. Trail(M, A, cut, db, u) /\ SameIds(t, u)
    <3>1. Grows(u, t, setOffline(Last(t), n, s.id))
      BY <2>9 DEF Grows
    <3> QED BY <2>6, <2>8, <3>1, GoesOffline
  <2>11. PICK after : after = [seats EXCEPT ![n] = Nobody]
    OBVIOUS
  <2>12. handles(u, after)
    BY <1>3, <2>3, <2>7, <2>9, <2>11 DEF leaves, setLastAction, then
  <2>13. /\ after \in [Nick -> Seat \union {Nobody}] /\ after[n] = Nobody
         /\ \A m \in Nick \ {n} : after[m] = seats[m]
    BY <2>11 DEF Inv, TypeOK
  <2>14. Fits(Last(u), after)
    <3>1. Step(M, db, Last(u))
      BY <2>10, TrailEnds
    <3> QED BY <2>2, <2>4, <2>13, <3>1, FitsAlso
  <2>15. Last(u).lastId <= MaxIds
    BY <2>6, <2>8, <2>10 DEF SameIds
  <2>16. Paid(A, after)
    BY <2>5, <2>13 DEF Paid
  <2>17. Ended(after) /\ Balanced(cut, db')
    <3>1. M \in SUBSET Nick
      OBVIOUS
    <3> QED BY <2>10, <2>12, <2>14, <2>15, <2>16, <3>1, Ends
  <2>18. \A m \in Nick \ untold' : room'[m] # Nobody => after[m] # Nobody /\ ~after[m].validate
    BY <1>1, <2>1, <2>13
  <2>19. Honest(room', after) /\ Balanced(cut', db')
    BY <1>1, <2>13, <2>17 DEF Honest
  <2>20. Inv'
    BY <1>1, <1>2, <1>3, <2>17, <2>18, <2>19, Rest
  <2> QED BY <2>17, <2>20 DEF Ended
<1>4. CASE ~up
  <2>1. UNCHANGED <<db, seats, crashes>>
    BY <1>4 DEF leaves
  <2>2. Ended(seats) /\ KeepsKnown(db, db') /\ Balanced(cut, db')
    BY <2>1, Unseen
  <2>3. seats = [m \in Nick |-> Nobody]
    BY <1>4 DEF Inv, TypeOK, Seating, Seated
  <2>4. Honest(room', seats) /\ Balanced(cut', db')
    BY <1>1, <2>2, <2>3 DEF Honest
  <2>5. Inv'
    BY <1>1, <1>2, <1>4, <2>2, <2>3, <2>4, Rest
  <2> QED BY <2>2, <2>5
<1> QED BY <1>3, <1>4

LEMMA SaysRight ==
  ASSUME Inv, NEW n \in Nick, says(n)
  PROVE  Inv' /\ KeepsKnown(db, db')
<1>1. /\ up /\ now' = now /\ room' = room /\ room[n] # Nobody /\ credit' = credit
      /\ cut' = cut + (crashes' - crashes)
      /\ room \in [Nick -> Person \union {Nobody}]
      /\ untold = {} /\ untold' = {}
      /\ Honest(room, seats)
  BY DEF Inv, TypeOK, Seating, says
<1>2. /\ up' \in BOOLEAN /\ (up' => up /\ crashes' = crashes)
      /\ (up /\ crashes' = crashes => up')
  BY UpAfter DEF says
<1>3. \A m \in Nick : room[m] # Nobody => seats[m] # Nobody /\ ~seats[m].validate
  BY <1>1 DEF Inv, Seating, Seated
<1>4. db.lastId <= MaxIds /\ Fits(db, seats)
  BY FoundNow, FitsNow
<1>5. PICK id : id = seats[n].id
  OBVIOUS
<1>6. PICK gap, E : gap = cut + 1 /\ E = {}
  OBVIOUS
<1>7. PICK isLogged \in BOOLEAN, isCounted \in BOOLEAN :
        LET logged == IF isLogged THEN Append(Found, log(Last(Found), n, seats[n].id)) ELSE Found
            u == logMessage(logged, seats[n].id)
            counted == Append(u, countMessage(Last(u), seats[n].id))
        IN  handles(IF isCounted THEN counted ELSE logged, seats)
  BY DEF says, then
<1>8. PICK e, t : /\ \/ e = db /\ t = Found
                     \/ e = log(db, n, id) /\ Grows(t, Found, e)
                  /\ t = IF isLogged THEN Append(Found, log(Last(Found), n, id)) ELSE Found
  <2>1. Last(Found) = db
    BY FoundNow
  <2>2. CASE isLogged
    <3>1. Grows(Append(Found, log(db, n, id)), Found, log(db, n, id))
      BY DEF Grows
    <3> QED BY <2>1, <2>2, <3>1
  <2>3. CASE ~isLogged
    BY <2>3
  <2> QED BY <2>2, <2>3
<1>8a. \/ e = db /\ t = Found
       \/ e = log(db, n, id) /\ Grows(t, Found, e)
  BY <1>8
<1>9. PICK u : u = logMessage(t, id)
  OBVIOUS
<1>10. PICK f : f = countMessage(Last(u), id)
  OBVIOUS
<1>11. PICK w : Grows(w, u, f)
  BY DEF Grows
<1>12. PICK v : v = IF isCounted THEN w ELSE t
  OBVIOUS
<1>13. handles(v, seats)
  <2>1. w = Append(u, countMessage(Last(u), id))
    BY <1>10, <1>11 DEF Grows
  <2> QED BY <1>5, <1>7, <1>8, <1>9, <1>12, <2>1
<1>14. /\ Trail(Nick, E, gap, db, v) /\ Balanced(cut, Last(v))
       /\ Last(v).lastId = db.lastId
  <2>1. CASE isCounted
    <3>1. seats[n] # Nobody
      BY <1>1, <1>3
    <3>2. /\ Trail(Nick, E, gap, db, w) /\ Balanced(cut, Last(w))
          /\ Last(w).lastId = db.lastId
      <4>1. CASE e = db /\ t = Found
        BY <1>5, <1>6, <1>9, <1>10, <1>11, <3>1, <4>1, SaysTrail
      <4>2. CASE e = log(db, n, id) /\ Grows(t, Found, e)
        BY <1>5, <1>6, <1>9, <1>10, <1>11, <3>1, <4>2, SaysTrail
      <4> QED BY <1>8a, <4>1, <4>2
    <3> QED BY <1>12, <2>1, <3>2
  <2>2. CASE ~isCounted
    <3>1. /\ Trail(Nick, E, gap, db, t) /\ Last(t) = e
          /\ ByNicks(Nick, db, e) /\ Balanced(cut, e)
      BY <1>6, <1>8a, LogTrail
    <3>2. v = t
      BY <1>12, <2>2
    <3> QED BY <3>1, <3>2 DEF ByNicks, SameJids
  <2> QED BY <2>1, <2>2
<1>15. Fits(Last(v), seats)
  <2>1. Step(Nick, db, Last(v)) /\ Nick \in SUBSET Nick
    BY <1>14, TrailEnds
  <2>2. seats \in [Nick -> Seat \union {Nobody}]
    BY DEF Inv, TypeOK
  <2> QED BY <1>4, <2>1, <2>2, FitsAlso
<1>16. Ended(seats) /\ Balanced(gap, db') /\ (crashes' = crashes => db' = Last(v))
  <2>1. Nick \in SUBSET Nick /\ Paid(E, seats)
    BY <1>6 DEF Paid
  <2> QED BY <1>4, <1>13, <1>15, <1>14, <2>1, Ends
<1>17. Balanced(cut', db')
  <2>1. crashes \in Nat /\ cut \in Nat
    BY DEF Inv, TypeOK, Balanced
  <2>2. CASE crashes' = crashes
    <3>1. cut' = cut
      BY <1>1, <2>1, <2>2
    <3> QED BY <1>16, <1>14, <2>2, <3>1
  <2>3. CASE crashes' = crashes + 1
    <3>1. cut' = gap
      BY <1>1, <1>6, <2>1, <2>3
    <3> QED BY <1>16, <3>1
  <2> QED BY <1>16, <2>2, <2>3 DEF Ended
<1>18. \A m \in Nick \ untold' : room'[m] # Nobody => seats[m] # Nobody /\ ~seats[m].validate
  BY <1>1, <1>3
<1>19. Honest(room', seats)
  BY <1>1
<1>20. Inv'
  BY <1>1, <1>2, <1>16, <1>17, <1>18, <1>19, Rest
<1> QED BY <1>16, <1>20 DEF Ended

LEMMA DelayedMessageRight ==
  ASSUME Inv, delayedMessage
  PROVE  Inv' /\ KeepsKnown(db, db')
<1>1. /\ up /\ now' = now /\ room' = room /\ credit' = credit /\ cut' = cut
      /\ room \in [Nick -> Person \union {Nobody}]
      /\ untold = {} /\ untold' = {}
      /\ Honest(room, seats)
  BY DEF Inv, TypeOK, Seating, delayedMessage, bystanders
<1>2. /\ up' \in BOOLEAN /\ (up' => up /\ crashes' = crashes)
      /\ (up /\ crashes' = crashes => up')
  BY UpAfter DEF delayedMessage
<1>3. \A m \in Nick : room[m] # Nobody => seats[m] # Nobody /\ ~seats[m].validate
  BY <1>1 DEF Inv, Seating, Seated
<1>4. PICK gone \in SUBSET Nick : gone = {n \in Seated : seats[n].validate}
  BY DEF Seated
<1>5. PICK M \in SUBSET Nick : M = Nick \ gone
  OBVIOUS
<1>6. /\ Sound(db) /\ Last(Found) = db
      /\ Trail(Nick \ gone, {}, cut, db, Found)
      /\ db.lastId <= MaxIds /\ Fits(db, seats) /\ Timely
  BY FoundNow, FitsNow
<1>7. \A n \in gone : seats[n] # Nobody
  BY <1>4 DEF Seated
<1>8. PICK u : u = removeNicks(Found, gone)
  OBVIOUS
<1>9. Trail(M, gone, cut, db, u) /\ SameIds(Found, u)
  <2>1. PICK gap : gap = cut
    OBVIOUS
  <2>2. Trail(Nick \ gone, {}, gap, db, Found)
    BY <1>6, <2>1
  <2>3. Trail(Nick \ gone, gone, gap, db, u) /\ SameIds(Found, u)
    BY <1>6, <1>7, <1>8, <2>2, RemovesNicks
  <2> QED BY <1>5, <2>1, <2>3
<1>10. PICK after : after = [n \in Nick |-> IF n \in gone THEN Nobody ELSE seats[n]]
  OBVIOUS
<1>11. handles(u, after)
  BY <1>4, <1>8, <1>10 DEF delayedMessage
<1>12. after \in [Nick -> Seat \union {Nobody}]
  BY <1>10 DEF Inv, TypeOK
<1>13. Fits(Last(u), after)
  <2>1. Step(M, db, Last(u))
    BY <1>9, TrailEnds
  <2>2. \A n \in Nick : after[n] = Nobody \/ (n \in M /\ after[n] = seats[n])
    BY <1>5, <1>10
  <2> QED BY <1>6, <1>12, <2>1, <2>2, FitsAlso
<1>14. Last(u).lastId <= MaxIds
  BY <1>6, <1>9 DEF SameIds
<1>15. Paid(gone, after)
  BY <1>10, NamesAssumption DEF Paid
<1>16. Ended(after) /\ Balanced(cut, db')
  BY <1>9, <1>11, <1>13, <1>14, <1>15, Ends
<1>17. \A m \in Nick \ untold' : room'[m] # Nobody => after[m] # Nobody /\ ~after[m].validate
  BY <1>1, <1>3, <1>4, <1>10
<1>18. Honest(room', after) /\ Balanced(cut', db')
  BY <1>1, <1>10, <1>16 DEF Honest
<1>19. Inv'
  BY <1>1, <1>2, <1>16, <1>17, <1>18, Rest
<1> QED BY <1>16, <1>19 DEF Ended

(* Every row that is online makes a Nick that has what it needs.           *)
IsLoaded(n, s) ==
  /\ s.id \in DOMAIN db.jids /\ db.jids[s.id].jid = s.jid
  /\ <<n, s.id>> \in DOMAIN db.nicks /\ db.nicks[<<n, s.id>>].online
  /\ s.since = now /\ s.temporary = FALSE /\ s.validate = TRUE

LEMMA LoadsNicks ==
  ASSUME Inv, NEW loaded, loaded = loadOnlineNicks(db)
  PROVE  /\ loaded \in [Nick -> Seat \union {Nobody}]
         /\ \A n \in present(loaded) : IsLoaded(n, loaded[n])
<1>1. Sound(db) /\ db.lastId <= MaxIds /\ now \in Clock /\ db.lastId \in Nat
  BY Fields DEF Inv, TypeOK, Sound
<1>2. ASSUME NEW n \in Nick, \E k \in DOMAIN db.nicks : k[1] = n /\ db.nicks[k].online,
             NEW s, s = loadedNick(db, n)
      PROVE  s \in Seat /\ IsLoaded(n, s)
  <2>1. PICK id : id = CHOOSE i \in DOMAIN db.jids :
                          <<n, i>> \in DOMAIN db.nicks /\ db.nicks[<<n, i>>].online
    OBVIOUS
  <2>2. PICK k \in DOMAIN db.nicks : k[1] = n /\ db.nicks[k].online
    BY <1>2
  <2>3. k \in Nick \X Nat /\ k[2] \in DOMAIN db.jids
    BY <1>1, Rows DEF Sound, ForeignKeys
  <2>4. k = <<n, k[2]>>
    BY <2>2, <2>3
  <2>5. id \in DOMAIN db.jids /\ <<n, id>> \in DOMAIN db.nicks /\ db.nicks[<<n, id>>].online
    BY <2>1, <2>2, <2>3, <2>4
  <2>6. s = [id |-> id, jid |-> db.jids[id].jid, temporary |-> FALSE, since |-> now,
             validate |-> TRUE]
    BY <1>2, <2>1 DEF loadedNick
  <2>7. id \in 1..MaxIds
    BY <1>1, <2>5, StatsAssumption DEF Sound, ForeignKeys
  <2>8. db.jids[id].jid \in Name
    BY <1>1, <2>5, Rows DEF Sound
  <2> QED BY <1>1, <2>5, <2>6, <2>7, <2>8 DEF Seat, IsLoaded
<1>3. ASSUME NEW n \in Nick, NEW s, s = loaded[n], s # Nobody
      PROVE  s \in Seat /\ IsLoaded(n, s)
  <2>1. (\E k \in DOMAIN db.nicks : k[1] = n /\ db.nicks[k].online) /\ s = loadedNick(db, n)
    BY <1>3 DEF loadOnlineNicks
  <2> QED BY <1>2, <2>1
<1>4. loaded = [n \in Nick |-> loaded[n]]
  BY DEF loadOnlineNicks
<1>5. \A n \in Nick : loaded[n] \in Seat \union {Nobody}
  BY <1>3
<1> QED BY <1>3, <1>4, <1>5 DEF present

LEMMA StartRight ==
  ASSUME Inv, start
  PROVE  Inv' /\ KeepsKnown(db, db')
<1>1. /\ now' = now /\ room' = room /\ credit' = credit /\ cut' = cut
      /\ room \in [Nick -> Person \union {Nobody}]
      /\ untold' = IF up' THEN {n \in Nick : room[n] # Nobody} ELSE {}
  BY DEF Inv, TypeOK, start, bystanders
<1>2. seats = [m \in Nick |-> Nobody]
  BY DEF Inv, TypeOK, Seating, Seated, start
<1>3. up' = (crashes' = crashes)
  BY DEF start
<1>4. ASSUME NEW after, Ended(after), Balanced(cut, db'),
             \A n \in Nick : after[n] # Nobody => after[n].validate
      PROVE  Inv' /\ KeepsKnown(db, db')
  <2>1. untold' \subseteq {n \in Nick : room'[n] # Nobody}
    BY <1>1
  <2>2. up' => \A m \in Nick \ untold' : room'[m] # Nobody => after[m] # Nobody /\ ~after[m].validate
    BY <1>1
  <2>3. room' \in [Nick -> Person \union {Nobody}] /\ up' \in BOOLEAN
    BY <1>1, <1>3
  <2>4. Honest(room', after) /\ Balanced(cut', db')
    BY <1>1, <1>4 DEF Honest
  <2>5. Inv'
    BY <1>1, <1>3, <1>4, <2>1, <2>2, <2>3, <2>4, Rest
  <2> QED BY <1>4, <2>5 DEF Ended
<1>5. /\ Sound(db) /\ db.lastId <= MaxIds /\ now \in Clock /\ Fits(db, seats)
      /\ \A M, A : Trail(M, A, cut, db, Found)
      /\ Last(Found) = db
  BY FoundNow, FitsNow
<1>0. PICK E : E = {}
  OBVIOUS
<1>6. PICK lazyOffline \in LazySettings :
        handles(IF lazyOffline THEN loadStats(Found, loadOnlineNicks(db)) ELSE setAllOffline(Found),
                IF lazyOffline THEN loadOnlineNicks(db) ELSE seats)
  BY DEF start
<1>7. CASE lazyOffline
  <2>1. PICK loaded : loaded = loadOnlineNicks(db)
    OBVIOUS
  <2>2. /\ loaded \in [Nick -> Seat \union {Nobody}]
        /\ \A n \in present(loaded) : IsLoaded(n, loaded[n])
    BY <2>1, LoadsNicks
  <2>3. PICK u : u = loadStats(Found, loaded)
    OBVIOUS
  <2>4. /\ Trail(Nick, E, cut, db, u) /\ SameIds(Found, u) /\ Loads(db, Last(u))
        /\ \A n \in present(loaded) : HasAll(Last(u), loaded[n].id)
    <3>1. \A n \in present(loaded) : loaded[n].id \in DOMAIN Last(Found).jids
      BY <1>5, <2>2 DEF IsLoaded
    <3>2. PICK gap : gap = cut
      OBVIOUS
    <3>3. Trail(Nick, E, gap, db, Found)
      BY <1>5, <3>2
    <3>4. /\ Trail(Nick, E, gap, db, u) /\ SameIds(Found, u) /\ Loads(Last(Found), Last(u))
          /\ \A n \in present(loaded) : HasAll(Last(u), loaded[n].id)
      BY <1>5, <2>3, <3>1, <3>3, LoadsStats
    <3> QED BY <1>5, <3>2, <3>4
  <2>5. Fits(Last(u), loaded)
    <3> SUFFICES ASSUME NEW n \in Nick, loaded[n] # Nobody
                 PROVE  SeatOK(Last(u), n, loaded[n]) /\ loaded[n].since <= now
      BY <2>2 DEF Fits
    <3>1. n \in present(loaded)
      BY DEF present
    <3>2. PICK s : s = loaded[n]
      OBVIOUS
    <3>3. /\ db.jids[s.id].jid = s.jid
          /\ <<n, s.id>> \in DOMAIN db.nicks /\ db.nicks[<<n, s.id>>].online
          /\ s.since = now /\ s.temporary = FALSE
      BY <2>2, <3>1, <3>2 DEF IsLoaded
    <3>4. /\ SameJids(db, Last(u)) /\ Last(u).nicks = db.nicks
          /\ s.id \in DOMAIN Last(u).stats /\ full(Last(u), s.id)
      BY <2>4, <3>1, <3>2 DEF Loads, HasAll
    <3>5. Kept(Last(u), n, s)
      BY <3>3, <3>4 DEF Kept, Recorded, SameJids
    <3>6. now <= now
      BY <1>5, StatsAssumption DEF Clock
    <3> QED BY <3>2, <3>3, <3>5, <3>6 DEF SeatOK
  <2>6. Last(u).lastId <= MaxIds
    BY <1>5, <2>4 DEF SameIds
  <2>7. handles(u, loaded)
    BY <1>6, <1>7, <2>1, <2>3
  <2>8. Nick \in SUBSET Nick
    OBVIOUS
  <2>9. \A n \in Nick : loaded[n] = Nobody \/ (loaded[n].since = now /\ loaded[n].validate)
    BY <2>2 DEF IsLoaded, present
  <2>10. Paid(E, loaded)
    BY <2>9 DEF Paid
  <2>11. Ended(loaded) /\ Balanced(cut, db')
    BY <2>4, <2>5, <2>6, <2>7, <2>8, <2>10, Ends
  <2> QED BY <1>4, <2>9, <2>11
<1>8. CASE ~lazyOffline
  <2>1. PICK M \in SUBSET Nick : M = {}
    OBVIOUS
  <2>2. PICK e : e = allOffline(db)
    OBVIOUS
  <2>3. ByNicks(M, db, e) /\ Sound(e) /\ Calm(db, e)
    BY <1>5, <2>1, <2>2, AllOffline DEF ByNicks, Step
  <2>4. PICK t : t = Append(Found, e)
    OBVIOUS
  <2>5. Trail(M, E, cut, db, t) /\ Last(t) = e
    <3>1. Grows(t, Found, e)
      BY <2>4 DEF Grows
    <3>2. Step(M, Last(Found), e) /\ Calm(Last(Found), e)
      BY <1>5, <2>3 DEF ByNicks
    <3> QED BY <1>5, <3>1, <3>2, TrailCalms
  <2>6. PICK doomed : doomed = {i \in DOMAIN e.jids : e.jids[i].temporary}
    OBVIOUS
  <2>7. PICK f : f = deleteJids(e, doomed)
    OBVIOUS
  <2>8. Step(M, e, f) /\ f.lastId = e.lastId /\ Calm(e, f)
    <3>1. MayGo(e, doomed, M)
      BY <2>1, <2>6 DEF MayGo
    <3>2. M \subseteq Nick
      OBVIOUS
    <3> QED BY <2>3, <2>7, <3>1, <3>2, DeleteJids
  <2>9. PICK u : u = Append(t, f)
    OBVIOUS
  <2>10. Trail(M, E, cut, db, u) /\ Last(u) = f
    <3>1. Grows(u, t, f)
      BY <2>9 DEF Grows
    <3>2. Step(M, Last(t), f) /\ Calm(Last(t), f)
      BY <2>5, <2>8
    <3> QED BY <1>5, <2>5, <3>1, <3>2, TrailCalms
  <2>11. u = setAllOffline(Found)
    <3>1. setAllOffline(Found) =
            Append(t, deleteJids(Last(t), {i \in DOMAIN Last(t).jids : Last(t).jids[i].temporary}))
      BY <1>5, <2>2, <2>4 DEF setAllOffline, then
    <3> QED BY <2>5, <2>6, <2>7, <2>9, <3>1
  <2>12. handles(u, seats)
    BY <1>6, <1>8, <2>11
  <2>13. Fits(Last(u), seats)
    BY <1>2, <1>5 DEF Fits
  <2>14. Last(u).lastId <= MaxIds
    BY <1>5, <2>3, <2>8, <2>10 DEF ByNicks, SameJids
  <2>15. Paid(E, seats)
    BY <1>2 DEF Paid
  <2>16. Ended(seats) /\ Balanced(cut, db')
    BY <2>10, <2>12, <2>13, <2>14, <2>15, Ends
  <2> QED BY <1>2, <1>4, <2>16
<1> QED BY <1>7, <1>8

LEMMA StopRight ==
  ASSUME Inv, stop
  PROVE  Inv' /\ KeepsKnown(db, db')
<1>1. /\ now' = now /\ room' = room /\ up' = FALSE /\ untold' = {}
      /\ credit' = credit /\ cut' = cut
      /\ room \in [Nick -> Person \union {Nobody}]
  BY DEF Inv, TypeOK, stop, bystanders
<1>2. PICK after : after = [m \in Nick |-> Nobody]
  OBVIOUS
<1>3. /\ Sound(db) /\ db.lastId <= MaxIds /\ Fits(db, seats) /\ Timely
      /\ \A M, A : Trail(M, A, cut, db, Found)
      /\ Last(Found) = db
  BY FoundNow, FitsNow
<1>4. PICK all \in SUBSET Nick : all = Seated
  BY DEF Seated
<1>5. \A n \in all : seats[n] # Nobody
  BY <1>4 DEF Seated
<1>6. PICK t : t = IF lazy THEN updatedAll(Found, Seated) ELSE removeNicks(Found, Seated)
  OBVIOUS
<1>7. handles(t, after)
  <2>1. handles(IF lazy THEN updatedAll(Found, Seated) ELSE removeNicks(Found, Seated),
                [m \in Nick |-> Nobody])
    BY Zenon DEF stop, updatedAll
  <2> QED BY <1>2, <1>6, <2>1
<1>8. PICK M \in SUBSET Nick : M = Nick \ all
  OBVIOUS
<1>9. Trail(M, all, cut, db, t) /\ SameIds(Found, t)
  <2>0. PICK gap : gap = cut
    OBVIOUS
  <2>1. CASE lazy
    <3>1. t = updatedAll(Found, all)
      BY <1>4, <1>6, <2>1
    <3>2. Trail(Nick, {}, gap, db, Found)
      BY <1>3, <2>0
    <3>3. Trail(Nick, all, gap, db, t) /\ SameIds(Found, t)
      BY <1>3, <1>5, <3>1, <3>2, UpdatesAll
    <3>4. Trail(M, all, gap, db, t)
      BY <3>3, TrailOfFewer
    <3> QED BY <2>0, <3>3, <3>4
  <2>2. CASE ~lazy
    <3>1. t = removeNicks(Found, all)
      BY <1>4, <1>6, <2>2
    <3>2. Trail(Nick \ all, {}, gap, db, Found)
      BY <1>3, <2>0
    <3>3. Trail(Nick \ all, all, gap, db, t) /\ SameIds(Found, t)
      BY <1>3, <1>5, <3>1, <3>2, RemovesNicks
    <3> QED BY <1>8, <2>0, <3>3
  <2> QED BY <2>1, <2>2
<1>10. Fits(Last(t), after)
  BY <1>2 DEF Fits
<1>11. Last(t).lastId <= MaxIds
  BY <1>3, <1>9 DEF SameIds
<1>12. Paid(all, after) /\ Honest(room', after)
  BY <1>2 DEF Paid, Honest
<1>13. Ended(after) /\ Balanced(cut, db')
  BY <1>7, <1>9, <1>10, <1>11, <1>12, Ends
<1>14. Balanced(cut', db')
  BY <1>1, <1>13
<1>15. Inv'
  BY <1>1, <1>2, <1>12, <1>13, <1>14, Rest
<1> QED BY <1>13, <1>15 DEF Ended

(* A second more for everybody who sits there.                             *)
LEMMA SecondMore ==
  ASSUME Timely, NEW later, later = now + 1, NEW id,
         NEW W, W = {n \in Nick : seats[n] # Nobody /\ seats[n].id = id}
  PROVE  Waited(later, seats, id) = Waited(now, seats, id) + Cardinality(W)
<1>1. PICK g : g = [n \in Nick |-> waits(now, seats, n, id)]
  OBVIOUS
<1>2. PICK h : h = [n \in Nick |-> IF n \in W THEN 1 ELSE 0]
  OBVIOUS
<1>3. PICK k : k = [n \in Nick |-> waits(later, seats, n, id)]
  OBVIOUS
<1>4. g \in [Nick -> Int] /\ h \in [Nick -> Int] /\ IsFiniteSet(Nick) /\ W \in SUBSET Nick
  BY <1>1, <1>2, WaitsNat, NamesAssumption
<1>5. ASSUME NEW n \in Nick PROVE k[n] \in Int /\ k[n] = g[n] + h[n]
  <2>1. CASE n \in W
    <3>1. now \in Nat /\ seats[n].since \in Nat
      BY <2>1, StatsAssumption DEF Timely, Seat, Clock
    <3> QED BY <1>1, <1>2, <1>3, <2>1, <3>1 DEF waits
  <2>2. CASE n \notin W
    BY <1>1, <1>2, <1>3, <2>2 DEF waits
  <2> QED BY <2>1, <2>2
<1>6. k \in [Nick -> Int]
  BY <1>3, <1>5
<1>7. SumOf(k) = SumOf(g) + SumOf(h)
  BY <1>4, <1>5, <1>6, SumPlus
<1>8. SumOf(h) = Cardinality(W)
  BY <1>2, <1>4, SumCount
<1> QED BY <1>1, <1>3, <1>7, <1>8 DEF Waited

(* Those a person is credited with a second for.                           *)
Credited(p) ==
  {n \in Nick : \/ room[n] = p
                \/ seats[n] # Nobody /\ seats[n].validate /\ seats[n].jid = p}

LEMMA EarnsLater ==
  ASSUME Inv, NEW later, later = now + 1, NEW earned \in [Person -> Nat],
         \A p \in Person : earned[p] = credit[p] + Cardinality(Credited(p))
  PROVE  Earns(later, earned, db, seats)
<1>1. Sound(db) /\ Timely /\ Honest(room, seats) /\ Fits(db, seats)
  BY FitsNow DEF Inv, Seating
<1> SUFFICES ASSUME NEW id \in DOMAIN db.jids, NEW p \in Person, p = db.jids[id].jid
             PROVE  timeOf(db, id) + Waited(later, seats, id) <= earned[p]
  BY DEF Earns
<1>2. PICK W : W = {n \in Nick : seats[n] # Nobody /\ seats[n].id = id}
  OBVIOUS
<1>3. Waited(later, seats, id) = Waited(now, seats, id) + Cardinality(W)
  BY <1>1, <1>2, SecondMore
<1>4. PICK C : C = Credited(p)
  OBVIOUS
<1>5. W \subseteq C
  <2> SUFFICES ASSUME NEW n \in W PROVE n \in C
    OBVIOUS
  <2>1. n \in Nick /\ seats[n] # Nobody /\ seats[n].id = id
    BY <1>2
  <2>2. Kept(db, n, seats[n]) \/ Lost(db, seats[n])
    BY <1>1, <2>1 DEF Fits, SeatOK
  <2>3. seats[n].jid = p
    BY <2>1, <2>2 DEF Kept, Lost
  <2>4. seats[n].validate \/ room[n] = p
    BY <1>1, <2>1, <2>3 DEF Honest
  <2> QED BY <1>4, <2>1, <2>3, <2>4 DEF Credited
<1>6. Cardinality(W) \in Nat /\ Cardinality(C) \in Nat /\ Cardinality(W) <= Cardinality(C)
  <2>1. IsFiniteSet(C)
    <3>1. C \subseteq Nick
      BY <1>4 DEF Credited
    <3> QED BY <3>1, NamesAssumption, FS_Subset
  <2>2. IsFiniteSet(W) /\ Cardinality(W) <= Cardinality(C)
    BY <1>5, <2>1, FS_Subset
  <2> QED BY <2>1, <2>2, FS_CardinalityType
<1>7. timeOf(db, id) + Waited(now, seats, id) <= credit[p]
  BY DEF Inv, Earns
<1>8. timeOf(db, id) \in Nat /\ Waited(now, seats, id) \in Nat /\ credit[p] \in Nat
  BY <1>1, Counts, WaitedNat DEF Inv, TypeOK
<1>9. earned[p] = credit[p] + Cardinality(C)
  BY <1>4
<1> QED BY <1>3, <1>6, <1>7, <1>8, <1>9

LEMMA TimePassesRight ==
  ASSUME Inv, timePasses
  PROVE  Inv' /\ KeepsKnown(db, db')
<1>1. /\ now' = now + 1 /\ now' \in Clock /\ now \in Nat
      /\ UNCHANGED <<room, up, untold, seats, db, cut, crashes>>
  BY StatsAssumption DEF Inv, TypeOK, timePasses, Clock
<1>2. /\ credit' \in [Person -> Nat]
      /\ \A p \in Person : credit'[p] = credit[p] + Cardinality(Credited(p))
  <2>1. credit' = [p \in Person |-> credit[p] + Cardinality(Credited(p))]
    BY DEF timePasses, Credited
  <2>2. ASSUME NEW p \in Person PROVE credit[p] + Cardinality(Credited(p)) \in Nat
    <3>1. PICK C \in SUBSET Nick : C = Credited(p)
      BY DEF Credited
    <3>2. IsFiniteSet(C)
      BY NamesAssumption, FS_Subset
    <3>3. Cardinality(C) \in Nat /\ credit[p] \in Nat
      BY <3>2, FS_CardinalityType DEF Inv, TypeOK
    <3> QED BY <3>1, <3>3
  <2> QED BY <2>1, <2>2
<1>3. TypeOK'
  BY <1>1, <1>2 DEF Inv, TypeOK
<1>4. Seating'
  <2>1. \A n \in Seated' : SeatOK(db', n, seats'[n])
    BY <1>1 DEF Inv, Seating, Seated
  <2>2. ASSUME NEW n \in Seated PROVE seats[n].since <= now + 1
    <3>1. seats[n] \in Seat /\ seats[n].since <= now
      BY DEF Inv, TypeOK, Seating, Seated
    <3>2. seats[n].since \in Nat
      BY <3>1, StatsAssumption DEF Seat, Clock
    <3> QED BY <1>1, <3>1, <3>2
  <2>3. \A n \in Seated' : seats'[n].since <= now'
    BY <1>1, <2>2 DEF Seated
  <2>4. /\ ~up' => Seated' = {}
        /\ up' => \A n \in Nick \ untold' :
                    room'[n] # Nobody => n \in Seated' /\ ~seats'[n].validate
    BY <1>1 DEF Inv, Seating, Seated
  <2>5. Honest(room', seats')
    BY <1>1 DEF Inv, Seating
  <2> QED BY <2>1, <2>3, <2>4, <2>5 DEF Seating
<1>5. KeepsKnown(db, db')
  BY <1>1, KeepsAll DEF Inv
<1>6. Earns(now, credit, db, seats)'
  <2>1. Earns(now', credit', db, seats)
    BY <1>1, <1>2, EarnsLater
  <2> QED BY <1>1, <2>1
<1>7. Sound(db)' /\ Balanced(cut, db)'
  BY <1>1 DEF Inv
<1> QED BY <1>3, <1>4, <1>5, <1>6, <1>7 DEF Inv

LEMMA StutterRight ==
  ASSUME Inv, UNCHANGED vars
  PROVE  Inv' /\ KeepsKnown(db, db')
<1>1. UNCHANGED <<room, up, untold, seats, db, now, credit, cut, crashes>>
  BY DEF vars
<1>2. KeepsKnown(db, db')
  BY <1>1, KeepsAll DEF Inv
<1>3. TypeOK' /\ Sound(db)'
  BY <1>1 DEF Inv, TypeOK
<1>4. Seating'
  BY <1>1 DEF Inv, Seating, Seated
<1>5. Balanced(cut, db)' /\ Earns(now, credit, db, seats)'
  BY <1>1 DEF Inv
<1> QED BY <1>2, <1>3, <1>4, <1>5 DEF Inv

LEMMA NextRight ==
  ASSUME Inv, [Next]_vars
  PROVE  Inv' /\ KeepsKnown(db, db')
BY EntersRight, ToldRight, ShowsRight, LeavesRight, SaysRight, DelayedMessageRight,
   StartRight, StopRight, TimePassesRight, StutterRight DEF Next

LEMMA InitRight ==
  ASSUME Init
  PROVE  Inv
<1>1. /\ room = [n \in Nick |-> Nobody] /\ up = FALSE /\ untold = {}
      /\ seats = [n \in Nick |-> Nobody]
      /\ now = StartTime /\ crashes = 0 /\ cut = 0
      /\ credit = [p \in Person |-> 0]
  BY DEF Init
<1>2. TypeOK
  <2>1. db.lastId = 0
    BY DEF Init
  <2>2. StartTime \in Nat /\ MaxTime \in Nat /\ MaxIds \in Nat
    BY StatsAssumption
  <2>3. now \in Clock /\ db.lastId <= MaxIds
    BY <1>1, <2>1, <2>2 DEF Clock
  <2> QED BY <1>1, <2>3 DEF TypeOK
<1>3. Seating
  BY <1>1 DEF Seating, Seated, Honest
<1>4. PICK empty : empty = <<>>
  OBVIOUS
<1>5. /\ DOMAIN empty = {}
      /\ empty \in Table(Id, JidRow) /\ empty \in Table(Nick \X Id, NickRow)
      /\ empty \in Table(Id, StatRow) /\ empty \in Table(Id, Table(Cells, Count))
  BY <1>4, EmptyTable
<1>6. db = [jids |-> empty, nicks |-> empty, stats |-> empty, times |-> empty, lastId |-> 0]
  BY <1>4 DEF Init
<1>7. db \in Database
  BY <1>5, <1>6 DEF Database
<1>8. /\ DOMAIN db.jids = {} /\ DOMAIN db.nicks = {} /\ DOMAIN db.stats = {}
      /\ DOMAIN db.times = {}
  BY <1>5, <1>6
<1>9. Sound(db)
  BY <1>7, <1>8 DEF Sound, ForeignKeys, Names, Records
<1>10. \A id : NoCounts(db, id)
  BY <1>8 DEF NoCounts, messagesOf, valueOf
<1>11. Balanced(cut, db)
  <2>1. \A id : messagesOf(db, id) = 0
    BY <1>10 DEF NoCounts
  <2>2. \A id : \A i \in DOMAIN reportArray : Total(db, id, i) = 0
    BY <1>10, NoSums
  <2>3. differ(0, 0) <= 0
    BY DEF differ
  <2> QED BY <1>1, <2>1, <2>2, <2>3 DEF Balanced
<1>12. Earns(now, credit, db, seats)
  BY <1>8 DEF Earns
<1> QED BY <1>2, <1>3, <1>9, <1>11, <1>12 DEF Inv

-----------------------------------------------------------------------------
(* The tables are sound, every seat has what it needs, msg_count and the   *)
(* reports of a JID differ by no more than the messages the process died   *)
(* of, and nobody has more time than it earned, always: also when the      *)
(* process died between any two statements of any handler.                 *)
THEOREM Invariance == Spec => []Inv
<1>1. Init => Inv
  BY InitRight
<1>2. Inv /\ [Next]_vars => Inv'
  BY NextRight
<1> QED BY <1>1, <1>2, PTL DEF Spec

(* The process, the clock, the seats and those whose presence is awaited   *)
(* are what their types say, and no more rows are inserted than MaxIds.    *)
THEOREM TypeCorrect == Spec => []TypeOK
<1>1. Inv => TypeOK
  BY DEF Inv
<1> QED BY <1>1, Invariance, PTL

(* PresentIsRecorded: whoever is present has its nick online, its          *)
(* statistics and every cell of every report, for every number of nicks,   *)
(* reports and deaths; only the rows of those who showed their JID late    *)
(* may be lost.                                                            *)
THEOREM PresentHasItsRows == Spec => []PresentIsRecorded
<1>1. Inv => PresentIsRecorded
  BY DEF Inv, Seating, SeatOK, Kept, Recorded, Lost, full, PresentIsRecorded
<1> QED BY <1>1, Invariance, PTL

(* OneRowPerJid: no handler, and no death in one, leaves two rows for one  *)
(* JID.                                                                    *)
THEOREM JidsAreUnique == Spec => []OneRowPerJid
<1>1. Inv => OneRowPerJid
  BY DEF Inv, Sound, Names, OneRowPerJid
<1> QED BY <1>1, Invariance, PTL

(* KnownIsKept: a step never renames or deletes the row of a known JID,    *)
(* loses nothing its nicks have in the chat log, and none of its counts    *)
(* and times goes down.                                                    *)
THEOREM NothingIsForgotten == Spec => KnownIsKept
<1>1. Inv /\ [Next]_vars => KeepsKnown(db, db')
  BY NextRight
<1>2. KeepsKnown(db, db') =>
        \A id \in DOMAIN db.jids :
          ~db.jids[id].temporary =>
            /\ id \in DOMAIN db'.jids /\ db'.jids[id] = db.jids[id]
            /\ \A key \in DOMAIN db.nicks :
                 key[2] = id =>
                   /\ key \in DOMAIN db'.nicks
                   /\ db'.nicks[key].logged >= db.nicks[key].logged
            /\ id \in DOMAIN db.stats =>
                 /\ id \in DOMAIN db'.stats
                 /\ db'.stats[id].messages >= db.stats[id].messages
                 /\ db'.stats[id].time >= db.stats[id].time
            /\ id \in DOMAIN db.times =>
                 \A cell \in DOMAIN db.times[id] :
                   db.times[id][cell] > 0 =>
                     /\ id \in DOMAIN db'.times /\ cell \in DOMAIN db'.times[id]
                     /\ db'.times[id][cell] >= db.times[id][cell]
  BY DEF KeepsKnown, KeepsLog
<1> QED BY <1>1, <1>2, Invariance, PTL DEF Spec, KnownIsKept

(* ReportsAgree: what msg_count and every report have counted of a JID     *)
(* agrees, except for as many messages as the process died of, whichever   *)
(* messages are logged, counted or both.                                   *)
THEOREM CountsAgree == Spec => []ReportsAgree
<1>1. Inv => ReportsAgree
  <2> SUFFICES ASSUME Inv, NEW id \in DOMAIN db.stats, id \in DOMAIN db.times,
                      NEW i \in DOMAIN reportArray
               PROVE  differ(total(id, i), db.stats[id].messages) <= cut
    BY DEF ReportsAgree
  <2>1. Sound(db) /\ Balanced(cut, db)
    BY DEF Inv
  <2>2. messagesOf(db, id) = db.stats[id].messages
    BY DEF messagesOf
  <2>3. total(id, i) = Total(db, id, i)
    BY <2>1, TotalIs
  <2> QED BY <2>1, <2>2, <2>3 DEF Balanced
<1> QED BY <1>1, Invariance, PTL

(* NoFalseTime: time_online, and what is still to be added to it, is never *)
(* more than the time its owner sat there or had the bot believe so.       *)
THEOREM TimeIsEarned == Spec => []NoFalseTime
<1>1. Inv => NoFalseTime
  <2> SUFFICES ASSUME Inv, NEW id \in DOMAIN db.stats, db.jids[id].jid \in Person
               PROVE  db.stats[id].time + pendingOf(id) <= credit[db.jids[id].jid]
    BY DEF NoFalseTime, pendingOf
  <2>1. Sound(db) /\ Timely /\ Earns(now, credit, db, seats)
    BY FitsNow DEF Inv
  <2>2. id \in DOMAIN db.jids /\ timeOf(db, id) = db.stats[id].time
    BY <2>1 DEF timeOf, Sound, ForeignKeys
  <2>3. pendingOf(id) = Waited(now, seats, id)
    <3>1. \A n \in Nick : waits(now, seats, n, id) \in Nat
      BY <2>1, WaitsNat
    <3> QED BY <3>1, WaitedIs
  <2> QED BY <2>1, <2>2, <2>3 DEF Earns
<1> QED BY <1>1, Invariance, PTL
=============================================================================
