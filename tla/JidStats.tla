------------------------------ MODULE JidStats ------------------------------
(***************************************************************************)
(* What the bot keeps about the occupants of a room for good: the rows of  *)
(* conference_jids, conference_nicks, conference_jidstat, _jidstat_time    *)
(* and _log that Jid, Nick, JidStat, JidTimeStat and MucHistory read and   *)
(* write (jid.cpp, nick.cpp, jidstat.cpp, jidtimestat.cpp, muchistory.cpp, *)
(* and the parts of conference.cpp and mucplugin.cpp that call them).      *)
(*                                                                         *)
(* A handler is a sequence of SQL statements without a transaction; the    *)
(* process may die between two of them.  The tables are those of           *)
(* pgsql.sql, the only schema with statistics: whatever refers to a row of *)
(* conference_jids is deleted with it.                                     *)
(*                                                                         *)
(* Presence reaches the bot at once here; MucRoom has the stanzas that are *)
(* still on their way.  Of the columns of conference_jidstat this keeps    *)
(* msg_count and time_online; the others are written by the same           *)
(* statements or by single UPDATEs like them.                              *)
(***************************************************************************)
EXTENDS Integers, FiniteSets, FiniteSetsExt, Functions, Sequences, SequencesExt, TLC

CONSTANTS
  Nick,          \* nicks in the room
  Person,        \* bare JIDs of those who use them
  Nobody,        \* no occupant, or the "" of an item that shows no JID
  reportArray,   \* the reports: div and period of each, in seconds
  MaxSecond,     \* the length of a week
  LazySettings,  \* what muc/lazyoffline may be at a start
  StartTime,     \* the second of the week everything begins in
  MaxTime,       \* seconds that pass
  MaxIds,        \* rows of conference_jids that are ever inserted
  MaxSays,       \* messages that are said
  MaxCrashes     \* how often the process dies

ASSUME StatsAssumption ==
  /\ Nobody \notin Person
  /\ {MaxSecond, StartTime, MaxTime, MaxIds, MaxSays, MaxCrashes} \subseteq Nat
  /\ LazySettings \subseteq BOOLEAN
  /\ reportArray \in Seq([div : Nat, period : Nat])
  /\ \A i \in DOMAIN reportArray :
       LET r == reportArray[i]
       IN  /\ r.period > 0 /\ r.div > 0 /\ MaxSecond > 0
           /\ r.div % r.period = 0 /\ MaxSecond % r.div = 0

VARIABLES
  room,      \* room[n]: who sits there as n, on the server
  up, lazy,  \* is the process in the room, and its muc/lazyoffline
  untold,    \* occupants whose presence the bot has not had since it entered
  seats,     \* seats[n]: the Nick object, with its Jid and JidStat
  db,        \* the tables
  now,       \* the clock
  credit,    \* seconds each person sat there, or was taken to
  said, cut, \* messages so far, and those the process died of
  crashes    \* deaths so far

vars == <<room, up, lazy, untold, seats, db, now, credit, said, cut, crashes>>

Clock == StartTime..(StartTime + MaxTime)

(* An occupant without a JID is stored under "nick@date.local".            *)
LocalJid == Nick \X Clock
Name == Person \union LocalJid

(* id is Jid::id(), jid Jid::jid(), since the dateTime_ of the JidStat.    *)
Seat == [id : 1..MaxIds, jid : Name, temporary : BOOLEAN, since : Clock,
         validate : BOOLEAN]

(* No account is called after a nick and a date of the domain "local".     *)
ASSUME NamesAssumption ==
  /\ IsFiniteSet(Nick)
  /\ Nobody \notin Name \union Seat
  /\ Person \intersect LocalJid = {}

Seated == {n \in Nick : seats[n] # Nobody}

(* The rows of conference_jidstat_time a JID has: for each report, one for *)
(* every period of its div.                                                *)
cellsOf(i) == {<<i, k>> : k \in 0..(reportArray[i].div \div reportArray[i].period - 1)}
Cells == UNION {cellsOf(i) : i \in DOMAIN reportArray}
correctRecordCount == Cardinality(Cells)

Init ==
  /\ room = [n \in Nick |-> Nobody]
  /\ up = FALSE /\ lazy = FALSE
  /\ untold = {}
  /\ seats = [n \in Nick |-> Nobody]
  /\ db = [jids |-> <<>>, nicks |-> <<>>, stats |-> <<>>, times |-> <<>>, lastId |-> 0]
  /\ now = StartTime
  /\ credit = [p \in Person |-> 0]
  /\ said = 0 /\ cut = 0
  /\ crashes = 0

-----------------------------------------------------------------------------
(* The statements, each from a database to a database.  A table is a       *)
(* function from its key to the rest of the row: jids and stats from the   *)
(* id of the JID, times from that to its cells, nicks from <<nick, id>>.   *)

inserted(table, key, row) ==
  [k \in DOMAIN table \union {key} |-> IF k = key THEN row ELSE table[k]]

(* UPDATE ... WHERE: a row that is not there is not missed.                *)
updated(table, key, Set(_)) ==
  IF key \in DOMAIN table THEN [table EXCEPT ![key] = Set(@)] ELSE table

(* DELETE FROM conference_jids, ON DELETE CASCADE.                         *)
deleteJids(d, doomed) ==
  [d EXCEPT !.jids = Restrict(@, DOMAIN @ \ doomed),
            !.stats = Restrict(@, DOMAIN @ \ doomed),
            !.times = Restrict(@, DOMAIN @ \ doomed),
            !.nicks = Restrict(@, {k \in DOMAIN @ : k[2] \notin doomed})]

insertJid(d, name, temporary) ==
  [d EXCEPT !.lastId = @ + 1,
            !.jids = inserted(@, d.lastId + 1, [jid |-> name, temporary |-> temporary])]
updateJid(d, id, name) ==
  [d EXCEPT !.jids = updated(@, id, LAMBDA row : [row EXCEPT !.jid = name])]

insertStat(d, id) ==
  [d EXCEPT !.stats = inserted(@, id, [messages |-> 0, time |-> 0])]
addTime(d, id, delta) ==
  [d EXCEPT !.stats = updated(@, id, LAMBDA row : [row EXCEPT !.time = @ + delta])]
countMessage(d, id) ==
  [d EXCEPT !.stats = updated(@, id, LAMBDA row : [row EXCEPT !.messages = @ + 1])]

clearTimes(d, id) == [d EXCEPT !.times = inserted(@, id, <<>>)]
insertTime(d, id, cell) ==
  [d EXCEPT !.times = inserted(@, id, inserted(@[id], cell, 0))]
countTime(d, id, cell) ==
  [d EXCEPT !.times = updated(@, id, LAMBDA row : updated(row, cell, LAMBDA value : value + 1))]

setOnline(d, n, id) ==
  LET key == <<n, id>>
      logged == IF key \in DOMAIN d.nicks THEN d.nicks[key].logged ELSE 0
  IN  [d EXCEPT !.nicks = inserted(@, key, [online |-> TRUE, logged |-> logged])]
setOffline(d, n, id) ==
  [d EXCEPT !.nicks = updated(@, <<n, id>>, LAMBDA row : [row EXCEPT !.online = FALSE])]
allOffline(d) ==
  [d EXCEPT !.nicks = [k \in DOMAIN @ |-> [@[k] EXCEPT !.online = FALSE]]]

(* The row of the nick must be there, it is a foreign key.                 *)
log(d, n, id) ==
  [d EXCEPT !.nicks = updated(@, <<n, id>>, LAMBDA row : [row EXCEPT !.logged = @ + 1])]

(* The trail of a handler: the database it finds, and what each statement  *)
(* makes of it.                                                            *)
then(trail, Statement(_)) == Append(trail, Statement(Last(trail)))

(* A handler runs to its end, or the process dies in it, between two       *)
(* statements, before the first or after the last.                         *)
handles(trail, seatsAfter) ==
  \/ /\ db' = Last(trail)
     /\ seats' = seatsAfter
     /\ UNCHANGED crashes
  \/ /\ crashes < MaxCrashes
     /\ crashes' = crashes + 1
     /\ \E i \in DOMAIN trail : db' = trail[i]
     /\ seats' = [n \in Nick |-> Nobody]

-----------------------------------------------------------------------------
(* Jid, JidStat and JidTimeStat.                                           *)

idOf(d, name) == CHOOSE i \in DOMAIN d.jids : d.jids[i].jid = name

loadJid(t, name, temporary) ==
  IF \E i \in DOMAIN Last(t).jids : Last(t).jids[i].jid = name THEN t
  ELSE then(t, LAMBDA d : insertJid(d, name, temporary))

loadStat(t, id) ==
  IF id \in DOMAIN Last(t).stats THEN t ELSE then(t, LAMBDA d : insertStat(d, id))

\* Mutant: whatever records there are, are taken to be all of them.
hasSomeRecords(d, id) == id \in DOMAIN d.times /\ d.times[id] # <<>>

hasRecords(d, id) ==
  id \in DOMAIN d.times /\ Cardinality(DOMAIN d.times[id]) = correctRecordCount

createRecords(t, id) ==
  LET insert(u, cell) == then(u, LAMBDA d : insertTime(d, id, cell))
  IN  FoldLeft(insert, then(t, LAMBDA d : clearTimes(d, id)), SetToSeq(Cells))

loadTimes(t, id) == IF hasRecords(Last(t), id) THEN t ELSE createRecords(t, id)

\* Mutant: the cell is counted from the start of the week in every report.
logInWeek(t, id) ==
  LET count(u, i) == then(u, LAMBDA d :
                       countTime(d, id, <<i, (now % MaxSecond) \div reportArray[i].period>>))
  IN  FoldLeft(count, t, [i \in DOMAIN reportArray |-> i])

(* logMessage(): one UPDATE for each report.                               *)
logMessage(t, id) ==
  LET secs == now % MaxSecond
      count(u, i) == then(u, LAMBDA d :
                       countTime(d, id, <<i, (secs % reportArray[i].div) \div reportArray[i].period>>))
  IN  FoldLeft(count, t, [i \in DOMAIN reportArray |-> i])

updateOnlineTime(t, s) == then(t, LAMBDA d : addTime(d, s.id, now - s.since))

(* Whatever happens to an occupant is its last action, with a counter of   *)
(* its own, and the time up to it is added.                                *)
setLastAction(t, s) == updateOnlineTime(t, s)

(* setFullJid(): an occupant that was stored without a JID shows it.       *)
becomesKnown(s, j) == s.temporary /\ j # Nobody /\ j # s.jid

\* Mutant: the row is renamed, whoever has that name.
setFullJidInPlace(t, s, j) ==
  IF becomesKnown(s, j) THEN then(t, LAMBDA d : updateJid(d, s.id, j)) ELSE t

setFullJid(t, s, j) ==
  IF becomesKnown(s, j)
  THEN then(then(t, LAMBDA d : deleteJids(d, {s.id})), LAMBDA d : updateJid(d, s.id, j))
  ELSE t

-----------------------------------------------------------------------------
(* Nick.                                                                   *)

(* new Nick(conf, n, j), then setLastAction(ActionJoin) adds no time.      *)
newNick(t, n, j) ==
  LET name == IF j = Nobody THEN <<n, now>> ELSE j
      t1 == loadJid(t, name, j = Nobody)
      id == idOf(Last(t1), name)
      t2 == loadTimes(loadStat(t1, id), id)
  IN  [trail |-> then(t2, LAMBDA d : setOnline(d, n, id)),
       seat  |-> [id |-> id, jid |-> name, temporary |-> j = Nobody,
                  since |-> now, validate |-> FALSE]]

(* ~Nick(), when it does not leave lazily.                                 *)
removeNick(t, n) == updateOnlineTime(then(t, LAMBDA d : setOffline(d, n, seats[n].id)), seats[n])

removeNicks(t, gone) == FoldLeft(removeNick, t, SetToSeq(gone))

(* new Nick(conf, id) for each row that is online.                         *)
loadedNick(d, n) ==
  LET id == CHOOSE id \in DOMAIN d.jids : <<n, id>> \in DOMAIN d.nicks /\ d.nicks[<<n, id>>].online
  IN  [id |-> id, jid |-> d.jids[id].jid, temporary |-> FALSE, since |-> now,
       validate |-> TRUE]
loadOnlineNicks(d) ==
  [n \in Nick |-> IF \E k \in DOMAIN d.nicks : k[1] = n /\ d.nicks[k].online
                  THEN loadedNick(d, n) ELSE Nobody]
loadStats(t, loaded) ==
  LET load(u, n) == loadTimes(loadStat(u, loaded[n].id), loaded[n].id)
  IN  FoldLeft(load, t, SetToSeq({n \in Nick : loaded[n] # Nobody}))

-----------------------------------------------------------------------------
(* The handlers of mucplugin.cpp.                                          *)

Found == <<db>>

\* Mutant: the time that has just been added is added again next time.
seenSinceEver(s, j) ==
  [s EXCEPT !.jid = IF becomesKnown(s, j) THEN j ELSE @, !.validate = FALSE]

(* The Nick object after another presence; the first one after a restart   *)
(* is not recorded, it only proves that the occupant is still there.       *)
seenAgain(s, j) ==
  [s EXCEPT !.jid = IF becomesKnown(s, j) THEN j ELSE @,
            !.since = IF s.validate THEN @ ELSE now,
            !.validate = FALSE]

(* onPresence(): somebody sits there as n, and the item shows the JID j.   *)
sees(n, j) ==
  LET s == seats[n]
      another == s = Nobody \/ (s.validate /\ s.jid # j)
      fresh == newNick(IF s = Nobody THEN Found ELSE removeNick(Found, n), n, j)
      again == IF s.validate THEN Found ELSE setLastAction(Found, s)
      trail == IF another THEN fresh.trail ELSE setFullJid(again, s, j)
      seat == IF another THEN fresh.seat ELSE seenAgain(s, j)
  IN  /\ Last(trail).lastId <= MaxIds
      /\ handles(trail, [seats EXCEPT ![n] = seat])

(* What an item shows of p depends on the room and on whether the bot is a *)
(* moderator in it just then.                                              *)
item(p) == {p, Nobody}

bystanders == UNCHANGED <<now, credit, said, cut>>

(* Without the process there is no memory and nobody who tells it.         *)
survives ==
  /\ up' = (up /\ crashes' = crashes)
  /\ lazy' = (up' /\ lazy)

enters(n, p) ==
  /\ untold = {}
  /\ room[n] = Nobody
  /\ room' = [room EXCEPT ![n] = p]
  /\ IF up THEN \E j \in item(p) : sees(n, j) ELSE UNCHANGED <<db, seats, crashes>>
  /\ survives
  /\ UNCHANGED untold /\ bystanders

(* The presence the room sends of those who were there before the bot.     *)
told(n) ==
  /\ up /\ n \in untold
  /\ \E j \in item(room[n]) : sees(n, j)
  /\ survives
  /\ untold' = IF up' THEN untold \ {n} ELSE {}
  /\ UNCHANGED room /\ bystanders

(* Presence again.                                                         *)
shows(n) ==
  /\ up /\ untold = {} /\ room[n] # Nobody
  /\ \E j \in item(room[n]) : sees(n, j)
  /\ survives
  /\ UNCHANGED <<room, untold>> /\ bystanders

leaves(n) ==
  /\ untold = {}
  /\ room[n] # Nobody
  /\ room' = [room EXCEPT ![n] = Nobody]
  /\ IF up
     THEN handles(then(setLastAction(Found, seats[n]), LAMBDA d : setOffline(d, n, seats[n].id)),
                  [seats EXCEPT ![n] = Nobody])
     ELSE UNCHANGED <<db, seats, crashes>>
  /\ survives
  /\ UNCHANGED untold /\ bystanders

(* logMessageStanza() and statMessage() are on different paths.  A message *)
(* to the room meets both; JOIN, LEAVE and WHEREAMI, an expanded alias and *)
(* what the bot said itself are logged only; the command of a rule, and a  *)
(* message that does not fit the column of the log, are counted only.      *)
says(n) ==
  /\ up /\ untold = {} /\ room[n] # Nobody
  /\ said < MaxSays
  /\ said' = said + 1
  /\ \E isLogged, isCounted \in BOOLEAN :
       LET id == seats[n].id
           logged == IF isLogged THEN then(Found, LAMBDA d : log(d, n, id)) ELSE Found
           counted == then(logMessage(logged, id), LAMBDA d : countMessage(d, id))
       IN  /\ isLogged \/ isCounted
           /\ handles(IF isCounted THEN counted ELSE logged, seats)
  /\ survives
  /\ cut' = cut + (crashes' - crashes)
  /\ untold' = {}
  /\ UNCHANGED <<room, now, credit>>

(* The first delayed message of the room's history: cleanNonValidNicks().  *)
delayedMessage ==
  /\ up /\ lazy /\ untold = {}
  /\ LET gone == {n \in Seated : seats[n].validate}
     IN  handles(removeNicks(Found, gone), [n \in Nick |-> IF n \in gone THEN Nobody ELSE seats[n]])
  /\ survives
  /\ UNCHANGED <<room, untold>> /\ bystanders

-----------------------------------------------------------------------------
(* The Conference comes and goes.                                          *)

\* Mutant: all rows of the room go, not only the temporary ones.
setAllForgotten(t) ==
  then(then(t, LAMBDA d : allOffline(d)), LAMBDA d : deleteJids(d, DOMAIN d.jids))

setAllOffline(t) ==
  then(then(t, LAMBDA d : allOffline(d)),
       LAMBDA d : deleteJids(d, {i \in DOMAIN d.jids : d.jids[i].temporary}))

start ==
  /\ ~up
  /\ \E lazyOffline \in LazySettings :
       LET loaded == IF lazyOffline THEN loadOnlineNicks(db) ELSE seats
           trail == IF lazyOffline THEN loadStats(Found, loaded) ELSE setAllOffline(Found)
       IN  /\ handles(trail, loaded)
           /\ up' = (crashes' = crashes)
           /\ lazy' = (up' /\ lazyOffline)
  /\ untold' = IF up' THEN {n \in Nick : room[n] # Nobody} ELSE {}
  /\ UNCHANGED room /\ bystanders

(* Those who leave lazily are still online when the bot is back.           *)
stop ==
  /\ up
  /\ LET update(t, n) == updateOnlineTime(t, seats[n])
     IN  handles(IF lazy THEN FoldLeft(update, Found, SetToSeq(Seated)) ELSE removeNicks(Found, Seated),
                 [n \in Nick |-> Nobody])
  /\ up' = FALSE /\ lazy' = FALSE
  /\ untold' = {}
  /\ UNCHANGED room /\ bystanders

(* A person is credited with a second for each nick it sits there with,    *)
(* and for each row it was loaded from that nobody has come to prove.      *)
timePasses ==
  /\ now < StartTime + MaxTime
  /\ now' = now + 1
  /\ credit' = [p \in Person |-> credit[p] + Cardinality(
       {n \in Nick : \/ room[n] = p
                     \/ seats[n] # Nobody /\ seats[n].validate /\ seats[n].jid = p})]
  /\ UNCHANGED <<room, up, lazy, untold, seats, db, said, cut, crashes>>

Next ==
  \/ \E n \in Nick : \/ \E p \in Person : enters(n, p)
                     \/ told(n) \/ shows(n) \/ leaves(n) \/ says(n)
  \/ delayedMessage \/ start \/ stop \/ timePasses

Spec == Init /\ [][Next]_vars

-----------------------------------------------------------------------------
(* Whoever is present has all its rows: its nick is online, its statistics *)
(* are there and every cell of every report, whatever an earlier process   *)
(* left behind when it died.  Except those the code loses itself: they     *)
(* were stored without a JID and then showed it.                           *)
PresentIsRecorded ==
  \A n \in Seated :
    LET s == seats[n]
    IN  \/ s.temporary /\ s.jid \in Person
        \/ /\ <<n, s.id>> \in DOMAIN db.nicks /\ db.nicks[<<n, s.id>>].online
           /\ s.id \in DOMAIN db.stats
           /\ s.id \in DOMAIN db.times /\ DOMAIN db.times[s.id] = Cells

(* A JID has one row, also when it is first stored without its name and    *)
(* comes back, and when two nicks show it.                                 *)
OneRowPerJid ==
  \A i, k \in DOMAIN db.jids : db.jids[i].jid = db.jids[k].jid => i = k

total(id, i) ==
  LET value(cell) == db.times[id][cell]
  IN  MapThenSumSet(value, cellsOf(i) \intersect DOMAIN db.times[id])
differ(a, b) == IF a > b THEN a - b ELSE b - a

(* A message is counted in every report or in none: msg_count and the sum  *)
(* of each report agree, except for messages the process died of, and      *)
(* whatever else it died of meanwhile.  The chat log does not agree with   *)
(* them, see says(): nothing is claimed of it here.                        *)
ReportsAgree ==
  \A id \in DOMAIN db.stats :
    LET messages == db.stats[id].messages
    IN  id \in DOMAIN db.times =>
          \A i \in DOMAIN reportArray : differ(total(id, i), messages) <= cut

(* time_online never shows more than the time its owner sat in the room,   *)
(* or had the bot believe so after a restart, whichever handlers and       *)
(* deaths come in between.                                                 *)
NoFalseTime ==
  \A id \in DOMAIN db.stats :
    LET pending(n) == now - seats[n].since
        sum == db.stats[id].time
                 + MapThenSumSet(pending, {n \in Seated : seats[n].id = id})
        jid == db.jids[id].jid
    IN  jid \in Person => sum <= credit[jid]

(* What is kept about a known JID is kept: its row stays, with its name    *)
(* and what its nicks have in the chat log, and no count or time in it     *)
(* goes down, through starts, records that are created again and occupants *)
(* that are stored without a JID.                                          *)
KnownIsKept ==
  [][\A id \in DOMAIN db.jids :
       ~db.jids[id].temporary =>
         /\ id \in DOMAIN db'.jids /\ db'.jids[id] = db.jids[id]
         /\ \A key \in DOMAIN db.nicks :
              key[2] = id =>
                /\ key \in DOMAIN db'.nicks
                /\ db'.nicks[key].logged >= db.nicks[key].logged
         /\ id \in DOMAIN db.stats =>
              /\ id \in DOMAIN db'.stats
              /\ db'.stats[id].messages >= db.stats[id].messages
              /\ db'.stats[id].time >= db.stats[id].time
         /\ id \in DOMAIN db.times =>
              \A cell \in DOMAIN db.times[id] :
                db.times[id][cell] > 0 =>
                  /\ id \in DOMAIN db'.times /\ cell \in DOMAIN db'.times[id]
                  /\ db'.times[id][cell] >= db.times[id][cell]]_vars

(* An occupant that changes from unknown to known is stored under its JID. *)
KnownIsStored ==
  \A n \in Seated :
    seats[n].jid \in Person =>
      \E id \in DOMAIN db.jids : id = seats[n].id /\ db.jids[id].jid = seats[n].jid
=============================================================================
