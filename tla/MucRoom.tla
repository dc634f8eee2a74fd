------------------------------ MODULE MucRoom ------------------------------
(***************************************************************************)
(* One chat room as the muc plugin sees it: the list of joins in progress, *)
(* the Conference object with its NickList, the RoleList entries of its    *)
(* occupants, and the rows of the conferences and conference_nicks tables  *)
(* that survive the process (mucplugin.cpp, conference.cpp, nick.cpp,      *)
(* rolelist.cpp).                                                          *)
(*                                                                         *)
(* The room itself lives on an XMPP server.  Stanzas travel in order in    *)
(* both directions, so what the bot believes always lags behind: commands  *)
(* of the owner, kicks, renames and refusals cross on the wire, and the    *)
(* process can be killed between any two of its steps.                     *)
(***************************************************************************)
EXTENDS Naturals, FiniteSets, Sequences, SequencesExt

CONSTANTS
  Nick,            \* the nicks anybody uses in the room
  registeredNick,  \* muc/nick of gluxi.cfg, the nick a plain JOIN asks for
  PersonNick,      \* the nicks the other occupants choose from
  Fold,            \* Fold[n] is toUpper() of n, what NickList compares
  Person,          \* the bare JIDs of the others
  BotJid,          \* the bare JID of the bot
  Owner,           \* access/owner, the JID with ROLE_BOTOWNER
  NoNick, NoJid,   \* "" in the code: no entry, no JID shown
  LazySettings,    \* what muc/lazyoffline of gluxi.cfg may be at a start
  Anonymous,       \* the room does not show JIDs
  RenameRaces,     \* may a SETNICK cross other requests, kicks or refusals?
  MaxInFlight,     \* commands and changes happen while fewer stanzas travel
  MaxStops         \* how often the process stops

ASSUME ConstantsAssumption ==
  /\ IsFiniteSet(Nick) /\ registeredNick \in Nick
  /\ PersonNick \subseteq Nick
  /\ NoNick \notin Nick
  /\ BotJid \notin Person
  /\ NoJid \notin Person \union {BotJid}
  /\ DOMAIN Fold = Nick
  /\ LazySettings \subseteq BOOLEAN
  /\ {Anonymous, RenameRaces} \subseteq BOOLEAN
  /\ {MaxInFlight, MaxStops} \subseteq Nat

VARIABLES
  up,        \* the process runs and its stream is open
  bot,       \* what is in its memory about the room
  db,        \* what is in the database about the room
  occ,       \* the occupants, on the server: occ[n] sits there as n
  toServer,  \* stanzas on their way to the room
  toBot,     \* stanzas on their way to the bot
  stops      \* how often the process has stopped

vars == <<up, bot, db, occ, toServer, toBot, stops>>

Roles == {"participant", "moderator"}
Jids == Person \union {BotJid}
Unseated == [jid |-> NoJid, role |-> "none"]
Occupied(n) == occ[n].jid # NoJid

(* A Nick of the NickList: validate is validateRequired().                 *)
NickEntry == [nick : Nick, jid : Jids \union {NoJid},
              role : Roles \union {"none"}, validate : BOOLEAN]

(* joining is the room's entry in confInProgress, nick is that of the      *)
(* Conference or NoNick when there is none, roles what RoleList::get()     *)
(* returns for the full JID of each nick.  lazyOffline is the plugin's.    *)
(* refused is history, which nothing reads but the properties: during this *)
(* stay the bot was refused the registered nick, and told it can't join.   *)
Memory == [lazyOffline : BOOLEAN,
           joining : Nick \union {NoNick}, nick : Nick \union {NoNick},
           validated : BOOLEAN, nicks : SUBSET NickEntry,
           roles : [Nick -> {0, 40, 200}], refused : BOOLEAN]

EmptyMemory == [lazyOffline |-> FALSE, joining |-> NoNick, nick |-> NoNick,
                validated |-> FALSE, nicks |-> {},
                roles |-> [n \in Nick |-> 0], refused |-> FALSE]

(* The row of conferences, and the rows of conference_nicks with `online'. *)
Database == [nick : Nick \union {NoNick}, autojoin : BOOLEAN,
             online : BOOLEAN, seats : SUBSET (Nick \X (Jids \union {NoJid}))]

(* For the server JOIN and SETNICK are the same presence; why is history.  *)
Request == [type : {"presence", "unavailable"}, nick : Nick,
            why : {"JOIN", "SETNICK", "LEAVE"}]
delayed == [type |-> "delayed", nick |-> NoNick, jid |-> NoJid,
            role |-> "none", newNick |-> NoNick]
Stanza == [type : {"available", "unavailable", "error"}, nick : Nick,
           jid : Jids \union {NoJid}, role : Roles \union {"none"},
           newNick : Nick \union {NoNick}] \union {delayed}

Init ==
  /\ up = FALSE
  /\ bot = EmptyMemory
  /\ db = [nick |-> NoNick, autojoin |-> FALSE, online |-> FALSE, seats |-> {}]
  /\ occ = [n \in Nick |-> Unseated]
  /\ toServer = <<>>
  /\ toBot = <<>>
  /\ stops = 0

-----------------------------------------------------------------------------
(* The server (XEP-0045).                                                  *)

BotSeats == {n \in Nick : occ[n].jid = BotJid}
InRoom == BotSeats # {}
BotSeat == CHOOSE n \in BotSeats : TRUE

available(n, o) == [type |-> "available", nick |-> n, jid |-> o.jid,
                    role |-> o.role, newNick |-> NoNick]
unavailable(n, new) == [type |-> "unavailable", nick |-> n, jid |-> occ[n].jid,
                        role |-> "none", newNick |-> new]
errorFrom(n) == [type |-> "error", nick |-> n, jid |-> NoJid, role |-> "none",
                 newNick |-> NoNick]

Asked(type) == up /\ toServer # <<>> /\ Head(toServer).type = type

(* The bot enters: it is sent the others, itself, and the room's history.  *)
serverAdmits ==
  LET n == Head(toServer).nick
      others == {m \in Nick : Occupied(m)}
      me == [jid |-> BotJid, role |-> "participant"]
  IN  /\ Asked("presence")
      /\ ~InRoom /\ ~Occupied(n)
      /\ \E order \in SetToSeqs(others), history \in {<<>>, <<delayed>>} :
           toBot' = toBot \o [i \in DOMAIN order |-> available(order[i], occ[order[i]])]
                          \o <<available(n, me)>> \o history
      /\ occ' = [occ EXCEPT ![n] = me]
      /\ toServer' = Tail(toServer)
      /\ UNCHANGED <<up, bot, db, stops>>

(* A nick that is taken, or a room that does not let the bot in.           *)
serverRefuses ==
  LET n == Head(toServer).nick
  IN  /\ Asked("presence")
      /\ ~InRoom \/ Occupied(n)
      /\ occ[n].jid # BotJid
      /\ toBot' = Append(toBot, errorFrom(n))
      /\ toServer' = Tail(toServer)
      /\ UNCHANGED <<up, bot, db, occ, stops>>

(* Presence from inside: a new nick (303), or just the presence again.     *)
serverRenames ==
  LET n == Head(toServer).nick
  IN  /\ Asked("presence")
      /\ InRoom
      /\ ~Occupied(n) \/ occ[n].jid = BotJid
      /\ toBot' = toBot \o (IF n = BotSeat THEN <<>> ELSE <<unavailable(BotSeat, n)>>)
                        \o <<available(n, occ[BotSeat])>>
      /\ occ' = [occ EXCEPT ![BotSeat] = Unseated, ![n] = occ[BotSeat]]
      /\ toServer' = Tail(toServer)
      /\ UNCHANGED <<up, bot, db, stops>>

(* Whatever nick the presence is addressed to, the sender leaves.          *)
serverLetsGo ==
  /\ Asked("unavailable")
  /\ IF InRoom THEN /\ toBot' = Append(toBot, unavailable(BotSeat, NoNick))
                    /\ occ' = [occ EXCEPT ![BotSeat] = Unseated]
               ELSE UNCHANGED <<toBot, occ>>
  /\ toServer' = Tail(toServer)
  /\ UNCHANGED <<up, bot, db, stops>>

Calm == Len(toServer) + Len(toBot) < MaxInFlight
Tell(s) == toBot' = IF InRoom THEN Append(toBot, s) ELSE toBot

personEnters(n, jid, role) ==
  /\ Calm
  /\ ~Occupied(n)
  /\ \A m \in Nick : occ[m].jid # jid
  /\ occ' = [occ EXCEPT ![n] = [jid |-> jid, role |-> role]]
  /\ Tell(available(n, occ'[n]))
  /\ UNCHANGED <<up, bot, db, toServer, stops>>

personChangesRole(n, role) ==
  /\ Calm
  /\ occ[n].jid \in Person /\ occ[n].role # role
  /\ occ' = [occ EXCEPT ![n].role = role]
  /\ Tell(available(n, occ'[n]))
  /\ UNCHANGED <<up, bot, db, toServer, stops>>

personLeaves(n) ==
  /\ Calm
  /\ occ[n].jid \in Person
  /\ occ' = [occ EXCEPT ![n] = Unseated]
  /\ Tell(unavailable(n, NoNick))
  /\ UNCHANGED <<up, bot, db, toServer, stops>>

renamePending == \E i \in DOMAIN toServer : toServer[i].why = "SETNICK"
refusalPending == \E i \in DOMAIN toBot : toBot[i].type = "error"
ownExitPending ==
  \/ \E i \in DOMAIN toServer : toServer[i].type = "unavailable"
  \/ \E i \in DOMAIN toBot : /\ toBot[i].type = "unavailable"
                             /\ toBot[i].jid = BotJid
                             /\ toBot[i].newNick = NoNick

botIsKicked ==
  /\ Calm
  /\ InRoom
  /\ RenameRaces \/ ~renamePending
  /\ toBot' = Append(toBot, unavailable(BotSeat, NoNick))
  /\ occ' = [occ EXCEPT ![BotSeat] = Unseated]
  /\ UNCHANGED <<up, bot, db, toServer, stops>>

-----------------------------------------------------------------------------
(* MucPlugin::join() and leave(), and the commands that use them.          *)

send(type, n, why) == Append(toServer, [type |-> type, nick |-> n, why |-> why])

(* join(): "Joining already in progress", or a new entry and a presence.   *)
join(b, n) ==
  IF b.joining # NoNick
  THEN bot' = b /\ UNCHANGED toServer
  ELSE bot' = [b EXCEPT !.joining = n] /\ toServer' = send("presence", n, "JOIN")

Command == up /\ Calm

JOIN ==
  /\ Command
  /\ RenameRaces \/ ~(renamePending \/ refusalPending)
  /\ join(bot, registeredNick)
  /\ UNCHANGED <<up, db, occ, toBot, stops>>

(* leave(): setAutoJoin(FALSE) and markOffline() if there is a Conference; *)
(* the presence goes to the registered nick, whatever nick the bot uses.   *)
leave ==
  /\ db' = IF bot.nick = NoNick THEN db
           ELSE [db EXCEPT !.autojoin = FALSE, !.online = FALSE]
  /\ toServer' = send("unavailable", registeredNick, "LEAVE")
  /\ UNCHANGED <<up, bot, occ, toBot, stops>>

LEAVE ==
  /\ Command
  /\ RenameRaces \/ ~renamePending
  /\ leave

(* autoLeaveList(): online and autojoin, and too few JIDs were seen.       *)
sltAutoLeaveTimerTimeout ==
  /\ Command
  /\ RenameRaces \/ ~renamePending
  /\ db.autojoin /\ db.online
  /\ leave

(* "Own nick will be changed after ACK presence"                           *)
SETNICK(n) ==
  /\ Command
  /\ bot.nick # NoNick
  /\ RenameRaces \/ (/\ InRoom /\ toServer = <<>>
                     /\ ~refusalPending /\ ~ownExitPending)
  /\ toServer' = send("presence", n, "SETNICK")
  /\ UNCHANGED <<up, bot, db, occ, toBot, stops>>

-----------------------------------------------------------------------------
(* MucPlugin::onPresence(), in the order of its code.  A state of the room *)
(* is a pair of memory and database, r.bot and r.db.                       *)

canHandlePresence == bot.nick # NoNick \/ bot.joining # NoNick

seen(s) == IF Anonymous THEN NoJid ELSE s.jid
\* Mutant: nicks are compared without toUpper().
byExactName(list, n) == {e \in list : e.nick = n}

byName(list, n) == {e \in list : Fold[e.nick] = Fold[n]}
seatsOf(list) == {<<e.nick, e.jid>> : e \in list}

(* NickList::remove(): ~Nick() marks the row offline.                      *)
removeNicks(r, list) ==
  [bot |-> [r.bot EXCEPT !.nicks = @ \ list],
   db  |-> [r.db EXCEPT !.seats = @ \ seatsOf(list)]]

removeRole(r, n) == [r EXCEPT !.bot.roles[n] = 0]

\* Mutant: the row of a known room keeps its autojoin.
openedAsBefore ==
  IF bot.nick # NoNick THEN [bot |-> bot, db |-> db]
  ELSE LET seats == IF bot.lazyOffline THEN db.seats ELSE {}
       IN [bot |-> [bot EXCEPT
             !.joining = NoNick, !.nick = bot.joining, !.validated = FALSE,
             !.nicks = {[nick |-> c[1], jid |-> c[2], role |-> "none",
                         validate |-> TRUE] : c \in seats}],
           db  |-> [nick |-> bot.joining, online |-> TRUE, seats |-> seats,
                    autojoin |-> db.nick = NoNick \/ db.autojoin]]

\* Mutant: Nick::setAllOffline() is not called.
openedWithOldRows ==
  IF bot.nick # NoNick THEN [bot |-> bot, db |-> db]
  ELSE LET seats == IF bot.lazyOffline THEN db.seats ELSE {}
       IN [bot |-> [bot EXCEPT
             !.joining = NoNick, !.nick = bot.joining, !.validated = FALSE,
             !.nicks = {[nick |-> c[1], jid |-> c[2], role |-> "none",
                         validate |-> TRUE] : c \in seats}],
           db  |-> [nick |-> bot.joining, autojoin |-> TRUE, online |-> TRUE,
                    seats |-> db.seats]]

(* Without a Conference one is made from the entry in confInProgress: its  *)
(* row says online and autojoin, and the rows of its nicks are either      *)
(* taken offline or loaded to be validated.                                *)
opened ==
  IF bot.nick # NoNick THEN [bot |-> bot, db |-> db]
  ELSE LET seats == IF bot.lazyOffline THEN db.seats ELSE {}
       IN [bot |-> [bot EXCEPT
             !.joining = NoNick, !.nick = bot.joining, !.validated = FALSE,
             !.nicks = {[nick |-> c[1], jid |-> c[2], role |-> "none",
                         validate |-> TRUE] : c \in seats}],
           db  |-> [nick |-> bot.joining, autojoin |-> TRUE, online |-> TRUE,
                    seats |-> seats]]

(* A loaded nick that now belongs to another JID is dropped.  The JIDs of  *)
(* an anonymous room are made up for each entry and never match.           *)
revalidated(r, s) ==
  LET moved == {e \in byName(r.bot.nicks, s.nick) :
                  e.validate /\ (Anonymous \/ e.jid # seen(s))}
  IN  IF moved = {} THEN r ELSE removeRole(removeNicks(r, moved), s.nick)

(* RoleList::calc(), insert(key, from) and update(key, value).             *)
calc(role) == IF role = "moderator" THEN 40 ELSE 20
bareRole(jid) == IF jid = Owner THEN 200 ELSE 0

updateRole(old, value) == IF old >= value THEN old
                          ELSE IF value >= 30 THEN value ELSE 0
\* Mutant: without insert() the update can only raise.
privilegeOnlyRises(old, s) == updateRole(old, calc(s.role))

privilege(old, s) ==
  updateRole(IF seen(s) = NoJid THEN old ELSE bareRole(s.jid), calc(s.role))

Arrives(type) == up /\ toBot # <<>> /\ Head(toBot).type = type

Become(r) ==
  /\ bot' = r.bot
  /\ db' = r.db
  /\ toBot' = Tail(toBot)
  /\ UNCHANGED <<up, occ, toServer, stops>>

presenceNotHandled ==
  /\ \E type \in {"available", "unavailable", "error"} : Arrives(type)
  /\ ~canHandlePresence
  /\ Become([bot |-> bot, db |-> db])

\* Mutant: the entry in confInProgress outlives the refusal.
errorRejoinsTwice ==
  /\ Arrives("error") /\ canHandlePresence
  /\ Head(toBot).nick # registeredNick
  /\ join(bot, registeredNick)
  /\ toBot' = Tail(toBot)
  /\ UNCHANGED <<up, db, occ, stops>>

(* type='error': another nick is given up for the registered one ...       *)
errorRejoins ==
  /\ Arrives("error") /\ canHandlePresence
  /\ Head(toBot).nick # registeredNick
  /\ join([bot EXCEPT !.joining = NoNick], registeredNick)
  /\ toBot' = Tail(toBot)
  /\ UNCHANGED <<up, db, occ, stops>>

\* Mutant: the nick of the refusal is not compared.
errorDisablesAtOnce ==
  /\ Arrives("error") /\ canHandlePresence
  /\ Become([bot |-> [bot EXCEPT !.joining = NoNick, !.refused = bot.nick # NoNick],
             db  |-> [db EXCEPT !.autojoin = FALSE]])

(* ... and the registered one for good: the owner is told.                 *)
errorDisablesAutoJoin ==
  /\ Arrives("error") /\ canHandlePresence
  /\ Head(toBot).nick = registeredNick
  /\ Become([bot |-> [bot EXCEPT !.joining = NoNick, !.refused = bot.nick # NoNick],
             db  |-> [db EXCEPT !.autojoin = FALSE]])

Prepared(type) == Arrives(type) /\ canHandlePresence
preparedRoom == revalidated(opened, Head(toBot))
sender == byName(preparedRoom.bot.nicks, Head(toBot).nick)

isOwnNick == \E e \in sender : e.nick = preparedRoom.bot.nick

presenceOfNobody ==
  /\ Prepared("unavailable")
  /\ sender = {}
  /\ Become(preparedRoom)

nickLeaves ==
  /\ Prepared("unavailable")
  /\ sender # {} /\ ~isOwnNick
  /\ Become(removeRole(removeNicks(preparedRoom, sender), Head(toBot).nick))

(* Status 303: Conference::setNick()                                       *)
ownNickChanges ==
  LET new == Head(toBot).newNick
      r   == removeRole(removeNicks(preparedRoom, sender), Head(toBot).nick)
  IN  /\ Prepared("unavailable")
      /\ isOwnNick /\ new # NoNick
      /\ Become([bot |-> [r.bot EXCEPT !.nick = new],
                 db  |-> [r.db EXCEPT !.nick = new]])

(* "!!! I'm kicked/banned": setAutoJoin(false), ~Conference().  Only a     *)
(* Conference without lazyLeave takes its rows offline.  The roles of the  *)
(* other occupants stay in the RoleList.                                   *)
roomRemoved(r) ==
  [bot |-> [r.bot EXCEPT !.nick = NoNick, !.validated = FALSE, !.nicks = {},
                         !.refused = FALSE],
   db  |-> IF r.bot.lazyOffline THEN r.db
           ELSE [r.db EXCEPT !.online = FALSE,
                             !.seats = @ \ seatsOf(r.bot.nicks)]]

ownNickLeaves ==
  LET r == removeRole(roomRemoved(preparedRoom), Head(toBot).nick)
  IN  /\ Prepared("unavailable")
      /\ isOwnNick /\ Head(toBot).newNick = NoNick
      /\ Become([r EXCEPT !.db.autojoin = FALSE])

(* Somebody is there: a new Nick, or news of a known one, and commit().    *)
nickPresent ==
  LET s == Head(toBot)
      r == preparedRoom
      entries == IF sender = {}
                 THEN {[nick |-> s.nick, jid |-> seen(s), role |-> s.role,
                        validate |-> FALSE]}
                 ELSE {[e EXCEPT !.jid = seen(s), !.role = s.role, !.validate = FALSE] :
                         e \in sender}
  IN  /\ Prepared("available")
      /\ Become([bot |-> [r.bot EXCEPT
                            !.nicks = (@ \ sender) \union entries,
                            !.roles[s.nick] = privilege(@, s)],
                 db  |-> [r.db EXCEPT !.seats = (@ \ seatsOf(sender)) \union seatsOf(entries)]])

\* Mutant: the room is declared validated, the nicks stay.
offlineMessageOnly ==
  /\ Arrives("delayed")
  /\ Become([bot |-> [bot EXCEPT !.validated = bot.nick # NoNick], db |-> db])

(* MucPlugin::canHandleMessage(), the history of a room: the loaded nicks  *)
(* nobody has confirmed by now are gone.                                   *)
offlineMessage ==
  LET unconfirmed == {e \in bot.nicks : e.validate}
      r == removeNicks([bot |-> bot, db |-> db], unconfirmed)
  IN  /\ Arrives("delayed")
      /\ IF bot.lazyOffline /\ bot.nick # NoNick /\ ~bot.validated
         THEN Become([r EXCEPT !.bot.validated = TRUE])
         ELSE Become([bot |-> bot, db |-> db])

-----------------------------------------------------------------------------
(* The process.                                                            *)

(* ConferenceList() takes every room offline; onConnect() joins the rooms  *)
(* of autoJoinList() with the nick of their row.                           *)
start ==
  /\ ~up
  /\ up' = TRUE
  /\ db' = [db EXCEPT !.online = FALSE]
  /\ \E lazy \in LazySettings :
       LET b == [EmptyMemory EXCEPT !.lazyOffline = lazy]
       IN  IF db.autojoin THEN join(b, db.nick)
                          ELSE bot' = b /\ UNCHANGED toServer
  /\ UNCHANGED <<occ, toBot, stops>>

(* The stream is gone, and the server notices.                             *)
streamEnds ==
  /\ up
  /\ stops < MaxStops
  /\ up' = FALSE
  /\ bot' = EmptyMemory
  /\ occ' = [n \in Nick |-> IF occ[n].jid = BotJid THEN Unseated ELSE occ[n]]
  /\ toServer' = <<>>
  /\ toBot' = <<>>
  /\ stops' = stops + 1

(* onDisconnect(): conferences.clear() or lazyClear(), then exit().        *)
onDisconnect ==
  /\ streamEnds
  /\ db' = IF bot.nick = NoNick THEN db
           ELSE roomRemoved([bot |-> bot, db |-> db]).db

crash ==
  /\ streamEnds
  /\ UNCHANGED db

-----------------------------------------------------------------------------
onPresence == \/ presenceNotHandled \/ errorRejoins \/ errorDisablesAutoJoin
              \/ presenceOfNobody \/ nickLeaves \/ nickPresent
              \/ ownNickChanges \/ ownNickLeaves
Bot == onPresence \/ offlineMessage
Commands == \/ JOIN \/ LEAVE \/ sltAutoLeaveTimerTimeout
            \/ \E n \in Nick : SETNICK(n)
Server == serverAdmits \/ serverRefuses \/ serverRenames \/ serverLetsGo
People == \/ \E n \in PersonNick, jid \in Person, role \in Roles :
               personEnters(n, jid, role)
          \/ \E n \in PersonNick, role \in Roles : personChangesRole(n, role)
          \/ \E n \in PersonNick : personLeaves(n)
          \/ botIsKicked
Process == start \/ onDisconnect \/ crash

Next == Bot \/ Commands \/ Server \/ People \/ Process

Spec == Init /\ [][Next]_vars

(* The bot and the server work off what they are sent, and the process is  *)
(* started again.  Nobody is obliged to give commands or to come and go.   *)
Fairness == WF_vars(Bot) /\ WF_vars(Server) /\ WF_vars(start)
FairSpec == Spec /\ Fairness

-----------------------------------------------------------------------------
(* Every variable has its type.                                            *)
TypeOK ==
  /\ up \in BOOLEAN
  /\ bot \in Memory
  /\ db \in Database
  /\ occ \in [Nick -> [jid : Jids \union {NoJid}, role : Roles \union {"none"}]]
  /\ toServer \in Seq(Request)
  /\ toBot \in Seq(Stanza)
  /\ stops \in 0 .. MaxStops

(* Once it has read everything it was sent, the bot has a Conference       *)
(* exactly when it sits in the room, under the nick it sits there with,    *)
(* and its confirmed nicks are the occupants with their roles.  After the  *)
(* history was seen no unconfirmed nick is left (lazyoffline).             *)
Mirror ==
  up /\ toBot = <<>> =>
    /\ bot.nick # NoNick <=> InRoom
    /\ InRoom =>
         /\ occ[bot.nick].jid = BotJid
         /\ {<<e.nick, e.role>> : e \in {x \in bot.nicks : ~x.validate}}
              = {<<n, occ[n].role>> : n \in {m \in Nick : Occupied(m)}}
    /\ bot.validated => \A e \in bot.nicks : ~e.validate

(* NickList holds one Nick per folded name, so byName() is unambiguous,    *)
(* whatever rows an earlier process has left behind.                       *)
NicksAreUnique ==
  \A e, f \in bot.nicks : Fold[e.nick] = Fold[f.nick] => e = f

(* The rows marked online are those of the Nick objects, in the presence   *)
(* of crashes too: as soon as there is a Conference no stale row is left   *)
(* that SEEN would report as being here.                                   *)
SeatsMatchNicks ==
  bot.nick # NoNick => db.seats = seatsOf(bot.nicks)

(* What RoleList grants an occupant is what the owner table and the room   *)
(* give that occupant now, not what somebody else had under the same nick, *)
(* what it had before a demotion, or what a former stay has left behind.   *)
RolesAreCurrent ==
  up /\ toBot = <<>> =>
    \A e \in bot.nicks :
      ~e.validate => bot.roles[e.nick] = privilege(0, available(e.nick, occ[e.nick]))

(* autojoin says what the next process will do: with nothing under way it  *)
(* is set exactly while the bot sits in the room, but for a bot that was   *)
(* refused its registered nick there: it has cleared autojoin and stays.   *)
AutoJoinFollowsRoom ==
  up /\ toBot = <<>> /\ toServer = <<>> =>
    /\ db.autojoin => InRoom
    /\ InRoom => db.autojoin \/ bot.refused

(* "Looks like I can't join": autojoin is taken back, and the owner told,  *)
(* only when the bot has no Conference for the room, or when it is there   *)
(* under another nick and the NickList shows somebody under the registered *)
(* one.  Assumes ~RenameRaces: a SETNICK meets no refusal already sent.    *)
ErrorMeansNotJoined ==
  [][errorDisablesAutoJoin =>
       \/ bot.nick = NoNick
       \/ /\ bot.nick # registeredNick
          /\ \E e \in bot.nicks : e.nick = registeredNick /\ ~e.validate]_vars

(* After a restart the bot returns to a room it was to rejoin, unless it   *)
(* is refused there under the registered nick.                             *)
ReturnsToRoom == db.autojoin ~> (bot.nick # NoNick \/ ~db.autojoin)
=============================================================================
