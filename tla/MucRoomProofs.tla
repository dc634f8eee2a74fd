---------------------------- MODULE MucRoomProofs ----------------------------
(***************************************************************************)
(* Proofs about MucRoom, for any finite set of nicks, any way to fold      *)
(* them, any occupants and any number of stanzas under way and of stops.   *)
(***************************************************************************)
EXTENDS MucRoom, FiniteSetTheorems, SequenceTheorems, WellFoundedInduction, TLAPS

Seat == [jid : Jids \union {NoJid}, role : Roles \union {"none"}]

(* What the server tells somebody who enters.                              *)
LEMMA OthersType ==
  ASSUME TypeOK, NEW others \in SUBSET Nick, NEW order \in SetToSeqs(others)
  PROVE  [i \in DOMAIN order |-> available(order[i], occ[order[i]])] \in Seq(Stanza)
<1>1. IsFiniteSet(others)
  BY ConstantsAssumption, FS_Subset
<1>2. Cardinality(others) \in Nat
  BY <1>1, FS_CardinalityType
<1>3. order \in [1..Cardinality(others) -> others]
  BY DEF SetToSeqs
<1>4. \A n \in Nick : available(n, occ[n]) \in Stanza
  BY DEF TypeOK, available, Stanza
<1>5. [i \in DOMAIN order |-> available(order[i], occ[order[i]])]
        \in [1..Cardinality(others) -> Stanza]
  BY <1>3, <1>4
<1>6. QED
  BY <1>2, <1>5

LEMMA TailType ==
  ASSUME NEW S, NEW q \in Seq(S), q # <<>>
  PROVE  Head(q) \in S /\ Tail(q) \in Seq(S)
OBVIOUS

LEMMA AppendType ==
  ASSUME NEW S, NEW q \in Seq(S), NEW e \in S
  PROVE  Append(q, e) \in Seq(S)
OBVIOUS

LEMMA ConcatType ==
  ASSUME NEW S, NEW q \in Seq(S), NEW r \in Seq(S)
  PROVE  q \o r \in Seq(S)
OBVIOUS

(* The messages of the server and the requests of the bot.                 *)
LEMMA StanzaTypes ==
  ASSUME TypeOK, NEW n \in Nick
  PROVE  /\ \A o \in Seat : available(n, o) \in Stanza
         /\ \A new \in Nick \union {NoNick} : unavailable(n, new) \in Stanza
         /\ errorFrom(n) \in Stanza /\ delayed \in Stanza
BY DEF TypeOK, available, unavailable, errorFrom, delayed, Stanza, Seat

LEMMA SeatTypes ==
  ASSUME TypeOK
  PROVE  /\ \A n \in Nick : occ[n] \in Seat
         /\ Unseated \in Seat
         /\ InRoom => BotSeat \in Nick
BY DEF TypeOK, Seat, Unseated, InRoom, BotSeat, BotSeats

LEMMA SendType ==
  ASSUME TypeOK, NEW type \in {"presence", "unavailable"}, NEW n \in Nick,
         NEW why \in {"JOIN", "SETNICK", "LEAVE"}
  PROVE  send(type, n, why) \in Seq(Request)
<1>1. [type |-> type, nick |-> n, why |-> why] \in Request
  BY DEF Request
<1>2. QED
  BY <1>1, AppendType DEF send, TypeOK

(* What the server and the people in the room do keeps the types.          *)
LEMMA ServerType ==
  ASSUME TypeOK, Server
  PROVE  TypeOK'
<1> USE DEF Seat
<1>1. toServer # <<>> /\ Head(toServer) \in Request /\ Tail(toServer) \in Seq(Request)
  BY TailType DEF Server, serverAdmits, serverRefuses, serverRenames,
                  serverLetsGo, Asked, TypeOK
<1> DEFINE n == Head(toServer).nick
<1>2. n \in Nick
  BY <1>1 DEF Request
<1> HIDE DEF n
<1>3. toServer' = Tail(toServer) /\ UNCHANGED <<up, bot, db, stops>>
  BY DEF Server, serverAdmits, serverRefuses, serverRenames, serverLetsGo
<1>4. toBot \in Seq(Stanza) /\ occ \in [Nick -> Seat]
  BY DEF TypeOK
<1>5. toBot' \in Seq(Stanza) /\ occ' \in [Nick -> Seat]
  <2>1. CASE serverAdmits
    <3> DEFINE others == {m \in Nick : Occupied(m)}
               me == [jid |-> BotJid, role |-> "participant"]
    <3>1. me \in Seat
      BY DEF Jids, Roles
    <3>2. PICK order \in SetToSeqs(others), history \in {<<>>, <<delayed>>} :
            toBot' = toBot \o [i \in DOMAIN order |-> available(order[i], occ[order[i]])]
                           \o <<available(n, me)>> \o history
      BY <2>1 DEF serverAdmits, n
    <3>3. occ' = [occ EXCEPT ![n] = me]
      BY <2>1 DEF serverAdmits, n
    <3> HIDE DEF me
    <3>4. <<available(n, me)>> \in Seq(Stanza) /\ history \in Seq(Stanza)
      <4>1. available(n, me) \in Stanza /\ delayed \in Stanza
        BY <1>2, <3>1, StanzaTypes
      <4>2. <<available(n, me)>> \in Seq(Stanza) /\ <<delayed>> \in Seq(Stanza)
        BY <4>1
      <4>3. <<>> \in Seq(Stanza)
        OBVIOUS
      <4>4. QED
        BY <4>2, <4>3
    <3>5. [i \in DOMAIN order |-> available(order[i], occ[order[i]])] \in Seq(Stanza)
      BY OthersType
    <3>6. toBot' \in Seq(Stanza)
      BY <1>4, <3>2, <3>4, <3>5, ConcatType
    <3>7. QED
      BY <1>4, <3>1, <3>3, <3>6
  <2>2. CASE serverRefuses
    <3>1. errorFrom(n) \in Stanza
      BY <1>2, StanzaTypes
    <3>2. QED
      BY <1>4, <2>2, <3>1, AppendType DEF serverRefuses, n
  <2>3. CASE serverRenames
    <3>1. BotSeat \in Nick /\ occ[BotSeat] \in Seat /\ Unseated \in Seat
      BY <2>3, SeatTypes DEF serverRenames
    <3>2. unavailable(BotSeat, n) \in Stanza /\ available(n, occ[BotSeat]) \in Stanza
      BY <1>2, <3>1, StanzaTypes
    <3>3. /\ <<unavailable(BotSeat, n)>> \in Seq(Stanza)
          /\ <<available(n, occ[BotSeat])>> \in Seq(Stanza)
          /\ <<>> \in Seq(Stanza)
      BY <3>2
    <3>4. toBot' \in Seq(Stanza)
      BY <1>4, <2>3, <3>3, ConcatType DEF serverRenames, n
    <3>5. occ' \in [Nick -> Seat]
      BY <1>4, <2>3, <3>1 DEF serverRenames, n
    <3>6. QED
      BY <3>4, <3>5
  <2>4. CASE serverLetsGo
    <3>1. InRoom => unavailable(BotSeat, NoNick) \in Stanza /\ Unseated \in Seat
      BY SeatTypes, StanzaTypes
    <3>2. CASE InRoom
      <4>1. /\ toBot' = Append(toBot, unavailable(BotSeat, NoNick))
            /\ occ' = [occ EXCEPT ![BotSeat] = Unseated]
        BY <2>4, <3>2 DEF serverLetsGo
      <4>2. QED
        BY <1>4, <3>1, <3>2, <4>1, AppendType
    <3>3. CASE ~InRoom
      BY <1>4, <2>4, <3>3 DEF serverLetsGo
    <3>4. QED
      BY <3>2, <3>3
  <2>5. QED
    BY <2>1, <2>2, <2>3, <2>4 DEF Server
<1>6. QED
  BY <1>1, <1>3, <1>5 DEF TypeOK

LEMMA PeopleType ==
  ASSUME TypeOK, People
  PROVE  TypeOK'
<1> USE DEF Seat
<1>1. toBot \in Seq(Stanza) /\ occ \in [Nick -> Seat] /\ PersonNick \subseteq Nick
  BY ConstantsAssumption DEF TypeOK
<1>2. UNCHANGED <<up, bot, db, toServer, stops>>
  BY DEF People, personEnters, personChangesRole, personLeaves, botIsKicked
<1>3. toBot' \in Seq(Stanza) /\ occ' \in [Nick -> Seat]
  <2>1. ASSUME NEW n \in PersonNick, NEW jid \in Person, NEW role \in Roles,
               personEnters(n, jid, role)
        PROVE  toBot' \in Seq(Stanza) /\ occ' \in [Nick -> Seat]
    <3>1. n \in Nick /\ [jid |-> jid, role |-> role] \in Seat
      BY <1>1 DEF Jids
    <3>2. occ' = [occ EXCEPT ![n] = [jid |-> jid, role |-> role]]
      BY <2>1 DEF personEnters
    <3>3. occ' \in [Nick -> Seat] /\ occ'[n] \in Seat
      BY <1>1, <3>1, <3>2
    <3>4. available(n, occ'[n]) \in Stanza
      BY <3>1, <3>3, StanzaTypes
    <3>5. QED
      BY <1>1, <2>1, <3>3, <3>4, AppendType DEF personEnters, Tell
  <2>2. ASSUME NEW n \in PersonNick, NEW role \in Roles, personChangesRole(n, role)
        PROVE  toBot' \in Seq(Stanza) /\ occ' \in [Nick -> Seat]
    <3>1. n \in Nick /\ occ[n] \in Seat
      BY <1>1
    <3>2. occ' = [occ EXCEPT ![n] = [occ[n] EXCEPT !.role = role]]
      BY <2>2 DEF personChangesRole
    <3>3. [occ[n] EXCEPT !.role = role] \in Seat
      BY <3>1
    <3>4. occ' \in [Nick -> Seat] /\ occ'[n] \in Seat
      BY <1>1, <3>1, <3>2, <3>3
    <3>5. available(n, occ'[n]) \in Stanza
      BY <3>1, <3>4, StanzaTypes
    <3>6. QED
      BY <1>1, <2>2, <3>4, <3>5, AppendType DEF personChangesRole, Tell
  <2>3. ASSUME NEW n \in PersonNick, personLeaves(n)
        PROVE  toBot' \in Seq(Stanza) /\ occ' \in [Nick -> Seat]
    <3>1. unavailable(n, NoNick) \in Stanza /\ Unseated \in Seat
      BY <1>1, StanzaTypes, SeatTypes
    <3>2. QED
      BY <1>1, <2>3, <3>1, AppendType DEF personLeaves, Tell
  <2>4. CASE botIsKicked
    <3>1. unavailable(BotSeat, NoNick) \in Stanza /\ Unseated \in Seat
      BY <2>4, StanzaTypes, SeatTypes DEF botIsKicked
    <3>2. QED
      BY <1>1, <2>4, <3>1, AppendType DEF botIsKicked
  <2>5. QED
    BY <2>1, <2>2, <2>3, <2>4 DEF People
<1>4. QED
  BY <1>2, <1>3 DEF TypeOK

-----------------------------------------------------------------------------
(* What the handlers of the bot do is done to states of the room, pairs    *)
(* r.bot and r.db.  A sound one has its types, one Nick for each folded    *)
(* name, in the memory and among the rows marked online, with a Conference *)
(* these rows are those of its Nick objects, and autojoin has a nick.      *)
State == [bot : Memory, db : Database]

Unique(nicks) == \A e, f \in nicks : Fold[e.nick] = Fold[f.nick] => e = f
UniqueSeats(seats) == \A c, d \in seats : Fold[c[1]] = Fold[d[1]] => c = d

Sound(r) ==
  /\ r \in State
  /\ Unique(r.bot.nicks) /\ UniqueSeats(r.db.seats)
  /\ r.bot.nick = NoNick => r.bot.nicks = {}
  /\ r.bot.nick # NoNick => r.db.seats = seatsOf(r.bot.nicks)
  /\ r.db.autojoin => r.db.nick # NoNick

Now == [bot |-> bot, db |-> db]
IInv == TypeOK /\ Sound(Now)

LEMMA StateType ==
  ASSUME NEW r \in State
  PROVE  /\ r.bot \in Memory /\ r.db \in Database
         /\ r = [bot |-> r.bot, db |-> r.db]
BY DEF State

LEMMA SeatsFacts ==
  ASSUME NEW nicks \in SUBSET NickEntry
  PROVE  /\ seatsOf(nicks) \in SUBSET (Nick \X (Jids \union {NoJid}))
         /\ Unique(nicks) => UniqueSeats(seatsOf(nicks))
<1>1. \A e \in nicks : e.nick \in Nick /\ e.jid \in Jids \union {NoJid}
  BY DEF NickEntry
<1>2. \A c \in seatsOf(nicks) : \E e \in nicks : c = <<e.nick, e.jid>>
  BY DEF seatsOf
<1>3. seatsOf(nicks) \in SUBSET (Nick \X (Jids \union {NoJid}))
  BY <1>1, <1>2
<1>4. Unique(nicks) => UniqueSeats(seatsOf(nicks))
  <2> SUFFICES ASSUME Unique(nicks), NEW c \in seatsOf(nicks), NEW d \in seatsOf(nicks),
                      Fold[c[1]] = Fold[d[1]]
               PROVE  c = d
    BY DEF UniqueSeats
  <2>1. PICK e \in nicks : c = <<e.nick, e.jid>>
    BY <1>2
  <2>2. PICK f \in nicks : d = <<f.nick, f.jid>>
    BY <1>2
  <2>3. e = f
    BY <2>1, <2>2 DEF Unique
  <2>4. QED
    BY <2>1, <2>2, <2>3
<1>5. QED
  BY <1>3, <1>4

(* A change of one field of one half.                                      *)
LEMMA ExceptFacts ==
  ASSUME NEW r \in State
  PROVE  /\ [r EXCEPT !.db.autojoin = FALSE]
              = [bot |-> r.bot, db |-> [r.db EXCEPT !.autojoin = FALSE]]
         /\ [r EXCEPT !.bot.validated = TRUE]
              = [bot |-> [r.bot EXCEPT !.validated = TRUE], db |-> r.db]
<1> DEFINE b == [r.bot EXCEPT !.validated = TRUE]
           d == [r.db EXCEPT !.autojoin = FALSE]
<1>1. r = [bot |-> r.bot, db |-> r.db]
  BY StateType
<1>2. [r EXCEPT !.db.autojoin = FALSE] = [r EXCEPT !.db = d]
  OBVIOUS
<1>3. [r EXCEPT !.bot.validated = TRUE] = [r EXCEPT !.bot = b]
  OBVIOUS
<1> HIDE DEF b, d
<1>4. [r EXCEPT !.db = d] = [bot |-> r.bot, db |-> d]
  BY <1>1
<1>5. [r EXCEPT !.bot = b] = [bot |-> b, db |-> r.db]
  BY <1>1
<1>6. QED
  BY <1>2, <1>3, <1>4, <1>5 DEF b, d

(* ~Nick() of some takes exactly their rows offline.                       *)
LEMMA RemoveNicksSound ==
  ASSUME NEW r, Sound(r), NEW list \in SUBSET r.bot.nicks
  PROVE  /\ Sound(removeNicks(r, list))
         /\ removeNicks(r, list).bot.nicks = r.bot.nicks \ list
         /\ removeNicks(r, list).bot.nick = r.bot.nick
         /\ removeNicks(r, list).bot.lazyOffline = r.bot.lazyOffline
<1> DEFINE new == removeNicks(r, list)
<1>1. r.bot \in Memory /\ r.db \in Database /\ r.bot.nicks \in SUBSET NickEntry
  BY StateType DEF Sound, Memory
<1>2. /\ new.bot = [r.bot EXCEPT !.nicks = r.bot.nicks \ list]
      /\ new.db = [r.db EXCEPT !.seats = r.db.seats \ seatsOf(list)]
      /\ new = [bot |-> new.bot, db |-> new.db]
  BY DEF removeNicks
<1> HIDE DEF new
<1>3. /\ new.bot \in Memory /\ new.bot.nicks = r.bot.nicks \ list
      /\ new.bot.nick = r.bot.nick /\ new.bot.lazyOffline = r.bot.lazyOffline
  BY <1>1, <1>2 DEF Memory
<1>4. /\ new.db \in Database /\ new.db.seats = r.db.seats \ seatsOf(list)
      /\ new.db.nick = r.db.nick /\ new.db.autojoin = r.db.autojoin
  BY <1>1, <1>2 DEF Database
<1>5. new \in State
  BY <1>2, <1>3, <1>4 DEF State
<1>6. Unique(new.bot.nicks) /\ UniqueSeats(new.db.seats)
  BY <1>3, <1>4 DEF Sound, Unique, UniqueSeats
<1>7. seatsOf(r.bot.nicks) \ seatsOf(list) = seatsOf(r.bot.nicks \ list)
  <2>1. \A e, f \in r.bot.nicks : <<e.nick, e.jid>> = <<f.nick, f.jid>> => e = f
    BY DEF Sound, Unique
  <2>2. QED
    BY <2>1 DEF seatsOf
<1>8. QED
  BY <1>3, <1>4, <1>5, <1>6, <1>7 DEF Sound, new

LEMMA RemoveRoleSound ==
  ASSUME NEW r, Sound(r), NEW n
  PROVE  /\ Sound(removeRole(r, n))
         /\ removeRole(r, n).bot.nicks = r.bot.nicks
         /\ removeRole(r, n).bot.nick = r.bot.nick
         /\ removeRole(r, n).bot.lazyOffline = r.bot.lazyOffline
         /\ removeRole(r, n).db = r.db
<1>1. r.bot \in Memory /\ r = [bot |-> r.bot, db |-> r.db]
  BY StateType DEF Sound
<1>2. [r.bot.roles EXCEPT ![n] = 0] \in [Nick -> {0, 40, 200}]
  BY <1>1 DEF Memory
<1>3. removeRole(r, n) = [bot |-> [r.bot EXCEPT !.roles = [r.bot.roles EXCEPT ![n] = 0]],
                          db |-> r.db]
  BY <1>1 DEF removeRole
<1>4. [r.bot EXCEPT !.roles = [r.bot.roles EXCEPT ![n] = 0]] \in Memory
  BY <1>1, <1>2 DEF Memory
<1>5. QED
  BY <1>1, <1>3, <1>4 DEF Sound, State, Memory

(* A new Conference has one Nick per row it was given.                     *)
LEMMA OpenedSound ==
  ASSUME IInv, canHandlePresence
  PROVE  Sound(opened) /\ opened.bot.nick # NoNick
<1>1. Sound(Now) /\ bot \in Memory /\ db \in Database
  BY DEF IInv, TypeOK
<1>2. CASE bot.nick # NoNick
  BY <1>1, <1>2 DEF opened, Now
<1>3. CASE bot.nick = NoNick
  <2> DEFINE seats == IF bot.lazyOffline THEN db.seats ELSE {}
             entry(c) == [nick |-> c[1], jid |-> c[2], role |-> "none",
                          validate |-> TRUE]
             nicks == {entry(c) : c \in seats}
             b == [bot EXCEPT !.joining = NoNick, !.nick = bot.joining,
                              !.validated = FALSE, !.nicks = nicks]
             d == [nick |-> bot.joining, autojoin |-> TRUE, online |-> TRUE,
                   seats |-> seats]
  <2>1. opened = [bot |-> b, db |-> d]
    BY <1>3 DEF opened
  <2>2. seats \in SUBSET (Nick \X (Jids \union {NoJid})) /\ UniqueSeats(seats)
    BY <1>1 DEF Database, Sound, Now, UniqueSeats
  <2> HIDE DEF seats
  <2>3. nicks \in SUBSET NickEntry
    <3> SUFFICES ASSUME NEW c \in seats PROVE entry(c) \in NickEntry
      OBVIOUS
    <3>1. c[1] \in Nick /\ c[2] \in Jids \union {NoJid}
      BY <2>2
    <3>2. QED
      BY <3>1 DEF NickEntry
  <2>4. Unique(nicks)
    <3> SUFFICES ASSUME NEW c \in seats, NEW e \in seats,
                        Fold[entry(c).nick] = Fold[entry(e).nick]
                 PROVE  c = e
      BY DEF Unique
    <3>1. QED
      BY <2>2 DEF UniqueSeats
  <2>5. seatsOf(nicks) = seats
    <3>1. \A c \in seats : c = <<c[1], c[2]>>
      BY <2>2
    <3>2. \A c \in seats : <<entry(c).nick, entry(c).jid>> = c
      BY <3>1
    <3>3. seatsOf(nicks) = {<<entry(c).nick, entry(c).jid>> : c \in seats}
      BY DEF seatsOf
    <3>4. QED
      BY <3>2, <3>3
  <2>6. bot.joining \in Nick /\ bot.joining # NoNick
    BY <1>1, <1>3, ConstantsAssumption DEF canHandlePresence, Memory
  <2> HIDE DEF nicks
  <2>7. b \in Memory /\ b.nick = bot.joining /\ b.nicks = nicks
    BY <1>1, <2>3, <2>6 DEF Memory
  <2>8. d \in Database /\ d.seats = seats /\ d.nick # NoNick
    BY <2>2, <2>6 DEF Database
  <2> HIDE DEF b, d
  <2>9. QED
    BY <2>1, <2>2, <2>4, <2>5, <2>6, <2>7, <2>8 DEF Sound, State
<1>4. QED
  BY <1>2, <1>3

LEMMA RevalidatedSound ==
  ASSUME NEW r, Sound(r), NEW s
  PROVE  Sound(revalidated(r, s)) /\ revalidated(r, s).bot.nick = r.bot.nick
<1> DEFINE moved == {e \in byName(r.bot.nicks, s.nick) :
                       e.validate /\ (Anonymous \/ e.jid # seen(s))}
<1>1. moved \in SUBSET r.bot.nicks
  BY DEF byName
<1> HIDE DEF moved
<1>2. Sound(removeNicks(r, moved)) /\ removeNicks(r, moved).bot.nick = r.bot.nick
  BY <1>1, RemoveNicksSound
<1>3. /\ Sound(removeRole(removeNicks(r, moved), s.nick))
      /\ removeRole(removeNicks(r, moved), s.nick).bot.nick = r.bot.nick
  BY <1>2, RemoveRoleSound
<1>4. revalidated(r, s) = IF moved = {} THEN r ELSE removeRole(removeNicks(r, moved), s.nick)
  BY DEF revalidated, moved
<1>5. QED
  BY <1>3, <1>4

(* ~Conference() forgets the Nick objects; their rows stay as they are or  *)
(* are taken offline, by the old owner or the next Conference.             *)
LEMMA RoomRemovedSound ==
  ASSUME NEW r, Sound(r)
  PROVE  Sound(roomRemoved(r))
<1>1. r.bot \in Memory /\ r.db \in Database
  BY StateType DEF Sound
<1>2. [r.bot EXCEPT !.nick = NoNick, !.validated = FALSE, !.nicks = {},
                    !.refused = FALSE] \in Memory
  BY <1>1 DEF Memory
<1>3. /\ roomRemoved(r).db \in Database
      /\ roomRemoved(r).db.seats \subseteq r.db.seats
      /\ roomRemoved(r).db.nick = r.db.nick
      /\ roomRemoved(r).db.autojoin = r.db.autojoin
  <2>1. CASE r.bot.lazyOffline
    BY <1>1, <2>1 DEF roomRemoved
  <2>2. CASE ~r.bot.lazyOffline
    <3>1. roomRemoved(r).db = [r.db EXCEPT !.online = FALSE,
                                           !.seats = r.db.seats \ seatsOf(r.bot.nicks)]
      BY <2>2 DEF roomRemoved
    <3>2. QED
      BY <1>1, <3>1 DEF Database
  <2>3. QED
    BY <2>1, <2>2
<1>4. /\ roomRemoved(r).bot = [r.bot EXCEPT !.nick = NoNick, !.validated = FALSE,
                                            !.nicks = {}, !.refused = FALSE]
      /\ roomRemoved(r) = [bot |-> roomRemoved(r).bot, db |-> roomRemoved(r).db]
  BY DEF roomRemoved
<1>5. roomRemoved(r).bot.nick = NoNick /\ roomRemoved(r).bot.nicks = {}
  BY <1>1, <1>4 DEF Memory
<1>6. roomRemoved(r) \in State
  BY <1>2, <1>3, <1>4 DEF State
<1>7. Unique({}) /\ UniqueSeats(roomRemoved(r).db.seats)
  BY <1>3 DEF Sound, Unique, UniqueSeats
<1>8. QED
  BY <1>3, <1>5, <1>6, <1>7 DEF Sound

LEMMA PrivilegeType ==
  ASSUME NEW old \in {0, 40, 200}, NEW s
  PROVE  privilege(old, s) \in {0, 40, 200}
<1>1. calc(s.role) \in {20, 40} /\ bareRole(s.jid) \in {0, 200}
  BY DEF calc, bareRole
<1>2. ASSUME NEW x \in {0, 40, 200}, NEW y \in {20, 40}
      PROVE  updateRole(x, y) \in {0, 40, 200}
  BY <1>2 DEF updateRole
<1>3. QED
  BY <1>1, <1>2 DEF privilege

(* News of somebody: its Nick is the only one of that name, or a new one.  *)
LEMMA PresentSound ==
  ASSUME NEW r, Sound(r), r.bot.nick # NoNick, NEW s \in Stanza, s.nick \in Nick
  PROVE  LET here == byName(r.bot.nicks, s.nick)
             entries == IF here = {}
                        THEN {[nick |-> s.nick, jid |-> seen(s), role |-> s.role,
                               validate |-> FALSE]}
                        ELSE {[e EXCEPT !.jid = seen(s), !.role = s.role,
                                        !.validate = FALSE] : e \in here}
         IN  Sound([bot |-> [r.bot EXCEPT !.nicks = (@ \ here) \union entries,
                                          !.roles[s.nick] = privilege(@, s)],
                    db |-> [r.db EXCEPT !.seats = (@ \ seatsOf(here)) \union seatsOf(entries)]])
<1> DEFINE here == byName(r.bot.nicks, s.nick)
           first == [nick |-> s.nick, jid |-> seen(s), role |-> s.role,
                     validate |-> FALSE]
           news(e) == [e EXCEPT !.jid = seen(s), !.role = s.role, !.validate = FALSE]
           entries == IF here = {} THEN {first} ELSE {news(e) : e \in here}
           nicks == (r.bot.nicks \ here) \union entries
           roles == [r.bot.roles EXCEPT ![s.nick] = privilege(r.bot.roles[s.nick], s)]
           b == [r.bot EXCEPT !.nicks = nicks, !.roles = roles]
           d == [r.db EXCEPT !.seats = (r.db.seats \ seatsOf(here)) \union seatsOf(entries)]
<1>1. r.bot \in Memory /\ r.db \in Database /\ r.bot.nicks \in SUBSET NickEntry
  BY StateType DEF Sound, Memory
<1>2. /\ here \in SUBSET r.bot.nicks
      /\ \A e \in r.bot.nicks : Fold[e.nick] = Fold[s.nick] <=> e \in here
  BY DEF byName
<1>3. \A e, f \in here : e = f
  BY <1>2 DEF Sound, Unique
<1>4. s.role \in Roles \union {"none"} /\ seen(s) \in Jids \union {NoJid}
  BY DEF Stanza, delayed, seen
<1>5. first \in NickEntry /\ first.nick = s.nick
  BY <1>4 DEF NickEntry
<1>6. \A e \in here : news(e) \in NickEntry /\ news(e).nick = e.nick
  <2>1. \A e \in here : e \in NickEntry
    BY <1>1, <1>2
  <2> HIDE DEF here
  <2>2. PICK jid \in Jids \union {NoJid}, role \in Roles \union {"none"} :
          jid = seen(s) /\ role = s.role
    BY <1>4
  <2>3. \A e : news(e) = [e EXCEPT !.jid = jid, !.role = role, !.validate = FALSE]
    BY <2>2
  <2>4. \A e \in here : /\ [e EXCEPT !.jid = jid, !.role = role, !.validate = FALSE] \in NickEntry
                        /\ [e EXCEPT !.jid = jid, !.role = role, !.validate = FALSE].nick = e.nick
    BY <2>1 DEF NickEntry
  <2> HIDE DEF news
  <2> QED BY <2>3, <2>4
<1> HIDE DEF here, first, news
<1>7. entries \in SUBSET NickEntry
  BY <1>5, <1>6
<1>8. \A e, f \in entries : e = f
  BY <1>3
<1>9. \A e \in entries : Fold[e.nick] = Fold[s.nick]
  BY <1>2, <1>5, <1>6
<1> HIDE DEF entries
<1>10. seatsOf(r.bot.nicks) \ seatsOf(here) = seatsOf(r.bot.nicks \ here)
  <2>1. \A e, f \in r.bot.nicks : <<e.nick, e.jid>> = <<f.nick, f.jid>> => e = f
    BY DEF Sound, Unique
  <2> QED BY <1>2, <2>1 DEF seatsOf
<1>11. Unique(nicks)
  BY <1>2, <1>8, <1>9 DEF Sound, Unique
<1>12. (r.db.seats \ seatsOf(here)) \union seatsOf(entries) = seatsOf(nicks)
  <2>1. r.db.seats = seatsOf(r.bot.nicks)
    BY DEF Sound
  <2>2. seatsOf(nicks) = seatsOf(r.bot.nicks \ here) \union seatsOf(entries)
    BY DEF seatsOf
  <2>3. QED
    BY <1>10, <2>1, <2>2
<1>13. nicks \in SUBSET NickEntry
  BY <1>1, <1>7
<1> HIDE DEF nicks
<1>14. roles \in [Nick -> {0, 40, 200}]
  <2>1. r.bot.roles \in [Nick -> {0, 40, 200}]
    BY <1>1 DEF Memory
  <2>2. privilege(r.bot.roles[s.nick], s) \in {0, 40, 200}
    BY <2>1, PrivilegeType
  <2>3. QED
    BY <2>1, <2>2
<1> HIDE DEF roles
<1>15. b \in Memory /\ b.nicks = nicks /\ b.nick = r.bot.nick
  BY <1>1, <1>13, <1>14 DEF Memory
<1>16. seatsOf(nicks) \in SUBSET (Nick \X (Jids \union {NoJid})) /\ UniqueSeats(seatsOf(nicks))
  BY <1>11, <1>13, SeatsFacts
<1>17. /\ d \in Database /\ d.seats = seatsOf(nicks)
       /\ d.nick = r.db.nick /\ d.autojoin = r.db.autojoin
  BY <1>1, <1>12, <1>16 DEF Database
<1>18. Sound([bot |-> b, db |-> d])
  <2> HIDE DEF b, d
  <2>1. QED
    BY <1>11, <1>15, <1>16, <1>17 DEF Sound, State
<1>19. b = [r.bot EXCEPT !.nicks = (@ \ here) \union entries,
                         !.roles[s.nick] = privilege(@, s)]
  BY <1>1 DEF nicks, roles, Memory
<1>20. QED
  BY <1>18, <1>19 DEF entries, here, first, news

(* The handlers of onPresence() and of the history.                        *)
LEMMA BotStep ==
  ASSUME IInv, Bot
  PROVE  IInv'
<1>0. TypeOK /\ Sound(Now) /\ bot \in Memory /\ db \in Database
  BY DEF IInv, TypeOK
<1>1. toBot # <<>> /\ Head(toBot) \in Stanza /\ Tail(toBot) \in Seq(Stanza)
  BY <1>0, TailType
     DEF Bot, onPresence, presenceNotHandled, errorRejoins, errorDisablesAutoJoin,
         presenceOfNobody, nickLeaves, nickPresent, ownNickChanges, ownNickLeaves,
         offlineMessage, Prepared, Arrives, TypeOK
<1>2. ASSUME NEW r, Sound(r), Become(r)
      PROVE  IInv'
  <2>1. bot' = r.bot /\ db' = r.db /\ r = [bot |-> r.bot, db |-> r.db]
    BY <1>2, StateType DEF Become, Sound
  <2>2. Now' = r
    BY <2>1 DEF Now
  <2>3. bot' \in Memory /\ db' \in Database
    BY <1>2, <2>1, StateType DEF Sound
  <2>4. TypeOK'
    BY <1>0, <1>1, <1>2, <2>3 DEF Become, TypeOK
  <2>5. Sound(r)'
    BY <1>2 DEF Sound, Unique, UniqueSeats, seatsOf
  <2>6. Sound(Now)'
    <3>1. Sound(Now)' <=> Sound([bot |-> bot', db |-> db'])
      BY DEF Now, Sound, Unique, UniqueSeats, seatsOf, State
    <3>2. QED
      BY <1>2, <2>1, <3>1
  <2>7. QED
    BY <2>4, <2>6 DEF IInv
<1>3. ASSUME canHandlePresence
      PROVE  /\ Sound(preparedRoom) /\ preparedRoom.bot.nick # NoNick
             /\ sender \in SUBSET preparedRoom.bot.nicks
  BY <1>3, OpenedSound, RevalidatedSound DEF preparedRoom, sender, byName, IInv
<1>4. CASE presenceNotHandled
  BY <1>0, <1>2, <1>4 DEF presenceNotHandled, Now
<1>5. CASE errorRejoins
  <2> DEFINE b == [bot EXCEPT !.joining = NoNick]
  <2>1. b \in Memory /\ b.nick = bot.nick /\ b.nicks = bot.nicks /\ b.joining = NoNick
    BY <1>0 DEF Memory
  <2>2. join(b, registeredNick) /\ UNCHANGED <<up, db, occ, stops>> /\ toBot' = Tail(toBot)
    BY <1>5 DEF errorRejoins
  <2> HIDE DEF b
  <2>3. /\ bot' \in Memory /\ bot'.nick = b.nick /\ bot'.nicks = b.nicks
        /\ toServer' \in Seq(Request)
    <3>1. /\ bot' = [b EXCEPT !.joining = registeredNick]
          /\ toServer' = send("presence", registeredNick, "JOIN")
      BY <2>1, <2>2 DEF join
    <3>2. registeredNick \in Nick
      BY ConstantsAssumption
    <3>3. toServer' \in Seq(Request)
      BY <1>0, <3>1, <3>2, SendType
    <3>4. QED
      BY <2>1, <3>1, <3>2, <3>3 DEF Memory
  <2>4. Sound([bot |-> bot', db |-> db'])
    BY <1>0, <2>1, <2>2, <2>3 DEF Sound, Now, State
  <2>5. QED
    BY <1>0, <1>1, <2>2, <2>3, <2>4
       DEF IInv, TypeOK, Now, Sound, Unique, UniqueSeats, seatsOf, State
<1>6. CASE errorDisablesAutoJoin
  <2> DEFINE b == [bot EXCEPT !.joining = NoNick, !.refused = bot.nick # NoNick]
             d == [db EXCEPT !.autojoin = FALSE]
  <2>1. b \in Memory /\ b.nick = bot.nick /\ b.nicks = bot.nicks
    <3>1. ASSUME NEW f \in BOOLEAN
          PROVE  LET m == [bot EXCEPT !.joining = NoNick, !.refused = f]
                 IN  m \in Memory /\ m.nick = bot.nick /\ m.nicks = bot.nicks
      BY <1>0 DEF Memory
    <3> QED BY <3>1
  <2>2. d \in Database /\ d.seats = db.seats /\ ~d.autojoin
    BY <1>0 DEF Database
  <2>3. Become([bot |-> b, db |-> d])
    BY <1>6 DEF errorDisablesAutoJoin
  <2> HIDE DEF b, d
  <2>4. Sound([bot |-> b, db |-> d])
    BY <1>0, <2>1, <2>2 DEF Sound, Now, State
  <2>5. QED
    BY <1>2, <2>3, <2>4
<1>7. CASE presenceOfNobody
  BY <1>2, <1>3, <1>7 DEF presenceOfNobody, Prepared
<1>8. CASE nickLeaves
  BY <1>2, <1>3, <1>8, RemoveNicksSound, RemoveRoleSound DEF nickLeaves, Prepared
<1>9. CASE ownNickChanges
  <2> DEFINE new == Head(toBot).newNick
             r == removeRole(removeNicks(preparedRoom, sender), Head(toBot).nick)
             b == [r.bot EXCEPT !.nick = new]
             d == [r.db EXCEPT !.nick = new]
  <2>1. Sound(r) /\ r.bot.nick # NoNick
    BY <1>3, <1>9, RemoveNicksSound, RemoveRoleSound DEF ownNickChanges, Prepared
  <2>2. new \in Nick /\ new # NoNick /\ Become([bot |-> b, db |-> d])
    BY <1>1, <1>9 DEF ownNickChanges, Stanza, delayed
  <2> HIDE DEF new, r
  <2>3. r.bot \in Memory /\ r.db \in Database
    BY <2>1, StateType DEF Sound
  <2>4. b \in Memory /\ b.nick = new /\ b.nicks = r.bot.nicks
    BY <2>2, <2>3 DEF Memory
  <2>5. d \in Database /\ d.seats = r.db.seats /\ d.nick = new
    BY <2>2, <2>3 DEF Database
  <2> HIDE DEF b, d
  <2>6. Sound([bot |-> b, db |-> d])
    BY <2>1, <2>2, <2>4, <2>5 DEF Sound, State
  <2>7. QED
    BY <1>2, <2>2, <2>6
<1>10. CASE ownNickLeaves
  <2> DEFINE r == removeRole(roomRemoved(preparedRoom), Head(toBot).nick)
             d == [r.db EXCEPT !.autojoin = FALSE]
  <2>1. Sound(r)
    BY <1>3, <1>10, RoomRemovedSound, RemoveRoleSound DEF ownNickLeaves, Prepared
  <2>2. Become([r EXCEPT !.db.autojoin = FALSE])
    BY <1>10 DEF ownNickLeaves
  <2> HIDE DEF r
  <2>3. r.bot \in Memory /\ r.db \in Database /\ r = [bot |-> r.bot, db |-> r.db]
    BY <2>1, StateType DEF Sound
  <2>4. [r EXCEPT !.db.autojoin = FALSE] = [bot |-> r.bot, db |-> d]
    BY <2>1, ExceptFacts DEF Sound
  <2>5. d \in Database /\ d.seats = r.db.seats /\ ~d.autojoin
    BY <2>3 DEF Database
  <2> HIDE DEF d
  <2>6. Sound([bot |-> r.bot, db |-> d])
    BY <2>1, <2>3, <2>5 DEF Sound, State
  <2>7. QED
    BY <1>2, <2>2, <2>4, <2>6
<1>11. CASE nickPresent
  <2>1. Sound(preparedRoom) /\ preparedRoom.bot.nick # NoNick
    BY <1>3, <1>11 DEF nickPresent, Prepared
  <2>2. Head(toBot).nick \in Nick
    <3>1. Head(toBot).type = "available"
      BY <1>11 DEF nickPresent, Prepared, Arrives
    <3>2. QED
      BY <1>1, <3>1 DEF Stanza, delayed
  <2>3. QED
    BY <1>1, <1>2, <1>11, <2>1, <2>2, PresentSound DEF nickPresent, sender
<1>12. CASE offlineMessage
  <2> DEFINE unconfirmed == {e \in bot.nicks : e.validate}
             r == removeNicks([bot |-> bot, db |-> db], unconfirmed)
             b == [r.bot EXCEPT !.validated = TRUE]
  <2>1. Sound(r)
    <3>1. unconfirmed \in SUBSET Now.bot.nicks
      BY DEF Now
    <3>2. QED
      BY <1>0, <3>1, RemoveNicksSound DEF Now
  <2>2. Become([r EXCEPT !.bot.validated = TRUE]) \/ Become(Now)
    BY <1>12 DEF offlineMessage, Now
  <2> HIDE DEF r
  <2>3. r.bot \in Memory /\ r.db \in Database /\ r = [bot |-> r.bot, db |-> r.db]
    BY <2>1, StateType DEF Sound
  <2>4. [r EXCEPT !.bot.validated = TRUE] = [bot |-> b, db |-> r.db]
    BY <2>1, ExceptFacts DEF Sound
  <2>5. b \in Memory /\ b.nick = r.bot.nick /\ b.nicks = r.bot.nicks
    BY <2>3 DEF Memory
  <2> HIDE DEF b
  <2>6. Sound([bot |-> b, db |-> r.db])
    BY <2>1, <2>3, <2>5 DEF Sound, State
  <2>7. QED
    BY <1>0, <1>2, <2>2, <2>4, <2>6
<1>13. QED
  BY <1>4, <1>5, <1>6, <1>7, <1>8, <1>9, <1>10, <1>11, <1>12 DEF Bot, onPresence

(* The next state is sound when the next memory and database are.          *)
LEMMA SoundNext ==
  ASSUME Sound([bot |-> bot', db |-> db'])
  PROVE  Sound(Now)'
BY DEF Now, Sound, Unique, UniqueSeats, seatsOf, State

(* join() changes the entry in confInProgress at most.                     *)
LEMMA JoinSound ==
  ASSUME TypeOK, NEW b \in Memory, NEW n \in Nick, join(b, n)
  PROVE  /\ bot' \in Memory /\ bot'.nick = b.nick /\ bot'.nicks = b.nicks
         /\ toServer' \in Seq(Request)
<1>1. send("presence", n, "JOIN") \in Seq(Request) /\ toServer \in Seq(Request)
  BY SendType DEF TypeOK
<1>2. QED
  BY <1>1 DEF join, Memory

LEMMA CommandsStep ==
  ASSUME IInv, Commands
  PROVE  IInv'
<1>0. TypeOK /\ Sound(Now) /\ bot \in Memory /\ db \in Database /\ registeredNick \in Nick
  BY ConstantsAssumption DEF IInv, TypeOK
<1>1. CASE JOIN
  <2>1. /\ bot' \in Memory /\ bot'.nick = bot.nick /\ bot'.nicks = bot.nicks
        /\ toServer' \in Seq(Request)
    BY <1>0, <1>1, JoinSound DEF JOIN
  <2>2. Sound([bot |-> bot', db |-> db'])
    BY <1>0, <1>1, <2>1 DEF JOIN, Sound, Now, State
  <2>3. TypeOK'
    BY <1>0, <1>1, <2>1 DEF JOIN, TypeOK
  <2>4. QED
    BY <2>2, <2>3, SoundNext DEF IInv
<1>2. CASE LEAVE \/ sltAutoLeaveTimerTimeout
  <2>1. leave
    BY <1>2 DEF LEAVE, sltAutoLeaveTimerTimeout
  <2>2. /\ db' \in Database /\ db'.seats = db.seats
        /\ db'.nick = db.nick /\ (db'.autojoin => db.autojoin)
    BY <1>0, <2>1 DEF leave, Database
  <2>3. toServer' \in Seq(Request)
    BY <1>0, <2>1, SendType DEF leave
  <2>4. Sound([bot |-> bot', db |-> db'])
    BY <1>0, <2>1, <2>2 DEF leave, Sound, Now, State
  <2>5. TypeOK'
    BY <1>0, <2>1, <2>2, <2>3 DEF leave, TypeOK
  <2>6. QED
    BY <2>4, <2>5, SoundNext DEF IInv
<1>3. CASE \E n \in Nick : SETNICK(n)
  <2>1. toServer' \in Seq(Request)
    BY <1>0, <1>3, SendType DEF SETNICK
  <2>2. UNCHANGED <<up, bot, db, occ, toBot, stops>>
    BY <1>3 DEF SETNICK
  <2>3. Sound([bot |-> bot', db |-> db'])
    BY <1>0, <2>2 DEF Now
  <2>4. TypeOK'
    BY <1>0, <2>1, <2>2 DEF TypeOK
  <2>5. QED
    BY <2>3, <2>4, SoundNext DEF IInv
<1>4. QED
  BY <1>1, <1>2, <1>3 DEF Commands

LEMMA EmptyMemoryFacts ==
  /\ \A lazy \in BOOLEAN :
       LET b == [EmptyMemory EXCEPT !.lazyOffline = lazy]
       IN  b \in Memory /\ b.nick = NoNick /\ b.nicks = {}
  /\ EmptyMemory \in Memory /\ EmptyMemory.nick = NoNick /\ EmptyMemory.nicks = {}
BY DEF EmptyMemory, Memory

(* The process starts with what its predecessor has left in the database.  *)
LEMMA ProcessStep ==
  ASSUME IInv, Process
  PROVE  IInv'
<1>0. TypeOK /\ Sound(Now) /\ bot \in Memory /\ db \in Database
  BY DEF IInv, TypeOK
<1>1. UniqueSeats(db.seats) /\ (db.autojoin => db.nick # NoNick)
  BY <1>0 DEF Sound, Now
<1>2. ASSUME bot' \in Memory, bot'.nick = NoNick, bot'.nicks = {},
             db' \in Database, UniqueSeats(db'.seats),
             db'.autojoin => db'.nick # NoNick
      PROVE  Sound(Now)'
  <2>1. Sound([bot |-> bot', db |-> db'])
    BY <1>2 DEF Sound, State, Unique
  <2>2. QED
    BY <2>1, SoundNext
<1>3. CASE start
  <2>1. db' = [db EXCEPT !.online = FALSE]
    BY <1>3 DEF start
  <2>2. /\ db' \in Database /\ db'.seats = db.seats
        /\ db'.nick = db.nick /\ db'.autojoin = db.autojoin
    BY <1>0, <2>1 DEF Database
  <2>3. PICK lazy \in LazySettings :
          LET b == [EmptyMemory EXCEPT !.lazyOffline = lazy]
          IN  IF db.autojoin THEN join(b, db.nick)
                             ELSE bot' = b /\ UNCHANGED toServer
    BY <1>3 DEF start
  <2> DEFINE b == [EmptyMemory EXCEPT !.lazyOffline = lazy]
  <2>4. b \in Memory /\ b.nick = NoNick /\ b.nicks = {}
    BY EmptyMemoryFacts, ConstantsAssumption
  <2>5. /\ bot' \in Memory /\ bot'.nick = NoNick /\ bot'.nicks = {}
        /\ toServer' \in Seq(Request)
    <3>1. CASE db.autojoin
      <4>1. join(b, db.nick)
        BY <2>3, <3>1
      <4> HIDE DEF b
      <4>2. db.nick \in Nick
        BY <1>0, <1>1, <3>1 DEF Database
      <4>3. QED
        BY <1>0, <2>4, <4>1, <4>2, JoinSound
    <3>2. CASE ~db.autojoin
      BY <1>0, <2>3, <2>4, <3>2 DEF TypeOK
    <3>3. QED
      BY <3>1, <3>2
  <2>6. TypeOK'
    BY <1>0, <1>3, <2>2, <2>5 DEF start, TypeOK
  <2>7. QED
    BY <1>1, <1>2, <2>2, <2>5, <2>6 DEF IInv
<1>4. CASE onDisconnect \/ crash
  <2>1. streamEnds
    BY <1>4 DEF onDisconnect, crash
  <2>2. bot' \in Memory /\ bot'.nick = NoNick /\ bot'.nicks = {}
    BY <2>1, EmptyMemoryFacts DEF streamEnds
  <2>3. /\ db' \in Database /\ db'.seats \subseteq db.seats
        /\ db'.nick = db.nick /\ db'.autojoin = db.autojoin
    <3>1. CASE db' = db
      BY <1>0, <3>1
    <3>2. CASE db' = roomRemoved(Now).db
      <4>1. Sound(roomRemoved(Now))
        BY <1>0, RoomRemovedSound
      <4>2. roomRemoved(Now).db \in Database
        BY <4>1, StateType DEF Sound
      <4>3. /\ roomRemoved(Now).db.seats \subseteq db.seats
            /\ roomRemoved(Now).db.nick = db.nick
            /\ roomRemoved(Now).db.autojoin = db.autojoin
        BY <1>0 DEF roomRemoved, Now, Database
      <4>4. QED
        BY <3>2, <4>2, <4>3
    <3>3. QED
      BY <1>4, <3>1, <3>2 DEF onDisconnect, crash, Now
  <2>4. UniqueSeats(db'.seats)
    BY <1>1, <2>3 DEF UniqueSeats
  <2>5. TypeOK'
    <3>1. stops' \in 0..MaxStops
      BY <1>0, <2>1, ConstantsAssumption DEF streamEnds, TypeOK
    <3>2. occ' \in [Nick -> Seat]
      BY <1>0, <2>1, SeatTypes DEF streamEnds, TypeOK, Seat
    <3>3. toServer' \in Seq(Request) /\ toBot' \in Seq(Stanza)
      BY <2>1 DEF streamEnds
    <3>4. QED
      BY <2>1, <2>2, <2>3, <3>1, <3>2, <3>3 DEF streamEnds, TypeOK, Seat
  <2>6. QED
    BY <1>1, <1>2, <2>2, <2>3, <2>4, <2>5 DEF IInv
<1>5. QED
  BY <1>3, <1>4 DEF Process

LEMMA InitHolds == Init => IInv
<1> SUFFICES ASSUME Init PROVE IInv
  OBVIOUS
<1>1. bot \in Memory /\ bot.nick = NoNick /\ bot.nicks = {}
  BY EmptyMemoryFacts DEF Init
<1>2. db \in Database /\ db.seats = {} /\ ~db.autojoin
  BY DEF Init, Database
<1>3. occ \in [Nick -> Seat]
  BY DEF Init, Unseated, Seat
<1>4. 0 \in 0..MaxStops
  BY ConstantsAssumption
<1>5. TypeOK
  <2>1. toServer \in Seq(Request) /\ toBot \in Seq(Stanza)
    BY DEF Init
  <2>2. QED
    BY <1>1, <1>2, <1>3, <1>4, <2>1 DEF Init, TypeOK, Seat
<1>6. Sound(Now)
  BY <1>1, <1>2 DEF Sound, Now, State, Unique, UniqueSeats
<1>7. QED
  BY <1>5, <1>6 DEF IInv

(* The inductive invariant holds in every reachable state.                 *)
THEOREM Invariance == Spec => []IInv
<1>1. IInv /\ [Next]_vars => IInv'
  <2> SUFFICES ASSUME IInv, [Next]_vars PROVE IInv'
    OBVIOUS
  <2>1. ASSUME TypeOK', bot' = bot, db' = db PROVE IInv'
    <3>1. Sound([bot |-> bot', db |-> db'])
      BY <2>1 DEF IInv, Now
    <3>2. QED
      BY <2>1, <3>1, SoundNext DEF IInv
  <2>2. CASE Server
    <3>1. bot' = bot /\ db' = db
      BY <2>2 DEF Server, serverAdmits, serverRefuses, serverRenames, serverLetsGo
    <3>2. QED
      BY <2>1, <2>2, <3>1, ServerType DEF IInv
  <2>3. CASE People
    <3>1. bot' = bot /\ db' = db
      BY <2>3 DEF People, personEnters, personChangesRole, personLeaves, botIsKicked
    <3>2. QED
      BY <2>1, <2>3, <3>1, PeopleType DEF IInv
  <2>4. CASE UNCHANGED vars
    <3>1. TypeOK'
      BY <2>4 DEF IInv, TypeOK, vars
    <3>2. QED
      BY <2>1, <2>4, <3>1 DEF vars
  <2>5. QED
    BY <2>2, <2>3, <2>4, BotStep, CommandsStep, ProcessStep DEF Next
<1>2. QED
  BY InitHolds, <1>1, PTL DEF Spec

(* Every reachable state is type correct.                                  *)
THEOREM TypeCorrect == Spec => []TypeOK
<1>1. IInv => TypeOK
  BY DEF IInv
<1>2. QED
  BY Invariance, <1>1, PTL

(* However nicks fold and whatever rows a dead process has left, byName()  *)
(* finds one Nick at most.                                                 *)
THEOREM NickListIsUnique == Spec => []NicksAreUnique
<1>1. IInv => NicksAreUnique
  BY DEF IInv, Sound, Now, Unique, NicksAreUnique
<1>2. QED
  BY Invariance, <1>1, PTL

(* The rows of conference_nicks that say online are those of the NickList  *)
(* as soon as there is a Conference.                                       *)
THEOREM RowsFollowNicks == Spec => []SeatsMatchNicks
<1>1. IInv => SeatsMatchNicks
  BY DEF IInv, Sound, Now, SeatsMatchNicks
<1>2. QED
  BY Invariance, <1>1, PTL

-----------------------------------------------------------------------------
(***************************************************************************)
(* What the bot reads lags behind what the server has done, so nothing     *)
(* can be said of memory and room alone.  The stanzas under way lead from  *)
(* one to the other: there is a path of pictures of the room, the first as *)
(* the memory shows it, the last as the room is, and hearing the k-th      *)
(* stanza leads from one to the next.  Reading a stanza drops the first    *)
(* step, whatever the server does adds some at the end, and a command of   *)
(* the owner or the timer changes what is wanted all along.                *)
(***************************************************************************)

(* A picture: the nick of the bot and the one it is about to ask for, who  *)
(* sits where, and two bounds for the autojoin of the row: if least it is  *)
(* set, unless the bot was refused in this stay, and it is set only if     *)
(* most.                                                                   *)
Picture == [nick : Nick \union {NoNick}, joining : Nick \union {NoNick},
            seats : [Nick -> Seat], least : BOOLEAN, most : BOOLEAN]

(* Nobody is there.                                                        *)
Empty == [n \in Nick |-> Unseated]

(* Stanza s leads from picture a to picture c.  A presence, an error and   *)
(* somebody's exit do, in terms of pictures, what onPresence() does.       *)
HearsAvailable(a, s, c) ==
  /\ a.nick # NoNick \/ a.joining # NoNick
  /\ s.jid # NoJid
  /\ c.nick = (IF a.nick = NoNick THEN a.joining ELSE a.nick)
  /\ c.joining = (IF a.nick = NoNick THEN NoNick ELSE a.joining)
  /\ c.seats = [(IF a.nick = NoNick THEN Empty ELSE a.seats)
                  EXCEPT ![s.nick] = [jid |-> s.jid, role |-> s.role]]
  /\ c.least => (a.nick = NoNick \/ a.least)
  /\ (a.nick = NoNick \/ a.most) => c.most

HearsError(a, s, c) ==
  /\ a.nick # NoNick \/ a.joining # NoNick
  /\ s.nick = registeredNick /\ a.nick # NoNick =>
       a.nick # registeredNick /\ a.seats[registeredNick].jid # NoJid
  /\ c.nick = a.nick /\ c.seats = a.seats
  /\ c.joining = (IF s.nick = registeredNick THEN NoNick ELSE registeredNick)
  /\ c.least => a.least /\ (s.nick # registeredNick \/ a.nick # NoNick)
  /\ (s.nick # registeredNick /\ a.most) => c.most

HearsUnavailable(a, s, c) ==
  /\ a.nick # NoNick
  /\ s.nick = a.nick => a.seats[s.nick].jid # NoJid
  /\ c.joining = a.joining
  /\ IF s.nick = a.nick /\ s.newNick = NoNick
     THEN c.nick = NoNick /\ c.seats = Empty /\ ~c.least
     ELSE /\ c.nick = (IF s.nick = a.nick THEN s.newNick ELSE a.nick)
          /\ c.seats = [a.seats EXCEPT ![s.nick] = Unseated]
          /\ c.least => a.least
          /\ a.most => c.most

Hears(a, s, c) ==
  /\ s.type = "delayed" => c = a
  /\ s.type = "available" => HearsAvailable(a, s, c)
  /\ s.type = "error" => HearsError(a, s, c)
  /\ s.type = "unavailable" => HearsUnavailable(a, s, c)

(* Picture a is what a memory b, and autojoin, say.                        *)
ShownAs(b, auto, a) ==
  /\ a.nick = b.nick /\ a.joining = b.joining
  /\ a.least => auto \/ b.refused
  /\ auto => a.most
  /\ \A e \in b.nicks : ~e.validate =>
       /\ a.seats[e.nick].jid # NoJid /\ a.seats[e.nick].role = e.role
       /\ ~Anonymous => b.roles[e.nick] = privilege(0, available(e.nick, a.seats[e.nick]))
  /\ \A n \in Nick : a.seats[n].jid # NoJid => \E e \in b.nicks : ~e.validate /\ e.nick = n

Shows(a) == ShownAs(bot, db.autojoin, a)

(* Places in a stream.  A refusal of another nick makes the bot ask again. *)
joins(q) == {i \in DOMAIN q : q[i].why = "JOIN"}
leaves(q) == {i \in DOMAIN q : q[i].why = "LEAVE"}
errors(q) == {i \in DOMAIN q : q[i].type = "error"}
turnedDown(q) == {i \in errors(q) : q[i].nick # registeredNick}

(* Picture a is what the room is, and what is still being asked of it.     *)
Ends(a) ==
  /\ \A n \in Nick : occ[n].jid = BotJid <=> n = a.nick
  /\ a.nick # NoNick => a.seats = occ
  /\ \A i \in joins(toServer) : a.joining = toServer[i].nick
  /\ turnedDown(toBot) # {} => a.joining = registeredNick
  /\ up /\ InRoom /\ ~a.least => leaves(toServer) # {}
  /\ up /\ ~InRoom /\ a.most => joins(toServer) \union turnedDown(toBot) # {}

(* A path of pictures from the memory to the room.                         *)
Path(h) ==
  /\ h \in [0..Len(toBot) -> Picture]
  /\ Shows(h[0])
  /\ \A k \in 1..Len(toBot) : Hears(h[k - 1], toBot[k], h[k])
  /\ Ends(h[Len(toBot)])

(* One JOIN or refusal at a time, no SETNICK beside anything else, people  *)
(* under their own nicks, and nothing under way to a process that is down. *)
InOrder ==
  /\ \A i, j \in joins(toServer) : i = j
  /\ joins(toServer) # {} => errors(toBot) = {}
  /\ \A i, j \in errors(toBot) : i = j
  /\ renamePending => Len(toServer) = 1 /\ InRoom /\ errors(toBot) = {}
  /\ \A n \in Nick : occ[n].jid \in Person => n \in PersonNick
  /\ \A n \in Nick : occ[n].jid = NoJid => occ[n] = Unseated
  /\ \A i \in DOMAIN toServer : toServer[i].type = "unavailable" <=> toServer[i].why = "LEAVE"
  /\ ~up => bot = EmptyMemory /\ toServer = <<>> /\ toBot = <<>>
  /\ bot.validated => \A e \in bot.nicks : ~e.validate

(* Some path is there.                                                     *)
Following == InOrder /\ \E h : Path(h)
-----------------------------------------------------------------------------
(* Nicks that differ are different to toUpper() as well, and a SETNICK     *)
(* crosses nothing.                                                        *)
Steady ==
  /\ \A m, n \in Nick : Fold[m] = Fold[n] => m = n
  /\ ~RenameRaces

(* What the helpers of onPresence() do to the memory.                      *)
LEMMA RemovedNicks ==
  ASSUME NEW r \in State, NEW list
  PROVE  LET o == removeNicks(r, list)
         IN  /\ o.bot.nicks = r.bot.nicks \ list
             /\ o.bot.nick = r.bot.nick /\ o.bot.joining = r.bot.joining
             /\ o.bot.roles = r.bot.roles /\ o.bot.validated = r.bot.validated
             /\ o.bot.refused = r.bot.refused /\ o.db.autojoin = r.db.autojoin
<1>1. r.bot \in Memory /\ r.db \in Database
  BY StateType
<1>2. /\ removeNicks(r, list).bot = [r.bot EXCEPT !.nicks = r.bot.nicks \ list]
      /\ removeNicks(r, list).db = [r.db EXCEPT !.seats = r.db.seats \ seatsOf(list)]
  BY DEF removeNicks
<1> QED BY <1>1, <1>2 DEF Memory, Database

LEMMA RemovedRole ==
  ASSUME NEW r \in State, NEW n
  PROVE  LET o == removeRole(r, n)
         IN  /\ o.bot.nicks = r.bot.nicks /\ o.bot.nick = r.bot.nick
             /\ o.bot.joining = r.bot.joining /\ o.bot.validated = r.bot.validated
             /\ o.bot.refused = r.bot.refused
             /\ \A m \in Nick : m # n => o.bot.roles[m] = r.bot.roles[m]
             /\ o.db = r.db
<1>1. r.bot \in Memory /\ r = [bot |-> r.bot, db |-> r.db]
  BY StateType
<1>2. removeRole(r, n) = [bot |-> [r.bot EXCEPT !.roles = [r.bot.roles EXCEPT ![n] = 0]],
                          db |-> r.db]
  BY <1>1 DEF removeRole
<1> DEFINE roles == [r.bot.roles EXCEPT ![n] = 0]
<1>3. \A m \in Nick : m # n => roles[m] = r.bot.roles[m]
  BY <1>1 DEF Memory
<1> HIDE DEF roles
<1> QED BY <1>1, <1>2, <1>3 DEF Memory, roles

Confirmed(list) == {e \in list : ~e.validate}

LEMMA OpenedRoom ==
  ASSUME IInv, canHandlePresence
  PROVE  /\ opened.bot.nick = (IF bot.nick = NoNick THEN bot.joining ELSE bot.nick)
         /\ opened.bot.joining = (IF bot.nick = NoNick THEN NoNick ELSE bot.joining)
         /\ Confirmed(opened.bot.nicks) = (IF bot.nick = NoNick THEN {} ELSE Confirmed(bot.nicks))
         /\ opened.bot.roles = bot.roles /\ opened.bot.refused = bot.refused
         /\ opened.bot.validated => bot.validated /\ opened.bot.nicks = bot.nicks
         /\ opened.db.autojoin = (IF bot.nick = NoNick THEN TRUE ELSE db.autojoin)
<1>1. bot \in Memory
  BY DEF IInv, TypeOK
<1>2. CASE bot.nick # NoNick
  BY <1>2 DEF opened
<1>3. CASE bot.nick = NoNick
  <2> DEFINE seats == IF bot.lazyOffline THEN db.seats ELSE {}
             nicks == {[nick |-> c[1], jid |-> c[2], role |-> "none", validate |-> TRUE] : c \in seats}
             b == [bot EXCEPT !.joining = NoNick, !.nick = bot.joining,
                              !.validated = FALSE, !.nicks = nicks]
  <2>1. opened.bot = b /\ opened.db.autojoin = TRUE
    BY <1>3 DEF opened
  <2>2. Confirmed(nicks) = {}
    BY DEF Confirmed
  <2> HIDE DEF nicks
  <2>3. b.nick = bot.joining /\ b.joining = NoNick /\ b.nicks = nicks /\ b.roles = bot.roles
        /\ b.validated = FALSE /\ b.refused = bot.refused
    BY <1>1 DEF Memory
  <2> QED BY <1>3, <2>1, <2>2, <2>3
<1> QED BY <1>2, <1>3

LEMMA ByName ==
  ASSUME Steady, NEW list, list \subseteq NickEntry, NEW n \in Nick
  PROVE  byName(list, n) = {e \in list : e.nick = n}
<1>1. \A e \in list : e.nick \in Nick
  BY DEF NickEntry
<1> QED BY <1>1 DEF byName, Steady

(* The room when onPresence() looks up the sender n.                       *)
PreparedAs(n) ==
  /\ Sound(preparedRoom) /\ preparedRoom.bot \in Memory /\ preparedRoom.bot.nicks \subseteq NickEntry
  /\ preparedRoom.bot.nick = (IF bot.nick = NoNick THEN bot.joining ELSE bot.nick)
  /\ preparedRoom.bot.joining = (IF bot.nick = NoNick THEN NoNick ELSE bot.joining)
  /\ preparedRoom.bot.refused = bot.refused
  /\ Confirmed(preparedRoom.bot.nicks) = (IF bot.nick = NoNick THEN {} ELSE Confirmed(bot.nicks))
  /\ \A m \in Nick : m # n => preparedRoom.bot.roles[m] = bot.roles[m]
  /\ preparedRoom.bot.validated => bot.validated /\ preparedRoom.bot.nicks \subseteq bot.nicks
  /\ preparedRoom.db.autojoin = (IF bot.nick = NoNick THEN TRUE ELSE db.autojoin)
  /\ sender = {e \in preparedRoom.bot.nicks : e.nick = n}

LEMMA PreparedFacts ==
  ASSUME IInv, Steady, canHandlePresence, Head(toBot).nick \in Nick
  PROVE  PreparedAs(Head(toBot).nick)
<1> DEFINE s == Head(toBot)
           moved == {e \in byName(opened.bot.nicks, s.nick) :
                       e.validate /\ (Anonymous \/ e.jid # seen(s))}
           w == removeNicks(opened, moved)
<1>1. opened \in State /\ Sound(opened) /\ Sound(preparedRoom)
  BY OpenedSound, RevalidatedSound DEF preparedRoom, Sound
<1>2. preparedRoom = IF moved = {} THEN opened ELSE removeRole(w, s.nick)
  BY DEF preparedRoom, revalidated
<1>3. moved \in SUBSET opened.bot.nicks /\ \A e \in moved : e.validate
  BY DEF byName
<1> HIDE DEF moved
<1>4. /\ w \in State /\ w.bot.nicks = opened.bot.nicks \ moved
      /\ w.bot.nick = opened.bot.nick /\ w.bot.joining = opened.bot.joining
      /\ w.bot.roles = opened.bot.roles /\ w.bot.validated = opened.bot.validated
      /\ w.bot.refused = opened.bot.refused
      /\ w.db.autojoin = opened.db.autojoin
  <2>1. Sound(w)
    BY <1>1, <1>3, RemoveNicksSound
  <2> QED BY <1>1, <2>1, RemovedNicks DEF Sound
<1> HIDE DEF w
<1>5. LET o == preparedRoom
      IN  /\ moved = {} \/ o.bot.nicks = opened.bot.nicks \ moved
          /\ moved = {} => o.bot.nicks = opened.bot.nicks
          /\ o.bot.nick = opened.bot.nick /\ o.bot.joining = opened.bot.joining
          /\ \A m \in Nick : m # s.nick => o.bot.roles[m] = opened.bot.roles[m]
          /\ o.bot.validated = opened.bot.validated /\ o.bot.refused = opened.bot.refused
          /\ o.db.autojoin = opened.db.autojoin
  <2>1. CASE moved = {}
    BY <1>2, <2>1
  <2>2. CASE moved # {}
    BY <1>2, <1>4, <2>2, RemovedRole
  <2> QED BY <2>1, <2>2
<1>6. preparedRoom.bot.nicks = opened.bot.nicks \ moved
  BY <1>5
<1>7. Confirmed(preparedRoom.bot.nicks) = Confirmed(opened.bot.nicks)
  BY <1>3, <1>6 DEF Confirmed
<1>8. preparedRoom.bot \in Memory /\ preparedRoom.bot.nicks \subseteq NickEntry
  BY <1>1, StateType DEF Sound, Memory
<1>9. sender = {e \in preparedRoom.bot.nicks : e.nick = s.nick}
  BY <1>8, ByName DEF sender
<1> QED BY <1>1, <1>5, <1>6, <1>7, <1>8, <1>9, OpenedRoom DEF PreparedAs

Validated(b) == b.validated => \A e \in b.nicks : ~e.validate

(* Where JIDs are shown, what was granted before does not matter.          *)
LEMMA PrivilegeOfShown ==
  ASSUME ~Anonymous, NEW old, NEW s, s.jid # NoJid
  PROVE  privilege(old, s) = privilege(0, available(s.nick, [jid |-> s.jid, role |-> s.role]))
BY DEF privilege, seen, available

(* Reading a stanza leads to the picture it tells of.                      *)
LEMMA ReadsPresent ==
  ASSUME IInv, Steady, NEW a \in Picture, NEW c \in Picture, Shows(a), Validated(bot),
         Hears(a, Head(toBot), c), nickPresent, Head(toBot) \in Stanza
  PROVE  Shows(c)' /\ Validated(bot')
<1> DEFINE s == Head(toBot)
           r == preparedRoom
           first == [nick |-> s.nick, jid |-> seen(s), role |-> s.role, validate |-> FALSE]
           news(e) == [e EXCEPT !.jid = seen(s), !.role = s.role, !.validate = FALSE]
           entries == IF sender = {} THEN {first} ELSE {news(e) : e \in sender}
           nicks == (r.bot.nicks \ sender) \union entries
           roles == [r.bot.roles EXCEPT ![s.nick] = privilege(r.bot.roles[s.nick], s)]
<1>1. s.type = "available" /\ canHandlePresence
  BY DEF nickPresent, Prepared, Arrives
<1>2. s.nick \in Nick /\ s.role \in Roles \union {"none"}
  BY <1>1 DEF Stanza, delayed
<1>3. PreparedAs(s.nick)
  BY <1>1, <1>2, PreparedFacts
<1>4. r.bot \in Memory /\ r.bot.nicks \subseteq NickEntry
  BY <1>3 DEF PreparedAs
<1>5. bot' = [r.bot EXCEPT !.nicks = nicks, !.roles = roles] /\ db'.autojoin = r.db.autojoin
  <2>1. /\ bot' = [r.bot EXCEPT !.nicks = (@ \ sender) \union entries,
                                !.roles[s.nick] = privilege(@, s)]
        /\ db' = [r.db EXCEPT !.seats = (@ \ seatsOf(sender)) \union seatsOf(entries)]
    BY DEF nickPresent, Become
  <2>2. r.db \in Database
    BY <1>3, StateType DEF PreparedAs, Sound
  <2> QED BY <1>4, <2>1, <2>2 DEF nicks, roles, Memory, Database
<1>6. sender = {e \in r.bot.nicks : e.nick = s.nick}
  BY <1>3 DEF PreparedAs
<1>7. entries # {} /\ \A e \in entries : e.nick = s.nick /\ e.role = s.role /\ ~e.validate
  <2>1. first.nick = s.nick /\ first.role = s.role /\ ~first.validate
    OBVIOUS
  <2>2. \A e \in sender : news(e).nick = s.nick /\ news(e).role = s.role /\ ~news(e).validate
    BY <1>4, <1>6 DEF NickEntry
  <2> HIDE DEF first, news
  <2> QED BY <2>1, <2>2
<1> HIDE DEF entries
<1>8. /\ roles[s.nick] = privilege(r.bot.roles[s.nick], s)
      /\ \A m \in Nick : m # s.nick => roles[m] = bot.roles[m]
  BY <1>2, <1>3, <1>4 DEF PreparedAs, Memory
<1> HIDE DEF nicks, roles
<1>9. /\ bot'.nicks = nicks /\ bot'.roles = roles /\ bot'.nick = r.bot.nick
      /\ bot'.joining = r.bot.joining /\ bot'.validated = r.bot.validated
      /\ bot'.refused = bot.refused
  BY <1>3, <1>4, <1>5 DEF Memory, PreparedAs
<1>10. HearsAvailable(a, s, c)
  BY <1>1 DEF Hears
<1>11. a.nick = bot.nick /\ a.joining = bot.joining /\ a.seats \in [Nick -> Seat]
  BY DEF Shows, ShownAs, Picture
<1>12. /\ c.seats[s.nick] = [jid |-> s.jid, role |-> s.role] /\ s.jid # NoJid
       /\ \A m \in Nick : m # s.nick =>
            c.seats[m] = IF bot.nick = NoNick THEN Unseated ELSE a.seats[m]
  BY <1>2, <1>10, <1>11 DEF HearsAvailable, Empty
<1>13. \A e : e \in Confirmed(r.bot.nicks) <=> bot.nick # NoNick /\ e \in Confirmed(bot.nicks)
  BY <1>3 DEF PreparedAs
<1>14. c.nick = bot'.nick /\ c.joining = bot'.joining
  BY <1>3, <1>9, <1>10, <1>11 DEF PreparedAs, HearsAvailable
<1>15. (c.least => db'.autojoin \/ bot'.refused) /\ (db'.autojoin => c.most)
  BY <1>3, <1>5, <1>9, <1>10, <1>11 DEF PreparedAs, HearsAvailable, Shows, ShownAs
<1>16. ASSUME NEW e \in nicks, ~e.validate
       PROVE  /\ c.seats[e.nick].jid # NoJid /\ c.seats[e.nick].role = e.role
              /\ ~Anonymous => roles[e.nick] = privilege(0, available(e.nick, c.seats[e.nick]))
  <2>1. CASE e \in entries
    <3>1. ~Anonymous => privilege(r.bot.roles[s.nick], s) = privilege(0, available(s.nick, c.seats[s.nick]))
      BY <1>12, PrivilegeOfShown
    <3> QED BY <1>7, <1>8, <1>12, <2>1, <3>1
  <2>2. CASE e \in r.bot.nicks \ sender
    <3>1. e.nick # s.nick /\ e.nick \in Nick /\ e \in Confirmed(r.bot.nicks)
      BY <1>4, <1>6, <1>16, <2>2 DEF Confirmed, NickEntry
    <3>2. bot.nick # NoNick /\ e \in bot.nicks
      BY <1>13, <3>1 DEF Confirmed
    <3>3. c.seats[e.nick] = a.seats[e.nick] /\ roles[e.nick] = bot.roles[e.nick]
      BY <1>8, <1>12, <3>1, <3>2
    <3> QED BY <1>16, <3>2, <3>3 DEF Shows, ShownAs
  <2> QED BY <1>16, <2>1, <2>2 DEF nicks
<1>17. ASSUME NEW n \in Nick, c.seats[n].jid # NoJid
       PROVE  \E e \in nicks : ~e.validate /\ e.nick = n
  <2>1. CASE n = s.nick
    BY <1>7, <2>1 DEF nicks
  <2>2. CASE n # s.nick
    <3>1. bot.nick # NoNick /\ a.seats[n].jid # NoJid
      BY <1>12, <1>17, <2>2 DEF Unseated
    <3>2. PICK e \in bot.nicks : ~e.validate /\ e.nick = n
      BY <3>1 DEF Shows, ShownAs
    <3>3. e \in Confirmed(r.bot.nicks)
      BY <1>13, <3>1, <3>2 DEF Confirmed
    <3> QED BY <1>6, <2>2, <3>2, <3>3 DEF Confirmed, nicks
  <2> QED BY <2>1, <2>2
<1>18. Shows(c)'
  BY <1>9, <1>14, <1>15, <1>16, <1>17 DEF Shows, ShownAs
<1>19. Validated(bot')
  <2> SUFFICES ASSUME bot'.validated, NEW e \in nicks PROVE ~e.validate
    BY <1>9 DEF Validated
  <2>1. \A f \in r.bot.nicks : ~f.validate
    BY <1>3, <1>9 DEF PreparedAs, Validated
  <2> QED BY <1>7, <2>1 DEF nicks
<1> QED BY <1>18, <1>19

(* An occupant is gone; the bot stays, maybe under a new nick.             *)
LEMMA ReadsGone ==
  ASSUME IInv, Steady, NEW a \in Picture, NEW c \in Picture, Shows(a), Validated(bot),
         Head(toBot).nick \in Nick, canHandlePresence, bot.nick # NoNick,
         bot'.nicks = preparedRoom.bot.nicks \ sender,
         bot'.nick = c.nick, bot'.joining = preparedRoom.bot.joining,
         bot'.validated = preparedRoom.bot.validated,
         bot'.refused = preparedRoom.bot.refused,
         \A m \in Nick : m # Head(toBot).nick => bot'.roles[m] = preparedRoom.bot.roles[m],
         db'.autojoin = preparedRoom.db.autojoin,
         c.joining = a.joining, c.least => a.least, a.most => c.most,
         c.seats = [a.seats EXCEPT ![Head(toBot).nick] = Unseated]
  PROVE  Shows(c)' /\ Validated(bot')
<1> DEFINE n == Head(toBot).nick
<1>1. PreparedAs(n)
  BY PreparedFacts
<1>2. a.seats \in [Nick -> Seat]
  BY DEF Picture
<1>3. c.seats[n].jid = NoJid /\ \A m \in Nick : m # n => c.seats[m] = a.seats[m]
  BY <1>2 DEF Unseated
<1> HIDE DEF n
<1>4. \A e : e \in Confirmed(preparedRoom.bot.nicks) <=> e \in Confirmed(bot.nicks)
  BY <1>1 DEF PreparedAs
<1>5. ASSUME NEW e \in bot'.nicks, ~e.validate
      PROVE  /\ c.seats[e.nick].jid # NoJid /\ c.seats[e.nick].role = e.role
             /\ ~Anonymous => bot'.roles[e.nick] = privilege(0, available(e.nick, c.seats[e.nick]))
  <2>1. e \in Confirmed(preparedRoom.bot.nicks) /\ e.nick # n /\ e.nick \in Nick
    BY <1>1, <1>5 DEF PreparedAs, Confirmed, NickEntry
  <2>2. e \in bot.nicks
    BY <1>4, <2>1 DEF Confirmed
  <2>3. bot'.roles[e.nick] = bot.roles[e.nick] /\ c.seats[e.nick] = a.seats[e.nick]
    BY <1>1, <1>3, <2>1 DEF PreparedAs, n
  <2> QED BY <1>5, <2>2, <2>3 DEF Shows, ShownAs
<1>6. ASSUME NEW m \in Nick, c.seats[m].jid # NoJid
      PROVE  \E e \in bot'.nicks : ~e.validate /\ e.nick = m
  <2>1. m # n /\ a.seats[m].jid # NoJid
    BY <1>3, <1>6
  <2>2. PICK e \in bot.nicks : ~e.validate /\ e.nick = m
    BY <2>1 DEF Shows, ShownAs
  <2>3. e \in preparedRoom.bot.nicks
    BY <1>4, <2>2 DEF Confirmed
  <2> QED BY <1>1, <2>1, <2>2, <2>3 DEF PreparedAs
<1>7. Shows(c)'
  <2>1. /\ c.joining = bot'.joining /\ (db'.autojoin => c.most)
        /\ c.least => db'.autojoin \/ bot'.refused
    BY <1>1 DEF PreparedAs, Shows, ShownAs
  <2> QED BY <1>5, <1>6, <2>1 DEF Shows, ShownAs
<1>8. Validated(bot')
  BY <1>1 DEF PreparedAs, Validated
<1> QED BY <1>7, <1>8

(* The bot itself is gone.                                                 *)
LEMMA ReadsOwnEnd ==
  ASSUME IInv, Steady, NEW a \in Picture, NEW c \in Picture, Shows(a),
         Head(toBot).nick \in Nick, bot.nick # NoNick, ownNickLeaves,
         c.nick = NoNick, c.joining = a.joining, c.seats = Empty, ~c.least
  PROVE  Shows(c)' /\ Validated(bot')
<1> DEFINE w == roomRemoved(preparedRoom)
           r == removeRole(w, Head(toBot).nick)
<1>1. canHandlePresence
  BY DEF ownNickLeaves, Prepared
<1>2. PreparedAs(Head(toBot).nick)
  BY <1>1, PreparedFacts
<1>3. preparedRoom.bot \in Memory /\ Sound(preparedRoom)
  BY <1>2 DEF PreparedAs
<1>4. w.bot.nick = NoNick /\ w.bot.nicks = {} /\ w.bot.joining = preparedRoom.bot.joining
  BY <1>3 DEF roomRemoved, Memory
<1>5. Sound(w)
  BY <1>3, RoomRemovedSound
<1> HIDE DEF w
<1>6. r.bot.nick = NoNick /\ r.bot.nicks = {} /\ r.bot.joining = preparedRoom.bot.joining
  BY <1>4, <1>5, RemovedRole DEF Sound
<1>7. Sound(r)
  BY <1>5, RemoveRoleSound
<1>8. Become([r EXCEPT !.db.autojoin = FALSE])
  BY DEF ownNickLeaves, w
<1> HIDE DEF r
<1>9. bot' = r.bot /\ db'.autojoin = FALSE
  <2>1. bot' = r.bot /\ db' = [r.db EXCEPT !.autojoin = FALSE]
    BY <1>7, <1>8, ExceptFacts DEF Become, Sound
  <2>2. r.db \in Database
    BY <1>7, StateType DEF Sound
  <2> QED BY <2>1, <2>2 DEF Database
<1>10. \A n \in Nick : c.seats[n].jid = NoJid
  BY DEF Empty, Unseated
<1>11. bot'.joining = bot.joining
  BY <1>2, <1>6, <1>9 DEF PreparedAs
<1> QED BY <1>6, <1>9, <1>10, <1>11 DEF Shows, ShownAs, Validated

LEMMA ReadsUnavailable ==
  ASSUME IInv, Steady, NEW a \in Picture, NEW c \in Picture, Shows(a), Validated(bot),
         Hears(a, Head(toBot), c), Head(toBot) \in Stanza,
         presenceOfNobody \/ nickLeaves \/ ownNickChanges \/ ownNickLeaves
  PROVE  Shows(c)' /\ Validated(bot')
<1> DEFINE s == Head(toBot)
           w == removeNicks(preparedRoom, sender)
           r == removeRole(w, s.nick)
<1>1. s.type = "unavailable" /\ canHandlePresence
  BY DEF presenceOfNobody, nickLeaves, ownNickChanges, ownNickLeaves, Prepared, Arrives
<1>2. s.nick \in Nick
  BY <1>1 DEF Stanza, delayed
<1>3. PreparedAs(s.nick)
  BY <1>1, <1>2, PreparedFacts
<1>4. HearsUnavailable(a, s, c)
  BY <1>1 DEF Hears
<1>5. a.nick = bot.nick /\ bot.nick # NoNick /\ c.joining = a.joining
  BY <1>4 DEF HearsUnavailable, Shows, ShownAs
<1>6. preparedRoom.bot.nick = bot.nick /\ sender = {e \in preparedRoom.bot.nicks : e.nick = s.nick}
  BY <1>3, <1>5 DEF PreparedAs
<1>7. s.nick = a.nick => sender # {}
  <2> SUFFICES ASSUME s.nick = a.nick PROVE sender # {}
    OBVIOUS
  <2>1. PICK e \in bot.nicks : ~e.validate /\ e.nick = s.nick
    BY <1>2, <1>4 DEF HearsUnavailable, Shows, ShownAs
  <2>2. e \in Confirmed(preparedRoom.bot.nicks)
    BY <1>3, <1>5, <2>1 DEF PreparedAs, Confirmed
  <2> QED BY <1>6, <2>1, <2>2 DEF Confirmed
<1>8. isOwnNick <=> sender # {} /\ s.nick = a.nick
  BY <1>5, <1>6 DEF isOwnNick
<1>9. /\ w.bot.nicks = preparedRoom.bot.nicks \ sender
      /\ w.bot.nick = bot.nick /\ w.bot.joining = preparedRoom.bot.joining
      /\ w.bot.roles = preparedRoom.bot.roles /\ w.bot.validated = preparedRoom.bot.validated
      /\ w.bot.refused = preparedRoom.bot.refused
      /\ w.db.autojoin = preparedRoom.db.autojoin /\ Sound(w)
  <2>1. sender \in SUBSET preparedRoom.bot.nicks
    BY <1>6
  <2>2. Sound(preparedRoom) /\ preparedRoom \in State
    BY <1>3 DEF PreparedAs, Sound
  <2>3. Sound(w)
    BY <2>1, <2>2, RemoveNicksSound
  <2> QED BY <1>6, <2>2, <2>3, RemovedNicks
<1> HIDE DEF w
<1>10. /\ r.bot.nicks = preparedRoom.bot.nicks \ sender
       /\ r.bot.nick = bot.nick /\ r.bot.joining = preparedRoom.bot.joining
       /\ \A m \in Nick : m # s.nick => r.bot.roles[m] = preparedRoom.bot.roles[m]
       /\ r.bot.validated = preparedRoom.bot.validated
       /\ r.bot.refused = preparedRoom.bot.refused
       /\ r.db.autojoin = preparedRoom.db.autojoin /\ Sound(r)
  <2>1. Sound(r)
    BY <1>9, RemoveRoleSound
  <2>2. w \in State
    BY <1>9 DEF Sound
  <2> QED BY <1>9, <2>1, <2>2, RemovedRole
<1>11. CASE presenceOfNobody
  <2>1. sender = {} /\ bot' = preparedRoom.bot /\ db' = preparedRoom.db
    BY <1>11 DEF presenceOfNobody, Become
  <2>2. s.nick # a.nick
    BY <1>7, <2>1
  <2> QED BY <1>1, <1>2, <1>4, <1>5, <1>6, <2>1, <2>2, ReadsGone DEF HearsUnavailable
<1>12. CASE nickLeaves
  <2>1. s.nick # a.nick /\ bot' = r.bot /\ db' = r.db
    BY <1>8, <1>12 DEF nickLeaves, Become, w
  <2> HIDE DEF r
  <2> QED BY <1>1, <1>2, <1>4, <1>5, <1>10, <2>1, ReadsGone DEF HearsUnavailable
<1>13. CASE ownNickChanges
  <2>1. /\ s.nick = a.nick /\ s.newNick # NoNick
        /\ bot' = [r.bot EXCEPT !.nick = s.newNick] /\ db' = [r.db EXCEPT !.nick = s.newNick]
    BY <1>8, <1>13 DEF ownNickChanges, Become, w
  <2> HIDE DEF r
  <2>2. r.bot \in Memory /\ r.db \in Database
    BY <1>10, StateType DEF Sound
  <2>3. /\ bot'.nicks = r.bot.nicks /\ bot'.nick = s.newNick /\ bot'.joining = r.bot.joining
        /\ bot'.roles = r.bot.roles /\ bot'.validated = r.bot.validated
        /\ bot'.refused = r.bot.refused /\ db'.autojoin = r.db.autojoin
    BY <2>1, <2>2 DEF Memory, Database
  <2> QED BY <1>1, <1>2, <1>4, <1>5, <1>10, <2>1, <2>3, ReadsGone DEF HearsUnavailable
<1>14. CASE ownNickLeaves
  <2>1. s.nick = a.nick /\ s.newNick = NoNick
    BY <1>8, <1>14 DEF ownNickLeaves
  <2> QED BY <1>2, <1>4, <1>5, <1>14, <2>1, ReadsOwnEnd DEF HearsUnavailable
<1> QED BY <1>11, <1>12, <1>13, <1>14

LEMMA ReadsError ==
  ASSUME IInv, NEW a \in Picture, NEW c \in Picture, Shows(a), Validated(bot),
         Hears(a, Head(toBot), c),
         errorRejoins \/ errorDisablesAutoJoin
  PROVE  /\ Shows(c)' /\ Validated(bot')
         /\ errorRejoins => toServer' = send("presence", registeredNick, "JOIN")
<1> DEFINE s == Head(toBot)
           b == [bot EXCEPT !.joining = NoNick]
<1>1. bot \in Memory /\ db \in Database
  BY DEF IInv, TypeOK
<1>2. HearsError(a, s, c)
  BY DEF errorRejoins, errorDisablesAutoJoin, Arrives, Hears
<1>3. /\ b \in Memory /\ b.nick = bot.nick /\ b.nicks = bot.nicks /\ b.joining = NoNick
      /\ b.roles = bot.roles /\ b.validated = bot.validated /\ b.refused = bot.refused
  BY <1>1 DEF Memory
<1>4. CASE errorRejoins
  <2>1. join(b, registeredNick) /\ UNCHANGED db /\ s.nick # registeredNick
    BY <1>4 DEF errorRejoins
  <2> HIDE DEF b
  <2>2. bot' = [b EXCEPT !.joining = registeredNick] /\ toServer' = send("presence", registeredNick, "JOIN")
    BY <1>3, <2>1 DEF join
  <2>3. /\ bot'.nick = bot.nick /\ bot'.nicks = bot.nicks /\ bot'.joining = registeredNick
        /\ bot'.roles = bot.roles /\ bot'.validated = bot.validated
        /\ bot'.refused = bot.refused
    BY <1>3, <2>2 DEF Memory
  <2> QED BY <1>2, <2>1, <2>2, <2>3 DEF HearsError, Shows, ShownAs, Validated
<1>5. CASE errorDisablesAutoJoin
  <2>1. /\ bot' = [bot EXCEPT !.joining = NoNick, !.refused = bot.nick # NoNick]
        /\ db' = [db EXCEPT !.autojoin = FALSE] /\ s.nick = registeredNick
    BY <1>5 DEF errorDisablesAutoJoin, Become
  <2>2. ~db'.autojoin
    BY <1>1, <2>1 DEF Database
  <2> HIDE DEF b
  <2>3. ~errorRejoins
    BY <2>1 DEF errorRejoins
  <2>4. /\ bot'.nick = bot.nick /\ bot'.nicks = bot.nicks /\ bot'.joining = NoNick
        /\ bot'.roles = bot.roles /\ bot'.validated = bot.validated
        /\ bot'.refused = (bot.nick # NoNick)
    BY <1>1, <2>1 DEF Memory
  <2>5. c.least => bot'.refused
    BY <1>2, <2>1, <2>4 DEF HearsError, Shows, ShownAs
  <2> HIDE DEF s
  <2> QED BY <1>2, <2>1, <2>2, <2>3, <2>4, <2>5 DEF HearsError, Shows, ShownAs, Validated
<1> QED BY <1>4, <1>5

LEMMA ReadsHistory ==
  ASSUME IInv, NEW a \in Picture, NEW c \in Picture, Shows(a), Validated(bot),
         Hears(a, Head(toBot), c), offlineMessage
  PROVE  Shows(c)' /\ Validated(bot')
<1> DEFINE unconfirmed == {e \in bot.nicks : e.validate}
           r == removeNicks([bot |-> bot, db |-> db], unconfirmed)
<1>1. c = a
  BY DEF offlineMessage, Arrives, Hears
<1>2. Sound(Now)
  BY DEF IInv
<1>3. /\ r.bot.nicks = bot.nicks \ unconfirmed
      /\ r.bot.nick = bot.nick /\ r.bot.joining = bot.joining
      /\ r.bot.roles = bot.roles /\ r.bot.refused = bot.refused
      /\ r.db.autojoin = db.autojoin /\ Sound(r)
  BY <1>2, RemovedNicks, RemoveNicksSound DEF Sound, Now
<1>4. Become([r EXCEPT !.bot.validated = TRUE]) \/ Become([bot |-> bot, db |-> db])
  BY DEF offlineMessage
<1> HIDE DEF r
<1>5. CASE Become([r EXCEPT !.bot.validated = TRUE])
  <2>1. bot' = [r.bot EXCEPT !.validated = TRUE] /\ db' = r.db
    BY <1>3, <1>5, ExceptFacts DEF Become, Sound
  <2>2. r.bot \in Memory
    BY <1>3, StateType DEF Sound
  <2>3. /\ bot'.nicks = bot.nicks \ unconfirmed /\ bot'.nick = bot.nick
        /\ bot'.joining = bot.joining /\ bot'.roles = bot.roles
        /\ bot'.refused = bot.refused
    BY <1>3, <2>1, <2>2 DEF Memory
  <2> QED BY <1>1, <1>3, <2>1, <2>3 DEF Shows, ShownAs, Validated
<1>6. CASE Become([bot |-> bot, db |-> db])
  BY <1>1, <1>6 DEF Become, Shows, ShownAs, Validated
<1> QED BY <1>4, <1>5, <1>6

-----------------------------------------------------------------------------
(* Positions in what is left of a stream and in what it grows to.          *)
LEMMA TailAt ==
  ASSUME NEW S, NEW q \in Seq(S), q # <<>>
  PROVE  /\ Len(q) \in Nat /\ Len(q) >= 1 /\ q[1] = Head(q)
         /\ Len(Tail(q)) = Len(q) - 1
         /\ \A k \in 1..(Len(q) - 1) : Tail(q)[k] = q[k + 1]
OBVIOUS

LEMMA AppendAt ==
  ASSUME NEW S, NEW q \in Seq(S), NEW e \in S
  PROVE  /\ Len(q) \in Nat /\ Len(Append(q, e)) = Len(q) + 1
         /\ Append(q, e)[Len(q) + 1] = e
         /\ \A k \in 1..Len(q) : Append(q, e)[k] = q[k]
OBVIOUS

LEMMA ConcatAt ==
  ASSUME NEW S, NEW q \in Seq(S), NEW r \in Seq(S)
  PROVE  /\ Len(q) \in Nat /\ Len(r) \in Nat /\ Len(q \o r) = Len(q) + Len(r)
         /\ \A k \in 1..Len(q) : (q \o r)[k] = q[k]
         /\ \A k \in 1..Len(r) : (q \o r)[Len(q) + k] = r[k]
OBVIOUS

LEMMA TailErrors ==
  ASSUME NEW q \in Seq(Stanza), q # <<>>
  PROVE  /\ \A i \in errors(Tail(q)) : i + 1 \in errors(q)
         /\ \A i \in turnedDown(Tail(q)) : i + 1 \in turnedDown(q)
         /\ \A i \in errors(q) : i = 1 \/ i - 1 \in errors(Tail(q))
         /\ \A i \in turnedDown(q) : i = 1 \/ i - 1 \in turnedDown(Tail(q))
<1> DEFINE t == Tail(q)
           n == Len(q)
<1>1. n \in Nat /\ n >= 1 /\ DOMAIN q = 1..n /\ DOMAIN t = 1..(n - 1)
      /\ \A k \in 1..(n - 1) : t[k] = q[k + 1]
  BY TailAt
<1> HIDE DEF t, n
<1>2. \A i \in 1..(n - 1) : i + 1 \in 1..n
  BY <1>1
<1>3. \A i \in 1..n : i = 1 \/ (i - 1 \in 1..(n - 1) /\ t[i - 1] = q[i])
  BY <1>1
<1>4. \A i \in errors(t) : i + 1 \in errors(q)
  BY <1>1, <1>2 DEF errors
<1>5. \A i \in errors(q) : i = 1 \/ i - 1 \in errors(t)
  BY <1>1, <1>3 DEF errors
<1>6. \A i \in turnedDown(t) : i + 1 \in turnedDown(q)
  BY <1>1, <1>4 DEF turnedDown, errors
<1>7. \A i \in turnedDown(q) : i = 1 \/ i - 1 \in turnedDown(t)
  BY <1>1, <1>3, <1>5 DEF turnedDown, errors
<1> QED BY <1>4, <1>5, <1>6, <1>7 DEF t

LEMMA TailRequests ==
  ASSUME NEW q \in Seq(Request), q # <<>>
  PROVE  LET t == Tail(q)
         IN  /\ \A i \in DOMAIN t : i + 1 \in DOMAIN q /\ t[i] = q[i + 1]
             /\ \A i \in joins(t) : i + 1 \in joins(q)
             /\ \A i \in joins(q) : i = 1 \/ i - 1 \in joins(t)
             /\ \A i \in leaves(q) : i = 1 \/ i - 1 \in leaves(t)
<1> DEFINE t == Tail(q)
           n == Len(q)
<1>1. n \in Nat /\ n >= 1 /\ DOMAIN q = 1..n /\ DOMAIN t = 1..(n - 1)
      /\ \A k \in 1..(n - 1) : t[k] = q[k + 1]
  BY TailAt
<1> HIDE DEF t, n
<1>2. \A i \in 1..(n - 1) : i + 1 \in 1..n
  BY <1>1
<1>3. \A i \in 1..n : i = 1 \/ (i - 1 \in 1..(n - 1) /\ t[i - 1] = q[i])
  BY <1>1
<1>4. \A i \in DOMAIN t : i + 1 \in DOMAIN q /\ t[i] = q[i + 1]
  BY <1>1, <1>2
<1>5. \A i \in joins(t) : i + 1 \in joins(q)
  BY <1>1, <1>2 DEF joins
<1>6. \A i \in joins(q) : i = 1 \/ i - 1 \in joins(t)
  BY <1>1, <1>3 DEF joins
<1>7. \A i \in leaves(q) : i = 1 \/ i - 1 \in leaves(t)
  BY <1>1, <1>3 DEF leaves
<1> QED BY <1>4, <1>5, <1>6, <1>7 DEF t

LEMMA SentRequest ==
  ASSUME NEW q \in Seq(Request), NEW e \in Request
  PROVE  LET p == Append(q, e)
         IN  /\ Len(p) = Len(q) + 1 /\ p[Len(q) + 1] = e /\ Len(q) \in Nat
             /\ DOMAIN p = 1..(Len(q) + 1) /\ DOMAIN q = 1..Len(q)
             /\ \A i \in DOMAIN q : p[i] = q[i]
             /\ joins(p) = joins(q) \union (IF e.why = "JOIN" THEN {Len(q) + 1} ELSE {})
             /\ leaves(p) = leaves(q) \union (IF e.why = "LEAVE" THEN {Len(q) + 1} ELSE {})
<1> DEFINE p == Append(q, e)
           n == Len(q)
<1>1. n \in Nat /\ Len(p) = n + 1 /\ p[n + 1] = e /\ DOMAIN p = 1..(n + 1) /\ DOMAIN q = 1..n
      /\ \A i \in 1..n : p[i] = q[i]
  BY AppendAt
<1> HIDE DEF p, n
<1>2. \A i \in 1..(n + 1) : i = n + 1 \/ i \in 1..n
  BY <1>1
<1>3. n + 1 \in 1..(n + 1) /\ \A i \in 1..n : i \in 1..(n + 1)
  BY <1>1
<1>4. joins(p) = joins(q) \union (IF e.why = "JOIN" THEN {n + 1} ELSE {})
  BY <1>1, <1>2, <1>3 DEF joins
<1>5. leaves(p) = leaves(q) \union (IF e.why = "LEAVE" THEN {n + 1} ELSE {})
  BY <1>1, <1>2, <1>3 DEF leaves
<1> QED BY <1>1, <1>4, <1>5 DEF p, n

LEMMA ReadsHead ==
  ASSUME IInv, Steady, NEW a \in Picture, NEW c \in Picture, Shows(a), Validated(bot),
         Hears(a, Head(toBot), c), Head(toBot) \in Stanza, Bot
  PROVE  /\ Shows(c)' /\ Validated(bot')
         /\ errorRejoins => toServer' = send("presence", registeredNick, "JOIN")
         /\ ~errorRejoins => toServer' = toServer
         /\ errorRejoins <=> Head(toBot).type = "error" /\ Head(toBot).nick # registeredNick
         /\ UNCHANGED <<up, occ, stops>> /\ toBot' = Tail(toBot)
<1> DEFINE s == Head(toBot)
<1>1. ~presenceNotHandled
  <2> SUFFICES ASSUME presenceNotHandled PROVE FALSE
    OBVIOUS
  <2>1. s.type \in {"available", "unavailable", "error"} /\ bot.nick = NoNick /\ bot.joining = NoNick
    BY DEF presenceNotHandled, Arrives, canHandlePresence
  <2> QED BY <2>1 DEF Hears, HearsAvailable, HearsError, HearsUnavailable, Shows, ShownAs
<1>2. CASE errorRejoins \/ errorDisablesAutoJoin
  <2>1. UNCHANGED <<up, occ, stops>> /\ toBot' = Tail(toBot) /\ s.type = "error"
    BY <1>2 DEF errorRejoins, errorDisablesAutoJoin, Become, Arrives
  <2>2. errorRejoins <=> s.nick # registeredNick
    BY <1>2 DEF errorRejoins, errorDisablesAutoJoin
  <2>3. ~errorRejoins => toServer' = toServer
    BY <1>2 DEF errorDisablesAutoJoin, Become
  <2> QED BY <1>2, <2>1, <2>2, <2>3, ReadsError
<1>3. CASE presenceOfNobody \/ nickLeaves \/ ownNickChanges \/ ownNickLeaves
  <2>1. UNCHANGED <<up, occ, toServer, stops>> /\ toBot' = Tail(toBot) /\ s.type = "unavailable"
    BY <1>3 DEF presenceOfNobody, nickLeaves, ownNickChanges, ownNickLeaves, Become, Prepared, Arrives
  <2>2. ~errorRejoins
    BY <2>1 DEF errorRejoins, Arrives
  <2> QED BY <1>3, <2>1, <2>2, ReadsUnavailable
<1>4. CASE nickPresent
  <2>1. UNCHANGED <<up, occ, toServer, stops>> /\ toBot' = Tail(toBot) /\ s.type = "available"
    BY <1>4 DEF nickPresent, Become, Prepared, Arrives
  <2>2. ~errorRejoins
    BY <2>1 DEF errorRejoins, Arrives
  <2> QED BY <1>4, <2>1, <2>2, ReadsPresent
<1>5. CASE offlineMessage
  <2>1. UNCHANGED <<up, occ, toServer, stops>> /\ toBot' = Tail(toBot) /\ s.type = "delayed"
    BY <1>5 DEF offlineMessage, Become, Arrives
  <2>2. ~errorRejoins
    BY <2>1 DEF errorRejoins, Arrives
  <2> QED BY <1>5, <2>1, <2>2, ReadsHistory
<1> QED BY <1>1, <1>2, <1>3, <1>4, <1>5 DEF Bot, onPresence

(* What one stanza does to a picture is the same before and after a step.  *)
LEMMA HearsAgain ==
  ASSUME NEW a, NEW s, NEW c, Hears(a, s, c)
  PROVE  Hears(a, s, c)'
BY DEF Hears, HearsAvailable, HearsError, HearsUnavailable

LEMMA PathThere ==
  ASSUME NEW n, Len(toBot') = n, NEW g \in [0..n -> Picture], Shows(g[0])', Ends(g[n])',
         \A k \in 1..n : Hears(g[k - 1], toBot'[k], g[k])
  PROVE  Path(g)'
<1>1. PICK q : q = toBot'
  OBVIOUS
<1>2. ASSUME NEW k \in 1..n PROVE Hears(g[k - 1], q[k], g[k])'
  <2>1. Hears(g[k - 1], q[k], g[k])
    BY <1>1
  <2> QED BY <2>1, HearsAgain
<1> QED BY <1>1, <1>2 DEF Path

(* What the bot reads was the start of the path that leads to the room.    *)
LEMMA BotFollows ==
  ASSUME IInv, Steady, Following, Bot
  PROVE  Following'
<1> DEFINE s == Head(toBot)
<1>0. PICK n : n = Len(toBot)
  OBVIOUS
<1>1. /\ toBot \in Seq(Stanza) /\ toServer \in Seq(Request) /\ toBot # <<>> /\ up
      /\ s \in Stanza /\ n \in Nat /\ n >= 1 /\ toBot[1] = s
  <2>1. toBot \in Seq(Stanza) /\ toServer \in Seq(Request) /\ toBot # <<>> /\ up
    BY DEF Bot, onPresence, presenceNotHandled, errorRejoins, errorDisablesAutoJoin,
           presenceOfNobody, nickLeaves, nickPresent, ownNickChanges, ownNickLeaves,
           offlineMessage, Prepared, Arrives, IInv, TypeOK
  <2> QED BY <1>0, <2>1, TailType, TailAt
<1>2. PICK h : Path(h)
  BY DEF Following
<1>3. /\ h[0] \in Picture /\ h[1] \in Picture /\ h[n] \in Picture /\ Shows(h[0])
      /\ Hears(h[0], s, h[1]) /\ Ends(h[n])
  <2>1. 1 \in 1..n /\ 0 \in 0..n /\ 1 \in 0..n /\ n \in 0..n /\ 1 - 1 = 0
    BY <1>1
  <2>2. h \in [0..n -> Picture] /\ Ends(h[n]) /\ \A k \in 1..n : Hears(h[k - 1], toBot[k], h[k])
    BY <1>0, <1>2 DEF Path
  <2>3. Hears(h[1 - 1], toBot[1], h[1])
    BY <2>1, <2>2
  <2> QED BY <1>0, <1>1, <1>2, <2>1, <2>2, <2>3 DEF Path
<1>4. InOrder /\ Validated(bot)
  BY DEF Following, InOrder, Validated
<1>5. /\ Shows(h[1])' /\ Validated(bot')
      /\ errorRejoins => toServer' = send("presence", registeredNick, "JOIN")
      /\ ~errorRejoins => toServer' = toServer
      /\ errorRejoins <=> s.type = "error" /\ s.nick # registeredNick
      /\ UNCHANGED <<up, occ, stops>> /\ toBot' = Tail(toBot)
  BY <1>1, <1>3, <1>4, ReadsHead
<1>6. /\ Len(toBot') = n - 1 /\ \A k \in 1..(n - 1) : toBot'[k] = toBot[k + 1]
  BY <1>1, <1>5, TailAt, <1>0
<1>7. /\ \A i \in errors(toBot') : i + 1 \in errors(toBot) /\ i + 1 # 1
      /\ \A i \in turnedDown(toBot') : i + 1 \in turnedDown(toBot)
      /\ \A i \in turnedDown(toBot) : i = 1 \/ i - 1 \in turnedDown(toBot')
      /\ 1 \in errors(toBot) <=> s.type = "error"
      /\ 1 \in turnedDown(toBot) <=> s.type = "error" /\ s.nick # registeredNick
  <2>1. \A i \in errors(toBot') : i \in Nat /\ i >= 1
    BY <1>6, <1>1, <1>5 DEF errors
  <2>2. \A i \in errors(toBot') : i + 1 # 1
    BY <2>1
  <2>3. 1 \in DOMAIN toBot
    BY <1>0, <1>1
  <2> QED BY <1>1, <1>5, <2>2, <2>3, TailErrors DEF errors, turnedDown
<1>8. turnedDown(toBot') # {} => turnedDown(toBot) # {}
  BY <1>7
<1>9. ASSUME errorRejoins PROVE InOrder' /\ Ends(h[n])'
  <2>1. errors(toBot') = {} /\ joins(toServer) = {} /\ turnedDown(toBot) # {} /\ ~renamePending
    BY <1>4, <1>5, <1>7, <1>9 DEF InOrder
  <2> DEFINE e == [type |-> "presence", nick |-> registeredNick, why |-> "JOIN"]
  <2>2. e \in Request /\ e.why = "JOIN" /\ e.nick = registeredNick /\ e.type = "presence"
    BY ConstantsAssumption DEF Request
  <2>3. toServer' = Append(toServer, e)
    BY <1>5, <1>9 DEF send
  <2> HIDE DEF e
  <2>4. /\ joins(toServer') = {Len(toServer) + 1} /\ toServer'[Len(toServer) + 1] = e
        /\ leaves(toServer') = leaves(toServer)
        /\ DOMAIN toServer' = 1..(Len(toServer) + 1) /\ DOMAIN toServer = 1..Len(toServer)
        /\ \A i \in DOMAIN toServer : toServer'[i] = toServer[i]
        /\ Len(toServer) \in Nat
    <3> DEFINE p == Append(toServer, e)
    <3>1. /\ joins(p) = joins(toServer) \union (IF e.why = "JOIN" THEN {Len(toServer) + 1} ELSE {})
          /\ leaves(p) = leaves(toServer) \union (IF e.why = "LEAVE" THEN {Len(toServer) + 1} ELSE {})
          /\ p[Len(toServer) + 1] = e /\ Len(toServer) \in Nat
          /\ DOMAIN p = 1..(Len(toServer) + 1) /\ DOMAIN toServer = 1..Len(toServer)
          /\ \A i \in DOMAIN toServer : p[i] = toServer[i]
      BY <1>1, <2>2, SentRequest
    <3> QED BY <2>1, <2>2, <2>3, <3>1
  <2>5. \A i \in DOMAIN toServer' : toServer'[i] = e \/ (i \in DOMAIN toServer /\ toServer'[i] = toServer[i])
    BY <2>4
  <2>6. turnedDown(toBot') = {}
    BY <2>1 DEF turnedDown
  <2>7. Ends(h[n])'
    BY <1>3, <1>5, <2>1, <2>2, <2>4, <2>6 DEF Ends, InRoom, BotSeats
  <2>8. ~renamePending'
    BY <2>1, <2>2, <2>5 DEF renamePending
  <2>9. InOrder'
    BY <1>1, <1>4, <1>5, <2>1, <2>2, <2>4, <2>5, <2>8 DEF InOrder, Validated
  <2> QED BY <2>7, <2>9
<1>10. ASSUME ~errorRejoins PROVE InOrder' /\ Ends(h[n])'
  <2>1. toServer' = toServer /\ (turnedDown(toBot') = {} <=> turnedDown(toBot) = {})
    BY <1>5, <1>7, <1>10
  <2>2. Ends(h[n])'
    BY <1>3, <1>5, <2>1 DEF Ends, InRoom, BotSeats
  <2>3. renamePending' <=> renamePending
    BY <2>1 DEF renamePending
  <2>4. errors(toBot) = {} => errors(toBot') = {}
    BY <1>7
  <2>5. \A i, j \in errors(toBot') : i = j
    <3> SUFFICES ASSUME NEW i \in errors(toBot'), NEW j \in errors(toBot') PROVE i = j
      OBVIOUS
    <3>1. i + 1 = j + 1 /\ i \in Nat /\ j \in Nat
      BY <1>1, <1>4, <1>5, <1>6, <1>7 DEF InOrder, errors
    <3> QED BY <3>1
  <2>6. InOrder'
    BY <1>1, <1>4, <1>5, <2>1, <2>3, <2>4, <2>5 DEF InOrder, Validated, InRoom, BotSeats
  <2> QED BY <2>2, <2>6
<1>11. InOrder' /\ Ends(h[n])'
  BY <1>9, <1>10
<1>12. PICK g : g = [k \in 0..(n - 1) |-> h[k + 1]]
  OBVIOUS
<1>13. Path(g)'
  <2>1. h \in [0..n -> Picture] /\ \A k \in 1..n : Hears(h[k - 1], toBot[k], h[k])
    BY <1>0, <1>2 DEF Path
  <2>2. g \in [0..(n - 1) -> Picture] /\ g[0] = h[1] /\ g[n - 1] = h[n]
    BY <1>1, <1>12, <2>1
  <2>3. ASSUME NEW k \in 1..(n - 1) PROVE Hears(g[k - 1], toBot'[k], g[k])
    <3>1. k + 1 \in 1..n /\ g[k - 1] = h[k] /\ g[k] = h[k + 1] /\ (k + 1) - 1 = k
      BY <1>1, <1>12
    <3>2. Hears(h[(k + 1) - 1], toBot[k + 1], h[k + 1])
      BY <2>1, <3>1
    <3> QED BY <1>6, <3>1, <3>2
  <2>4. Len(toBot') = n - 1 /\ Shows(g[0])' /\ Ends(g[n - 1])'
    BY <1>5, <1>6, <1>11, <2>2
  <2> QED BY <2>2, <2>3, <2>4, PathThere
<1> QED BY <1>11, <1>13 DEF Following

-----------------------------------------------------------------------------
(* What the server and the people in the room add to the stream.           *)
LEMMA EndOfPath ==
  ASSUME TypeOK, NEW h, Path(h)
  PROVE  LET a == h[Len(toBot)]
         IN  /\ Len(toBot) \in Nat /\ a \in Picture /\ Ends(a)
             /\ InRoom <=> a.nick # NoNick
             /\ InRoom => BotSeat = a.nick /\ a.nick \in Nick /\ a.seats = occ
             /\ a.seats \in [Nick -> Seat]
<1> DEFINE a == h[Len(toBot)]
<1>1. Len(toBot) \in Nat
  BY DEF TypeOK
<1>2. a \in Picture /\ Ends(a)
  BY <1>1 DEF Path
<1> HIDE DEF a
<1>3. \A n \in Nick : n \in BotSeats <=> n = a.nick
  BY <1>2 DEF Ends, BotSeats
<1>4. a.nick \in Nick \union {NoNick} /\ NoNick \notin Nick /\ BotSeats \subseteq Nick
  BY <1>2, ConstantsAssumption DEF Picture, BotSeats
<1>5. a.nick # NoNick => BotSeats = {a.nick}
  BY <1>3, <1>4
<1>6. a.nick = NoNick => BotSeats = {}
  BY <1>3, <1>4
<1>7. InRoom <=> a.nick # NoNick
  BY <1>5, <1>6 DEF InRoom
<1>8. InRoom => BotSeat = a.nick
  BY <1>5, <1>7 DEF BotSeat
<1> QED BY <1>1, <1>2, <1>4, <1>7, <1>8 DEF Ends, Picture, a

LEMMA InRoomIsUp ==
  ASSUME TypeOK, InOrder, NEW h, Path(h), InRoom
  PROVE  up
<1>1. PICK a : a = h[Len(toBot)]
  OBVIOUS
<1>2. a.nick # NoNick /\ (toBot = <<>> => a = h[0])
  BY <1>1, EndOfPath
<1>3. ~up => bot.nick = NoNick /\ toBot = <<>>
  BY DEF InOrder, EmptyMemory
<1> QED BY <1>2, <1>3 DEF Path, Shows, ShownAs

(* What hearing q makes of one picture, in as many steps.                  *)
Leads(q, f, first, last) ==
  /\ f \in [0..Len(q) -> Picture] /\ f[0] = first /\ f[Len(q)] = last
  /\ \A k \in 1..Len(q) : Hears(f[k - 1], q[k], f[k])

LEMMA LeadOn ==
  ASSUME NEW p \in Seq(Stanza), NEW q \in Seq(Stanza), NEW x, NEW y, NEW z,
         NEW h, Leads(p, h, x, y), NEW f, Leads(q, f, y, z)
  PROVE  \E g : Leads(p \o q, g, x, z)
<1> DEFINE n == Len(p)
           m == Len(q)
<1>1. /\ n \in Nat /\ m \in Nat /\ Len(p \o q) = n + m
      /\ \A k \in 1..n : (p \o q)[k] = p[k]
      /\ \A k \in 1..m : (p \o q)[n + k] = q[k]
  BY ConcatAt
<1>3. /\ h \in [0..n -> Picture] /\ h[0] = x /\ h[n] = y
      /\ \A k \in 1..n : Hears(h[k - 1], p[k], h[k])
      /\ f \in [0..m -> Picture] /\ f[0] = y /\ f[m] = z
      /\ \A k \in 1..m : Hears(f[k - 1], q[k], f[k])
  BY DEF Leads
<1> HIDE DEF n, m
<1>2. PICK g : g = [k \in 0..(n + m) |-> IF k <= n THEN h[k] ELSE f[k - n]]
  OBVIOUS
<1>4. \A k \in 0..n : g[k] = h[k]
  BY <1>1, <1>2
<1>5. \A k \in 0..m : g[n + k] = f[k]
  <2> TAKE k \in 0..m
  <2>1. CASE k = 0
    BY <1>1, <1>3, <1>4, <2>1
  <2>2. CASE k # 0
    <3>1. n + k \in 0..(n + m) /\ ~(n + k <= n) /\ (n + k) - n = k
      BY <1>1, <2>2
    <3> QED BY <1>2, <3>1
  <2> QED BY <2>1, <2>2
<1>6. g \in [0..(n + m) -> Picture]
  <2>1. ASSUME NEW k \in 0..(n + m) PROVE (IF k <= n THEN h[k] ELSE f[k - n]) \in Picture
    <3>1. k <= n => k \in 0..n
      BY <1>1
    <3>2. ~(k <= n) => k - n \in 0..m
      BY <1>1
    <3> QED BY <1>3, <3>1, <3>2
  <2> QED BY <1>2, <2>1
<1>7. ASSUME NEW k \in 1..(n + m) PROVE Hears(g[k - 1], (p \o q)[k], g[k])
  <2>1. CASE k <= n
    <3>1. k \in 1..n /\ k - 1 \in 0..n /\ k \in 0..n
      BY <1>1, <2>1
    <3> QED BY <1>1, <1>3, <1>4, <3>1
  <2>2. CASE ~(k <= n)
    <3>1. PICK j \in 1..m : k = n + j /\ j - 1 \in 0..m /\ j \in 0..m /\ k - 1 = n + (j - 1)
      <4>1. k - n \in 1..m /\ k = n + (k - n) /\ (k - n) - 1 \in 0..m /\ k - n \in 0..m
            /\ k - 1 = n + ((k - n) - 1)
        BY <1>1, <2>2
      <4> QED BY <4>1
    <3>2. g[k - 1] = f[j - 1] /\ g[k] = f[j] /\ (p \o q)[k] = q[j]
      BY <1>1, <1>5, <3>1
    <3> QED BY <1>3, <3>1, <3>2
  <2> QED BY <2>1, <2>2
<1>8. g[0] = x /\ g[n + m] = z
  <2>1. 0 \in 0..n /\ m \in 0..m
    BY <1>1
  <2> QED BY <1>3, <1>4, <1>5, <2>1
<1>9. Leads(p \o q, g, x, z)
  BY <1>1, <1>6, <1>7, <1>8 DEF Leads
<1> QED BY <1>9

LEMMA LeadOne ==
  ASSUME NEW s \in Stanza, NEW a \in Picture, NEW c \in Picture, Hears(a, s, c)
  PROVE  <<s>> \in Seq(Stanza) /\ \E f : Leads(<<s>>, f, a, c)
<1>1. PICK f : f = [k \in 0..1 |-> IF k = 0 THEN a ELSE c]
  OBVIOUS
<1>2. f \in [0..1 -> Picture] /\ f[0] = a /\ f[1] = c
  BY <1>1
<1>3. <<s>> \in Seq(Stanza) /\ Len(<<s>>) = 1 /\ <<s>>[1] = s
  OBVIOUS
<1>4. \A k \in 1..1 : k = 1 /\ k - 1 = 0
  OBVIOUS
<1>5. Leads(<<s>>, f, a, c)
  BY <1>2, <1>3, <1>4 DEF Leads
<1> QED BY <1>3, <1>5

LEMMA LeadNone ==
  ASSUME NEW a \in Picture
  PROVE  <<>> \in Seq(Stanza) /\ \E f : Leads(<<>>, f, a, a)
<1>1. PICK f : f = [k \in 0..0 |-> a]
  OBVIOUS
<1>2. f \in [0..0 -> Picture] /\ f[0] = a /\ Len(<<>>) = 0 /\ <<>> \in Seq(Stanza) /\ 1..0 = {}
  BY <1>1
<1>3. Leads(<<>>, f, a, a)
  BY <1>2 DEF Leads
<1> QED BY <1>2, <1>3

(* The stream grows, and the path with it.                                 *)
LEMMA PathGrows ==
  ASSUME TypeOK, NEW h, Path(h), NEW q \in Seq(Stanza), NEW last,
         \E f : Leads(q, f, h[Len(toBot)], last),
         toBot' = toBot \o q, UNCHANGED <<bot, db>>, Ends(last)'
  PROVE  \E g : Path(g)'
<1>1. Leads(toBot, h, h[0], h[Len(toBot)]) /\ toBot \in Seq(Stanza) /\ Shows(h[0])
  BY DEF Path, Leads, TypeOK
<1>2. PICK g : Leads(toBot \o q, g, h[0], last)
  BY <1>1, LeadOn
<1>3. PICK p : p = toBot'
  OBVIOUS
<1>4. Leads(p, g, h[0], last)
  BY <1>2, <1>3
<1>5. Shows(g[0])'
  BY <1>1, <1>4 DEF Shows, Leads
<1>6. Ends(g[Len(p)])'
  BY <1>4 DEF Leads
<1>7. /\ g \in [0..Len(toBot') -> Picture]
      /\ \A k \in 1..Len(toBot') : Hears(g[k - 1], toBot'[k], g[k])
  BY <1>3, <1>4 DEF Leads
<1>8. Path(g)'
  BY <1>3, <1>5, <1>6, <1>7, PathThere
<1> QED BY <1>8

LEMMA TellsOne ==
  ASSUME TypeOK, NEW h, Path(h), NEW s \in Stanza, NEW c \in Picture,
         Hears(h[Len(toBot)], s, c),
         toBot' = Append(toBot, s), UNCHANGED <<bot, db>>, Ends(c)'
  PROVE  \E g : Path(g)'
<1>1. h[Len(toBot)] \in Picture
  BY EndOfPath
<1>2. toBot' = toBot \o <<s>>
  BY AppendIsConcat DEF TypeOK
<1> QED BY <1>1, <1>2, LeadOne, PathGrows

(* Nothing is said.                                                        *)
LEMMA TellsNothing ==
  ASSUME NEW h, Path(h), UNCHANGED <<bot, db, toBot>>,
         \A a : a = h[Len(toBot)] => Ends(a)'
  PROVE  \E g : Path(g)'
<1>1. PICK n : n = Len(toBot)
  OBVIOUS
<1>2. Ends(h[n])' /\ Len(toBot') = n
  BY <1>1
<1>3. Shows(h[0])'
  BY DEF Path, Shows
<1>4. /\ h \in [0..n -> Picture]
      /\ \A k \in 1..n : Hears(h[k - 1], toBot'[k], h[k])
  BY <1>1 DEF Path
<1>5. Path(h)'
  BY <1>2, <1>3, <1>4, PathThere
<1> QED BY <1>5

LEMMA ToldErrors ==
  ASSUME NEW q \in Seq(Stanza), NEW e \in Stanza
  PROVE  LET p == Append(q, e)
         IN  /\ errors(p) = errors(q) \union (IF e.type = "error" THEN {Len(q) + 1} ELSE {})
             /\ turnedDown(p) = turnedDown(q) \union
                  (IF e.type = "error" /\ e.nick # registeredNick THEN {Len(q) + 1} ELSE {})
<1> DEFINE p == Append(q, e)
           n == Len(q)
<1>1. n \in Nat /\ Len(p) = n + 1 /\ p[n + 1] = e /\ DOMAIN p = 1..(n + 1) /\ DOMAIN q = 1..n
      /\ \A i \in 1..n : p[i] = q[i]
  BY AppendAt
<1> HIDE DEF p, n
<1>2. \A i \in 1..(n + 1) : i = n + 1 \/ i \in 1..n
  BY <1>1
<1>3. n + 1 \in 1..(n + 1) /\ \A i \in 1..n : i \in 1..(n + 1)
  BY <1>1
<1>4. errors(p) = errors(q) \union (IF e.type = "error" THEN {n + 1} ELSE {})
  BY <1>1, <1>2, <1>3 DEF errors
<1>5. turnedDown(p) = turnedDown(q) \union
        (IF e.type = "error" /\ e.nick # registeredNick THEN {n + 1} ELSE {})
  BY <1>1, <1>2, <1>3 DEF turnedDown, errors
<1> QED BY <1>4, <1>5 DEF p, n

(* Somebody else comes, goes or is made a moderator.                       *)
LEMMA OthersFollow ==
  ASSUME IInv, Steady, Following,
         NEW n \in Nick, NEW o \in Seat, NEW s \in Stanza,
         occ[n].jid # BotJid, o.jid # BotJid,
         o.jid \in Person => n \in PersonNick, o.jid = NoJid => o = Unseated,
         s.type \in {"available", "unavailable"}, s.nick = n,
         s.type = "available" => o.jid # NoJid /\ o = [jid |-> s.jid, role |-> s.role],
         s.type = "unavailable" => o = Unseated,
         occ' = [occ EXCEPT ![n] = o], toBot' = IF InRoom THEN Append(toBot, s) ELSE toBot,
         UNCHANGED <<up, bot, db, toServer, stops>>
  PROVE  Following'
<1>1. PICK h : Path(h)
  BY DEF Following
<1>2. TypeOK /\ occ \in [Nick -> Seat] /\ toBot \in Seq(Stanza) /\ InOrder
  BY DEF IInv, TypeOK, Following, Seat
<1>3. PICK a : a = h[Len(toBot)]
  OBVIOUS
<1>4. /\ a \in Picture /\ Ends(a) /\ (InRoom <=> a.nick # NoNick)
      /\ (InRoom => a.nick \in Nick /\ a.seats = occ)
  BY <1>1, <1>2, <1>3, EndOfPath
<1>5. /\ occ' \in [Nick -> Seat] /\ occ'[n] = o
      /\ \A m \in Nick : m # n => occ'[m] = occ[m]
      /\ \A m \in Nick : occ'[m].jid = BotJid <=> occ[m].jid = BotJid
  BY <1>2
<1>6. InRoom' <=> InRoom
  BY <1>5 DEF InRoom, BotSeats
<1>7. errors(toBot') = errors(toBot) /\ turnedDown(toBot') = turnedDown(toBot)
  BY <1>2, ToldErrors
<1>8. InOrder'
  <2>1. InRoom => up
    BY <1>1, <1>2, InRoomIsUp
  <2>2. (~up => toBot' = toBot) /\ (renamePending' <=> renamePending)
    BY <2>1 DEF renamePending
  <2>3. \A m \in Nick : (occ'[m].jid \in Person => m \in PersonNick)
                         /\ (occ'[m].jid = NoJid => occ'[m] = Unseated)
    BY <1>2, <1>5 DEF InOrder
  <2> QED BY <1>2, <1>6, <1>7, <2>2, <2>3 DEF InOrder
<1>9. CASE InRoom
  <2>1. PICK c : c = [nick |-> a.nick, joining |-> a.joining, seats |-> occ',
                      least |-> a.least, most |-> a.most]
    OBVIOUS
  <2>2. c \in Picture
    BY <1>4, <1>5, <2>1 DEF Picture
  <2>3. Hears(a, s, c)
    <3>1. a.nick # NoNick /\ n # a.nick /\ c.seats = [a.seats EXCEPT ![n] = o]
      BY <1>4, <1>9, <2>1 DEF Ends
    <3>2. CASE s.type = "available"
      <4>1. s.jid # NoJid /\ o = [jid |-> s.jid, role |-> s.role]
        BY <3>2
      <4>2. HearsAvailable(a, s, c)
        BY <2>1, <3>1, <4>1 DEF HearsAvailable
      <4> QED BY <3>2, <4>2 DEF Hears
    <3>3. CASE s.type = "unavailable"
      <4>1. HearsUnavailable(a, s, c)
        BY <2>1, <3>1, <3>3 DEF HearsUnavailable
      <4> QED BY <3>3, <4>1 DEF Hears
    <3> QED BY <3>2, <3>3
  <2>4. Ends(c)'
    BY <1>4, <1>5, <1>6, <1>7, <1>9, <2>1 DEF Ends
  <2>5. \E g : Path(g)'
    BY <1>1, <1>2, <1>3, <1>9, <2>2, <2>3, <2>4, TellsOne
  <2> QED BY <1>8, <2>5 DEF Following
<1>10. CASE ~InRoom
  <2>1. Ends(a)'
    BY <1>4, <1>5, <1>6, <1>7, <1>10 DEF Ends
  <2>2. \E g : Path(g)'
    BY <1>1, <1>3, <1>10, <2>1, TellsNothing
  <2> QED BY <1>8, <2>2 DEF Following
<1> QED BY <1>9, <1>10

(* What the bot is told when it is put out, or let go.                     *)
LEMMA ExitFollows ==
  ASSUME IInv, Steady, NEW h, Path(h), InRoom,
         toBot' = Append(toBot, unavailable(BotSeat, NoNick)),
         occ' = [occ EXCEPT ![BotSeat] = Unseated],
         \A i \in joins(toServer') : \E j \in joins(toServer) : toServer'[i].nick = toServer[j].nick,
         UNCHANGED <<up, bot, db>>
  PROVE  /\ \E g : Path(g)'
         /\ errors(toBot') = errors(toBot)
         /\ \A n \in Nick : occ'[n] = occ[n] \/ occ'[n] = Unseated
         /\ ~InRoom'
<1>2. TypeOK /\ occ \in [Nick -> Seat] /\ toBot \in Seq(Stanza)
  BY DEF IInv, TypeOK, Seat
<1>3. PICK a : a = h[Len(toBot)]
  OBVIOUS
<1>4. a \in Picture /\ Ends(a) /\ BotSeat = a.nick /\ a.nick \in Nick /\ a.seats = occ
      /\ a.nick # NoNick
  BY <1>2, <1>3, EndOfPath
<1>5. PICK s : s = unavailable(BotSeat, NoNick)
  OBVIOUS
<1>6. /\ s \in Stanza /\ s.type = "unavailable" /\ s.nick = a.nick /\ s.newNick = NoNick
  BY <1>2, <1>4, <1>5, StanzaTypes DEF unavailable
<1>7. PICK c : c = [nick |-> NoNick, joining |-> a.joining, seats |-> Empty,
                    least |-> FALSE, most |-> FALSE]
  OBVIOUS
<1>8. c \in Picture
  BY <1>4, <1>7 DEF Picture, Empty, Unseated, Seat
<1>9. occ[a.nick].jid # NoJid
  BY <1>4, ConstantsAssumption DEF Ends
<1>10. Hears(a, s, c)
  <2>1. HearsUnavailable(a, s, c)
    BY <1>4, <1>6, <1>7, <1>9 DEF HearsUnavailable
  <2> QED BY <1>6, <2>1 DEF Hears
<1>11. /\ occ'[a.nick] = Unseated /\ \A m \in Nick : m # a.nick => occ'[m] = occ[m]
  BY <1>2, <1>4
<1>12. \A m \in Nick : occ'[m].jid # BotJid
  BY <1>4, <1>11, ConstantsAssumption DEF Ends, Unseated
<1>13. ~InRoom'
  BY <1>12 DEF InRoom, BotSeats
<1>14. errors(toBot') = errors(toBot) /\ turnedDown(toBot') = turnedDown(toBot)
  BY <1>2, <1>5, <1>6, ToldErrors
<1>15. Ends(c)'
  BY <1>4, <1>7, <1>12, <1>13, <1>14, ConstantsAssumption DEF Ends
<1>16. \E g : Path(g)'
  BY <1>2, <1>3, <1>5, <1>6, <1>8, <1>10, <1>15, TellsOne
<1> QED BY <1>11, <1>13, <1>14, <1>16

LEMMA PeopleFollow ==
  ASSUME IInv, Steady, Following, People
  PROVE  Following'
<1>1. /\ TypeOK /\ occ \in [Nick -> Seat] /\ toBot \in Seq(Stanza) /\ InOrder
      /\ PersonNick \subseteq Nick /\ BotJid \notin Person /\ NoJid \notin Person
      /\ BotJid # NoJid
  BY ConstantsAssumption DEF IInv, TypeOK, Following, Seat
<1>2. ASSUME NEW n \in PersonNick, NEW jid \in Person, NEW role \in Roles, personEnters(n, jid, role)
      PROVE  Following'
  <2> DEFINE o == [jid |-> jid, role |-> role]
             s == available(n, o)
  <2>1. /\ n \in Nick /\ o \in Seat /\ o.jid = jid
        /\ o = [jid |-> s.jid, role |-> s.role] /\ s.type = "available" /\ s.nick = n
    BY <1>1 DEF Seat, Jids, available
  <2>2. occ' = [occ EXCEPT ![n] = o] /\ occ'[n] = o /\ occ[n].jid = NoJid
    BY <1>1, <1>2, <2>1 DEF personEnters, Occupied
  <2>3. toBot' = IF InRoom THEN Append(toBot, s) ELSE toBot
    BY <1>2, <2>2 DEF personEnters, Tell
  <2>4. s \in Stanza
    BY <1>1, <2>1, StanzaTypes
  <2>5. UNCHANGED <<up, bot, db, toServer, stops>>
    BY <1>2 DEF personEnters
  <2> HIDE DEF o, s
  <2> QED BY <1>1, <2>1, <2>2, <2>3, <2>4, <2>5, OthersFollow
<1>3. ASSUME NEW n \in PersonNick, NEW role \in Roles, personChangesRole(n, role)
      PROVE  Following'
  <2> DEFINE o == [jid |-> occ[n].jid, role |-> role]
             s == available(n, o)
  <2>1. n \in Nick /\ occ[n].jid \in Person /\ occ[n] \in Seat
    BY <1>1, <1>3 DEF personChangesRole
  <2>2. /\ o \in Seat /\ o.jid = occ[n].jid
        /\ o = [jid |-> s.jid, role |-> s.role] /\ s.type = "available" /\ s.nick = n
    BY <2>1 DEF Seat, Jids, available
  <2>3. occ' = [occ EXCEPT ![n] = o] /\ occ'[n] = o
    <3>1. occ' = [occ EXCEPT ![n] = [occ[n] EXCEPT !.role = role]]
      BY <1>3 DEF personChangesRole
    <3>2. [occ[n] EXCEPT !.role = role] = o
      BY <2>1 DEF Seat
    <3> QED BY <1>1, <2>1, <3>1, <3>2
  <2>4. toBot' = IF InRoom THEN Append(toBot, s) ELSE toBot
    BY <1>3, <2>3 DEF personChangesRole, Tell
  <2>5. s \in Stanza
    BY <1>1, <2>1, <2>2, StanzaTypes
  <2>6. UNCHANGED <<up, bot, db, toServer, stops>>
    BY <1>3 DEF personChangesRole
  <2> HIDE DEF o, s
  <2> QED BY <1>1, <2>1, <2>2, <2>3, <2>4, <2>5, <2>6, OthersFollow
<1>4. ASSUME NEW n \in PersonNick, personLeaves(n)
      PROVE  Following'
  <2> DEFINE s == unavailable(n, NoNick)
  <2>1. /\ n \in Nick /\ occ[n].jid \in Person /\ Unseated \in Seat
        /\ s.type = "unavailable" /\ s.nick = n
        /\ Unseated.jid = NoJid
    BY <1>1, <1>4 DEF personLeaves, Seat, Unseated, unavailable
  <2>2. s \in Stanza
    BY <1>1, <2>1, StanzaTypes
  <2>3. /\ occ' = [occ EXCEPT ![n] = Unseated] /\ UNCHANGED <<up, bot, db, toServer, stops>>
        /\ toBot' = IF InRoom THEN Append(toBot, s) ELSE toBot
    BY <1>4 DEF personLeaves, Tell
  <2> HIDE DEF s
  <2> QED BY <1>1, <2>1, <2>2, <2>3, OthersFollow
<1>5. CASE botIsKicked
  <2>1. PICK h : Path(h)
    BY DEF Following
  <2>2. /\ InRoom /\ toBot' = Append(toBot, unavailable(BotSeat, NoNick)) /\ ~renamePending
        /\ occ' = [occ EXCEPT ![BotSeat] = Unseated] /\ UNCHANGED <<up, bot, db, toServer, stops>>
    BY <1>5 DEF botIsKicked, Steady
  <2>3. /\ \E g : Path(g)'
        /\ errors(toBot') = errors(toBot)
        /\ \A n \in Nick : occ'[n] = occ[n] \/ occ'[n] = Unseated
    BY <2>1, <2>2, ExitFollows
  <2>4. ~renamePending' /\ up
    BY <1>1, <2>1, <2>2, InRoomIsUp DEF renamePending
  <2>5. InOrder'
    BY <1>1, <2>2, <2>3, <2>4 DEF InOrder, Unseated
  <2> QED BY <2>3, <2>5 DEF Following
<1> QED BY <1>2, <1>3, <1>4, <1>5 DEF People

-----------------------------------------------------------------------------
(* The server takes a request.                                             *)
LEMMA TakesRequest ==
  ASSUME TypeOK, InOrder, toServer # <<>>, toServer' = Tail(toServer)
  PROVE  /\ Head(toServer) \in Request /\ toServer[1] = Head(toServer) /\ 1 \in DOMAIN toServer
         /\ \A i \in joins(toServer') : i + 1 \in joins(toServer) /\ toServer'[i].nick = toServer[i + 1].nick
         /\ \A i, j \in joins(toServer') : i = j
         /\ Head(toServer).why # "JOIN" => (joins(toServer) # {} => joins(toServer') # {})
         /\ Head(toServer).why # "LEAVE" => (leaves(toServer) # {} => leaves(toServer') # {})
         /\ \A i \in DOMAIN toServer' : toServer'[i].type = "unavailable" <=> toServer'[i].why = "LEAVE"
         /\ ~renamePending'
         /\ 1 \in joins(toServer) => joins(toServer') = {}
         /\ renamePending => joins(toServer) = {} /\ Head(toServer).why = "SETNICK"
<1>1. toServer \in Seq(Request)
  BY DEF TypeOK
<1>2. /\ Head(toServer) \in Request /\ toServer[1] = Head(toServer) /\ 1 \in DOMAIN toServer
      /\ Len(toServer) \in Nat /\ Len(toServer') = Len(toServer) - 1
      /\ DOMAIN toServer = 1..Len(toServer) /\ DOMAIN toServer' = 1..Len(toServer')
  BY <1>1, TailAt, TailType
<1>3. /\ \A i \in DOMAIN toServer' : i + 1 \in DOMAIN toServer /\ toServer'[i] = toServer[i + 1]
      /\ \A i \in joins(toServer') : i + 1 \in joins(toServer)
      /\ \A i \in joins(toServer) : i = 1 \/ i - 1 \in joins(toServer')
      /\ \A i \in leaves(toServer) : i = 1 \/ i - 1 \in leaves(toServer')
  BY <1>1, TailRequests
<1>4. \A i \in joins(toServer') : i \in Nat /\ i >= 1 /\ i \in DOMAIN toServer'
  BY <1>2 DEF joins
<1>5. \A i, j \in joins(toServer') : i = j
  <2> SUFFICES ASSUME NEW i \in joins(toServer'), NEW j \in joins(toServer') PROVE i = j
    OBVIOUS
  <2>1. i + 1 = j + 1
    BY <1>3 DEF InOrder
  <2> QED BY <1>4, <2>1
<1>6. 1 \in joins(toServer) => joins(toServer') = {}
  <2> SUFFICES ASSUME 1 \in joins(toServer), NEW i \in joins(toServer') PROVE FALSE
    OBVIOUS
  <2>1. i + 1 = 1
    BY <1>3 DEF InOrder
  <2> QED BY <1>4, <2>1
<1>7. renamePending => /\ joins(toServer) = {} /\ Head(toServer).why = "SETNICK" /\ DOMAIN toServer' = {}
  <2> SUFFICES ASSUME renamePending
               PROVE  joins(toServer) = {} /\ Head(toServer).why = "SETNICK" /\ DOMAIN toServer' = {}
    OBVIOUS
  <2>1. Len(toServer) = 1
    BY DEF InOrder
  <2>2. \A i \in DOMAIN toServer : i = 1
    <3> SUFFICES ASSUME NEW i \in DOMAIN toServer PROVE i = 1
      OBVIOUS
    <3>1. i \in 1..Len(toServer)
      BY <1>2
    <3> QED BY <2>1, <3>1
  <2>3. toServer[1].why = "SETNICK"
    BY <2>2 DEF renamePending
  <2>4. DOMAIN toServer' = {}
    <3>1. PICK m : m = Len(toServer')
      OBVIOUS
    <3>2. m = 0
      <4>1. m = 1 - 1
        BY <1>2, <2>1, <3>1, Zenon
      <4> QED BY <4>1
    <3>3. DOMAIN toServer' = 1..m
      BY <1>2, <3>1
    <3> QED BY <3>2, <3>3
  <2> QED BY <1>2, <2>2, <2>3, <2>4 DEF joins
<1>8. ~renamePending'
  <2> SUFFICES ASSUME NEW i \in DOMAIN toServer', toServer'[i].why = "SETNICK" PROVE FALSE
    BY DEF renamePending
  <2>1. renamePending
    BY <1>3 DEF renamePending
  <2> QED BY <1>7, <2>1
<1>9. \A i \in joins(toServer') : i + 1 \in joins(toServer) /\ toServer'[i].nick = toServer[i + 1].nick
  BY <1>3, <1>4
<1>10. Head(toServer).why # "JOIN" => (joins(toServer) # {} => joins(toServer') # {})
  BY <1>2, <1>3 DEF joins
<1>11. Head(toServer).why # "LEAVE" => (leaves(toServer) # {} => leaves(toServer') # {})
  BY <1>2, <1>3 DEF leaves
<1>12. \A i \in DOMAIN toServer' : toServer'[i].type = "unavailable" <=> toServer'[i].why = "LEAVE"
  BY <1>3 DEF InOrder
<1> QED BY <1>2, <1>5, <1>6, <1>7, <1>8, <1>9, <1>10, <1>11, <1>12

(* A presence is a JOIN, or a SETNICK from inside.                         *)
LEMMA TakesPresence ==
  ASSUME TypeOK, InOrder, Asked("presence"), toServer' = Tail(toServer)
  PROVE  /\ errors(toBot) = {} /\ joins(toServer') = {} /\ ~renamePending'
         /\ Head(toServer).nick \in Nick /\ up
         /\ leaves(toServer) # {} => leaves(toServer') # {}
         /\ ~InRoom => 1 \in joins(toServer) /\ toServer[1] = Head(toServer)
         /\ \A i \in DOMAIN toServer' : toServer'[i].type = "unavailable" <=> toServer'[i].why = "LEAVE"
<1>1. up /\ toServer # <<>> /\ Head(toServer).type = "presence"
  BY DEF Asked
<1>2. Head(toServer) \in Request /\ toServer[1] = Head(toServer) /\ 1 \in DOMAIN toServer
  BY <1>1, TakesRequest
<1>3. Head(toServer).why # "LEAVE"
  BY <1>1, <1>2 DEF InOrder
<1>4. CASE Head(toServer).why = "JOIN"
  <2>1. 1 \in joins(toServer)
    BY <1>2, <1>4 DEF joins
  <2>2. errors(toBot) = {}
    BY <2>1 DEF InOrder
  <2> QED BY <1>1, <1>2, <1>3, <2>1, <2>2, TakesRequest DEF Request
<1>5. CASE Head(toServer).why = "SETNICK"
  <2>1. renamePending
    BY <1>2, <1>5 DEF renamePending
  <2>2. InRoom /\ errors(toBot) = {} /\ joins(toServer) = {}
    BY <1>1, <2>1, TakesRequest DEF InOrder
  <2>3. joins(toServer') = {}
    BY <1>1, <2>2, TakesRequest
  <2> QED BY <1>1, <1>2, <1>3, <2>2, <2>3, TakesRequest DEF Request
<1> QED BY <1>2, <1>3, <1>4, <1>5 DEF Request

(* A step after which nothing that was asked is left to be answered.       *)
LEMMA OrderAfterPresence ==
  ASSUME IInv, InOrder, Asked("presence"), toServer' = Tail(toServer),
         UNCHANGED <<up, bot>>, \A i, j \in errors(toBot') : i = j,
         \A n \in Nick : (occ'[n].jid \in Person => n \in PersonNick)
                         /\ (occ'[n].jid = NoJid => occ'[n] = Unseated)
  PROVE  InOrder'
<1>1. /\ joins(toServer') = {} /\ ~renamePending' /\ up
      /\ \A i \in DOMAIN toServer' : toServer'[i].type = "unavailable" <=> toServer'[i].why = "LEAVE"
  BY TakesPresence DEF IInv
<1>2. \A i, j \in joins(toServer') : i = j
  BY <1>1
<1> QED BY <1>1, <1>2 DEF InOrder

LEMMA LetGoFollows ==
  ASSUME IInv, Steady, Following, serverLetsGo
  PROVE  Following'
<1>1. TypeOK /\ InOrder /\ up /\ toServer # <<>> /\ Head(toServer).type = "unavailable"
      /\ toServer' = Tail(toServer) /\ UNCHANGED <<up, bot, db, stops>>
  BY DEF IInv, Following, serverLetsGo, Asked
<1>2. PICK h : Path(h)
  BY DEF Following
<1>3. /\ \A i \in joins(toServer') : i + 1 \in joins(toServer) /\ toServer'[i].nick = toServer[i + 1].nick
      /\ \A i, j \in joins(toServer') : i = j
      /\ joins(toServer) # {} => joins(toServer') # {}
      /\ ~renamePending'
      /\ \A i \in DOMAIN toServer' : toServer'[i].type = "unavailable" <=> toServer'[i].why = "LEAVE"
  <2>1. Head(toServer) \in Request /\ toServer[1] = Head(toServer) /\ 1 \in DOMAIN toServer
    BY <1>1, TakesRequest
  <2>2. Head(toServer).why = "LEAVE"
    BY <1>1, <2>1 DEF InOrder
  <2> QED BY <1>1, <2>2, TakesRequest
<1>4. joins(toServer') # {} => joins(toServer) # {}
  BY <1>3
<1>5. CASE InRoom
  <2>1. /\ toBot' = Append(toBot, unavailable(BotSeat, NoNick))
        /\ occ' = [occ EXCEPT ![BotSeat] = Unseated]
    BY <1>5 DEF serverLetsGo
  <2>2. /\ \E g : Path(g)'
        /\ errors(toBot') = errors(toBot)
        /\ \A n \in Nick : occ'[n] = occ[n] \/ occ'[n] = Unseated
    BY <1>1, <1>2, <1>3, <1>5, <2>1, ExitFollows
  <2>3. InOrder'
    BY <1>1, <1>3, <1>4, <2>2, ConstantsAssumption DEF InOrder, Unseated
  <2> QED BY <2>2, <2>3 DEF Following
<1>6. CASE ~InRoom
  <2>1. UNCHANGED <<toBot, occ>>
    BY <1>6 DEF serverLetsGo
  <2>2. PICK a : a = h[Len(toBot)]
    OBVIOUS
  <2>3. Ends(a)
    BY <1>1, <1>2, <2>2, EndOfPath
  <2>4. ~InRoom'
    BY <1>6, <2>1 DEF InRoom, BotSeats
  <2>5. Ends(a)'
    BY <1>1, <1>3, <1>6, <2>1, <2>3, <2>4 DEF Ends
  <2>6. \E g : Path(g)'
    BY <1>1, <1>2, <2>1, <2>2, <2>5, TellsNothing
  <2>7. InOrder'
    BY <1>1, <1>3, <1>4, <2>1 DEF InOrder
  <2> QED BY <2>6, <2>7 DEF Following
<1> QED BY <1>5, <1>6

LEMMA RefusesFollows ==
  ASSUME IInv, Steady, Following, serverRefuses
  PROVE  Following'
<1> DEFINE n == Head(toServer).nick
<1>1. /\ TypeOK /\ InOrder /\ Asked("presence") /\ toServer' = Tail(toServer)
      /\ UNCHANGED <<up, bot, db, occ, stops>> /\ toBot' = Append(toBot, errorFrom(n))
      /\ ~InRoom \/ Occupied(n)
      /\ occ[n].jid # BotJid /\ toBot \in Seq(Stanza) /\ occ \in [Nick -> Seat]
  BY DEF IInv, TypeOK, Following, serverRefuses, Seat
<1>2. PICK h : Path(h)
  BY DEF Following
<1>3. /\ errors(toBot) = {} /\ joins(toServer') = {} /\ n \in Nick /\ up
      /\ leaves(toServer) # {} => leaves(toServer') # {}
      /\ ~InRoom => 1 \in joins(toServer) /\ toServer[1].nick = n
  BY <1>1, TakesPresence
<1>4. PICK a : a = h[Len(toBot)]
  OBVIOUS
<1>5. /\ a \in Picture /\ Ends(a) /\ (InRoom <=> a.nick # NoNick)
      /\ InRoom => a.nick \in Nick /\ a.seats = occ
  BY <1>1, <1>2, <1>4, EndOfPath
<1>6. InRoom => n # a.nick /\ a.seats[n].jid # NoJid
  BY <1>1, <1>3, <1>5 DEF Ends, Occupied
<1>7. PICK s : s = errorFrom(n)
  OBVIOUS
<1>8. s \in Stanza /\ s.type = "error" /\ s.nick = n
  BY <1>1, <1>3, <1>7, StanzaTypes DEF errorFrom
<1>9. PICK c : c = [nick |-> a.nick, joining |-> IF n = registeredNick THEN NoNick ELSE registeredNick,
                    seats |-> a.seats,
                    least |-> a.least /\ (n # registeredNick \/ a.nick # NoNick),
                    most |-> n # registeredNick /\ a.most]
  OBVIOUS
<1> HIDE DEF n
<1>10. c \in Picture /\ c.nick = a.nick /\ c.seats = a.seats
       /\ c.joining = (IF n = registeredNick THEN NoNick ELSE registeredNick)
       /\ c.least = (a.least /\ (n # registeredNick \/ a.nick # NoNick))
       /\ c.most = (n # registeredNick /\ a.most)
  BY <1>5, <1>9, ConstantsAssumption DEF Picture
<1>11. Hears(a, s, c)
  <2>1. a.nick # NoNick \/ a.joining # NoNick
    <3>1. ~InRoom => a.joining = n
      BY <1>3, <1>5 DEF Ends
    <3> QED BY <1>3, <1>5, <3>1, ConstantsAssumption
  <2>2. HearsError(a, s, c)
    BY <1>5, <1>6, <1>8, <1>10, <2>1 DEF HearsError
  <2> QED BY <1>8, <2>2 DEF Hears
<1>12. /\ errors(toBot') = {Len(toBot) + 1}
       /\ turnedDown(toBot') = IF n = registeredNick THEN {} ELSE {Len(toBot) + 1}
  BY <1>1, <1>3, <1>7, <1>8, ToldErrors DEF turnedDown
<1>13. InRoom' <=> InRoom
  BY <1>1 DEF InRoom, BotSeats
<1>14. Ends(c)'
  BY <1>1, <1>3, <1>5, <1>6, <1>10, <1>12, <1>13 DEF Ends
<1>15. \E g : Path(g)'
  BY <1>1, <1>2, <1>4, <1>7, <1>8, <1>10, <1>11, <1>14, TellsOne
<1>16. InOrder'
  BY <1>1, <1>12, OrderAfterPresence DEF InOrder
<1> QED BY <1>15, <1>16 DEF Following

LEMMA RenamesFollows ==
  ASSUME IInv, Steady, Following, serverRenames
  PROVE  Following'
<1> DEFINE n == Head(toServer).nick
<1>1. /\ TypeOK /\ InOrder /\ Asked("presence") /\ toServer' = Tail(toServer)
      /\ UNCHANGED <<up, bot, db, stops>> /\ InRoom
      /\ ~Occupied(n) \/ occ[n].jid = BotJid
      /\ toBot' = toBot \o (IF n = BotSeat THEN <<>> ELSE <<unavailable(BotSeat, n)>>)
                        \o <<available(n, occ[BotSeat])>>
      /\ occ' = [occ EXCEPT ![BotSeat] = Unseated, ![n] = occ[BotSeat]]
      /\ toBot \in Seq(Stanza) /\ occ \in [Nick -> Seat]
  BY DEF IInv, TypeOK, Following, serverRenames, Seat
<1>2. PICK h : Path(h)
  BY DEF Following
<1>3. /\ errors(toBot) = {} /\ joins(toServer') = {} /\ n \in Nick /\ up
      /\ leaves(toServer) # {} => leaves(toServer') # {}
  BY <1>1, TakesPresence
<1>4. PICK a : a = h[Len(toBot)]
  OBVIOUS
<1>5. /\ a \in Picture /\ Ends(a) /\ BotSeat = a.nick
      /\ a.nick \in Nick /\ a.nick # NoNick /\ a.seats = occ
  BY <1>1, <1>2, <1>4, EndOfPath
<1> DEFINE me == a.nick
           o == occ[a.nick]
<1>6. o \in Seat /\ o.jid = BotJid /\ o.jid # NoJid /\ o = [jid |-> o.jid, role |-> o.role]
  BY <1>1, <1>5, ConstantsAssumption DEF Ends, Seat
<1> HIDE DEF n, o
<1>7. PICK s : s = available(n, o)
  OBVIOUS
<1>8. /\ s \in Stanza /\ s.type = "available" /\ s.nick = n /\ s.jid # NoJid
      /\ o = [jid |-> s.jid, role |-> s.role]
  BY <1>1, <1>3, <1>6, <1>7, StanzaTypes DEF available
<1>9. /\ occ' = [occ EXCEPT ![me] = Unseated, ![n] = o] /\ occ' \in [Nick -> Seat]
      /\ occ'[n] = o /\ (n # me => occ'[me] = Unseated)
      /\ \A m \in Nick : m # n /\ m # me => occ'[m] = occ[m]
  <2>1. Unseated \in Seat
    BY DEF Seat, Unseated
  <2>2. occ' = [occ EXCEPT ![me] = Unseated, ![n] = o]
    BY <1>1, <1>5 DEF n, o
  <2> DEFINE w == [occ EXCEPT ![me] = Unseated]
  <2>3. occ' = [w EXCEPT ![n] = o]
    BY <2>2
  <2>4. w \in [Nick -> Seat] /\ w[me] = Unseated /\ \A m \in Nick : m # me => w[m] = occ[m]
    BY <1>1, <1>5, <2>1
  <2> HIDE DEF w
  <2> QED BY <1>3, <1>5, <1>6, <2>2, <2>3, <2>4
<1>10. PICK c : c = [nick |-> n, joining |-> a.joining, seats |-> occ',
                     least |-> a.least, most |-> a.most]
  OBVIOUS
<1>11. c \in Picture /\ c.nick = n /\ c.joining = a.joining /\ c.seats = occ'
       /\ c.least = a.least /\ c.most = a.most
  BY <1>3, <1>5, <1>9, <1>10 DEF Picture
<1>12. \A m \in Nick : occ'[m].jid = BotJid <=> m = n
  BY <1>5, <1>6, <1>9, ConstantsAssumption DEF Ends, Unseated
<1>13. InRoom'
  BY <1>3, <1>12 DEF InRoom, BotSeats
<1>14. CASE n = me
  <2>1. toBot' = Append(toBot, s)
    <3>0. n = BotSeat /\ s = available(n, occ[BotSeat])
      BY <1>5, <1>7, <1>14 DEF o
    <3>1. toBot' = (toBot \o <<>>) \o <<s>>
      BY <1>1, <3>0 DEF n
    <3>2. toBot \o <<>> = toBot
      BY <1>1, ConcatEmptySeq
    <3> QED BY <1>1, <1>8, <3>1, <3>2, AppendIsConcat
  <2>2. errors(toBot') = {} /\ turnedDown(toBot') = {}
    BY <1>1, <1>3, <1>8, <2>1, ToldErrors DEF turnedDown
  <2>3. occ' = [occ EXCEPT ![n] = o]
    BY <1>1, <1>3, <1>9, <1>14
  <2>4. Hears(a, s, c)
    <3>1. c.seats = [a.seats EXCEPT ![s.nick] = [jid |-> s.jid, role |-> s.role]]
      BY <1>5, <1>8, <1>11, <2>3
    <3>2. HearsAvailable(a, s, c)
      BY <1>5, <1>8, <1>11, <1>14, <3>1 DEF HearsAvailable
    <3> QED BY <1>8, <3>2 DEF Hears
  <2>5. Ends(c)'
    BY <1>1, <1>3, <1>5, <1>11, <1>12, <1>13, <2>2 DEF Ends
  <2>6. \E g : Path(g)'
    BY <1>1, <1>2, <1>4, <1>8, <1>11, <2>1, <2>4, <2>5, TellsOne
  <2>7. InOrder'
    <3>1. \A m \in Nick : (occ'[m].jid \in Person => m \in PersonNick)
                         /\ (occ'[m].jid = NoJid => occ'[m] = Unseated)
      BY <1>1, <1>6, <1>9, <1>14, ConstantsAssumption DEF InOrder
    <3> QED BY <1>1, <2>2, <3>1, OrderAfterPresence
  <2> QED BY <2>6, <2>7 DEF Following
<1>15. CASE n # me
  <2>1. PICK t : t = unavailable(me, n)
    OBVIOUS
  <2>2. t \in Stanza /\ t.type = "unavailable" /\ t.nick = me /\ t.newNick = n
    BY <1>1, <1>3, <1>5, <2>1, StanzaTypes DEF unavailable
  <2>3. PICK d : d = [nick |-> n, joining |-> a.joining, seats |-> [a.seats EXCEPT ![me] = Unseated],
                      least |-> a.least, most |-> a.most]
    OBVIOUS
  <2>4. d \in Picture /\ d.nick = n /\ d.joining = a.joining /\ d.seats = [occ EXCEPT ![me] = Unseated]
        /\ d.least = a.least /\ d.most = a.most
    <3>1. Unseated \in Seat
      BY DEF Seat, Unseated
    <3>2. [occ EXCEPT ![me] = Unseated] \in [Nick -> Seat]
      BY <1>1, <3>1
    <3> QED BY <1>3, <1>5, <2>3, <3>2 DEF Picture
  <2>5. Hears(a, t, d)
    <3>1. n # NoNick
      BY <1>3, ConstantsAssumption
    <3>2. HearsUnavailable(a, t, d)
      BY <1>5, <1>6, <2>2, <2>4, <3>1 DEF HearsUnavailable, o
    <3> QED BY <2>2, <3>2 DEF Hears
  <2>6. Hears(d, s, c)
    <3>1. d.nick # NoNick
      BY <1>3, <2>4, ConstantsAssumption
    <3>2. occ' = [[occ EXCEPT ![me] = Unseated] EXCEPT ![n] = o]
      BY <1>9
    <3>3. c.seats = [d.seats EXCEPT ![s.nick] = [jid |-> s.jid, role |-> s.role]]
      BY <1>8, <1>11, <2>4, <3>2
    <3>4. HearsAvailable(d, s, c)
      BY <1>8, <1>11, <2>4, <3>1, <3>3 DEF HearsAvailable
    <3> QED BY <1>8, <3>4 DEF Hears
  <2>7. toBot' = toBot \o (<<t>> \o <<s>>) /\ toBot' = Append(Append(toBot, t), s)
    <3>1. toBot' = (toBot \o <<t>>) \o <<s>>
      BY <1>1, <1>5, <1>7, <1>15, <2>1 DEF n, o
    <3>2. <<t>> \in Seq(Stanza) /\ <<s>> \in Seq(Stanza)
      BY <1>8, <2>2
    <3>3. Append(toBot, t) = toBot \o <<t>> /\ Append(toBot, t) \in Seq(Stanza)
      BY <1>1, <2>2, AppendIsConcat, AppendType
    <3>4. Append(Append(toBot, t), s) = (toBot \o <<t>>) \o <<s>>
      BY <1>8, <3>3, AppendIsConcat
    <3>5. (toBot \o <<t>>) \o <<s>> = toBot \o (<<t>> \o <<s>>)
      BY <1>1, <3>2, ConcatAssociative
    <3> QED BY <3>1, <3>4, <3>5
  <2>8. errors(toBot') = {} /\ turnedDown(toBot') = {}
    <3>1. errors(Append(toBot, t)) = {} /\ Append(toBot, t) \in Seq(Stanza)
      BY <1>1, <1>3, <2>2, ToldErrors, AppendType
    <3>2. errors(Append(Append(toBot, t), s)) = {}
      BY <1>8, <3>1, ToldErrors
    <3> QED BY <2>7, <3>2 DEF turnedDown
  <2>9. Ends(c)'
    BY <1>1, <1>3, <1>5, <1>11, <1>12, <1>13, <2>8 DEF Ends
  <2>10. <<t>> \o <<s>> \in Seq(Stanza) /\ \E f : Leads(<<t>> \o <<s>>, f, a, c)
    <3>1. PICK f : Leads(<<t>>, f, a, d)
      BY <1>5, <2>2, <2>4, <2>5, LeadOne
    <3>2. PICK g : Leads(<<s>>, g, d, c)
      BY <1>8, <1>11, <2>4, <2>6, LeadOne
    <3>3. <<t>> \in Seq(Stanza) /\ <<s>> \in Seq(Stanza)
      BY <1>8, <2>2
    <3>4. <<t>> \o <<s>> \in Seq(Stanza)
      BY <3>3, ConcatType
    <3> QED BY <3>1, <3>2, <3>3, <3>4, LeadOn
  <2>11. \E g : Path(g)'
    BY <1>1, <1>2, <1>4, <2>7, <2>9, <2>10, PathGrows
  <2>12. InOrder'
    <3>1. \A m \in Nick : (occ'[m].jid \in Person => m \in PersonNick)
                         /\ (occ'[m].jid = NoJid => occ'[m] = Unseated)
      BY <1>1, <1>6, <1>9, <1>15, ConstantsAssumption DEF InOrder, Unseated
    <3> QED BY <1>1, <2>8, <3>1, OrderAfterPresence
  <2> QED BY <2>11, <2>12 DEF Following
<1> QED BY <1>14, <1>15

-----------------------------------------------------------------------------
(* Who is there when the bot enters: each of them once.                    *)
Lists(order, others, m) ==
  /\ order \in [1..m -> others] /\ DOMAIN order = 1..m
  /\ \A n \in others : \E i \in 1..m : order[i] = n

LEMMA OthersInOrder ==
  ASSUME NEW others \in SUBSET Nick, NEW order \in SetToSeqs(others)
  PROVE  \E m \in Nat : Lists(order, others, m)
<1>1. PICK m : m = Cardinality(others)
  OBVIOUS
<1>2. IsFiniteSet(others) /\ m \in Nat
  BY <1>1, ConstantsAssumption, FS_Subset, FS_CardinalityType
<1>3. /\ order \in [1..m -> others]
      /\ \A i, j \in 1..m : i # j => order[i] # order[j]
  BY <1>1 DEF SetToSeqs
<1>4. order \in Injection(1..m, others)
  BY <1>3 DEF Injection, IsInjective
<1>5. Cardinality(1..m) = m
  BY <1>2, FS_Interval
<1>6. order \in Surjection(1..m, others)
  BY <1>1, <1>2, <1>4, <1>5, FS_Injection
<1> QED BY <1>2, <1>3, <1>6 DEF Surjection, Lists

LEMMA NoErrorsIn ==
  ASSUME NEW p \in Seq(Stanza), NEW q \in Seq(Stanza), errors(p) = {}, errors(q) = {}
  PROVE  errors(p \o q) = {}
<1> DEFINE n == Len(p)
           m == Len(q)
<1>1. /\ n \in Nat /\ m \in Nat /\ DOMAIN p = 1..n /\ DOMAIN q = 1..m /\ DOMAIN (p \o q) = 1..(n + m)
      /\ \A k \in 1..n : (p \o q)[k] = p[k]
      /\ \A k \in 1..m : (p \o q)[n + k] = q[k]
  BY ConcatAt
<1> HIDE DEF n, m
<1>2. ASSUME NEW i \in 1..(n + m) PROVE (p \o q)[i].type # "error"
  <2>1. CASE i <= n
    <3>1. i \in 1..n
      BY <1>1, <2>1
    <3> QED BY <1>1, <3>1 DEF errors
  <2>2. CASE ~(i <= n)
    <3>1. i - n \in 1..m /\ n + (i - n) = i
      BY <1>1, <2>2
    <3>2. (p \o q)[n + (i - n)] = q[i - n]
      BY <1>1, <3>1
    <3> QED BY <1>1, <3>1, <3>2 DEF errors
  <2> QED BY <2>1, <2>2
<1> QED BY <1>1, <1>2 DEF errors

(* The presences of the others show them one after the other.              *)
Shown(order, j) == [x \in Nick |-> IF \E i \in 1..j : order[i] = x THEN occ[x] ELSE Unseated]

AllShown(q, f, a, last, order, m) ==
  /\ Leads(q, f, a, last) /\ last \in Picture
  /\ m = 0 => last = a
  /\ m # 0 => last = [nick |-> a.joining, joining |-> NoNick,
                      seats |-> Shown(order, m), least |-> TRUE, most |-> TRUE]

LEMMA OthersShown ==
  ASSUME TypeOK, NEW m \in Nat, NEW order \in [1..m -> Nick],
         \A i \in 1..m : occ[order[i]].jid # NoJid,
         NEW a \in Picture, a.nick = NoNick, a.joining \in Nick,
         NEW q \in Seq(Stanza), Len(q) = m,
         \A i \in 1..m : q[i] = available(order[i], occ[order[i]])
  PROVE  \E f, last : AllShown(q, f, a, last, order, m)
<1> DEFINE Step(j) == [nick |-> a.joining, joining |-> NoNick, seats |-> Shown(order, j),
                       least |-> TRUE, most |-> TRUE]
<1>0. occ \in [Nick -> Seat] /\ Unseated \in Seat
  BY DEF TypeOK, Seat, Unseated
<1>1. PICK f : f = [j \in 0..m |-> IF j = 0 THEN a ELSE Step(j)]
  OBVIOUS
<1>2. ASSUME NEW j \in 1..m
      PROVE  /\ f[j] = Step(j) /\ f[j] \in Picture
             /\ f[j].nick = a.joining /\ f[j].joining = NoNick /\ f[j].seats = Shown(order, j)
             /\ f[j].least /\ f[j].most
  <2>1. Shown(order, j) \in [Nick -> Seat]
    BY <1>0 DEF Shown
  <2>2. j \in 0..m /\ j # 0
    OBVIOUS
  <2>3. f[j] = Step(j)
    BY <1>1, <2>2
  <2> QED BY <2>1, <2>3 DEF Picture
<1> HIDE DEF Step
<1>3. f[0] = a /\ f \in [0..m -> Picture]
  <2>1. ASSUME NEW j \in 0..m PROVE f[j] \in Picture
    <3>1. CASE j = 0
      BY <1>1, <3>1
    <3>2. CASE j # 0
      BY <1>2, <3>2
    <3> QED BY <3>1, <3>2
  <2> QED BY <1>1, <2>1
<1>4. ASSUME NEW j \in 1..m PROVE Hears(f[j - 1], q[j], f[j])
  <2>1. PICK o : o = occ[order[j]]
    OBVIOUS
  <2>2. /\ q[j].type = "available" /\ q[j].nick = order[j] /\ q[j].jid = o.jid
        /\ q[j].jid # NoJid /\ o = [jid |-> q[j].jid, role |-> q[j].role] /\ order[j] \in Nick
    BY <1>0, <2>1 DEF available, Seat
  <2>3. PICK S : S = (IF f[j - 1].nick = NoNick THEN Empty ELSE f[j - 1].seats)
    OBVIOUS
  <2>4. S = Shown(order, j - 1) /\ (f[j - 1].nick # NoNick \/ f[j - 1].joining # NoNick)
        /\ (IF f[j - 1].nick = NoNick THEN f[j - 1].joining ELSE f[j - 1].nick) = a.joining
        /\ (IF f[j - 1].nick = NoNick THEN NoNick ELSE f[j - 1].joining) = NoNick
        /\ (f[j - 1].nick = NoNick \/ f[j - 1].least)
    <3>1. CASE j = 1
      <4>1. f[j - 1] = a
        BY <1>3, <3>1
      <4>2. 1..(j - 1) = {}
        BY <3>1
      <4>3. Shown(order, j - 1) = Empty
        BY <4>2 DEF Shown, Empty
      <4> QED BY <2>3, <4>1, <4>3, ConstantsAssumption
    <3>2. CASE j # 1
      <4>1. j - 1 \in 1..m
        BY <3>2
      <4> QED BY <1>2, <2>3, <4>1, ConstantsAssumption
    <3> QED BY <3>1, <3>2
  <2>5. Shown(order, j) = [S EXCEPT ![order[j]] = o]
    <3>1. \A i : i \in 1..j <=> i = j \/ i \in 1..(j - 1)
      OBVIOUS
    <3>2. \A x \in Nick : (\E i \in 1..j : order[i] = x) <=> x = order[j] \/ \E i \in 1..(j - 1) : order[i] = x
      BY <3>1
    <3>3. S \in [Nick -> Seat] /\ \A x \in Nick : S[x] = IF \E i \in 1..(j - 1) : order[i] = x THEN occ[x] ELSE Unseated
      BY <1>0, <2>4 DEF Shown
    <3>4. PICK T : T = Shown(order, j)
      OBVIOUS
    <3>5. /\ T = [x \in Nick |-> T[x]]
          /\ \A x \in Nick : T[x] = IF \E i \in 1..j : order[i] = x THEN occ[x] ELSE Unseated
      BY <3>4 DEF Shown
    <3>6. \A x \in Nick : T[x] = IF x = order[j] THEN o ELSE S[x]
      BY <2>1, <3>2, <3>3, <3>5
    <3>7. PICK U : U = [S EXCEPT ![order[j]] = o]
      OBVIOUS
    <3>8. U = [x \in Nick |-> U[x]] /\ \A x \in Nick : U[x] = IF x = order[j] THEN o ELSE S[x]
      BY <3>3, <3>7
    <3>9. \A x \in Nick : T[x] = U[x]
      BY <3>6, <3>8
    <3>10. T = U
      BY <3>5, <3>8, <3>9
    <3> QED BY <3>4, <3>7, <3>10
  <2>6. f[j].seats = [(IF f[j - 1].nick = NoNick THEN Empty ELSE f[j - 1].seats)
                        EXCEPT ![q[j].nick] = [jid |-> q[j].jid, role |-> q[j].role]]
    BY <1>2, <2>2, <2>3, <2>5
  <2>7. HearsAvailable(f[j - 1], q[j], f[j])
    BY <1>2, <2>2, <2>4, <2>6 DEF HearsAvailable
  <2> QED BY <2>2, <2>7 DEF Hears
<1>5. Leads(q, f, a, f[m])
  BY <1>3, <1>4 DEF Leads
<1>6. m \in 0..m /\ (m # 0 => m \in 1..m)
  OBVIOUS
<1>7. f[m] \in Picture /\ (m = 0 => f[m] = a) /\ (m # 0 => f[m] = Step(m))
  BY <1>2, <1>3, <1>6
<1>8. AllShown(q, f, a, f[m], order, m)
  BY <1>5, <1>7 DEF AllShown, Step
<1> QED BY <1>8

LEMMA AdmitsFollows ==
  ASSUME IInv, Steady, Following, serverAdmits
  PROVE  Following'
<1> DEFINE n == Head(toServer).nick
           me == [jid |-> BotJid, role |-> "participant"]
<1>1. /\ TypeOK /\ InOrder /\ Asked("presence") /\ toServer' = Tail(toServer)
      /\ UNCHANGED <<up, bot, db, stops>> /\ ~InRoom /\ ~Occupied(n)
      /\ occ' = [occ EXCEPT ![n] = me]
      /\ toBot \in Seq(Stanza) /\ occ \in [Nick -> Seat]
  BY DEF IInv, TypeOK, Following, serverAdmits, Seat
<1>1a. PICK others : others = {m \in Nick : Occupied(m)}
  OBVIOUS
<1>2. PICK order \in SetToSeqs(others) :
        \E history \in {<<>>, <<delayed>>} :
          toBot' = toBot \o [i \in DOMAIN order |-> available(order[i], occ[order[i]])]
                         \o <<available(n, me)>> \o history
  BY <1>1a DEF serverAdmits
<1>3. PICK history \in {<<>>, <<delayed>>} :
        toBot' = toBot \o [i \in DOMAIN order |-> available(order[i], occ[order[i]])]
                       \o <<available(n, me)>> \o history
  BY <1>2
<1>4. PICK h : Path(h)
  BY DEF Following
<1>5. /\ errors(toBot) = {} /\ joins(toServer') = {} /\ n \in Nick /\ up
      /\ 1 \in joins(toServer) /\ toServer[1].nick = n
  BY <1>1, TakesPresence
<1>6. PICK a : a = h[Len(toBot)]
  OBVIOUS
<1>7. a \in Picture /\ Ends(a) /\ a.nick = NoNick /\ a.joining = n
  <2>1. a \in Picture /\ Ends(a) /\ a.nick = NoNick
    BY <1>1, <1>4, <1>6, EndOfPath
  <2> QED BY <1>5, <2>1 DEF Ends
<1>7a. others \in SUBSET Nick /\ \A x \in Nick : x \in others <=> occ[x].jid # NoJid
  BY <1>1a DEF Occupied
<1>8a. PICK m \in Nat : Lists(order, others, m)
  BY <1>2, <1>7a, OthersInOrder
<1>8. /\ order \in [1..m -> others] /\ DOMAIN order = 1..m
      /\ \A x \in others : \E i \in 1..m : order[i] = x
  BY <1>8a DEF Lists
<1>9. PICK q : q = [i \in DOMAIN order |-> available(order[i], occ[order[i]])]
  OBVIOUS
<1>10. q \in Seq(Stanza)
  BY <1>1, <1>2, <1>7a, <1>9, OthersType
<1>11. Len(q) = m /\ \A i \in 1..m : q[i] = available(order[i], occ[order[i]])
  BY <1>8, <1>9, <1>10
<1>12. /\ order \in [1..m -> Nick] /\ \A i \in 1..m : occ[order[i]].jid # NoJid
       /\ \A x \in Nick : occ[x].jid # NoJid <=> \E i \in 1..m : order[i] = x
  BY <1>7a, <1>8
<1>13a. \A x \in {n} : x = a.joining
  BY <1>7
<1> HIDE DEF n, me
<1>13b. a.joining \in Nick /\ n = a.joining
  BY <1>5, <1>13a
<1>13c. PICK f, last : AllShown(q, f, a, last, order, m)
  BY <1>1, <1>7, <1>10, <1>11, <1>12, <1>13b, OthersShown
<1>13. /\ Leads(q, f, a, last) /\ last \in Picture
       /\ m = 0 => last = a
       /\ m # 0 => last = [nick |-> a.joining, joining |-> NoNick,
                           seats |-> Shown(order, m), least |-> TRUE, most |-> TRUE]
  BY <1>13c DEF AllShown
<1>14. Shown(order, m) = occ
  <2>1. \A x \in Nick : occ[x] = IF \E i \in 1..m : order[i] = x THEN occ[x] ELSE Unseated
    BY <1>1, <1>12 DEF InOrder
  <2> QED BY <1>1, <2>1 DEF Shown
<1>15. me \in Seat /\ me.jid = BotJid /\ BotJid # NoJid /\ BotJid \notin Person
       /\ me = [jid |-> me.jid, role |-> me.role]
  BY ConstantsAssumption DEF me, Seat, Jids, Roles
<1>16. PICK s : s = available(n, me)
  OBVIOUS
<1>17. /\ s \in Stanza /\ s.type = "available" /\ s.nick = n /\ s.jid # NoJid
       /\ me = [jid |-> s.jid, role |-> s.role]
  BY <1>1, <1>5, <1>15, <1>16, StanzaTypes DEF available
<1>18. PICK z : z = [nick |-> n, joining |-> NoNick, seats |-> occ', least |-> TRUE, most |-> TRUE]
  OBVIOUS
<1>19. /\ occ' \in [Nick -> Seat] /\ occ'[n] = me
       /\ \A x \in Nick : x # n => occ'[x] = occ[x]
  BY <1>1, <1>5, <1>15
<1>20. z \in Picture /\ z.nick = n /\ z.joining = NoNick /\ z.seats = occ' /\ z.least /\ z.most
  BY <1>5, <1>18, <1>19 DEF Picture
<1>21. Hears(last, s, z)
  <2>1. n # NoNick
    BY <1>5, ConstantsAssumption
  <2>2. (IF last.nick = NoNick THEN Empty ELSE last.seats) = occ
    <3>1. CASE m = 0
      <4>1. 1..m = {}
        BY <3>1
      <4>2. \A x \in Nick : occ[x] = Unseated
        BY <1>1, <1>12, <4>1 DEF InOrder
      <4>3. occ = Empty
        BY <1>1, <4>2 DEF Empty
      <4> QED BY <1>7, <1>13, <3>1, <4>3
    <3>2. CASE m # 0
      BY <1>13, <1>13b, <1>14, <2>1, <3>2
    <3> QED BY <3>1, <3>2
  <2>3. /\ last.nick # NoNick \/ last.joining # NoNick
        /\ (IF last.nick = NoNick THEN last.joining ELSE last.nick) = n
        /\ (IF last.nick = NoNick THEN NoNick ELSE last.joining) = NoNick
        /\ last.nick = NoNick \/ last.least
    BY <1>7, <1>13, <1>13b, <2>1
  <2>4. z.seats = [(IF last.nick = NoNick THEN Empty ELSE last.seats)
                     EXCEPT ![s.nick] = [jid |-> s.jid, role |-> s.role]]
    BY <1>1, <1>17, <1>20, <2>2
  <2>5. HearsAvailable(last, s, z)
    BY <1>17, <1>20, <2>3, <2>4 DEF HearsAvailable
  <2> QED BY <1>17, <2>5 DEF Hears
<1>22. PICK f1 : Leads(<<s>>, f1, last, z)
  BY <1>13, <1>17, <1>20, <1>21, LeadOne
<1>23. /\ history \in Seq(Stanza) /\ \E f2 : Leads(history, f2, z, z)
       /\ errors(history) = {}
  <2>0. delayed.type = "delayed"
    BY DEF delayed
  <2>1. delayed \in Stanza /\ delayed.type = "delayed"
    BY <2>0 DEF Stanza
  <2>2. Hears(z, delayed, z)
    BY <2>1 DEF Hears
  <2>3. CASE history = <<>>
    <3>1. errors(<<>>) = {}
      BY DEF errors
    <3> QED BY <1>20, <2>3, <3>1, LeadNone
  <2>4. CASE history = <<delayed>>
    <3>1. errors(<<delayed>>) = {}
      BY <2>1 DEF errors
    <3> QED BY <1>20, <2>1, <2>2, <2>4, <3>1, LeadOne
  <2> QED BY <2>3, <2>4
<1>24. PICK f2 : Leads(history, f2, z, z)
  BY <1>23
<1>25. <<s>> \in Seq(Stanza) /\ errors(<<s>>) = {} /\ errors(q) = {}
  <2>1. <<s>> \in Seq(Stanza) /\ errors(<<s>>) = {}
    BY <1>17 DEF errors
  <2>2. DOMAIN q = 1..m
    BY <1>10, <1>11
  <2> QED BY <1>11, <2>1, <2>2 DEF errors, available
<1>26. PICK p : p = (q \o <<s>>) \o history
  OBVIOUS
<1>27. p \in Seq(Stanza) /\ errors(p) = {} /\ \E g : Leads(p, g, a, z)
  <2>1. q \o <<s>> \in Seq(Stanza) /\ errors(q \o <<s>>) = {}
    BY <1>10, <1>25, ConcatType, NoErrorsIn
  <2>2. PICK g1 : Leads(q \o <<s>>, g1, a, z)
    BY <1>10, <1>13, <1>22, <1>25, LeadOn
  <2> QED BY <1>23, <1>24, <1>26, <2>1, <2>2, ConcatType, NoErrorsIn, LeadOn
<1>28. toBot' = toBot \o p
  <2>1. toBot' = ((toBot \o q) \o <<s>>) \o history
    BY <1>3, <1>9, <1>16 DEF n, me
  <2>2. (toBot \o q) \o <<s>> = toBot \o (q \o <<s>>)
    BY <1>1, <1>10, <1>25, ConcatAssociative
  <2>3. PICK w \in Seq(Stanza) : w = q \o <<s>>
    BY <1>10, <1>25, ConcatType
  <2>4. (toBot \o w) \o history = toBot \o (w \o history)
    BY <1>1, <1>23, ConcatAssociative
  <2> QED BY <1>26, <2>1, <2>2, <2>3, <2>4
<1>29. errors(toBot') = {} /\ turnedDown(toBot') = {}
  <2>1. errors(toBot') = {}
    BY <1>1, <1>5, <1>27, <1>28, NoErrorsIn
  <2> QED BY <2>1 DEF turnedDown
<1>30. \A x \in Nick : occ'[x].jid = BotJid <=> x = n
  BY <1>1, <1>15, <1>19 DEF InRoom, BotSeats
<1>31. InRoom'
  BY <1>5, <1>30 DEF InRoom, BotSeats
<1>32. Ends(z)'
  BY <1>5, <1>20, <1>29, <1>30, <1>31 DEF Ends
<1>33. \E g : Path(g)'
  BY <1>1, <1>4, <1>6, <1>27, <1>28, <1>32, PathGrows
<1>34. InOrder'
  <2>1. \A x \in Nick : (occ'[x].jid \in Person => x \in PersonNick)
                         /\ (occ'[x].jid = NoJid => occ'[x] = Unseated)
    BY <1>1, <1>15, <1>19 DEF InOrder
  <2> QED BY <1>1, <1>29, <2>1, OrderAfterPresence
<1> QED BY <1>33, <1>34 DEF Following

LEMMA ServerFollows ==
  ASSUME IInv, Steady, Following, Server
  PROVE  Following'
BY AdmitsFollows, RefusesFollows, RenamesFollows, LetGoFollows DEF Server

-----------------------------------------------------------------------------
(* What the owner and the timer ask for.                                   *)

LEMMA LeastNat ==
  ASSUME NEW T, T \subseteq Nat, T # {}
  PROVE  \E x \in T : \A y \in T : x <= y
<1> DEFINE R == OpToRel(<, Nat)
<1>1. IsWellFoundedOn(R, Nat)
  BY NatLessThanWellFounded
<1>2. \E x \in T : \A y \in T : ~ (<<y, x>> \in R)
  <2> HIDE DEF R
  <2> QED BY <1>1, WFMin
<1>3. \A x, y \in Nat : <<y, x>> \notin R => ~(y < x)
  BY Zenon DEF OpToRel
<1> HIDE DEF R
<1>4. PICK x \in T : \A y \in T : ~(y < x)
  BY <1>2, <1>3, Zenon
<1> QED BY <1>4

(* A bot that asks for nothing, and is refused nothing, does not begin to. *)
LEMMA AsksForNothing ==
  ASSUME TypeOK, NEW h, Path(h), bot.joining = NoNick, errors(toBot) = {}
  PROVE  \A k \in 0..Len(toBot) : h[k].joining = NoNick
<1>1. PICK n : n = Len(toBot)
  OBVIOUS
<1>2. /\ n \in Nat /\ toBot \in Seq(Stanza) /\ DOMAIN toBot = 1..n
      /\ \A k \in 1..n : Hears(h[k - 1], toBot[k], h[k])
      /\ h[0].joining = NoNick
  BY <1>1 DEF TypeOK, Path, Shows, ShownAs
<1>3. ASSUME NEW k \in 1..n, h[k - 1].joining = NoNick PROVE h[k].joining = NoNick
  <2>0. toBot[k] \in Stanza /\ k \in DOMAIN toBot
    BY <1>2, <1>3
  <2>1. toBot[k] \in Stanza /\ toBot[k].type # "error"
    BY <2>0 DEF errors
  <2>2. toBot[k].type \in {"available", "unavailable", "delayed"}
    BY <2>1 DEF Stanza, delayed
  <2> QED BY <1>2, <1>3, <2>2 DEF Hears, HearsAvailable, HearsUnavailable
<1> DEFINE T == {k \in 0..n : h[k].joining # NoNick}
<1>4. T \subseteq Nat
  OBVIOUS
<1>5. ASSUME T # {} PROVE FALSE
  <2>1. PICK x \in T : \A y \in T : x <= y
    BY <1>4, <1>5, LeastNat
  <2>2. x # 0
    BY <1>2, <2>1
  <2>3. x - 1 \in 0..n /\ x \in 1..n /\ ~(x <= x - 1)
    BY <1>2, <2>1, <2>2
  <2>4. h[x - 1].joining = NoNick
    BY <2>1, <2>3
  <2> QED BY <1>3, <2>1, <2>3, <2>4
<1> QED BY <1>1, <1>5

LEMMA Unchanged ==
  ASSUME Following, UNCHANGED vars
  PROVE  Following'
<1>1. PICK h : Path(h)
  BY DEF Following
<1>2. Path(h)'
  <2>1. UNCHANGED <<bot, db, toBot>>
    BY DEF vars
  <2>2. Shows(h[0])'
    BY <1>1, <2>1 DEF Path, Shows
  <2>3. PICK n : n = Len(toBot)
    OBVIOUS
  <2>4. Ends(h[n])'
    BY <1>1, <2>3 DEF Path, vars, Ends, InRoom, BotSeats
  <2>5. /\ Len(toBot') = n /\ h \in [0..n -> Picture]
        /\ \A k \in 1..n : Hears(h[k - 1], toBot'[k], h[k])
    BY <1>1, <2>1, <2>3 DEF Path
  <2> QED BY <2>2, <2>4, <2>5, PathThere
<1>3. InOrder'
  BY DEF vars, Following, InOrder, renamePending, InRoom, BotSeats
<1> QED BY <1>2, <1>3 DEF Following

LEMMA JoinFollows ==
  ASSUME IInv, Steady, Following, JOIN
  PROVE  Following'
<1>1. /\ TypeOK /\ InOrder /\ up /\ ~renamePending /\ ~refusalPending
      /\ bot \in Memory /\ toServer \in Seq(Request) /\ toBot \in Seq(Stanza)
      /\ UNCHANGED <<up, db, occ, toBot, stops>> /\ registeredNick \in Nick /\ NoNick \notin Nick
      /\ join(bot, registeredNick)
  BY ConstantsAssumption DEF IInv, TypeOK, Following, JOIN, Command, Steady
<1>2. CASE bot.joining # NoNick
  <2>1. UNCHANGED vars
    BY <1>1, <1>2 DEF join, vars
  <2> QED BY <2>1, Unchanged
<1>3. CASE bot.joining = NoNick
  <2>1. PICK h : Path(h)
    BY DEF Following
  <2>2. errors(toBot) = {} /\ turnedDown(toBot) = {}
    BY <1>1 DEF refusalPending, errors, turnedDown
  <2>3. PICK n : n = Len(toBot)
    OBVIOUS
  <2>4. /\ n \in Nat /\ h \in [0..n -> Picture] /\ DOMAIN toBot = 1..n
        /\ Shows(h[0]) /\ Ends(h[n]) /\ \A k \in 1..n : Hears(h[k - 1], toBot[k], h[k])
        /\ \A k \in 0..n : h[k].joining = NoNick
    <3>1. /\ n \in Nat /\ h \in [0..n -> Picture] /\ DOMAIN toBot = 1..n
          /\ Shows(h[0]) /\ Ends(h[n]) /\ \A k \in 1..n : Hears(h[k - 1], toBot[k], h[k])
      BY <1>1, <2>1, <2>3 DEF Path
    <3>2. \A k \in 0..Len(toBot) : h[k].joining = NoNick
      BY <1>1, <1>3, <2>1, <2>2, AsksForNothing
    <3> QED BY <2>3, <3>1, <3>2
  <2>5. joins(toServer) = {}
    <3> SUFFICES ASSUME NEW i \in joins(toServer) PROVE FALSE
      OBVIOUS
    <3>1. n \in 0..n /\ toServer[i].nick = h[n].joining
      BY <2>4 DEF Ends
    <3>2. toServer[i] \in Request
      BY <1>1 DEF joins
    <3> QED BY <1>1, <2>4, <3>1, <3>2 DEF Request
  <2> DEFINE e == [type |-> "presence", nick |-> registeredNick, why |-> "JOIN"]
  <2>6. /\ e \in Request /\ e.why = "JOIN" /\ e.nick = registeredNick /\ e.type = "presence"
        /\ toServer' = Append(toServer, e) /\ bot' = [bot EXCEPT !.joining = registeredNick]
    BY <1>1, <1>3 DEF Request, join, send
  <2> HIDE DEF e
  <2>7. PICK p : p = Append(toServer, e)
    OBVIOUS
  <2>8. /\ joins(p) = {Len(toServer) + 1} /\ leaves(p) = leaves(toServer)
        /\ p[Len(toServer) + 1] = e /\ Len(toServer) \in Nat
        /\ DOMAIN p = 1..(Len(toServer) + 1) /\ DOMAIN toServer = 1..Len(toServer)
        /\ \A i \in DOMAIN toServer : p[i] = toServer[i]
    <3>1. /\ joins(p) = joins(toServer) \union (IF e.why = "JOIN" THEN {Len(toServer) + 1} ELSE {})
          /\ leaves(p) = leaves(toServer) \union (IF e.why = "LEAVE" THEN {Len(toServer) + 1} ELSE {})
          /\ p[Len(toServer) + 1] = e /\ Len(toServer) \in Nat
          /\ DOMAIN p = 1..(Len(toServer) + 1) /\ DOMAIN toServer = 1..Len(toServer)
          /\ \A i \in DOMAIN toServer : p[i] = toServer[i]
      <4>1. toServer \in Seq(Request) /\ e \in Request
        BY <1>1, <2>6
      <4> QED BY <2>7, <4>1, SentRequest
    <3> QED BY <2>5, <2>6, <3>1
  <2>9. \A i \in DOMAIN p : p[i] = e \/ (i \in DOMAIN toServer /\ p[i] = toServer[i])
    BY <2>8
  <2>10. /\ bot'.nick = bot.nick /\ bot'.joining = registeredNick /\ bot'.nicks = bot.nicks
         /\ bot'.roles = bot.roles /\ bot'.validated = bot.validated
         /\ bot'.refused = bot.refused
    BY <1>1, <2>6 DEF Memory
  <2>11. PICK g : g = [k \in 0..n |-> [h[k] EXCEPT !.joining = registeredNick]]
    OBVIOUS
  <2>12. ASSUME NEW k \in 0..n
         PROVE  /\ g[k] \in Picture /\ g[k].joining = registeredNick
                /\ g[k].nick = h[k].nick /\ g[k].seats = h[k].seats
                /\ g[k].least = h[k].least /\ g[k].most = h[k].most
    BY <1>1, <2>4, <2>11 DEF Picture
  <2>13. g \in [0..n -> Picture]
    BY <2>11, <2>12
  <2>14. ASSUME NEW k \in 1..n PROVE Hears(g[k - 1], toBot[k], g[k])
    <3>1. k - 1 \in 0..n /\ k \in 0..n
      BY <2>4
    <3>2. toBot[k] \in Stanza /\ toBot[k].type # "error" /\ Hears(h[k - 1], toBot[k], h[k])
      BY <1>1, <2>2, <2>4 DEF errors
    <3>3. h[k - 1].joining = NoNick /\ h[k].joining = NoNick
      BY <2>4, <3>1
    <3>4. CASE toBot[k].type = "available"
      <4>1. HearsAvailable(h[k - 1], toBot[k], h[k])
        BY <3>2, <3>4 DEF Hears
      <4>2. HearsAvailable(g[k - 1], toBot[k], g[k])
        BY <2>12, <3>1, <3>3, <4>1 DEF HearsAvailable
      <4> QED BY <3>4, <4>2 DEF Hears
    <3>5. CASE toBot[k].type = "unavailable"
      <4>1. HearsUnavailable(h[k - 1], toBot[k], h[k])
        BY <3>2, <3>5 DEF Hears
      <4>2. HearsUnavailable(g[k - 1], toBot[k], g[k])
        BY <2>12, <3>1, <3>3, <4>1 DEF HearsUnavailable
      <4> QED BY <3>5, <4>2 DEF Hears
    <3>6. CASE toBot[k].type = "delayed"
      <4>1. h[k] = h[k - 1]
        BY <3>2, <3>6 DEF Hears
      <4>2. g[k] = g[k - 1]
        BY <2>11, <3>1, <4>1
      <4> QED BY <3>6, <4>2 DEF Hears
    <3> QED BY <3>2, <3>4, <3>5, <3>6 DEF Stanza, delayed
  <2>15. Shows(g[0])'
    <3>1. 0 \in 0..n
      BY <2>4
    <3>2. PICK x, y : x = h[0] /\ y = g[0]
      OBVIOUS
    <3>3. ShownAs(bot, db.autojoin, x)
      BY <2>4, <3>2 DEF Shows
    <3>4. /\ y.joining = registeredNick /\ y.nick = x.nick /\ y.seats = x.seats
          /\ y.least = x.least /\ y.most = x.most
      BY <2>12, <3>1, <3>2
    <3>5. ShownAs(bot', db.autojoin, y)
      BY <2>10, <3>3, <3>4 DEF ShownAs
    <3>6. db' = db
      BY <1>1
    <3> QED BY <3>2, <3>5, <3>6 DEF Shows
  <2>16. Ends(g[n])'
    <3>1. n \in 0..n /\ toServer' = p
      BY <2>4, <2>6, <2>7
    <3>2. InRoom' <=> InRoom
      BY <1>1 DEF InRoom, BotSeats
    <3>3. /\ g[n].joining = registeredNick
          /\ g[n].nick = h[n].nick /\ g[n].seats = h[n].seats
          /\ g[n].least = h[n].least /\ g[n].most = h[n].most
      BY <2>12, <3>1
    <3> QED BY <1>1, <2>2, <2>4, <2>6, <2>8, <3>1, <3>2, <3>3 DEF Ends
  <2>17. Path(g)'
    <3>1. toBot' = toBot /\ Len(toBot') = n
      BY <1>1, <2>3
    <3>2. /\ g \in [0..n -> Picture]
          /\ \A k \in 1..n : Hears(g[k - 1], toBot'[k], g[k])
      BY <2>13, <2>14, <3>1
    <3> QED BY <2>15, <2>16, <3>1, <3>2, PathThere
  <2>18. InOrder'
    <3>1. toServer' = p /\ ~renamePending'
      BY <1>1, <2>6, <2>7, <2>9 DEF renamePending
    <3>2. \A i, j \in joins(toServer') : i = j
      BY <2>8, <3>1
    <3>3. \A i \in DOMAIN toServer' : toServer'[i].type = "unavailable" <=> toServer'[i].why = "LEAVE"
      BY <1>1, <2>6, <2>9, <3>1 DEF InOrder
    <3> QED BY <1>1, <2>2, <2>10, <3>1, <3>2, <3>3 DEF InOrder
  <2> QED BY <2>17, <2>18 DEF Following
<1> QED BY <1>2, <1>3

LEMMA LeaveFollows ==
  ASSUME IInv, Steady, Following, LEAVE \/ sltAutoLeaveTimerTimeout
  PROVE  Following'
<1> DEFINE e == [type |-> "unavailable", nick |-> registeredNick, why |-> "LEAVE"]
<1>1. /\ TypeOK /\ InOrder /\ up /\ ~renamePending /\ db \in Database
      /\ toServer \in Seq(Request) /\ toBot \in Seq(Stanza)
      /\ UNCHANGED <<up, bot, occ, toBot, stops>>
      /\ db' = IF bot.nick = NoNick THEN db ELSE [db EXCEPT !.autojoin = FALSE, !.online = FALSE]
      /\ e \in Request /\ e.why = "LEAVE" /\ e.type = "unavailable"
      /\ toServer' = Append(toServer, e)
  BY ConstantsAssumption DEF IInv, TypeOK, Following, LEAVE, sltAutoLeaveTimerTimeout, leave,
       Command, Steady, Request, send
<1> HIDE DEF e
<1>2. db'.autojoin => db.autojoin
  BY <1>1 DEF Database
<1>3. PICK h : Path(h)
  BY DEF Following
<1>4. PICK n : n = Len(toBot)
  OBVIOUS
<1>5. /\ n \in Nat /\ h \in [0..n -> Picture]
      /\ Shows(h[0]) /\ Ends(h[n]) /\ \A k \in 1..n : Hears(h[k - 1], toBot[k], h[k])
  BY <1>1, <1>3, <1>4 DEF Path
<1>6. PICK p : p = Append(toServer, e)
  OBVIOUS
<1>7. /\ joins(p) = joins(toServer) /\ leaves(p) # {}
      /\ p[Len(toServer) + 1] = e /\ Len(toServer) \in Nat
      /\ DOMAIN p = 1..(Len(toServer) + 1) /\ DOMAIN toServer = 1..Len(toServer)
      /\ \A i \in DOMAIN toServer : p[i] = toServer[i]
  <2>1. /\ joins(p) = joins(toServer) \union (IF e.why = "JOIN" THEN {Len(toServer) + 1} ELSE {})
        /\ leaves(p) = leaves(toServer) \union (IF e.why = "LEAVE" THEN {Len(toServer) + 1} ELSE {})
        /\ p[Len(toServer) + 1] = e /\ Len(toServer) \in Nat
        /\ DOMAIN p = 1..(Len(toServer) + 1) /\ DOMAIN toServer = 1..Len(toServer)
        /\ \A i \in DOMAIN toServer : p[i] = toServer[i]
    BY <1>1, <1>6, SentRequest
  <2> QED BY <1>1, <2>1
<1>8. \A i \in DOMAIN p : p[i] = e \/ (i \in DOMAIN toServer /\ p[i] = toServer[i])
  BY <1>7
<1>9. PICK g : g = [k \in 0..n |-> [h[k] EXCEPT !.least = FALSE]]
  OBVIOUS
<1>10. ASSUME NEW k \in 0..n
       PROVE  /\ g[k] \in Picture /\ g[k].joining = h[k].joining
              /\ g[k].nick = h[k].nick /\ g[k].seats = h[k].seats
              /\ g[k].least = FALSE /\ g[k].most = h[k].most
  BY <1>5, <1>9 DEF Picture
<1>11. g \in [0..n -> Picture]
  BY <1>9, <1>10
<1>12. ASSUME NEW k \in 1..n PROVE Hears(g[k - 1], toBot[k], g[k])
  <2>1. k - 1 \in 0..n /\ k \in 0..n
    BY <1>5
  <2>2. Hears(h[k - 1], toBot[k], h[k])
    BY <1>5
  <2>3. toBot[k].type = "delayed" => g[k] = g[k - 1]
    BY <1>9, <2>1, <2>2 DEF Hears
  <2>4. toBot[k].type = "available" => HearsAvailable(g[k - 1], toBot[k], g[k])
    BY <1>10, <2>1, <2>2 DEF Hears, HearsAvailable
  <2>5. toBot[k].type = "error" => HearsError(g[k - 1], toBot[k], g[k])
    BY <1>10, <2>1, <2>2 DEF Hears, HearsError
  <2>6. toBot[k].type = "unavailable" => HearsUnavailable(g[k - 1], toBot[k], g[k])
    BY <1>10, <2>1, <2>2 DEF Hears, HearsUnavailable
  <2> QED BY <2>3, <2>4, <2>5, <2>6 DEF Hears
<1>13. Shows(g[0])'
  <2>1. 0 \in 0..n
    BY <1>5
  <2>2. PICK x, y : x = h[0] /\ y = g[0]
    OBVIOUS
  <2>3. ShownAs(bot, db.autojoin, x)
    BY <1>5, <2>2 DEF Shows
  <2>4. /\ y.joining = x.joining /\ y.nick = x.nick /\ y.seats = x.seats
        /\ y.least = FALSE /\ y.most = x.most
    BY <1>10, <2>1, <2>2
  <2>5. ShownAs(bot, db'.autojoin, y)
    BY <1>2, <2>3, <2>4 DEF ShownAs
  <2>6. bot' = bot
    BY <1>1
  <2> QED BY <2>2, <2>5, <2>6 DEF Shows
<1>14. Ends(g[n])'
  <2>1. n \in 0..n /\ toServer' = p
    BY <1>1, <1>5, <1>6
  <2>2. InRoom' <=> InRoom
    BY <1>1 DEF InRoom, BotSeats
  <2>3. /\ g[n].joining = h[n].joining /\ g[n].nick = h[n].nick /\ g[n].seats = h[n].seats
        /\ g[n].most = h[n].most
    BY <1>10, <2>1
  <2>4. \A i \in joins(p) : p[i] = toServer[i] /\ i \in joins(toServer)
    BY <1>7 DEF joins
  <2> QED BY <1>1, <1>5, <1>7, <2>1, <2>2, <2>3, <2>4 DEF Ends
<1>15. Path(g)'
  <2>1. toBot' = toBot /\ Len(toBot') = n
    BY <1>1, <1>4
  <2>2. /\ g \in [0..n -> Picture]
        /\ \A k \in 1..n : Hears(g[k - 1], toBot'[k], g[k])
    BY <1>11, <1>12, <2>1
  <2> QED BY <1>13, <1>14, <2>1, <2>2, PathThere
<1>16. InOrder'
  <2>1. toServer' = p /\ ~renamePending'
    BY <1>1, <1>6, <1>8 DEF renamePending
  <2>2. \A i \in DOMAIN toServer' : toServer'[i].type = "unavailable" <=> toServer'[i].why = "LEAVE"
    BY <1>1, <1>8, <2>1 DEF InOrder
  <2> QED BY <1>1, <1>7, <2>1, <2>2 DEF InOrder
<1> QED BY <1>15, <1>16 DEF Following

LEMMA SetNickFollows ==
  ASSUME IInv, Steady, Following, NEW n \in Nick, SETNICK(n)
  PROVE  Following'
<1> DEFINE e == [type |-> "presence", nick |-> n, why |-> "SETNICK"]
<1>1. /\ TypeOK /\ InOrder /\ up /\ InRoom /\ toServer = <<>> /\ ~refusalPending
      /\ UNCHANGED <<up, bot, db, occ, toBot, stops>>
      /\ e \in Request /\ e.why = "SETNICK" /\ e.type = "presence"
      /\ toServer' = Append(toServer, e)
  BY DEF IInv, Following, SETNICK, Command, Steady, Request, send
<1> HIDE DEF e
<1>2. PICK p : p = <<e>>
  OBVIOUS
<1>3. toServer' = p /\ Len(p) = 1 /\ DOMAIN p = 1..1 /\ p[1] = e
  BY <1>1, <1>2
<1>4. \A i \in DOMAIN p : p[i] = e
  BY <1>3
<1>5. joins(p) = {} /\ leaves(p) = {} /\ joins(toServer) = {} /\ leaves(toServer) = {}
  <2>1. DOMAIN toServer = {}
    BY <1>1
  <2> QED BY <1>1, <1>4, <2>1 DEF joins, leaves
<1>6. errors(toBot) = {}
  BY <1>1 DEF refusalPending, errors
<1>7. PICK h : Path(h)
  BY DEF Following
<1>8. InRoom' <=> InRoom
  BY <1>1 DEF InRoom, BotSeats
<1>9. PICK a : a = h[Len(toBot)]
  OBVIOUS
<1>10. Ends(a)
  BY <1>1, <1>7, <1>9, EndOfPath
<1>11. Ends(a)'
  BY <1>1, <1>3, <1>5, <1>8, <1>10 DEF Ends
<1>12. \E g : Path(g)'
  BY <1>1, <1>7, <1>9, <1>11, TellsNothing
<1>13. InOrder'
  <2>1. joins(toServer') = {} /\ Len(toServer') = 1
    BY <1>3, <1>5
  <2>2. \A i \in DOMAIN toServer' : toServer'[i].type = "unavailable" <=> toServer'[i].why = "LEAVE"
    BY <1>1, <1>3, <1>4
  <2>3. \A i, j \in joins(toServer') : i = j
    BY <2>1
  <2> QED BY <1>1, <1>6, <1>8, <2>1, <2>2, <2>3 DEF InOrder
<1> QED BY <1>12, <1>13 DEF Following

LEMMA CommandsFollow ==
  ASSUME IInv, Steady, Following, Commands
  PROVE  Following'
BY JoinFollows, LeaveFollows, SetNickFollows DEF Commands

-----------------------------------------------------------------------------
(* The process comes and goes.                                             *)

(* A path of one picture.                                                  *)
LEMMA FreshPath ==
  ASSUME NEW a \in Picture, toBot' = <<>>, Shows(a)', Ends(a)'
  PROVE  \E g : Path(g)'
<1>1. PICK g : g = [k \in 0..0 |-> a]
  OBVIOUS
<1>2. g \in [0..0 -> Picture] /\ g[0] = a /\ Len(toBot') = 0 /\ 1..0 = {}
  BY <1>1
<1>3. Path(g)'
  BY <1>2 DEF Path
<1> QED BY <1>3

LEMMA EmptyShown ==
  ASSUME bot'.nicks = {}, bot'.nick = NoNick, NEW a, a.nick = NoNick, a.joining = bot'.joining,
         a.seats = Empty, a.least => db'.autojoin, db'.autojoin => a.most
  PROVE  Shows(a)'
<1>1. \A n \in Nick : a.seats[n].jid = NoJid
  BY DEF Empty, Unseated
<1> QED BY <1>1 DEF Shows, ShownAs

LEMMA EmptyPicture ==
  ASSUME NEW j \in Nick \union {NoNick}, NEW least \in BOOLEAN, NEW most \in BOOLEAN
  PROVE  [nick |-> NoNick, joining |-> j, seats |-> Empty, least |-> least, most |-> most] \in Picture
<1>1. Empty \in [Nick -> Seat]
  BY DEF Empty, Unseated, Seat
<1> QED BY <1>1 DEF Picture

(* What the row says is wanted, and nobody is there yet.                   *)
LEMMA StartFollows ==
  ASSUME IInv, Steady, Following, start
  PROVE  Following'
<1>1. /\ TypeOK /\ InOrder /\ ~up /\ up' /\ db' = [db EXCEPT !.online = FALSE]
      /\ UNCHANGED <<occ, toBot, stops>> /\ db \in Database
      /\ (db.autojoin => db.nick # NoNick) /\ bot = EmptyMemory /\ toServer = <<>> /\ toBot = <<>>
  BY DEF IInv, TypeOK, Sound, Now, Following, InOrder, start
<1>2. db'.autojoin = db.autojoin /\ (db.autojoin => db.nick \in Nick)
  BY <1>1 DEF Database
<1>3. PICK lazy \in LazySettings :
        LET b == [EmptyMemory EXCEPT !.lazyOffline = lazy]
        IN  IF db.autojoin THEN join(b, db.nick)
                           ELSE bot' = b /\ UNCHANGED toServer
  BY DEF start
<1>4. PICK b : b = [EmptyMemory EXCEPT !.lazyOffline = lazy]
  OBVIOUS
<1>5. /\ b.nick = NoNick /\ b.joining = NoNick /\ b.nicks = {} /\ b.validated = FALSE /\ b \in Memory
  <2>1. lazy \in BOOLEAN
    BY ConstantsAssumption
  <2> QED BY <1>4, <2>1 DEF EmptyMemory, Memory
<1>6. PICK j : j = IF db.autojoin THEN db.nick ELSE NoNick
  OBVIOUS
<1> DEFINE e == [type |-> "presence", nick |-> db.nick, why |-> "JOIN"]
<1>7. /\ bot' = IF db.autojoin THEN [b EXCEPT !.joining = db.nick] ELSE b
      /\ toServer' = IF db.autojoin THEN <<e>> ELSE <<>>
  BY <1>1, <1>3, <1>4, <1>5 DEF join, send
<1>8. /\ bot'.nick = NoNick /\ bot'.joining = j /\ bot'.nicks = {} /\ bot'.validated = FALSE
      /\ j \in Nick \union {NoNick}
  BY <1>2, <1>5, <1>6, <1>7 DEF Memory
<1>9. /\ e.nick = db.nick /\ e.why = "JOIN" /\ e.type = "presence"
  OBVIOUS
<1> HIDE DEF e
<1>10. \A i \in DOMAIN toServer' : i = 1 /\ db.autojoin /\ toServer'[i] = e
  BY <1>7
<1>11. db.autojoin => 1 \in joins(toServer')
  <2> SUFFICES ASSUME db.autojoin PROVE 1 \in joins(toServer')
    OBVIOUS
  <2>1. 1 \in DOMAIN toServer' /\ toServer'[1] = e
    BY <1>7
  <2> QED BY <1>9, <2>1 DEF joins
<1>12. \A n \in Nick : occ[n].jid # BotJid
  <2>1. PICK h : Path(h)
    BY DEF Following
  <2>2. Len(toBot) = 0 /\ Shows(h[0]) /\ bot.nick = NoNick
    BY <1>1, <2>1 DEF Path, EmptyMemory
  <2>3. PICK a : a = h[Len(toBot)]
    OBVIOUS
  <2>4. Ends(a) /\ a.nick = NoNick
    BY <1>1, <2>1, <2>2, <2>3, EndOfPath DEF Shows, ShownAs
  <2> QED BY <2>4, ConstantsAssumption DEF Ends
<1>13. ~InRoom' /\ \A n \in Nick : occ'[n].jid # BotJid
  BY <1>1, <1>12 DEF InRoom, BotSeats
<1>14. PICK a : a = [nick |-> NoNick, joining |-> j, seats |-> Empty,
                     least |-> db.autojoin, most |-> db.autojoin]
  OBVIOUS
<1>15. /\ a \in Picture /\ a.nick = NoNick /\ a.joining = j /\ a.seats = Empty
       /\ a.least = db.autojoin /\ a.most = db.autojoin
  <2>1. db.autojoin \in BOOLEAN
    BY <1>1 DEF Database
  <2> QED BY <1>8, <1>14, <2>1, EmptyPicture
<1>16. Shows(a)'
  BY <1>2, <1>8, <1>15, EmptyShown
<1>17. errors(toBot') = {} /\ turnedDown(toBot') = {}
  BY <1>1 DEF errors, turnedDown
<1>18. Ends(a)'
  <2>1. \A i \in joins(toServer') : a.joining = toServer'[i].nick
    BY <1>6, <1>9, <1>10, <1>15 DEF joins
  <2> QED BY <1>11, <1>13, <1>15, <1>17, <2>1, ConstantsAssumption DEF Ends
<1>19. \E g : Path(g)'
  BY <1>1, <1>15, <1>16, <1>18, FreshPath
<1>20. InOrder'
  <2>1. \A i, k \in joins(toServer') : i = k
    BY <1>10 DEF joins
  <2>2. ~renamePending' /\ \A i \in DOMAIN toServer' : toServer'[i].type = "unavailable" <=> toServer'[i].why = "LEAVE"
    BY <1>9, <1>10 DEF renamePending
  <2> QED BY <1>1, <1>8, <1>17, <2>1, <2>2 DEF InOrder
<1> QED BY <1>19, <1>20 DEF Following

LEMMA StreamEndFollows ==
  ASSUME IInv, Steady, Following, streamEnds
  PROVE  Following'
<1>1. /\ TypeOK /\ InOrder /\ ~up' /\ bot' = EmptyMemory /\ toServer' = <<>> /\ toBot' = <<>>
      /\ occ' = [n \in Nick |-> IF occ[n].jid = BotJid THEN Unseated ELSE occ[n]]
  BY DEF IInv, Following, streamEnds
<1>2. \A n \in Nick : occ'[n].jid # BotJid /\ (occ'[n] = occ[n] \/ occ'[n] = Unseated)
  BY <1>1, ConstantsAssumption DEF Unseated
<1>3. PICK a : a = [nick |-> NoNick, joining |-> NoNick, seats |-> Empty,
                    least |-> FALSE, most |-> TRUE]
  OBVIOUS
<1>4. /\ a \in Picture /\ a.nick = NoNick /\ a.joining = NoNick /\ a.seats = Empty
      /\ a.least = FALSE /\ a.most = TRUE
  BY <1>3, EmptyPicture
<1>5. bot'.nick = NoNick /\ bot'.joining = NoNick /\ bot'.nicks = {} /\ bot'.validated = FALSE
  BY <1>1 DEF EmptyMemory
<1>6. Shows(a)'
  BY <1>4, <1>5, EmptyShown
<1>7. /\ errors(toBot') = {} /\ turnedDown(toBot') = {} /\ joins(toServer') = {} /\ ~renamePending'
      /\ DOMAIN toServer' = {}
  BY <1>1 DEF errors, turnedDown, joins, renamePending
<1>8. Ends(a)'
  BY <1>1, <1>2, <1>4, <1>7, ConstantsAssumption DEF Ends
<1>9. \E g : Path(g)'
  BY <1>1, <1>4, <1>6, <1>8, FreshPath
<1>10. \A n \in Nick : (occ'[n].jid \in Person => n \in PersonNick) /\ (occ'[n].jid = NoJid => occ'[n] = Unseated)
  BY <1>1, <1>2, ConstantsAssumption DEF InOrder, Unseated
<1>11. InOrder'
  BY <1>1, <1>5, <1>7, <1>10 DEF InOrder
<1> QED BY <1>9, <1>11 DEF Following

LEMMA ProcessFollows ==
  ASSUME IInv, Steady, Following, Process
  PROVE  Following'
BY StartFollows, StreamEndFollows DEF Process, onDisconnect, crash

LEMMA InitFollows == Init => Following
<1> SUFFICES ASSUME Init PROVE Following
  OBVIOUS
<1>1. /\ up = FALSE /\ bot = EmptyMemory /\ toServer = <<>> /\ toBot = <<>> /\ ~db.autojoin
      /\ occ = [n \in Nick |-> Unseated]
  BY DEF Init
<1>2. PICK a : a = [nick |-> NoNick, joining |-> NoNick, seats |-> Empty,
                    least |-> FALSE, most |-> TRUE]
  OBVIOUS
<1>3. /\ a \in Picture /\ a.nick = NoNick /\ a.joining = NoNick /\ a.seats = Empty
      /\ a.least = FALSE /\ a.most = TRUE
  BY <1>2, EmptyPicture
<1>4. bot.nick = NoNick /\ bot.joining = NoNick /\ bot.nicks = {} /\ bot.validated = FALSE
  BY <1>1 DEF EmptyMemory
<1>5. Shows(a)
  <2>1. \A n \in Nick : a.seats[n].jid = NoJid
    BY <1>3 DEF Empty, Unseated
  <2> QED BY <1>1, <1>3, <1>4, <2>1 DEF Shows, ShownAs
<1>6. /\ errors(toBot) = {} /\ turnedDown(toBot) = {} /\ joins(toServer) = {} /\ ~renamePending
      /\ DOMAIN toServer = {}
  BY <1>1 DEF errors, turnedDown, joins, renamePending
<1>7. Ends(a)
  BY <1>1, <1>3, <1>6, ConstantsAssumption DEF Ends, Unseated
<1>8. PICK g : g = [k \in 0..0 |-> a]
  OBVIOUS
<1>9. g \in [0..0 -> Picture] /\ g[0] = a /\ Len(toBot) = 0 /\ 1..0 = {}
  BY <1>1, <1>3, <1>8
<1>10. Path(g)
  BY <1>5, <1>7, <1>9 DEF Path
<1>11. InOrder
  BY <1>1, <1>4, <1>6, ConstantsAssumption DEF InOrder, Unseated
<1> QED BY <1>10, <1>11 DEF Following

-----------------------------------------------------------------------------
(* All of it, in every reachable state.                                    *)
THEOREM AllFollow == Steady => (Spec => [](IInv /\ Following))
<1> SUFFICES ASSUME Steady PROVE Spec => [](IInv /\ Following)
  OBVIOUS
<1>1. Init => Following
  BY InitFollows
<1>2. IInv /\ Following /\ [Next]_vars => Following'
  <2> SUFFICES ASSUME IInv, Following, [Next]_vars PROVE Following'
    OBVIOUS
  <2>1. CASE UNCHANGED vars
    BY <2>1, Unchanged
  <2>2. CASE Next
    BY <2>2, BotFollows, CommandsFollow, ServerFollows, PeopleFollow, ProcessFollows DEF Next
  <2> QED BY <2>1, <2>2
<1> QED BY Invariance, <1>1, <1>2, PTL DEF Spec

(* Nothing is left to be read: the bot and the room share one picture.     *)
Agreed(a) ==
  /\ Shows(a) /\ Ends(a)
  /\ InRoom <=> a.nick # NoNick
  /\ InRoom => a.nick \in Nick /\ a.seats = occ

LEMMA AllRead ==
  ASSUME IInv, Following, toBot = <<>>
  PROVE  \E a \in Picture : Agreed(a)
<1>1. PICK h : Path(h)
  BY DEF Following
<1>2. Len(toBot) = 0 /\ Shows(h[0]) /\ TypeOK
  BY <1>1 DEF Path, IInv
<1>3. PICK a : a = h[Len(toBot)]
  OBVIOUS
<1>4. /\ a \in Picture /\ Ends(a) /\ (InRoom <=> a.nick # NoNick)
      /\ InRoom => a.nick \in Nick /\ a.seats = occ
  BY <1>1, <1>2, <1>3, EndOfPath
<1>5. Shows(a)
  BY <1>2, <1>3
<1> QED BY <1>4, <1>5 DEF Agreed

(* Once it has read what it was sent, the bot knows who is in the room.    *)
THEOREM BotMirrorsRoom == Steady => (Spec => []Mirror)
<1>1. IInv /\ Following => Mirror
  <2> SUFFICES ASSUME IInv, Following, up, toBot = <<>>
               PROVE  /\ bot.nick # NoNick <=> InRoom
                      /\ InRoom =>
                           /\ occ[bot.nick].jid = BotJid
                           /\ {<<e.nick, e.role>> : e \in {x \in bot.nicks : ~x.validate}}
                                = {<<n, occ[n].role>> : n \in {m \in Nick : Occupied(m)}}
                      /\ bot.validated => \A e \in bot.nicks : ~e.validate
    BY DEF Mirror
  <2>0. PICK a \in Picture : Agreed(a)
    BY AllRead
  <2>1. /\ Shows(a) /\ Ends(a) /\ (InRoom <=> a.nick # NoNick)
        /\ InRoom => a.nick \in Nick /\ a.seats = occ
    BY <2>0 DEF Agreed
  <2>2. bot.nick = a.nick /\ bot.nicks \subseteq NickEntry
    BY <2>1 DEF Shows, ShownAs, IInv, TypeOK, Memory
  <2>3. bot.validated => \A e \in bot.nicks : ~e.validate
    BY DEF Following, InOrder
  <2>4. ASSUME InRoom PROVE occ[bot.nick].jid = BotJid
    BY <2>1, <2>2, <2>4 DEF Ends
  <2>5. ASSUME InRoom, NEW e \in bot.nicks, ~e.validate
        PROVE  e.nick \in Nick /\ Occupied(e.nick) /\ e.role = occ[e.nick].role
    BY <2>1, <2>2, <2>5 DEF Shows, ShownAs, Occupied, NickEntry
  <2>6. ASSUME InRoom, NEW n \in Nick, Occupied(n)
        PROVE  \E e \in bot.nicks : ~e.validate /\ e.nick = n /\ e.role = occ[n].role
    BY <2>1, <2>2, <2>6 DEF Shows, ShownAs, Occupied
  <2>7. ASSUME InRoom
        PROVE  {<<e.nick, e.role>> : e \in {x \in bot.nicks : ~x.validate}}
                 = {<<n, occ[n].role>> : n \in {m \in Nick : Occupied(m)}}
    BY <2>5, <2>6, <2>7
  <2> QED BY <2>1, <2>2, <2>3, <2>4, <2>7
<1> QED BY AllFollow, <1>1, PTL

(* ... and RoleList grants nobody what belongs to somebody else.           *)
THEOREM RolesFollowRoom == Steady /\ ~Anonymous => (Spec => []RolesAreCurrent)
<1> SUFFICES ASSUME Steady, ~Anonymous PROVE Spec => []RolesAreCurrent
  OBVIOUS
<1>1. IInv /\ Following => RolesAreCurrent
  <2> SUFFICES ASSUME IInv, Following, up, toBot = <<>>, NEW e \in bot.nicks, ~e.validate
               PROVE  bot.roles[e.nick] = privilege(0, available(e.nick, occ[e.nick]))
    BY DEF RolesAreCurrent
  <2>0. PICK a \in Picture : Agreed(a)
    BY AllRead
  <2>1. /\ Shows(a) /\ Ends(a) /\ (InRoom <=> a.nick # NoNick)
        /\ InRoom => a.nick \in Nick /\ a.seats = occ
    BY <2>0 DEF Agreed
  <2>2. bot.nick # NoNick
    BY DEF IInv, Sound, Now
  <2> QED BY <2>1, <2>2 DEF Shows, ShownAs
<1> QED BY AllFollow, <1>1, PTL

(* With nothing under way autojoin is set exactly while the bot is in the  *)
(* room, whatever commands, kicks and refusals have crossed before, but    *)
(* for a bot that was refused the registered nick in this stay.            *)
THEOREM AutoJoinIsRight == Steady => (Spec => []AutoJoinFollowsRoom)
<1> SUFFICES ASSUME Steady PROVE Spec => []AutoJoinFollowsRoom
  OBVIOUS
<1>1. IInv /\ Following => AutoJoinFollowsRoom
  <2> SUFFICES ASSUME IInv, Following, up, toBot = <<>>, toServer = <<>>
               PROVE  (db.autojoin => InRoom) /\ (InRoom => db.autojoin \/ bot.refused)
    BY DEF AutoJoinFollowsRoom
  <2>0. PICK a \in Picture : Agreed(a)
    BY AllRead
  <2>1. /\ Shows(a) /\ Ends(a) /\ (InRoom <=> a.nick # NoNick)
        /\ InRoom => a.nick \in Nick /\ a.seats = occ
    BY <2>0 DEF Agreed
  <2>2. joins(toServer) = {} /\ leaves(toServer) = {} /\ turnedDown(toBot) = {}
    BY DEF joins, leaves, turnedDown, errors
  <2> QED BY <2>1, <2>2 DEF Ends, Shows, ShownAs
<1> QED BY AllFollow, <1>1, PTL

(* The owner is told that the bot cannot join only when it has not joined, *)
(* or sits there under another nick while its NickList shows somebody      *)
(* under the registered one: somebody may hold that nick.                  *)
THEOREM ErrorIsNoExit == Steady => (Spec => ErrorMeansNotJoined)
<1> SUFFICES ASSUME Steady PROVE Spec => ErrorMeansNotJoined
  OBVIOUS
<1> DEFINE NotJoined ==
             \/ bot.nick = NoNick
             \/ /\ bot.nick # registeredNick
                /\ \E e \in bot.nicks : e.nick = registeredNick /\ ~e.validate
<1>1. ASSUME IInv, Following PROVE errorDisablesAutoJoin => NotJoined
  <2> SUFFICES ASSUME errorDisablesAutoJoin PROVE NotJoined
    OBVIOUS
  <2>1. /\ toBot \in Seq(Stanza) /\ toBot # <<>> /\ Head(toBot).type = "error"
        /\ Head(toBot).nick = registeredNick
    BY <1>1 DEF errorDisablesAutoJoin, Arrives, IInv, TypeOK
  <2>2. PICK h : Path(h)
    BY <1>1 DEF Following
  <2>3. Len(toBot) \in Nat /\ Len(toBot) >= 1 /\ toBot[1] = Head(toBot)
    BY <2>1, TailAt
  <2>4. 1 \in 1..Len(toBot) /\ 1 - 1 = 0
    BY <2>3
  <2>5. Hears(h[1 - 1], toBot[1], h[1])
    BY <2>2, <2>4 DEF Path
  <2>6. HearsError(h[0], Head(toBot), h[1])
    BY <2>1, <2>3, <2>4, <2>5 DEF Hears
  <2>7. h[0].nick # NoNick =>
          h[0].nick # registeredNick /\ h[0].seats[registeredNick].jid # NoJid
    BY <2>1, <2>6 DEF HearsError
  <2> QED BY <2>2, <2>7, ConstantsAssumption DEF Path, Shows, ShownAs
<1>2. IInv /\ Following => [errorDisablesAutoJoin => NotJoined]_vars
  BY <1>1
<1>3. ErrorMeansNotJoined <=> [][errorDisablesAutoJoin => NotJoined]_vars
  BY DEF ErrorMeansNotJoined
<1> HIDE DEF NotJoined
<1> QED BY AllFollow, <1>2, <1>3, PTL
=============================================================================
