----------------------------- MODULE MCDispatch -----------------------------
(* A room with an owner and a participant, for TLC.                        *)
EXTENDS Dispatch

P == INSTANCE PluginOrder
SortedOrder == P!PluginList

plain(first, cmd, arg) == [how |-> "plain", first |-> first, cmd |-> cmd, arg |-> arg]
bang(first, cmd, arg) == [plain(first, cmd, arg) EXCEPT !.how = "bang"]
nick(first, cmd, arg) == [plain(first, cmd, arg) EXCEPT !.how = "nick"]

SmallRole ==
  [j \in {"ann", "joe", "bot", "room", "boss", "server", "nobody"} |->
     CASE j = "ann" -> PARTICIPANT [] j \in {"joe", "bot"} -> OWNER
       [] j = "boss" -> BOTOWNER [] OTHER -> 0]

SmallKeys ==
  [j \in {"ann", "joe", "bot", "room", "boss", "server", "nobody"} |->
     IF j = "ann" THEN {"ann", "ann@home"} ELSE {j}]

(* GREET calls itself and says the word r2 waits for; HELLO needs no call.  *)
SmallAlias ==
  [GREET |-> [global |-> FALSE,
              items |-> <<bang("MISC", "DECIDE", "%1"), bang("GREET", "SPAM", "")>>],
   HELLO |-> [global |-> TRUE, items |-> <<bang("MUC", "HERE", ""), bang("MUC", "KICK", "joe")>>]]

(* An alias with an item that edits the rules.                             *)
EditingAlias == [SmallAlias EXCEPT !.GREET.items = Append(@, bang("MUC", "ACMD", "CLEAR"))]

SmallRule ==
  [r1 |-> [who |-> {"ann"}, word |-> "", action |-> bang("GREET", "SAY", "${NICK}")],
   r2 |-> [who |-> {"ann", "joe"}, word |-> "SPAM", action |-> bang("GREET", "ANN", "")],
   r3 |-> [who |-> {"ann"}, word |-> "SPAM", action |-> NoBody],
   r4 |-> [who |-> {"ann"}, word |-> "", action |-> bang("MUC", "ACMD", "CLEAR")]]

(* What is said in the room and in private; only rooms have a history.     *)
Publicly(bodies) == {[type |-> "groupchat", body |-> b, offline |-> FALSE] : b \in bodies}
Privately(type, bodies) == {[type |-> type, body |-> b, offline |-> FALSE] : b \in bodies}
Late(bodies) == {[m EXCEPT !.offline = TRUE] : m \in Publicly(bodies)}

Talk == {plain("HELLO", "", ""), plain("SPAM", "", ""), bang("GREET", "ANN", ""),
         plain("MUC", "FOO", ""), bang("WORD", "SHOW", "joe"), nick("MISC", "LIST", "")}
Edits == {bang("MUC", "ACMD", "r2"), bang("MUC", "ACMD", "DEL"), plain("ALIAS", "DEL", "GREET"),
          bang("ALIAS", "ADD", "GREET"), bang("ALIAS", "ADD", ""), bang("ALIAS", "FOO", ""),
          bang("MUC", "FOO", "")}
Echoes == {bang("MISC", "SAY", ""), bang("NET", "PING", "host"), bang("MUC", "HERE", ""),
           bang("GREET", "ANN", "")}
Orders == {bang("ACL", "ADD", "ann@home"), bang("ACL", "DEL", "ann@home"),
           bang("ACL", "ADD", "boss"), bang("ACL", "CLEAR", ""), bang("ACL", "JOIN", "room2"),
           bang("ALIAS", "CLEAR", ""), bang("ADMIN", "LEAVE", ""),
           nick("ADMIN", "QUIT", ""), bang("HELP", "", ""), bang("MUC", "JOIN", "room2")}

SmallSaid ==
  [j \in {"ann", "joe", "bot", "room", "boss", "server"} |->
     CASE j = "ann" -> Publicly(Talk \union {plain("ALIAS", "LIST", "")})
                         \union Privately("chat", Talk) \union Late(Talk)
       [] j = "joe" -> Publicly(Edits) \union Privately("normal", {plain("SPAM", "", "")})
       [] j = "bot" -> Publicly(Echoes)
       [] j = "room" -> Publicly({plain("SPAM", "", "")})
       [] j = "boss" -> Privately("chat", Orders)
       [] j = "server" -> Privately("normal", {plain("CAPTCHA", "", "")})]
=============================================================================
