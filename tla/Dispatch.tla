------------------------------ MODULE Dispatch ------------------------------
(***************************************************************************)
(* How the bot handles one message: processMessage() of gluxibot.cpp       *)
(* offers it to the plugins in their order until one of them is done with  *)
(* it.  The alias plugin and the ACMD rules of the rooms plugin hand in    *)
(* messages of their own while they work on one, so the calls nest, and    *)
(* the commands that edit aliases, rules and the access list run in the    *)
(* middle of that.  The stack of calls is the state, and a step is what a  *)
(* plugin does between two calls.  All of it runs in the main thread.      *)
(*                                                                         *)
(* Not here: rules of several conditions (CheckMember has them), the other *)
(* automatic lists, aliases of the people outside the room (their storage  *)
(* is off unless roster/autocreate_storage is set), offline messages of    *)
(* lazy rooms, and what a reply says.                                      *)
(***************************************************************************)
EXTENDS Commands, Sequences, FiniteSets, SequencesExt

CONSTANTS
  Order,       \* the plugins as qSort() left them: PluginOrder has it
  People,      \* the other occupants of the room
  Bot,         \* the bot's own occupant
  Room,        \* the room itself, when it speaks
  Outsider,    \* people who write to the bot from outside
  Server,      \* a server: a JID that has neither an @ nor a resource
  Nobody,      \* the empty JID
  Role,        \* Role[j]: what the role list says of j
  Keys,        \* Keys[j]: the entries of the access list that concern j
  Said,        \* Said[j]: what j may write, and how it gets to the bot
  Alias,       \* Alias[a]: the alias called a, global or not, with its items
  Rule         \* Rule[r]: whom rule r is about, the word it waits for, if it
               \* waits for one, and its action

Occupant == People \union {Bot}
Sender == Occupant \union Outsider \union {Room, Server}
Me == "me"

Nothing == ""

(* A body: how the bot is called, if it is, and the words: the first, the  *)
(* second, and the rest.                                                   *)
Bodies == [how : {"plain", "bang", "nick"}, first : STRING, cmd : STRING, arg : STRING]
NoBody == [how |-> "plain", first |-> Nothing, cmd |-> Nothing, arg |-> Nothing]
Types == {"groupchat", "chat", "normal"}
Stanza == [from : Sender \union {Nobody}, to : Sender \union {Me, Nobody},
           type : Types, body : Bodies, alias : BOOLEAN, offline : BOOLEAN]

ASSUME DispatchAssumption ==
  /\ Order \in Seq(STRING) /\ IsInjective(Order) /\ "MUC" \in ToSet(Order)
  /\ People \cap {Bot, Room, Server, Nobody, Me} = {}
  /\ Outsider \cap (Occupant \union {Room, Server, Nobody, Me}) = {}
  /\ Bot \notin {Room, Server, Nobody, Me} /\ Nobody \notin {Room, Server, Me}
  /\ Me \notin {Room, Server} /\ Room # Server
  /\ Occupant \union {Nobody, Nothing} \subseteq STRING
  /\ \A j \in Sender \union {Nobody} : Role[j] \in Int
  /\ DOMAIN Said = Sender
  /\ \A j \in Sender : \A m \in Said[j] :
       /\ m.type \in Types /\ m.body \in Bodies \ {NoBody} /\ m.offline \in BOOLEAN
       /\ j \in Outsider \union {Server} => m.type # "groupchat"
       /\ j \in {Bot, Room} => m.type = "groupchat"
       /\ m.offline => m.type = "groupchat"
  /\ \A a \in DOMAIN Alias : /\ Alias[a].global \in BOOLEAN
                             /\ Alias[a].items \in Seq(Bodies \ {NoBody})
  /\ IsFiniteSet(DOMAIN Rule)
  /\ \A r \in DOMAIN Rule : /\ Rule[r].who \subseteq People
                            /\ Rule[r].action \in Bodies

(* The access plugin is asked before any other that acts on a message.     *)
ASSUME OrderAssumption ==
  \E k \in DOMAIN Order : Order[k] = "ACL" /\ \A i \in 1..(k - 1) : Order[i] = "CORE"

VARIABLES
  stack,     \* the calls of processMessage(), the innermost last
  aliases,   \* the names of the aliases of the room
  rules,     \* the items of the room's ACMD list
  denied,    \* the entries of the access list below zero
  leaked,    \* myShouldIgnoreError of the access plugin
  message,   \* ghost: the stanza that came in
  done,      \* ghost: the commands that were run for it, and as whom
  errors,    \* ghost: the plugins that answered "can't handle", and how deep
  counted    \* ghost: how often it was counted for an occupant, up to 2

lists == <<aliases, rules, denied>>
ghosts == <<message, done, errors, counted>>
vars == <<stack, aliases, rules, denied, leaked, message, done, errors, counted>>

(* A call: the stanza and the flags, the plugin whose turn it is, and how  *)
(* far that plugin is.  expand: the alias plugin has items left.  member:  *)
(* checkMember() of nick has rules left, with their places in the list,    *)
(* then the command follows.                                               *)
(* recheck: the same, and recheckJIDs() has occupants left.                *)
Frame ==
  {f \in [s : Stanza, flags : SUBSET {"acmd", "glooxbot_alias"},
          at : 1..(Len(Order) + 1),
          pc : {"offer", "expand", "member", "recheck"},
          items : Seq(Bodies), rest : SUBSET (Nat \X DOMAIN Rule),
          nick : Occupant \union {Nobody}, nicks : SUBSET People] :
     f.pc # "offer" => f.at <= Len(Order)}

Call(s, flags) == [s |-> s, flags |-> flags, at |-> 1, pc |-> "offer",
                   items |-> <<>>, rest |-> {}, nick |-> Nobody, nicks |-> {}]

Init ==
  /\ stack = <<>> /\ leaked = FALSE
  /\ aliases \in SUBSET DOMAIN Alias
  /\ rules \in {SetToSeq(q) : q \in SUBSET DOMAIN Rule}
  /\ denied = {}
  /\ message = [from |-> Nobody, to |-> Nobody, type |-> "normal", body |-> NoBody,
                alias |-> FALSE, offline |-> FALSE]
  /\ done = {} /\ errors = {} /\ counted = [p \in Occupant |-> 0]

-----------------------------------------------------------------------------
(* What the plugins see in a stanza.                                       *)

inRoom(s) == s.from \in Occupant \union {Room}

isMyMessage(s) == s.from \in {Bot, Room} /\ s.from # s.to

isForMe(s) == s.type # "groupchat" \/ s.body.how # "plain"

isMessageAcceptable(p, s) == isForMe(s) /\ (p = "CORE" \/ s.body.first = p)

\* Mutant: an expanded alias may be one again.
isNeverExpanded(f) == FALSE

isExpanded(f) == "glooxbot_alias" \in f.flags \/ f.s.alias

canHandleMessage(p, f) ==
  /\ ~f.s.offline
  /\ CASE p = "ACL" -> isMessageAcceptable(p, f.s) \/ ~isMyMessage(f.s)
       [] p = "ALIAS" -> \/ isMessageAcceptable(p, f.s)
                         \/ ~isMyMessage(f.s) /\ ~isExpanded(f)
       [] p = "MUC" -> IF inRoom(f.s)
                       THEN f.s.from \in Occupant /\ ~(f.s.from = Bot /\ isMyMessage(f.s))
                       ELSE \/ f.s.body.cmd \in DOMAIN VisitCommands
                            \/ f.s.from \in {Server, Nobody}
       [] OTHER -> isMessageAcceptable(p, f.s)

\* Mutant: the bot's own message is left as it is.
leftAsItIs(p, s) == s

(* The rooms plugin blanks what the bot itself has said, for the others.   *)
afterRefusal(p, s) ==
  IF p = "MUC" /\ s.from = Bot /\ isMyMessage(s) /\ ~s.offline
  THEN [s EXCEPT !.from = Nobody, !.to = Nobody, !.body = NoBody]
  ELSE s

-----------------------------------------------------------------------------
(* The stack.                                                              *)

Top == Last(stack)
Turn(p) == /\ stack # <<>> /\ Top.pc = "offer" /\ Top.at <= Len(Order)
           /\ Order[Top.at] = p
Accepts(p) == Turn(p) /\ canHandleMessage(p, Top)

Becomes(f) == stack' = [stack EXCEPT ![Len(stack)] = f]
Calls(f, g) == stack' = Append([stack EXCEPT ![Len(stack)] = f], g)

(* The plugin is not done with the message: the next one has its turn.     *)
Passes(s) == Becomes([Top EXCEPT !.s = s, !.at = @ + 1, !.pc = "offer"])

(* The call is over.  The alias plugin goes on with the stanza the call    *)
(* has left, a rule's stanza is deleted.                                   *)
Returns(s) ==
  LET below == Front(stack)
  IN  stack' = IF below # <<>> /\ Last(below).pc = "expand"
               THEN [below EXCEPT ![Len(below)].s = s]
               ELSE below

(* Is a rule at work, in one of the calls this one is made from?           *)
Ruled == \E i \in 1..(Len(stack) - 1) : stack[i].pc \in {"member", "recheck"}

Ran(p, cmd, need) ==
  done' = done \union {[plugin |-> p, cmd |-> cmd, need |-> need,
                        as |-> Top.s.from, ruled |-> Ruled]}

performs(c, s) == Role[s.from] >= c.need /\ (c.arg => s.body.arg # Nothing)

Runs(p, cmd, c) == IF performs(c, Top.s) THEN Ran(p, cmd, c.need) ELSE UNCHANGED done

Errs(p) == errors' = errors \union {[plugin |-> p, depth |-> Len(stack)]}

-----------------------------------------------------------------------------
(* processMessage() and what every plugin does (BasePlugin::onMessage).    *)

NotHandled ==
  /\ stack # <<>> /\ Top.pc = "offer" /\ Top.at <= Len(Order)
  /\ ~canHandleMessage(Order[Top.at], Top)
  /\ Passes(afterRefusal(Order[Top.at], Top.s))
  /\ UNCHANGED <<lists, leaked, ghosts>>

Exhausted ==
  /\ stack # <<>> /\ Top.pc = "offer" /\ Top.at > Len(Order)
  /\ Returns(Top.s)
  /\ UNCHANGED <<lists, leaked, ghosts>>

Asked == {Nothing, "HELP", "LIST"}

(* Does the plugin describe itself?  Then parseMessage() is not called.    *)
describes(p) == isMessageAcceptable(p, Top.s) /\ Top.s.body.cmd \in Asked

Described ==
  /\ \E p \in ToSet(Order) \ {"CORE"} : Accepts(p) /\ describes(p)
  /\ Returns(Top.s)
  /\ UNCHANGED <<lists, leaked, ghosts>>

Parses(p) == Accepts(p) /\ ~describes(p)

(* Core overrides onMessage(): it has no prefix and no errors.             *)
coreOnMessage ==
  /\ Accepts("CORE")
  /\ IF Top.s.body.first \in {"HELP", "LIST"}
     THEN Returns(Top.s) /\ Ran("CORE", Top.s.body.first, 0)
     ELSE Passes(Top.s) /\ UNCHANGED done
  /\ UNCHANGED <<lists, leaked, message, errors, counted>>

(* The admin plugin parses without the bot's nick: called by it, it takes  *)
(* its own prefix for the command.                                         *)
commandWord(p, b) == IF p = "ADMIN" /\ b.how = "nick" THEN b.first ELSE b.cmd

(* A plugin that is a table of commands.                                   *)
tableParseMessage(p) ==
  /\ Parses(p)
  /\ ~(p = "WORD" /\ Top.s.body.cmd \in WordTurns)
  /\ LET c == commandWord(p, Top.s.body)
     IN  IF c \in DOMAIN Table[p]
         THEN Returns(Top.s) /\ Runs(p, c, Table[p][c]) /\ UNCHANGED errors
         ELSE Passes(Top.s) /\ Errs(p) /\ UNCHANGED done
  /\ UNCHANGED <<lists, leaked, message, counted>>

(* SHOW and its kin answer somebody else: the answer goes to the stanza's  *)
(* from, so they overwrite it.  They may not know the word.                *)
turnedTo(s, known) ==
  IF /\ known /\ Role[s.from] >= MODERATOR
     /\ \/ s.body.arg \in Occupant /\ inRoom(s)
        \/ s.body.cmd = "SHOWJID" /\ s.body.arg \in Sender
  THEN [s EXCEPT !.from = s.body.arg] ELSE s

wordParseMessage ==
  /\ Parses("WORD") /\ Top.s.body.cmd \in WordTurns
  /\ \E known \in BOOLEAN : Returns(turnedTo(Top.s, known))
  /\ Ran("WORD", Top.s.body.cmd, 0)
  /\ UNCHANGED <<lists, leaked, message, errors, counted>>

-----------------------------------------------------------------------------
(* The access plugin.                                                      *)

\* Mutant: only the entries by which the sender is known in the room count.
isNickAccepted(j) == j \notin denied

isJidAccepted(j) == Keys[j] \cap denied = {}

(* For its own commands it does not ask whether it is called.              *)
aclParseMessage ==
  /\ Parses("ACL") /\ Top.s.body.first # "ACL"
  /\ IF isJidAccepted(Top.s.from)
     THEN Passes(Top.s) /\ leaked' = FALSE
     ELSE Returns(Top.s) /\ leaked' = TRUE
  /\ UNCHANGED <<lists, ghosts>>

aclCommands == {"SHOW", "ADD", "DEL", "CLEAR"}

(* A value below zero denies; any other replaces it.                       *)
aclEdit(b) ==
  CASE b.cmd = "ADD" /\ b.arg # Nothing -> denied' \in {denied \union {b.arg}, denied \ {b.arg}}
    [] b.cmd = "DEL" -> denied' = denied \ {b.arg}
    [] b.cmd = "CLEAR" -> denied' = {}
    [] OTHER -> UNCHANGED denied

aclParseCommands ==
  /\ Parses("ACL") /\ Top.s.body.first = "ACL"
  /\ LET b == Top.s.body
     IN  IF Role[Top.s.from] >= BOTOWNER /\ b.cmd \notin aclCommands
         THEN /\ Passes(Top.s)
              /\ IF leaked THEN UNCHANGED errors ELSE Errs("ACL")
              /\ leaked' = FALSE
              /\ UNCHANGED <<denied, done>>
         ELSE /\ Returns(Top.s)
              /\ IF Role[Top.s.from] >= BOTOWNER
                 THEN aclEdit(b) /\ Ran("ACL", b.cmd, BOTOWNER)
                 ELSE UNCHANGED <<denied, done>>
              /\ UNCHANGED <<errors, leaked>>
  /\ UNCHANGED <<aliases, rules, message, counted>>

-----------------------------------------------------------------------------
(* The alias plugin.                                                       *)

(* The arguments of the message stand in for the %1 and %2 of an item.     *)
expandAlias(item, b) ==
  [item EXCEPT !.arg = CASE @ = "%1" -> b.cmd [] @ = "%2" -> b.arg [] OTHER -> @]

isAlias(s) == s.body.first \in aliases /\ inRoom(s)

aliasApplies(s) == isAlias(s) /\ (isForMe(s) \/ Alias[s.body.first].global)

aliasParseMessage ==
  /\ Parses("ALIAS") /\ Top.s.body.first # "ALIAS"
  /\ IF aliasApplies(Top.s)
     THEN LET its == Alias[Top.s.body.first].items
          IN  Becomes([Top EXCEPT !.pc = "expand",
                 !.items = [i \in DOMAIN its |-> expandAlias(its[i], Top.s.body)]])
     ELSE Passes(Top.s)
  /\ UNCHANGED <<lists, leaked, ghosts>>

\* Mutant: an item that was handed in stays the next one.
sameItems(items) == items

itemsAfter(items) == Tail(items)

(* The body of the stanza is replaced, and the stanza is marked.           *)
expanded(s, item) == [s EXCEPT !.body = item, !.alias = TRUE]

\* Mutant: only the stanza tells that it is the work of an alias.
noFlags == {}

aliasFlags == {"glooxbot_alias"}

expandNext ==
  /\ stack # <<>> /\ Top.pc = "expand" /\ Top.items # <<>>
  /\ LET s == expanded(Top.s, Head(Top.items))
     IN  Calls([Top EXCEPT !.s = s, !.items = itemsAfter(@)], Call(s, aliasFlags))
  /\ UNCHANGED <<lists, leaked, ghosts>>

expandDone ==
  /\ stack # <<>> /\ Top.pc = "expand" /\ Top.items = <<>>
  /\ Returns(Top.s)
  /\ UNCHANGED <<lists, leaked, ghosts>>

aliasEdit(b) ==
  CASE b.cmd = "ADD" /\ b.arg \in DOMAIN Alias -> aliases' = aliases \union {b.arg}
    [] b.cmd = "DEL" -> aliases' = aliases \ {b.arg}
    [] b.cmd = "CLEAR" -> aliases' = {}
    [] OTHER -> UNCHANGED aliases

(* Not called, it cannot describe itself, and says it cannot handle that.  *)
aliasParseCommands ==
  /\ Parses("ALIAS") /\ Top.s.body.first = "ALIAS"
  /\ LET b == Top.s.body
         known == b.cmd \in {"SHOW", "CLEAR", "COUNT", "ADD", "DEL"}
     IN  IF b.cmd \in Asked \/ (Role[Top.s.from] >= ADMIN /\ ~known)
         THEN Passes(Top.s) /\ Errs("ALIAS") /\ UNCHANGED <<aliases, done>>
         ELSE /\ Returns(Top.s) /\ UNCHANGED errors
              /\ IF Role[Top.s.from] >= ADMIN
                 THEN /\ IF inRoom(Top.s) THEN aliasEdit(b) ELSE UNCHANGED aliases
                      /\ Ran("ALIAS", b.cmd, ADMIN)
                 ELSE UNCHANGED <<aliases, done>>
  /\ UNCHANGED <<denied, rules, leaked, message, counted>>

-----------------------------------------------------------------------------
(* The rooms plugin: its own commands, and the rules of the ACMD list.     *)

says(b, word) == word # Nothing /\ word \in {b.first, b.cmd, b.arg}

(* A rule that waits for a word is for messages, any other for presence.   *)
(* Without a stanza every occasion is one of presence.                     *)
isDue(r, p, b) == /\ p \in Rule[r].who
                  /\ IF Rule[r].word = Nothing THEN b = NoBody ELSE says(b, Rule[r].word)

aFind(p, b) == {<<i, rules[i]>> : i \in {k \in DOMAIN rules : isDue(rules[k], p, b)}}

(* checkMember() takes no notice of what the bot itself hands in: neither  *)
(* its own occupant nor the text of a stanza that is from and to the same. *)
withoutStanza(s) == s.from = s.to

membersRules(s) ==
  IF s.from = Bot THEN {}
  ELSE aFind(s.from, IF withoutStanza(s) THEN NoBody ELSE s.body)

(* An owner of the room may only send the bot out of that room.            *)
visits(s) ==
  IF s.body.cmd = "LEAVE"
  THEN IF Role[s.from] >= BOTOWNER THEN inRoom(s) \/ s.body.arg # Nothing
       ELSE performs(VisitCommands["LEAVE"], s) /\ s.body.arg = Nothing
  ELSE performs(VisitCommands[s.body.cmd], s)

isVisit(s) == isForMe(s) /\ s.body.cmd \in DOMAIN VisitCommands

(* The prefix is not looked at.  A server that asks for a captcha is       *)
(* answered by the bot's owner, if at all.                                 *)
mucVisits ==
  /\ Parses("MUC") /\ (isVisit(Top.s) \/ ~inRoom(Top.s))
  /\ IF isVisit(Top.s) /\ visits(Top.s)
     THEN Ran("MUC", Top.s.body.cmd, VisitCommands[Top.s.body.cmd].need)
     ELSE UNCHANGED done
  /\ Returns(Top.s)
  /\ UNCHANGED <<lists, leaked, message, errors, counted>>

(* Statistics are kept of what people type, not of what it expands to.     *)
statMessage(f) ==
  IF f.s.body # NoBody /\ "glooxbot_alias" \notin f.flags
  THEN counted' = [counted EXCEPT ![f.s.from] = IF @ < 2 THEN @ + 1 ELSE @]
  ELSE UNCHANGED counted

mucListens ==
  /\ Parses("MUC") /\ ~isVisit(Top.s) /\ inRoom(Top.s)
  /\ Becomes([Top EXCEPT !.pc = "member", !.rest = membersRules(Top.s),
                         !.nick = Top.s.from])
  /\ statMessage(Top)
  /\ UNCHANGED <<lists, leaked, message, done, errors>>

\* Mutant: the rule acts as the occupant it is about.
actsAsNick(f) == f.nick

(* A rule acts in the room as the bot, and as the sender on what is said   *)
(* in private.                                                             *)
actsAs(f) ==
  IF f.pc = "member" /\ f.s.type = "chat" /\ ~withoutStanza(f.s) THEN f.s.from ELSE Bot

expandMacro(action, f) ==
  [action EXCEPT !.arg = CASE @ = "${NICK}" -> f.nick
                           [] @ = "${BODY}" /\ f.pc = "member" -> f.s.body.first
                           [] OTHER -> @]

(* The stanza a rule hands in is from and to the one it acts as.           *)
ruleStanza(f, action) ==
  [from |-> actsAs(f), to |-> actsAs(f),
   type |-> IF actsAs(f) = Bot THEN "groupchat" ELSE "chat",
   body |-> expandMacro(action, f), alias |-> FALSE, offline |-> FALSE]

(* A rule without an action ends the walk.                                 *)
walkNext ==
  /\ stack # <<>> /\ Top.pc \in {"member", "recheck"}
  /\ \E x \in Top.rest :
       /\ \A y \in Top.rest : x[1] <= y[1]
       /\ LET action == Rule[x[2]].action
          IN  IF action = NoBody
              THEN Becomes([Top EXCEPT !.rest = {}])
              ELSE Calls([Top EXCEPT !.rest = @ \ {x}],
                         Call(ruleStanza(Top, action), {"acmd"}))
  /\ UNCHANGED <<lists, leaked, ghosts>>

(* recheckJIDs(): everybody in the room is checked, without a stanza.      *)
recheckNext ==
  /\ stack # <<>> /\ Top.pc = "recheck" /\ Top.rest = {}
  /\ \E p \in Top.nicks :
       Becomes([Top EXCEPT !.nicks = @ \ {p}, !.nick = p, !.rest = aFind(p, NoBody)])
  /\ UNCHANGED <<lists, leaked, ghosts>>

recheckDone ==
  /\ stack # <<>> /\ Top.pc = "recheck" /\ Top.rest = {} /\ Top.nicks = {}
  /\ Returns(Top.s)
  /\ UNCHANGED <<lists, leaked, ghosts>>

-----------------------------------------------------------------------------
Commanded == stack # <<>> /\ Top.pc = "member" /\ Top.rest = {}

\* Mutant: it is enough to begin with the name of the plugin.
StartsWithMuc == Top.s.body.first = "MUC"

IsForMuc == Top.s.body.first = "MUC" /\ isForMe(Top.s)

(* The rest of parseMessage(), once the rules have had their say.          *)
mucCommand ==
  /\ Commanded
  /\ ~(IsForMuc /\ Top.s.body.cmd \in ListCommands)
  /\ LET c == Top.s.body.cmd
     IN  IF IsForMuc /\ c \in DOMAIN MucCommands
         THEN Returns(Top.s) /\ Runs("MUC", c, MucCommands[c]) /\ UNCHANGED errors
         ELSE /\ Passes(Top.s) /\ UNCHANGED done
              /\ IF IsForMuc THEN Errs("MUC") ELSE UNCHANGED errors
  /\ UNCHANGED <<lists, leaked, message, counted>>

\* Mutant: a rule may edit the lists.
mayAlwaysEdit(f) == Role[f.s.from] >= ADMIN

mayEditLists(f) == Role[f.s.from] >= ADMIN /\ "acmd" \notin f.flags

autoListsTells == {Nothing, "HELP", "SHOW", "COUNT", "CLEAR", "DEL"}

rulesBut(r) ==
  IF r \in ToSet(rules) THEN RemoveAt(rules, CHOOSE i \in DOMAIN rules : rules[i] = r)
  ELSE rules

(* autoLists() as far as the ACMD list goes: CLEAR, DEL 1, and an item,    *)
(* which replaces the one with the same conditions.                        *)
commandList(b) ==
  IF b.cmd # "ACMD" THEN rules
  ELSE CASE b.arg = "CLEAR" -> <<>>
         [] b.arg = "DEL" -> IF rules = <<>> THEN rules ELSE Tail(rules)
         [] b.arg \in DOMAIN Rule \ autoListsTells -> Append(rulesBut(b.arg), b.arg)
         [] OTHER -> rules

isAddition(b) ==
  /\ b.cmd \notin {"AFIND", "AEDIT"} /\ b.arg \notin autoListsTells
  /\ b.cmd = "ACMD" => b.arg \in DOMAIN Rule

mucLists ==
  /\ Commanded /\ IsForMuc /\ Top.s.body.cmd \in ListCommands
  /\ IF mayEditLists(Top)
     THEN /\ rules' = commandList(Top.s.body)
          /\ IF isAddition(Top.s.body)
             THEN Becomes([Top EXCEPT !.pc = "recheck", !.nicks = People])
             ELSE Returns(Top.s)
          /\ Ran("MUC", Top.s.body.cmd, ADMIN)
     ELSE Returns(Top.s) /\ UNCHANGED <<rules, done>>
  /\ UNCHANGED <<aliases, denied, leaked, message, errors, counted>>

-----------------------------------------------------------------------------
(* What comes in.  The room tells everybody what is said in it, the bot    *)
(* included; an offline message is one from the room's history.  "normal"  *)
(* is a message without a type.                                            *)
Incoming ==
  UNION {{[from |-> j, to |-> Me, type |-> m.type, body |-> m.body,
           alias |-> FALSE, offline |-> m.offline] : m \in Said[j]} : j \in Sender}

Begins == done' = {} /\ errors' = {} /\ counted' = [p \in Occupant |-> 0]

handleMessage ==
  /\ stack = <<>>
  /\ \E s \in Incoming : message' = s /\ stack' = <<Call(s, {})>>
  /\ Begins /\ UNCHANGED <<lists, leaked>>

(* Somebody enters or shows presence, and the rules are looked at.         *)
onPresence ==
  /\ stack = <<>>
  /\ \E p \in People :
       LET s == [from |-> p, to |-> Me, type |-> "normal", body |-> NoBody,
                 alias |-> FALSE, offline |-> FALSE]
       IN  /\ message' = s
           /\ stack' = <<[Call(s, {}) EXCEPT !.pc = "recheck", !.nick = p,
                                             !.rest = aFind(p, NoBody)]>>
  /\ Begins /\ UNCHANGED <<lists, leaked>>

Step ==
  \/ NotHandled \/ Exhausted \/ Described \/ coreOnMessage
  \/ \E p \in DOMAIN Table : tableParseMessage(p)
  \/ wordParseMessage
  \/ aclParseMessage \/ aclParseCommands
  \/ aliasParseMessage \/ aliasParseCommands \/ expandNext \/ expandDone
  \/ mucVisits \/ mucListens \/ walkNext \/ recheckNext \/ recheckDone
  \/ mucCommand \/ mucLists

Next == handleMessage \/ onPresence \/ Step

(* The main thread does not stop in the middle of a message.               *)
Spec == Init /\ [][Next]_vars /\ WF_vars(Step)

-----------------------------------------------------------------------------
TypeOK ==
  /\ stack \in Seq(Frame)
  /\ aliases \subseteq DOMAIN Alias
  /\ rules \in Seq(DOMAIN Rule)
  /\ denied \subseteq STRING /\ leaked \in BOOLEAN
  /\ message \in Stanza
  /\ counted \in [Occupant -> 0..2]

(* An item of an alias that neither answers somebody else nor edits the    *)
(* automatic lists.                                                        *)
Quiet(b) == /\ ~(b.first = "WORD" /\ b.cmd \in WordTurns)
            /\ ~(b.first = "MUC" /\ b.cmd \in ListCommands)

QuietItems ==
  \A a \in DOMAIN Alias : \A i \in DOMAIN Alias[a].items : Quiet(Alias[a].items[i])

(* The calls nest six deep at most: what is said in private may start a    *)
(* rule, which acts as the sender, is taken for an occasion of its own and *)
(* lets a rule act as the bot, and each of the three may be an alias.  No  *)
(* alias is expanded within an alias, and no rule starts on the bot's own  *)
(* words (gluxibot.cpp:112, aliasplugin.cpp:35, mucplugin.cpp:2145).  An   *)
(* alias that adds a rule has to be excepted: that rule may start it again *)
(* from within recheckJIDs(), without end.                                 *)
NestingIsBounded == QuietItems => Len(stack) <= 6

(* checkMember() walks a list of pointers into the ACMD list; no command   *)
(* that runs below it touches that list while there is an item to come     *)
(* (mucplugin.cpp:2157, 1093).                                             *)
WalkIsStable ==
  [][QuietItems /\ rules' # rules => \A i \in DOMAIN stack : stack[i].rest = {}]_vars

(* Whatever aliases and rules do on the way, a command runs with the       *)
(* authority of who wrote the message, or with the bot's where a rule of   *)
(* the room has said so (mucplugin.cpp:2171-2188).                         *)
NoBorrowedAuthority ==
  QuietItems => \A d \in done : d.as = message.from \/ (d.as = Bot /\ d.ruled)

(* No alias and no rule edits the access list.                             *)
AccessIsManual ==
  /\ \A a \in DOMAIN Alias : \A i \in DOMAIN Alias[a].items : Alias[a].items[i].first # "ACL"
  /\ \A r \in DOMAIN Rule : Rule[r].action.first # "ACL"

(* Who is denied by the access list, by whatever name, gets nothing but    *)
(* the core's HELP and LIST and, if he owns the bot, the access plugin's   *)
(* own commands (aclplugin.cpp:15, "We should be able to drop stanzas"),   *)
(* and a visit he gives the prefix ACL: a command the access plugin does   *)
(* not know is handed on unchecked (aclplugin.cpp:118), and the rooms      *)
(* plugin looks for visits before the prefix (mucplugin.cpp:504).  What    *)
(* the bot or the room says is not looked at (aclplugin.cpp:32), and an    *)
(* alias that answers somebody else may go on as the bot.                  *)
DroppedIsSilent ==
  [][QuietItems /\ AccessIsManual =>
       \A d \in done' \ done :
         \/ Keys[d.as] \cap denied = {} \/ message.from \in {Bot, Room}
         \/ d.plugin \in {"CORE", "ACL"}
         \/ d.plugin = "MUC" /\ d.cmd \in DOMAIN VisitCommands /\ Role[d.as] >= BOTOWNER]_vars

Position(p) == CHOOSE i \in DOMAIN Order : Order[i] = p

(* What the bot has said comes back from the room; the plugins after the   *)
(* rooms plugin do not act on it (mucplugin.cpp:178-192).                  *)
EchoStopsAtMuc ==
  message.from = Bot => \A d \in done : Position(d.plugin) < Position("MUC")

(* A message to the room is counted once in its author's statistics,       *)
(* however many messages it expands to (mucplugin.cpp:597).                *)
CountedOnce ==
  message.type = "groupchat" => \A p \in People : counted[p] <= 1

(* What people say to each other is not answered with an error, unless it  *)
(* begins with the name of a plugin that does not ask whether it is called *)
(* (baseplugin.cpp:80, mucplugin.cpp:628, aliasplugin.cpp:57).             *)
QuietForOthers ==
  (~isForMe(message) /\ message.body.first \notin {"ACL", "ALIAS"})
     => \A e \in errors : e.depth > 1

(* "Modifying alists from acmd is not supported" (mucplugin.cpp:1097): the *)
(* lists are not edited on behalf of a rule.  Violated when the rule calls *)
(* an alias, which hands its items in without the flag.                    *)
RulesDoNotEdit == [][rules' # rules => ~Ruled]_vars

(* The bot gets done with every message, so the main thread is free again. *)
EveryMessageEnds == stack # <<>> ~> stack = <<>>
=============================================================================
