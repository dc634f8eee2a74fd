# GluxiBot in TLA+

GluxiBot is a Jabber bot (C++, Qt 4, gloox) that lives in multi-user chat
rooms.  This directory holds TLA+ models of the parts of it whose correctness
depends on the order of events: what a message goes through, the objects that
wait for an answer, the rooms the bot sits in, what it stores about them, and
the two threads around the connection.  The models are checked with TLC on
small instances; the theorems of the `*Proofs` modules hold for every value of
the constants and are checked by TLAPS.

    tlc -config AsyncRequests_reuse.cfg MCAsyncRequests.tla
    tlapm AsyncRequestsProofs.tla

`PROJECT.json` lists the runs, the source lines behind every definition
("map"), the hazards and the properties that cover them, the mutants that show
each property to be breakable, and the theorems.

## 1. The system

| part | files (`src/src/...`) | state | operations | talks to |
|---|---|---|---|---|
| XMPP thread | `base/glooxwrapper.cpp`, `base/gloox/` | the gloox client, one mutex, vCard requests | `run()` polls the socket; `send()`, `fetchVCard()`, `setPresence()`, `disconnect()` | emits signals that are queued to the bot |
| Bot | `base/gluxibot.cpp`, `base/baseplugin.cpp`, `base/plugin*.cpp` | ordered list of plugins, roles, requests | `processMessage()`, `handlePresence()`, `handleIq()`, `handleVCard()`, `onConnect()`, `onQuit()` | calls plugins in order; plugins call back |
| Requests | `base/asyncrequest*.cpp`, `plugins/net/*request.cpp`, `plugins/misc/bcrequest.cpp`, `plugins/muc/*asyncrequest.cpp` | list of objects, timers, one thread per WWW request, `deleteMutex` | create, answer, time out, finish, delete | signals from worker threads and timers |
| Roles | `base/rolelist.cpp` | map from JID to number | `insert`, `update`, `remove`, `get` | filled by the muc plugin, read by all |
| MUC plugin | `plugins/muc/mucplugin.cpp`, `conference*.cpp`, `nick*.cpp` | `confInProgress`, conferences, nicks and their rows | `onPresence`, `join`, `leave`, commands, timers | roles, requests, data storage |
| Statistics | `plugins/muc/jid*.cpp`, `muchistory.cpp` | rows of five tables, a `Jid` and a `JidStat` per occupant | enter, speak, change, leave, restart | data storage |
| Automatic lists | `plugins/muc/alist*.cpp` | items with chains of children, rows | `append`, `removeAt`, `removeExpired`, matching | `checkMember()`, commands |
| Access list and aliases | `plugins/acl`, `plugins/alias` | entries, aliases and their rows | drop a message, expand it | dispatcher |
| Stores | `plugins/{word,config,roster}`, `base/config`, `plugins/muc/config` | words, settings, a storage per user | ADD, DEL, SET, forms | data storage |
| Other plugins | `plugins/{user,net,misc,admin,core,webstatus}` | small tables and caches | commands | requests, roles, data storage |
| Data storage | `base/datastorage.cpp`, `sql/` | SQL connection | `prepareQuery()` | all |
| HTTP proxy | `proxy/directproxy.cpp` with the vendored `socketw` | a socket | blocking `fetch()` | `WWWRequest::run()` |

Everything but the XMPP thread, the thread of a WWW request and the web status
server runs on the main thread, one event handler at a time.  What makes the
program hard to test is therefore seldom shared memory and mostly order: a
queued event carries a bare pointer and may outlive the object; a plugin hands
a message in while another one is being handled, through the same function and
over the same lists; what the server says about a room lags behind what the
owner asks; the process may be killed between two SQL statements, when the rows
of the database are all that is left, and no handler uses a transaction.

What makes each part correct:

* dispatcher: every message is offered to the plugins in their order and is
  done with; nested messages end, carry nobody else's authority and change no
  list that is being walked over; what the bot itself has said, and who is
  denied, has no effect;
* requests: each is deleted exactly once, never under a running thread, never
  by an event meant for another; nothing waits for ever; an unanswered version
  query is reported to the plugin;
* rooms: the bot's picture of a room agrees with the room once it has read
  what it was sent; privileges follow the occupant and not the nick; the rows
  agree with the objects; `autojoin` says what the next process shall do;
* statistics: whoever is present has its rows, once; nothing is counted twice;
  what is kept about a known JID outlives every restart;
* automatic lists: an item is not used after it was deleted, chains have all
  their rows, expired items are gone, whom a rule fits it reaches;
* stores: an answer says what the table holds, a room goes by its stored
  settings, nobody writes in another's place;
* connection: the client is used by one thread at a time, answers find their
  requests, the process ends with the stream.

## 2. Modules

| module | models | uses |
|---|---|---|
| `RequestPool` | abstract: a request is free, quiet or has a thread; what is released in time, and what a stray report may do | |
| `AsyncRequests` | the requests, their list, timers, threads, queued events | instantiates `RequestPool` |
| `MucRoom` | one room: bot, server, database, crashes | |
| `RuleBook` | abstract: the rules of the automatic lists, as the admins may expect them | |
| `AList` | the items of the lists, their rows, and the commands on them | instantiates `RuleBook` |
| `CheckMember` | when the lists are consulted, and what is asked of the server | extends `AList` |
| `Commands` | the commands of the plugins: role, argument, effect | |
| `PluginOrder` | the order `qSort()` puts the plugins in | |
| `Dispatch` | a message, nested messages, and the lists they go by and edit | extends `Commands` |
| `JidStats` | the rows of occupants, their statistics and history | |
| `Storage` | words, aliases, settings and users' storages | |
| `GlooxWrapper` | the main thread and the XMPP thread, from start to end | |
| `MCAsyncRequests`, `MCMucRoom`, `MCCheckMember`, `MCDispatch`, `MCJidStats`, `MCStorage` | instances for TLC | the module of that name; `MCDispatch` also `PluginOrder` |
| `AsyncRequestsProofs`, `MucRoomProofs`, `DispatchProofs`, `JidStatsProofs`, `StorageProofs`, `GlooxWrapperProofs` | theorems | the module of that name, TLAPS |
| `AListProofs`, `CheckMemberProofs` | lemmas about tables of rules, theorems about the lists | the module of that name, TLAPS |

Definitions marked `Mutant:` are changed forms of the definition that follows
them, the way a bug would change it.  No model uses them; each shows that some
property notices.

How the modules divide a handler that touches several parts: `MucRoom` has what
a presence does to the room's objects, `JidStats` what it does to the rows of
occupants, `CheckMember` what it makes the lists ask of the server, `Dispatch`
the commands it makes a rule run.  The parts meet in few values (who is there,
what is in the table), and each module states its assumptions about the others
as the choices its actions leave open.

### 2.1 AsyncRequests

`Slot` is the set of heap addresses.  `kind[s]` says what lives there, `listed`
is the `QList`, `events` is Qt's queue of posted events, in order.  An event
has a flag `stale`, set when its request is deleted: the program cannot see it,
Qt can for events posted to the object itself (`sltThreadFinished`,
`deleteLater`), which it drops.  `onFinished` is posted to the list and is
delivered all the same; the list looks the pointer up and finds either nothing
or, if the address was reused, another request.

| action | code |
|---|---|
| `requestVCard`, `requestVersion`, `userCommand`, `netJob`, `netWWW` | `new ...Request`, `AsyncRequestList::append()`, `exec()` or `launch()` |
| `mucAnswer`, `userIqResult`, `userForget` | the three ways an answer takes a request off the list: `delete` then `removeAll`, `removeAll` then `delete`, `removeAll` alone |
| `Elapse`, `sltTimerTimeout`, `onTimeout` | time, the single-shot timer of a request, the minute timer of the list |
| `runLocks`, `runReturns`, `threadEnds` | `WWWRequest::run()` under `deleteMutex`, then the thread's `finished()` |
| `sltThreadFinished`, `deferredDelete`, `finishedUnknown`, `finishedWaits`, `finishedDeletes` | the main thread takes one event from the queue; `blocked` is a main thread that waits for `deleteMutex` |

Two constants say what the environment may do.  `AddressReuse`: may the
allocator return an address that a queued event still names?  `MainMayStall`:
may one handler (an SQL query, `waitForStarted()`) keep the event loop for more
than the second by which `expired()` lags behind the single-shot timer?  Both
may happen, and the properties are stated and checked with both: where one of
the two makes a difference, the property names the case.  `OwnEventNeverWaits`
lets the main thread wait for a worker only in the `onFinished()` of another
request, `TimeoutIsNotified` lets a query be lost only to such an event or to the
sweep after a stall, `Reaped` gives up when the main thread waits.  What none of
them can excuse, the deletion of a request by an event meant for another, is
`StaleFinishedIsDropped`, and violated (section 5).

`RequestPool` is what the users of the list see.  A report (`onFinished`) that
outlives its request is `stray`; all it may do is to release, once, whatever
lives at that address then, unless a thread is at work there.

### 2.2 MucRoom

`occ` is the room on the server, `toServer` and `toBot` are the streams, `bot`
is what the process remembers, `db` are the rows of `conferences` and of
`conference_nicks` with `online`.  The server is modelled after what the code
relies on: it echoes presence, refuses a taken nick or an unwelcome bot,
answers a presence from inside with status 303, and lets the bot go whatever
nick an `unavailable` is addressed to.

`MucPlugin::onPresence()` is cut into one action per way through its body:
`presenceNotHandled`, `errorRejoins`, `errorDisablesAutoJoin`,
`presenceOfNobody`, `nickLeaves`, `ownNickChanges`, `ownNickLeaves`,
`nickPresent`.  The steps all of them share, making a `Conference` and
revalidating a loaded nick, are the operators `opened` and `revalidated`, applied
in this order before the rest, as in the code.  `offlineMessage` is the side
effect of `canHandleMessage()` on a message of the room's history.  `start`,
`onDisconnect` and `crash` are the process.  The full JID of an occupant and its
nick are one key in `roles`, since the room is fixed.

Abstracted: affiliations (roles participant and moderator are enough to have a
privilege that rises and falls), `status`, `show`, logging, the statistics rows,
and the choice of rooms by `autoLeaveList()`, which may leave any online room.

Anybody may take the registered nick, before the bot enters or while it sits
there under another.  Then a SETNICK back to it is refused, and the code, which
goes by the nick alone, reports that it cannot join and clears autojoin while
it is in the room (`mucplugin.cpp:207`-`221`).  `bot.refused` is history: this
happened in the stay that lasts.  `AutoJoinFollowsRoom` lets the row be cleared
in such a stay only, and `ErrorMeansNotJoined` has the report mean that the bot
has no Conference, or that it is there under another nick and its NickList shows
who has the registered one.

`RenameRaces = FALSE` keeps a SETNICK from crossing a kick, a refusal or
another request.  With it the room properties hold; with `TRUE`
those of `muc_returns` do (section 5).  `Anonymous` is a room that shows
no JIDs.  `LazySettings` are the values `muc/lazyoffline` may have at a start:
the file may be edited between two runs of the process.

### 2.3 AList and CheckMember

`rows` is the table `conference_alists`, `items[l]` are the `AListItem` objects
of list `l` with their children.  An item is a set of row ids and a chain of
conditions; a condition stands for matcher, test, value and negation, and
`Test[c]` is what is left of it for the unique key and for
`isSameCondition()`, which do not look at the negation.  `expire` is kept as its
relation to the present, which `timePasses` changes.

| definition | code |
|---|---|
| `chainOf`, `itemFromQuery`, `load` | reading rows and following `child_id` to its end |
| `appendPrivate`, `appendChildren`, `insertChain` | `AList::append()`, last condition first; a failed INSERT yields the id -1 |
| `deleted`, `removeItem`, `removeExpired` | the DELETEs of an item, the expired items of some lists |
| `autoListsAdd`, `Del`, `Clear`, `Show` | the branches of `autoLists()` |
| `diesInAppend`, `diesInRemoveItem` | the process dies after some of these statements |
| `isOccasion`, `partMatches`, `chainMatches`, `aFind` | the filters and tests of `aFind()` |
| `checkMember`, `reaches`, `Precedence` | the order of the lists and whom each may reach |
| `onPresence`, `says`, `versionStored`, `recheckJIDs` | the callers of `checkMember()` |

`AList` defines what a command does to the store; `CheckMember` adds the
occupants and composes each handler as a whole, so that adding a rule also
removes the expired ones and looks at everybody, as `recheckJIDs()` does.
`asked[p]` is what has been asked of the server for `p`; what it decides comes
back as presence, as do the deeds of human moderators.  A restart is `stop` or
`die`, then `start`; the occupants enter again.

`SharedTails = FALSE` keeps the admins from giving a chain whose last conditions
are stored already (by another chain, or by a process that died): see section
5.  Under it `AddedIsThere` holds, in `alist_rules`; without it `alist_tails`
violates it.  `EveryPresence` is the setting `alists_every_presence`: without it a
change of role alone brings nobody before the lists.  `BotIsOwner`, `FitsBlank` and the length of chains are set to what
the properties hold for.  Otherwise: an owner bot bans on a recheck and not on a
presence, where `warnImOwner()` is asked first (`mucplugin.cpp:2197`); a
condition on `body.size` compares 0 when an occupant shows presence
(`mucplugin.cpp:1965`); chains of three are with the hazards.

Abstracted: reasons and macros, regular expressions and comparisons (which
conditions an occupant fits is a constant), the trace of `ATRACE`.

### 2.4 Dispatch, Commands and PluginOrder

`stack` are the calls of `processMessage()` that have not returned, the
innermost last.  A call holds the stanza, which plugins overwrite for those
after them, the flags, the plugin whose turn it is and how far that plugin has
come: the alias plugin with `items` left to hand in, `checkMember()` with `rest`
of the rules, `recheckJIDs()` with `nicks` to check.  A step is what a plugin
does between two calls.

| action | code |
|---|---|
| `NotHandled`, `Exhausted`, `Described` | the loop of `processMessage()`, `canHandleMessage()`, HELP and LIST in `BasePlugin::onMessage()` |
| `coreOnMessage`, `tableParseMessage`, `wordParseMessage` | plugins that only answer; SHOW of the word plugin turns the stanza to somebody else |
| `aclParseMessage`, `aclParseCommands` | dropping a message, with the flag that silences the error of the next call; editing the entries |
| `aliasParseMessage`, `expandNext`, `expandDone`, `aliasParseCommands` | expansion, one call for each item, with the flag `glooxbot_alias` |
| `mucVisits`, `mucListens`, `mucCommand`, `mucLists` | `MucPlugin::parseMessage()`: JOIN and LEAVE, the statistics, the other commands, the lists |
| `walkNext`, `recheckNext`, `recheckDone` | `checkMember()` and `recheckJIDs()`, one call for each rule that applies, with the flag `acmd` |
| `handleMessage`, `onPresence` | what comes in |

`Commands` is the table of names; of a command that only answers it keeps who
may give it.  `PluginOrder` is `qSort()` of Qt 4 on the operator `<` of
`PluginRef`, which is no order: it compares priorities or names, and of MUC and
ADMIN each is less than the other.  What comes out is what the algorithm makes of
it, so the algorithm is there, and the instance of `Dispatch` uses its result: the
order of the names with CORE in front, so that five plugins besides CORE are
offered a message before MUC is, in spite of its priority.

`QuietItems` says of the aliases that none has an item that turns an answer
(`WORD SHOW`) or edits the automatic lists.  The first lets an item act as
somebody else, the second is section 5.  `AccessIsManual` says that no alias and
no rule edits the access list.  Four properties need the first, `DroppedIsSilent`
the second too; nothing is assumed of what people type.

Abstracted: a body is the way the bot is addressed and up to three words;
rules have one condition (`CheckMember` has chains); aliases of users outside
the room are left out.

### 2.5 JidStats

`room` is who sits where, `db` the tables `conference_jids`,
`conference_nicks`, `conference_jidstat`, `conference_jidstat_time` and the
log, `seats[n]` the `Nick` with its `Jid` and `JidStat`.  A handler is a
sequence of database states, one for each of its statements (`then`); `handles`
either runs all of them or lets the process die after any prefix, and with it
the memory.  Foreign keys with ON DELETE CASCADE are in `deleteJids`.

`logMessageStanza()` and `statMessage()` are on different paths, and `says`
chooses which of them a message meets.  An ordinary one meets both.  Logged and
not counted: JOIN, LEAVE and WHEREAMI in the room, which return before the
statistics (`mucplugin.cpp:502`, `543`-`585`), what the bot says itself (`176`), and
an expanded alias.  Counted and not logged: the command of a rule, whose `acmd`
skips the log (`501`, `2184`), a message longer than the 500 characters of
`conference_log.message`, whose INSERT fails, and all of them in a room whose
history is off (`453`).  So the log of a JID and its counts
differ without any death, and `ReportsAgree` does not compare them: it says that
`msg_count` and the sum of each report agree.  That the log outlives restarts is in
`KnownIsKept`.

`enters`, `told`, `shows`, `leaves` are the presences, `says` and
`delayedMessage` the messages, `start` is a Conference made again, lazily or
not, `stop` the process taken down, `timePasses` the clock.  `reportArray` gives
the reports with their period; a week is `MaxSecond` long and starts over.
`credit` and `cut` are history: what the statistics may not exceed, and how many
messages a death interrupted.

Abstracted: the columns of words, sentences, kicks and subjects, which are
written by the same statements or by one UPDATE each; the queries of the reports.

### 2.6 Storage

`db` maps the keys of the tables `words`, `aliases` and `configuration` to
values; a key names the place (`StorageKey`), which a room has and a user gets
with the first message when `roster/autocreate_storage` is set.  `cache[r]` are
the members of the room's `MucConfigurator`, `form[r]` a form somebody holds
open, `saving` a `saveFields()` that has fields left: the process may die
between two of them.  `answer` is what the last answer says is in the table.
`fits` is what the columns have room for; a statement on anything else fails,
and the program goes on.  `SaveValue` saves one field, and after the last of them
parses the table again, as `SqlBasedConfigurator::saveFields()` does.

### 2.7 GlooxWrapper

`main` and `xmpp` are where the two threads are, `inside[t]` whether a thread is
in the client and with the mutex.  A call of the main thread (`EnterCall`,
`LeaveCall`) takes the mutex or, for `setPresence()`, does not.  `run()` polls
(`Poll`, `PollTimeout`), locks, reads and emits (`Lock`, `Receive`, `Pinged`), and
on an error leaves the loop (`ReceiveError`), to end the event loop in `Exit`.
`request` follows a vCard query: sent, on the list, answered.  Signals and the
server are the environment.  `exit` distinguishes an exit that is called before
`exec()`, which Qt forgets.

## 3. Runs

| run | question | bounds | states |
|---|---|---|---|
| `dispatch` | a message goes through the plugins with everything it calls | 2 people, a bot owner outside, 12 plugins, 2 aliases, 4 rules, 43 things to say | 242 140 |
| `dispatch_edits` | violated, see section 5 | one alias with an item that edits the rules | |
| `requests_reuse` | the list does its job although addresses are reused and the loop stalls, and every request ends | 2 addresses, 3 queued events before a creation, fair | 88 687 |
| `requests_stale` | violated, see section 5 | 2 addresses | |
| `muc_stay` | picture, rows, roles and autojoin follow the room | 2 nicks, both free to anybody, 2 people, 3 stanzas, 2 stops, both settings of lazyoffline | 488 237 |
| `muc_returns` | the bot comes back or gives up; nicks that fold together, SETNICK crossing everything | 2 nicks, 1 person, 2 stanzas, 1 stop, no JIDs, fair | 165 282 |
| `alist_rules` | the lists keep the rules they are given, across crashes, and apply them to whom they fit | 5 chains of 4 conditions, 2 lists, 3 inserted rows, 1 occupant | 79 326 |
| `alist_tails` | violated, see section 5 | 2 chains, 4 inserted rows | |
| `stats` | rows of occupants and their statistics, across restarts and deaths | 2 nicks, 1 person, a week of 4 seconds starting in its last, 1 second, 2 ids, 1 message (logged, counted or both), 1 death | 786 012 |
| `stats_known` | violated, see section 5 | as `stats` | |
| `storage` | answers, settings and rows agree | 2 rooms, 1 user, 2 nicks, 3 commands, 1 death | 196 454 |
| `client` | the client is shared, and the process ends | keepalive, 2 stanzas and an answer, 2 signals, fair | 15 509 |

Why the bounds are enough.

* Requests: the hazards need two addresses (one where a request dies and another
  is born, one that waits behind it or is swept with it); three queued events let
  the answer, the timer and a thread's end be in flight at once (the bound limits
  creation only, the queue grows past it).
* Rooms: the bot, one occupant who may take the nick the bot wants, the
  registered one among them, and a second person to take over the nick; the bound on stanzas limits when people and the owner
  act, so that an entry still brings its presences, its own echo and a history
  message on top of them.
* Lists: a chain takes two rows, a third replaces it, follows a crash, or is a
  second rule; one list `Conference::removeExpired()` visits (kick) and one it
  leaves out (ban).
* Dispatch: every flag and every kind of sender meets every kind of plugin; one
  alias calls itself, one rule calls that alias, another waits for a word the
  alias says, a third ends the walk, a fourth edits.  A message is handled with
  nothing left over but the lists, the access flag among them, so one at a time
  is enough, and the lists start in every state.
* Statistics: two nicks may show the same JID; two ids are the row that is kept
  and the one that replaces it; the second that passes is the one in which the
  week starts over.
* Stores: one field to be kept and one to be changed while a form is open and
  the process dies; values and names that fit and that do not.
* Client: two signals are the one that quits and the one that kills.

Deadlock is checked for all but the runs of requests and `client`.
Requests dropped by the user plugin (section 5) may fill every address of a
small instance, and then nothing moves, as when the main thread waits for a
`run()` that never returns; the process of `client` ends.

Fairness.  `AsyncRequests`: the event loop takes events and serves timers, the
scheduler runs a thread that can run.  Nothing is assumed of `runReturns`,
`jobDone` or of answers: no timeout is set on the socket, on the child process
or on a remote host.  `MucRoom`: the bot reads what it was sent, the server
answers, the process is started again.  Nothing is assumed of the owner or of
the other occupants.  `Dispatch`: the main thread does not stop in the middle of
a message (`WF_vars(Step)`); all of a message is one function call.
`GlooxWrapper`: each of the two threads runs when it can; nothing is assumed of
the server or of signals.  `JidStats`, `Storage` and `AList` have no liveness:
nothing in them has to happen.

## 4. Proofs

The theorems hold for any finite or infinite sets the constants stand for, under
the named ASSUME of each module and what the last column says.  Each module has
`TypeCorrect` (Spec => []TypeOK) and an inductive invariant; most properties are
not inductive by themselves.

| module | theorem | property | assumes |
|---|---|---|---|
| `DispatchProofs` | `TypeCorrect`, `Invariance` | `TypeOK`, `IInv` | |
| | `Nesting` | `NestingIsBounded` | `QuietItems` (in the property) |
| | `Authority` | `NoBorrowedAuthority` | `QuietItems` (in the property) |
| | `StableWalk` | `WalkIsStable` | `QuietItems` (in the property) |
| | `Unanswered` | `QuietForOthers` | |
| | `EchoStops` | `EchoStopsAtMuc` | |
| | `CountsOnce` | `CountedOnce` | |
| | `Silence` | `DroppedIsSilent` | `QuietItems`, `AccessIsManual` (in the property) |
| `AsyncRequestsProofs` | `TypeCorrect`, `Invariance` | `TypeOK`, `IInv` | |
| | `ListOwnsRequests` | `OwnedByList` | |
| | `RunBodyIsSafe` | `RunBodyKeepsRequest` | |
| | `OwnEventsDoNotBlock` | `OwnEventNeverWaits` | |
| | `TimeoutsAreNotified` | `TimeoutIsNotified` | |
| | `PoolRefinement` | `ImplementsPool` | |
| `MucRoomProofs` | `TypeCorrect`, `Invariance` | `TypeOK`, `IInv` | |
| | `NickListIsUnique` | `NicksAreUnique` | |
| | `RowsFollowNicks` | `SeatsMatchNicks` | |
| | `BotMirrorsRoom` | `Mirror` | `Steady` |
| | `RolesFollowRoom` | `RolesAreCurrent` | `Steady`, `~Anonymous` |
| | `AutoJoinIsRight` | `AutoJoinFollowsRoom` | `Steady` |
| | `ErrorIsNoExit` | `ErrorMeansNotJoined` | `Steady` |
| `CheckMemberProofs` | `TypeCorrect`, `Invariance` | `TypeOK`, `IInv` | |
| | `ListsAreFaithful` | `CacheIsFaithful` | |
| | `ChainsAreWhole` | `LinksHold` | |
| | `SentencesAreJust` | `NobodyWithoutRule` | |
| | `RulesAreEnforced` | `Enforced` | `EveryPresence`, `~BotIsOwner` |
| | `AddedMeansThere` | `AddedIsThere` | `~SharedTails` |
| | `ListsAreRuleBook` | `ImplementsRuleBook` | `~SharedTails` |
| `JidStatsProofs` | `TypeCorrect`, `Invariance` | `TypeOK`, `Inv` | |
| | `PresentHasItsRows` | `PresentIsRecorded` | |
| | `JidsAreUnique` | `OneRowPerJid` | |
| | `NothingIsForgotten` | `KnownIsKept` | |
| | `CountsAgree` | `ReportsAgree` | |
| | `TimeIsEarned` | `NoFalseTime` | |
| `StorageProofs` | `TypeCorrect`, `Invariance` | `TypeOK`, `IInv` | |
| | `AnswersAreTrue` | `AnswerIsTrue` | |
| | `SettingsAreCurrent` | `SettingsAreApplied` | |
| | `WritesAreConfined` | `WritesStayInPlace` | |
| `GlooxWrapperProofs` | `TypeCorrect`, `Invariance` | `TypeOK`, `IInv` | |
| | `ClientIsSafe` | `ClientIsShared` | |
| | `AnswersFindRequests` | `AnswerFindsRequest` | |
| | `ClientIsDeletedLast` | `ClientOutlivesRun` | |

How they go.

* `AsyncRequestsProofs`: `IInv` relates the three places a request can be known
  from.  A listed request is alive; only a `www` request has a thread, and while
  it has one it is listed; a queued event of a live request is one its state
  allows, so that its own `onFinished` never arrives while `run()` holds
  `deleteMutex`; a main thread that waits has a stale event in hand (`Waits`).
  Addresses may be reused throughout.  For the refinement the stray reports are
  the stale `onFinished` in the queue, and each handler of one is a `Hits` or a
  `Misses`.
* `DispatchProofs`: what holds of a call by itself (`Kept`: where it is, who its
  stanza is from, that a walk has somebody to walk for), and of a call and the
  one made from it (`Link`: flags and stanza say what made it).  A rank falls
  from each call to the next and is 1 at least, so that rank and depth together
  are 7 at most and a sixth call makes no seventh.  For the
  authority, each call that acts as the bot stands above a rule's.  The echoes,
  the count and the silence towards others go by the outermost call alone
  (`Echo`, `Public`, `First`): inner calls are of an alias or of a rule.
  Who is denied gets silence because of every call (`Watched`): one that has come
  past the access plugin is of somebody the list does not deny, and nothing below
  the outermost call edits the list, so what was true when it was asked still is.
  `StepShape` says that a step changes the top of the stack, returns, or calls,
  and the lemmas about the stack take it from there.
* `MucRoomProofs`: nicks are unique under the fold, each seat is one nick's, the
  rows that are online are those of the listed nicks, and a row with autojoin has
  a nick to join with.  What the bot knows of the room lags behind, and no
  relation between memory and room alone is inductive.  `Following` says that
  there is a path of pictures from one to the other: the first is what the memory
  shows (`Shows`), the last is the room (`Ends`), and each stanza under way leads
  from one to the next (`Hears`).  To read a stanza drops the first step, what the
  server sends adds some at the end, and a command or the timer changes what is
  wanted on all of the path.  With nothing left to read the path is one picture,
  and the bot and the room agree.  A picture bounds autojoin from both sides,
  since a LEAVE that was sent has taken it back before the room knows.
* `AListProofs` has what the operators do to a table: in a table whose links lead
  to rows inserted earlier (`Table`) every row has one chain, an INSERT or DELETE
  elsewhere does not touch it, and a death between two statements leaves a table.
  Chains are of any length, so these are inductions: each goes by the least
  number for which it fails.  `CheckMemberProofs`: the rows form a table with an
  id to spare, the items are what it says, and what has been asked of the server
  is what the lists make of the occupants.  For the refinement a command changes
  the lists in one of five ways (`Lapses`, `Loses`, `Clears`, `FallsDueIn`,
  `Gains`), and each of them is a step of `RuleBook`.
* `JidStatsProofs`: a database is `Sound` when whatever belongs to a JID
  belongs to one that is there, no JID has two rows, the temporary rows are
  those named after a nick, and records that are not complete have counted
  nothing: the last is why creating them again loses nothing. `Step(M, d, e)`
  says what one statement, or many, may make of a database: it stays sound,
  keeps what is known, and the seats of the nicks in M are as good as before.
  Each of the thirteen statements is such a step: most spare everybody,
  `setOffline()` all but its nick, a DELETE all but those whose temporary rows
  it takes, `allOffline()` nobody, but then nobody is seated. A handler is a
  `Trail` of them from the database it found, so that wherever the process
  dies the database is one step from that. A handler that goes through a list
  is a fold; the lemmas about folds say that it passes its items one by one
  (`Carries`, `FoldEnds`). `Seating` ties the seats to the tables: a seat has
  its rows (`Kept`), or lost them when it showed its JID (`Lost`).
  The counts and times are sums over cells, rows and seats. A sum (`SumOf`) is
  a function on the subsets of its domain that may take any element out first
  (`Sums`), which is what `SumPlus`, `SumPoint` and `SumCount` go by, and what
  `MapThenSumSet` computes in an order of its own (`AddsUp`). `Balanced(c, d)`
  says that no count of a JID differs from another by more than c. A statement
  is `Even` if each JID counts as before or lost all its rows, so only
  `logMessage()` and its neighbours can unbalance anything: while they count a
  message the gap is `cut + 1`, and `cut` again when all of them have
  (`CountedAll`), which is why a death in between is one more `cut`. `Earns`
  says that time_online and what the seats still wait for is within what the
  owner was credited with. A trail carries the nicks whose time it has added
  (`Spends`): none is added twice, and whoever was added waits for nothing more
  (`Paid`). That a second is credited to the right person is `Honest`: a known
  occupant that is no leftover of an earlier process is who sits there.
* `StorageProofs`: the caches agree with the table, the answer with its rows, and
  what a form still saves agrees with the answer it is going to give.
* `GlooxWrapperProofs`: who is inside with the mutex (`Sharing`), where the query
  is while its request is not listed yet (`Asking`, `Listing`), and what has
  happened when `run()` has ended (`Ending`).

Only model-checked: liveness (`Reaped`, `ReturnsToRoom`, `EveryMessageEnds`,
`EndsWithStream`), which the provers do not reach.

What the assumptions leave out.  `Steady`: `toUpper()` keeps nicks apart, and no
SETNICK crosses another request, a kick or a refusal; without the first the bot
takes the exit of a namesake for its own, without the second it may sit in a
room it has no Conference for (section 5).  `~Anonymous`: the room shows JIDs; where it does not, roles are
never lowered.  `EveryPresence`, `~BotIsOwner`, `~SharedTails`: section 2.3.
`NamesAssumption` of `JidStats`: a room has finitely many nicks, and no account is
called after a nick and a date of the domain "local", the name under which the
code stores an occupant whose JID it does not see.  Its `StatsAssumption`: a
report has a length and a period that divides it, and a week is a multiple of
it, as the three of `jidtimestat.cpp` are.  The `OrderAssumption` of `Dispatch`:
only CORE is asked before ACL, as in the order `PluginOrder` computes.

## 5. What the runs found

1. `dispatch_edits` - `aliasplugin.cpp:95`.  "Modifying alists from acmd is not
   supported" (`mucplugin.cpp:1097`): the commands of a rule carry the flag
   `acmd` and may not edit the lists.  The alias plugin hands its items in with
   flags of its own, so a rule that calls an alias edits them after all, in the
   middle of a walk over a list of pointers.  With an item that adds a rule,
   `recheckJIDs()` may start that rule again, and the calls nest without end.
2. `alist_tails` - `alist.cpp:217`, `sql/pgsql.sql:47`.  The conditions of a
   chain are rows under a unique key that spans all chains of the room.  A
   second chain that ends like another one is answered with "Added", but its
   last condition is not stored and the rule reaches everybody who fits the
   first.  A crash between the two INSERTs has the same effect on the command
   when it is given again.
3. `stats_known` - `jid.cpp:120`.  An occupant that shows its JID after it was
   stored without one has its row removed, and by the cascade its nick and
   statistics; the UPDATE that follows finds no row.  Nothing about it is stored
   until it leaves.

4. `requests_stale` - `asyncrequestlist.cpp:92`.  An `onFinished()` whose request
   is gone is to do nothing ("Thread is not registered").  The list compares bare
   pointers: a version query that is answered between its timer and the queued
   `onFinished()` is deleted by the answer, a new request is given its address,
   and the event deletes that one.  `requests_reuse` shows what holds all the
   same, and that a running WWW request is spared: the event waits for its
   `deleteMutex`, and with it the main thread.

Seen while modelling, without a run of their own.

Requests:
* the user plugin drops requests without deleting them (`userplugin.cpp:315`,
  `662`, `691`, `718`; `OwnedByList` says nobody else does).

Rooms:
* a JOIN for a room the bot is in leaves its entry in `confInProgress`, and after
  a kick the next JOIN is turned down (`mucplugin.cpp:1349`);
* an occupant called like the bot in other letters leaves, and the bot takes it
  for its own exit (`mucplugin.cpp:312`, `nicklist.cpp:54`);
* a SETNICK that crosses a kick is a request to enter for the server, and the bot
  is in a room it has no Conference for (`mucplugin.cpp:1138`);
* a refused SETNICK removes the entry of another join in progress
  (`mucplugin.cpp:203`); back to the registered nick that is taken, it is
  reported as a failure to join and clears autojoin (`mucplugin.cpp:207`-`221`), the
  exception in two properties of `muc_stay`;
* in a room that shows no JIDs a role is never lowered (`rolelist.cpp:28`, `42`).

Lists:
* expired items of aban, aparticipant and acmd stay in force
  (`conference.cpp:153`);
* a chain whose third condition is on the body never applies
  (`mucplugin.cpp:1996`).

Dispatcher:
* an alias with an item `WORD SHOW` lets the next item run as whom the answer
  went to, which is why four properties assume `QuietItems`;
* messages of the bot itself do reach the plugins before MUC, against the comment
  at `mucplugin.cpp:47`; "!admin leave" is answered with an error by ADMIN and
  carried out by MUC; "acl" and "alias" are answered without being called;
* ACL ADD lower-cases the name, `isJidAccepted()` compares the JID as it comes;
* a message that begins with ACL and has a command the access plugin does not know
  is handed on without a look at the list (`aclplugin.cpp:118`), and the rooms
  plugin takes JOIN, LEAVE and WHEREAMI from it (`mucplugin.cpp:504`): a bot owner
  who is denied still gets these.  The proof of `DroppedIsSilent` failed here, so
  the property names the case and the run `dispatch` goes through it.

Statistics:
* the chat log and the counts of an occupant differ by what is only logged or only
  counted (section 2.5);
* two nicks of one JID count its time online twice; renames are not counted;
* temporary rows survive restarts with `lazyoffline`; a name that is too long
  makes the INSERT fail, and nothing about the occupant is stored.

Stores:
* `DELETE ... ORDER BY DATE LIMIT` is no statement of PostgreSQL: it fails
  unnoticed, and the limit of five definitions (`wordlist.cpp:10`) is not kept;
* a name of more than 50 characters, and any word added in private chat, whose
  nick is null, is answered with "Updated" and not stored; a setting of more than
  250 characters is answered with "completed" and not stored;
* a form that is submitted late sets back the fields set meanwhile; a death in
  the middle of one saves a part of it.

Connection:
* `setPresence()` is listed under "Thread-safe members" (`glooxwrapper.cpp:179`)
  and takes no mutex (`221`), nor does `connect()`;
* when the first connect fails `run()` polls a negative descriptor for ever; an
  exit before `exec()` is lost, as is a signal before `bot` is set.

`main.cpp:70` turns down every database whose version is not 401, and only
`sql/update/pgsql` reaches it: at this commit the bot runs on PostgreSQL only,
and the tables of the models are those of `sql/pgsql.sql`.

## 6. Plan

Done: `AsyncRequests`, `MucRoom`, `AList` with `CheckMember`, `Dispatch`,
`JidStats`, `Storage`, `GlooxWrapper`, and proofs about all of them.

Left, in this order:

1. The version and vCard flow: ids, answers, and the occupant they are for, as
   an extension of `CheckMember`.
2. Roles in rooms that show no JIDs.
3. Two lists that fight over the role of one occupant (`mucplugin.cpp:2231`),
   with a fair server.
4. The web status thread; `MessageParser` and `aFind()` for longer chains
   against reference definitions.

## 7. Not modelled

Output and formatting (`common.cpp`, `logger.cpp`, the text of answers) and the
queries behind SEEN, REPORT, KNOWN and the like, which read only.  What a
moderation command asks of the server, beyond who may give it.  The vendored
socket library and what the WWW and net requests fetch: blocking I/O, of which
the models keep that it may never return.  Service discovery, which is
stateless.  The web status server, which reads two counts in a thread of its
own and writes nothing.  The conversion tools and scripts under `sqlconvert/`,
`sql/` and `misc/`; the constraints of the tables are in the modules that use
them.  Torn reads between a worker thread and the main thread
(`wwwrequest.cpp:223`): what they may yield depends on Qt containers.
