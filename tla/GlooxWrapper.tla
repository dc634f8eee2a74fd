---------------------------- MODULE GlooxWrapper ----------------------------
(***************************************************************************)
(* The two threads around the XMPP client (glooxwrapper.cpp), from the     *)
(* start of the process to its end (main.cpp, the constructor, onQuit()    *)
(* and the destructor of GluxiBot).                                        *)
(*                                                                         *)
(* GlooxWrapper::run() waits in poll() and reads under a mutex; what it    *)
(* reads reaches the main thread as queued signals.  The main thread calls *)
(* the client from its handlers, under the same mutex but for one method.  *)
(* run() ends the event loop when the stream is over.                      *)
(*                                                                         *)
(* Of the library this keeps that a call is not atomic, that recv() fails  *)
(* on a stream that is over, and that poll() wakes up for one; when        *)
(* connect() fails there is no socket and poll() has nothing to wait for.  *)
(***************************************************************************)
EXTENDS Naturals, Sequences, TLC

CONSTANTS
  KeepAlive,   \* is account/keepalive set?
  MaxStanzas,  \* stanzas the server sends, besides an answer
  MaxSignals   \* SIGTERM or SIGINT the process gets

ASSUME GlooxAssumption == /\ KeepAlive \in BOOLEAN
                          /\ {MaxStanzas, MaxSignals} \subseteq Nat

VARIABLES
  main,     \* the main thread: "loads", "starts", "idle", "handles", "ended"
  todo,     \* the calls the handler it runs has still to make
  events,   \* the event queue of the main thread
  request,  \* a vCard request: is it on the list, and where is the query?
  xmpp,     \* where run() is
  inside,   \* inside[t]: is t in the client, and has it locked the mutex?
  stream,   \* "none", "open", "failed", "dropped" or "closed"
  wire,     \* what the server has sent and recv() has not read
  sent,     \* stanzas the server has sent
  exit,     \* QCoreApplication::exit(): "no", "called" or "lost"
  why,      \* what ended run(): "no", "error" or "signal"
  signals   \* signals so far

vars == <<main, todo, events, request, xmpp, inside, stream, wire, sent, exit,
          why, signals>>

Thread == {"main", "xmpp"}
Call == {"send", "getID", "fetchVCard", "setPresence", "disconnect"}

(* The methods under "Thread-safe members" that take the mutex; the mutant *)
(* leaves out another one.                                                 *)
locksOften(c) == c \notin {"setPresence", "disconnect"}
locks(c) == c # "setPresence"

isLocked == \E t \in Thread : inside[t] = "locked"

enter(t, how) == inside' = [inside EXCEPT ![t] = how]
leave(t) == enter(t, "no")

-----------------------------------------------------------------------------
(* The main thread.                                                        *)

(* The end of GluxiBot's constructor: the plugins are there, run() starts. *)
StartThread ==
  /\ main = "loads"
  /\ main' = "starts" /\ xmpp' = "connects" /\ enter("xmpp", "bare")
  /\ UNCHANGED <<todo, events, request, stream, wire, sent, exit, why, signals>>

(* app.exec()                                                              *)
Exec ==
  /\ main = "starts" /\ main' = "idle"
  /\ UNCHANGED <<todo, events, request, xmpp, inside, stream, wire, sent, exit,
                 why, signals>>

(* onQuit(): the plugins have nothing to say; setPresence(), disconnect(). *)
onQuit == <<"setPresence", "disconnect">>

(* The calls the handlers make: none, an answer, a version query, a vCard  *)
(* query, the owner's PRESENCE and QUIT.                                   *)
handlers(e) ==
  CASE e = "quit" -> {onQuit}
    [] e = "answer" -> {<<>>, <<"send">>}
    [] OTHER -> {<<>>, <<"send">>, <<"getID", "send">>, <<"setPresence">>,
                 <<"send", "setPresence", "disconnect">>} \union
                IF request.at = "no" /\ ~request.listed THEN {<<"fetchVCard">>}
                ELSE {}

Handle ==
  /\ main = "idle" /\ events # <<>>
  /\ main' = "handles" /\ todo' \in handlers(Head(events))
  /\ events' = Tail(events)
  /\ request' = IF Head(events) = "answer" THEN [listed |-> FALSE, at |-> "no"]
                ELSE request
  /\ UNCHANGED <<xmpp, inside, stream, wire, sent, exit, why, signals>>

EnterCall ==
  /\ main = "handles" /\ todo # <<>> /\ inside["main"] = "no"
  /\ locks(Head(todo)) => ~isLocked
  /\ enter("main", IF locks(Head(todo)) THEN "locked" ELSE "bare")
  /\ UNCHANGED <<main, todo, events, request, xmpp, stream, wire, sent, exit,
                 why, signals>>

LeaveCall ==
  /\ main = "handles" /\ inside["main"] # "no"
  /\ leave("main") /\ todo' = Tail(todo)
  /\ request' = IF Head(todo) = "fetchVCard" THEN [request EXCEPT !.at = "server"]
                ELSE request
  /\ stream' = IF Head(todo) = "disconnect" /\ stream = "open" THEN "closed"
               ELSE stream
  /\ UNCHANGED <<main, events, xmpp, wire, sent, exit, why, signals>>

(* The handler returns.  requestVCard() has put the request on the list    *)
(* after fetchVCard() sent the query; the mutant forgets to.               *)
listsNothing == request' = request
lists == request' = [request EXCEPT !.listed = request.at # "no"]
Return ==
  /\ main = "handles" /\ todo = <<>>
  /\ main' = "idle" /\ lists
  /\ UNCHANGED <<todo, events, xmpp, inside, stream, wire, sent, exit, why,
                 signals>>

(* exec() returns and the bot, with the client, is deleted.                *)
End ==
  /\ main = "idle" /\ exit = "called"
  /\ main' = "ended"
  /\ UNCHANGED <<todo, events, request, xmpp, inside, stream, wire, sent, exit,
                 why, signals>>

-----------------------------------------------------------------------------
(* GlooxWrapper::run().                                                    *)

isUp == main # "ended"

(* connect(false), which takes no mutex.                                   *)
Connect ==
  /\ isUp /\ xmpp = "connects"
  /\ xmpp' = "polls" /\ leave("xmpp") /\ stream' \in {"open", "failed"}
  /\ UNCHANGED <<main, todo, events, request, wire, sent, exit, why, signals>>

isReady == \/ stream \in {"dropped", "closed"}
           \/ (stream = "open" /\ wire # <<>>)

Poll ==
  /\ isUp /\ xmpp = "polls" /\ isReady /\ xmpp' = "ready"
  /\ UNCHANGED <<main, todo, events, request, inside, stream, wire, sent, exit,
                 why, signals>>

(* poll() has waited for account/keepalive seconds: something is sent; the *)
(* mutant takes the silence for the end.                                   *)
endsAtTimeout == xmpp' = "exits"
pings == xmpp' = "pings"
PollTimeout ==
  /\ isUp /\ xmpp = "polls" /\ ~isReady /\ KeepAlive /\ pings
  /\ UNCHANGED <<main, todo, events, request, inside, stream, wire, sent, exit,
                 why, signals>>

Lock ==
  /\ isUp /\ xmpp \in {"ready", "pings"} /\ inside["xmpp"] = "no" /\ ~isLocked
  /\ enter("xmpp", "locked")
  /\ UNCHANGED <<main, todo, events, request, xmpp, stream, wire, sent, exit,
                 why, signals>>

Pinged ==
  /\ isUp /\ xmpp = "pings" /\ inside["xmpp"] = "locked"
  /\ leave("xmpp") /\ xmpp' = "polls"
  /\ UNCHANGED <<main, todo, events, request, stream, wire, sent, exit, why,
                 signals>>

(* recv(): a stanza becomes a queued signal, or the stream is over.        *)
Receive ==
  /\ isUp /\ xmpp = "ready" /\ inside["xmpp"] = "locked"
  /\ stream \in {"open", "dropped"} /\ wire # <<>>
  /\ events' = Append(events, Head(wire)) /\ wire' = Tail(wire)
  /\ request' = IF Head(wire) = "answer" THEN [request EXCEPT !.at = "queue"]
                ELSE request
  /\ leave("xmpp") /\ xmpp' = "polls"
  /\ UNCHANGED <<main, todo, stream, sent, exit, why, signals>>

(* The error path leaves the loop, and gives the mutex back first; the     *)
(* mutant keeps it.                                                        *)
breaksLocked == UNCHANGED inside
breaks == leave("xmpp")
ReceiveError ==
  /\ isUp /\ xmpp = "ready" /\ inside["xmpp"] = "locked"
  /\ stream = "closed" \/ (stream = "dropped" /\ wire = <<>>)
  /\ breaks /\ xmpp' = "exits" /\ why' = "error"
  /\ UNCHANGED <<main, todo, events, request, stream, wire, sent, exit, signals>>

(* QCoreApplication::exit(0), which does nothing before exec().            *)
Exit ==
  /\ isUp /\ xmpp = "exits" /\ xmpp' = "gone"
  /\ exit' = IF main = "starts" THEN "lost" ELSE "called"
  /\ UNCHANGED <<main, todo, events, request, inside, stream, wire, sent, why,
                 signals>>

-----------------------------------------------------------------------------
(* SIGTERM or SIGINT: the first posts a QuitEvent to the bot, if there is  *)
(* one, and may interrupt poll(); the second ends the process.             *)
posts(e) == events' = Append(events, e)
FirstSignal ==
  /\ isUp /\ signals = 0 /\ signals < MaxSignals /\ signals' = 1
  /\ CASE main = "loads" -> events' = events
       [] main = "starts" -> events' = events \/ posts("quit")
       [] OTHER -> posts("quit")
  /\ \/ UNCHANGED <<xmpp, why>>
     \/ /\ xmpp = "polls"
        /\ xmpp' = "exits" /\ why' = "signal"
  /\ UNCHANGED <<main, todo, request, inside, stream, wire, sent, exit>>

SecondSignal ==
  /\ isUp /\ signals > 0 /\ signals < MaxSignals /\ signals' = signals + 1
  /\ main' = "ended"
  /\ UNCHANGED <<todo, events, request, xmpp, inside, stream, wire, sent, exit,
                 why>>

(* The server.                                                             *)
Send ==
  /\ isUp /\ stream = "open" /\ sent < MaxStanzas
  /\ sent' = sent + 1 /\ wire' = Append(wire, "stanza")
  /\ UNCHANGED <<main, todo, events, request, xmpp, inside, stream, exit, why,
                 signals>>

Answer ==
  /\ isUp /\ stream = "open" /\ request.at = "server"
  /\ wire' = Append(wire, "answer")
  /\ request' = [request EXCEPT !.at = "wire"]
  /\ UNCHANGED <<main, todo, events, xmpp, inside, stream, sent, exit, why,
                 signals>>

Drop ==
  /\ isUp /\ stream = "open" /\ stream' = "dropped"
  /\ UNCHANGED <<main, todo, events, request, xmpp, inside, wire, sent, exit,
                 why, signals>>

Init ==
  /\ main = "loads" /\ todo = <<>> /\ events = <<>>
  /\ request = [listed |-> FALSE, at |-> "no"]
  /\ xmpp = "none" /\ inside = [t \in Thread |-> "no"]
  /\ stream = "none" /\ wire = <<>> /\ sent = 0
  /\ exit = "no" /\ why = "no" /\ signals = 0

Main == StartThread \/ Exec \/ Handle \/ EnterCall \/ LeaveCall \/ Return \/ End
Run == \/ Connect \/ Poll \/ PollTimeout \/ Lock \/ Pinged \/ Receive
       \/ ReceiveError \/ Exit
Outside == FirstSignal \/ SecondSignal \/ Send \/ Answer \/ Drop
Next == Main \/ Run \/ Outside

Spec == Init /\ [][Next]_vars

(* Both threads are scheduled, poll() wakes up, and the event loop leaves  *)
(* once it is told to and has nothing more to handle.                      *)
FairSpec == Spec /\ WF_vars(Main) /\ WF_vars(Run)

-----------------------------------------------------------------------------
(* Each variable holds what the code's types allow.                        *)
TypeOK ==
  /\ main \in {"loads", "starts", "idle", "handles", "ended"}
  /\ todo \in Seq(Call) /\ events \in Seq({"stanza", "answer", "quit"})
  /\ request \in [listed : BOOLEAN, at : {"no", "server", "wire", "queue"}]
  /\ xmpp \in {"none", "connects", "polls", "ready", "pings", "exits", "gone"}
  /\ inside \in [Thread -> {"no", "locked", "bare"}]
  /\ stream \in {"none", "open", "failed", "dropped", "closed"}
  /\ wire \in Seq({"stanza", "answer"}) /\ sent \in 0..MaxStanzas
  /\ exit \in {"no", "called", "lost"} /\ why \in {"no", "error", "signal"}
  /\ signals \in 0..MaxSignals

(* The client is used by one thread at a time, as "Thread-safe members"    *)
(* (glooxwrapper.cpp:179) says.                                            *)
ClientIsExclusive == \E t \in Thread : inside[t] = "no"

(* It is, but for setPresence(), which every QUIT and PRESENCE calls, and  *)
(* for connect(), during which a signal may arrive.                        *)
ClientIsShared ==
  \/ ClientIsExclusive
  \/ xmpp = "connects"
  \/ inside["main"] = "bare" /\ Head(todo) = "setPresence"

(* A vCard answer never overtakes its request, which is put on the list    *)
(* after the query was sent: the answer waits in the event queue until the *)
(* handler has returned.                                                   *)
AnswerFindsRequest ==
  main = "idle" /\ events # <<>> /\ Head(events) = "answer" => request.listed

(* The client is deleted after run() has left it, unless a second signal   *)
(* ends the process, and run() leaves it only when the stream is over or a *)
(* signal came in between.                                                 *)
ClientOutlivesRun ==
  main = "ended" => \/ xmpp = "gone" /\ why = "signal"
                    \/ xmpp = "gone" /\ stream \in {"dropped", "closed"}
                    \/ signals > 1

(* When the stream is over, by QUIT, by a signal or by the server, the     *)
(* process ends, so that it can be started again; unless exit() came       *)
(* before exec().                                                          *)
EndsWithStream ==
  stream \in {"dropped", "closed"} ~> main = "ended" \/ exit = "lost"
=============================================================================
