------------------------- MODULE GlooxWrapperProofs -------------------------
(***************************************************************************)
(* Proofs about GlooxWrapper, for any number of stanzas and signals.       *)
(***************************************************************************)
EXTENDS GlooxWrapper, TLAPS

Events == {"stanza", "answer", "quit"}
Wire == {"stanza", "answer"}

(* Facts about sequences the steps use.                                    *)
LEMMA TailFacts ==
  ASSUME NEW S, NEW q \in Seq(S), q # <<>>
  PROVE  /\ Tail(q) \in Seq(S)
         /\ Head(q) \in S /\ Head(q) = q[1] /\ 1 \in DOMAIN q
         /\ \A i \in DOMAIN Tail(q) : i + 1 \in DOMAIN q /\ Tail(q)[i] = q[i + 1]
  OBVIOUS

LEMMA AppendFacts ==
  ASSUME NEW S, NEW q \in Seq(S), NEW e \in S
  PROVE  /\ Append(q, e) \in Seq(S)
         /\ Len(Append(q, e)) = Len(q) + 1 /\ Len(q) \in Nat
         /\ DOMAIN q = 1..Len(q) /\ DOMAIN Append(q, e) = 1..(Len(q) + 1)
         /\ Append(q, e)[Len(q) + 1] = e
         /\ \A i \in DOMAIN q : Append(q, e)[i] = q[i]
  OBVIOUS

LEMMA PairFacts ==
  ASSUME NEW S, NEW a \in S, NEW b \in S
  PROVE  /\ <<a, b>> \in Seq(S)
         /\ \A i \in DOMAIN <<a, b>> : <<a, b>>[i] \in {a, b}
  OBVIOUS

LEMMA TripleFacts ==
  ASSUME NEW S, NEW a \in S, NEW b \in S, NEW c \in S
  PROVE  /\ <<a, b, c>> \in Seq(S)
         /\ \A i \in DOMAIN <<a, b, c>> : <<a, b, c>>[i] \in {a, b, c}
  OBVIOUS

LEMMA OneFacts ==
  ASSUME NEW S, NEW a \in S
  PROVE  /\ <<a>> \in Seq(S)
         /\ \A i \in DOMAIN <<a>> : <<a>>[i] \in {a}
  OBVIOUS

(* What the handlers leave to do is a sequence of calls; a vCard is asked  *)
(* for by a handler that does nothing else, and only without a request.    *)
LEMMA HandlersFacts ==
  ASSUME NEW e, NEW calls \in handlers(e)
  PROVE  /\ calls \in Seq(Call)
         /\ \/ \A i \in DOMAIN calls : calls[i] # "fetchVCard"
            \/ /\ calls = <<"fetchVCard">>
               /\ e \notin {"answer", "quit"}
               /\ request.at = "no" /\ ~request.listed
<1> DEFINE plain == {<<>>, <<"send">>, <<"setPresence">>, <<"getID", "send">>,
                     <<"setPresence", "disconnect">>,
                     <<"send", "setPresence", "disconnect">>}
           isPlain(c) == c \in Seq(Call) /\ \A i \in DOMAIN c : c[i] # "fetchVCard"
<1>1. calls \in plain \/ /\ calls = <<"fetchVCard">>
                         /\ e \notin {"answer", "quit"}
                         /\ request.at = "no" /\ ~request.listed
  <2>1. CASE e = "quit"
    BY <2>1 DEF handlers, onQuit
  <2>2. CASE e = "answer"
    BY <2>2 DEF handlers
  <2>3. CASE e \notin {"quit", "answer"}
    BY <2>3 DEF handlers
  <2>4. QED
    BY <2>1, <2>2, <2>3
<1>2. /\ "send" \in Call /\ "send" # "fetchVCard"
      /\ "getID" \in Call /\ "getID" # "fetchVCard"
      /\ "setPresence" \in Call /\ "setPresence" # "fetchVCard"
      /\ "disconnect" \in Call /\ "disconnect" # "fetchVCard"
      /\ "fetchVCard" \in Call
  BY DEF Call
<1>3. isPlain(<<>>)
  OBVIOUS
<1>4. isPlain(<<"send">>) /\ isPlain(<<"setPresence">>)
  <2>1. <<"send">> \in Seq(Call) /\ <<"setPresence">> \in Seq(Call)
    BY <1>2, OneFacts
  <2>2. QED
    BY <1>2, <2>1
<1>5. isPlain(<<"getID", "send">>) /\ isPlain(<<"setPresence", "disconnect">>)
  <2>1. /\ <<"getID", "send">> \in Seq(Call)
        /\ <<"setPresence", "disconnect">> \in Seq(Call)
    BY <1>2, PairFacts
  <2>2. QED
    BY <1>2, <2>1
<1>6. isPlain(<<"send", "setPresence", "disconnect">>)
  <2>1. <<"send", "setPresence", "disconnect">> \in Seq(Call)
    BY <1>2, TripleFacts
  <2>2. QED
    BY <1>2, <2>1
<1>7. \A c \in plain : isPlain(c)
  BY <1>3, <1>4, <1>5, <1>6
<1>8. <<"fetchVCard">> \in Seq(Call)
  BY <1>2, OneFacts
<1> HIDE DEF plain, isPlain
<1>9. calls \in plain => isPlain(calls)
  BY <1>7
<1>10. QED
  BY <1>1, <1>8, <1>9 DEF isPlain

-----------------------------------------------------------------------------
(* The inductive invariant.  Who is in the client, and how: only a handler *)
(* with a call to make, only run() while it connects or holds the mutex,   *)
(* and never both with the mutex.                                          *)
Sharing ==
  /\ inside["main"] # "no" => main \in {"handles", "ended"} /\ todo # <<>>
  /\ inside["main"] = "bare" => Head(todo) = "setPresence"
  /\ inside["xmpp"] = "locked" => xmpp \in {"ready", "pings"}
  /\ inside["xmpp"] = "bare" => xmpp = "connects"
  /\ ~(inside["main"] = "locked" /\ inside["xmpp"] = "locked")

AnswersIn(q) == {i \in DOMAIN q : q[i] = "answer"}

(* Where the one answer is: nowhere before the query was sent and after it *)
(* was handled, else on the wire or in the queue of events.                *)
Asking ==
  /\ request.at # "wire" => AnswersIn(wire) = {}
  /\ request.at # "queue" => AnswersIn(events) = {}
  /\ \A i, j \in AnswersIn(wire) : i = j
  /\ \A i, j \in AnswersIn(events) : i = j

(* When its request is on the list: whenever no handler is running.        *)
Listing ==
  /\ (\E i \in DOMAIN todo : todo[i] = "fetchVCard") =>
       todo = <<"fetchVCard">> /\ request.at = "no"
  /\ main \in {"loads", "starts", "idle"} /\ request.at # "no" => request.listed

(* Why run() is over, and why the process is.                              *)
Ending ==
  /\ main = "loads" => xmpp = "none"
  /\ exit # "no" => xmpp = "gone"
  /\ xmpp \in {"exits", "gone"} =>
       why = "signal" \/ stream \in {"dropped", "closed"}
  /\ main = "ended" => signals > 1 \/ exit = "called"

IInv == TypeOK /\ Sharing /\ Asking /\ Listing /\ Ending

LEMMA InitHolds == Init => IInv
<1> SUFFICES ASSUME Init PROVE IInv
  OBVIOUS
<1>1. TypeOK
  <2>1. todo \in Seq(Call) /\ events \in Seq(Events) /\ wire \in Seq(Wire)
    BY DEF Init
  <2>2. 0 \in 0..MaxStanzas /\ 0 \in 0..MaxSignals
    BY GlooxAssumption
  <2>3. QED
    BY <2>1, <2>2 DEF Init, TypeOK, Events, Wire
<1>2. AnswersIn(wire) = {} /\ AnswersIn(events) = {}
  BY DEF Init, AnswersIn
<1>3. Sharing /\ Asking /\ Listing /\ Ending
  BY <1>2 DEF Init, Sharing, Asking, Listing, Ending, Thread
<1>4. QED
  BY <1>1, <1>3 DEF IInv

LEMMA TypeStep == IInv /\ [Next]_vars => TypeOK'
<1> SUFFICES ASSUME IInv, [Next]_vars PROVE TypeOK'
  OBVIOUS
<1> USE DEF Thread, enter, leave
<1>0. TypeOK /\ Sharing
  BY DEF IInv
<1>1. CASE StartThread
  BY <1>0, <1>1 DEF StartThread, TypeOK
<1>2. CASE Exec
  BY <1>0, <1>2 DEF Exec, TypeOK
<1>3. CASE Handle
  <2>1. todo' \in Seq(Call)
    BY <1>3, HandlersFacts DEF Handle
  <2>2. events' \in Seq(Events)
    BY <1>0, <1>3, TailFacts DEF Handle, TypeOK, Events
  <2>3. QED
    BY <1>0, <1>3, <2>1, <2>2 DEF Handle, TypeOK, Events
<1>4. CASE EnterCall
  BY <1>0, <1>4 DEF EnterCall, TypeOK
<1>5. CASE LeaveCall
  <2>1. todo' \in Seq(Call)
    BY <1>0, <1>5, TailFacts DEF LeaveCall, TypeOK, Sharing
  <2>2. QED
    BY <1>0, <1>5, <2>1 DEF LeaveCall, TypeOK
<1>6. CASE Return
  <2>1. request \in [listed : BOOLEAN, at : {"no", "server", "wire", "queue"}]
    BY <1>0 DEF TypeOK
  <2>2. request' \in [listed : BOOLEAN, at : {"no", "server", "wire", "queue"}]
    BY <1>6, <2>1 DEF Return, lists
  <2>3. QED
    BY <1>0, <1>6, <2>2 DEF Return, TypeOK
<1>7. CASE End
  BY <1>0, <1>7 DEF End, TypeOK
<1>8. CASE Connect \/ Poll \/ PollTimeout
  BY <1>0, <1>8 DEF Connect, Poll, PollTimeout, pings, TypeOK
<1>9. CASE Lock \/ Pinged
  BY <1>0, <1>9 DEF Lock, Pinged, TypeOK
<1>10. CASE Receive
  <2>1. wire' \in Seq(Wire) /\ Head(wire) \in Wire
    BY <1>0, <1>10, TailFacts DEF Receive, TypeOK, Wire
  <2>2. events' \in Seq(Events)
    BY <1>0, <1>10, <2>1, AppendFacts DEF Receive, TypeOK, Wire, Events
  <2>3. QED
    BY <1>0, <1>10, <2>1, <2>2 DEF Receive, TypeOK, Wire, Events
<1>11. CASE ReceiveError
  BY <1>0, <1>11 DEF ReceiveError, breaks, TypeOK
<1>12. CASE Exit
  BY <1>0, <1>12 DEF Exit, TypeOK
<1>13. CASE FirstSignal
  <2>1. events' \in Seq(Events)
    <3>1. events' = events \/ events' = Append(events, "quit")
      BY <1>13 DEF FirstSignal, posts
    <3>2. events \in Seq(Events) /\ "quit" \in Events
      BY <1>0 DEF TypeOK, Events
    <3>3. Append(events, "quit") \in Seq(Events)
      BY <3>2, AppendFacts
    <3>4. QED
      BY <3>1, <3>2, <3>3
  <2>2. signals' \in 0..MaxSignals
    BY <1>13, GlooxAssumption DEF FirstSignal
  <2>3. xmpp' \in {xmpp, "exits"} /\ why' \in {why, "signal"}
    BY <1>13 DEF FirstSignal
  <2>4. QED
    BY <1>0, <1>13, <2>1, <2>2, <2>3 DEF FirstSignal, TypeOK, Events
<1>14. CASE SecondSignal
  <2>1. signals' \in 0..MaxSignals
    BY <1>0, <1>14, GlooxAssumption DEF SecondSignal, TypeOK
  <2>2. QED
    BY <1>0, <1>14, <2>1 DEF SecondSignal, TypeOK
<1>15. CASE Send
  <2>1. wire' \in Seq(Wire)
    BY <1>0, <1>15, AppendFacts DEF Send, TypeOK, Wire
  <2>2. sent' \in 0..MaxStanzas
    BY <1>0, <1>15, GlooxAssumption DEF Send, TypeOK
  <2>3. QED
    BY <1>0, <1>15, <2>1, <2>2 DEF Send, TypeOK, Wire
<1>16. CASE Answer
  <2>1. wire' \in Seq(Wire)
    BY <1>0, <1>16, AppendFacts DEF Answer, TypeOK, Wire
  <2>2. QED
    BY <1>0, <1>16, <2>1 DEF Answer, TypeOK, Wire
<1>17. CASE Drop
  BY <1>0, <1>17 DEF Drop, TypeOK
<1>18. CASE UNCHANGED vars
  BY <1>0, <1>18 DEF vars, TypeOK
<1>19. QED
  BY <1>1, <1>2, <1>3, <1>4, <1>5, <1>6, <1>7, <1>8, <1>9, <1>10, <1>11,
     <1>12, <1>13, <1>14, <1>15, <1>16, <1>17, <1>18
     DEF Next, Main, Run, Outside

(* Who enters with the mutex finds it free.                                *)
LEMMA SharingStep == IInv /\ [Next]_vars => Sharing'
<1> SUFFICES ASSUME IInv, [Next]_vars PROVE Sharing'
  OBVIOUS
<1> USE DEF Thread, enter, leave, Sharing
<1>0. TypeOK /\ Sharing
  BY DEF IInv
<1>1. inside \in [Thread -> {"no", "locked", "bare"}]
  BY <1>0 DEF TypeOK
<1>2. CASE StartThread \/ Exec \/ Handle \/ Return \/ End
  BY <1>0, <1>1, <1>2 DEF StartThread, Exec, Handle, Return, End
<1>3. CASE EnterCall
  BY <1>0, <1>1, <1>3 DEF EnterCall, locks, isLocked
<1>4. CASE LeaveCall
  BY <1>0, <1>1, <1>4 DEF LeaveCall
<1>5. CASE Connect \/ Poll \/ PollTimeout
  BY <1>0, <1>1, <1>5 DEF Connect, Poll, PollTimeout, pings
<1>6. CASE Lock
  BY <1>0, <1>1, <1>6 DEF Lock, isLocked
<1>7. CASE Pinged \/ Receive \/ ReceiveError \/ Exit
  BY <1>0, <1>1, <1>7 DEF Pinged, Receive, ReceiveError, breaks, Exit
<1>8. CASE FirstSignal
  <2>1. xmpp' = xmpp \/ xmpp = "polls"
    BY <1>8 DEF FirstSignal
  <2>2. UNCHANGED <<main, todo, inside>>
    BY <1>8 DEF FirstSignal
  <2>3. QED
    BY <1>0, <1>1, <2>1, <2>2
<1>9. CASE SecondSignal \/ Send \/ Answer \/ Drop
  BY <1>0, <1>1, <1>9 DEF SecondSignal, Send, Answer, Drop
<1>10. CASE UNCHANGED vars
  BY <1>0, <1>10 DEF vars
<1>11. QED
  BY <1>2, <1>3, <1>4, <1>5, <1>6, <1>7, <1>8, <1>9, <1>10
     DEF Next, Main, Run, Outside

(* Taking the first of a sequence moves its answers down by one, and the   *)
(* first no longer counts; putting one at the end adds it to them.         *)
LEMMA AnswersOfTail ==
  ASSUME NEW S, NEW q \in Seq(S), q # <<>>,
         \A i, j \in AnswersIn(q) : i = j
  PROVE  /\ \A i, j \in AnswersIn(Tail(q)) : i = j
         /\ AnswersIn(q) = {} => AnswersIn(Tail(q)) = {}
         /\ Head(q) = "answer" => AnswersIn(Tail(q)) = {} /\ AnswersIn(q) # {}
<1>1. /\ Head(q) = q[1] /\ 1 \in DOMAIN q
      /\ \A i \in DOMAIN Tail(q) :
           i \in Nat /\ i >= 1 /\ i + 1 \in DOMAIN q /\ Tail(q)[i] = q[i + 1]
  OBVIOUS
<1>2. \A i \in AnswersIn(Tail(q)) : i \in Nat /\ i >= 1 /\ i + 1 \in AnswersIn(q)
  BY <1>1 DEF AnswersIn
<1>3. \A i, j \in AnswersIn(Tail(q)) : i = j
  BY <1>2
<1>4. Head(q) = "answer" => 1 \in AnswersIn(q)
  BY <1>1 DEF AnswersIn
<1>5. QED
  BY <1>2, <1>3, <1>4

LEMMA AnswersOfAppend ==
  ASSUME NEW S, NEW q \in Seq(S), NEW e \in S
  PROVE  /\ e # "answer" => AnswersIn(Append(q, e)) = AnswersIn(q)
         /\ AnswersIn(q) = {} => \A i, j \in AnswersIn(Append(q, e)) : i = j
<1>1. AnswersIn(Append(q, e))
        = AnswersIn(q) \union (IF e = "answer" THEN {Len(q) + 1} ELSE {})
  BY AppendFacts DEF AnswersIn
<1>2. QED
  BY <1>1

(* At most one answer, and it is where the request says.                   *)
LEMMA AskingStep == IInv /\ [Next]_vars => Asking'
<1> SUFFICES ASSUME IInv, [Next]_vars PROVE Asking'
  OBVIOUS
<1>0. /\ TypeOK /\ Sharing /\ Asking /\ Listing
      /\ events \in Seq(Events) /\ wire \in Seq(Wire)
  BY DEF IInv, TypeOK, Events, Wire
<1>1. CASE UNCHANGED <<events, wire, request>>
  BY <1>0, <1>1 DEF Asking, AnswersIn
<1>2. CASE Handle
  <2>1. /\ AnswersIn(events) = {} => AnswersIn(events') = {}
        /\ \A i, j \in AnswersIn(events') : i = j
        /\ Head(events) = "answer" => AnswersIn(events') = {} /\ AnswersIn(events) # {}
    BY <1>0, <1>2, AnswersOfTail DEF Handle, Asking
  <2>2. AnswersIn(wire') = AnswersIn(wire)
    BY <1>2 DEF Handle
  <2>3. CASE Head(events) = "answer"
    BY <1>0, <1>2, <2>1, <2>2, <2>3 DEF Handle, Asking
  <2>4. CASE Head(events) # "answer"
    BY <1>0, <1>2, <2>1, <2>2, <2>4 DEF Handle, Asking
  <2>5. QED
    BY <2>3, <2>4
<1>3. CASE LeaveCall
  <2>1. Head(todo) = "fetchVCard" => request.at = "no"
    BY <1>0, <1>3, TailFacts DEF LeaveCall, TypeOK, Sharing, Listing
  <2>2. \/ request'.at = request.at
        \/ request.at = "no" /\ request'.at = "server"
    <3>1. CASE Head(todo) = "fetchVCard"
      BY <1>0, <1>3, <2>1, <3>1 DEF LeaveCall, TypeOK
    <3>2. CASE Head(todo) # "fetchVCard"
      <4>1. request' = request
        BY <1>3, <3>2 DEF LeaveCall
      <4>2. QED
        BY <4>1
    <3>3. QED
      BY <3>1, <3>2
  <2>3. QED
    BY <1>0, <1>3, <2>2 DEF LeaveCall, Asking, AnswersIn
<1>4. CASE Return
  <2>1. request'.at = request.at
    BY <1>0, <1>4 DEF Return, lists, TypeOK
  <2>2. QED
    BY <1>0, <1>4, <2>1 DEF Return, Asking, AnswersIn
<1>5. CASE Receive
  <2>1. /\ AnswersIn(wire) = {} => AnswersIn(wire') = {}
        /\ \A i, j \in AnswersIn(wire') : i = j
        /\ Head(wire) = "answer" => AnswersIn(wire') = {} /\ AnswersIn(wire) # {}
    BY <1>0, <1>5, AnswersOfTail DEF Receive, Asking
  <2>2. Head(wire) \in Events
    BY <1>0, <1>5, TailFacts DEF Receive, Wire, Events
  <2>3. /\ Head(wire) # "answer" => AnswersIn(events') = AnswersIn(events)
        /\ AnswersIn(events) = {} => \A i, j \in AnswersIn(events') : i = j
    BY <1>0, <1>5, <2>2, AnswersOfAppend DEF Receive
  <2>4. CASE Head(wire) = "answer"
    <3>1. request.at = "wire" /\ request'.at = "queue"
      BY <1>0, <1>5, <2>1, <2>4 DEF Receive, Asking, TypeOK
    <3>2. QED
      BY <1>0, <2>1, <2>3, <2>4, <3>1 DEF Asking
  <2>5. CASE Head(wire) # "answer"
    BY <1>0, <1>5, <2>1, <2>3, <2>5 DEF Receive, Asking
  <2>6. QED
    BY <2>4, <2>5
<1>6. CASE FirstSignal
  <2>1. events' = events \/ events' = Append(events, "quit")
    BY <1>6 DEF FirstSignal, posts
  <2>2. AnswersIn(events') = AnswersIn(events)
    <3>1. "quit" \in Events /\ "quit" # "answer"
      BY DEF Events
    <3>2. AnswersIn(Append(events, "quit")) = AnswersIn(events)
      BY <1>0, <3>1, AnswersOfAppend
    <3>3. QED
      BY <2>1, <3>2
  <2>3. QED
    BY <1>0, <1>6, <2>2 DEF FirstSignal, Asking
<1>7. CASE Send
  <2>1. AnswersIn(wire') = AnswersIn(wire)
    BY <1>0, <1>7, AnswersOfAppend DEF Send, Wire
  <2>2. QED
    BY <1>0, <1>7, <2>1 DEF Send, Asking
<1>8. CASE Answer
  <2>1. request'.at = "wire" /\ AnswersIn(wire) = {} /\ AnswersIn(events) = {}
    BY <1>0, <1>8 DEF Answer, Asking, TypeOK
  <2>2. \A i, j \in AnswersIn(wire') : i = j
    BY <1>0, <1>8, <2>1, AnswersOfAppend DEF Answer, Wire
  <2>3. QED
    BY <1>8, <2>1, <2>2 DEF Answer, Asking
<1>9. QED
  BY <1>1, <1>2, <1>3, <1>4, <1>5, <1>6, <1>7, <1>8
     DEF Next, Main, Run, Outside, StartThread, Exec, EnterCall, End, Connect,
         Poll, PollTimeout, Lock, Pinged, ReceiveError, Exit, SecondSignal,
         Drop, vars

(* A request is put on the list before the next handler runs.              *)
LEMMA ListingStep == IInv /\ [Next]_vars => Listing'
<1> SUFFICES ASSUME IInv, [Next]_vars PROVE Listing'
  OBVIOUS
<1>0. TypeOK /\ Sharing /\ Asking /\ Listing
  BY DEF IInv
<1>1. CASE /\ UNCHANGED <<todo, request>>
           /\ main' \in {"loads", "starts", "idle"} =>
                main \in {"loads", "starts", "idle"}
  BY <1>0, <1>1 DEF Listing
<1>2. CASE Handle
  BY <1>0, <1>2, HandlersFacts DEF Handle, Listing, TypeOK
<1>3. CASE LeaveCall
  <2>1. todo # <<>> /\ todo \in Seq(Call)
    BY <1>0, <1>3 DEF LeaveCall, TypeOK, Sharing
  <2>2. \A i \in DOMAIN todo' : todo'[i] # "fetchVCard"
    <3>1. SUFFICES ASSUME NEW i \in DOMAIN todo', todo'[i] = "fetchVCard" PROVE FALSE
      OBVIOUS
    <3>2. i + 1 \in DOMAIN todo /\ todo[i + 1] = "fetchVCard" /\ i \in Nat /\ i >= 1
      BY <1>3, <2>1, <3>1 DEF LeaveCall
    <3>3. todo = <<"fetchVCard">>
      BY <1>0, <3>2 DEF Listing
    <3>4. QED
      BY <3>2, <3>3
  <2>3. main' = "handles"
    BY <1>3 DEF LeaveCall
  <2>4. QED
    BY <2>2, <2>3 DEF Listing
<1>4. CASE Return
  BY <1>0, <1>4 DEF Return, lists, Listing, TypeOK
<1>5. CASE Receive \/ Answer
  <2>1. UNCHANGED <<main, todo>>
    BY <1>5 DEF Receive, Answer
  <2>2. \/ request' = request
        \/ request'.listed = request.listed /\ request.at # "no"
    <3>1. CASE Answer
      BY <1>0, <3>1 DEF Answer, TypeOK
    <3>2. CASE Receive
      <4>1. Head(wire) = "answer" => AnswersIn(wire) # {}
        BY <1>0, <3>2, TailFacts DEF Receive, TypeOK, AnswersIn
      <4>2. QED
        BY <1>0, <3>2, <4>1 DEF Receive, Asking, TypeOK
    <3>3. QED
      BY <1>5, <3>1, <3>2
  <2>3. QED
    BY <1>0, <2>1, <2>2 DEF Listing
<1>6. QED
  BY <1>1, <1>2, <1>3, <1>4, <1>5
     DEF Next, Main, Run, Outside, StartThread, Exec, EnterCall, End, Connect,
         Poll, PollTimeout, Lock, Pinged, ReceiveError, Exit, FirstSignal,
         SecondSignal, Send, Drop, vars

(* run() ends for a reason, and a reason stays one.                        *)
LEMMA EndingStep == IInv /\ [Next]_vars => Ending'
<1> SUFFICES ASSUME IInv, [Next]_vars PROVE Ending'
  OBVIOUS
<1>0. TypeOK /\ Ending
  BY DEF IInv
<1> USE DEF Ending
<1>1. CASE StartThread \/ Exec \/ Handle \/ EnterCall \/ Return \/ End
  BY <1>0, <1>1 DEF StartThread, Exec, Handle, EnterCall, Return, End
<1>2. CASE LeaveCall
  BY <1>0, <1>2 DEF LeaveCall
<1>3. CASE Connect \/ Poll \/ PollTimeout \/ Lock \/ Pinged \/ Receive
  BY <1>0, <1>3 DEF Connect, Poll, PollTimeout, pings, Lock, Pinged, Receive
<1>4. CASE ReceiveError
  BY <1>0, <1>4 DEF ReceiveError
<1>5. CASE Exit
  BY <1>0, <1>5 DEF Exit, isUp
<1>6. CASE FirstSignal
  <2>1. \/ xmpp' = xmpp /\ why' = why
        \/ xmpp = "polls" /\ xmpp' = "exits" /\ why' = "signal"
    BY <1>6 DEF FirstSignal
  <2>2. main # "ended" /\ UNCHANGED <<main, stream, exit>>
    BY <1>6 DEF FirstSignal, isUp
  <2>3. QED
    BY <1>0, <2>1, <2>2
<1>7. CASE SecondSignal
  BY <1>0, <1>7 DEF SecondSignal, TypeOK
<1>8. CASE Send \/ Answer \/ Drop
  BY <1>0, <1>8 DEF Send, Answer, Drop
<1>9. CASE UNCHANGED vars
  BY <1>0, <1>9 DEF vars
<1>10. QED
  BY <1>1, <1>2, <1>3, <1>4, <1>5, <1>6, <1>7, <1>8, <1>9
     DEF Next, Main, Run, Outside

(* The inductive invariant holds in every reachable state.                 *)
THEOREM Invariance == Spec => []IInv
<1>1. IInv /\ [Next]_vars => IInv'
  BY TypeStep, SharingStep, AskingStep, ListingStep, EndingStep DEF IInv
<1>2. QED
  BY InitHolds, <1>1, PTL DEF Spec

(* Every reachable state is type correct.                                  *)
THEOREM TypeCorrect == Spec => []TypeOK
<1>1. IInv => TypeOK
  BY DEF IInv
<1>2. QED
  BY Invariance, <1>1, PTL

(* The threads are in the client together only while it connects or while  *)
(* the main thread is in setPresence(): every other method under           *)
(* "Thread-safe members" (glooxwrapper.cpp:179) excludes recv().           *)
THEOREM ClientIsSafe == Spec => []ClientIsShared
<1>1. IInv => ClientIsShared
  <2> SUFFICES ASSUME IInv, inside["main"] # "no", inside["xmpp"] # "no"
               PROVE  ClientIsShared
    BY DEF ClientIsShared, ClientIsExclusive, Thread
  <2>1. inside["main"] \in {"locked", "bare"} /\ inside["xmpp"] \in {"locked", "bare"}
    BY DEF IInv, TypeOK, Thread
  <2>2. QED
    BY <2>1 DEF IInv, Sharing, ClientIsShared
<1>2. QED
  BY Invariance, <1>1, PTL

(* However a vCard query, its answer and the handlers interleave, the      *)
(* answer is handled when its request is on the list.                      *)
THEOREM AnswersFindRequests == Spec => []AnswerFindsRequest
<1>1. IInv => AnswerFindsRequest
  <2> SUFFICES ASSUME IInv, main = "idle", events # <<>>, Head(events) = "answer"
               PROVE  request.listed
    BY DEF AnswerFindsRequest
  <2>1. events \in Seq(Events)
    BY DEF IInv, TypeOK, Events
  <2>2. 1 \in AnswersIn(events)
    BY <2>1, TailFacts DEF AnswersIn
  <2>3. QED
    BY <2>2 DEF IInv, Asking, Listing
<1>2. QED
  BY Invariance, <1>1, PTL

(* ~GluxiBot() deletes a client that run() has left, and run() has left it *)
(* because the stream was over or a signal came, unless the process was    *)
(* ended by a second signal.                                               *)
THEOREM ClientIsDeletedLast == Spec => []ClientOutlivesRun
<1>1. IInv => ClientOutlivesRun
  BY DEF IInv, Ending, ClientOutlivesRun
<1>2. QED
  BY Invariance, <1>1, PTL
=============================================================================
