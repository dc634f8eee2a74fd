--------------------------- MODULE AsyncRequests ---------------------------
(***************************************************************************)
(* The life of the AsyncRequest objects of src/src/base/asyncrequest.cpp   *)
(* and the AsyncRequestList that owns them (asyncrequestlist.cpp).         *)
(*                                                                         *)
(* The main thread runs one event handler at a time: the slots of the      *)
(* list, the plugins that create requests and consume answers, the timers. *)
(* A WWWRequest also has a thread of its own (wwwrequest.cpp).  What the   *)
(* threads tell the main thread travels through Qt's queue of posted       *)
(* events, in order, as bare pointers: an event can outlive its request,   *)
(* and the allocator may give the address to another one meanwhile.        *)
(***************************************************************************)
EXTENDS Naturals, Sequences

CONSTANTS
  Slot,           \* addresses the allocator can return for an AsyncRequest
  AddressReuse,   \* may it return an address a queued event still names?
  MainMayStall,   \* may one handler block the main thread for over a second?
  MaxEvents       \* no request is created while this many events are queued

ASSUME ConstantsAssumption ==
  /\ AddressReuse \in BOOLEAN
  /\ MainMayStall \in BOOLEAN
  /\ MaxEvents \in Nat \ {0}

VARIABLES
  kind,      \* kind[s]: what lives at address s, "none" when it is free
  thread,    \* thread[s]: how far the QThread of the request has come
  timer,     \* timer[s]: the singleShot() of notifyOnTimeout is armed
  age,       \* age[s]: against timeout(); "expired" is a second after "due"
  listed,    \* the addresses in the AsyncRequestList
  events,    \* the events posted to the main thread
  blocked    \* the main thread waits for a deleteMutex, in onFinished()

vars == <<kind, thread, timer, age, listed, events, blocked>>

(***************************************************************************)
(* mucQuery    vCard of an occupant, or version query without timeout      *)
(* mucTimed    version query with query_version_timeout                    *)
(* userQuery   an IQ the user plugin sends, answered through onIq()        *)
(* userVCard   VCARD and PHOTO of the user plugin                          *)
(* job         a child process, a QHttp or a QTimer that calls deleteLater *)
(* www         a WWWRequest, the only one that is launched as a thread     *)
(***************************************************************************)
Kinds == {"mucQuery", "mucTimed", "userQuery", "userVCard", "job", "www"}

(* run() holds deleteMutex from its first to its last instruction.         *)
ThreadStates == {"idle", "started", "locked", "returned", "done"}
Ages == {"fresh", "due", "expired"}
EventTypes == {"sltThreadFinished", "onFinished", "deleteLater"}

(* stale: the request the event was posted for has been deleted since.     *)
EventSet == [type : EventTypes, req : Slot, stale : BOOLEAN]

Live == {s \in Slot : kind[s] # "none"}
isRunning(s) == thread[s] \in {"started", "locked", "returned"}
MainIdle == ~blocked

Event(type, s) == [type |-> type, req |-> s, stale |-> FALSE]

-----------------------------------------------------------------------------
Init ==
  /\ kind   = [s \in Slot |-> "none"]
  /\ thread = [s \in Slot |-> "idle"]
  /\ timer  = [s \in Slot |-> FALSE]
  /\ age    = [s \in Slot |-> "fresh"]
  /\ listed = {}
  /\ events = <<>>
  /\ blocked = FALSE

(* Events posted for a request of S outlive it.  Those posted to the       *)
(* request itself will be dropped by Qt, those posted to the list will not *)
Outlive(queue, S) ==
  [i \in DOMAIN queue |->
     [queue[i] EXCEPT !.stale = queue[i].stale \/ queue[i].req \in S]]

\* Mutant: destroyed() is not connected to onDelete().
DeleteUnnoticed(S, queue) ==
  /\ kind'   = [s \in Slot |-> IF s \in S THEN "none" ELSE kind[s]]
  /\ thread' = [s \in Slot |-> IF s \in S THEN "idle" ELSE thread[s]]
  /\ timer'  = [s \in Slot |-> timer[s] /\ s \notin S]
  /\ age'    = [s \in Slot |-> IF s \in S THEN "fresh" ELSE age[s]]
  /\ listed' = listed
  /\ events' = Outlive(queue, S)

(* `delete' of the requests in S: the timer dies with its object, and      *)
(* ~AsyncRequest() takes it out of the list through onDelete() unless the  *)
(* list did that itself.                                                   *)
Delete(S, queue) ==
  /\ kind'   = [s \in Slot |-> IF s \in S THEN "none" ELSE kind[s]]
  /\ thread' = [s \in Slot |-> IF s \in S THEN "idle" ELSE thread[s]]
  /\ timer'  = [s \in Slot |-> timer[s] /\ s \notin S]
  /\ age'    = [s \in Slot |-> IF s \in S THEN "fresh" ELSE age[s]]
  /\ listed' = listed \ S
  /\ events' = Outlive(queue, S)

Addressable(s) ==
  /\ kind[s] = "none"
  /\ AddressReuse \/ \A i \in DOMAIN events : events[i].req # s

(* new XxxRequest(...), AsyncRequestList::append(), then exec()/launch()   *)
append(s, k) ==
  /\ MainIdle
  /\ Addressable(s)
  /\ Len(events) < MaxEvents
  /\ kind'   = [kind EXCEPT ![s] = k]
  /\ thread' = [thread EXCEPT ![s] = IF k = "www" THEN "started" ELSE "idle"]
  /\ timer'  = [timer EXCEPT ![s] = (k = "mucTimed")]
  /\ age'    = [age EXCEPT ![s] = "fresh"]
  /\ listed' = listed \union {s}
  /\ UNCHANGED <<events, blocked>>

requestVCard(s)   == append(s, "mucQuery")
requestVersion(s) == append(s, "mucQuery") \/ append(s, "mucTimed")
userCommand(s)    == append(s, "userQuery") \/ append(s, "userVCard")
netJob(s)         == append(s, "job")
netWWW(s)         == append(s, "www")

-----------------------------------------------------------------------------
(* Answers that GluxiBot::handleIq() and handleVCard() pass to the plugin. *)

(* MucPlugin::onIq() and onVCard(): delete req; removeAll(req)             *)
mucAnswer(s) ==
  /\ MainIdle
  /\ s \in listed
  /\ kind[s] \in {"mucQuery", "mucTimed"}
  /\ Delete({s}, events)
  /\ UNCHANGED blocked

(* UserPlugin::onIq(), a result or an error: removeAll(req); delete req    *)
userIqResult(s) ==
  /\ MainIdle
  /\ s \in listed
  /\ kind[s] = "userQuery"
  /\ Delete({s}, events)
  /\ UNCHANGED blocked

(* UserPlugin::onIq() for a `get' that carries the id of one of its own    *)
(* requests, and every path of UserPlugin::onVCard(): removeAll(req) only. *)
userForget(s) ==
  /\ MainIdle
  /\ s \in listed
  /\ kind[s] \in {"userQuery", "userVCard"}
  /\ listed' = listed \ {s}
  /\ UNCHANGED <<kind, thread, timer, age, events, blocked>>

-----------------------------------------------------------------------------
(* Time.  A main thread that turns its event loop at least once a second   *)
(* has served the singleShot() timer before expired() can become true.     *)
Elapse(s) ==
  /\ kind[s] # "none"
  /\ \/ age[s] = "fresh" /\ age' = [age EXCEPT ![s] = "due"]
     \/ /\ age[s] = "due"
        /\ MainMayStall \/ ~timer[s]
        /\ age' = [age EXCEPT ![s] = "expired"]
  /\ UNCHANGED <<kind, thread, timer, listed, events, blocked>>

(* AsyncRequest::sltTimerTimeout(): onTimeout() goes to the plugin at once *)
(* (MucPlugin::sltVersionQueryTimeout), onFinished() is queued.            *)
sltTimerTimeout(s) ==
  /\ MainIdle
  /\ timer[s]
  /\ age[s] # "fresh"
  /\ timer' = [timer EXCEPT ![s] = FALSE]
  /\ events' = Append(events, Event("onFinished", s))
  /\ UNCHANGED <<kind, thread, age, listed, blocked>>

\* Mutant: "Skipping running thread" is missing.
onTimeoutOfAll ==
  LET dead == {s \in listed : age[s] = "expired"}
  IN  MainIdle /\ dead # {} /\ Delete(dead, events) /\ UNCHANGED blocked

\* Mutant: expired() without its second of grace.
onTimeoutEarly ==
  LET dead == {s \in listed : age[s] # "fresh" /\ ~isRunning(s)}
  IN  MainIdle /\ dead # {} /\ Delete(dead, events) /\ UNCHANGED blocked

\* Mutant: the test of isRunning() is the wrong way round.
onTimeoutOfRunning ==
  LET dead == {s \in listed : age[s] = "expired" /\ isRunning(s)}
  IN  MainIdle /\ dead # {} /\ Delete(dead, events) /\ UNCHANGED blocked

(* AsyncRequestList::onTimeout(), every minute.                            *)
onTimeout ==
  LET dead == {s \in listed : age[s] = "expired" /\ ~isRunning(s)}
  IN  /\ MainIdle
      /\ dead # {}
      /\ Delete(dead, events)
      /\ UNCHANGED blocked

(* The child process, the reply or the timer of a job is through.          *)
jobDone(s) ==
  /\ MainIdle
  /\ kind[s] = "job"
  /\ \A i \in DOMAIN events :
        events[i].type = "deleteLater" /\ events[i].req = s => events[i].stale
  /\ events' = Append(events, Event("deleteLater", s))
  /\ UNCHANGED <<kind, thread, timer, age, listed, blocked>>

-----------------------------------------------------------------------------
(* The thread of a WWWRequest.                                             *)
\* Mutant: run() reports that it is done before it does its work.
runLocksAndReports(s) ==
  /\ thread[s] = "started"
  /\ thread' = [thread EXCEPT ![s] = "locked"]
  /\ events' = Append(events, Event("onFinished", s))
  /\ UNCHANGED <<kind, timer, age, listed, blocked>>

runLocks(s) ==
  /\ thread[s] = "started"
  /\ thread' = [thread EXCEPT ![s] = "locked"]
  /\ UNCHANGED <<kind, timer, age, listed, events, blocked>>

runReturns(s) ==
  /\ thread[s] = "locked"
  /\ thread' = [thread EXCEPT ![s] = "returned"]
  /\ UNCHANGED <<kind, timer, age, listed, events, blocked>>

(* QThread marks itself finished and emits finished(), which is queued:    *)
(* the thread that emits is not the one the request lives in.              *)
threadEnds(s) ==
  /\ thread[s] = "returned"
  /\ thread' = [thread EXCEPT ![s] = "done"]
  /\ events' = Append(events, Event("sltThreadFinished", s))
  /\ UNCHANGED <<kind, timer, age, listed, blocked>>

-----------------------------------------------------------------------------
(* The main thread takes the first posted event.                           *)
Arrives(type) == MainIdle /\ events # <<>> /\ Head(events).type = type

(* AsyncRequest::sltThreadFinished(): emit onFinished(this), queued again  *)
sltThreadFinished ==
  /\ Arrives("sltThreadFinished")
  /\ events' = IF Head(events).stale
               THEN Tail(events)
               ELSE Append(Tail(events), Event("onFinished", Head(events).req))
  /\ UNCHANGED <<kind, thread, timer, age, listed, blocked>>

deferredDelete ==
  /\ Arrives("deleteLater")
  /\ Delete(IF Head(events).stale THEN {} ELSE {Head(events).req}, Tail(events))
  /\ UNCHANGED blocked

(* AsyncRequestList::onFinished(): "Thread is not registered"              *)
finishedUnknown ==
  /\ Arrives("onFinished")
  /\ Head(events).req \notin listed
  /\ events' = Tail(events)
  /\ UNCHANGED <<kind, thread, timer, age, listed, blocked>>

(* ... s->deleteMutex.lock() has to wait: the main thread stands still.    *)
finishedWaits ==
  /\ Arrives("onFinished")
  /\ Head(events).req \in listed
  /\ thread[Head(events).req] = "locked"
  /\ blocked' = TRUE
  /\ UNCHANGED <<kind, thread, timer, age, listed, events>>

\* Mutant: deleteMutex is not locked.
finishedDeletesAtOnce ==
  /\ Arrives("onFinished")
  /\ Head(events).req \in listed
  /\ Delete({Head(events).req}, Tail(events))
  /\ UNCHANGED blocked

(* ... it has the mutex: disconnect(), removeAll(s), delete s              *)
finishedDeletes ==
  /\ events # <<>> /\ Head(events).type = "onFinished"
  /\ Head(events).req \in listed
  /\ thread[Head(events).req] # "locked"
  /\ Delete({Head(events).req}, Tail(events))
  /\ blocked' = FALSE

-----------------------------------------------------------------------------
Create(s) == requestVCard(s) \/ requestVersion(s) \/ userCommand(s)
                \/ netJob(s) \/ netWWW(s)
Answer(s) == mucAnswer(s) \/ userIqResult(s) \/ userForget(s)
Worker(s) == runLocks(s) \/ runReturns(s) \/ threadEnds(s)
Timers(s) == Elapse(s) \/ sltTimerTimeout(s) \/ jobDone(s)
Dispatch  == \/ sltThreadFinished \/ deferredDelete
             \/ finishedUnknown \/ finishedWaits \/ finishedDeletes

Next == \/ \E s \in Slot : Create(s) \/ Answer(s) \/ Worker(s) \/ Timers(s)
        \/ onTimeout
        \/ Dispatch

Spec == Init /\ [][Next]_vars

(* The event loop and the scheduler are fair.  Nothing makes a remote host *)
(* answer, a child process end, or run() return: DirectProxy sets no       *)
(* timeout on its socket.                                                  *)
Fairness ==
  /\ WF_vars(Dispatch)
  /\ WF_vars(onTimeout)
  /\ \A s \in Slot : /\ WF_vars(Elapse(s))
                     /\ WF_vars(sltTimerTimeout(s))
                     /\ WF_vars(runLocks(s))
                     /\ WF_vars(threadEnds(s))

FairSpec == Spec /\ Fairness

-----------------------------------------------------------------------------
(* Every variable has its type.                                            *)
TypeOK ==
  /\ kind    \in [Slot -> Kinds \union {"none"}]
  /\ thread  \in [Slot -> ThreadStates]
  /\ timer   \in [Slot -> BOOLEAN]
  /\ age     \in [Slot -> Ages]
  /\ listed  \in SUBSET Slot
  /\ events  \in Seq(EventSet)
  /\ blocked \in BOOLEAN

(* The list never holds a dangling pointer, and a request that is alive    *)
(* but no longer listed was dropped by the user plugin, the only caller of *)
(* removeAll() without delete: no other path leaks a request.              *)
OwnedByList ==
  /\ listed \subseteq Live
  /\ \A s \in Live \ listed : kind[s] \in {"userQuery", "userVCard"}

(* onFinished() of a request that is gone does nothing ("Thread is not     *)
(* registered"): an event that outlived its request deletes no other one.  *)
(* The code looks for the pointer alone, so this fails as soon as the      *)
(* allocator returns an address that a queued event still names.           *)
StaleFinishedIsDropped ==
  [][Dispatch /\ Head(events).stale => UNCHANGED <<kind, listed>>]_vars

(* The main thread never waits for the deleteMutex of a request that has   *)
(* reported itself finished: its run() has returned by then.  It waits in  *)
(* onFinished() only when the event has outlived its request and a         *)
(* WWWRequest in the middle of run() has been given the address since.     *)
OwnEventNeverWaits == blocked => AddressReuse /\ Head(events).stale

(* What deleteMutex is for: no request is deleted under a run() that still *)
(* uses it, not even by an event of a request that had the same address.   *)
RunBodyKeepsRequest ==
  [][\A s \in Slot : thread[s] = "locked" => kind'[s] = kind[s]]_vars

(* The event at the head of the queue names s but was posted for another   *)
(* request, which had that address before.                                 *)
Misdirected(s) == AddressReuse /\ Head(events).req = s /\ Head(events).stale

(* A version query with a timeout ends in an answer or in onTimeout(), so  *)
(* the occupant it asked about is checked.  There are two exceptions: the  *)
(* minute timer of the list forestalls the timer of a query that has been  *)
(* due for a second, which takes a main thread that stood still meanwhile, *)
(* and onFinished() of a request that had the same address deletes it.     *)
TimeoutIsNotified ==
  [][\A s \in Slot : timer[s] /\ kind'[s] = "none" =>
        \/ mucAnswer(s)
        \/ onTimeout /\ age[s] = "expired" /\ MainMayStall
        \/ finishedDeletes /\ Misdirected(s)]_vars

(* Every request without a thread leaves the list, and so does a WWW       *)
(* request whose run() has returned: nothing is pending for ever, unless   *)
(* the main thread has come to wait for the run() of another request.      *)
Reaped ==
  \A s \in Slot :
    /\ s \in listed /\ kind[s] # "www" ~> s \notin listed \/ blocked
    /\ thread[s] = "returned" ~> s \notin listed \/ blocked

(* The list implements the pool its users see: a request is opened once,   *)
(* its thread works and finishes once, it is released only when no thread  *)
(* runs, and one that is still in use is lost only to a stray report.      *)
poolStatus == [s \in Slot |-> IF kind[s] = "none" THEN "free"
                              ELSE IF thread[s] = "locked" THEN "working"
                              ELSE IF isRunning(s) THEN thread[s] ELSE "quiet"]
Astray(queue) == {s \in Slot : \E i \in DOMAIN queue :
                    /\ queue[i].req = s
                    /\ queue[i].stale /\ queue[i].type = "onFinished"}
Pool == INSTANCE RequestPool WITH status <- poolStatus, stray <- Astray(events)
ImplementsPool == Pool!Spec
=============================================================================
