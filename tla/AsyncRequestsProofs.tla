------------------------ MODULE AsyncRequestsProofs ------------------------
(***************************************************************************)
(* Proofs about AsyncRequests, for any set of addresses.                   *)
(***************************************************************************)
EXTENDS AsyncRequests, TLAPS

(* Marking events as outlived keeps their number, order, type and request. *)
LEMMA OutliveLemma ==
  ASSUME NEW q \in Seq(EventSet), NEW S
  PROVE  /\ Outlive(q, S) \in Seq(EventSet)
         /\ Len(Outlive(q, S)) = Len(q)
         /\ DOMAIN Outlive(q, S) = DOMAIN q
         /\ \A i \in DOMAIN q :
              /\ Outlive(q, S)[i].type = q[i].type
              /\ Outlive(q, S)[i].req = q[i].req
              /\ Outlive(q, S)[i].stale = (q[i].stale \/ q[i].req \in S)
<1>1. \A i \in DOMAIN q : q[i] \in EventSet
  OBVIOUS
<1>2. \A i \in DOMAIN q :
        [q[i] EXCEPT !.stale = q[i].stale \/ q[i].req \in S] \in EventSet
  BY <1>1 DEF EventSet
<1>3. DOMAIN q = 1..Len(q) /\ Len(q) \in Nat
  OBVIOUS
<1>4. Outlive(q, S) \in [1..Len(q) -> EventSet]
  BY <1>2, <1>3 DEF Outlive
<1>5. Outlive(q, S) \in Seq(EventSet) /\ Len(Outlive(q, S)) = Len(q)
  BY <1>3, <1>4
<1>6. QED
  BY <1>1, <1>5, <1>3 DEF Outlive, EventSet

(* What is left after the first event has been taken.                      *)
LEMMA TailLemma ==
  ASSUME NEW q \in Seq(EventSet), q # <<>>
  PROVE  /\ Tail(q) \in Seq(EventSet)
         /\ Head(q) = q[1] /\ 1 \in DOMAIN q
         /\ Head(q) \in EventSet
         /\ \A i \in DOMAIN Tail(q) : i + 1 \in DOMAIN q /\ Tail(q)[i] = q[i + 1]
  OBVIOUS

(* A posted event comes last.                                              *)
LEMMA AppendLemma ==
  ASSUME NEW q \in Seq(EventSet), NEW e \in EventSet
  PROVE  /\ Append(q, e) \in Seq(EventSet)
         /\ \A i \in DOMAIN Append(q, e) :
              \/ i \in DOMAIN q /\ Append(q, e)[i] = q[i]
              \/ Append(q, e)[i] = e
  OBVIOUS

(* Deleting requests keeps the types.                                      *)
LEMMA DeleteType ==
  ASSUME TypeOK, NEW S, NEW q \in Seq(EventSet), Delete(S, q)
  PROVE  /\ kind' \in [Slot -> Kinds \union {"none"}]
         /\ thread' \in [Slot -> ThreadStates]
         /\ timer' \in [Slot -> BOOLEAN]
         /\ age' \in [Slot -> Ages]
         /\ listed' \in SUBSET Slot
         /\ events' \in Seq(EventSet)
<1>1. events' \in Seq(EventSet)
  BY OutliveLemma DEF Delete
<1>2. QED
  BY <1>1 DEF Delete, TypeOK, ThreadStates, Ages

LEMMA EventType ==
  ASSUME NEW t \in EventTypes, NEW s \in Slot
  PROVE  Event(t, s) \in EventSet
  BY DEF Event, EventSet

(* The type invariant.                                                     *)
THEOREM TypeCorrect == Spec => []TypeOK
<1>1. Init => TypeOK
  <2> SUFFICES ASSUME Init PROVE TypeOK
    OBVIOUS
  <2>1. events \in Seq(EventSet)
    BY DEF Init
  <2>2. QED
    BY <2>1 DEF Init, TypeOK, ThreadStates, Ages, Kinds
<1>2. TypeOK /\ [Next]_vars => TypeOK'
  <2> SUFFICES ASSUME TypeOK, [Next]_vars PROVE TypeOK'
    OBVIOUS
  <2>1. ASSUME NEW s \in Slot, Create(s) PROVE TypeOK'
    <3>1. PICK k \in Kinds : append(s, k)
      BY <2>1 DEF Create, requestVCard, requestVersion, userCommand, netJob,
                  netWWW, Kinds
    <3>2. QED
      BY <3>1 DEF append, TypeOK, ThreadStates, Ages
  <2>2. ASSUME NEW s \in Slot, mucAnswer(s) \/ userIqResult(s) PROVE TypeOK'
    BY <2>2, DeleteType DEF mucAnswer, userIqResult, TypeOK
  <2>3. ASSUME NEW s \in Slot, userForget(s) PROVE TypeOK'
    BY <2>3 DEF userForget, TypeOK
  <2>4. ASSUME NEW s \in Slot, runLocks(s) \/ runReturns(s) PROVE TypeOK'
    BY <2>4 DEF runLocks, runReturns, TypeOK, ThreadStates
  <2>5. ASSUME NEW s \in Slot, threadEnds(s) PROVE TypeOK'
    BY <2>5, EventType, AppendLemma
       DEF threadEnds, TypeOK, ThreadStates, EventTypes
  <2>6. ASSUME NEW s \in Slot, Elapse(s) PROVE TypeOK'
    BY <2>6 DEF Elapse, TypeOK, Ages
  <2>7. ASSUME NEW s \in Slot, sltTimerTimeout(s) \/ jobDone(s) PROVE TypeOK'
    <3>1. Event("onFinished", s) \in EventSet /\ Event("deleteLater", s) \in EventSet
      BY EventType DEF EventTypes
    <3>2. \E e \in EventSet : events' = Append(events, e)
      BY <2>7, <3>1 DEF sltTimerTimeout, jobDone
    <3>3. events' \in Seq(EventSet)
      BY <3>2, AppendLemma DEF TypeOK
    <3>4. QED
      BY <2>7, <3>3 DEF sltTimerTimeout, jobDone, TypeOK
  <2>8. CASE onTimeout
    BY <2>8, DeleteType DEF onTimeout, TypeOK
  <2>9. CASE sltThreadFinished
    <3>1. Tail(events) \in Seq(EventSet) /\ Head(events).req \in Slot
      BY <2>9, TailLemma DEF sltThreadFinished, Arrives, TypeOK, EventSet
    <3>2. events' \in Seq(EventSet)
      BY <2>9, <3>1, EventType, AppendLemma DEF sltThreadFinished, EventTypes
    <3>3. QED
      BY <2>9, <3>2 DEF sltThreadFinished, TypeOK
  <2>10. CASE deferredDelete
    <3>1. Tail(events) \in Seq(EventSet)
      BY <2>10, TailLemma DEF deferredDelete, Arrives, TypeOK
    <3>2. QED
      BY <2>10, <3>1, DeleteType DEF deferredDelete, TypeOK
  <2>11. CASE finishedUnknown
    BY <2>11, TailLemma DEF finishedUnknown, Arrives, TypeOK
  <2>12. CASE finishedWaits
    BY <2>12 DEF finishedWaits, TypeOK
  <2>13. CASE finishedDeletes
    <3>1. Tail(events) \in Seq(EventSet)
      BY <2>13, TailLemma DEF finishedDeletes, TypeOK
    <3>2. QED
      BY <2>13, <3>1, DeleteType DEF finishedDeletes, TypeOK
  <2>14. CASE UNCHANGED vars
    BY <2>14 DEF vars, TypeOK
  <2>15. QED
    BY <2>1, <2>2, <2>3, <2>4, <2>5, <2>6, <2>7, <2>8, <2>9, <2>10, <2>11,
       <2>12, <2>13, <2>14
       DEF Next, Create, Answer, Worker, Timers, Dispatch
<1>3. QED
  BY <1>1, <1>2, PTL DEF Spec

-----------------------------------------------------------------------------
(* The inductive invariant.  Only a WWWRequest has a thread, only a timed  *)
(* version query an armed timer ...                                        *)
Shape ==
  \A s \in Slot : /\ thread[s] # "idle" => kind[s] = "www"
                  /\ timer[s] => kind[s] = "mucTimed"
                  /\ ~MainMayStall /\ timer[s] => age[s] # "expired"

(* ... an event whose request still lives was posted by that request, when *)
(* its job was done, its timer had fired or its thread had ended ...       *)
Fits(e) ==
  ~e.stale => IF e.type = "deleteLater"
              THEN kind[e.req] = "job"
              ELSE \/ kind[e.req] = "www" /\ thread[e.req] = "done"
                   \/ kind[e.req] = "mucTimed" /\ ~timer[e.req]

EventsFit == \A i \in DOMAIN events : Fits(events[i])

(* ... and without reuse of addresses, nothing lives where a stale event   *)
(* points to.                                                              *)
Gone(e) == e.stale => kind[e.req] = "none"
StaleGone == ~AddressReuse => \A i \in DOMAIN events : Gone(events[i])

(* ... and the event the main thread waits in is a stale one, the first.   *)
Waits == blocked => events # <<>> /\ Head(events).stale /\ AddressReuse

IInv == TypeOK /\ Shape /\ OwnedByList /\ EventsFit /\ StaleGone /\ Waits

(* Deleting requests keeps everything but the last part of the invariant.  *)
LEMMA DeleteStep ==
  ASSUME IInv, NEW S, NEW q \in Seq(EventSet), Delete(S, q),
         \A i \in DOMAIN q : \E j \in DOMAIN events : q[i] = events[j]
  PROVE  Shape' /\ OwnedByList' /\ EventsFit' /\ StaleGone'
<1> USE DEF IInv
<1>1. Shape'
  BY DEF Delete, Shape, TypeOK
<1>2. OwnedByList'
  BY DEF Delete, OwnedByList, Live, TypeOK
<1>3. ASSUME NEW i \in DOMAIN events' PROVE Fits(events[i])' /\ (~AddressReuse => Gone(events[i])')
  <2>1. /\ i \in DOMAIN q /\ q[i] \in EventSet
        /\ events'[i].type = q[i].type
        /\ events'[i].req = q[i].req
        /\ events'[i].stale = (q[i].stale \/ q[i].req \in S)
    BY <1>3, OutliveLemma DEF Delete
  <2>2. PICK j \in DOMAIN events : q[i] = events[j]
    BY <2>1
  <2>3. Fits(q[i]) /\ (~AddressReuse => Gone(q[i]))
    BY <2>2 DEF EventsFit, StaleGone
  <2>4. q[i].req \in Slot
    BY <2>1 DEF EventSet
  <2>5. Fits(events[i])'
    BY <2>1, <2>3, <2>4 DEF Fits, Delete, TypeOK
  <2>6. ~AddressReuse => Gone(events[i])'
    BY <2>1, <2>3, <2>4 DEF Gone, Delete, TypeOK
  <2>7. QED
    BY <2>5, <2>6
<1>4. QED
  BY <1>1, <1>2, <1>3 DEF EventsFit, StaleGone

(* A step that neither creates nor deletes keeps the events in order, if   *)
(* what it posts fits and it lets no timer be armed and no thread go back. *)
LEMMA PostStep ==
  ASSUME IInv, kind' = kind,
         \A s \in Slot : timer[s]' => timer[s],
         \A s \in Slot : thread[s] = "done" => thread'[s] = "done",
         NEW q \in Seq(EventSet),
         \A i \in DOMAIN q : \E j \in DOMAIN events : q[i] = events[j],
         \/ events' = q
         \/ \E e \in EventSet : /\ events' = Append(q, e)
                                /\ ~e.stale /\ Fits(e)'
  PROVE  EventsFit' /\ StaleGone'
<1> USE DEF IInv
<1>1. ASSUME NEW i \in DOMAIN q PROVE Fits(q[i])' /\ (~AddressReuse => Gone(q[i])')
  <2>1. PICK j \in DOMAIN events : q[i] = events[j]
    BY <1>1
  <2>2. Fits(events[j]) /\ (~AddressReuse => Gone(events[j]))
    BY DEF EventsFit, StaleGone
  <2>3. events[j].req \in Slot
    <3>1. events[j] \in EventSet
      BY <2>1 DEF TypeOK
    <3>2. QED
      BY <3>1 DEF EventSet
  <2>4. QED
    BY <2>1, <2>2, <2>3 DEF Fits, Gone
<1>2. CASE events' = q
  BY <1>1, <1>2 DEF EventsFit, StaleGone
<1>3. ASSUME NEW e \in EventSet, events' = Append(q, e), ~e.stale, Fits(e)'
      PROVE  EventsFit' /\ StaleGone'
  <2>1. ASSUME NEW i \in DOMAIN events'
        PROVE  Fits(events[i])' /\ (~AddressReuse => Gone(events[i])')
    <3>1. CASE i \in DOMAIN q /\ events'[i] = q[i]
      BY <3>1, <1>1 DEF Fits, Gone
    <3>2. CASE events'[i] = e
      BY <3>2, <1>3 DEF Fits, Gone
    <3>3. QED
      BY <3>1, <3>2, <1>3, <2>1, AppendLemma
  <2>2. QED
    BY <2>1 DEF EventsFit, StaleGone
<1>4. QED
  BY <1>2, <1>3

LEMMA IInvInit == Init => IInv
<1> SUFFICES ASSUME Init PROVE IInv
  OBVIOUS
<1>1. events \in Seq(EventSet) /\ DOMAIN events = {}
  BY DEF Init
<1>2. TypeOK
  BY <1>1 DEF Init, TypeOK, ThreadStates, Ages, Kinds
<1>3. Shape /\ OwnedByList /\ Waits
  BY DEF Init, Shape, OwnedByList, Live, Waits, MainIdle
<1>4. EventsFit /\ StaleGone
  BY <1>1 DEF EventsFit, StaleGone
<1>5. QED
  BY <1>2, <1>3, <1>4 DEF IInv

(* One step per handler of the main thread, per step of a worker thread.   *)
LEMMA IInvNext == IInv /\ TypeOK' /\ [Next]_vars => IInv'
<1> SUFFICES ASSUME IInv, TypeOK', [Next]_vars PROVE IInv'
  OBVIOUS
<1> USE DEF IInv
<1>0. /\ events \in Seq(EventSet)
      /\ \A i \in DOMAIN events : events[i] \in EventSet
      /\ \A i \in DOMAIN events : \E j \in DOMAIN events : events[i] = events[j]
  BY DEF TypeOK
<1>a. ASSUME events # <<>>
      PROVE  /\ Tail(events) \in Seq(EventSet)
             /\ \A i \in DOMAIN Tail(events) : \E j \in DOMAIN events :
                  Tail(events)[i] = events[j]
             /\ Head(events) \in EventSet /\ Head(events).req \in Slot
             /\ Fits(Head(events)) /\ (~AddressReuse => Gone(Head(events)))
  <2>1. Head(events) \in EventSet /\ Head(events) = events[1] /\ 1 \in DOMAIN events
    BY <1>0, <1>a, TailLemma
  <2>2. QED
    BY <1>0, <1>a, <2>1, TailLemma DEF EventSet, EventsFit, StaleGone
<1>1. ASSUME NEW s \in Slot, Create(s) PROVE IInv'
  <2>1. PICK k \in Kinds : append(s, k)
    BY <1>1 DEF Create, requestVCard, requestVersion, userCommand, netJob,
                netWWW, Kinds
  <2>2. Shape' /\ OwnedByList' /\ Waits'
    BY <2>1 DEF append, Addressable, Shape, OwnedByList, Live, Waits, MainIdle,
                TypeOK, Kinds
  <2>3. ASSUME NEW i \in DOMAIN events
        PROVE  Fits(events[i])' /\ (~AddressReuse => Gone(events[i])')
    <3>1. events[i].req \in Slot
      BY <1>0 DEF EventSet
    <3>2. Fits(events[i]) /\ (~AddressReuse => Gone(events[i]))
      BY DEF EventsFit, StaleGone
    <3>3. /\ ~AddressReuse => events[i].req # s
          /\ kind[s] = "none" /\ events' = events
      BY <2>1 DEF append, Addressable
    <3>4. QED
      BY <2>1, <3>1, <3>2, <3>3 DEF append, Fits, Gone, TypeOK
  <2>4. EventsFit' /\ StaleGone'
    BY <2>1, <2>3 DEF EventsFit, StaleGone, append
  <2>5. QED
    BY <2>2, <2>4
<1>2. ASSUME NEW s \in Slot, mucAnswer(s) \/ userIqResult(s) PROVE IInv'
  BY <1>0, <1>2, DeleteStep DEF mucAnswer, userIqResult, Waits, MainIdle
<1>3. ASSUME NEW s \in Slot, userForget(s) PROVE IInv'
  <2>1. Shape' /\ OwnedByList' /\ Waits'
    BY <1>3 DEF userForget, Shape, OwnedByList, Live, Waits, MainIdle
  <2>2. EventsFit' /\ StaleGone'
    BY <1>0, <1>3, PostStep DEF userForget
  <2>3. QED
    BY <2>1, <2>2
<1>4. ASSUME NEW s \in Slot, runLocks(s) \/ runReturns(s) PROVE IInv'
  <2>1. Shape' /\ OwnedByList' /\ Waits'
    BY <1>4 DEF runLocks, runReturns, Shape, OwnedByList, Live, Waits, MainIdle, TypeOK
  <2>2. EventsFit' /\ StaleGone'
    BY <1>0, <1>4, PostStep DEF runLocks, runReturns, TypeOK
  <2>3. QED
    BY <2>1, <2>2
<1>5. ASSUME NEW s \in Slot, threadEnds(s) PROVE IInv'
  <2>1. Shape' /\ OwnedByList' /\ Waits'
    BY <1>5 DEF threadEnds, Shape, OwnedByList, Live, Waits, MainIdle, TypeOK
  <2> DEFINE e == Event("sltThreadFinished", s)
  <2>2. e \in EventSet /\ ~e.stale /\ e.req = s /\ e.type = "sltThreadFinished"
    BY EventType DEF EventTypes, Event
  <2>3. Fits(e)'
    BY <1>5, <2>2 DEF threadEnds, Fits, Shape, TypeOK
  <2>4. EventsFit' /\ StaleGone'
    <3>1. events' = Append(events, e)
      BY <1>5 DEF threadEnds
    <3>2. /\ kind' = kind /\ timer' = timer
          /\ \A t \in Slot : thread[t] = "done" => thread'[t] = "done"
      BY <1>5 DEF threadEnds, TypeOK
    <3>3. QED
      BY <1>0, <2>2, <2>3, <3>1, <3>2, PostStep
  <2>5. QED
    BY <2>1, <2>4
<1>6. ASSUME NEW s \in Slot, Elapse(s) PROVE IInv'
  <2>1. Shape' /\ OwnedByList' /\ Waits'
    BY <1>6 DEF Elapse, Shape, OwnedByList, Live, Waits, MainIdle, TypeOK
  <2>2. EventsFit' /\ StaleGone'
    BY <1>0, <1>6, PostStep DEF Elapse
  <2>3. QED
    BY <2>1, <2>2
<1>7. ASSUME NEW s \in Slot, sltTimerTimeout(s) PROVE IInv'
  <2>1. Shape' /\ OwnedByList' /\ Waits'
    BY <1>7 DEF sltTimerTimeout, Shape, OwnedByList, Live, Waits, MainIdle, TypeOK
  <2> DEFINE e == Event("onFinished", s)
  <2>2. e \in EventSet /\ ~e.stale /\ e.req = s /\ e.type = "onFinished"
    BY EventType DEF EventTypes, Event
  <2>3. Fits(e)'
    BY <1>7, <2>2 DEF sltTimerTimeout, Fits, Shape, TypeOK
  <2>4. EventsFit' /\ StaleGone'
    <3>1. events' = Append(events, e)
      BY <1>7 DEF sltTimerTimeout
    <3>2. /\ kind' = kind /\ thread' = thread
          /\ \A t \in Slot : timer'[t] => timer[t]
      BY <1>7 DEF sltTimerTimeout, TypeOK
    <3>3. QED
      BY <1>0, <2>2, <2>3, <3>1, <3>2, PostStep
  <2>5. QED
    BY <2>1, <2>4
<1>8. ASSUME NEW s \in Slot, jobDone(s) PROVE IInv'
  <2>1. Shape' /\ OwnedByList' /\ Waits'
    BY <1>8 DEF jobDone, Shape, OwnedByList, Live, Waits, MainIdle
  <2> DEFINE e == Event("deleteLater", s)
  <2>2. e \in EventSet /\ ~e.stale /\ e.req = s /\ e.type = "deleteLater"
    BY EventType DEF EventTypes, Event
  <2>3. Fits(e)'
    BY <1>8, <2>2 DEF jobDone, Fits
  <2>4. EventsFit' /\ StaleGone'
    <3>1. /\ events' = Append(events, e)
          /\ kind' = kind /\ thread' = thread /\ timer' = timer
      BY <1>8 DEF jobDone
    <3>2. QED
      BY <1>0, <2>2, <2>3, <3>1, PostStep
  <2>5. QED
    BY <2>1, <2>4
<1>9. CASE onTimeout
  BY <1>0, <1>9, DeleteStep DEF onTimeout, Waits, MainIdle
<1>10. CASE sltThreadFinished
  <2>1. events # <<>>
    BY <1>10 DEF sltThreadFinished, Arrives
  <2>2. Shape' /\ OwnedByList' /\ Waits'
    BY <1>10 DEF sltThreadFinished, Arrives, Shape, OwnedByList, Live, Waits, MainIdle
  <2>r. PICK r \in Slot : r = Head(events).req
    BY <1>a, <2>1
  <2> DEFINE e == Event("onFinished", r)
  <2>3. e \in EventSet /\ ~e.stale /\ e.req = r /\ e.type = "onFinished"
    BY EventType DEF EventTypes, Event
  <2>4. CASE Head(events).stale
    BY <1>a, <1>10, <2>1, <2>2, <2>4, PostStep DEF sltThreadFinished
  <2>5. CASE ~Head(events).stale
    <3>1. /\ events' = Append(Tail(events), e)
          /\ kind' = kind /\ thread' = thread /\ timer' = timer
      BY <1>10, <2>5, <2>r DEF sltThreadFinished
    <3>2. Fits(e)'
      BY <1>a, <1>10, <2>1, <2>r, <2>3, <2>5, <3>1 DEF Fits, sltThreadFinished, Arrives
    <3>3. EventsFit' /\ StaleGone'
      BY <1>a, <2>1, <2>3, <3>1, <3>2, PostStep
    <3>4. QED
      BY <2>2, <3>3
  <2>6. QED
    BY <2>4, <2>5
<1>11. CASE deferredDelete
  BY <1>a, <1>11, DeleteStep DEF deferredDelete, Arrives, Waits, MainIdle
<1>12. CASE finishedUnknown
  <2>1. Shape' /\ OwnedByList' /\ Waits'
    BY <1>12 DEF finishedUnknown, Arrives, Shape, OwnedByList, Live, Waits,
                 MainIdle
  <2>2. EventsFit' /\ StaleGone'
    BY <1>a, <1>12, PostStep DEF finishedUnknown, Arrives
  <2>3. QED
    BY <2>1, <2>2
<1>13. CASE finishedWaits
  <2>1. events # <<>> /\ Head(events).type = "onFinished" /\ Head(events).req \in listed
        /\ thread[Head(events).req] = "locked"
    BY <1>13 DEF finishedWaits, Arrives
  <2>2. Head(events).stale
    BY <1>a, <2>1 DEF Fits, Shape
  <2>3. AddressReuse
    BY <1>a, <2>1, <2>2 DEF Gone, OwnedByList, Live
  <2>4. Shape' /\ OwnedByList' /\ Waits'
    BY <1>13, <2>1, <2>2, <2>3 DEF finishedWaits, Shape, OwnedByList, Live, Waits
  <2>5. EventsFit' /\ StaleGone'
    BY <1>0, <1>13, PostStep DEF finishedWaits
  <2>6. QED
    BY <2>4, <2>5
<1>14. CASE finishedDeletes
  BY <1>a, <1>14, DeleteStep DEF finishedDeletes, Waits
<1>15. CASE UNCHANGED vars
  BY <1>15 DEF vars, Shape, OwnedByList, Live, EventsFit, Fits, StaleGone, Gone,
               Waits
<1>16. QED
  BY <1>1, <1>2, <1>3, <1>4, <1>5, <1>6, <1>7, <1>8, <1>9, <1>10, <1>11,
     <1>12, <1>13, <1>14, <1>15
     DEF Next, Create, Answer, Worker, Timers, Dispatch

THEOREM Invariance == Spec => []IInv
<1>1. Spec => []TypeOK
  BY TypeCorrect
<1>2. QED
  BY <1>1, IInvInit, IInvNext, PTL DEF Spec

(* The list never dangles, and only the user plugin leaks, whatever the    *)
(* allocator does.                                                         *)
THEOREM ListOwnsRequests == Spec => []OwnedByList
<1>1. IInv => OwnedByList
  BY DEF IInv
<1>2. QED
  BY <1>1, Invariance, PTL

(* No request is deleted under its run(), whatever the allocator does.     *)
THEOREM RunBodyIsSafe == Spec => RunBodyKeepsRequest
<1>1. IInv /\ [Next]_vars =>
        [\A s \in Slot : thread[s] = "locked" => kind'[s] = kind[s]]_vars
  <2> SUFFICES ASSUME IInv, Next, NEW t \in Slot, thread[t] = "locked"
               PROVE  kind'[t] = kind[t]
    OBVIOUS
  <2>0. kind[t] = "www" /\ isRunning(t)
    BY DEF IInv, Shape, isRunning
  <2>a. ASSUME events # <<>>
        PROVE  Head(events).req \in Slot /\ Fits(Head(events))
    <3>1. events[1] = Head(events) /\ 1 \in DOMAIN events /\ events[1] \in EventSet
      BY <2>a, TailLemma DEF IInv, TypeOK
    <3>2. QED
      BY <3>1 DEF IInv, EventsFit, EventSet
  <2>1. ASSUME NEW s \in Slot, Create(s) PROVE kind'[t] = kind[t]
    BY <2>0, <2>1 DEF Create, requestVCard, requestVersion, userCommand,
       netJob, netWWW, append, Addressable, IInv, TypeOK
  <2>2. ASSUME NEW s \in Slot, Answer(s) PROVE kind'[t] = kind[t]
    BY <2>0, <2>2 DEF Answer, mucAnswer, userIqResult, userForget, Delete
  <2>3. CASE onTimeout
    BY <2>0, <2>3 DEF onTimeout, Delete
  <2>4. CASE deferredDelete
    BY <2>0, <2>a, <2>4 DEF deferredDelete, Arrives, Delete, Fits
  <2>5. CASE finishedDeletes
    BY <2>5 DEF finishedDeletes, Delete
  <2>6. CASE \/ \E s \in Slot : Worker(s) \/ Timers(s)
             \/ sltThreadFinished \/ finishedUnknown \/ finishedWaits
    BY <2>6 DEF Worker, runLocks, runReturns, threadEnds, Timers, Elapse,
       sltTimerTimeout, jobDone, sltThreadFinished, finishedUnknown, finishedWaits
  <2>7. QED
    BY <2>1, <2>2, <2>3, <2>4, <2>5, <2>6 DEF Next, Dispatch
<1>2. QED
  BY <1>1, Invariance, PTL DEF Spec, RunBodyKeepsRequest

(* The main thread waits for a worker only in an event that has outlived   *)
(* its request, at an address that a WWWRequest has been given since.      *)
THEOREM OwnEventsDoNotBlock == Spec => []OwnEventNeverWaits
<1>1. IInv => OwnEventNeverWaits
  BY DEF IInv, Waits, OwnEventNeverWaits
<1>2. QED
  BY <1>1, Invariance, PTL

(* The request of the first event, if it is still listed, is the one the   *)
(* event was posted for.                                                   *)
LEMMA HeadFits ==
  ASSUME IInv, events # <<>>
  PROVE  /\ Head(events).req \in Slot
         /\ Fits(Head(events))
         /\ ~AddressReuse /\ Head(events).req \in listed => ~Head(events).stale
<1>1. events[1] = Head(events) /\ 1 \in DOMAIN events /\ events[1] \in EventSet
  BY TailLemma DEF IInv, TypeOK
<1>2. Fits(Head(events)) /\ (~AddressReuse => Gone(Head(events)))
  BY <1>1 DEF IInv, EventsFit, StaleGone
<1>3. QED
  BY <1>1, <1>2 DEF EventSet, Gone, IInv, OwnedByList, Live

(* The occupant whose version was asked with a timeout is checked, unless  *)
(* the main thread stood still and the minute timer of the list came       *)
(* first, or an event of another request deleted the query.                *)
THEOREM TimeoutsAreNotified == Spec => TimeoutIsNotified
<1>1. IInv /\ [Next]_vars =>
        [\A s \in Slot : timer[s] /\ kind'[s] = "none" =>
            \/ mucAnswer(s)
            \/ onTimeout /\ age[s] = "expired" /\ MainMayStall
            \/ finishedDeletes /\ Misdirected(s)]_vars
  <2> DEFINE Forestalled(t) == onTimeout /\ age[t] = "expired" /\ MainMayStall
             Lost(t) == finishedDeletes /\ Misdirected(t)
  <2> SUFFICES ASSUME IInv, Next, NEW t \in Slot, timer[t], kind'[t] = "none"
               PROVE  mucAnswer(t) \/ Forestalled(t) \/ Lost(t)
    OBVIOUS
  <2>0. kind[t] = "mucTimed" /\ (age[t] = "expired" => MainMayStall)
    BY DEF IInv, Shape
  <2>1. ASSUME NEW s \in Slot, Create(s) PROVE FALSE
    BY <2>0, <2>1 DEF Create, requestVCard, requestVersion, userCommand,
       netJob, netWWW, append, Addressable, IInv, TypeOK
  <2>2. ASSUME NEW s \in Slot, Answer(s) PROVE mucAnswer(t)
    BY <2>0, <2>2 DEF Answer, mucAnswer, userIqResult, userForget, Delete
  <2>3. CASE onTimeout
    <3>1. t \in listed /\ age[t] = "expired"
      BY <2>0, <2>3 DEF onTimeout, Delete
    <3>2. QED
      BY <2>0, <2>3, <3>1
  <2>4. CASE deferredDelete
    BY <2>0, <2>4, HeadFits DEF deferredDelete, Arrives, Delete, Fits
  <2>5. CASE finishedDeletes
    <3>1. events # <<>> /\ Head(events).type = "onFinished"
          /\ Head(events).req \in listed /\ Head(events).req = t
      BY <2>0, <2>5 DEF finishedDeletes, Delete
    <3>2. Head(events).stale /\ AddressReuse
      BY <2>0, <3>1, HeadFits DEF Fits
    <3>3. QED
      BY <2>5, <3>1, <3>2 DEF Misdirected
  <2>6. CASE \/ \E s \in Slot : Worker(s) \/ Timers(s)
             \/ sltThreadFinished \/ finishedUnknown \/ finishedWaits
    BY <2>0, <2>6 DEF Worker, runLocks, runReturns, threadEnds, Timers, Elapse,
       sltTimerTimeout, jobDone, sltThreadFinished, finishedUnknown, finishedWaits
  <2>7. QED
    BY <2>1, <2>2, <2>3, <2>4, <2>5, <2>6 DEF Next, Dispatch
<1>2. QED
  BY <1>1, Invariance, PTL DEF Spec, TimeoutIsNotified

(* A report gets astray when its request is deleted, no other way ...      *)
LEMMA OutliveStray ==
  ASSUME NEW q \in Seq(EventSet), NEW S
  PROVE  /\ Astray(q) \subseteq Astray(Outlive(q, S))
         /\ Astray(Outlive(q, S)) \subseteq Astray(q) \union S
<1> DEFINE o == Outlive(q, S)
<1>1. /\ DOMAIN o = DOMAIN q
      /\ \A i \in DOMAIN q : /\ o[i].type = q[i].type /\ o[i].req = q[i].req
                             /\ o[i].stale = (q[i].stale \/ q[i].req \in S)
  BY OutliveLemma
<1> HIDE DEF o
<1>2. ASSUME NEW s \in Astray(q) PROVE s \in Astray(o)
  <2>1. PICK i \in DOMAIN q : q[i].req = s /\ q[i].stale /\ q[i].type = "onFinished"
    BY <1>2 DEF Astray
  <2>2. i \in DOMAIN o /\ o[i].req = s /\ o[i].stale /\ o[i].type = "onFinished"
    BY <1>1, <2>1
  <2>3. QED
    BY <1>2, <2>2 DEF Astray
<1>3. ASSUME NEW s \in Astray(o) PROVE s \in Astray(q) \/ s \in S
  <2>1. PICK i \in DOMAIN o : o[i].req = s /\ o[i].stale /\ o[i].type = "onFinished"
    BY <1>3 DEF Astray
  <2>2. i \in DOMAIN q /\ q[i].req = s /\ q[i].type = "onFinished"
        /\ (q[i].stale \/ s \in S)
    BY <1>1, <2>1
  <2>3. QED
    BY <1>3, <2>2 DEF Astray
<1>4. QED
  BY <1>2, <1>3 DEF o

(* ... and neither posting a report nor taking one from the queue does it. *)
LEMMA AppendStray ==
  ASSUME NEW q \in Seq(EventSet), NEW e \in EventSet, ~e.stale
  PROVE  Astray(Append(q, e)) = Astray(q)
<1>1. \A i \in DOMAIN q : i \in DOMAIN Append(q, e) /\ Append(q, e)[i] = q[i]
  OBVIOUS
<1>2. \A i \in DOMAIN Append(q, e) :
        (i \in DOMAIN q /\ Append(q, e)[i] = q[i]) \/ ~Append(q, e)[i].stale
  BY AppendLemma
<1>3. QED
  BY <1>1, <1>2 DEF Astray

LEMMA TailStray ==
  ASSUME NEW q \in Seq(EventSet), q # <<>>
  PROVE  Astray(q) = Astray(Tail(q)) \union
           IF Head(q).stale /\ Head(q).type = "onFinished"
           THEN {Head(q).req} ELSE {}
<1>1. \A i \in DOMAIN Tail(q) : i + 1 \in DOMAIN q /\ Tail(q)[i] = q[i + 1]
  BY TailLemma
<1>2. \A i \in DOMAIN q : i = 1 \/ (i - 1 \in DOMAIN Tail(q) /\ Tail(q)[i - 1] = q[i])
  OBVIOUS
<1>3. Head(q) = q[1] /\ 1 \in DOMAIN q /\ Head(q).req \in Slot
  BY TailLemma DEF EventSet
<1>4. ASSUME NEW s \in Astray(q)
      PROVE  \/ s \in Astray(Tail(q))
             \/ Head(q).stale /\ Head(q).type = "onFinished" /\ s = Head(q).req
  <2>1. PICK i \in DOMAIN q : q[i].req = s /\ q[i].stale /\ q[i].type = "onFinished"
    BY <1>4 DEF Astray
  <2>2. CASE i = 1
    BY <1>3, <2>1, <2>2
  <2>3. CASE i # 1
    BY <1>2, <1>4, <2>1, <2>3 DEF Astray
  <2>4. QED
    BY <2>2, <2>3
<1>5. ASSUME NEW s \in Astray(Tail(q)) PROVE s \in Astray(q)
  BY <1>1 DEF Astray
<1>6. Head(q).stale /\ Head(q).type = "onFinished" => Head(q).req \in Astray(q)
  BY <1>3 DEF Astray
<1>7. QED
  BY <1>4, <1>5, <1>6

(* Deleting requests whose threads do not run is a Release of the pool.    *)
LEMMA DeleteReleases ==
  ASSUME TypeOK, NEW S \in SUBSET Slot, NEW q \in Seq(EventSet), Delete(S, q),
         Astray(q) = Astray(events),
         \A s \in S : kind[s] # "none" /\ ~isRunning(s)
  PROVE  Pool!Release(S)
<1>1. /\ Astray(events) \subseteq Astray(events)'
      /\ Astray(events)' \subseteq Astray(events) \union S
  <2>1. events' = Outlive(q, S)
    BY DEF Delete
  <2>2. Astray(events)' = Astray(Outlive(q, S))
    BY <2>1 DEF Astray
  <2>3. QED
    BY <2>2, OutliveStray
<1>2. \A s \in S : poolStatus[s] = "quiet"
  BY DEF poolStatus, isRunning
<1>3. poolStatus' = [s \in Slot |-> IF s \in S THEN "free" ELSE poolStatus[s]]
  BY DEF Delete, TypeOK, poolStatus, isRunning
<1>4. QED
  BY <1>1, <1>2, <1>3 DEF Pool!Release

(* The list refines the pool, whatever the allocator does: a request is    *)
(* released when its thread does not run, and otherwise is lost to a       *)
(* report of another one, outside its run().                               *)
THEOREM PoolRefinement == Spec => ImplementsPool
<1>1. Init => Pool!Init
  <2>1. ASSUME Init PROVE Astray(events) = {}
    BY <2>1 DEF Init, Astray
  <2>2. QED
    BY <2>1 DEF Init, Pool!Init, poolStatus
<1>2. IInv /\ [Next]_vars => [Pool!Next]_<<poolStatus, Astray(events)>>
  <2> SUFFICES ASSUME IInv, [Next]_vars
               PROVE  \/ Pool!Next
                      \/ poolStatus' = poolStatus /\ Astray(events)' = Astray(events)
    OBVIOUS
  <2> USE DEF IInv
  <2>0. listed \subseteq Live /\ Live \subseteq Slot /\ events \in Seq(EventSet)
    BY DEF OwnedByList, Live, TypeOK
  <2>a. events' = events => Astray(events)' = Astray(events)
    BY DEF Astray
  <2>b. ASSUME NEW e \in EventSet, ~e.stale, events' = Append(events, e)
        PROVE  Astray(events)' = Astray(events)
    <3>1. Astray(events)' = Astray(Append(events, e))
      BY <2>b DEF Astray
    <3>2. QED
      BY <2>0, <2>b, <3>1, AppendStray
  <2>c. ASSUME events # <<>>
        PROVE  /\ Tail(events) \in Seq(EventSet)
               /\ Astray(events) = Astray(Tail(events)) \union
                    IF Head(events).stale /\ Head(events).type = "onFinished"
                    THEN {Head(events).req} ELSE {}
               /\ Head(events).req \in Slot
    BY <2>0, <2>c, TailLemma, TailStray, HeadFits
  <2>1. ASSUME NEW s \in Slot, Create(s) PROVE Pool!Open(s)
    <3>1. PICK k \in Kinds : append(s, k)
      BY <2>1 DEF Create, requestVCard, requestVersion, userCommand, netJob,
                  netWWW, Kinds
    <3>2. poolStatus[s] = "free"
      BY <3>1 DEF append, Addressable, poolStatus
    <3>3. poolStatus' = [poolStatus EXCEPT ![s] = IF k = "www" THEN "started" ELSE "quiet"]
      BY <3>1 DEF append, poolStatus, isRunning, TypeOK, Kinds
    <3>4. AddressReuse \/ s \notin Astray(events)
      BY <3>1 DEF append, Addressable, Astray
    <3>5. Astray(events)' = Astray(events)
      BY <3>1, <2>a DEF append
    <3>6. QED
      BY <3>2, <3>3, <3>4, <3>5 DEF Pool!Open
  <2>2. ASSUME NEW s \in Slot, mucAnswer(s) \/ userIqResult(s)
        PROVE  Pool!Release({s})
    BY <2>0, <2>2, DeleteReleases DEF mucAnswer, userIqResult, Shape, isRunning
  <2>3. ASSUME NEW s \in Slot, Worker(s) PROVE Pool!Thread(s)
    <3>0. kind[s] = "www" \/ thread[s] = "idle"
      BY DEF Shape
    <3>1. CASE runLocks(s) \/ runReturns(s)
      BY <3>0, <3>1, <2>a DEF runLocks, runReturns, TypeOK, poolStatus, isRunning,
         Pool!Thread, Pool!Turns
    <3>2. CASE threadEnds(s)
      <4>1. Astray(events)' = Astray(events)
        BY <3>2, <2>b, EventType DEF threadEnds, EventTypes, Event
      <4>2. poolStatus[s] = "returned" /\ poolStatus' = [poolStatus EXCEPT ![s] = "quiet"]
        BY <3>0, <3>2 DEF threadEnds, TypeOK, poolStatus, isRunning
      <4>3. QED
        BY <4>1, <4>2 DEF Pool!Thread, Pool!Turns
    <3>3. QED
      BY <2>3, <3>1, <3>2 DEF Worker
  <2>4. CASE onTimeout
    BY <2>0, <2>4, DeleteReleases DEF onTimeout, Live, Pool!Next
  <2>5. CASE deferredDelete
    <3>1. events # <<>> /\ Head(events).type = "deleteLater"
      BY <2>5 DEF deferredDelete, Arrives
    <3> DEFINE S == IF Head(events).stale THEN {} ELSE {Head(events).req}
    <3>2. S \in SUBSET Slot /\ \A s \in S : kind[s] # "none" /\ ~isRunning(s)
      BY <3>1, HeadFits DEF Fits, Shape, isRunning
    <3>3. Pool!Release(S)
      BY <2>5, <2>c, <3>1, <3>2, DeleteReleases DEF deferredDelete
    <3>4. QED
      BY <3>2, <3>3 DEF Pool!Next
  <2>6. CASE finishedDeletes
    <3> DEFINE r == Head(events).req
    <3>1. /\ events # <<>> /\ Head(events).type = "onFinished"
          /\ r \in listed /\ r \in Slot /\ thread[r] # "locked"
          /\ Delete({r}, Tail(events))
      BY <2>6, <2>c DEF finishedDeletes
    <3>2. CASE ~Head(events).stale
      <4>1. kind[r] # "none" /\ ~isRunning(r)
        BY <3>1, <3>2, HeadFits DEF Fits, Shape, isRunning
      <4>2. Pool!Release({r})
        BY <2>c, <3>1, <3>2, <4>1, DeleteReleases
      <4>3. QED
        BY <3>1, <4>2 DEF Pool!Next
    <3>3. CASE Head(events).stale
      <4>1. Astray(events) = Astray(Tail(events)) \union {r}
        BY <2>c, <3>1, <3>3
      <4>2. Astray(events)' = Astray(Outlive(Tail(events), {r}))
        BY <3>1 DEF Delete, Astray
      <4>3. /\ Astray(Tail(events)) \subseteq Astray(events)'
            /\ Astray(events)' \subseteq Astray(Tail(events)) \union {r}
        BY <2>c, <3>1, <4>2, OutliveStray
      <4>4. \/ Astray(events)' = Astray(events)
            \/ Astray(events)' = Astray(events) \ {r}
        BY <4>1, <4>3
      <4>5. poolStatus[r] \in {"quiet", "started", "returned"}
        BY <2>0, <3>1 DEF poolStatus, isRunning, Live
      <4>6. poolStatus' = [poolStatus EXCEPT ![r] = "free"]
        BY <3>1 DEF Delete, poolStatus, isRunning, TypeOK
      <4>7. r \in Astray(events)
        BY <4>1
      <4>8. Pool!Hits(r)
        BY <4>4, <4>5, <4>6, <4>7 DEF Pool!Hits
      <4>9. QED
        BY <3>1, <4>8 DEF Pool!Next
    <3>4. QED
      BY <3>2, <3>3
  <2>7. CASE finishedUnknown
    <3>1. events # <<>> /\ events' = Tail(events) /\ poolStatus' = poolStatus
      BY <2>7 DEF finishedUnknown, Arrives, poolStatus, isRunning
    <3>2. Astray(events)' = Astray(Tail(events))
      BY <3>1 DEF Astray
    <3>3. \/ Astray(events)' = Astray(events)
          \/ Astray(events)' = Astray(events) \ {Head(events).req}
      BY <2>c, <3>1, <3>2
    <3>4. QED
      BY <2>c, <3>1, <3>3 DEF Pool!Next, Pool!Misses
  <2>8. ASSUME NEW s \in Slot, userForget(s) \/ Timers(s)
        PROVE  poolStatus' = poolStatus /\ Astray(events)' = Astray(events)
    <3>1. poolStatus' = poolStatus
      BY <2>8 DEF userForget, Timers, Elapse, sltTimerTimeout, jobDone,
         poolStatus, isRunning
    <3>2. CASE userForget(s) \/ Elapse(s)
      BY <2>a, <3>1, <3>2 DEF userForget, Elapse
    <3>3. CASE sltTimerTimeout(s) \/ jobDone(s)
      <4>1. /\ Event("onFinished", s) \in EventSet /\ ~Event("onFinished", s).stale
            /\ Event("deleteLater", s) \in EventSet /\ ~Event("deleteLater", s).stale
        BY EventType DEF EventTypes, Event
      <4>2. \E e \in EventSet : ~e.stale /\ events' = Append(events, e)
        BY <3>3, <4>1 DEF sltTimerTimeout, jobDone
      <4>3. QED
        BY <2>b, <3>1, <4>2
    <3>4. QED
      BY <2>8, <3>2, <3>3 DEF Timers
  <2>9. CASE sltThreadFinished
    <3>1. events # <<>> /\ Head(events).type = "sltThreadFinished"
      BY <2>9 DEF sltThreadFinished, Arrives
    <3>2. Astray(events) = Astray(Tail(events)) /\ Tail(events) \in Seq(EventSet)
      BY <2>c, <3>1
    <3> DEFINE e == Event("onFinished", Head(events).req)
    <3>3. e \in EventSet /\ ~e.stale
      BY <2>c, <3>1, EventType DEF EventTypes, Event
    <3>4. events' = Tail(events) \/ events' = Append(Tail(events), e)
      BY <2>9 DEF sltThreadFinished
    <3>5. Astray(events)' = Astray(Tail(events))
      <4>1. CASE events' = Tail(events)
        BY <4>1 DEF Astray
      <4>2. CASE events' = Append(Tail(events), e)
        <5>1. Astray(events)' = Astray(Append(Tail(events), e))
          BY <4>2 DEF Astray
        <5>2. QED
          BY <3>2, <3>3, <5>1, AppendStray
      <4>3. QED
        BY <3>4, <4>1, <4>2
    <3>6. QED
      BY <2>9, <3>2, <3>5 DEF sltThreadFinished, poolStatus, isRunning
  <2>10. CASE finishedWaits \/ UNCHANGED vars
    BY <2>10, <2>a DEF finishedWaits, vars, poolStatus, isRunning
  <2>11. QED
    BY <2>1, <2>2, <2>3, <2>4, <2>5, <2>6, <2>7, <2>8, <2>9, <2>10
       DEF Next, Answer, Dispatch, Pool!Next
<1>3. QED
  BY <1>1, <1>2, Invariance, PTL DEF Spec, ImplementsPool, Pool!Spec
=============================================================================
