---------------------------- MODULE RequestPool ----------------------------
(***************************************************************************)
(* What AsyncRequestList promises to the plugins that create requests.  A  *)
(* request is "quiet" unless it has a thread of its own, which starts,     *)
(* works and returns.  Quiet requests may be released, any number in one   *)
(* step.  A report that is still on its way when its request is released   *)
(* goes astray: all it may do is to release, once, a request that has been *)
(* given the same address, and never one that is working.                  *)
(***************************************************************************)
CONSTANTS Slot,          \* the heap addresses an AsyncRequest may live at
          AddressReuse   \* may one be given out that a stray report names?

VARIABLES status,        \* status[s]: what the request at address s is doing
          stray          \* the addresses stray reports name

Init == status = [s \in Slot |-> "free"] /\ stray = {}

Open(s) == /\ status[s] = "free"
           /\ AddressReuse \/ s \notin stray
           /\ \E st \in {"quiet", "started"} : status' = [status EXCEPT ![s] = st]
           /\ UNCHANGED stray

Turns(s, from, to) == /\ status[s] = from
                      /\ status' = [status EXCEPT ![s] = to]
                      /\ UNCHANGED stray

Thread(s) == \/ Turns(s, "started", "working")
             \/ Turns(s, "working", "returned")
             \/ Turns(s, "returned", "quiet")

Release(S) == /\ \A s \in S : status[s] = "quiet"
              /\ status' = [s \in Slot |-> IF s \in S THEN "free" ELSE status[s]]
              /\ stray \subseteq stray' /\ stray' \subseteq stray \union S

(* A stray report arrives at a request it was not meant for ...            *)
Hits(s) == /\ s \in stray
           /\ status[s] \in {"quiet", "started", "returned"}
           /\ status' = [status EXCEPT ![s] = "free"]
           /\ stray' = stray \/ stray' = stray \ {s}

(* ... or finds its address free.                                          *)
Misses(s) == /\ stray' = stray \ {s}
             /\ UNCHANGED status

Next == \/ \E s \in Slot : Open(s) \/ Thread(s) \/ Hits(s) \/ Misses(s)
        \/ \E S \in SUBSET Slot : Release(S)

Spec == Init /\ [][Next]_<<status, stray>>
=============================================================================
