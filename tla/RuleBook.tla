----------------------------- MODULE RuleBook -----------------------------
(***************************************************************************)
(* What the admins of a room may expect of its automatic lists: the rules  *)
(* they have ordered are in force, each with all of its conditions, until  *)
(* they are withdrawn or their time has passed.  An order for conditions   *)
(* that are listed already replaces the older one.  A command that is cut  *)
(* short may lose the rule it was to replace, and nothing else.            *)
(***************************************************************************)
EXTENDS Sequences

CONSTANTS List, Cond, Test   \* as in AList

VARIABLE rules

Rule == [list : List, chain : Seq(Cond), expire : {"never", "ahead", "past"}]

Same(c, d) == /\ DOMAIN c = DOMAIN d
              /\ \A i \in DOMAIN c : Test[c[i]] = Test[d[i]]

Init == rules = {}

(* Rules whose time has passed may lapse in any step, but none needs to.   *)
OnlyDueLapse(kept) == \A q \in kept \ rules' : q.expire = "past"

(* What an order for r leaves in force of the others.                      *)
Others(r) == {q \in rules : ~(q.list = r.list /\ Same(q.chain, r.chain))}

Order(r) ==
  /\ r.expire # "past"
  /\ rules' \ {r} \subseteq Others(r)
  /\ OnlyDueLapse(Others(r))

Withdraw(r) == rules' = rules \ {r}

Clear(l) == rules' = {r \in rules : r.list # l}

Lapse == rules' \subseteq rules /\ OnlyDueLapse(rules)

FallsDue(r) == /\ r.expire = "ahead"
               /\ rules' = (rules \ {r}) \union {[r EXCEPT !.expire = "past"]}

Next ==
  \/ Lapse
  \/ \E r \in rules' : Order(r)
  \/ \E r \in rules : Withdraw(r) \/ FallsDue(r)
  \/ \E l \in List : Clear(l)

Spec == Init /\ [][Next]_rules
=============================================================================
