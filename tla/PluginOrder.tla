---------------------------- MODULE PluginOrder ----------------------------
(***************************************************************************)
(* The order in which the plugins are offered a message.  The loader makes *)
(* them in the order of their directories, and qSort() then sorts them by  *)
(* an operator< that no order of the plugins satisfies: of two plugins     *)
(* whose priorities and names disagree, each is less than the other.       *)
(* What comes out depends on the algorithm, so that is part of the model.  *)
(***************************************************************************)
EXTENDS Integers, Sequences

(* The names by their alphabetical place: Core has no name, so it is 0.    *)
Loaded == <<"ACL", "ADMIN", "ALIAS", "CONFIG", "CORE", "MISC", "MUC", "NET",
            "ROSTER", "USER", "WEBSTATUS", "WORD">>

name(p) == IF p = "CORE" THEN 0 ELSE CHOOSE i \in DOMAIN Loaded : Loaded[i] = p

priority(p) == CASE p = "ACL" -> 10 [] p = "MUC" -> 20 [] OTHER -> 100

lessThan(p, q) == priority(p) < priority(q) \/ name(p) < name(q)

-----------------------------------------------------------------------------
(* qSortHelper() of Qt 4, on positions start .. end - 1 of l, from 1.      *)

Swap(l, i, j) == [l EXCEPT ![i] = l[j], ![j] = l[i]]
SwapIf(c, l, i, j) == IF c THEN Swap(l, i, j) ELSE l

(* Both ends walk to the middle past what is on its side of the pivot,     *)
(* which stands at e.                                                      *)
RECURSIVE Up(_, _, _, _), Down(_, _, _, _), Meet(_, _, _, _)
Up(l, low, high, e) ==
  IF low < high /\ lessThan(l[low], l[e]) THEN Up(l, low + 1, high, e) ELSE low
Down(l, low, high, e) ==
  IF high > low /\ lessThan(l[e], l[high]) THEN Down(l, low, high - 1, e) ELSE high
Meet(l, low, high, e) ==
  LET a == Up(l, low, high, e)
      b == Down(l, a, high, e)
  IN  IF low < high /\ a < b THEN Meet(Swap(l, a, b), a + 1, b - 1, e)
      ELSE [list |-> l, low |-> IF low < high THEN a ELSE low]

RECURSIVE qSort(_, _, _)
qSort(l, start, end) ==
  LET span  == end - start
      e     == end - 1
      pivot == start + span \div 2
      l1 == SwapIf(lessThan(l[e], l[start]), l, e, start)
      l2 == SwapIf(lessThan(l1[pivot], l1[start]), l1, pivot, start)
      l3 == SwapIf(lessThan(l2[e], l2[pivot]), l2, e, pivot)
      m  == Meet(Swap(l3, pivot, e), start, e - 1, e)
      mid == IF lessThan(m.list[m.low], m.list[e]) THEN m.low + 1 ELSE m.low
  IN  CASE span < 2 -> l
        [] span = 2 -> l1
        [] span = 3 -> l3
        [] OTHER -> qSort(qSort(Swap(m.list, e, mid), start, mid), mid + 1, end)

PluginList == qSort(Loaded, 1, Len(Loaded) + 1)
=============================================================================
