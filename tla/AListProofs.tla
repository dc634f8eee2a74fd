---------------------------- MODULE AListProofs ----------------------------
(***************************************************************************)
(* What the operators of AList do to a table: reading a chain, inserting   *)
(* one, deleting some.  CheckMemberProofs puts them together.              *)
(***************************************************************************)
EXTENDS AList, SequenceTheorems, WellFoundedInduction, TLAPS

-----------------------------------------------------------------------------
(* Induction over the numbers, stated for a set.                           *)

LEMMA LeastNat ==
  ASSUME NEW T, T \subseteq Nat, T # {}
  PROVE  \E x \in T : \A y \in T : x <= y
<1> DEFINE R == OpToRel(<, Nat)
<1>1. IsWellFoundedOn(R, Nat)
  BY NatLessThanWellFounded
<1>2. \E x \in T : \A y \in T : ~ (<<y, x>> \in R)
  <2> HIDE DEF R
  <2> QED BY <1>1, WFMin
<1>3. \A x, y \in Nat : <<y, x>> \notin R => ~(y < x)
  BY Zenon DEF OpToRel
<1> HIDE DEF R
<1>4. PICK x \in T : \A y \in T : ~(y < x)
  BY <1>2, <1>3, Zenon
<1> QED BY <1>4

LEMMA Induction ==
  ASSUME NEW S, 0 \in S, \A n \in S \cap Nat : n + 1 \in S
  PROVE  Nat \subseteq S
<1> SUFFICES ASSUME Nat \ S # {} PROVE FALSE
  OBVIOUS
<1>1. PICK x \in Nat \ S : \A y \in Nat \ S : x <= y
  BY LeastNat
<1>2. x - 1 \in S /\ x - 1 \in Nat
  BY <1>1
<1> QED BY <1>1, <1>2

-----------------------------------------------------------------------------
(* Reading a table.                                                        *)

(* What every table is like: ids are keys, a child was inserted before its *)
(* parent and belongs to nobody else, and only rules expire.               *)
Table(R) ==
  /\ R \subseteq Row
  /\ \A q, r \in R : q.id = r.id => q = r
  /\ \A r \in R : r.child < r.id
  /\ \A r \in R : r.list = CHILD_ALIST => r.expire = "never"
  /\ \A r \in R : r.child > 0 =>
       /\ \E q \in R : q.id = r.child /\ q.list = CHILD_ALIST
       /\ \A q \in R : q.child = r.child => q = r

LEMMA RowType ==
  ASSUME NEW r \in Row
  PROVE  /\ r.id \in 1..MaxId /\ r.id \in Nat /\ r.id > 0
         /\ r.list \in List \union {CHILD_ALIST}
         /\ r.cond \in Cond /\ r.expire \in Expiry
         /\ r.child \in -1..MaxId /\ r.child \in Int /\ r.child >= -1
BY ListAssumption DEF Row

(* One unfolding of chainOf.                                               *)
below(R, path, i) ==
  LET found == {q \in R : q.id = i}
  IN  IF found = {} THEN <<>>
      ELSE LET q == CHOOSE q \in found : TRUE IN <<q>> \o path[q.child]

LEMMA BelowRow ==
  ASSUME NEW R, Table(R), NEW r \in R, NEW f
  PROVE  below(R, f, r.id) = <<r>> \o f[r.child]
<1>1. {q \in R : q.id = r.id} = {r}
  BY DEF Table
<1>2. (CHOOSE q \in {r} : TRUE) = r
  OBVIOUS
<1> QED BY <1>1, <1>2 DEF below

LEMMA BelowNothing ==
  ASSUME NEW R, NEW f, NEW i, ~ \E r \in R : r.id = i
  PROVE  below(R, f, i) = <<>>
BY DEF below

LEMMA BelowLooksDown ==
  ASSUME NEW R, Table(R), NEW i \in Int, NEW f, NEW g,
         \A j \in Int : j >= -1 /\ j < i => f[j] = g[j]
  PROVE  below(R, f, i) = below(R, g, i)
<1>1. CASE \E r \in R : r.id = i
  <2>1. PICK r \in R : r.id = i
    BY <1>1
  <2>2. f[r.child] = g[r.child]
    BY <2>1, RowType DEF Table
  <2>3. below(R, f, r.id) = <<r>> \o f[r.child] /\ below(R, g, r.id) = <<r>> \o g[r.child]
    BY BelowRow
  <2> QED BY <2>1, <2>2, <2>3
<1>2. CASE ~ \E r \in R : r.id = i
  BY <1>2, BelowNothing
<1> QED BY <1>1, <1>2

LEMMA ChainExists ==
  ASSUME NEW R, Table(R)
  PROVE  \E f : f = [i \in -1..MaxId |-> below(R, f, i)]
<1> DEFINE Up(n) == -1..(n - 1)
           S == {n \in Nat : \E g : g = [i \in Up(n) |-> below(R, g, i)]}
<1>1. 0 \in S
  <2> DEFINE g == [i \in Up(0) |-> <<>>]
  <2>1. \A i \in Up(0) : below(R, g, i) = <<>>
    <3> SUFFICES ASSUME NEW i \in Up(0) PROVE below(R, g, i) = <<>>
      OBVIOUS
    <3>1. ~ \E r \in R : r.id = i
      BY RowType DEF Table
    <3> QED BY <3>1, BelowNothing
  <2>2. g = [i \in Up(0) |-> below(R, g, i)]
    <3> HIDE DEF g
    <3>1. g = [i \in Up(0) |-> <<>>] BY DEF g
    <3> QED BY <2>1, <3>1, Zenon
  <2> QED BY <2>2
<1>2. ASSUME NEW n \in S \cap Nat PROVE n + 1 \in S
  <2>1. PICK g : g = [i \in Up(n) |-> below(R, g, i)]
    OBVIOUS
  <2> DEFINE h == [i \in Up(n + 1) |-> IF i = n THEN below(R, g, n) ELSE g[i]]
  <2>2. \A i \in Up(n) : h[i] = g[i]
    OBVIOUS
  <2>3. \A i \in Up(n + 1) : below(R, h, i) = below(R, g, i)
    <3> SUFFICES ASSUME NEW i \in Up(n + 1) PROVE below(R, h, i) = below(R, g, i)
      OBVIOUS
    <3>1. \A j \in Int : j >= -1 /\ j < i => h[j] = g[j]
      BY <2>2
    <3> HIDE DEF h
    <3> QED BY <3>1, BelowLooksDown
  <2>4. \A i \in Up(n + 1) : h[i] = below(R, g, i)
    BY <2>1
  <2>5. h = [i \in Up(n + 1) |-> h[i]]
    OBVIOUS
  <2> HIDE DEF h
  <2>6. h = [i \in Up(n + 1) |-> below(R, h, i)]
    BY <2>3, <2>4, <2>5, Zenon
  <2> QED BY <2>6
<1>3. MaxId + 1 \in S
  <2> HIDE DEF S
  <2> QED BY <1>1, <1>2, Induction, ListAssumption
<1>4. Up(MaxId + 1) = -1..MaxId
  BY ListAssumption
<1> QED BY <1>3, <1>4

LEMMA ChainUnfolds ==
  ASSUME NEW R, Table(R)
  PROVE  chainOf(R) = [i \in -1..MaxId |-> below(R, chainOf(R), i)]
BY ChainExists, Zenon DEF chainOf, below

(* A whole chain: each row is the child of the one before, the last has    *)
(* none.                                                                   *)
IsPath(R, p) ==
  /\ p \in Seq(R) /\ p # <<>>
  /\ \A i \in 1..(Len(p) - 1) : p[i + 1].id = p[i].child
  /\ p[Len(p)].child <= 0

LEMMA ConsPath ==
  ASSUME NEW R, NEW r \in R, NEW c, IsPath(R, c), c[1].id = r.child
  PROVE  IsPath(R, <<r>> \o c)
<1> DEFINE p == <<r>> \o c
<1>1. c \in Seq(R) /\ Len(c) \in Nat \ {0}
  BY DEF IsPath
<1>2. p \in Seq(R) /\ Len(p) = Len(c) + 1 /\ p # <<>>
  BY <1>1
<1>3. p[1] = r /\ \A i \in 1..Len(c) : p[i + 1] = c[i]
  BY <1>1
<1> HIDE DEF p
<1>4. p[Len(p)].child <= 0
  <2>1. p[Len(c) + 1] = c[Len(c)]
    BY <1>1, <1>3
  <2> QED BY <1>2, <2>1 DEF IsPath
<1>5. ASSUME NEW i \in 1..(Len(p) - 1) PROVE p[i + 1].id = p[i].child
  <2>1. CASE i = 1
    <3>1. p[2] = c[1]
      BY <1>1, <1>3
    <3> QED BY <2>1, <3>1, <1>3
  <2>2. CASE i # 1
    <3>1. i - 1 \in 1..(Len(c) - 1)
      BY <1>1, <1>2, <2>2
    <3>2. c[(i - 1) + 1].id = c[i - 1].child
      BY <3>1 DEF IsPath
    <3>3. p[i] = c[i - 1] /\ p[i + 1] = c[i]
      <4>1. p[(i - 1) + 1] = c[i - 1]
        BY <1>1, <1>3, <3>1
      <4>2. p[i + 1] = c[i]
        BY <1>1, <1>2, <1>3
      <4>3. (i - 1) + 1 = i
        OBVIOUS
      <4> QED BY <4>1, <4>2, <4>3
    <3>4. (i - 1) + 1 = i
      OBVIOUS
    <3> QED BY <3>2, <3>3, <3>4
  <2> QED BY <2>1, <2>2
<1>6. IsPath(R, p)
  BY <1>2, <1>4, <1>5 DEF IsPath
<1> QED BY <1>6 DEF p

LEMMA ChainOfNothing ==
  ASSUME NEW R, Table(R), NEW i \in -1..0
  PROVE  chainOf(R)[i] = <<>>
<1>1. chainOf(R)[i] = below(R, chainOf(R), i)
  BY ChainUnfolds, ListAssumption
<1>2. ~ \E r \in R : r.id = i
  BY RowType DEF Table
<1> QED BY <1>1, <1>2, BelowNothing

LEMMA ChainOfRow ==
  ASSUME NEW R, Table(R), NEW r \in R
  PROVE  chainOf(R)[r.id] = <<r>> \o chainOf(R)[r.child]
<1>1. r.id \in -1..MaxId
  BY RowType, ListAssumption DEF Table
<1>2. chainOf(R)[r.id] = below(R, chainOf(R), r.id)
  BY <1>1, ChainUnfolds
<1> QED BY <1>2, BelowRow

LEMMA ChainIsPath ==
  ASSUME NEW R, Table(R), NEW r \in R
  PROVE  IsPath(R, chainOf(R)[r.id]) /\ chainOf(R)[r.id][1] = r
<1> DEFINE good(q) == IsPath(R, chainOf(R)[q.id]) /\ chainOf(R)[q.id][1] = q
           S == {n \in Nat : \A q \in R : q.id <= n => good(q)}
<1>1. 0 \in S
  BY RowType DEF Table
<1>2. ASSUME NEW n \in S \cap Nat PROVE n + 1 \in S
  <2> SUFFICES ASSUME NEW q \in R, q.id = n + 1 PROVE good(q)
    BY RowType DEF Table
  <2>1. chainOf(R)[q.id] = <<q>> \o chainOf(R)[q.child]
    BY ChainOfRow
  <2>2. CASE q.child <= 0
    <3>1. q.child \in -1..0
      BY <2>2, RowType DEF Table
    <3>2. chainOf(R)[q.child] = <<>>
      BY <3>1, ChainOfNothing
    <3>3. chainOf(R)[q.id] = <<q>>
      BY <2>1, <3>2
    <3> QED BY <2>2, <3>3 DEF IsPath
  <2>3. CASE q.child > 0
    <3>1. PICK c \in R : c.id = q.child
      BY <2>3 DEF Table
    <3>2. c.id <= n
      BY <3>1, RowType DEF Table
    <3>3. good(c)
      BY <3>2
    <3>4. IsPath(R, chainOf(R)[q.id])
      BY <2>1, <3>1, <3>3, ConsPath
    <3>5. chainOf(R)[q.child] \in Seq(R)
      BY <3>1, <3>3 DEF IsPath
    <3> QED BY <2>1, <3>4, <3>5
  <2> QED BY <2>2, <2>3, RowType DEF Table
<1>3. Nat \subseteq S
  <2> HIDE DEF S
  <2> QED BY <1>1, <1>2, Induction
<1>4. r.id \in Nat
  BY RowType DEF Table
<1> QED BY <1>3, <1>4

LEMMA PathGoesOn ==
  ASSUME NEW R, Table(R), NEW p, NEW q, IsPath(R, p), IsPath(R, q), p[1] = q[1],
         NEW i \in 1..Len(p)
  PROVE  i \in 1..Len(q) /\ p[i] = q[i]
<1> DEFINE S == {n \in Nat : n + 1 <= Len(p) => n + 1 <= Len(q) /\ p[n + 1] = q[n + 1]}
<1>0. /\ p \in Seq(R) /\ Len(p) \in Nat \ {0}
      /\ q \in Seq(R) /\ Len(q) \in Nat \ {0}
  BY DEF IsPath
<1>1. 0 \in S
  BY <1>0
<1>2. ASSUME NEW n \in S \cap Nat PROVE n + 1 \in S
  <2> SUFFICES ASSUME n + 2 <= Len(p)
               PROVE  n + 2 <= Len(q) /\ p[n + 2] = q[n + 2]
    OBVIOUS
  <2>1. n + 1 <= Len(q) /\ p[n + 1] = q[n + 1]
    BY <1>0
  <2>2. n + 1 \in 1..(Len(p) - 1) /\ (n + 1) + 1 = n + 2
    BY <1>0
  <2>3. p[n + 2].id = p[n + 1].child /\ p[n + 2] \in R
    BY <1>0, <2>2 DEF IsPath
  <2>4. p[n + 2].id > 0
    BY <2>3, RowType DEF Table
  <2>5. n + 1 # Len(q)
    <3>1. p[n + 1].child > 0
      BY <2>3, <2>4, RowType DEF Table
    <3>2. p[n + 1] \in R
      BY <1>0
    <3>3. p[n + 1].child \in Int
      BY <3>2, RowType DEF Table
    <3>4. q[Len(q)].child <= 0
      BY DEF IsPath
    <3> QED BY <2>1, <3>1, <3>3, <3>4
  <2>6. n + 1 \in 1..(Len(q) - 1)
    BY <1>0, <2>1, <2>5
  <2>7. q[n + 2].id = q[n + 1].child /\ q[n + 2] \in R
    <3>1. q[(n + 1) + 1].id = q[n + 1].child
      BY <2>6 DEF IsPath
    <3>2. n + 2 \in 1..Len(q)
      BY <1>0, <2>6
    <3> QED BY <1>0, <2>2, <3>1, <3>2
  <2> QED BY <1>0, <2>1, <2>3, <2>6, <2>7 DEF Table
<1>3. i - 1 \in S
  <2> HIDE DEF S
  <2>1. Nat \subseteq S
    BY <1>1, <1>2, Induction
  <2> QED BY <2>1, <1>0
<1> QED BY <1>0, <1>3

LEMMA OnePath ==
  ASSUME NEW R, Table(R), NEW p, NEW q, IsPath(R, p), IsPath(R, q), p[1] = q[1]
  PROVE  p = q
<1>1. p \in Seq(R) /\ q \in Seq(R) /\ Len(p) \in Nat /\ Len(q) \in Nat
  BY DEF IsPath
<1>2. \A i \in 1..Len(p) : i \in 1..Len(q) /\ p[i] = q[i]
  BY PathGoesOn
<1>3. \A i \in 1..Len(q) : i \in 1..Len(p)
  BY PathGoesOn
<1>4. Len(p) = Len(q)
  BY <1>1, <1>2, <1>3
<1> QED BY <1>1, <1>2, <1>4

(* A chain is the same in every table that has its rows.                   *)
LEMMA ChainAcross ==
  ASSUME NEW R, Table(R), NEW Q, Table(Q), NEW r \in R \intersect Q,
         \A i \in DOMAIN chainOf(R)[r.id] : chainOf(R)[r.id][i] \in Q
  PROVE  chainOf(Q)[r.id] = chainOf(R)[r.id]
<1> DEFINE p == chainOf(R)[r.id]
           q == chainOf(Q)[r.id]
<1>1. IsPath(R, p) /\ p[1] = r /\ IsPath(Q, q) /\ q[1] = r
  BY ChainIsPath
<1>2. p \in Seq(Q)
  BY <1>1 DEF IsPath
<1> HIDE DEF p, q
<1>3. IsPath(Q, p)
  BY <1>1, <1>2 DEF IsPath
<1>4. p = q
  BY <1>1, <1>3, OnePath
<1> QED BY <1>4 DEF p, q

(* Chains of different rules share no row: a row inside a chain belongs to *)
(* CHILD_ALIST and names its parent.                                       *)
isTop(r) == r.list # CHILD_ALIST

LEMMA InsideIsChild ==
  ASSUME NEW R, Table(R), NEW p, IsPath(R, p), NEW i \in 2..Len(p)
  PROVE  /\ p[i] \in R /\ p[i - 1] \in R
         /\ p[i].list = CHILD_ALIST
         /\ p[i - 1].child = p[i].id
         /\ p[i].id > 0
<1>1. p \in Seq(R) /\ Len(p) \in Nat
  BY DEF IsPath
<1>2. p[i] \in R /\ p[i - 1] \in R
  BY <1>1
<1>3. i - 1 \in 1..(Len(p) - 1) /\ (i - 1) + 1 = i
  BY <1>1
<1>4. p[i].id = p[i - 1].child
  BY <1>3 DEF IsPath
<1>5. p[i].id > 0
  BY <1>2, RowType DEF Table
<1>6. PICK q \in R : q.id = p[i - 1].child /\ q.list = CHILD_ALIST
  BY <1>2, <1>4, <1>5 DEF Table
<1>7. q = p[i]
  BY <1>2, <1>4, <1>6 DEF Table
<1> QED BY <1>2, <1>4, <1>5, <1>6, <1>7

LEMMA PathsApart ==
  ASSUME NEW R, Table(R), NEW p, NEW q, IsPath(R, p), IsPath(R, q),
         isTop(p[1]), isTop(q[1]),
         NEW i \in 1..Len(p), NEW j \in 1..Len(q), p[i] = q[j]
  PROVE  i = j /\ p[1] = q[1]
<1> DEFINE S == {n \in Nat : \A k \in 1..Len(q) : n + 1 \in 1..Len(p) /\ p[n + 1] = q[k]
                               => n + 1 = k /\ p[1] = q[1]}
<1>0. p \in Seq(R) /\ Len(p) \in Nat /\ q \in Seq(R) /\ Len(q) \in Nat
  BY DEF IsPath
<1>1. 0 \in S
  <2> SUFFICES ASSUME NEW k \in 1..Len(q), p[1] = q[k] PROVE k = 1
    OBVIOUS
  <2>1. k \notin 2..Len(q)
    BY InsideIsChild DEF isTop
  <2> QED BY <1>0, <2>1
<1>2. ASSUME NEW n \in S \cap Nat PROVE n + 1 \in S
  <2> SUFFICES ASSUME NEW k \in 1..Len(q), n + 2 \in 1..Len(p), p[n + 2] = q[k]
               PROVE  n + 2 = k /\ p[1] = q[1]
    BY <1>0
  <2>1. /\ p[n + 2] \in R /\ p[n + 1] \in R
        /\ p[n + 2].list = CHILD_ALIST /\ p[n + 1].child = p[n + 2].id /\ p[n + 2].id > 0
    <3>1. n + 2 \in 2..Len(p) /\ (n + 2) - 1 = n + 1
      BY <1>0
    <3> QED BY <3>1, InsideIsChild
  <2>2. k # 1
    BY <2>1 DEF isTop
  <2>3. k \in 2..Len(q) /\ k - 1 \in 1..Len(q)
    BY <1>0, <2>2
  <2>4. q[k - 1] \in R /\ q[k - 1].child = q[k].id
    BY <2>3, InsideIsChild
  <2>5. p[n + 1] = q[k - 1]
    <3>1. PICK x, y : x = p[n + 1] /\ y = q[k - 1]
      OBVIOUS
    <3>2. x \in R /\ y \in R /\ x.child > 0 /\ x.child = y.child
      BY <2>1, <2>4, <3>1
    <3>3. x = y
      <4> HIDE <2>1, <2>4, <3>1
      <4> QED BY <3>2 DEF Table
    <3> QED BY <3>1, <3>3
  <2>6. n + 1 = k - 1 /\ p[1] = q[1]
    BY <1>0, <2>3, <2>5
  <2> QED BY <2>6
<1>3. Nat \subseteq S
  <2> HIDE DEF S
  <2> QED BY <1>1, <1>2, Induction
<1>4. i - 1 \in S
  <2> HIDE DEF S
  <2> QED BY <1>0, <1>3
<1> QED BY <1>0, <1>4

-----------------------------------------------------------------------------
(* Items.                                                                  *)

LEMMA ItemShape ==
  ASSUME NEW R, Table(R), NEW r \in R, NEW p, p = chainOf(R)[r.id],
         NEW x, x = itemFromQuery(R, r)
  PROVE  /\ IsPath(R, p) /\ p \in Seq(R) /\ Len(p) \in Nat \ {0} /\ p[1] = r
         /\ x.ids \in Seq(1..MaxId) /\ Len(x.ids) = Len(p)
         /\ \A i \in 1..Len(p) : x.ids[i] = p[i].id
         /\ x.chain \in Seq(Cond) /\ Len(x.chain) = Len(p)
         /\ \A i \in 1..Len(p) : x.chain[i] = p[i].cond
         /\ x.expire = r.expire
         /\ x = [ids |-> x.ids, chain |-> x.chain, expire |-> x.expire]
<1>1. IsPath(R, p) /\ p[1] = r
  BY ChainIsPath
<1>2. p \in Seq(R) /\ Len(p) \in Nat \ {0}
  BY <1>1 DEF IsPath
<1>3. \A i \in 1..Len(p) : p[i].id \in 1..MaxId /\ p[i].cond \in Cond
  <2> TAKE i \in 1..Len(p)
  <2>1. p[i] \in R
    BY <1>2
  <2> QED BY <2>1, RowType DEF Table
<1>4. x = [ids |-> [i \in 1..Len(p) |-> p[i].id], chain |-> [i \in 1..Len(p) |-> p[i].cond],
           expire |-> r.expire]
  <2>1. DOMAIN p = 1..Len(p)
    BY <1>2
  <2> QED BY <2>1 DEF itemFromQuery
<1>5. [i \in 1..Len(p) |-> p[i].id] \in Seq(1..MaxId)
  BY <1>2, <1>3
<1>6. [i \in 1..Len(p) |-> p[i].cond] \in Seq(Cond)
  BY <1>2, <1>3
<1> QED BY <1>1, <1>2, <1>4, <1>5, <1>6

LEMMA ItemType ==
  ASSUME NEW R, Table(R), NEW r \in R
  PROVE  itemFromQuery(R, r) \in Item
<1>1. r.expire \in Expiry
  BY RowType DEF Table
<1> QED BY <1>1, ItemShape DEF Item

(* An item tells its row.                                                  *)
LEMMA ItemNamesRow ==
  ASSUME NEW R, Table(R), NEW r \in R
  PROVE  itemFromQuery(R, r).ids[1] = r.id
<1>1. 1 \in 1..Len(chainOf(R)[r.id])
  BY ItemShape
<1> QED BY <1>1, ItemShape

LEMMA ItemsDiffer ==
  ASSUME NEW R, Table(R), NEW r \in R, NEW q \in R,
         itemFromQuery(R, r) = itemFromQuery(R, q)
  PROVE  r = q
BY ItemNamesRow DEF Table

LEMMA ItemAcross ==
  ASSUME NEW R, Table(R), NEW Q, Table(Q), NEW r \in R \intersect Q,
         \A i \in DOMAIN chainOf(R)[r.id] : chainOf(R)[r.id][i] \in Q
  PROVE  itemFromQuery(Q, r) = itemFromQuery(R, r)
BY ChainAcross DEF itemFromQuery

-----------------------------------------------------------------------------
(* Deleting.                                                               *)

(* Who deletes a row deletes the one that names it, too.                   *)
ClosedUp(R, D) == \A r \in R : r.child > 0 /\ r.child \in D => r.id \in D

LEMMA WithoutTable ==
  ASSUME NEW R, Table(R), NEW D, ClosedUp(R, D)
  PROVE  Table(Without(R, D))
<1> DEFINE Q == Without(R, D)
<1>1. Q \subseteq R /\ \A r \in R : r.id \notin D => r \in Q
  BY DEF Without
<1>2. \A r \in Q : r.id \notin D
  BY DEF Without
<1> HIDE DEF Q
<1>3. ASSUME NEW r \in Q, r.child > 0
      PROVE  \E q \in Q : q.id = r.child /\ q.list = CHILD_ALIST
  <2>1. PICK q \in R : q.id = r.child /\ q.list = CHILD_ALIST
    BY <1>1, <1>3 DEF Table
  <2>2. q.id \notin D
    BY <1>1, <1>2, <1>3, <2>1 DEF ClosedUp
  <2> QED BY <1>1, <2>1, <2>2
<1>4. Table(Q)
  BY <1>1, <1>3 DEF Table
<1> QED BY <1>4 DEF Q

(* As far as removeItem() gets.                                            *)
LEMMA DeletedIsClosed ==
  ASSUME NEW R, Table(R), NEW r \in R, isTop(r), NEW x, x = itemFromQuery(R, r),
         NEW k \in 0..Len(x.ids)
  PROVE  ClosedUp(R, deleted(x, k))
<1> DEFINE p == chainOf(R)[r.id]
<1>1. /\ IsPath(R, p) /\ p \in Seq(R) /\ p[1] = r /\ Len(x.ids) = Len(p) /\ Len(p) \in Nat
      /\ \A i \in 1..Len(p) : x.ids[i] = p[i].id
  BY ItemShape
<1> HIDE DEF p
<1> SUFFICES ASSUME NEW q \in R, q.child > 0, q.child \in deleted(x, k)
             PROVE  q.id \in deleted(x, k)
  BY DEF ClosedUp
<1>2. PICK i \in 1..k : q.child = x.ids[i]
  BY DEF deleted
<1>3. i \in 1..Len(p) /\ q.child = p[i].id /\ p[i] \in R
  BY <1>1, <1>2
<1>4. PICK c \in R : c.id = q.child /\ c.list = CHILD_ALIST
  BY DEF Table
<1>5. c = p[i]
  BY <1>3, <1>4 DEF Table
<1>6. i \in 2..Len(p)
  BY <1>1, <1>3, <1>4, <1>5 DEF isTop
<1>7. p[i - 1] \in R /\ p[i - 1].child = p[i].id
  BY <1>1, <1>6, InsideIsChild
<1>8. q = p[i - 1]
  BY <1>3, <1>7 DEF Table
<1>9. i - 1 \in 1..k /\ x.ids[i - 1] = q.id
  BY <1>1, <1>6, <1>8
<1> QED BY <1>9 DEF deleted

(* What the rows of some items were.                                       *)
rowsOf(X) == UNION {deleted(x, Len(x.ids)) : x \in X}

Rules(R) == UNION {load(R, l) : l \in List}

LEMMA RuleIsTop ==
  ASSUME NEW R, NEW x \in Rules(R)
  PROVE  \E r \in R : isTop(r) /\ r.list \in List /\ x = itemFromQuery(R, r) /\ x \in load(R, r.list)
BY DEF Rules, load, isTop, List, CHILD_ALIST

LEMMA DeletedShrinks ==
  ASSUME NEW R, Table(R), NEW X, X \subseteq Rules(R)
  PROVE  Table(Without(R, rowsOf(X)))
<1>1. ASSUME NEW x \in X
      PROVE  ClosedUp(R, deleted(x, Len(x.ids)))
  <2>1. PICK r \in R : isTop(r) /\ x = itemFromQuery(R, r)
    BY RuleIsTop
  <2>2. Len(x.ids) \in 0..Len(x.ids)
    BY <2>1, ItemShape
  <2> QED BY <2>1, <2>2, DeletedIsClosed
<1>2. ClosedUp(R, rowsOf(X))
  BY <1>1 DEF ClosedUp, rowsOf
<1> QED BY <1>2, WithoutTable

(* A row is deleted with the rule it belongs to, and with no other.        *)
LEMMA DeletedIsOwn ==
  ASSUME NEW R, Table(R), NEW X, X \subseteq Rules(R), NEW r \in R, isTop(r),
         itemFromQuery(R, r) \notin X
  PROVE  \A i \in DOMAIN chainOf(R)[r.id] : chainOf(R)[r.id][i].id \notin rowsOf(X)
<1> DEFINE p == chainOf(R)[r.id]
<1>1. IsPath(R, p) /\ p \in Seq(R) /\ p[1] = r
  BY ItemShape
<1> SUFFICES ASSUME NEW i \in DOMAIN p, NEW x \in X, p[i].id \in deleted(x, Len(x.ids))
             PROVE  FALSE
  BY DEF rowsOf
<1>2. PICK q \in R : isTop(q) /\ x = itemFromQuery(R, q)
  BY RuleIsTop
<1> DEFINE c == chainOf(R)[q.id]
<1>3. /\ IsPath(R, c) /\ c \in Seq(R) /\ c[1] = q /\ Len(x.ids) = Len(c)
      /\ \A j \in 1..Len(c) : x.ids[j] = c[j].id
  BY <1>2, ItemShape
<1> HIDE DEF p, c
<1>4. PICK j \in 1..Len(c) : p[i].id = c[j].id
  BY <1>3 DEF deleted
<1>5. i \in 1..Len(p) /\ p[i] \in R /\ c[j] \in R
  BY <1>1, <1>3
<1>6. p[i] = c[j]
  BY <1>4, <1>5 DEF Table
<1>7. r = q
  BY <1>1, <1>2, <1>3, <1>5, <1>6, PathsApart
<1> QED BY <1>2, <1>7

LEMMA DeletedWithRule ==
  ASSUME NEW R, Table(R), NEW X, NEW r \in R, itemFromQuery(R, r) \in X
  PROVE  r.id \in rowsOf(X)
<1>1. itemFromQuery(R, r).ids[1] = r.id /\ 1 \in 1..Len(itemFromQuery(R, r).ids)
  BY ItemNamesRow, ItemShape
<1> QED BY <1>1 DEF rowsOf, deleted

(* Deleting rules leaves the others as they are.                           *)
LEMMA OthersStay ==
  ASSUME NEW R, Table(R), NEW X, X \subseteq Rules(R), NEW l \in List
  PROVE  load(Without(R, rowsOf(X)), l) = load(R, l) \ X
<1> DEFINE Q == Without(R, rowsOf(X))
<1>1. Table(Q)
  BY DeletedShrinks
<1>2. Q \subseteq R /\ \A r \in R : r \in Q <=> r.id \notin rowsOf(X)
  BY DEF Without
<1> HIDE DEF Q
<1>3. ASSUME NEW r \in R, r.list = l
      PROVE  /\ r \in Q <=> itemFromQuery(R, r) \notin X
             /\ r \in Q => itemFromQuery(Q, r) = itemFromQuery(R, r)
  <2>1. isTop(r)
    BY <1>3 DEF isTop, List, CHILD_ALIST
  <2>2. CASE itemFromQuery(R, r) \in X
    BY <1>2, <2>2, DeletedWithRule
  <2>3. CASE itemFromQuery(R, r) \notin X
    <3> DEFINE p == chainOf(R)[r.id]
    <3>1. \A i \in DOMAIN p : p[i].id \notin rowsOf(X)
      BY <2>1, <2>3, DeletedIsOwn
    <3>2. p \in Seq(R) /\ p[1] = r /\ 1 \in DOMAIN p
      BY ItemShape
    <3>3. \A i \in DOMAIN p : p[i] \in R
      BY <3>2
    <3>4. \A i \in DOMAIN p : p[i] \in Q
      BY <1>2, <3>1, <3>3
    <3>5. r \in Q
      BY <3>2, <3>4
    <3> QED BY <1>1, <2>3, <3>4, <3>5, ItemAcross
  <2> QED BY <2>2, <2>3
<1>4. load(Q, l) = load(R, l) \ X
  <2>1. \A x : x \in load(Q, l) <=> \E r \in R : r.list = l /\ r \in Q /\ x = itemFromQuery(Q, r)
    BY <1>2 DEF load
  <2>2. \A x : x \in load(R, l) <=> \E r \in R : r.list = l /\ x = itemFromQuery(R, r)
    BY DEF load
  <2> QED BY <1>3, <2>1, <2>2
<1> QED BY <1>4 DEF Q

-----------------------------------------------------------------------------
(* Inserting.                                                              *)

(* A table while a chain goes into it: id is a child that has no parent    *)
(* yet, or none.                                                           *)
Filling(t) ==
  /\ t = [rows |-> t.rows, lastId |-> t.lastId, id |-> t.id]
  /\ Table(t.rows)
  /\ t.lastId \in 0..MaxId
  /\ \A r \in t.rows : r.id <= t.lastId
  /\ t.id \in -1..t.lastId
  /\ t.id > 0 => /\ \E r \in t.rows : r.id = t.id /\ r.list = CHILD_ALIST
                 /\ \A r \in t.rows : r.child # t.id

LEMMA AppendRow ==
  ASSUME NEW t, Filling(t), t.lastId < MaxId,
         NEW list \in List \union {CHILD_ALIST}, NEW cond \in Cond, NEW expire \in Expiry,
         list = CHILD_ALIST => expire = "never",
         NEW u, u = appendPrivate(t, list, cond, expire)
  PROVE  /\ u = [rows |-> u.rows, lastId |-> u.lastId, id |-> u.id]
         /\ Table(u.rows)
         /\ u.lastId \in t.lastId..(t.lastId + 1)
         /\ t.rows \subseteq u.rows
         /\ \A r \in u.rows : r.id <= u.lastId
         /\ \A r \in u.rows \ t.rows : r.list = list
         /\ list = CHILD_ALIST => Filling(u)
<1>0. t.lastId \in Nat /\ t.id \in Int /\ t.id >= -1
  BY ListAssumption DEF Filling
<1>1. CASE violatesKey(t.rows, list, cond, t.id)
  <2>1. u = [t EXCEPT !.id = -1]
    BY <1>1 DEF appendPrivate
  <2>2. u = [rows |-> t.rows, lastId |-> t.lastId, id |-> -1]
    BY <2>1 DEF Filling
  <2> QED BY <2>2, <1>0 DEF Filling
<1>2. CASE ~violatesKey(t.rows, list, cond, t.id)
  <2> DEFINE r == [id |-> t.lastId + 1, list |-> list, cond |-> cond, expire |-> expire, child |-> t.id]
  <2>1. u = [rows |-> t.rows \union {r}, lastId |-> t.lastId + 1, id |-> t.lastId + 1]
    BY <1>2 DEF appendPrivate
  <2>2. r \in Row /\ r.id = t.lastId + 1 /\ r.list = list /\ r.expire = expire /\ r.child = t.id
    BY <1>0, ListAssumption DEF Row, Filling
  <2>3. \A q \in t.rows : /\ q \in Row /\ q.id \in Nat /\ q.child \in Int
                          /\ q.id < r.id /\ q.child < r.id
    BY <1>0, <2>2, RowType DEF Filling, Table
  <2> HIDE DEF r
  <2> DEFINE Q == t.rows \union {r}
  <2>4. Table(Q)
    <3>1. Q \subseteq Row
      BY <2>2, <2>3
    <3>2. \A p, q \in Q : p.id = q.id => p = q
      BY <1>0, <2>2, <2>3 DEF Filling, Table
    <3>3. \A q \in Q : q.child < q.id
      BY <1>0, <2>2 DEF Filling, Table
    <3>4. \A q \in Q : q.list = CHILD_ALIST => q.expire = "never"
      BY <2>2 DEF Filling, Table
    <3>5. ASSUME NEW q \in Q, q.child > 0
          PROVE  /\ \E c \in Q : c.id = q.child /\ c.list = CHILD_ALIST
                 /\ \A c \in Q : c.child = q.child => c = q
      <4>1. CASE q = r
        BY <2>2, <3>5, <4>1 DEF Filling
      <4>2. CASE q \in t.rows
        BY <2>2, <3>5, <4>2 DEF Filling, Table
      <4> QED BY <4>1, <4>2
    <3> QED BY <3>1, <3>2, <3>3, <3>4, <3>5 DEF Table
  <2>5. \A q \in Q : q.id <= t.lastId + 1
    BY <1>0, <2>2, <2>3
  <2>6. u.rows = Q /\ u.lastId = t.lastId + 1 /\ u.id = t.lastId + 1
    BY <2>1
  <2>7. \A q \in Q : q.child # t.lastId + 1
    BY <1>0, <2>2, <2>3 DEF Filling
  <2>8. list = CHILD_ALIST => Filling(u)
    BY <1>0, <2>1, <2>2, <2>4, <2>5, <2>6, <2>7, ListAssumption DEF Filling
  <2>9. u = [rows |-> u.rows, lastId |-> u.lastId, id |-> u.id]
    BY <2>1
  <2> QED BY <1>0, <2>2, <2>4, <2>5, <2>6, <2>8, <2>9
<1> QED BY <1>1, <1>2

LEMMA AppendChild ==
  ASSUME NEW t, Filling(t), t.lastId < MaxId, NEW cond \in Cond,
         NEW u, u = appendPrivate(t, CHILD_ALIST, cond, "never")
  PROVE  /\ Filling(u)
         /\ u.lastId \in t.lastId..(t.lastId + 1)
         /\ t.rows \subseteq u.rows
         /\ \A r \in u.rows \ t.rows : r.list = CHILD_ALIST
<1>1. "never" \in Expiry /\ CHILD_ALIST \in List \union {CHILD_ALIST}
  BY DEF Expiry
<1> QED BY <1>1, AppendRow

(* The table before the first INSERT, and one unfolding of appendChildren. *)
unfilled(R) == [rows |-> R, lastId |-> lastId, id |-> 0]

filled(R, chain, t, k) ==
  IF k = 0 THEN unfilled(R)
  ELSE appendPrivate(t[k - 1], CHILD_ALIST, chain[Len(chain) - k + 1], "never")

LEMMA ChildrenExist ==
  ASSUME NEW R, NEW chain, Len(chain) \in Nat
  PROVE  \E t : t = [k \in 0..Len(chain) |-> filled(R, chain, t, k)]
<1> DEFINE S == {n \in Nat : \E t : t = [k \in 0..n |-> filled(R, chain, t, k)]}
<1>1. 0 \in S
  <2> DEFINE t == [k \in 0..0 |-> unfilled(R)]
  <2>1. t = [k \in 0..0 |-> filled(R, chain, t, k)]
    <3>1. \A k \in 0..0 : filled(R, chain, t, k) = unfilled(R)
      BY DEF filled
    <3> QED BY <3>1
  <2> QED BY <2>1
<1>2. ASSUME NEW n \in S \cap Nat PROVE n + 1 \in S
  <2>1. PICK t : t = [k \in 0..n |-> filled(R, chain, t, k)]
    OBVIOUS
  <2> DEFINE u == [k \in 0..(n + 1) |-> IF k = n + 1 THEN filled(R, chain, t, n + 1) ELSE t[k]]
  <2>2. \A k \in 0..(n + 1) : filled(R, chain, u, k) = filled(R, chain, t, k)
    <3> TAKE k \in 0..(n + 1)
    <3>1. CASE k = 0
      BY <3>1 DEF filled
    <3>2. CASE k # 0
      <4>1. k - 1 \in 0..n
        BY <3>2
      <4>2. u[k - 1] = t[k - 1]
        BY <4>1
      <4> HIDE DEF u
      <4> QED BY <3>2, <4>2 DEF filled
    <3> QED BY <3>1, <3>2
  <2>3. \A k \in 0..(n + 1) : u[k] = filled(R, chain, t, k)
    BY <2>1
  <2>4. u = [k \in 0..(n + 1) |-> u[k]]
    OBVIOUS
  <2> HIDE DEF u
  <2>5. u = [k \in 0..(n + 1) |-> filled(R, chain, u, k)]
    BY <2>2, <2>3, <2>4, Zenon
  <2> QED BY <2>5
<1>3. Len(chain) \in S
  <2> HIDE DEF S
  <2> QED BY <1>1, <1>2, Induction
<1> QED BY <1>3

LEMMA ChildrenUnfold ==
  ASSUME NEW R, NEW chain, Len(chain) \in Nat, NEW t, t = appendChildren(R, chain)
  PROVE  /\ t[0] = unfilled(R)
         /\ \A k \in 1..Len(chain) :
              t[k] = appendPrivate(t[k - 1], CHILD_ALIST, chain[Len(chain) - k + 1], "never")
<1>0. appendChildren(R, chain) =
        CHOOSE f : f = [k \in 0..Len(chain) |-> filled(R, chain, f, k)]
  BY DEF appendChildren, filled, unfilled
<1>1. t = [k \in 0..Len(chain) |-> filled(R, chain, t, k)]
  BY <1>0, ChildrenExist, Zenon
<1>2. 0 \in 0..Len(chain) /\ \A k \in 1..Len(chain) : k \in 0..Len(chain) /\ k # 0
  OBVIOUS
<1>3. \A k \in 0..Len(chain) : t[k] = filled(R, chain, t, k)
  BY <1>1, Zenon
<1> QED BY <1>2, <1>3 DEF filled

(* A table that an INSERT may go into.                                     *)
Fillable(R) == Table(R) /\ lastId \in 0..MaxId /\ \A r \in R : r.id <= lastId

LEMMA ChildrenFill ==
  ASSUME NEW R, Fillable(R), NEW chain \in Seq(Cond), lastId + Len(chain) <= MaxId,
         NEW t, t = appendChildren(R, chain), NEW n \in 0..Len(chain)
  PROVE  /\ Filling(t[n])
         /\ t[n].lastId \in lastId..(lastId + n)
         /\ R \subseteq t[n].rows
         /\ \A r \in t[n].rows \ R : r.list = CHILD_ALIST
<1> DEFINE good(k) == /\ Filling(t[k])
                      /\ t[k].lastId \in lastId..(lastId + k)
                      /\ R \subseteq t[k].rows
                      /\ \A r \in t[k].rows \ R : r.list = CHILD_ALIST
           S == {k \in Nat : k <= Len(chain) => good(k)}
<1>0. Len(chain) \in Nat /\ lastId \in Nat
  BY ListAssumption DEF Fillable
<1>1. 0 \in S
  <2>1. t[0] = unfilled(R)
    BY <1>0, ChildrenUnfold
  <2>2. Filling(unfilled(R))
    BY <1>0 DEF Filling, Fillable, unfilled
  <2> QED BY <1>0, <2>1, <2>2 DEF unfilled
<1>2. ASSUME NEW k \in S \cap Nat PROVE k + 1 \in S
  <2> SUFFICES ASSUME k + 1 <= Len(chain) PROVE good(k + 1)
    OBVIOUS
  <2>1. good(k)
    BY <1>0
  <2> DEFINE c == chain[Len(chain) - (k + 1) + 1]
  <2>2. c \in Cond
    BY <1>0
  <2>3. t[k + 1] = appendPrivate(t[k], CHILD_ALIST, c, "never")
    BY <1>0, ChildrenUnfold
  <2>4. t[k].lastId < MaxId /\ t[k].lastId \in Nat
    BY <1>0, <2>1, ListAssumption
  <2> HIDE DEF c
  <2>6. /\ Filling(t[k + 1])
        /\ t[k + 1].lastId \in t[k].lastId..(t[k].lastId + 1)
        /\ t[k].rows \subseteq t[k + 1].rows
        /\ \A r \in t[k + 1].rows \ t[k].rows : r.list = CHILD_ALIST
    <3>1. Filling(t[k]) /\ t[k].lastId < MaxId
      BY <2>1, <2>4
    <3> DEFINE v == t[k]
               w == t[k + 1]
    <3>2. w = appendPrivate(v, CHILD_ALIST, c, "never")
      BY <2>3
    <3>3. Filling(v) /\ v.lastId < MaxId
      BY <3>1
    <3> HIDE DEF S, good, v, w
    <3>4. /\ Filling(w)
          /\ w.lastId \in v.lastId..(v.lastId + 1)
          /\ v.rows \subseteq w.rows
          /\ \A r \in w.rows \ v.rows : r.list = CHILD_ALIST
      BY <2>2, <3>2, <3>3, AppendChild
    <3> QED BY <3>4 DEF v, w
  <2>7. t[k + 1].lastId \in lastId..(lastId + (k + 1))
    <3>1. PICK x \in Nat : x = t[k].lastId
      BY <2>4
    <3>2. x \in lastId..(lastId + k)
      BY <2>1, <3>1
    <3>3. PICK y : y = t[k + 1].lastId /\ y \in x..(x + 1)
      BY <2>6, <3>1
    <3>4. PICK j \in Nat : j = k
      OBVIOUS
    <3>5. y \in lastId..(lastId + (j + 1))
      <4> HIDE DEF S, good
      <4> QED BY <1>0, <3>2, <3>3, <3>4
    <3> QED BY <3>3, <3>4, <3>5
  <2> QED BY <2>1, <2>6, <2>7
<1>3. n \in S
  <2> HIDE DEF S
  <2> QED BY <1>1, <1>2, Induction
<1> QED BY <1>3

LEMMA TailOfChain ==
  ASSUME NEW chain \in Seq(Cond) \ {<<>>}
  PROVE  /\ Len(chain) \in Nat \ {0} /\ chain[1] \in Cond
         /\ Tail(chain) \in Seq(Cond) /\ Len(Tail(chain)) = Len(chain) - 1
         /\ \A i \in 1..(Len(chain) - 1) : Tail(chain)[i] = chain[i + 1]
OBVIOUS

(* What an append() leaves, whether or not every INSERT succeeded.         *)
LEMMA ChainFills ==
  ASSUME NEW R, Fillable(R), NEW chain \in Seq(Cond) \ {<<>>}, lastId + Len(chain) <= MaxId,
         NEW l \in List, NEW expire \in Expiry,
         NEW u, u = insertChain(R, l, chain, expire)
  PROVE  /\ Table(u.rows) /\ R \subseteq u.rows
         /\ u.lastId \in lastId..MaxId
         /\ \A r \in u.rows : r.id <= u.lastId
         /\ \A r \in u.rows \ R : r.list \in {l, CHILD_ALIST}
<1> DEFINE t == appendChildren(R, Tail(chain))[Len(chain) - 1]
<1>1. lastId \in Nat /\ lastId + Len(Tail(chain)) <= MaxId /\ Len(chain) - 1 \in 0..Len(Tail(chain))
  BY TailOfChain, ListAssumption DEF Fillable
<1>2. /\ Filling(t)
      /\ t.lastId \in lastId..(lastId + (Len(chain) - 1))
      /\ R \subseteq t.rows
      /\ \A r \in t.rows \ R : r.list = CHILD_ALIST
  <2> DEFINE c == Tail(chain)
             n == Len(chain) - 1
             f == appendChildren(R, c)
  <2>1. c \in Seq(Cond) /\ n \in 0..Len(c) /\ lastId + Len(c) <= MaxId
    BY <1>1, TailOfChain
  <2>2. t = f[n]
    OBVIOUS
  <2> HIDE DEF c, n, t
  <2>3. /\ Filling(f[n])
        /\ f[n].lastId \in lastId..(lastId + n)
        /\ R \subseteq f[n].rows
        /\ \A r \in f[n].rows \ R : r.list = CHILD_ALIST
    <3> HIDE DEF f
    <3>1. f = appendChildren(R, c)
      BY DEF f
    <3> QED BY <2>1, <3>1, ChildrenFill
  <2> QED BY <2>2, <2>3 DEF n
<1>3. u = appendPrivate(t, l, chain[1], expire)
  BY DEF insertChain
<1>4. l \in List \union {CHILD_ALIST} /\ l # CHILD_ALIST
  BY DEF List, CHILD_ALIST
<1> HIDE DEF t
<1>5. t.lastId < MaxId /\ t.lastId \in Nat
  BY <1>1, <1>2, TailOfChain, ListAssumption
<1>6. /\ Table(u.rows)
      /\ u.lastId \in t.lastId..(t.lastId + 1)
      /\ t.rows \subseteq u.rows
      /\ \A r \in u.rows : r.id <= u.lastId
      /\ \A r \in u.rows \ t.rows : r.list = l
  BY <1>2, <1>3, <1>4, <1>5, TailOfChain, AppendRow
<1>7. u.lastId \in lastId..MaxId
  BY <1>1, <1>2, <1>5, <1>6, ListAssumption
<1> QED BY <1>2, <1>6, <1>7

(* A list that gets no row loads as before.                                *)
LEMMA GrownLoads ==
  ASSUME NEW R, Table(R), NEW Q, Table(Q), R \subseteq Q, NEW l,
         \A r \in Q \ R : r.list # l
  PROVE  load(Q, l) = load(R, l)
<1>1. ASSUME NEW r \in R
      PROVE  itemFromQuery(Q, r) = itemFromQuery(R, r)
  <2>1. \A i \in DOMAIN chainOf(R)[r.id] : chainOf(R)[r.id][i] \in Q
    BY ItemShape
  <2> QED BY <2>1, ItemAcross
<1> QED BY <1>1 DEF load

(* An INSERT that succeeds puts its row in front of the chain so far.      *)
Appended(t, u, list, cond, expire) ==
  /\ u.id > 0
  /\ chainOf(t.rows)[t.id] \in Seq(t.rows)
  /\ \E r \in Row : /\ r.id = u.id /\ r.list = list /\ r.cond = cond /\ r.expire = expire
                   /\ u.rows = t.rows \union {r}
                   /\ chainOf(u.rows)[u.id] = <<r>> \o chainOf(t.rows)[t.id]

LEMMA AppendedChain ==
  ASSUME NEW t, Filling(t), t.lastId < MaxId,
         NEW list \in List \union {CHILD_ALIST}, NEW cond \in Cond, NEW expire \in Expiry,
         list = CHILD_ALIST => expire = "never",
         ~violatesKey(t.rows, list, cond, t.id),
         NEW u, u = appendPrivate(t, list, cond, expire)
  PROVE  Appended(t, u, list, cond, expire)
<1> DEFINE r == [id |-> t.lastId + 1, list |-> list, cond |-> cond, expire |-> expire, child |-> t.id]
<1>0. t.lastId \in Nat /\ t.id \in Int /\ t.id >= -1
  BY ListAssumption DEF Filling
<1>1. u = [rows |-> t.rows \union {r}, lastId |-> t.lastId + 1, id |-> t.lastId + 1]
  BY DEF appendPrivate
<1>2. Table(u.rows) /\ t.rows \subseteq u.rows /\ Table(t.rows)
  BY AppendRow DEF Filling
<1>3. u.rows = t.rows \union {r} /\ u.id = t.lastId + 1 /\ r \in u.rows
  BY <1>1
<1>4. r.id = u.id /\ r.list = list /\ r.cond = cond /\ r.expire = expire /\ r.child = t.id
  BY <1>3
<1>5. r \in Row
  BY <1>2, <1>3 DEF Table
<1> HIDE DEF r
<1>6. chainOf(u.rows)[u.id] = <<r>> \o chainOf(u.rows)[t.id]
  <2>1. chainOf(u.rows)[r.id] = <<r>> \o chainOf(u.rows)[r.child]
    BY <1>2, <1>3, ChainOfRow
  <2> QED BY <1>4, <2>1
<1>7. /\ chainOf(u.rows)[t.id] = chainOf(t.rows)[t.id]
      /\ chainOf(t.rows)[t.id] \in Seq(t.rows)
  <2>1. CASE t.id > 0
    <3>1. PICK q \in t.rows : q.id = t.id
      BY <2>1 DEF Filling
    <3>2. chainOf(t.rows)[q.id] \in Seq(t.rows)
      BY <1>2, ItemShape
    <3>3. \A i \in DOMAIN chainOf(t.rows)[q.id] : chainOf(t.rows)[q.id][i] \in u.rows
      BY <1>2, <3>2
    <3>4. q \in t.rows \intersect u.rows
      BY <1>2
    <3>5. chainOf(u.rows)[q.id] = chainOf(t.rows)[q.id]
      BY <1>2, <3>3, <3>4, ChainAcross
    <3> QED BY <3>1, <3>2, <3>5
  <2>2. CASE ~(t.id > 0)
    <3>1. t.id \in -1..0
      BY <1>0, <2>2
    <3>2. chainOf(u.rows)[t.id] = <<>> /\ chainOf(t.rows)[t.id] = <<>>
      BY <1>2, <3>1, ChainOfNothing
    <3> QED BY <3>2
  <2> QED BY <2>1, <2>2
<1>8. u.id > 0
  BY <1>0, <1>3
<1> QED BY <1>3, <1>4, <1>5, <1>6, <1>7, <1>8 DEF Appended

LEMMA Longer ==
  ASSUME NEW T, NEW r \in T, NEW q \in Seq(T)
  PROVE  /\ <<r>> \o q \in Seq(T) /\ Len(<<r>> \o q) = Len(q) + 1
         /\ (<<r>> \o q)[1] = r /\ \A i \in 1..Len(q) : (<<r>> \o q)[i + 1] = q[i]
  OBVIOUS

LEMMA AppendedChild ==
  ASSUME NEW t, Filling(t), t.lastId < MaxId, NEW cond \in Cond,
         ~violatesKey(t.rows, CHILD_ALIST, cond, t.id),
         NEW u, u = appendPrivate(t, CHILD_ALIST, cond, "never")
  PROVE  Appended(t, u, CHILD_ALIST, cond, "never")
<1>1. "never" \in Expiry /\ CHILD_ALIST \in List \union {CHILD_ALIST}
  BY DEF Expiry
<1> QED BY <1>1, AppendedChain

(* None of these conditions is in a child row.                             *)
freshTail(R, chain) ==
  \A r \in R, i \in 1..Len(chain) : ~(r.list = CHILD_ALIST /\ Test[r.cond] = Test[chain[i]])

(* The table s after n INSERTs holds the last n conditions, linked.        *)
Linked(R, chain, s, n) ==
  LET p == chainOf(s.rows)[s.id]
  IN  /\ n > 0 => s.id > 0
      /\ n = 0 => s.id = 0 /\ s.rows = R
      /\ p \in Seq(s.rows) /\ Len(p) = n
      /\ \A i \in 1..n : p[i].cond = chain[Len(chain) - n + i]

LEMMA ChildrenLink ==
  ASSUME NEW R, Fillable(R), NEW chain \in Seq(Cond), lastId + Len(chain) <= MaxId,
         freshTail(R, chain),
         NEW t, t = appendChildren(R, chain), NEW n \in 0..Len(chain)
  PROVE  Linked(R, chain, t[n], n)
<1> DEFINE p(k) == chainOf(t[k].rows)[t[k].id]
           good(k) == /\ k > 0 => t[k].id > 0
                      /\ k = 0 => t[k].id = 0 /\ t[k].rows = R
                      /\ p(k) \in Seq(t[k].rows) /\ Len(p(k)) = k
                      /\ \A i \in 1..k : p(k)[i].cond = chain[Len(chain) - k + i]
           S == {k \in Nat : k <= Len(chain) => good(k)}
<1>0. Len(chain) \in Nat /\ lastId \in Nat
  BY ListAssumption DEF Fillable
<1>1. 0 \in S
  <2>1. t[0] = unfilled(R)
    BY <1>0, ChildrenUnfold
  <2>2. t[0].id = 0 /\ t[0].rows = R
    BY <2>1 DEF unfilled
  <2>3. p(0) = <<>>
    BY <2>2, ChainOfNothing DEF Fillable
  <2>4. p(0) \in Seq(t[0].rows) /\ Len(p(0)) = 0
    BY <2>3
  <2> HIDE DEF p
  <2> QED BY <2>2, <2>4
<1>2. ASSUME NEW k \in S \cap Nat PROVE k + 1 \in S
  <2> SUFFICES ASSUME k + 1 <= Len(chain) PROVE good(k + 1)
    OBVIOUS
  <2>1. good(k)
    BY <1>0
  <2> DEFINE v == t[k]
             w == t[k + 1]
             m == Len(chain) - (k + 1) + 1
             c == chain[m]
  <2>2. c \in Cond /\ m \in 1..Len(chain) /\ m = Len(chain) - k
    <3>1. k \in Nat
      OBVIOUS
    <3> HIDE DEF S, good, p
    <3>2. m \in 1..Len(chain) /\ m = Len(chain) - k
      BY <1>0, <3>1
    <3> HIDE DEF m
    <3> QED BY <3>2
  <2>3. w = appendPrivate(v, CHILD_ALIST, c, "never")
    BY <1>0, ChildrenUnfold
  <2>4. /\ Filling(v) /\ v.lastId < MaxId
        /\ R \subseteq v.rows /\ \A r \in v.rows \ R : r.list = CHILD_ALIST
    <3>1. k \in 0..Len(chain)
      BY <1>0
    <3>2. /\ Filling(v) /\ v.lastId \in lastId..(lastId + k)
          /\ R \subseteq v.rows /\ \A r \in v.rows \ R : r.list = CHILD_ALIST
      BY <3>1, ChildrenFill
    <3> QED BY <1>0, <3>2, ListAssumption
  <2>5. ~violatesKey(v.rows, CHILD_ALIST, c, v.id)
    <3> SUFFICES ASSUME NEW r \in v.rows, r.list = CHILD_ALIST, Test[r.cond] = Test[c],
                        r.child = v.id
                 PROVE  FALSE
      BY DEF violatesKey
    <3>1. r \notin R
      BY <2>2 DEF freshTail
    <3>2. k > 0
      BY <2>1, <3>1
    <3> QED BY <2>1, <2>4, <3>2 DEF Filling
  <2>6. p(k) \in Seq(v.rows) /\ Len(p(k)) = k
        /\ \A i \in 1..k : p(k)[i].cond = chain[Len(chain) - k + i]
    BY <2>1
  <2> DEFINE q == p(k)
  <2>7. PICK r \in Row : /\ r.cond = c /\ w.rows = v.rows \union {r} /\ w.id > 0
                        /\ chainOf(w.rows)[w.id] = <<r>> \o q
    <3> HIDE DEF v, w, c
    <3>1. Appended(v, w, CHILD_ALIST, c, "never")
      BY <2>2, <2>3, <2>4, <2>5, AppendedChild
    <3>2. q = chainOf(v.rows)[v.id]
      BY DEF v
    <3> QED BY <3>1, <3>2 DEF Appended
  <2>8. p(k + 1) = <<r>> \o q
    BY <2>7
  <2>9. q \in Seq(w.rows) /\ r \in w.rows /\ Len(q) = k
    <3> DEFINE V == v.rows
               W == w.rows
    <3>1. q \in Seq(V) /\ Len(q) = k
      BY <2>6
    <3>2. W = V \union {r}
      BY <2>7
    <3> HIDE DEF V, W, q
    <3>3. q \in Seq(W) /\ r \in W
      BY <3>1, <3>2
    <3> QED BY <3>1, <3>3 DEF W
  <2> HIDE DEF q
  <2>10. /\ p(k + 1) \in Seq(w.rows) /\ Len(p(k + 1)) = k + 1
         /\ p(k + 1)[1] = r /\ \A i \in 1..k : p(k + 1)[i + 1] = q[i]
    <3> DEFINE T == w.rows
    <3>1. q \in Seq(T) /\ r \in T
      BY <2>9
    <3> HIDE DEF p, w, T
    <3>2. /\ <<r>> \o q \in Seq(T) /\ Len(<<r>> \o q) = k + 1
          /\ (<<r>> \o q)[1] = r /\ \A i \in 1..k : (<<r>> \o q)[i + 1] = q[i]
      BY <2>9, <3>1, Longer
    <3> QED BY <2>8, <3>2 DEF T
  <2>11. ASSUME NEW i \in 1..(k + 1) PROVE p(k + 1)[i].cond = chain[Len(chain) - (k + 1) + i]
    <3>1. CASE i = 1
      BY <2>7, <2>10, <3>1
    <3>2. CASE i # 1
      <4>1. i - 1 \in 1..k /\ (i - 1) + 1 = i
        BY <3>2
      <4>2. p(k + 1)[(i - 1) + 1] = q[i - 1]
        BY <2>10, <4>1
      <4>3. q[i - 1].cond = chain[Len(chain) - k + (i - 1)]
        BY <2>6, <4>1 DEF q
      <4>4. Len(chain) - k + (i - 1) = Len(chain) - (k + 1) + i
        BY <1>0
      <4> QED BY <4>1, <4>2, <4>3, <4>4
    <3> QED BY <3>1, <3>2
  <2>12. k + 1 > 0 /\ k + 1 # 0
    OBVIOUS
  <2> QED BY <2>7, <2>10, <2>11, <2>12
<1>3. n \in S
  <2> HIDE DEF S
  <2> QED BY <1>1, <1>2, Induction
<1> QED BY <1>3 DEF Linked

(* A rule that is inserted is there, whole, and no other rule of its list  *)
(* changes: unless the unique key has something against it.                *)
LEMMA InsertedRule ==
  ASSUME NEW R, Fillable(R), NEW chain \in Seq(Cond) \ {<<>>}, lastId + Len(chain) <= MaxId,
         ~tailIsStored(R, chain), NEW l \in List, NEW expire \in Expiry,
         Len(chain) = 1 => ~violatesKey(R, l, chain[1], 0),
         NEW u, u = insertChain(R, l, chain, expire)
  PROVE  \E x \in Item : /\ x.chain = chain /\ x.expire = expire
                        /\ load(u.rows, l) = load(R, l) \union {x}
<1> DEFINE c == Tail(chain)
           n == Len(chain) - 1
           f == appendChildren(R, c)
           t == f[n]
           p == chainOf(t.rows)[t.id]
<1>0. lastId \in Nat /\ Len(chain) \in Nat \ {0}
  BY TailOfChain DEF Fillable
<1>1. c \in Seq(Cond) /\ Len(c) = n /\ n \in 0..Len(c) /\ lastId + Len(c) <= MaxId
      /\ \A i \in 1..n : c[i] = chain[i + 1]
  BY <1>0, TailOfChain, ListAssumption
<1>2. freshTail(R, c)
  <2> SUFFICES ASSUME NEW r \in R, NEW i \in 1..n, r.list = CHILD_ALIST, Test[r.cond] = Test[c[i]]
               PROVE  FALSE
    BY <1>1 DEF freshTail
  <2>1. i + 1 \in 2..Len(chain) /\ c[i] = chain[i + 1]
    BY <1>0, <1>1
  <2> HIDE DEF c
  <2> QED BY <2>1 DEF tailIsStored
<1>3. u = appendPrivate(t, l, chain[1], expire)
  BY DEF insertChain
<1>4. f = appendChildren(R, c)
  OBVIOUS
<1> HIDE DEF c, f
<1>5. /\ Filling(t)
      /\ t.lastId \in lastId..(lastId + n)
      /\ R \subseteq t.rows
      /\ \A r \in t.rows \ R : r.list = CHILD_ALIST
  <2> HIDE DEF n
  <2> QED BY <1>1, <1>4, ChildrenFill
<1>6. /\ n > 0 => t.id > 0
      /\ n = 0 => t.id = 0 /\ t.rows = R
      /\ p \in Seq(t.rows) /\ Len(p) = n
      /\ \A i \in 1..n : p[i].cond = c[Len(c) - n + i]
  <2>1. Linked(R, c, t, n)
    <3> HIDE DEF n
    <3> QED BY <1>1, <1>2, <1>4, ChildrenLink
  <2> QED BY <2>1 DEF Linked
<1> HIDE DEF t
<1>7. \A i \in 1..n : p[i].cond = chain[i + 1]
  <2> TAKE i \in 1..n
  <2>1. Len(c) - n + i = i
    BY <1>0, <1>1
  <2> QED BY <1>1, <1>6, <2>1
<1>8. t.lastId < MaxId
  BY <1>0, <1>5, ListAssumption
<1>9. ~violatesKey(t.rows, l, chain[1], t.id)
  <2>1. CASE n = 0
    BY <1>0, <1>6, <2>1
  <2>2. CASE n # 0
    <3>1. n > 0
      <4>1. n \in Nat
        BY <1>0
      <4> HIDE DEF n
      <4> QED BY <2>2, <4>1
    <3>2. t.id > 0
      BY <1>6, <3>1
    <3> QED BY <1>5, <3>2 DEF Filling, violatesKey
  <2> QED BY <2>1, <2>2
<1>10. l \in List \union {CHILD_ALIST} /\ l # CHILD_ALIST /\ chain[1] \in Cond
  BY TailOfChain DEF List, CHILD_ALIST
<1>11. Appended(t, u, l, chain[1], expire)
  BY <1>3, <1>5, <1>8, <1>9, <1>10, AppendedChain
<1>12. PICK r \in Row : /\ r.id = u.id /\ r.list = l /\ r.cond = chain[1] /\ r.expire = expire
                       /\ u.rows = t.rows \union {r}
                       /\ chainOf(u.rows)[u.id] = <<r>> \o p
  BY <1>11 DEF Appended
<1>13. Table(u.rows) /\ R \subseteq u.rows /\ Table(R)
  BY <1>5, <1>12, ChainFills DEF Fillable
<1> DEFINE x == itemFromQuery(u.rows, r)
           q == chainOf(u.rows)[r.id]
<1>14. r \in u.rows /\ q = <<r>> \o p
  BY <1>12
<1>15. x \in Item /\ x.chain \in Seq(Cond) /\ Len(x.chain) = Len(q) /\ x.expire = expire
       /\ \A i \in 1..Len(q) : x.chain[i] = q[i].cond
  <2>0. r \in u.rows
    BY <1>14
  <2>1. x = itemFromQuery(u.rows, r) /\ q = chainOf(u.rows)[r.id]
    OBVIOUS
  <2> HIDE DEF x, q
  <2>2. x \in Item
    BY <1>13, <1>14, <2>1, ItemType
  <2>3. x.chain \in Seq(Cond) /\ Len(x.chain) = Len(q) /\ x.expire = r.expire
        /\ \A i \in 1..Len(q) : x.chain[i] = q[i].cond
    BY <1>13, <2>0, <2>1, ItemShape
  <2> QED BY <1>12, <2>2, <2>3
<1>16. p \in Seq(u.rows) /\ Len(p) = n
  BY <1>6, <1>12
<1> HIDE DEF p, q, x
<1>17. Len(q) = n + 1 /\ q[1] = r /\ \A i \in 1..n : q[i + 1] = p[i]
  <2> DEFINE T == u.rows
  <2>1. p \in Seq(T) /\ r \in T
    BY <1>14, <1>16
  <2> HIDE DEF T
  <2>2. Len(<<r>> \o p) = Len(p) + 1 /\ (<<r>> \o p)[1] = r
        /\ \A i \in 1..Len(p) : (<<r>> \o p)[i + 1] = p[i]
    BY <2>1, Longer
  <2> QED BY <1>14, <1>16, <2>2
<1>18. x.chain = chain
  <2>1. Len(x.chain) = Len(chain) /\ chain \in Seq(Cond)
    BY <1>0, <1>15, <1>17
  <2>2. ASSUME NEW i \in 1..Len(chain) PROVE x.chain[i] = chain[i]
    <3>1. CASE i = 1
      BY <1>0, <1>12, <1>15, <1>17, <3>1
    <3>2. CASE i # 1
      <4>1. i - 1 \in 1..n /\ (i - 1) + 1 = i /\ i \in 1..(n + 1)
        BY <1>0, <3>2
      <4>2. q[i] = p[i - 1] /\ p[i - 1].cond = chain[i]
        BY <1>7, <1>17, <4>1
      <4> QED BY <1>15, <1>17, <4>1, <4>2
    <3> QED BY <3>1, <3>2
  <2> QED BY <1>15, <2>1, <2>2, SeqEqual
<1>19. load(u.rows, l) = load(R, l) \union {x}
  <2>1. \A s \in u.rows : s.list = l => s \in R \/ s = r
    BY <1>5, <1>10, <1>12
  <2>2. ASSUME NEW s \in R PROVE itemFromQuery(u.rows, s) = itemFromQuery(R, s)
    <3>1. \A i \in DOMAIN chainOf(R)[s.id] : chainOf(R)[s.id][i] \in u.rows
      BY <1>13, ItemShape
    <3> QED BY <1>13, <3>1, ItemAcross
  <2>3. load(u.rows, l) = {itemFromQuery(u.rows, s) : s \in {s \in R : s.list = l} \union {r}}
    BY <1>12, <1>13, <1>14, <2>1 DEF load
  <2>4. {itemFromQuery(u.rows, s) : s \in {s \in R : s.list = l}} = load(R, l)
    BY <2>2 DEF load
  <2> QED BY <2>3, <2>4 DEF x
<1> QED BY <1>15, <1>18, <1>19

-----------------------------------------------------------------------------
(* The time of a rule comes.                                               *)

(* One row of a list is written again; only its expire may differ.         *)
Changed(R, Q, r, a) ==
  /\ r \in R /\ isTop(r)
  /\ a \in Row /\ a.id = r.id /\ a.list = r.list /\ a.cond = r.cond /\ a.child = r.child
  /\ a \in Q
  /\ \A q \in Q : q = a \/ (q \in R /\ q # r)
  /\ \A q \in R : q = r \/ q \in Q

LEMMA ChangedTable ==
  ASSUME NEW R, Table(R), NEW Q, NEW r, NEW a, Changed(R, Q, r, a)
  PROVE  Table(Q)
<1>1. /\ r \in R /\ isTop(r) /\ a \in Row /\ a.id = r.id /\ a.list = r.list /\ a.child = r.child
      /\ a \in Q
  BY DEF Changed
<1>2. \A q \in Q : q = a \/ (q \in R /\ q # r)
  BY DEF Changed
<1>3. \A q \in R : q = r \/ q \in Q
  BY DEF Changed
<1>4. Q \subseteq Row
  BY <1>1, <1>2 DEF Table
<1>5. \A p, q \in Q : p.id = q.id => p = q
  BY <1>1, <1>2 DEF Table
<1>6. \A q \in Q : q.child < q.id
  BY <1>1, <1>2 DEF Table
<1>7. \A q \in Q : q.list = CHILD_ALIST => q.expire = "never"
  BY <1>1, <1>2 DEF Table, isTop
<1>8. ASSUME NEW q \in Q, q.child > 0
      PROVE  /\ \E c \in Q : c.id = q.child /\ c.list = CHILD_ALIST
             /\ \A c \in Q : c.child = q.child => c = q
  <2> DEFINE s == IF q = a THEN r ELSE q
  <2>1. s \in R /\ s.child = q.child
    BY <1>1, <1>2
  <2> HIDE DEF s
  <2>2. PICK c \in R : c.id = q.child /\ c.list = CHILD_ALIST
    BY <1>8, <2>1 DEF Table
  <2>3. c \in Q
    BY <1>1, <1>3, <2>2 DEF isTop
  <2>4. \A d \in R : d.child = q.child => d = s
    BY <1>8, <2>1 DEF Table
  <2>5. \A d \in Q : d.child = q.child => d = q
    BY <1>1, <1>2, <2>4 DEF s
  <2> QED BY <2>2, <2>3, <2>5
<1> QED BY <1>4, <1>5, <1>6, <1>7, <1>8 DEF Table

LEMMA ChangedItem ==
  ASSUME NEW R, Table(R), NEW Q, NEW r, NEW a, Changed(R, Q, r, a),
         NEW q \in R, isTop(q), NEW s, s = IF q = r THEN a ELSE q
  PROVE  /\ s \in Q
         /\ itemFromQuery(Q, s) = [itemFromQuery(R, q) EXCEPT !.expire = s.expire]
<1>1. Table(Q)
  BY ChangedTable
<1>2. /\ a.id = r.id /\ a.cond = r.cond /\ a.child = r.child
      /\ \A x \in R : (IF x = r THEN a ELSE x) \in Q
  BY DEF Changed
<1>3. s \in Q /\ s.id = q.id
  BY <1>2
<1> DEFINE p == chainOf(R)[q.id]
           f(x) == IF x = r THEN a ELSE x
           c == [i \in 1..Len(p) |-> f(p[i])]
           d == chainOf(Q)[s.id]
           x == itemFromQuery(R, q)
           y == itemFromQuery(Q, s)
<1>4. /\ IsPath(R, p) /\ p \in Seq(R) /\ p[1] = q /\ Len(p) \in Nat \ {0} /\ Len(x.ids) = Len(p)
      /\ x.ids \in Seq(1..MaxId) /\ x.chain \in Seq(Cond) /\ Len(x.chain) = Len(p)
      /\ \A i \in 1..Len(p) : x.ids[i] = p[i].id /\ x.chain[i] = p[i].cond
      /\ x = [ids |-> x.ids, chain |-> x.chain, expire |-> x.expire]
  BY ItemShape
<1>5. /\ IsPath(Q, d) /\ d[1] = s
      /\ y.ids \in Seq(1..MaxId) /\ y.chain \in Seq(Cond)
      /\ Len(y.ids) = Len(d) /\ Len(y.chain) = Len(d)
      /\ \A i \in 1..Len(d) : y.ids[i] = d[i].id /\ y.chain[i] = d[i].cond
      /\ y = [ids |-> y.ids, chain |-> y.chain, expire |-> y.expire] /\ y.expire = s.expire
  BY <1>1, <1>3, ItemShape
<1> HIDE DEF p, x, y
<1>6. \A i \in 1..Len(p) : /\ p[i] \in R /\ c[i] = f(p[i]) /\ c[i] \in Q
                          /\ c[i].id = p[i].id /\ c[i].child = p[i].child
                          /\ c[i].cond = p[i].cond
  BY <1>2, <1>4
<1>7. c \in Seq(Q) /\ Len(c) = Len(p) /\ c # <<>>
  BY <1>4, <1>6
<1>8. c[1] = s
  BY <1>4
<1> HIDE DEF c, d, f
<1>9. IsPath(Q, c)
  <2>1. \A i \in 1..(Len(c) - 1) : i \in 1..Len(p) /\ i + 1 \in 1..Len(p)
    BY <1>4, <1>7
  <2>2. \A i \in 1..(Len(c) - 1) : c[i + 1].id = c[i].child
    BY <1>6, <1>7, <2>1, <1>4 DEF IsPath
  <2>3. Len(c) \in 1..Len(p) /\ c[Len(c)].child <= 0
    BY <1>4, <1>6, <1>7 DEF IsPath
  <2> QED BY <1>7, <2>2, <2>3 DEF IsPath
<1>10. c = d
  BY <1>1, <1>5, <1>8, <1>9, OnePath
<1>11. Len(d) = Len(p) /\ \A i \in 1..Len(p) : d[i].id = p[i].id /\ d[i].cond = p[i].cond
  BY <1>6, <1>7, <1>10
<1>12. y.ids = x.ids
  <2>1. Len(y.ids) = Len(x.ids) /\ \A i \in 1..Len(x.ids) : y.ids[i] = x.ids[i]
    BY <1>4, <1>5, <1>11
  <2> QED BY <1>4, <1>5, <2>1, SeqEqual
<1>13. y.chain = x.chain
  <2>1. Len(y.chain) = Len(x.chain) /\ \A i \in 1..Len(x.chain) : y.chain[i] = x.chain[i]
    BY <1>4, <1>5, <1>11
  <2> QED BY <1>4, <1>5, <2>1, SeqEqual
<1>14. y = [x EXCEPT !.expire = s.expire]
  BY <1>4, <1>5, <1>12, <1>13
<1> QED BY <1>3, <1>14 DEF x, y

(* The rule falls due, in the table as in the lists.                       *)
due(x) == [x EXCEPT !.expire = "past"]

LEMMA DueChanges ==
  ASSUME NEW R, Table(R), NEW r \in R, r.expire = "ahead",
         NEW Q, Q = (R \ {r}) \union {due(r)}
  PROVE  Changed(R, Q, r, due(r))
<1>1. isTop(r)
  BY DEF Table, isTop
<1>2. r \in Row
  BY DEF Table
<1>3. /\ due(r) \in Row /\ due(r).id = r.id /\ due(r).list = r.list
      /\ due(r).cond = r.cond /\ due(r).child = r.child
  BY <1>2 DEF due, Row, Expiry
<1> HIDE DEF due
<1> QED BY <1>1, <1>3 DEF Changed

LEMMA DueLoads ==
  ASSUME NEW R, Table(R), NEW r \in R, r.expire = "ahead",
         NEW Q, Q = (R \ {r}) \union {due(r)}, NEW l \in List
  PROVE  load(Q, l) = {IF x.ids[1] = r.id THEN due(x) ELSE x : x \in load(R, l)}
<1> DEFINE a == due(r)
           f(q) == IF q = r THEN a ELSE q
           g(x) == IF x.ids[1] = r.id THEN due(x) ELSE x
<1>1. Changed(R, Q, r, a)
  BY DueChanges
<1>2. a.expire = "past" /\ a.list = r.list
  <2>1. r \in Row
    BY DEF Table
  <2> QED BY <2>1 DEF due, Row
<1> HIDE DEF a
<1>3. ASSUME NEW q \in R, q.list = l
      PROVE  f(q) \in Q /\ f(q).list = l /\ itemFromQuery(Q, f(q)) = g(itemFromQuery(R, q))
  <2>1. isTop(q)
    BY <1>3 DEF isTop, List, CHILD_ALIST
  <2>2. f(q) \in Q /\ itemFromQuery(Q, f(q)) = [itemFromQuery(R, q) EXCEPT !.expire = f(q).expire]
    BY <1>1, <2>1, ChangedItem
  <2>3. itemFromQuery(R, q).ids[1] = q.id
    BY ItemNamesRow
  <2>4. CASE q = r
    BY <1>2, <1>3, <2>2, <2>3, <2>4 DEF due
  <2>5. CASE q # r
    <3> DEFINE x == itemFromQuery(R, q)
    <3>1. x = [ids |-> x.ids, chain |-> x.chain, expire |-> x.expire] /\ x.expire = q.expire
      BY ItemShape
    <3>2. x.ids[1] # r.id
      BY <2>3, <2>5 DEF Table
    <3>3. itemFromQuery(Q, q) = [x EXCEPT !.expire = q.expire]
      BY <2>2, <2>5
    <3> HIDE DEF x
    <3>4. [x EXCEPT !.expire = q.expire] = x
      BY <3>1
    <3> QED BY <1>3, <2>2, <2>5, <3>2, <3>3, <3>4 DEF x
  <2> QED BY <2>4, <2>5
<1>4. \A q \in Q : q.list = l => \E s \in R : s.list = l /\ q = f(s)
  BY <1>1, <1>2 DEF Changed
<1> HIDE DEF f, g
<1>5. \A x : x \in load(Q, l) <=> \E q \in Q : q.list = l /\ x = itemFromQuery(Q, q)
  BY DEF load
<1>6. \A x : x \in {g(y) : y \in load(R, l)}
          <=> \E s \in R : s.list = l /\ x = g(itemFromQuery(R, s))
  BY DEF load
<1>7. load(Q, l) \subseteq {g(y) : y \in load(R, l)}
  <2> SUFFICES ASSUME NEW x \in load(Q, l) PROVE x \in {g(y) : y \in load(R, l)}
    OBVIOUS
  <2>1. PICK q \in Q : q.list = l /\ x = itemFromQuery(Q, q)
    BY <1>5
  <2>2. PICK s \in R : s.list = l /\ q = f(s)
    BY <1>4, <2>1
  <2> QED BY <1>3, <1>6, <2>1, <2>2
<1>8. {g(y) : y \in load(R, l)} \subseteq load(Q, l)
  BY <1>3, <1>5, <1>6
<1>9. load(Q, l) = {g(y) : y \in load(R, l)}
  BY <1>7, <1>8
<1> QED BY <1>9 DEF g

-----------------------------------------------------------------------------
(* The commands, on a table and the items loaded from it.                  *)

allItems(R) == [l \in List |-> load(R, l)]

LEMMA RemoveItem ==
  ASSUME NEW R, Table(R), NEW l \in List, NEW x \in load(R, l)
  PROVE  /\ Table(removeItem(R, x)) /\ removeItem(R, x) \subseteq R
         /\ allItems(removeItem(R, x)) = [k \in List |-> load(R, k) \ {x}]
<1>1. {x} \subseteq Rules(R)
  BY DEF Rules
<1>2. removeItem(R, x) = Without(R, rowsOf({x}))
  BY DEF removeItem, rowsOf
<1>3. Table(removeItem(R, x))
  BY <1>1, <1>2, DeletedShrinks
<1>4. \A k \in List : load(removeItem(R, x), k) = load(R, k) \ {x}
  BY <1>1, <1>2, OthersStay
<1>5. removeItem(R, x) \subseteq R
  BY <1>2 DEF Without
<1> QED BY <1>3, <1>4, <1>5 DEF allItems

(* An item is in one list only.                                            *)
LEMMA ItemInOneList ==
  ASSUME NEW R, Table(R), NEW k \in List, NEW l \in List, NEW x,
         x \in load(R, k), x \in load(R, l)
  PROVE  k = l
<1>1. PICK q \in R : q.list = k /\ x = itemFromQuery(R, q)
  BY DEF load
<1>2. PICK r \in R : r.list = l /\ x = itemFromQuery(R, r)
  BY DEF load
<1> QED BY <1>1, <1>2, ItemsDiffer

LEMMA ClearList ==
  ASSUME NEW R, Table(R), NEW l \in List, NEW Q, Q = Without(R, rowsOf(load(R, l)))
  PROVE  /\ Table(Q) /\ Q \subseteq R
         /\ allItems(Q) = [allItems(R) EXCEPT ![l] = {}]
<1>1. load(R, l) \subseteq Rules(R)
  BY DEF Rules
<1>2. Table(Q) /\ \A k \in List : load(Q, k) = load(R, k) \ load(R, l)
  BY <1>1, DeletedShrinks, OthersStay
<1>3. \A k \in List : k # l => load(R, k) \ load(R, l) = load(R, k)
  BY ItemInOneList
<1>4. Q \subseteq R
  BY DEF Without
<1> QED BY <1>2, <1>3, <1>4 DEF allItems

(* The items of the lists L whose time has passed.                         *)
expired(R, L) == {x \in UNION {load(R, l) : l \in L} : isExpired(x)}

LEMMA RemoveExpired ==
  ASSUME NEW R, Table(R), NEW L, L \subseteq List,
         NEW t, t = removeExpired([rows |-> R, items |-> allItems(R)], L)
  PROVE  /\ Table(t.rows) /\ t.rows \subseteq R
         /\ t.items = allItems(t.rows)
         /\ \A l \in List : load(t.rows, l) = load(R, l) \ expired(R, L)
<1> DEFINE gone == expired(R, L)
           Q == Without(R, rowsOf(gone))
<1>1. gone \subseteq Rules(R)
  BY DEF expired, Rules
<1>2. gone = {x \in UNION {allItems(R)[l] : l \in L} : isExpired(x)}
  <2>1. \A l \in L : allItems(R)[l] = load(R, l)
    BY DEF allItems
  <2> QED BY <2>1 DEF expired
<1>3. t = [rows |-> Q,
           items |-> [l \in List |-> IF allItems(R)[l] \intersect gone = {} THEN allItems(R)[l]
                                     ELSE load(Q, l)]]
  <2> HIDE DEF gone
  <2> QED BY <1>2 DEF removeExpired, rowsOf
<1>4. Table(Q) /\ \A l \in List : load(Q, l) = load(R, l) \ gone
  BY <1>1, DeletedShrinks, OthersStay
<1>5. Q \subseteq R
  BY DEF Without
<1> HIDE DEF gone, Q
<1>6. \A l \in List : (IF allItems(R)[l] \intersect gone = {} THEN allItems(R)[l] ELSE load(Q, l)) = load(Q, l)
  <2> TAKE l \in List
  <2>1. allItems(R)[l] = load(R, l)
    BY DEF allItems
  <2> QED BY <1>4, <2>1
<1>7. t.rows = Q /\ t.items = allItems(Q)
  BY <1>3, <1>6 DEF allItems
<1> QED BY <1>4, <1>5, <1>7 DEF gone
=============================================================================
