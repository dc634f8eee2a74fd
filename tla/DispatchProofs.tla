---------------------------- MODULE DispatchProofs ----------------------------
(***************************************************************************)
(* Proofs about Dispatch, for any order of the plugins, any people with    *)
(* any roles, any aliases and rules, and whatever is said.  First types,   *)
(* then three invariants: of the nesting (Sound: each call by itself, each *)
(* call and the one it has made, and a rank that falls from call to call), *)
(* of the outermost call (what may become of the message itself), and of   *)
(* the access list (Watched: who it is that a call past it speaks as).     *)
(***************************************************************************)
EXTENDS Dispatch, FiniteSetTheorems, SequenceTheorems, TLAPS

-----------------------------------------------------------------------------
(* What the three ways to go on make of the stack.                         *)

LEMMA TopType ==
  ASSUME TypeOK, stack # <<>>
  PROVE  /\ Len(stack) \in Nat \ {0} /\ Len(stack) \in DOMAIN stack
         /\ DOMAIN stack = 1..Len(stack)
         /\ Top = stack[Len(stack)] /\ Top \in Frame
         /\ \A i \in 1..Len(stack) : stack[i] \in Frame
BY DEF TypeOK, Top, Last

LEMMA MemberFrame ==
  ASSUME NEW t \in Frame, t.at <= Len(Order), NEW r \in SUBSET (Nat \X DOMAIN Rule),
         NEW x \in Occupant,
         NEW g, g = [t EXCEPT !.pc = "member", !.rest = r, !.nick = x]
  PROVE  g \in Frame /\ g.pc = "member" /\ g.at = t.at
BY DEF Frame

LEMMA BecomesStack ==
  ASSUME TypeOK, stack # <<>>, NEW f \in Frame, Becomes(f)
  PROVE  /\ stack' \in Seq(Frame) /\ Len(stack') = Len(stack)
         /\ stack'[Len(stack)] = f
         /\ \A i \in 1..(Len(stack) - 1) : stack'[i] = stack[i]
BY TopType DEF TypeOK, Becomes

LEMMA CallsStack ==
  ASSUME TypeOK, stack # <<>>, NEW f \in Frame, NEW g \in Frame, Calls(f, g)
  PROVE  /\ stack' \in Seq(Frame) /\ Len(stack') = Len(stack) + 1
         /\ stack'[Len(stack)] = f /\ stack'[Len(stack) + 1] = g
         /\ \A i \in 1..(Len(stack) - 1) : stack'[i] = stack[i]
<1>1. [stack EXCEPT ![Len(stack)] = f] \in Seq(Frame)
  BY TopType DEF TypeOK
<1>2. QED
  BY <1>1, TopType DEF TypeOK, Calls

LEMMA ReturnsStack ==
  ASSUME TypeOK, stack # <<>>, NEW s \in Stanza, Returns(s)
  PROVE  /\ stack' \in Seq(Frame) /\ Len(stack') = Len(stack) - 1
         /\ \A i \in 1..(Len(stack) - 2) : stack'[i] = stack[i]
         /\ Len(stack) > 1 =>
              stack'[Len(stack) - 1] =
                IF stack[Len(stack) - 1].pc = "expand"
                THEN [stack[Len(stack) - 1] EXCEPT !.s = s] ELSE stack[Len(stack) - 1]
<1> DEFINE below == Front(stack)
<1>1. /\ below \in Seq(Frame) /\ Len(below) = Len(stack) - 1
      /\ \A i \in 1..(Len(stack) - 1) : below[i] = stack[i]
  <2> DEFINE n == Len(stack) - 1
  <2>1. n \in Nat /\ \A i \in 1..n : stack[i] \in Frame
    BY TopType
  <2>2. SubSeq(stack, 1, n) \in Seq(Frame) /\ Len(SubSeq(stack, 1, n)) = n
    BY <2>1, TopType, SubSeqProperties
  <2>3. \A i \in 1..n : SubSeq(stack, 1, n)[i] = stack[i]
    BY <2>1, TopType, SubSeqProperties
  <2>4. QED
    BY <2>2, <2>3 DEF Front
<1>2. below # <<>> <=> Len(stack) > 1
  BY <1>1, TopType
<1>3. below # <<>> => Last(below) = stack[Len(stack) - 1]
  BY <1>1, <1>2, TopType DEF Last
<1>4. stack' = IF below # <<>> /\ Last(below).pc = "expand"
               THEN [below EXCEPT ![Len(below)].s = s] ELSE below
  BY DEF Returns
<1>5. CASE below # <<>> /\ Last(below).pc = "expand"
  <2>1. below[Len(below)] \in Frame /\ Len(below) \in 1..Len(below)
    BY <1>1, <1>2, <1>5, TopType
  <2>2. [below[Len(below)] EXCEPT !.s = s] \in Frame
    BY <2>1 DEF Frame
  <2>3. stack' = [below EXCEPT ![Len(below)] = [below[Len(below)] EXCEPT !.s = s]]
    BY <1>4, <1>5
  <2> HIDE DEF below
  <2>4. /\ stack' \in Seq(Frame) /\ Len(stack') = Len(below)
        /\ stack'[Len(below)] = [below[Len(below)] EXCEPT !.s = s]
        /\ \A i \in 1..(Len(below) - 1) : stack'[i] = below[i]
    BY <1>1, <2>1, <2>2, <2>3
  <2>5. QED
    <3>1. Len(stack') = Len(stack) - 1 /\ Len(below) = Len(stack) - 1 /\ Len(stack) > 1
      BY <1>1, <1>2, <1>5, <2>4
    <3>2. \A i \in 1..(Len(stack) - 2) : stack'[i] = stack[i]
      BY <1>1, <2>4, <3>1, TopType
    <3>3. stack'[Len(stack) - 1] = [stack[Len(stack) - 1] EXCEPT !.s = s]
      BY <1>3, <1>5, <2>4, <3>1 DEF Last
    <3>4. QED
      BY <1>3, <1>5, <2>4, <3>1, <3>2, <3>3
<1>6. CASE ~(below # <<>> /\ Last(below).pc = "expand")
  <2>1. stack' = below
    BY <1>4, <1>6
  <2> HIDE DEF below
  <2>2. QED
    BY <1>1, <1>2, <1>3, <1>6, <2>1, TopType
<1>7. QED
  BY <1>5, <1>6

-----------------------------------------------------------------------------
(* Types.                                                                  *)

LEMMA CallType ==
  ASSUME NEW s \in Stanza, NEW flags \in SUBSET {"acmd", "glooxbot_alias"}
  PROVE  Call(s, flags) \in Frame
BY DispatchAssumption DEF Call, Frame

LEMMA PassType ==
  ASSUME NEW f \in Frame, NEW s \in Stanza, f.at <= Len(Order)
  PROVE  [f EXCEPT !.s = s, !.at = @ + 1, !.pc = "offer"] \in Frame
<1>1. Len(Order) \in Nat
  BY DispatchAssumption
<1>2. f.at + 1 \in 1..(Len(Order) + 1)
  BY <1>1 DEF Frame
<1>3. QED
  BY <1>2 DEF Frame

LEMMA FindType ==
  ASSUME TypeOK, NEW p, NEW b
  PROVE  aFind(p, b) \in SUBSET (Nat \X DOMAIN Rule)
BY DEF TypeOK, aFind

LEMMA ListType ==
  ASSUME NEW q \in SUBSET DOMAIN Rule
  PROVE  SetToSeq(q) \in Seq(DOMAIN Rule)
<1>1. IsFiniteSet(q)
  BY DispatchAssumption, FS_Subset
<1>2. PICK n \in Nat : ExistsBijection(1..n, q)
  BY <1>1, FS_NatBijection
<1>3. Cardinality(q) = n
  BY <1>2, FS_CountingElements
<1>4. PICK f \in Bijection(1..n, q) : TRUE
  BY <1>2 DEF ExistsBijection
<1>5. f \in [1..n -> q] /\ IsInjective(f)
  BY <1>4 DEF Bijection, Injection, IsInjective
<1>6. SetToSeq(q) \in [1..n -> q]
  BY <1>3, <1>5 DEF SetToSeq
<1>7. QED
  BY <1>6

LEMMA ListsType ==
  ASSUME TypeOK, NEW b \in Bodies
  PROVE  commandList(b) \in Seq(DOMAIN Rule)
<1>1. \A r : rulesBut(r) \in Seq(DOMAIN Rule)
  <2> SUFFICES ASSUME NEW r PROVE rulesBut(r) \in Seq(DOMAIN Rule)
    OBVIOUS
  <2> DEFINE i == CHOOSE i \in DOMAIN rules : rules[i] = r
  <2>1. CASE r \notin ToSet(rules)
    BY <2>1 DEF rulesBut, TypeOK
  <2>2. CASE r \in ToSet(rules)
    <3>1. i \in 1..Len(rules)
      BY <2>2 DEF ToSet, TypeOK
    <3> HIDE DEF i
    <3>2. /\ SubSeq(rules, 1, i - 1) \in Seq(DOMAIN Rule)
          /\ SubSeq(rules, i + 1, Len(rules)) \in Seq(DOMAIN Rule)
      BY <3>1, SubSeqProperties DEF TypeOK
    <3>3. RemoveAt(rules, i) \in Seq(DOMAIN Rule)
      BY <3>2 DEF RemoveAt
    <3>4. QED
      BY <2>2, <3>3 DEF rulesBut, i
  <2>3. QED
    BY <2>1, <2>2
<1>2. rules \in Seq(DOMAIN Rule)
  BY DEF TypeOK
<1>3. CASE b.cmd # "ACMD"
  BY <1>2, <1>3 DEF commandList
<1>4. CASE b.cmd = "ACMD" /\ b.arg = "CLEAR"
  BY <1>2, <1>4 DEF commandList, autoListsTells
<1>5. CASE b.cmd = "ACMD" /\ b.arg = "DEL"
  <2>1. commandList(b) = IF rules = <<>> THEN rules ELSE Tail(rules)
    BY <1>5 DEF commandList, autoListsTells
  <2>2. rules # <<>> => Tail(rules) \in Seq(DOMAIN Rule)
    BY <1>2
  <2>3. QED
    BY <1>2, <2>1, <2>2
<1>6. CASE b.cmd = "ACMD" /\ b.arg \notin {"CLEAR", "DEL"}
  <2>1. b.arg \in DOMAIN Rule => Append(rulesBut(b.arg), b.arg) \in Seq(DOMAIN Rule)
    BY <1>1
  <2>2. QED
    BY <1>2, <1>6, <2>1 DEF commandList
<1>7. QED
  BY <1>3, <1>4, <1>5, <1>6

(* The stanzas that are made of others.                                    *)
LEMMA StanzaTypes ==
  ASSUME NEW f \in Frame
  PROVE  /\ f.s \in Stanza
         /\ \A p : afterRefusal(p, f.s) \in Stanza
         /\ \A known : turnedTo(f.s, known) \in Stanza
         /\ \A item \in Bodies : expanded(f.s, item) \in Stanza
         /\ \A item \in Bodies : expandAlias(item, f.s.body) \in Bodies
<1>1. f.s \in Stanza
  BY DEF Frame
<1>2. \A p : afterRefusal(p, f.s) \in Stanza
  <2>1. NoBody \in Bodies
    BY DispatchAssumption DEF NoBody, Bodies
  <2>2. QED
    BY <1>1, <2>1 DEF afterRefusal, Stanza
<1>3. \A known : turnedTo(f.s, known) \in Stanza
  BY <1>1 DEF turnedTo, Stanza, Sender
<1>4. \A item \in Bodies : expanded(f.s, item) \in Stanza
  BY <1>1 DEF expanded, Stanza
<1>5. \A item \in Bodies : expandAlias(item, f.s.body) \in Bodies
  BY <1>1 DEF expandAlias, Stanza, Bodies
<1>6. QED
  BY <1>1, <1>2, <1>3, <1>4, <1>5

LEMMA RuleType ==
  ASSUME NEW f \in Frame, NEW r \in DOMAIN Rule
  PROVE  ruleStanza(f, Rule[r].action) \in Stanza
<1>1. expandMacro(Rule[r].action, f) \in Bodies
  <2>1. Rule[r].action \in Bodies /\ f.s.body \in Bodies
    BY DispatchAssumption DEF Frame, Stanza
  <2> DEFINE a == Rule[r].action
             arg == CASE a.arg = "${NICK}" -> f.nick
                      [] a.arg = "${BODY}" /\ f.pc = "member" -> f.s.body.first
                      [] OTHER -> a.arg
  <2>2. expandMacro(a, f) = [a EXCEPT !.arg = arg]
    BY DEF expandMacro
  <2>3. arg \in STRING
    BY <2>1, DispatchAssumption DEF Bodies, Frame
  <2>4. QED
    BY <2>1, <2>2, <2>3 DEF Bodies
<1>2. actsAs(f) \in Sender \union {Nobody}
  BY DEF actsAs, Frame, Stanza, Sender, Occupant
<1>3. QED
  BY <1>1, <1>2 DEF ruleStanza, Stanza, Types

(* Every variable keeps its type: no call goes past the end of the list of *)
(* plugins except to end, and no stanza or rule comes from nowhere.        *)
THEOREM TypeCorrect == Spec => []TypeOK
<1>1. Init => TypeOK
  <2> SUFFICES ASSUME Init PROVE TypeOK
    OBVIOUS
  <2>1. rules \in Seq(DOMAIN Rule)
    BY ListType DEF Init
  <2>2. message \in Stanza
    BY DispatchAssumption DEF Init, Stanza, NoBody, Bodies, Types
  <2>3. counted \in [Occupant -> 0..2]
    BY DEF Init
  <2>4. /\ stack \in Seq(Frame) /\ leaked \in BOOLEAN
        /\ aliases \subseteq DOMAIN Alias /\ denied \subseteq STRING
    <3>1. stack \in Seq(Frame)
      BY DEF Init
    <3>2. leaked \in BOOLEAN /\ denied \subseteq STRING
      BY DEF Init
    <3>3. aliases \subseteq DOMAIN Alias
      BY DEF Init
    <3>4. QED
      BY <3>1, <3>2, <3>3
  <2>5. QED
    BY <2>1, <2>2, <2>3, <2>4 DEF TypeOK
<1>2. TypeOK /\ [Next]_vars => TypeOK'
  <2> SUFFICES ASSUME TypeOK, [Next]_vars PROVE TypeOK'
    OBVIOUS
  <2> USE DEF lists, ghosts
  <2>0. Len(Order) \in Nat \ {0}
    BY DispatchAssumption DEF ToSet
  <2>0t. /\ stack # <<>> => Top \in Frame
         /\ stack # <<>> /\ Top.at <= Len(Order) =>
              \A s \in Stanza : Passes(s) => stack' \in Seq(Frame)
         /\ stack # <<>> => \A s \in Stanza : Returns(s) => stack' \in Seq(Frame)
    BY TopType, PassType, BecomesStack, ReturnsStack DEF Passes
  <2>0s. stack # <<>> =>
           /\ Top.s \in Stanza
           /\ \A p : afterRefusal(p, Top.s) \in Stanza
           /\ \A known : turnedTo(Top.s, known) \in Stanza
           /\ \A item \in Bodies : expanded(Top.s, item) \in Stanza
           /\ \A item \in Bodies : expandAlias(item, Top.s.body) \in Bodies
    BY <2>0t, StanzaTypes
  <2>1. CASE handleMessage
    <3>1. PICK m \in Incoming : message' = m /\ stack' = <<Call(m, {})>>
      BY <2>1 DEF handleMessage
    <3>2. m \in Stanza
      <4>1. PICK j \in Sender : \E said \in Said[j] :
              m = [from |-> j, to |-> Me, type |-> said.type, body |-> said.body,
                   alias |-> FALSE, offline |-> said.offline]
        BY <3>1 DEF Incoming
      <4>2. QED
        BY <4>1, DispatchAssumption DEF Stanza
    <3>3. Call(m, {}) \in Frame
      BY <3>2, CallType
    <3>4. stack' \in Seq(Frame) /\ message' \in Stanza
      BY <3>1, <3>2, <3>3
    <3>5. counted' \in [Occupant -> 0..2]
      BY <2>1 DEF handleMessage, Begins
    <3>6. QED
      BY <2>1, <3>4, <3>5 DEF handleMessage, TypeOK
  <2>2. CASE onPresence
    <3>1. PICK p \in People :
            LET s == [from |-> p, to |-> Me, type |-> "normal", body |-> NoBody,
                      alias |-> FALSE, offline |-> FALSE]
            IN  /\ message' = s
                /\ stack' = <<[Call(s, {}) EXCEPT !.pc = "recheck", !.nick = p,
                                                  !.rest = aFind(p, NoBody)]>>
      BY <2>2 DEF onPresence
    <3>2. message' \in Stanza
      BY <3>1, DispatchAssumption DEF Stanza, Sender, Occupant, Types, NoBody, Bodies
    <3>3. Call(message', {}) \in Frame
      BY <3>2, CallType
    <3>4. [Call(message', {}) EXCEPT !.pc = "recheck", !.nick = p,
                                     !.rest = aFind(p, NoBody)] \in Frame
      <4>1. Call(message', {}).at = 1
        BY DEF Call
      <4> DEFINE c == Call(message', {})
                 r == aFind(p, NoBody)
      <4>2. c \in Frame /\ c.at <= Len(Order)
        BY <2>0, <3>3, <4>1
      <4>3. r \in SUBSET (Nat \X DOMAIN Rule) /\ p \in Occupant
        BY FindType DEF Occupant
      <4> HIDE DEF c, r
      <4>4. [c EXCEPT !.pc = "recheck", !.nick = p, !.rest = r] \in Frame
        BY <4>2, <4>3 DEF Frame
      <4>5. QED
        BY <4>4 DEF c, r
    <3>5. stack' \in Seq(Frame)
      BY <3>1, <3>4
    <3>6. QED
      BY <2>2, <3>2, <3>5 DEF onPresence, Begins, TypeOK
  <2>3. CASE NotHandled
    BY <2>3, <2>0t, <2>0s DEF NotHandled, TypeOK
  <2>4. CASE Exhausted
    BY <2>4, <2>0t, <2>0s DEF Exhausted, TypeOK
  <2>5. CASE Described
    BY <2>5, <2>0t, <2>0s DEF Described, Accepts, Turn, TypeOK
  <2>6. CASE coreOnMessage
    BY <2>6, <2>0t, <2>0s DEF coreOnMessage, Accepts, Turn, TypeOK
  <2>7. ASSUME NEW p \in DOMAIN Table, tableParseMessage(p) PROVE TypeOK'
    BY <2>7, <2>0t, <2>0s DEF tableParseMessage, Parses, Accepts, Turn, TypeOK
  <2>8. CASE wordParseMessage
    BY <2>8, <2>0t, <2>0s DEF wordParseMessage, Parses, Accepts, Turn, TypeOK
  <2>9. CASE aclParseMessage
    BY <2>9, <2>0t, <2>0s DEF aclParseMessage, Parses, Accepts, Turn, TypeOK
  <2>10. CASE aclParseCommands
    <3>1. Top.s.body.arg \in STRING /\ stack # <<>> /\ Top.at <= Len(Order)
      BY <2>10, <2>0s DEF aclParseCommands, Parses, Accepts, Turn, Stanza, Bodies
    <3>2. aclEdit(Top.s.body) => denied' \subseteq STRING
      BY <3>1 DEF aclEdit, TypeOK
    <3>3. denied' \subseteq STRING /\ leaked' \in BOOLEAN
      BY <2>10, <3>2 DEF aclParseCommands, TypeOK
    <3>4. stack' \in Seq(Frame)
      BY <2>10, <2>0t, <2>0s, <3>1 DEF aclParseCommands
    <3>5. QED
      BY <2>10, <3>3, <3>4 DEF aclParseCommands, TypeOK
  <2>11. CASE aliasParseMessage
    <3>1. stack # <<>> /\ Top.at <= Len(Order)
      BY <2>11 DEF aliasParseMessage, Parses, Accepts, Turn
    <3>2. CASE aliasApplies(Top.s)
      <4> DEFINE its == Alias[Top.s.body.first].items
                 items == [i \in DOMAIN its |-> expandAlias(its[i], Top.s.body)]
      <4>1. its \in Seq(Bodies)
        BY <3>2, DispatchAssumption DEF aliasApplies, isAlias, TypeOK
      <4>2. items \in Seq(Bodies)
        <5>1. its \in [1..Len(its) -> Bodies] /\ Len(its) \in Nat
          BY <4>1, LenProperties
        <5>2. items \in [1..Len(its) -> Bodies]
          BY <5>1, <3>1, <2>0s
        <5> HIDE DEF its, items
        <5>3. QED
          BY <5>1, <5>2
      <4> HIDE DEF its, items
      <4>3. [Top EXCEPT !.pc = "expand", !.items = items] \in Frame
        BY <2>0t, <3>1, <4>2 DEF Frame
      <4>4. Becomes([Top EXCEPT !.pc = "expand", !.items = items])
        BY <2>11, <3>2 DEF aliasParseMessage, items, its
      <4>5. stack' \in Seq(Frame)
        BY <3>1, <4>3, <4>4, BecomesStack
      <4>6. QED
        BY <2>11, <4>5 DEF aliasParseMessage, TypeOK
    <3>3. CASE ~aliasApplies(Top.s)
      BY <2>11, <3>1, <3>3, <2>0t, <2>0s DEF aliasParseMessage, TypeOK
    <3>4. QED
      BY <3>2, <3>3
  <2>12. CASE aliasParseCommands
    <3>1. stack # <<>> /\ Top.at <= Len(Order)
      BY <2>12 DEF aliasParseCommands, Parses, Accepts, Turn
    <3>2. aliasEdit(Top.s.body) => aliases' \subseteq DOMAIN Alias
      BY DEF aliasEdit, TypeOK
    <3>3. aliases' \subseteq DOMAIN Alias
      BY <2>12, <3>2 DEF aliasParseCommands, TypeOK
    <3>4. stack' \in Seq(Frame)
      BY <2>12, <2>0t, <2>0s, <3>1 DEF aliasParseCommands
    <3>5. QED
      BY <2>12, <3>3, <3>4 DEF aliasParseCommands, TypeOK
  <2>13. CASE expandNext
    <3> DEFINE s == expanded(Top.s, Head(Top.items))
               f == [Top EXCEPT !.s = s, !.items = itemsAfter(@)]
    <3>1. stack # <<>> /\ Top.items \in Seq(Bodies) /\ Top.items # <<>>
      BY <2>13, <2>0t DEF expandNext, Frame
    <3>2. s \in Stanza /\ Tail(Top.items) \in Seq(Bodies)
      BY <3>1, <2>0s
    <3>3. f \in Frame
      BY <3>1, <3>2, <2>0t DEF Frame, itemsAfter
    <3>4. Call(s, aliasFlags) \in Frame
      BY <3>2, CallType DEF aliasFlags
    <3>5. Calls(f, Call(s, aliasFlags))
      BY <2>13 DEF expandNext
    <3>6. stack' \in Seq(Frame)
      BY <3>1, <3>3, <3>4, <3>5, CallsStack
    <3>7. QED
      BY <2>13, <3>6 DEF expandNext, TypeOK
  <2>14. CASE expandDone
    BY <2>14, <2>0t, <2>0s DEF expandDone, TypeOK
  <2>15. CASE mucVisits
    BY <2>15, <2>0t, <2>0s DEF mucVisits, Parses, Accepts, Turn, TypeOK
  <2>16. CASE mucListens
    <3> DEFINE f == [Top EXCEPT !.pc = "member", !.rest = membersRules(Top.s), !.nick = Top.s.from]
    <3>1. /\ stack # <<>> /\ Top \in Frame /\ Top.at <= Len(Order)
          /\ Top.s.from \in Occupant
      BY <2>16, <2>0t, DispatchAssumption
         DEF mucListens, Parses, Accepts, Turn, canHandleMessage, inRoom
    <3>2. membersRules(Top.s) \in SUBSET (Nat \X DOMAIN Rule)
      BY FindType DEF membersRules
    <3>3. f \in Frame
      BY <3>1, <3>2 DEF Frame
    <3>4. Becomes(f)
      BY <2>16 DEF mucListens
    <3>5. stack' \in Seq(Frame)
      BY <3>1, <3>3, <3>4, BecomesStack
    <3>6. counted' \in [Occupant -> 0..2]
      BY <2>16 DEF mucListens, statMessage, TypeOK
    <3>7. QED
      BY <2>16, <3>5, <3>6 DEF mucListens, TypeOK
  <2>17. CASE walkNext
    <3>1. stack # <<>> /\ Top \in Frame
      BY <2>17, <2>0t DEF walkNext
    <3>2. PICK x \in Top.rest :
            IF Rule[x[2]].action = NoBody THEN Becomes([Top EXCEPT !.rest = {}])
            ELSE Calls([Top EXCEPT !.rest = @ \ {x}],
                       Call(ruleStanza(Top, Rule[x[2]].action), {"acmd"}))
      BY <2>17 DEF walkNext
    <3>3. x[2] \in DOMAIN Rule
      BY <3>1, <3>2 DEF Frame
    <3>4. /\ [Top EXCEPT !.rest = {}] \in Frame
          /\ [Top EXCEPT !.rest = @ \ {x}] \in Frame
      BY <3>1 DEF Frame
    <3>5. Call(ruleStanza(Top, Rule[x[2]].action), {"acmd"}) \in Frame
      BY <3>1, <3>3, RuleType, CallType
    <3>6. stack' \in Seq(Frame)
      BY <3>1, <3>2, <3>4, <3>5, BecomesStack, CallsStack
    <3>7. QED
      BY <2>17, <3>6 DEF walkNext, TypeOK
  <2>18. CASE recheckNext
    <3>1. stack # <<>> /\ Top \in Frame
      BY <2>18, <2>0t DEF recheckNext
    <3>2. PICK p \in Top.nicks :
            Becomes([Top EXCEPT !.nicks = @ \ {p}, !.nick = p, !.rest = aFind(p, NoBody)])
      BY <2>18 DEF recheckNext
    <3>3. [Top EXCEPT !.nicks = @ \ {p}, !.nick = p, !.rest = aFind(p, NoBody)] \in Frame
      BY <3>1, FindType DEF Frame, Occupant
    <3>4. stack' \in Seq(Frame)
      BY <3>1, <3>2, <3>3, BecomesStack
    <3>5. QED
      BY <2>18, <3>4 DEF recheckNext, TypeOK
  <2>19. CASE recheckDone
    BY <2>19, <2>0t, <2>0s DEF recheckDone, TypeOK
  <2>20. CASE mucCommand
    <3>1. stack # <<>> /\ Top.at <= Len(Order)
      BY <2>20, <2>0t DEF mucCommand, Commanded, Frame
    <3>2. stack' \in Seq(Frame)
      BY <2>20, <2>0t, <2>0s, <3>1 DEF mucCommand
    <3>3. QED
      BY <2>20, <3>2 DEF mucCommand, TypeOK
  <2>21. CASE mucLists
    <3>1. stack # <<>> /\ Top \in Frame /\ Top.pc = "member"
      BY <2>21, <2>0t DEF mucLists, Commanded
    <3>2. [Top EXCEPT !.pc = "recheck", !.nicks = People] \in Frame
      BY <3>1 DEF Frame
    <3>3. stack' \in Seq(Frame)
      BY <2>21, <3>1, <3>2, <2>0t, <2>0s, BecomesStack DEF mucLists
    <3>4. rules' \in Seq(DOMAIN Rule)
      BY <2>21, <3>1, <2>0s, ListsType DEF mucLists, Stanza, TypeOK
    <3>5. QED
      BY <2>21, <3>3, <3>4 DEF mucLists, TypeOK
  <2>22. CASE UNCHANGED vars
    BY <2>22 DEF vars, TypeOK
  <2>23. QED
    BY <2>1, <2>2, <2>3, <2>4, <2>5, <2>6, <2>7, <2>8, <2>9, <2>10, <2>11,
       <2>12, <2>13, <2>14, <2>15, <2>16, <2>17, <2>18, <2>19, <2>20, <2>21,
       <2>22 DEF Next, Step
<1>3. QED
  BY <1>1, <1>2, PTL DEF Spec

-----------------------------------------------------------------------------
(* The nesting.  A call that is not the work of an alias may start one, so *)
(* its rank is one more; one in which somebody speaks to somebody else may *)
(* start a rule that acts as the sender, and that one a rule that acts as  *)
(* the bot, whose calls start none.                                        *)
class(s) == IF s.from # s.to THEN 5 ELSE IF s.from = Bot THEN 1 ELSE 3
rank(f) == IF f.flags = aliasFlags THEN class(f.s) ELSE class(f.s) + 1

(* A call by itself.  What was blanked stays blank; only the message that  *)
(* came in has no flag; an alias is quiet, and neither it nor what has one *)
(* expanded is an echo; a rule does not act on the bot's own words.        *)
Kept(f) ==
  /\ f.flags \in {{}, {"acmd"}, aliasFlags}
  /\ f.s.from = Nobody => f.s.body = NoBody
  /\ f.flags = {} => f.s.from # f.s.to \/ f.s.from = Nobody
  /\ f.flags = aliasFlags => Quiet(f.s.body) /\ inRoom(f.s) /\ ~isMyMessage(f.s)
  /\ f.pc = "expand" => /\ f.flags # aliasFlags /\ inRoom(f.s) /\ ~isMyMessage(f.s)
                        /\ \A k \in DOMAIN f.items : Quiet(f.items[k])
  /\ f.pc = "member" => inRoom(f.s) /\ (f.s.from = Bot => f.rest = {})
  /\ f.pc = "recheck" => f.flags = {}

(* A call and the one it has made.                                         *)
Link(f, g) ==
  /\ f.pc # "offer"
  /\ f.pc = "expand" => g.flags = aliasFlags /\ g.s.from = f.s.from /\ g.s.to = f.s.to
  /\ f.pc # "expand" => g.flags = {"acmd"}

RuledBelow(i) == \E j \in 1..(i - 1) : stack[j].pc \in {"member", "recheck"}

(* The call at a place of the stack: whose it is, and how deep it may be.  *)
Placed(i) ==
  /\ Kept(stack[i]) /\ rank(stack[i]) + i <= 7
  /\ \/ stack[i].s.from \in {Nobody, message.from}
     \/ stack[i].s.from = Bot /\ RuledBelow(i)
  /\ i = 1 => stack[i].flags = {}

Sound ==
  /\ \A i \in 1..Len(stack) : Placed(i)
  /\ \A i \in 1..(Len(stack) - 1) : Link(stack[i], stack[i + 1])

DoneWell == \A d \in done : d.as = message.from \/ (d.as = Bot /\ d.ruled)

LEMMA RankType == \A f : rank(f) \in 1..6
BY DEF rank, class

(* The top of the stack.                                                   *)
LEMMA TopSound ==
  ASSUME TypeOK, Sound, stack # <<>>
  PROVE  /\ Kept(Top) /\ rank(Top) + Len(stack) <= 7
         /\ \/ Top.s.from \in {Nobody, message.from}
            \/ Top.s.from = Bot /\ RuledBelow(Len(stack))
         /\ Len(stack) = 1 => Top.flags = {}
<1>1. Placed(Len(stack))
  BY TopType DEF Sound
<1>2. QED
  BY <1>1, TopType DEF Placed

(* A call below the top that keeps its place.                              *)
LEMMA PlaceKept ==
  ASSUME Sound, NEW i \in 1..Len(stack), UNCHANGED message,
         Kept(stack'[i]), rank(stack'[i]) = rank(stack[i]),
         stack'[i].flags = stack[i].flags, stack'[i].s.from = stack[i].s.from,
         \A j \in 1..(i - 1) : stack'[j].pc = stack[j].pc
  PROVE  Placed(i)'
<1>1. Placed(i) /\ (RuledBelow(i)' <=> RuledBelow(i))
  BY DEF Sound, RuledBelow
<1>2. QED
  BY <1>1 DEF Placed

LEMMA BecomesSound ==
  ASSUME TypeOK, Sound, stack # <<>>, NEW f \in Frame, Becomes(f), UNCHANGED message,
         Kept(f), f.flags = Top.flags, rank(f) <= rank(Top),
         f.s.from = Top.s.from \/ f.s.from = Nobody,
         f.flags = aliasFlags => f.s.from = Top.s.from /\ f.s.to = Top.s.to
  PROVE  Sound'
<1> DEFINE n == Len(stack)
<1>1. /\ n \in Nat \ {0} /\ Top = stack[n] /\ Len(stack') = n /\ stack'[n] = f
      /\ \A i \in 1..(n - 1) : stack'[i] = stack[i]
  BY TopType, BecomesStack
<1>2. ASSUME NEW i \in 1..n PROVE Placed(i)'
  <2>1. Placed(i)
    BY DEF Sound
  <2>2. RuledBelow(i)' <=> RuledBelow(i)
    BY <1>1 DEF RuledBelow
  <2>3. CASE i < n
    <3>1. stack'[i] = stack[i]
      BY <1>1, <2>3
    <3>2. QED
      BY <2>1, <2>2, <3>1 DEF Placed
  <2>4. CASE i = n
    <3>1. stack'[i] = f /\ stack[i] = Top /\ rank(f) + i <= 7
      BY <1>1, <2>1, <2>4, RankType DEF Placed
    <3>2. QED
      BY <2>1, <2>2, <3>1 DEF Placed
  <2>5. QED
    BY <1>1, <2>3, <2>4
<1>3. ASSUME NEW i \in 1..(n - 1) PROVE Link(stack'[i], stack'[i + 1])
  <2>1. Link(stack[i], stack[i + 1]) /\ stack'[i] = stack[i]
    BY <1>1 DEF Sound
  <2>2. CASE i + 1 < n
    BY <1>1, <2>1, <2>2
  <2>3. CASE i + 1 = n
    <3>1. stack'[i + 1] = f /\ stack[i + 1] = Top
      BY <1>1, <2>3
    <3>2. QED
      BY <2>1, <3>1 DEF Link
  <2>4. QED
    BY <1>1, <2>2, <2>3
<1>4. QED
  BY <1>1, <1>2, <1>3 DEF Sound

LEMMA CallsSound ==
  ASSUME TypeOK, Sound, stack # <<>>, NEW f \in Frame, NEW g \in Frame, Calls(f, g),
         UNCHANGED message, Kept(f), f.flags = Top.flags, f.s.from = Top.s.from,
         f.s.to = Top.s.to, f.pc = Top.pc, Kept(g), g.flags # {}, Link(f, g),
         rank(g) < rank(Top),
         \/ g.s.from = Top.s.from
         \/ g.s.from = Bot /\ Top.pc \in {"member", "recheck"}
  PROVE  Sound'
<1> DEFINE n == Len(stack)
<1>1. /\ n \in Nat \ {0} /\ Top = stack[n] /\ Len(stack') = n + 1
      /\ stack'[n] = f /\ stack'[n + 1] = g
      /\ \A i \in 1..(n - 1) : stack'[i] = stack[i]
  BY TopType, CallsStack
<1>2. \A i \in 1..n : stack'[i].pc = stack[i].pc
  BY <1>1
<1>3. ASSUME NEW i \in 1..n PROVE Placed(i)'
  <2>1. Kept(stack[i])
    BY DEF Sound, Placed
  <2>2. CASE i < n
    <3>1. stack'[i] = stack[i] /\ \A j \in 1..(i - 1) : stack'[j].pc = stack[j].pc
      BY <1>1, <2>2
    <3>2. QED
      BY <2>1, <3>1, PlaceKept
  <2>3. CASE i = n
    <3>1. /\ stack'[i] = f /\ stack[i] = Top /\ rank(f) = rank(Top)
          /\ \A j \in 1..(i - 1) : stack'[j].pc = stack[j].pc
      BY <1>1, <2>3 DEF rank, class
    <3>2. QED
      BY <3>1, PlaceKept
  <2>4. QED
    BY <1>1, <2>2, <2>3
<1>4. ASSUME NEW i, i = n + 1 PROVE Placed(i)'
  <2>1. stack'[i] = g /\ rank(g) + i <= 7 /\ i # 1 /\ Placed(i - 1)
    <3>1. stack'[i] = g /\ i # 1 /\ i - 1 = n /\ n \in 1..n
      BY <1>1, <1>4
    <3>2. Placed(i - 1)
      BY <3>1 DEF Sound
    <3>3. rank(g) + i <= 7
      BY <1>1, <1>4, TopSound, RankType
    <3>4. QED
      BY <3>1, <3>2, <3>3
  <2>2. RuledBelow(i - 1) => RuledBelow(i)'
    <3>1. n \in Nat /\ i - 1 = n
      BY <1>1, <1>4
    <3>2. ASSUME NEW j \in 1..(n - 1), stack[j].pc \in {"member", "recheck"}
          PROVE  j \in 1..(i - 1) /\ stack'[j].pc \in {"member", "recheck"}
      BY <1>2, <3>1, <3>2
    <3>3. QED
      BY <3>1, <3>2 DEF RuledBelow
  <2>3. Top.pc \in {"member", "recheck"} => RuledBelow(i)'
    BY <1>1, <1>2, <1>4 DEF RuledBelow
  <2>4. stack[i - 1] = Top
    BY <1>1, <1>4
  <2>5. g.s.from \in {Nobody, message.from} \/ (g.s.from = Bot /\ RuledBelow(i)')
    BY <2>1, <2>2, <2>3, <2>4 DEF Placed
  <2>6. QED
    BY <2>1, <2>5 DEF Placed
<1>5. ASSUME NEW i \in 1..n PROVE Link(stack'[i], stack'[i + 1])
  <2>0. i < n => Link(stack[i], stack[i + 1])
    BY <1>1 DEF Sound
  <2>1. CASE i + 1 < n
    BY <1>1, <2>0, <2>1
  <2>2. CASE i + 1 = n
    <3>1. Link(stack[i], Top) /\ stack'[i] = stack[i] /\ stack'[i + 1] = f
      BY <1>1, <2>0, <2>2
    <3>2. QED
      BY <3>1 DEF Link
  <2>3. CASE i = n
    BY <1>1, <2>3
  <2>4. QED
    BY <1>1, <2>1, <2>2, <2>3
<1>6. \A i \in 1..Len(stack') : Placed(i)'
  BY <1>1, <1>3, <1>4
<1>7. QED
  BY <1>1, <1>5, <1>6 DEF Sound

LEMMA ReturnsSound ==
  ASSUME TypeOK, Sound, stack # <<>>, NEW s \in Stanza, Returns(s), UNCHANGED message,
         Top.flags = aliasFlags => s.from = Top.s.from /\ s.to = Top.s.to
  PROVE  Sound'
<1> DEFINE n == Len(stack)
<1>1. /\ n \in Nat \ {0} /\ Top = stack[n] /\ Len(stack') = n - 1
      /\ \A i \in 1..(n - 2) : stack'[i] = stack[i]
      /\ n > 1 => stack'[n - 1] = IF stack[n - 1].pc = "expand"
                                  THEN [stack[n - 1] EXCEPT !.s = s] ELSE stack[n - 1]
      /\ \A i \in 1..n : stack[i] \in Frame
  BY TopType, ReturnsStack
<1>2. ASSUME NEW i \in 1..(n - 1)
      PROVE  /\ Kept(stack'[i]) /\ rank(stack'[i]) = rank(stack[i])
             /\ stack'[i].pc = stack[i].pc /\ stack'[i].flags = stack[i].flags
             /\ stack'[i].s.from = stack[i].s.from /\ stack'[i].s.to = stack[i].s.to
  <2>1. stack[i] \in Frame /\ Kept(stack[i]) /\ Link(stack[i], stack[i + 1])
    BY <1>1 DEF Sound, Placed
  <2>2. CASE stack'[i] = stack[i]
    BY <2>1, <2>2
  <2>3. CASE i = n - 1 /\ stack[i].pc = "expand"
    <3>1. s.from = stack[i].s.from /\ s.to = stack[i].s.to
      BY <1>1, <2>1, <2>3 DEF Link
    <3>2. stack'[i] = [stack[i] EXCEPT !.s = s]
      BY <1>1, <2>3
    <3>3. /\ stack'[i].s = s /\ stack'[i].pc = stack[i].pc
          /\ stack'[i].flags = stack[i].flags /\ stack'[i].items = stack[i].items
      BY <2>1, <3>2 DEF Frame
    <3>4. s.from # Nobody
      BY <2>1, <2>3, <3>1, DispatchAssumption DEF Kept, inRoom, Occupant
    <3>5. Kept(stack'[i])
      BY <2>1, <2>3, <3>1, <3>3, <3>4 DEF Kept, inRoom, isMyMessage
    <3>6. rank(stack'[i]) = rank(stack[i])
      BY <3>1, <3>3 DEF rank, class
    <3>7. QED
      BY <3>1, <3>3, <3>5, <3>6
  <2>4. QED
    BY <1>1, <2>2, <2>3
<1>3. ASSUME NEW i \in 1..(n - 1) PROVE Placed(i)'
  <2>1. \A j \in 1..(i - 1) : stack'[j].pc = stack[j].pc
    BY <1>1, <1>2
  <2>2. i \in 1..Len(stack)
    BY <1>1
  <2>3. QED
    BY <1>2, <2>1, <2>2, PlaceKept
<1>4. ASSUME NEW i \in 1..((n - 1) - 1) PROVE Link(stack'[i], stack'[i + 1])
  <2>1. Link(stack[i], stack[i + 1]) /\ i \in 1..(n - 1) /\ i + 1 \in 1..(n - 1)
    BY <1>1 DEF Sound
  <2>2. QED
    BY <1>2, <2>1 DEF Link
<1>5. QED
  BY <1>1, <1>3, <1>4 DEF Sound

-----------------------------------------------------------------------------
(* What is blank runs nothing.                                             *)
LEMMA NothingIsNoWord ==
  Nothing \notin {"HELP", "LIST", "ACL", "ALIAS", "MUC", "SHOW", "SHOWPRIV",
                  "SHOWPRIVSILENT", "SHOWJID", "JOIN", "LEAVE", "WHEREAMI", "ADMIN",
                  "CONFIG", "MISC", "NET", "ROSTER", "USER", "WEBSTATUS", "WORD"}
BY ZenonT(30) DEF Nothing

LEMMA Tables ==
  /\ DOMAIN VisitCommands = {"JOIN", "LEAVE", "WHEREAMI"}
  /\ DOMAIN Table = {"ADMIN", "CONFIG", "MISC", "NET", "ROSTER", "USER", "WEBSTATUS", "WORD"}
BY DEF VisitCommands, Table

(* The next plugin has its turn, with the stanza as it is or blanked.      *)
LEMMA PassSound ==
  ASSUME TypeOK, Sound, stack # <<>>, Top.at <= Len(Order), UNCHANGED message,
         NEW p, Passes(afterRefusal(p, Top.s))
  PROVE  Sound'
<1> DEFINE s == afterRefusal(p, Top.s)
           f == [Top EXCEPT !.s = s, !.at = @ + 1, !.pc = "offer"]
<1>1. Top \in Frame /\ Kept(Top) /\ s \in Stanza /\ f \in Frame
  BY TopType, TopSound, StanzaTypes, PassType
<1>2. Becomes(f)
  BY DEF Passes
<1>3. f.s = s /\ f.flags = Top.flags /\ f.pc = "offer"
  BY <1>1 DEF Frame
<1> HIDE DEF f
<1>4. CASE s = Top.s
  <2>1. Kept(f) /\ rank(f) = rank(Top)
    BY <1>1, <1>3, <1>4 DEF Kept, rank
  <2>2. QED
    BY <1>1, <1>2, <1>3, <1>4, <2>1, RankType, BecomesSound
<1>5. CASE s # Top.s
  <2>1. /\ s.from = Nobody /\ s.to = Nobody /\ s.body = NoBody
        /\ isMyMessage(Top.s) /\ Top.s.from # Top.s.to
    BY <1>1, <1>5 DEF afterRefusal, isMyMessage, Frame, Stanza
  <2>2. Top.flags # aliasFlags
    BY <1>1, <2>1 DEF Kept
  <2>3. Nobody \notin {Bot, Room}
    BY DispatchAssumption
  <2>4. Kept(f)
    BY <1>1, <1>3, <2>1, <2>2, <2>3 DEF Kept
  <2>5. rank(f) <= rank(Top)
    BY <1>3, <2>1, <2>2, <2>3 DEF rank, class
  <2>6. QED
    BY <1>1, <1>2, <1>3, <2>1, <2>2, <2>4, <2>5, BecomesSound
<1>6. QED
  BY <1>4, <1>5

LEMMA PassSameSound ==
  ASSUME TypeOK, Sound, stack # <<>>, Top.at <= Len(Order), UNCHANGED message,
         Passes(Top.s)
  PROVE  Sound'
<1>1. afterRefusal("CORE", Top.s) = Top.s
  BY DEF afterRefusal
<1>2. QED
  BY <1>1, PassSound

(* A command is run as the one the call is from, unless that is nobody.    *)
LEMMA RanWell ==
  ASSUME TypeOK, Sound, DoneWell, stack # <<>>, UNCHANGED message,
         NEW p, NEW cmd, NEW need, Ran(p, cmd, need), Top.s.from # Nobody
  PROVE  DoneWell'
<1>1. Top.s.from = message.from \/ (Top.s.from = Bot /\ RuledBelow(Len(stack)))
  BY TopSound
<1>2. RuledBelow(Len(stack)) => Ruled
  BY DEF RuledBelow, Ruled
<1>3. QED
  BY <1>1, <1>2 DEF DoneWell, Ran

LEMMA SteadyDone ==
  ASSUME DoneWell, UNCHANGED <<message, done>>
  PROVE  DoneWell'
BY DEF DoneWell

(* Every step, by itself.                                                  *)
LEMMA StepSound ==
  ASSUME TypeOK, QuietItems, Sound, DoneWell, Step
  PROVE  Sound' /\ DoneWell'
<1> USE DEF lists, ghosts
<1>0. stack # <<>> => /\ Top \in Frame /\ Top.s \in Stanza /\ Kept(Top)
                      /\ Top.s.from = Nobody => Top.s.body = NoBody
                      /\ \A known : turnedTo(Top.s, known) \in Stanza
  BY TopType, TopSound, StanzaTypes DEF Kept
<1>1. CASE NotHandled
  BY <1>1, PassSound, SteadyDone DEF NotHandled
<1>2. CASE Exhausted
  BY <1>0, <1>2, ReturnsSound, SteadyDone DEF Exhausted
<1>3. CASE Described
  BY <1>0, <1>3, ReturnsSound, SteadyDone DEF Described, Accepts, Turn
<1>4. CASE coreOnMessage
  <2>1. stack # <<>> /\ Top.at <= Len(Order) /\ UNCHANGED message
    BY <1>4 DEF coreOnMessage, Accepts, Turn
  <2>2. CASE Top.s.body.first \in {"HELP", "LIST"}
    <3>1. Top.s.from # Nobody
      BY <1>0, <2>1, <2>2, NothingIsNoWord DEF NoBody
    <3>2. Returns(Top.s) /\ Ran("CORE", Top.s.body.first, 0)
      BY <1>4, <2>2 DEF coreOnMessage
    <3>3. QED
      BY <1>0, <2>1, <3>1, <3>2, ReturnsSound, RanWell
  <2>3. CASE Top.s.body.first \notin {"HELP", "LIST"}
    BY <1>4, <2>1, <2>3, PassSameSound, SteadyDone DEF coreOnMessage
  <2>4. QED
    BY <2>2, <2>3
<1>5. ASSUME NEW p \in DOMAIN Table, tableParseMessage(p) PROVE Sound' /\ DoneWell'
  <2> DEFINE c == commandWord(p, Top.s.body)
  <2>1. stack # <<>> /\ Top.at <= Len(Order) /\ UNCHANGED message
    BY <1>5 DEF tableParseMessage, Parses, Accepts, Turn
  <2>2. Top.s.from # Nobody
    <3>1. p \notin {"CORE", "ACL", "ALIAS", "MUC"} /\ p # Nothing
      BY Tables, NothingIsNoWord
    <3>2. Top.s.body.first = p
      BY <1>5, <3>1 DEF tableParseMessage, Parses, Accepts, canHandleMessage, isMessageAcceptable
    <3>3. QED
      BY <1>0, <2>1, <3>1, <3>2 DEF NoBody
  <2>3. CASE c \in DOMAIN Table[p]
    <3>1. Returns(Top.s) /\ Runs(p, c, Table[p][c])
      BY <1>5, <2>3 DEF tableParseMessage
    <3>2. Sound'
      BY <1>0, <2>1, <3>1, ReturnsSound
    <3>3. UNCHANGED done \/ Ran(p, c, Table[p][c].need)
      BY <3>1 DEF Runs
    <3> HIDE DEF c
    <3>4. QED
      BY <2>1, <2>2, <3>2, <3>3, RanWell, SteadyDone
  <2>4. CASE c \notin DOMAIN Table[p]
    BY <1>5, <2>1, <2>4, PassSameSound, SteadyDone DEF tableParseMessage
  <2>5. QED
    BY <2>3, <2>4
<1>6. CASE wordParseMessage
  <2>1. /\ stack # <<>> /\ UNCHANGED message /\ Top.s.body.cmd \in WordTurns
        /\ Ran("WORD", Top.s.body.cmd, 0)
        /\ Top.s.body.first = "WORD"
    BY <1>6 DEF wordParseMessage, Parses, Accepts, Turn, canHandleMessage, isMessageAcceptable
  <2>2. PICK known \in BOOLEAN : Returns(turnedTo(Top.s, known))
    BY <1>6 DEF wordParseMessage
  <2>3. Top.flags # aliasFlags
    BY <1>0, <2>1 DEF Kept, Quiet
  <2>4. Top.s.from # Nobody
    BY <1>0, <2>1, NothingIsNoWord DEF NoBody
  <2>5. QED
    BY <1>0, <2>1, <2>2, <2>3, <2>4, ReturnsSound, RanWell
<1>7. CASE aclParseMessage
  <2>1. stack # <<>> /\ Top.at <= Len(Order) /\ UNCHANGED <<message, done>>
    BY <1>7 DEF aclParseMessage, Parses, Accepts, Turn
  <2>2. QED
    BY <1>0, <1>7, <2>1, PassSameSound, ReturnsSound, SteadyDone DEF aclParseMessage
<1>8. CASE aclParseCommands
  <2>1. /\ stack # <<>> /\ Top.at <= Len(Order) /\ UNCHANGED message
        /\ Top.s.body.first = "ACL"
    BY <1>8 DEF aclParseCommands, Parses, Accepts, Turn
  <2>2. Top.s.from # Nobody
    BY <1>0, <2>1, NothingIsNoWord DEF NoBody
  <2>3. Passes(Top.s) \/ Returns(Top.s)
    BY <1>8 DEF aclParseCommands
  <2>4. UNCHANGED done \/ Ran("ACL", Top.s.body.cmd, BOTOWNER)
    BY <1>8 DEF aclParseCommands
  <2>5. QED
    BY <1>0, <2>1, <2>2, <2>3, <2>4, PassSameSound, ReturnsSound, RanWell, SteadyDone
<1>9. CASE aliasParseMessage
  <2>1. stack # <<>> /\ Top.at <= Len(Order) /\ UNCHANGED <<message, done>>
    BY <1>9 DEF aliasParseMessage, Parses, Accepts, Turn
  <2>2. CASE ~aliasApplies(Top.s)
    <3>1. Passes(Top.s)
      BY <1>9, <2>2 DEF aliasParseMessage
    <3>2. QED
      BY <1>0, <2>1, <3>1, PassSameSound, SteadyDone
  <2>3. CASE aliasApplies(Top.s)
    <3> DEFINE its == Alias[Top.s.body.first].items
               items == [i \in DOMAIN its |-> expandAlias(its[i], Top.s.body)]
               f == [Top EXCEPT !.pc = "expand", !.items = items]
    <3>1. /\ its \in Seq(Bodies) /\ inRoom(Top.s)
          /\ \A i \in DOMAIN its : Quiet(its[i])
      <4>1. PICK a : a = Top.s.body.first
        OBVIOUS
      <4>2. a \in DOMAIN Alias /\ inRoom(Top.s)
        BY <2>3, <4>1 DEF aliasApplies, isAlias, TypeOK
      <4>3. Alias[a].items \in Seq(Bodies)
        BY <4>2, DispatchAssumption
      <4>4. QED
        BY <4>1, <4>2, <4>3 DEF QuietItems
    <3>2. ~isMyMessage(Top.s) /\ Top.flags # aliasFlags
      BY <1>9 DEF aliasParseMessage, Parses, Accepts, Turn, canHandleMessage,
                  isMessageAcceptable, isExpanded, aliasFlags
    <3>3. items \in Seq(Bodies) /\ \A i \in DOMAIN items : Quiet(items[i])
      <4>1. its \in [1..Len(its) -> Bodies] /\ Len(its) \in Nat
        BY <3>1, LenProperties
      <4>2. \A b \in Bodies : /\ expandAlias(b, Top.s.body) \in Bodies
                              /\ Quiet(b) => Quiet(expandAlias(b, Top.s.body))
        <5>1. \A b \in Bodies : expandAlias(b, Top.s.body) \in Bodies
          BY <1>0, <2>1, StanzaTypes
        <5>2. ASSUME NEW b \in Bodies
              PROVE  /\ expandAlias(b, Top.s.body).first = b.first
                     /\ expandAlias(b, Top.s.body).cmd = b.cmd
          BY DEF expandAlias, Bodies
        <5>3. QED
          BY <5>1, <5>2 DEF Quiet
      <4>3. items \in [1..Len(its) -> Bodies]
        BY <4>1, <4>2
      <4> HIDE DEF its
      <4>4. items \in Seq(Bodies)
        <5> HIDE DEF items
        <5>1. QED
          BY <4>1, <4>3
      <4>5. \A i \in DOMAIN items : Quiet(items[i])
        BY <3>1, <4>1, <4>2 DEF its
      <4>6. QED
        BY <4>4, <4>5
    <3> HIDE DEF its, items
    <3>4. f \in Frame /\ Becomes(f)
      <4>1. f \in Frame
        BY <1>0, <2>1, <3>3 DEF Frame
      <4>2. QED
        BY <1>9, <2>3, <4>1 DEF aliasParseMessage, items, its
    <3>5. /\ f.s = Top.s /\ f.flags = Top.flags /\ f.pc = "expand" /\ f.items = items
      BY <1>0, <2>1 DEF Frame
    <3> HIDE DEF f
    <3>6. Kept(f) /\ rank(f) = rank(Top)
      BY <1>0, <2>1, <3>1, <3>2, <3>3, <3>5 DEF Kept, rank
    <3>7. rank(f) <= rank(Top)
      BY <3>6, RankType
    <3>8. QED
      BY <2>1, <3>4, <3>5, <3>6, <3>7, BecomesSound, SteadyDone
  <2>4. QED
    BY <2>2, <2>3
<1>10. CASE aliasParseCommands
  <2>1. /\ stack # <<>> /\ Top.at <= Len(Order) /\ UNCHANGED message
        /\ Top.s.body.first = "ALIAS"
    BY <1>10 DEF aliasParseCommands, Parses, Accepts, Turn
  <2>2. Top.s.from # Nobody
    BY <1>0, <2>1, NothingIsNoWord DEF NoBody
  <2>3. Passes(Top.s) \/ Returns(Top.s)
    BY <1>10 DEF aliasParseCommands
  <2>4. UNCHANGED done \/ Ran("ALIAS", Top.s.body.cmd, ADMIN)
    BY <1>10 DEF aliasParseCommands
  <2>5. QED
    BY <1>0, <2>1, <2>2, <2>3, <2>4, PassSameSound, ReturnsSound, RanWell, SteadyDone
<1>11. CASE expandNext
  <2> DEFINE s == expanded(Top.s, Head(Top.items))
             f == [Top EXCEPT !.s = s, !.items = itemsAfter(@)]
             g == Call(s, aliasFlags)
  <2>1. /\ stack # <<>> /\ Top.items \in Seq(Bodies) /\ Top.items # <<>>
        /\ Top.pc = "expand" /\ UNCHANGED <<message, done>> /\ Calls(f, g)
    BY <1>0, <1>11 DEF expandNext, Frame
  <2>2. /\ s \in Stanza /\ s.from = Top.s.from /\ s.to = Top.s.to
        /\ s.body = Head(Top.items)
    <3>1. Head(Top.items) \in Bodies
      BY <2>1
    <3>2. s \in Stanza
      BY <1>0, <2>1, <3>1, StanzaTypes
    <3>3. s.from = Top.s.from /\ s.to = Top.s.to /\ s.body = Head(Top.items)
      BY <1>0, <2>1 DEF expanded, Stanza
    <3>4. QED
      BY <3>2, <3>3
  <2>3. f \in Frame /\ g \in Frame
    <3> HIDE DEF s
    <3>1. f \in Frame
      <4> DEFINE left == Tail(Top.items)
      <4>1. left \in Seq(Bodies)
        BY <2>1
      <4> HIDE DEF left
      <4>2. [Top EXCEPT !.s = s, !.items = left] \in Frame
        BY <1>0, <2>1, <2>2, <4>1 DEF Frame
      <4>3. QED
        BY <4>2 DEF left, itemsAfter
    <3>2. g \in Frame
      BY <2>2, CallType DEF aliasFlags
    <3>3. QED
      BY <3>1, <3>2
  <2>4. /\ f.s = s /\ f.flags = Top.flags /\ f.pc = "expand" /\ f.items = Tail(Top.items)
        /\ g.s = s /\ g.flags = aliasFlags /\ g.pc = "offer"
    BY <1>0, <2>1 DEF Frame, itemsAfter, Call
  <2> HIDE DEF f, g, s
  <2>5. /\ Quiet(Head(Top.items)) /\ \A k \in DOMAIN Tail(Top.items) : Quiet(Tail(Top.items)[k])
        /\ inRoom(Top.s) /\ ~isMyMessage(Top.s) /\ Top.flags # aliasFlags
    <3>1. /\ \A k \in DOMAIN Top.items : Quiet(Top.items[k])
          /\ inRoom(Top.s) /\ ~isMyMessage(Top.s) /\ Top.flags # aliasFlags
      BY <1>0, <2>1 DEF Kept
    <3>2. /\ Head(Top.items) = Top.items[1] /\ 1 \in DOMAIN Top.items
          /\ \A k \in DOMAIN Tail(Top.items) :
               Tail(Top.items)[k] = Top.items[k + 1] /\ k + 1 \in DOMAIN Top.items
      BY <2>1
    <3>3. QED
      BY <3>1, <3>2
  <2>6. inRoom(s) /\ ~isMyMessage(s) /\ s.from # Nobody
    BY <2>2, <2>5, DispatchAssumption DEF inRoom, isMyMessage, Occupant
  <2>7. Kept(f)
    BY <1>0, <2>1, <2>2, <2>4, <2>5, <2>6 DEF Kept
  <2>8. Kept(g) /\ Link(f, g)
    BY <2>2, <2>4, <2>5, <2>6 DEF Kept, Link, aliasFlags
  <2>9. rank(g) < rank(Top)
    BY <2>2, <2>4, <2>5 DEF rank, class
  <2>10. QED
    BY <2>1, <2>2, <2>3, <2>4, <2>7, <2>8, <2>9, CallsSound, SteadyDone DEF aliasFlags
<1>12. CASE expandDone
  BY <1>0, <1>12, ReturnsSound, SteadyDone DEF expandDone
<1>13. CASE mucVisits
  <2>1. stack # <<>> /\ UNCHANGED message /\ Returns(Top.s)
    BY <1>13 DEF mucVisits, Parses, Accepts, Turn
  <2>2. Sound'
    BY <1>0, <2>1, ReturnsSound
  <2>3. CASE done' = done
    <3>1. DoneWell'
      BY <2>1, <2>3, SteadyDone
    <3>2. QED
      BY <2>2, <3>1
  <2>4. CASE done' # done
    <3>1. /\ Top.s.body.cmd \in DOMAIN VisitCommands
          /\ Ran("MUC", Top.s.body.cmd, VisitCommands[Top.s.body.cmd].need)
      BY <1>13, <2>4 DEF mucVisits, isVisit
    <3>2. Top.s.from # Nobody
      BY <1>0, <2>1, <3>1, Tables, NothingIsNoWord DEF NoBody
    <3>3. QED
      BY <2>1, <2>2, <3>1, <3>2, RanWell
  <2>5. QED
    BY <2>2, <2>3, <2>4
<1>14. CASE mucListens
  <2> DEFINE f == [Top EXCEPT !.pc = "member", !.rest = membersRules(Top.s), !.nick = Top.s.from]
  <2>1. /\ stack # <<>> /\ Top.at <= Len(Order) /\ UNCHANGED <<message, done>>
        /\ Top.s.from \in Occupant /\ inRoom(Top.s) /\ Becomes(f)
    BY <1>0, <1>14, DispatchAssumption
       DEF mucListens, Parses, Accepts, Turn, canHandleMessage, inRoom
  <2>2. membersRules(Top.s) \in SUBSET (Nat \X DOMAIN Rule)
    BY FindType DEF membersRules
  <2>3. f \in Frame
    BY <1>0, <2>1, <2>2 DEF Frame
  <2>4. /\ f.s = Top.s /\ f.flags = Top.flags /\ f.pc = "member"
        /\ f.rest = membersRules(Top.s)
    BY <1>0, <2>1 DEF Frame
  <2> HIDE DEF f
  <2>5. Top.s.from = Bot => f.rest = {}
    BY <2>4 DEF membersRules
  <2>6. Kept(f) /\ rank(f) = rank(Top)
    BY <1>0, <2>1, <2>4, <2>5 DEF Kept, rank
  <2>7. QED
    BY <2>1, <2>3, <2>4, <2>6, RankType, BecomesSound, SteadyDone
<1>15. CASE walkNext
  <2>1. stack # <<>> /\ Top.pc \in {"member", "recheck"} /\ UNCHANGED <<message, done>>
    BY <1>15 DEF walkNext
  <2>2. PICK x \in Top.rest :
          IF Rule[x[2]].action = NoBody THEN Becomes([Top EXCEPT !.rest = {}])
          ELSE Calls([Top EXCEPT !.rest = @ \ {x}],
                     Call(ruleStanza(Top, Rule[x[2]].action), {"acmd"}))
    BY <1>15 DEF walkNext
  <2>3. x[2] \in DOMAIN Rule
    BY <1>0, <2>1, <2>2 DEF Frame
  <2>4. ASSUME NEW rest \in SUBSET Top.rest
        PROVE  LET f == [Top EXCEPT !.rest = rest]
               IN  /\ f \in Frame /\ Kept(f) /\ rank(f) = rank(Top)
                   /\ f.s = Top.s /\ f.flags = Top.flags /\ f.pc = Top.pc
    <3> DEFINE f == [Top EXCEPT !.rest = rest]
    <3>1. /\ f \in Frame /\ f.s = Top.s /\ f.flags = Top.flags /\ f.pc = Top.pc
          /\ f.items = Top.items /\ f.rest = rest
      BY <1>0, <2>1 DEF Frame
    <3> HIDE DEF f
    <3>2. Kept(f) /\ rank(f) = rank(Top)
      BY <1>0, <2>1, <3>1 DEF Kept, rank
    <3>3. QED
      BY <3>1, <3>2 DEF f
  <2>5. CASE Rule[x[2]].action = NoBody
    <3> DEFINE f == [Top EXCEPT !.rest = {}]
    <3>1. /\ f \in Frame /\ Kept(f) /\ rank(f) = rank(Top)
          /\ f.s = Top.s /\ f.flags = Top.flags /\ f.pc = Top.pc
      BY <2>4
    <3>2. Becomes(f)
      BY <2>2, <2>5
    <3> HIDE DEF f
    <3>3. QED
      BY <2>1, <3>1, <3>2, RankType, BecomesSound, SteadyDone
  <2>6. CASE Rule[x[2]].action # NoBody
    <3> DEFINE f == [Top EXCEPT !.rest = @ \ {x}]
               s == ruleStanza(Top, Rule[x[2]].action)
               g == Call(s, {"acmd"})
    <3>1. Calls(f, g) /\ s \in Stanza /\ g \in Frame
      BY <1>0, <2>1, <2>2, <2>3, <2>6, RuleType, CallType
    <3>2. f \in Frame /\ Kept(f) /\ f.s = Top.s /\ f.flags = Top.flags /\ f.pc = Top.pc
      BY <2>4
    <3>3. /\ g.s = s /\ g.flags = {"acmd"} /\ g.pc = "offer"
          /\ s.from = actsAs(Top) /\ s.to = actsAs(Top)
      BY DEF Call, ruleStanza
    <3> HIDE DEF f, g, s
    <3>4. actsAs(Top) # Nobody
      <4>1. Top.pc = "member" => Top.s.from # Nobody
        BY <1>0, <2>1, DispatchAssumption DEF Kept, inRoom, Occupant
      <4>2. QED
        BY <4>1, DispatchAssumption DEF actsAs
    <3>5. Kept(g) /\ Link(f, g)
      BY <2>1, <3>2, <3>3, <3>4 DEF Kept, Link, aliasFlags
    <3>6. rank(g) < rank(Top)
      <4>1. rank(g) = IF actsAs(Top) = Bot THEN 2 ELSE 4
        BY <3>3 DEF rank, class, aliasFlags
      <4>2. CASE Top.pc = "member"
        <5>1. Top.s.from # Bot
          BY <1>0, <2>1, <2>2, <4>2 DEF Kept
        <5>2. QED
          BY <4>1, <4>2, <5>1 DEF actsAs, withoutStanza, rank, class
      <4>3. CASE Top.pc = "recheck"
        <5>1. Top.flags = {} /\ (Top.s.from # Top.s.to \/ Top.s.from = Nobody)
          BY <1>0, <2>1, <4>3 DEF Kept
        <5>2. Nobody # Bot
          BY DispatchAssumption
        <5>3. QED
          BY <4>1, <4>3, <5>1, <5>2 DEF actsAs, rank, class, aliasFlags
      <4>4. QED
        BY <2>1, <4>2, <4>3
    <3>7. g.s.from = Top.s.from \/ g.s.from = Bot
      BY <3>3 DEF actsAs
    <3>8. QED
      BY <2>1, <3>1, <3>2, <3>3, <3>5, <3>6, <3>7, CallsSound, SteadyDone
  <2>7. QED
    BY <2>5, <2>6
<1>16. CASE recheckNext
  <2>1. stack # <<>> /\ Top.pc = "recheck" /\ UNCHANGED <<message, done>>
    BY <1>16 DEF recheckNext
  <2>2. PICK p \in Top.nicks :
          Becomes([Top EXCEPT !.nicks = @ \ {p}, !.nick = p, !.rest = aFind(p, NoBody)])
    BY <1>16 DEF recheckNext
  <2> DEFINE f == [Top EXCEPT !.nicks = @ \ {p}, !.nick = p, !.rest = aFind(p, NoBody)]
  <2>3. /\ f \in Frame /\ f.s = Top.s /\ f.flags = Top.flags /\ f.pc = Top.pc
        /\ f.items = Top.items
    BY <1>0, <2>1, FindType DEF Frame, Occupant
  <2>4. Becomes(f)
    BY <2>2
  <2> HIDE DEF f
  <2>5. Kept(f) /\ rank(f) = rank(Top)
    BY <1>0, <2>1, <2>3 DEF Kept, rank
  <2>6. QED
    BY <2>1, <2>3, <2>4, <2>5, RankType, BecomesSound, SteadyDone
<1>17. CASE recheckDone
  BY <1>0, <1>17, ReturnsSound, SteadyDone DEF recheckDone
<1>18. CASE mucCommand
  <2>1. /\ stack # <<>> /\ Top.at <= Len(Order) /\ UNCHANGED message
    BY <1>0, <1>18 DEF mucCommand, Commanded, Frame
  <2>2. Top.s.from # Nobody
    BY <1>0, <1>18, DispatchAssumption DEF mucCommand, Commanded, Kept, inRoom, Occupant
  <2>3. Passes(Top.s) \/ Returns(Top.s)
    BY <1>18 DEF mucCommand
  <2>4. UNCHANGED done \/ \E c, need : Ran("MUC", c, need)
    BY <1>18 DEF mucCommand, Runs
  <2>5. QED
    BY <1>0, <2>1, <2>2, <2>3, <2>4, PassSameSound, ReturnsSound, RanWell, SteadyDone
<1>19. CASE mucLists
  <2>1. /\ stack # <<>> /\ Top.pc = "member" /\ UNCHANGED message
        /\ Top.s.body.first = "MUC" /\ Top.s.body.cmd \in ListCommands
    BY <1>0, <1>19 DEF mucLists, Commanded, IsForMuc
  <2>2. Top.s.from # Nobody
    BY <1>0, <2>1, DispatchAssumption DEF Kept, inRoom, Occupant
  <2> DEFINE f == [Top EXCEPT !.pc = "recheck", !.nicks = People]
  <2>3. Returns(Top.s) \/ (Becomes(f) /\ mayEditLists(Top))
    BY <1>19 DEF mucLists
  <2>4. UNCHANGED done \/ Ran("MUC", Top.s.body.cmd, ADMIN)
    BY <1>19 DEF mucLists
  <2>5. CASE Becomes(f) /\ mayEditLists(Top)
    <3>1. /\ f \in Frame /\ f.s = Top.s /\ f.flags = Top.flags /\ f.pc = "recheck"
          /\ f.items = Top.items
      BY <1>0, <2>1 DEF Frame
    <3> HIDE DEF f
    <3>2. Top.flags = {}
      BY <1>0, <2>1, <2>5 DEF Kept, Quiet, mayEditLists
    <3>3. Kept(f) /\ rank(f) = rank(Top)
      BY <1>0, <2>1, <3>1, <3>2 DEF Kept, rank, aliasFlags
    <3>4. Sound'
      BY <2>1, <2>5, <3>1, <3>3, RankType, BecomesSound
    <3>5. QED
      BY <2>1, <2>2, <2>4, <3>4, RanWell, SteadyDone
  <2>6. CASE Returns(Top.s)
    BY <1>0, <2>1, <2>2, <2>4, <2>6, ReturnsSound, RanWell, SteadyDone
  <2>7. QED
    BY <2>3, <2>5, <2>6
<1>20. QED
  BY <1>1, <1>2, <1>3, <1>4, <1>5, <1>6, <1>7, <1>8, <1>9, <1>10, <1>11, <1>12,
     <1>13, <1>14, <1>15, <1>16, <1>17, <1>18, <1>19 DEF Step

-----------------------------------------------------------------------------
(* The invariant, and what follows from it.                                *)
IInv == TypeOK /\ (QuietItems => Sound /\ DoneWell)

LEMMA Beginning ==
  ASSUME TypeOK, handleMessage \/ onPresence
  PROVE  Sound' /\ DoneWell'
<1>1. PICK f : /\ stack' = <<f>> /\ f.s = message' /\ f.flags = {}
               /\ f.pc \in {"offer", "recheck"} /\ f.s.from \in Sender /\ f.s.to = Me
  <2>1. CASE handleMessage
    <3>1. PICK m \in Incoming : message' = m /\ stack' = <<Call(m, {})>>
      BY <2>1 DEF handleMessage
    <3>2. m.from \in Sender /\ m.to = Me
      BY <3>1 DEF Incoming
    <3>3. QED
      BY <3>1, <3>2 DEF Call
  <2>2. CASE onPresence
    <3>1. PICK p \in People :
            LET s == [from |-> p, to |-> Me, type |-> "normal", body |-> NoBody,
                      alias |-> FALSE, offline |-> FALSE]
            IN  /\ message' = s
                /\ stack' = <<[Call(s, {}) EXCEPT !.pc = "recheck", !.nick = p,
                                                  !.rest = aFind(p, NoBody)]>>
      BY <2>2 DEF onPresence
    <3> DEFINE f == [Call(message', {}) EXCEPT !.pc = "recheck", !.nick = p,
                                               !.rest = aFind(p, NoBody)]
    <3>2. stack' = <<f>> /\ message'.from = p /\ message'.to = Me
      BY <3>1
    <3>3. f.s = message' /\ f.flags = {} /\ f.pc = "recheck"
      BY DEF Call
    <3> HIDE DEF f
    <3>4. QED
      BY <3>2, <3>3 DEF Sender, Occupant
  <2>3. QED
    BY <2>1, <2>2
<1>2. f.s.from # f.s.to /\ f.s.from # Nobody
  BY <1>1, DispatchAssumption DEF Sender, Occupant
<1>3. Kept(f) /\ rank(f) <= 6
  BY <1>1, <1>2, RankType DEF Kept, aliasFlags
<1>4. Len(stack') = 1 /\ stack'[1] = f
  BY <1>1
<1>5. ASSUME NEW i, i = 1 PROVE Placed(i)'
  BY <1>1, <1>3, <1>4, <1>5, RankType DEF Placed
<1>6. Sound'
  BY <1>4, <1>5 DEF Sound
<1>7. DoneWell'
  BY DEF handleMessage, onPresence, Begins, DoneWell
<1>8. QED
  BY <1>6, <1>7

(* The invariant holds, whatever is said and whatever the aliases and the  *)
(* rules are: what handleMessage begins with and what every step of a      *)
(* plugin leaves.                                                          *)
THEOREM Invariance == Spec => []IInv
<1>1. Init => (QuietItems => Sound /\ DoneWell)
  BY DEF Init, Sound, DoneWell
<1>2. TypeOK /\ IInv /\ [Next]_vars => (QuietItems => Sound /\ DoneWell)'
  <2> SUFFICES ASSUME TypeOK, IInv, [Next]_vars, QuietItems PROVE Sound' /\ DoneWell'
    BY DEF QuietItems
  <2>1. Sound /\ DoneWell
    BY DEF IInv
  <2>2. CASE Step
    BY <2>1, <2>2, StepSound
  <2>3. CASE handleMessage \/ onPresence
    BY <2>3, Beginning
  <2>4. CASE UNCHANGED vars
    <3>1. ASSUME NEW i, Placed(i) PROVE Placed(i)'
      BY <2>4, <3>1 DEF vars, Placed, RuledBelow
    <3>2. Sound'
      BY <2>1, <2>4, <3>1 DEF vars, Sound
    <3>3. QED
      BY <2>1, <2>4, <3>2, SteadyDone DEF vars
  <2>5. QED
    BY <2>2, <2>3, <2>4 DEF Next
<1>3. QED
  BY <1>1, <1>2, TypeCorrect, PTL DEF Spec, IInv

(* However the calls of processMessage() nest through aliases and rules,   *)
(* the innermost is the sixth at most: its rank is at least one.           *)
THEOREM Nesting == Spec => []NestingIsBounded
<1>1. IInv => NestingIsBounded
  <2> SUFFICES ASSUME TypeOK, Sound PROVE Len(stack) <= 6
    BY DEF IInv, NestingIsBounded
  <2>1. CASE stack = <<>>
    BY <2>1
  <2>2. CASE stack # <<>>
    BY <2>2, TopSound, TopType, RankType
  <2>3. QED
    BY <2>1, <2>2
<1>2. QED
  BY <1>1, Invariance, PTL

(* No alias and no rule lends a command the role of a third: done has only *)
(* who wrote the message, and the bot where a rule has spoken.             *)
THEOREM Authority == Spec => []NoBorrowedAuthority
<1>1. IInv => NoBorrowedAuthority
  BY DEF IInv, DoneWell, NoBorrowedAuthority
<1>2. QED
  BY <1>1, Invariance, PTL

(* The list that checkMember() walks is edited by the outermost call only, *)
(* whose own walk is over (mucplugin.cpp:2157).                            *)
THEOREM StableWalk == Spec => WalkIsStable
<1>1. ASSUME IInv, [Next]_vars
      PROVE  [QuietItems /\ rules' # rules => \A i \in DOMAIN stack : stack[i].rest = {}]_vars
  <2> SUFFICES ASSUME QuietItems, rules' # rules, NEW i \in DOMAIN stack
               PROVE  stack[i].rest = {}
    OBVIOUS
  <2> USE DEF lists, ghosts
  <2>1. mucLists
    BY <1>1 DEF Next, Step, handleMessage, onPresence, NotHandled, Exhausted, Described,
       coreOnMessage, tableParseMessage, wordParseMessage, aclParseMessage,
       aclParseCommands, aliasParseMessage, aliasParseCommands, expandNext, expandDone,
       mucVisits, mucListens, walkNext, recheckNext, recheckDone, mucCommand, vars
  <2>2. /\ stack # <<>> /\ Top.pc = "member" /\ Top.rest = {} /\ "acmd" \notin Top.flags
        /\ Top.s.body.first = "MUC" /\ Top.s.body.cmd \in ListCommands
    BY <2>1 DEF mucLists, Commanded, IsForMuc, mayEditLists
  <2>3. TypeOK /\ Sound
    BY <1>1 DEF IInv
  <2>4. Top.flags = {}
    BY <2>2, <2>3, TopSound DEF Kept, Quiet
  <2>5. Len(stack) = 1
    <3>1. SUFFICES ASSUME Len(stack) # 1 PROVE FALSE
      OBVIOUS
    <3> DEFINE k == Len(stack) - 1
    <3>2. k \in 1..(Len(stack) - 1) /\ stack[k + 1] = Top
      BY <2>2, <2>3, <3>1, TopType
    <3> HIDE DEF k
    <3>3. Link(stack[k], Top)
      BY <2>3, <3>2 DEF Sound
    <3>4. QED
      BY <2>4, <3>3 DEF Link, aliasFlags
  <2>6. QED
    BY <2>2, <2>3, <2>5, TopType
<1>2. QED
  BY <1>1, Invariance, PTL DEF Spec, WalkIsStable

-----------------------------------------------------------------------------
(* For what holds of any aliases: what a step makes of the call at work.   *)
Blanked(s) == [s EXCEPT !.from = Nobody, !.to = Nobody, !.body = NoBody]

Echoed == Turn("MUC") /\ Top.s.from = Bot /\ isMyMessage(Top.s) /\ ~Top.s.offline

Passed ==
  /\ Top.pc \in {"offer", "member"} /\ Top.at <= Len(Order)
  /\ IF Echoed THEN Passes(Blanked(Top.s)) ELSE Passes(Top.s)

Ended == \E s \in Stanza : s.type = Top.s.type /\ Returns(s)

(* The items of an alias, with arguments put in.                           *)
AreItems(items) ==
  \A k \in DOMAIN items : \E a \in DOMAIN Alias : \E m \in DOMAIN Alias[a].items :
     items[k].first = Alias[a].items[m].first

Worked ==
  \E f \in Frame :
    /\ Becomes(f) /\ f.s = Top.s /\ f.flags = Top.flags /\ f.at = Top.at
    /\ \/ f.pc = "expand" /\ Top.pc = "offer" /\ inRoom(Top.s) /\ ~isMyMessage(Top.s)
          /\ AreItems(f.items)
       \/ f.pc = "member" /\ Accepts("MUC") /\ Top.s.from \in Occupant
       \/ f.pc \in {"member", "recheck"} /\ Top.pc \in {"member", "recheck"}
          /\ (f.pc = "member" => Top.pc = "member")

Handed ==
  \E f \in Frame, g \in Frame :
    /\ Calls(f, g) /\ f.pc = Top.pc /\ f.flags = Top.flags /\ f.at = Top.at
    /\ f.s.type = Top.s.type /\ g.pc = "offer"
    /\ \/ f.pc = "expand" /\ g.flags = aliasFlags /\ g.s.type = Top.s.type
       \/ /\ f.pc \in {"member", "recheck"} /\ f.s = Top.s /\ g.flags = {"acmd"}
          /\ Top.s.type # "chat" => g.s.from = Bot /\ g.s.type = "groupchat"

LEMMA StepShape ==
  ASSUME TypeOK, Step
  PROVE  /\ stack # <<>> /\ UNCHANGED message
         /\ Passed \/ Ended \/ Worked \/ Handed
<1> USE DEF lists, ghosts
<1>0. /\ stack # <<>> /\ UNCHANGED message
  BY DEF Step, NotHandled, Exhausted, Described, coreOnMessage, tableParseMessage,
     wordParseMessage, aclParseMessage, aclParseCommands, aliasParseMessage,
     aliasParseCommands, expandNext, expandDone, mucVisits, mucListens, walkNext,
     recheckNext, recheckDone, mucCommand, mucLists, Parses, Accepts, Turn, Commanded
<1> SUFFICES Passed \/ Ended \/ Worked \/ Handed
  BY <1>0
<1>1. Top \in Frame /\ Top.s \in Stanza /\ \A known : turnedTo(Top.s, known) \in Stanza
  BY <1>0, TopType, StanzaTypes
<1>2. CASE NotHandled
  <2> DEFINE p == Order[Top.at]
  <2>1. /\ Top.pc = "offer" /\ Top.at <= Len(Order)
        /\ Passes(afterRefusal(p, Top.s))
    BY <1>2 DEF NotHandled
  <2>2. CASE p = "MUC" /\ Top.s.from = Bot /\ isMyMessage(Top.s) /\ ~Top.s.offline
    BY <1>0, <2>1, <2>2 DEF afterRefusal, Blanked, Passed, Echoed, Turn
  <2>3. CASE ~(p = "MUC" /\ Top.s.from = Bot /\ isMyMessage(Top.s) /\ ~Top.s.offline)
    BY <2>1, <2>3 DEF afterRefusal, Passed, Echoed, Turn
  <2>4. QED
    BY <2>2, <2>3
<1>3. CASE Returns(Top.s)
  BY <1>1, <1>3 DEF Ended
<1>4. CASE /\ Top.pc \in {"offer", "member"} /\ Top.at <= Len(Order)
           /\ ~Turn("MUC") /\ Passes(Top.s)
  BY <1>4 DEF Passed, Echoed
<1>5. CASE wordParseMessage
  <2>1. PICK known \in BOOLEAN : Returns(turnedTo(Top.s, known))
    BY <1>5 DEF wordParseMessage
  <2>2. turnedTo(Top.s, known).type = Top.s.type
    BY <1>1 DEF turnedTo, Stanza
  <2>3. QED
    BY <1>1, <2>1, <2>2 DEF Ended
<1>6. CASE aliasParseMessage /\ aliasApplies(Top.s)
  <2> DEFINE its == Alias[Top.s.body.first].items
             items == [i \in DOMAIN its |-> expandAlias(its[i], Top.s.body)]
             f == [Top EXCEPT !.pc = "expand", !.items = items]
  <2>1. /\ Top.pc = "offer" /\ Top.at <= Len(Order) /\ inRoom(Top.s)
        /\ ~isMyMessage(Top.s) /\ Becomes(f)
    BY <1>6 DEF aliasParseMessage, Parses, Accepts, Turn, canHandleMessage,
                isMessageAcceptable, aliasApplies, isAlias
  <2>2. its \in Seq(Bodies)
    BY <1>6, DispatchAssumption DEF aliasApplies, isAlias, TypeOK
  <2>3. items \in Seq(Bodies)
    <3>1. its \in [1..Len(its) -> Bodies] /\ Len(its) \in Nat
      BY <2>2, LenProperties
    <3>2. items \in [1..Len(its) -> Bodies]
      BY <1>0, <1>1, <3>1, StanzaTypes
    <3> HIDE DEF its, items
    <3>3. QED
      BY <3>1, <3>2
  <2>3a. AreItems(items)
    <3> DEFINE a == Top.s.body.first
    <3>1. /\ a \in DOMAIN Alias /\ its = Alias[a].items
          /\ \A k \in DOMAIN its : its[k] \in Bodies
      BY <1>6, <2>2 DEF aliasApplies, isAlias, TypeOK
    <3>2. \A item \in Bodies : expandAlias(item, Top.s.body).first = item.first
      BY DEF expandAlias, Bodies
    <3>3. DOMAIN items = DOMAIN its /\ \A k \in DOMAIN its : items[k].first = its[k].first
      BY <3>1, <3>2
    <3> HIDE DEF a, its, items
    <3> QED BY <3>1, <3>3 DEF AreItems
  <2> HIDE DEF its, items
  <2>4. f \in Frame /\ f.s = Top.s /\ f.flags = Top.flags /\ f.at = Top.at /\ f.pc = "expand"
        /\ f.items = items
    BY <1>1, <2>1, <2>3 DEF Frame
  <2>5. QED
    BY <2>1, <2>3a, <2>4 DEF Worked
<1>7. CASE expandNext
  <2> DEFINE s == expanded(Top.s, Head(Top.items))
             left == Tail(Top.items)
             f == [Top EXCEPT !.s = s, !.items = left]
             g == Call(s, aliasFlags)
  <2>1. /\ Top.items \in Seq(Bodies) /\ Top.items # <<>> /\ Top.pc = "expand" /\ Calls(f, g)
    BY <1>1, <1>7 DEF expandNext, itemsAfter, Frame
  <2>2. Head(Top.items) \in Bodies /\ left \in Seq(Bodies)
    BY <2>1
  <2>3. s \in Stanza /\ s.type = Top.s.type
    <3>1. s \in Stanza
      BY <1>0, <1>1, <2>2, StanzaTypes
    <3>2. s.type = Top.s.type
      BY <1>1 DEF expanded, Stanza
    <3>3. QED
      BY <3>1, <3>2
  <2> HIDE DEF s, left
  <2>4. /\ f \in Frame /\ f.s = s /\ f.pc = Top.pc /\ f.flags = Top.flags /\ f.at = Top.at
    BY <1>1, <2>1, <2>2, <2>3 DEF Frame
  <2>5. g \in Frame /\ g.s = s /\ g.flags = aliasFlags /\ g.pc = "offer"
    BY <2>3, CallType DEF Call, aliasFlags
  <2> HIDE DEF f, g
  <2>6. QED
    BY <2>1, <2>3, <2>4, <2>5 DEF Handed
<1>8. CASE mucListens
  <2> DEFINE f == [Top EXCEPT !.pc = "member", !.rest = membersRules(Top.s), !.nick = Top.s.from]
  <2>1. /\ Accepts("MUC") /\ Top.at <= Len(Order) /\ Top.s.from \in Occupant /\ Becomes(f)
    BY <1>1, <1>8, DispatchAssumption
       DEF mucListens, Parses, Accepts, Turn, canHandleMessage, inRoom
  <2>2. membersRules(Top.s) \in SUBSET (Nat \X DOMAIN Rule)
    BY FindType DEF membersRules
  <2>3. f \in Frame /\ f.s = Top.s /\ f.flags = Top.flags /\ f.at = Top.at /\ f.pc = "member"
    BY <1>1, <2>1, <2>2 DEF Frame
  <2>4. QED
    BY <2>1, <2>3 DEF Worked
<1>9. CASE walkNext
  <2>1. Top.pc \in {"member", "recheck"}
    BY <1>9 DEF walkNext
  <2>2. PICK x \in Top.rest :
          IF Rule[x[2]].action = NoBody THEN Becomes([Top EXCEPT !.rest = {}])
          ELSE Calls([Top EXCEPT !.rest = @ \ {x}],
                     Call(ruleStanza(Top, Rule[x[2]].action), {"acmd"}))
    BY <1>9 DEF walkNext
  <2>3. x[2] \in DOMAIN Rule
    BY <1>1, <2>2 DEF Frame
  <2>4. ASSUME NEW rest \in SUBSET Top.rest
        PROVE  LET f == [Top EXCEPT !.rest = rest]
               IN  /\ f \in Frame /\ f.s = Top.s /\ f.flags = Top.flags
                   /\ f.pc = Top.pc /\ f.at = Top.at
    BY <1>1 DEF Frame
  <2>5. CASE Rule[x[2]].action = NoBody
    BY <2>1, <2>2, <2>4, <2>5 DEF Worked
  <2>6. CASE Rule[x[2]].action # NoBody
    <3> DEFINE f == [Top EXCEPT !.rest = @ \ {x}]
               s == ruleStanza(Top, Rule[x[2]].action)
               g == Call(s, {"acmd"})
    <3>1. Calls(f, g) /\ s \in Stanza /\ g \in Frame
      BY <1>1, <2>2, <2>3, <2>6, RuleType, CallType
    <3>2. /\ f \in Frame /\ f.s = Top.s /\ f.flags = Top.flags
          /\ f.pc = Top.pc /\ f.at = Top.at
      BY <2>4
    <3>3. /\ g.s = s /\ g.flags = {"acmd"} /\ g.pc = "offer"
          /\ Top.s.type # "chat" => s.from = Bot /\ s.type = "groupchat"
      BY DEF Call, ruleStanza, actsAs
    <3> HIDE DEF f, g, s
    <3>4. QED
      BY <2>1, <3>1, <3>2, <3>3 DEF Handed
  <2>7. QED
    BY <2>5, <2>6
<1>10. CASE recheckNext
  <2>1. Top.pc = "recheck"
    BY <1>10 DEF recheckNext
  <2>2. PICK p \in Top.nicks :
          Becomes([Top EXCEPT !.nicks = @ \ {p}, !.nick = p, !.rest = aFind(p, NoBody)])
    BY <1>10 DEF recheckNext
  <2> DEFINE f == [Top EXCEPT !.nicks = @ \ {p}, !.nick = p, !.rest = aFind(p, NoBody)]
  <2>3. f \in Frame /\ f.s = Top.s /\ f.flags = Top.flags /\ f.pc = Top.pc /\ f.at = Top.at
    BY <1>1, FindType DEF Frame, Occupant
  <2>4. QED
    BY <2>1, <2>2, <2>3 DEF Worked
<1>11. CASE mucLists
  <2> DEFINE f == [Top EXCEPT !.pc = "recheck", !.nicks = People]
  <2>1. Top.pc = "member" /\ (Returns(Top.s) \/ Becomes(f))
    BY <1>11 DEF mucLists, Commanded
  <2>2. f \in Frame /\ f.s = Top.s /\ f.flags = Top.flags /\ f.at = Top.at /\ f.pc = "recheck"
    BY <1>1, <2>1 DEF Frame
  <2>3. QED
    BY <1>3, <2>1, <2>2 DEF Worked
<1>12. \/ NotHandled \/ Returns(Top.s)
       \/ /\ Top.pc \in {"offer", "member"} /\ Top.at <= Len(Order)
          /\ ~Turn("MUC") /\ Passes(Top.s)
       \/ wordParseMessage \/ (aliasParseMessage /\ aliasApplies(Top.s))
       \/ expandNext \/ mucListens \/ walkNext \/ recheckNext \/ mucLists
  <2>1. CASE mucCommand
    BY <1>1, <2>1 DEF mucCommand, Commanded, Turn, Frame
  <2>2. CASE \/ coreOnMessage \/ \E p \in DOMAIN Table : tableParseMessage(p)
             \/ aclParseMessage \/ aclParseCommands \/ aliasParseCommands
             \/ (aliasParseMessage /\ ~aliasApplies(Top.s))
    BY <2>2, Tables DEF coreOnMessage, tableParseMessage, aclParseMessage, aclParseCommands,
       aliasParseMessage, aliasParseCommands, Parses, Accepts, Turn
  <2>3. CASE Exhausted \/ Described \/ expandDone \/ mucVisits \/ recheckDone
    BY <2>3 DEF Exhausted, Described, expandDone, mucVisits, recheckDone
  <2>4. QED
    BY <2>1, <2>2, <2>3 DEF Step
<1>13. QED
  BY <1>0, <1>2, <1>3, <1>4, <1>5, <1>6, <1>7, <1>8, <1>9, <1>10, <1>11, <1>12

(* What a step makes of the outermost call.                                *)
OuterStep(f, g) ==
  \/ g.pc = f.pc /\ g.at = f.at /\ (g.s = f.s \/ f.pc = "expand")
  \/ /\ Len(stack) = 1 /\ f.pc \in {"offer", "member"} /\ f.at <= Len(Order)
     /\ g.pc = "offer" /\ g.at = f.at + 1
     /\ g.s = IF Echoed THEN Blanked(f.s) ELSE f.s
  \/ /\ Len(stack) = 1 /\ g.at = f.at /\ g.s = f.s
     /\ \/ g.pc = "expand" /\ f.pc = "offer" /\ ~isMyMessage(f.s)
        \/ /\ g.pc = "member" /\ f.pc = "offer"
           /\ Accepts("MUC") /\ f.s.from \in Occupant
        \/ g.pc \in {"member", "recheck"} /\ f.pc \in {"member", "recheck"}
           /\ (g.pc = "member" => f.pc = "member")

LEMMA Outermost ==
  ASSUME TypeOK, Step, stack' # <<>>
  PROVE  OuterStep(stack[1], stack'[1])
<1>1. stack # <<>> /\ (Passed \/ Ended \/ Worked \/ Handed)
  BY StepShape
<1>2. /\ Top \in Frame /\ Len(stack) \in Nat \ {0} /\ Top = stack[Len(stack)]
      /\ \A i \in 1..Len(stack) : stack[i] \in Frame
  BY <1>1, TopType
<1>l. Len(stack) > 1 \/ Len(stack) = 1
  <2>1. Len(stack) \in Nat /\ Len(stack) # 0
    BY <1>2
  <2>2. \A n \in Nat : n # 0 => n > 1 \/ n = 1
    OBVIOUS
  <2>3. QED
    BY <2>1, <2>2
<1>3. CASE Ended
  <2>1. PICK s \in Stanza : s.type = Top.s.type /\ Returns(s)
    BY <1>3 DEF Ended
  <2>2. stack' \in Seq(Frame) /\ Len(stack') = Len(stack) - 1
    BY <1>1, <2>1, ReturnsStack
  <2>3. Len(stack) > 1
    BY <1>2, <2>2
  <2>4. \/ stack'[1] = stack[1]
        \/ stack[1].pc = "expand" /\ stack'[1] = [stack[1] EXCEPT !.s = s]
    <3>1. CASE Len(stack) > 2
      <4>1. 1 \in 1..(Len(stack) - 2)
        BY <1>2, <3>1
      <4>2. QED
        BY <1>1, <2>1, <4>1, ReturnsStack
    <3>2. CASE Len(stack) = 2
      BY <1>1, <1>2, <2>1, <3>2, ReturnsStack
    <3>3. Len(stack) > 2 \/ Len(stack) = 2
      BY <1>2, <2>3
    <3>4. QED
      BY <3>1, <3>2, <3>3
  <2>5. stack'[1].pc = stack[1].pc /\ stack'[1].at = stack[1].at
        /\ (stack'[1].s = stack[1].s \/ stack[1].pc = "expand")
    BY <1>2, <2>4 DEF Frame
  <2>6. QED
    BY <2>5 DEF OuterStep
<1>4. CASE Passed
  <2>1. PICK s : /\ Top.pc \in {"offer", "member"} /\ Top.at <= Len(Order) /\ Passes(s)
                 /\ s = IF Echoed THEN Blanked(Top.s) ELSE Top.s
    BY <1>4 DEF Passed
  <2> DEFINE f == [Top EXCEPT !.s = s, !.at = @ + 1, !.pc = "offer"]
  <2>2. s \in Stanza
    <3>1. Blanked(Top.s) \in Stanza
      <4>1. NoBody \in Bodies /\ Top.s \in Stanza
        BY <1>2, DispatchAssumption DEF Frame, NoBody, Bodies
      <4>2. QED
        BY <4>1 DEF Blanked, Stanza
    <3>2. QED
      BY <1>2, <2>1, <3>1 DEF Frame
  <2>3. f \in Frame /\ Becomes(f)
    BY <1>2, <2>1, <2>2, PassType DEF Passes
  <2>4. f.s = s /\ f.at = Top.at + 1 /\ f.pc = "offer"
    BY <1>2 DEF Frame
  <2> HIDE DEF f
  <2>5. Len(stack) > 1 => stack'[1] = stack[1]
    BY <1>1, <1>2, <2>3, BecomesStack
  <2>6. Len(stack) = 1 => stack'[1] = f /\ stack[1] = Top
    BY <1>1, <1>2, <2>3, BecomesStack
  <2>7. CASE Len(stack) > 1
    BY <2>5, <2>7 DEF OuterStep
  <2>8. CASE Len(stack) = 1
    BY <2>1, <2>4, <2>6, <2>8 DEF OuterStep
  <2>9. QED
    BY <1>l, <2>7, <2>8
<1>5. CASE Worked
  <2>1. PICK f \in Frame :
          /\ Becomes(f) /\ f.s = Top.s /\ f.at = Top.at
          /\ \/ f.pc = "expand" /\ Top.pc = "offer" /\ ~isMyMessage(Top.s)
             \/ /\ f.pc = "member" /\ Top.pc = "offer"
                /\ Accepts("MUC") /\ Top.s.from \in Occupant
             \/ f.pc \in {"member", "recheck"} /\ Top.pc \in {"member", "recheck"}
                /\ (f.pc = "member" => Top.pc = "member")
    BY <1>5 DEF Worked, Accepts, Turn
  <2>2. Len(stack) > 1 => stack'[1] = stack[1]
    BY <1>1, <1>2, <2>1, BecomesStack
  <2>3. Len(stack) = 1 => stack'[1] = f /\ stack[1] = Top
    BY <1>1, <1>2, <2>1, BecomesStack
  <2>4. CASE Len(stack) > 1
    BY <2>2, <2>4 DEF OuterStep
  <2>5. CASE Len(stack) = 1
    BY <2>1, <2>3, <2>5 DEF OuterStep
  <2>6. QED
    BY <1>l, <2>4, <2>5
<1>6. CASE Handed
  <2>1. PICK f \in Frame, g \in Frame :
          /\ Calls(f, g) /\ f.pc = Top.pc /\ f.at = Top.at
          /\ f.s = Top.s \/ f.pc = "expand"
    BY <1>6 DEF Handed
  <2>2. Len(stack) > 1 => stack'[1] = stack[1]
    BY <1>1, <1>2, <2>1, CallsStack
  <2>3. Len(stack) = 1 => stack'[1] = f /\ stack[1] = Top
    BY <1>1, <1>2, <2>1, CallsStack
  <2>4. CASE Len(stack) > 1
    BY <2>2, <2>4 DEF OuterStep
  <2>5. CASE Len(stack) = 1
    BY <2>1, <2>3, <2>5 DEF OuterStep
  <2>6. QED
    BY <1>l, <2>4, <2>5
<1>7. QED
  BY <1>1, <1>3, <1>4, <1>5, <1>6

LEMMA PresenceStack ==
  ASSUME onPresence
  PROVE  \E f : /\ stack' = <<f>> /\ f.s = message' /\ f.pc = "recheck"
               /\ message'.from \in People /\ message'.type = "normal"
<1>1. PICK p \in People :
        LET s == [from |-> p, to |-> Me, type |-> "normal", body |-> NoBody,
                  alias |-> FALSE, offline |-> FALSE]
        IN  /\ message' = s
            /\ stack' = <<[Call(s, {}) EXCEPT !.pc = "recheck", !.nick = p,
                                              !.rest = aFind(p, NoBody)]>>
  BY DEF onPresence
<1> DEFINE f == [Call(message', {}) EXCEPT !.pc = "recheck", !.nick = p,
                                           !.rest = aFind(p, NoBody)]
<1>2. stack' = <<f>> /\ message'.from = p /\ message'.type = "normal"
  BY <1>1
<1>3. f.s = message' /\ f.pc = "recheck"
  BY DEF Call
<1> HIDE DEF f
<1>4. QED
  BY <1>2, <1>3

(* The outermost call has the message that came in, blank or not, or is    *)
(* at work on an alias.                                                    *)
First ==
  stack # <<>> =>
    \/ stack[1].pc = "expand" \/ stack[1].s = message \/ stack[1].s = Blanked(message)

LEMMA FirstKept ==
  ASSUME TypeOK, First, Step
  PROVE  First'
<1> SUFFICES ASSUME stack' # <<>> PROVE First'
  BY DEF First
<1>1. UNCHANGED message /\ stack # <<>>
  BY StepShape
<1>2. stack[1] \in Frame /\ message \in Stanza
  BY <1>1, TopType DEF TypeOK
<1>3. /\ stack'[1].s \in {stack[1].s, Blanked(stack[1].s)} \/ stack'[1].pc = "expand"
      /\ stack[1].pc = "expand" => stack'[1].pc = "expand"
  BY Outermost DEF OuterStep
<1>4. Blanked(Blanked(message)) = Blanked(message)
  BY <1>2 DEF Blanked, Stanza
<1>5. QED
  BY <1>1, <1>3, <1>4 DEF First, Blanked

QuietInv == First /\ QuietForOthers

(* An error is told to somebody only if it was the bot he spoke to, or an  *)
(* alias that misspells a command (baseplugin.cpp:80).                     *)
THEOREM Unanswered == Spec => []QuietForOthers
<1>1. Init => QuietInv
  BY DEF Init, QuietInv, First, QuietForOthers
<1>2. TypeOK /\ QuietInv /\ [Next]_vars => QuietInv'
  <2> SUFFICES ASSUME TypeOK, QuietInv, [Next]_vars PROVE QuietInv'
    OBVIOUS
  <2> USE DEF lists, ghosts
  <2>1. CASE handleMessage
    BY <2>1 DEF handleMessage, Begins, QuietInv, First, QuietForOthers, Call
  <2>2. CASE onPresence
    <3>1. PICK f : stack' = <<f>> /\ f.s = message'
      BY <2>2, PresenceStack
    <3>2. errors' = {}
      BY <2>2 DEF onPresence, Begins
    <3>3. QED
      BY <3>1, <3>2 DEF QuietInv, First, QuietForOthers
  <2>3. CASE UNCHANGED vars
    BY <2>3 DEF vars, QuietInv, First, QuietForOthers
  <2>4. CASE Step
    <3>1. UNCHANGED message /\ stack # <<>> /\ First'
      BY <2>4, StepShape, FirstKept DEF QuietInv
    <3>2. /\ Top \in Frame /\ Len(stack) \in Nat \ {0} /\ Top = stack[Len(stack)]
      BY <3>1, TopType
    <3>3. ASSUME ~isForMe(message), message.body.first \notin {"ACL", "ALIAS"},
                 Len(stack) = 1, Top.pc # "expand"
          PROVE  ~isForMe(Top.s) /\ Top.s.body.first \notin {"ACL", "ALIAS"}
      <4>1. Top.s = message \/ Top.s = Blanked(message)
        BY <3>1, <3>2, <3>3 DEF QuietInv, First
      <4>2. message \in Stanza
        BY DEF TypeOK
      <4>3. Blanked(message).type = message.type /\ Blanked(message).body = NoBody
        BY <4>2 DEF Blanked, Stanza
      <4>4. ~isForMe(Blanked(message)) /\ Blanked(message).body.first \notin {"ACL", "ALIAS"}
        BY <3>3, <4>3, NothingIsNoWord DEF isForMe, NoBody
      <4>5. QED
        BY <3>3, <4>1, <4>4
    <3>4. \/ UNCHANGED errors
          \/ \E p : Errs(p) /\ Top.pc # "expand"
                    /\ (isForMe(Top.s) \/ Top.s.body.first \in {"ACL", "ALIAS"})
      <4>1. ASSUME NEW p \in DOMAIN Table, tableParseMessage(p)
            PROVE  \/ UNCHANGED errors
                   \/ Errs(p) /\ Top.pc # "expand" /\ isForMe(Top.s)
        <5>1. p \notin {"CORE", "ACL", "ALIAS", "MUC"}
          BY Tables
        <5>2. QED
          BY <4>1, <5>1 DEF tableParseMessage, Parses, Accepts, Turn, canHandleMessage,
                            isMessageAcceptable
      <4>2. CASE aclParseCommands
        BY <4>2 DEF aclParseCommands, Parses, Accepts, Turn
      <4>3. CASE aliasParseCommands
        BY <4>3 DEF aliasParseCommands, Parses, Accepts, Turn
      <4>4. CASE mucCommand
        BY <4>4 DEF mucCommand, Commanded, IsForMuc
      <4>5. QED
        BY <2>4, <4>1, <4>2, <4>3, <4>4
           DEF Step, NotHandled, Exhausted, Described, coreOnMessage, wordParseMessage,
               aclParseMessage, aliasParseMessage, expandNext, expandDone, mucVisits,
               mucListens, walkNext, recheckNext, recheckDone, mucLists
    <3>5. QuietForOthers'
      <4> SUFFICES ASSUME ~isForMe(message), message.body.first \notin {"ACL", "ALIAS"},
                          NEW e \in errors'
                   PROVE  e.depth > 1
        BY <3>1 DEF QuietForOthers, isForMe
      <4>1. CASE e \in errors
        BY <4>1 DEF QuietInv, QuietForOthers
      <4>2. CASE e \notin errors
        <5>1. /\ e.depth = Len(stack) /\ Top.pc # "expand"
              /\ isForMe(Top.s) \/ Top.s.body.first \in {"ACL", "ALIAS"}
          BY <3>4, <4>2 DEF Errs
        <5>2. Len(stack) # 1
          BY <3>3, <5>1
        <5>3. QED
          BY <3>2, <5>1, <5>2
      <4>3. QED
        BY <4>1, <4>2
    <3>6. QED
      BY <3>1, <3>5 DEF QuietInv
  <2>5. QED
    BY <2>1, <2>2, <2>3, <2>4 DEF Next
<1>3. QED
  BY <1>1, <1>2, TypeCorrect, PTL DEF Spec, QuietInv

-----------------------------------------------------------------------------
(* The place of the rooms plugin.                                          *)
LEMMA Places ==
  /\ Position("MUC") \in 1..Len(Order)
  /\ \A i \in 1..Len(Order) : Position(Order[i]) = i
<1>1. Order \in Seq(STRING) /\ IsInjective(Order) /\ \E i \in 1..Len(Order) : Order[i] = "MUC"
  BY DispatchAssumption DEF ToSet
<1>2. ASSUME NEW i \in 1..Len(Order) PROVE Position(Order[i]) = i
  BY <1>1 DEF Position, IsInjective
<1>3. QED
  BY <1>1, <1>2

LEMMA MucPlace ==
  ASSUME TypeOK, stack # <<>>, NEW p, Turn(p)
  PROVE  Position(p) = Top.at
BY Places, TopType DEF Turn, Frame

(* Who runs a command.                                                     *)
LEMMA RanBy ==
  ASSUME Step, done' # done
  PROVE  \E p, cmd, need :
           /\ Ran(p, cmd, need)
           /\ \/ Top.pc = "member"
              \/ /\ Accepts(p)
                 /\ p = "MUC" \/ isForMe(Top.s) \/ Top.s.body.first \in {"ACL", "ALIAS"}
<1> USE DEF lists, ghosts
<1>1. ASSUME NEW p \in DOMAIN Table, tableParseMessage(p)
      PROVE  Accepts(p) /\ isForMe(Top.s) /\ \E cmd, need : Ran(p, cmd, need)
  <2>1. p \notin {"CORE", "ACL", "ALIAS", "MUC"}
    BY Tables
  <2>2. Accepts(p) /\ isForMe(Top.s)
    BY <1>1, <2>1 DEF tableParseMessage, Parses, Accepts, Turn, canHandleMessage,
                      isMessageAcceptable
  <2>3. \E cmd, need : Ran(p, cmd, need)
    BY <1>1 DEF tableParseMessage, Runs
  <2>4. QED
    BY <2>2, <2>3
<1>2. CASE coreOnMessage
  <2>1. Accepts("CORE") /\ isForMe(Top.s)
    BY <1>2 DEF coreOnMessage, Accepts, canHandleMessage, isMessageAcceptable
  <2>2. QED
    BY <1>2, <2>1 DEF coreOnMessage
<1>3. CASE wordParseMessage
  <2>1. Accepts("WORD") /\ isForMe(Top.s)
    BY <1>3 DEF wordParseMessage, Parses, Accepts, canHandleMessage, isMessageAcceptable
  <2>2. QED
    BY <1>3, <2>1 DEF wordParseMessage
<1>4. CASE aclParseCommands
  BY <1>4 DEF aclParseCommands, Parses
<1>5. CASE aliasParseCommands
  BY <1>5 DEF aliasParseCommands, Parses
<1>6. CASE mucVisits
  BY <1>6 DEF mucVisits, Parses
<1>7. CASE mucCommand
  BY <1>7 DEF mucCommand, Commanded, Runs
<1>8. CASE mucLists
  BY <1>8 DEF mucLists, Commanded
<1>9. QED
  BY <1>1, <1>2, <1>3, <1>4, <1>5, <1>6, <1>7, <1>8
     DEF Step, NotHandled, Exhausted, Described, aclParseMessage, aliasParseMessage,
         expandNext, expandDone, mucListens, walkNext, recheckNext, recheckDone

(* The bot's own words: one call, never more than offered, and blank for   *)
(* the plugins after the rooms plugin.                                     *)
Echo ==
  stack # <<>> =>
    /\ Len(stack) = 1 /\ Top.pc = "offer"
    /\ \/ Top.s = message /\ (message.offline \/ Top.at <= Position("MUC"))
       \/ Top.s = Blanked(message) /\ Top.at > Position("MUC")

EchoInv ==
  message.from = Bot =>
    message.to = Me /\ message.type = "groupchat" /\ Echo /\ EchoStopsAtMuc

LEMMA EchoKept ==
  ASSUME TypeOK, EchoInv, message.from = Bot, Step
  PROVE  EchoInv'
<1>1. stack # <<>> /\ UNCHANGED message /\ (Passed \/ Ended \/ Worked \/ Handed)
  BY StepShape
<1>2. /\ Top \in Frame /\ Top.s \in Stanza /\ message \in Stanza
      /\ Len(stack) = 1 /\ Top = stack[1]
  BY <1>1, TopType DEF TypeOK, Frame, EchoInv, Echo
<1>3. /\ Top.pc = "offer" /\ message.to = Me /\ message.type = "groupchat"
      /\ \/ Top.s = message /\ (message.offline \/ Top.at <= Position("MUC"))
         \/ Top.s = Blanked(message) /\ Top.at > Position("MUC")
  BY <1>1 DEF EchoInv, Echo
<1>4. /\ isMyMessage(message)
      /\ Blanked(message).from = Nobody /\ Blanked(message).body = NoBody
      /\ Blanked(message).type = "groupchat" /\ Nobody # Bot
      /\ ~inRoom(Blanked(message)) /\ ~isForMe(Blanked(message))
  <2>1. Nobody \notin Occupant \union {Room} /\ Bot # Me
    BY DispatchAssumption DEF Occupant
  <2>2. /\ Blanked(message).from = Nobody /\ Blanked(message).body = NoBody
        /\ Blanked(message).type = "groupchat"
    BY <1>2, <1>3 DEF Blanked, Stanza
  <2>3. QED
    BY <1>3, <2>1, <2>2 DEF isMyMessage, inRoom, isForMe, NoBody, Occupant
<1>5. ~Accepts("MUC")
  <2>1. CASE Top.s = message
    BY <1>4, <2>1 DEF Accepts, canHandleMessage, inRoom, Occupant
  <2>2. CASE Top.at > Position("MUC")
    BY <1>1, <1>2, <2>2, MucPlace, Places DEF Accepts, Frame
  <2>3. QED
    BY <1>3, <2>1, <2>2
<1>6. ~Worked /\ ~Handed
  <2>1. ~(inRoom(Top.s) /\ ~isMyMessage(Top.s))
    BY <1>3, <1>4
  <2>2. QED
    BY <1>3, <1>5, <2>1 DEF Worked, Handed
<1>7. Echo'
  <2>1. CASE Ended
    <3>1. PICK s \in Stanza : Returns(s)
      BY <2>1 DEF Ended
    <3>2. stack' \in Seq(Frame) /\ Len(stack') = 0
      BY <1>1, <1>2, <3>1, ReturnsStack
    <3>3. QED
      BY <3>2 DEF Echo
  <2>2. CASE Passed
    <3> DEFINE s == IF Echoed THEN Blanked(Top.s) ELSE Top.s
               f == [Top EXCEPT !.s = s, !.at = @ + 1, !.pc = "offer"]
    <3>1. Top.at <= Len(Order) /\ Passes(s)
      BY <2>2 DEF Passed
    <3>2. s \in Stanza
      <4>1. NoBody \in Bodies
        BY DispatchAssumption DEF NoBody, Bodies
      <4>2. QED
        BY <1>2, <4>1 DEF Blanked, Stanza
    <3>3. f \in Frame /\ Becomes(f)
      BY <1>2, <3>1, <3>2, PassType DEF Passes
    <3>4. f.s = s /\ f.at = Top.at + 1 /\ f.pc = "offer"
      BY <1>2 DEF Frame
    <3>5. \/ s = message /\ (message.offline \/ Top.at + 1 <= Position("MUC"))
          \/ s = Blanked(message) /\ Top.at + 1 > Position("MUC")
      <4>1. Position("MUC") \in Nat /\ Top.at \in Nat
        BY <1>2, Places DEF Frame
      <4>2. CASE Top.s = message /\ message.offline
        BY <4>2 DEF Echoed
      <4>3. CASE Top.s = message /\ ~message.offline /\ Top.at < Position("MUC")
        <5>1. ~Turn("MUC")
          BY <1>1, <4>1, <4>3, MucPlace
        <5>2. QED
          BY <4>1, <4>3, <5>1 DEF Echoed
      <4>4. CASE Top.s = message /\ ~message.offline /\ Top.at = Position("MUC")
        <5>1. Order[Top.at] = "MUC"
          <6>1. \E i \in DOMAIN Order : Order[i] = "MUC"
            BY DispatchAssumption DEF ToSet
          <6>2. QED
            BY <4>4, <6>1 DEF Position
        <5>2. Echoed
          BY <1>1, <1>3, <1>4, <3>1, <4>4, <5>1 DEF Echoed, Turn
        <5>3. QED
          BY <4>1, <4>4, <5>2
      <4>5. CASE Top.s = Blanked(message) /\ Top.at > Position("MUC")
        BY <1>4, <4>1, <4>5 DEF Echoed
      <4>6. QED
        BY <1>3, <4>1, <4>2, <4>3, <4>4, <4>5
    <3> HIDE DEF f, s
    <3>6. Len(stack') = 1 /\ stack'[1] = f /\ stack' \in Seq(Frame)
      BY <1>1, <1>2, <3>3, BecomesStack
    <3>7. Top' = f
      BY <3>6 DEF Top, Last
    <3>8. QED
      BY <1>1, <3>4, <3>5, <3>6, <3>7 DEF Echo, Blanked
  <2>3. QED
    BY <1>1, <1>6, <2>1, <2>2
<1>8. EchoStopsAtMuc'
  <2> SUFFICES ASSUME NEW d \in done' PROVE Position(d.plugin) < Position("MUC")
    BY DEF EchoStopsAtMuc, Position
  <2>1. CASE d \in done
    BY <2>1 DEF EchoInv, EchoStopsAtMuc
  <2>2. CASE d \notin done
    <3>1. PICK p, cmd, need :
            /\ Ran(p, cmd, need) /\ Accepts(p)
            /\ p = "MUC" \/ isForMe(Top.s) \/ Top.s.body.first \in {"ACL", "ALIAS"}
      BY <1>3, <2>2, RanBy
    <3>2. d.plugin = p
      BY <2>2, <3>1 DEF Ran
    <3>3. Top.s = message /\ Top.at <= Position("MUC")
      <4>1. Top.s # Blanked(message)
        BY <1>4, <1>5, <3>1, NothingIsNoWord DEF NoBody
      <4>2. ~Top.s.offline
        BY <3>1 DEF Accepts, canHandleMessage
      <4>3. QED
        BY <1>3, <4>1, <4>2
    <3>4. Position(p) = Top.at
      BY <1>1, <3>1, MucPlace DEF Accepts
    <3>5. Top.at # Position("MUC")
      <4>1. SUFFICES ASSUME Top.at = Position("MUC") PROVE FALSE
        OBVIOUS
      <4>2. Order[Top.at] = "MUC"
        <5>1. \E i \in DOMAIN Order : Order[i] = "MUC"
          BY DispatchAssumption DEF ToSet
        <5>2. QED
          BY <4>1, <5>1 DEF Position
      <4>3. p = "MUC"
        BY <3>1, <4>2 DEF Accepts, Turn
      <4>4. QED
        BY <1>5, <3>1, <4>3
    <3>6. QED
      BY <1>2, <3>2, <3>3, <3>4, <3>5, Places DEF Frame
  <2>3. QED
    BY <2>1, <2>2
<1>9. QED
  BY <1>1, <1>3, <1>7, <1>8 DEF EchoInv

(* The bot does not act on its own words once the rooms plugin has seen    *)
(* them (mucplugin.cpp:178).                                               *)
THEOREM EchoStops == Spec => []EchoStopsAtMuc
<1>1. Init => EchoInv
  BY DispatchAssumption DEF Init, EchoInv
<1>2. TypeOK /\ EchoInv /\ [Next]_vars => EchoInv'
  <2> SUFFICES ASSUME TypeOK, EchoInv, [Next]_vars PROVE EchoInv'
    OBVIOUS
  <2>1. CASE handleMessage
    <3>1. PICK m \in Incoming : message' = m /\ stack' = <<Call(m, {})>>
      BY <2>1 DEF handleMessage
    <3>2. PICK j \in Sender : \E said \in Said[j] :
            m = [from |-> j, to |-> Me, type |-> said.type, body |-> said.body,
                 alias |-> FALSE, offline |-> said.offline]
      BY <3>1 DEF Incoming
    <3>3. m.to = Me /\ (m.from = Bot => m.type = "groupchat")
      BY <3>2, DispatchAssumption
    <3>4. Echo'
      <4>1. Len(stack') = 1 /\ Top' = Call(m, {})
        BY <3>1 DEF Top, Last
      <4>2. Top'.pc = "offer" /\ Top'.s = message' /\ Top'.at = 1
        BY <3>1, <4>1 DEF Call
      <4>3. Position("MUC") >= 1
        BY Places
      <4>4. QED
        BY <4>1, <4>2, <4>3 DEF Echo, Position
    <3>5. QED
      BY <2>1, <3>1, <3>3, <3>4 DEF handleMessage, Begins, EchoInv, EchoStopsAtMuc
  <2>2. CASE onPresence
    BY <2>2, PresenceStack, DispatchAssumption DEF EchoInv
  <2>3. CASE UNCHANGED vars
    BY <2>3 DEF vars, EchoInv, Echo, EchoStopsAtMuc, Top, Blanked, Position
  <2>4. CASE Step
    BY <2>4, EchoKept, StepShape DEF EchoInv
  <2>5. QED
    BY <2>1, <2>2, <2>3, <2>4 DEF Next
<1>3. EchoInv => EchoStopsAtMuc
  BY DEF EchoInv, EchoStopsAtMuc
<1>4. QED
  BY <1>1, <1>2, <1>3, TypeCorrect, PTL DEF Spec

(* What is said to the room: every call is about something said to the     *)
(* room, the rules speak as the bot, and only the first call counts, when  *)
(* the rooms plugin has its turn.                                          *)
Public(i) ==
  /\ stack[i].s.type = "groupchat"
  /\ i = 1 \/ "glooxbot_alias" \in stack[i].flags \/ stack[i].pc = "expand"
           \/ stack[i].s.from \in {Bot, Nobody}

Counting ==
  stack # <<>> =>
    /\ stack[1].pc = "member" => stack[1].at = Position("MUC")
    /\ stack[1].pc = "offer" /\ stack[1].at <= Position("MUC")
         => \A p \in People : counted[p] = 0

CountInv ==
  message.type = "groupchat" =>
    (\A i \in 1..Len(stack) : Public(i)) /\ Counting /\ CountedOnce

LEMMA PublicKept ==
  ASSUME TypeOK, \A i \in 1..Len(stack) : Public(i), Step
  PROVE  \A i \in 1..Len(stack') : Public(i)'
<1>1. stack # <<>> /\ (Passed \/ Ended \/ Worked \/ Handed)
  BY StepShape
<1>2. /\ Top \in Frame /\ Len(stack) \in Nat \ {0} /\ Top = stack[Len(stack)]
      /\ \A i \in 1..Len(stack) : stack[i] \in Frame
  BY <1>1, TopType
<1>3. /\ Top.s.type = "groupchat"
      /\ Len(stack) = 1 \/ "glooxbot_alias" \in Top.flags \/ Top.pc = "expand"
                        \/ Top.s.from \in {Bot, Nobody}
  BY <1>2 DEF Public
<1>4. ASSUME NEW i \in 1..(Len(stack) - 1), stack'[i] = stack[i] PROVE Public(i)'
  BY <1>2, <1>4 DEF Public
<1>5. ASSUME NEW f \in Frame, Becomes(f), f.s.type = "groupchat", f.flags = Top.flags,
             f.pc = "expand" \/ (Top.pc # "expand" /\ f.s.from \in {Top.s.from, Nobody})
      PROVE  \A i \in 1..Len(stack') : Public(i)'
  <2>1. /\ Len(stack') = Len(stack) /\ stack'[Len(stack)] = f
        /\ \A i \in 1..(Len(stack) - 1) : stack'[i] = stack[i]
    BY <1>1, <1>5, BecomesStack
  <2>2. ASSUME NEW i, i = Len(stack) PROVE Public(i)'
    BY <1>3, <1>5, <2>1, <2>2 DEF Public
  <2>3. QED
    BY <1>2, <1>4, <2>1, <2>2
<1>6. CASE Passed
  <2> DEFINE s == IF Echoed THEN Blanked(Top.s) ELSE Top.s
             f == [Top EXCEPT !.s = s, !.at = @ + 1, !.pc = "offer"]
  <2>1. Top.pc \in {"offer", "member"} /\ Top.at <= Len(Order) /\ Passes(s)
    BY <1>6 DEF Passed
  <2>2. s \in Stanza /\ s.type = "groupchat" /\ s.from \in {Top.s.from, Nobody}
    <3>1. NoBody \in Bodies /\ Top.s \in Stanza
      BY <1>2, DispatchAssumption DEF Frame, NoBody, Bodies
    <3>2. QED
      BY <1>3, <3>1 DEF Blanked, Stanza
  <2> HIDE DEF s
  <2>3. f \in Frame /\ Becomes(f)
    BY <1>2, <2>1, <2>2, PassType DEF Passes
  <2>4. f.s = s /\ f.flags = Top.flags
    BY <1>2 DEF Frame
  <2> HIDE DEF f
  <2>5. QED
    BY <1>5, <2>1, <2>2, <2>3, <2>4
<1>7. CASE Worked
  <2>1. PICK f \in Frame :
          /\ Becomes(f) /\ f.s = Top.s /\ f.flags = Top.flags
          /\ f.pc = "expand" \/ Top.pc # "expand"
    BY <1>7 DEF Worked, Accepts, Turn
  <2>2. QED
    BY <1>3, <1>5, <2>1
<1>8. CASE Handed
  <2>1. PICK f \in Frame, g \in Frame :
          /\ Calls(f, g) /\ f.pc = Top.pc /\ f.flags = Top.flags
          /\ f.s.type = "groupchat" /\ g.s.type = "groupchat"
          /\ f.s = Top.s \/ f.pc = "expand"
          /\ "glooxbot_alias" \in g.flags \/ g.s.from = Bot
    BY <1>3, <1>8 DEF Handed, aliasFlags
  <2>2. /\ Len(stack') = Len(stack) + 1
        /\ stack'[Len(stack)] = f /\ stack'[Len(stack) + 1] = g
        /\ \A i \in 1..(Len(stack) - 1) : stack'[i] = stack[i]
    BY <1>1, <2>1, CallsStack
  <2>3. ASSUME NEW i, i = Len(stack) PROVE Public(i)'
    BY <1>3, <2>1, <2>2, <2>3 DEF Public
  <2>4. ASSUME NEW i, i = Len(stack) + 1 PROVE Public(i)'
    BY <2>1, <2>2, <2>4 DEF Public
  <2>5. QED
    BY <1>2, <1>4, <2>2, <2>3, <2>4
<1>9. CASE Ended
  <2>1. PICK s \in Stanza : s.type = "groupchat" /\ Returns(s)
    BY <1>3, <1>9 DEF Ended
  <2>2. /\ Len(stack') = Len(stack) - 1
        /\ \A i \in 1..(Len(stack) - 2) : stack'[i] = stack[i]
        /\ Len(stack) > 1 =>
             stack'[Len(stack) - 1] =
               IF stack[Len(stack) - 1].pc = "expand"
               THEN [stack[Len(stack) - 1] EXCEPT !.s = s] ELSE stack[Len(stack) - 1]
    BY <1>1, <2>1, ReturnsStack
  <2>3. ASSUME NEW i \in 1..(Len(stack) - 1), i = Len(stack) - 1 PROVE Public(i)'
    <3>1. /\ stack[i] \in Frame
          /\ \/ stack'[i] = stack[i]
             \/ stack[i].pc = "expand" /\ stack'[i] = [stack[i] EXCEPT !.s = s]
      BY <1>2, <2>2, <2>3
    <3>2. CASE stack'[i] = stack[i]
      BY <1>4, <3>2
    <3>3. CASE stack[i].pc = "expand" /\ stack'[i] = [stack[i] EXCEPT !.s = s]
      <4>1. stack'[i].s = s /\ stack'[i].pc = "expand"
        BY <3>1, <3>3 DEF Frame
      <4>2. QED
        BY <2>1, <4>1 DEF Public
    <3>4. QED
      BY <3>1, <3>2, <3>3
  <2>4. QED
    BY <1>2, <1>4, <2>2, <2>3
<1>10. QED
  BY <1>1, <1>6, <1>7, <1>8, <1>9

(* The statistics of a room count a line once, whatever it sets off        *)
(* (mucplugin.cpp:597).                                                    *)
THEOREM CountsOnce == Spec => []CountedOnce
<1>1. Init => CountInv
  BY DispatchAssumption DEF Init, CountInv
<1>2. TypeOK /\ CountInv /\ [Next]_vars => CountInv'
  <2> SUFFICES ASSUME TypeOK, CountInv, [Next]_vars, message'.type = "groupchat"
               PROVE  (\A i \in 1..Len(stack) : Public(i))' /\ Counting' /\ CountedOnce'
    BY DEF CountInv
  <2>1. CASE handleMessage
    <3>1. PICK m : message' = m /\ stack' = <<Call(m, {})>>
      BY <2>1 DEF handleMessage
    <3>2. Len(stack') = 1 /\ stack'[1] = Call(m, {}) /\ counted' = [p \in Occupant |-> 0]
      BY <2>1, <3>1 DEF handleMessage, Begins
    <3>3. stack'[1].s = message' /\ stack'[1].pc = "offer"
      BY <3>1, <3>2 DEF Call
    <3>4. \A p \in People : counted'[p] = 0
      BY <3>2 DEF Occupant
    <3>5. ASSUME NEW i, i = 1 PROVE Public(i)'
      BY <3>3, <3>5 DEF Public
    <3>6. (\A i \in 1..Len(stack) : Public(i))'
      BY <3>2, <3>5
    <3>7. Counting' /\ CountedOnce'
      BY <3>3, <3>4 DEF Counting, CountedOnce
    <3>8. QED
      BY <3>6, <3>7
  <2>2. CASE onPresence
    BY <2>2, PresenceStack
  <2>3. CASE UNCHANGED vars
    <3>1. UNCHANGED <<stack, message, counted>>
      BY <2>3 DEF vars
    <3>2. (\A i \in 1..Len(stack) : Public(i)) /\ Counting /\ CountedOnce
      BY <3>1 DEF CountInv
    <3>3. ASSUME NEW i, Public(i) PROVE Public(i)'
      BY <3>1, <3>3 DEF Public
    <3>4. Counting' /\ CountedOnce'
      BY <3>1, <3>2 DEF Counting, CountedOnce, Position
    <3>5. QED
      BY <3>1, <3>2, <3>3, <3>4
  <2>4. CASE Step
    <3>1. /\ stack # <<>> /\ UNCHANGED message
          /\ (\A i \in 1..Len(stack) : Public(i)) /\ Counting /\ CountedOnce
      BY <2>4, StepShape DEF CountInv
    <3>2. (\A i \in 1..Len(stack) : Public(i))'
      BY <2>4, <3>1, PublicKept
    <3>3. /\ Top \in Frame /\ Len(stack) \in Nat \ {0} /\ Top = stack[Len(stack)]
          /\ \A i \in 1..Len(stack) : stack[i] \in Frame
      BY <3>1, TopType
    <3>4. CASE \A p \in People : counted'[p] = counted[p]
      <4>1. CountedOnce'
        BY <3>1, <3>4 DEF CountedOnce
      <4>2. Counting'
        <5> SUFFICES ASSUME stack' # <<>> PROVE Counting'
          BY DEF Counting
        <5>1. OuterStep(stack[1], stack'[1])
          BY <2>4, Outermost
        <5>2. Accepts("MUC") /\ Len(stack) = 1 => stack[1].at = Position("MUC")
          BY <3>1, <3>3, MucPlace DEF Accepts
        <5>3. stack[1].at \in Nat /\ Position("MUC") \in Nat
          BY <3>3, Places DEF Frame
        <5>4. stack'[1].pc = "member" => stack'[1].at = Position("MUC")
          BY <3>1, <5>1, <5>2 DEF OuterStep, Counting
        <5>5. stack'[1].pc = "offer" /\ stack'[1].at <= Position("MUC")
                => stack[1].pc = "offer" /\ stack[1].at <= Position("MUC")
          BY <3>1, <5>1, <5>3 DEF OuterStep, Counting
        <5>6. QED
          BY <3>1, <3>4, <5>4, <5>5 DEF Counting, Position
      <4>3. QED
        BY <3>2, <4>1, <4>2
    <3>5. CASE \E p \in People : counted'[p] # counted[p]
      <4>1. mucListens
        BY <2>4, <3>5
           DEF Step, ghosts, NotHandled, Exhausted, Described, coreOnMessage,
               tableParseMessage, wordParseMessage, aclParseMessage, aclParseCommands,
               aliasParseMessage, aliasParseCommands, expandNext, expandDone, mucVisits,
               walkNext, recheckNext, recheckDone, mucCommand, mucLists
      <4>2. /\ Turn("MUC") /\ Top.s.from \in Occupant /\ "glooxbot_alias" \notin Top.flags
            /\ counted' = [counted EXCEPT ![Top.s.from] = IF @ < 2 THEN @ + 1 ELSE @]
        <5>1. Turn("MUC") /\ Top.s.from \in Occupant
          BY <4>1, DispatchAssumption
             DEF mucListens, Parses, Accepts, canHandleMessage, inRoom
        <5>2. /\ "glooxbot_alias" \notin Top.flags
              /\ counted' = [counted EXCEPT ![Top.s.from] = IF @ < 2 THEN @ + 1 ELSE @]
          BY <3>5, <4>1 DEF mucListens, statMessage
        <5>3. QED
          BY <5>1, <5>2
      <4>3. Top.pc = "offer" /\ Top.at = Position("MUC") /\ counted \in [Occupant -> 0..2]
        BY <3>1, <4>2, MucPlace DEF Turn, TypeOK
      <4>4. Len(stack) = 1
        <5>1. Top.s.from # Bot
          BY <3>5, <4>2, <4>3, DispatchAssumption DEF Occupant
        <5>2. Top.s.from # Nobody
          BY <4>2, DispatchAssumption DEF Occupant
        <5>3. Public(Len(stack))
          BY <3>1, <3>3
        <5>4. QED
          BY <3>3, <4>2, <4>3, <5>1, <5>2, <5>3 DEF Public
      <4>5. \A p \in People : counted[p] = 0
        BY <3>1, <3>3, <4>3, <4>4, Places DEF Counting
      <4>6. \A p \in People : counted'[p] <= 1
        BY <4>2, <4>3, <4>5 DEF Occupant
      <4>7. stack' # <<>> /\ stack'[1].pc = "member" /\ stack'[1].at = Position("MUC")
        <5> DEFINE f == [Top EXCEPT !.pc = "member", !.rest = membersRules(Top.s),
                                    !.nick = Top.s.from]
        <5>1. Becomes(f) /\ membersRules(Top.s) \in SUBSET (Nat \X DOMAIN Rule)
          BY <4>1, FindType DEF mucListens, membersRules
        <5>2. Top.at <= Len(Order)
          BY <4>2 DEF Turn
        <5>3. f \in Frame /\ f.pc = "member" /\ f.at = Top.at
          <6>1. PICK t, r, x : t = Top /\ r = membersRules(Top.s) /\ x = Top.s.from
            OBVIOUS
          <6>2. /\ t \in Frame /\ t.at <= Len(Order) /\ x \in Occupant
                /\ r \in SUBSET (Nat \X DOMAIN Rule)
            BY <3>3, <4>2, <5>1, <5>2, <6>1
          <6>3. PICK g : g = [t EXCEPT !.pc = "member", !.rest = r, !.nick = x]
            OBVIOUS
          <6>4. g \in Frame /\ g.pc = "member" /\ g.at = t.at
            BY <6>2, <6>3 DEF Frame
          <6>5. g = f
            BY <6>1, <6>3
          <6>6. QED
            BY <6>1, <6>4, <6>5
        <5> HIDE DEF f
        <5>4. Len(stack') = 1 /\ stack'[1] = f
          BY <3>1, <4>4, <5>1, <5>3, BecomesStack
        <5>5. stack' # <<>>
          BY <5>4
        <5>6. stack'[1].pc = "member" /\ stack'[1].at = Position("MUC")
          BY <4>3, <5>3, <5>4
        <5>7. QED
          BY <5>5, <5>6
      <4>8. Counting' /\ CountedOnce'
        BY <4>6, <4>7 DEF Counting, CountedOnce, Position
      <4>9. QED
        BY <3>2, <4>8
    <3>6. QED
      BY <3>4, <3>5
  <2>5. QED
    BY <2>1, <2>2, <2>3, <2>4 DEF Next
<1>3. CountInv => CountedOnce
  BY DEF CountInv, CountedOnce
<1>4. QED
  BY <1>1, <1>2, <1>3, TypeCorrect, PTL DEF Spec

-----------------------------------------------------------------------------
(* The access list.  Every call but the alias plugin's own work is looked  *)
(* at before anything but the core acts on it, and the list stays as it is *)
(* as long as a call lasts.                                                *)
LEMMA AclPlace ==
  /\ Position("ACL") \in 1..Len(Order) /\ Order[Position("ACL")] = "ACL"
  /\ \A i \in 1..(Position("ACL") - 1) : Order[i] = "CORE"
  /\ Position("MUC") > Position("ACL")
<1>1. Order \in Seq(STRING) /\ DOMAIN Order = 1..Len(Order) /\ Len(Order) \in Nat
  BY DispatchAssumption
<1>2. PICK k \in DOMAIN Order : Order[k] = "ACL" /\ \A i \in 1..(k - 1) : Order[i] = "CORE"
  BY OrderAssumption
<1>3. Position("ACL") = k
  BY <1>1, <1>2, Places
<1>4. PICK m \in DOMAIN Order : Order[m] = "MUC"
  BY DispatchAssumption DEF ToSet
<1>5. Position("MUC") = m
  BY <1>1, <1>4, Places
<1>6. m \notin 1..(k - 1) /\ m # k
  BY <1>2, <1>4
<1>7. m > k
  BY <1>1, <1>2, <1>4, <1>6
<1> QED BY <1>1, <1>2, <1>3, <1>5, <1>7

(* The access plugin has let a call pass.                                  *)
Past(f) == f.pc = "member" \/ (f.pc = "offer" /\ f.at > Position("ACL"))

(* Such a call is one nobody acts on, or its sender is not denied, or it   *)
(* is the bot's owner with a command the access plugin does not know.      *)
Checked(f, list) ==
  Past(f) => \/ f.pc = "offer" /\ f.s.offline
             \/ Keys[f.s.from] \cap list = {}
             \/ f.s.body.first = "ACL" /\ Role[f.s.from] >= BOTOWNER

(* Only the message itself is for the access plugin.                       *)
NoEdit(f) == f.pc \in {"offer", "member"} => f.s.body.first # "ACL"
NoEditAhead(f) == f.pc = "expand" => \A k \in DOMAIN f.items : f.items[k].first # "ACL"

Watched ==
  /\ \A i \in 1..Len(stack) : Checked(stack[i], denied) /\ NoEditAhead(stack[i])
  /\ \A i \in 2..Len(stack) : NoEdit(stack[i])

Spoken == message.from \notin {Bot, Room}

WatchInv == QuietItems /\ AccessIsManual /\ Spoken => Watched

(* What neither the bot nor the room has said is never taken for theirs.   *)
LEMMA NotMine ==
  ASSUME TypeOK, Sound, Spoken, stack # <<>>
  PROVE  ~isMyMessage(Top.s)
<1> SUFFICES ASSUME isMyMessage(Top.s) PROVE FALSE
  OBVIOUS
<1> DEFINE n == Len(stack)
<1>1. n \in Nat \ {0} /\ Top = stack[n] /\ \A i \in 1..n : stack[i] \in Frame
  BY TopType
<1>2. Placed(n)
  BY <1>1 DEF Sound
<1>3. Top.s.from \in {Bot, Room} /\ Top.s.from # Top.s.to
  BY DEF isMyMessage
<1>4. Top.s.from = Bot /\ RuledBelow(n)
  BY <1>1, <1>2, <1>3, DispatchAssumption DEF Placed, Spoken
<1>5. n > 1 /\ n - 1 \in 1..(n - 1)
  BY <1>1, <1>4 DEF RuledBelow
<1>6. Link(stack[n - 1], Top)
  <2> DEFINE m == n - 1
  <2>1. m \in 1..(Len(stack) - 1) /\ stack[m + 1] = Top
    BY <1>1, <1>5
  <2> HIDE DEF m
  <2>2. Link(stack[m], Top)
    BY <2>1 DEF Sound
  <2> QED BY <2>2 DEF m
<1>7. Top.flags = aliasFlags \/ Top.flags = {"acmd"}
  BY <1>6 DEF Link
<1>8. Top.flags # aliasFlags
  BY <1>1, <1>2 DEF Placed, Kept
<1>9. rank(Top) = 6
  BY <1>3, <1>8 DEF rank, class
<1> QED BY <1>1, <1>2, <1>5, <1>9 DEF Placed

(* What the access plugin may make of a call.                              *)
LEMMA AtAcl ==
  ASSUME TypeOK, Step, Turn("ACL"), ~isMyMessage(Top.s)
  PROVE  \/ Returns(Top.s)
         \/ Top.s.offline \/ isJidAccepted(Top.s.from)
         \/ Top.s.body.first = "ACL" /\ Role[Top.s.from] >= BOTOWNER
<1>1. Top.pc = "offer" /\ Top.at <= Len(Order) /\ Order[Top.at] = "ACL"
  BY DEF Turn
<1>2. CASE NotHandled
  BY <1>1, <1>2 DEF NotHandled, canHandleMessage
<1>3. CASE Described
  BY <1>3 DEF Described
<1>4. CASE aclParseMessage
  BY <1>4 DEF aclParseMessage
<1>5. CASE aclParseCommands
  BY <1>5 DEF aclParseCommands
<1>6. ASSUME NEW p \in DOMAIN Table, tableParseMessage(p) PROVE FALSE
  BY <1>1, <1>6, Tables DEF tableParseMessage, Parses, Accepts, Turn
<1> QED
  BY <1>1, <1>2, <1>3, <1>4, <1>5, <1>6
     DEF Step, Exhausted, coreOnMessage, wordParseMessage, aliasParseMessage,
         aliasParseCommands, expandNext, expandDone, mucVisits, mucListens, walkNext,
         recheckNext, recheckDone, mucCommand, mucLists, Commanded, Parses, Accepts, Turn

(* Who edits the access list.                                              *)
LEMMA DeniedBy ==
  ASSUME Step, denied' # denied
  PROVE  Top.pc = "offer" /\ Top.s.body.first = "ACL" /\ Returns(Top.s)
<1> USE DEF lists, ghosts
<1>1. CASE aclParseCommands
  BY <1>1 DEF aclParseCommands, Parses, Accepts, Turn
<1>2. ASSUME NEW p \in DOMAIN Table, tableParseMessage(p) PROVE FALSE
  BY <1>2 DEF tableParseMessage
<1> QED
  BY <1>1, <1>2
     DEF Step, NotHandled, Exhausted, Described, coreOnMessage, wordParseMessage,
         aclParseMessage, aliasParseMessage, aliasParseCommands, expandNext, expandDone,
         mucVisits, mucListens, walkNext, recheckNext, recheckDone, mucCommand, mucLists

(* What is left of the stack without the innermost call.                   *)
LEMMA FrontDomain ==
  ASSUME TypeOK, stack # <<>>
  PROVE  DOMAIN Front(stack) = 1..(Len(stack) - 1)
<1>1. Len(stack) - 1 \in Nat /\ \A i \in 1..(Len(stack) - 1) : stack[i] \in Frame
  BY TopType
<1> QED BY <1>1, SubSeqProperties DEF Front

(* Where the alias plugin or a rule takes the next message from.           *)
LEMMA HandedBody ==
  ASSUME TypeOK, Step, AccessIsManual, stack # <<>>, NoEditAhead(Top),
         NEW f \in Frame, NEW g \in Frame, Calls(f, g)
  PROVE  g.at = 1 /\ g.pc = "offer" /\ NoEdit(g) /\ NoEditAhead(f)
<1> USE DEF lists, ghosts
<1>1. Top \in Frame /\ Top.s \in Stanza /\ Len(stack) \in Nat
  BY TopType DEF Frame
<1>2. /\ Len(stack') = Len(stack) + 1
      /\ stack'[Len(stack)] = f /\ stack'[Len(stack) + 1] = g
  BY CallsStack
<1>3. CASE expandNext
  <2> DEFINE s == expanded(Top.s, Head(Top.items))
             left == Tail(Top.items)
             x == [Top EXCEPT !.s = s, !.items = left]
             y == Call(s, aliasFlags)
  <2>1. Top.items \in Seq(Bodies) /\ Top.items # <<>> /\ Top.pc = "expand" /\ Calls(x, y)
    BY <1>1, <1>3 DEF expandNext, itemsAfter, Frame
  <2>2. Head(Top.items) = Top.items[1] /\ Head(Top.items) \in Bodies /\ left \in Seq(Bodies)
    BY <2>1
  <2>3. s \in Stanza /\ s.body = Top.items[1]
    <3>1. s \in Stanza
      BY <1>1, <2>2, StanzaTypes
    <3>2. s.body = Head(Top.items)
      BY <1>1 DEF expanded, Stanza
    <3> QED BY <2>2, <3>1, <3>2
  <2>4. \A k \in DOMAIN left :
          k \in Nat /\ k + 1 \in DOMAIN Top.items /\ left[k] = Top.items[k + 1]
    BY <2>1
  <2>5. 1 \in DOMAIN Top.items
    BY <2>1
  <2> HIDE DEF s, left
  <2>6. x \in Frame /\ x.items = left /\ x.pc = "expand"
    BY <1>1, <2>1, <2>2, <2>3 DEF Frame
  <2>7. y \in Frame /\ y.s = s /\ y.at = 1 /\ y.pc = "offer"
    BY <2>3, CallType DEF Call, aliasFlags
  <2> HIDE DEF x, y
  <2>8. f = x /\ g = y
    BY <1>2, <2>1, <2>6, <2>7, CallsStack
  <2>9. \A k \in DOMAIN Top.items : Top.items[k].first # "ACL"
    BY <2>1 DEF NoEditAhead
  <2>10. NoEdit(g)
    BY <2>3, <2>5, <2>7, <2>8, <2>9 DEF NoEdit
  <2>11. NoEditAhead(f)
    BY <2>4, <2>6, <2>8, <2>9 DEF NoEditAhead
  <2> QED BY <2>7, <2>8, <2>10, <2>11
<1>4. CASE walkNext
  <2>1. Top.pc \in {"member", "recheck"}
    BY <1>4 DEF walkNext
  <2>2. PICK r \in Top.rest :
          IF Rule[r[2]].action = NoBody THEN Becomes([Top EXCEPT !.rest = {}])
          ELSE Calls([Top EXCEPT !.rest = @ \ {r}],
                     Call(ruleStanza(Top, Rule[r[2]].action), {"acmd"}))
    BY <1>4 DEF walkNext
  <2>3. r[2] \in DOMAIN Rule
    BY <1>1, <2>2 DEF Frame
  <2> DEFINE x == [Top EXCEPT !.rest = @ \ {r}]
             s == ruleStanza(Top, Rule[r[2]].action)
             y == Call(s, {"acmd"})
  <2>4. Rule[r[2]].action # NoBody
    <3>1. SUFFICES ASSUME Becomes([Top EXCEPT !.rest = {}]) PROVE FALSE
      BY <2>2
    <3>2. [Top EXCEPT !.rest = {}] \in Frame
      BY <1>1 DEF Frame
    <3>3. Len(stack') = Len(stack)
      BY <3>1, <3>2, BecomesStack
    <3> QED BY <1>1, <1>2, <3>3
  <2>5. Calls(x, y)
    BY <2>2, <2>4
  <2>6. x \in Frame /\ x.pc = Top.pc
    BY <1>1 DEF Frame
  <2>7. /\ s \in Stanza /\ y \in Frame
        /\ y.s = s /\ y.at = 1 /\ y.pc = "offer"
    BY <1>1, <2>3, RuleType, CallType DEF Call
  <2>8. s.body.first = Rule[r[2]].action.first
    <3>1. Rule[r[2]].action \in Bodies
      BY <2>3, DispatchAssumption
    <3>2. expandMacro(Rule[r[2]].action, Top).first = Rule[r[2]].action.first
      BY <3>1 DEF expandMacro, Bodies
    <3> QED BY <3>2 DEF ruleStanza
  <2> HIDE DEF x, y, s
  <2>9. f = x /\ g = y
    BY <1>2, <2>5, <2>6, <2>7, CallsStack
  <2> QED BY <2>1, <2>3, <2>6, <2>7, <2>8, <2>9 DEF AccessIsManual, NoEdit, NoEditAhead
<1>5. expandNext \/ walkNext
  <2>1. DOMAIN stack' = 1..(Len(stack) + 1) /\ DOMAIN stack = 1..Len(stack)
    BY <1>1, <1>2, CallsStack
  <2>2. ASSUME NEW x, Becomes(x) PROVE FALSE
    <3>1. DOMAIN stack' = DOMAIN stack
      BY <2>2 DEF Becomes
    <3>2. Len(stack) + 1 \in DOMAIN stack' /\ Len(stack) + 1 \notin DOMAIN stack
      BY <1>1, <2>1
    <3> QED BY <3>1, <3>2
  <2>3. \A s : ~Passes(s)
    BY <2>2 DEF Passes
  <2>4. ASSUME NEW s, Returns(s) PROVE FALSE
    <3>1. DOMAIN stack' = DOMAIN Front(stack)
      <4>1. PICK below : below = Front(stack)
        OBVIOUS
      <4>2. stack' = below \/ stack' = [below EXCEPT ![Len(below)].s = s]
        BY <2>4, <4>1 DEF Returns
      <4> QED BY <4>1, <4>2
    <3>2. Len(stack) + 1 \in DOMAIN stack' /\ Len(stack) + 1 \notin DOMAIN Front(stack)
      BY <1>1, <2>1, FrontDomain
    <3> QED BY <3>1, <3>2
  <2>5. ASSUME NEW p \in DOMAIN Table PROVE ~tableParseMessage(p)
    BY <2>3, <2>4 DEF tableParseMessage
  <2> QED
    BY <2>2, <2>3, <2>4, <2>5
       DEF Step, NotHandled, Exhausted, Described, coreOnMessage, wordParseMessage,
           aclParseMessage, aclParseCommands, aliasParseMessage, aliasParseCommands,
           expandDone, mucVisits, mucListens, recheckNext, recheckDone, mucCommand, mucLists
<1> QED BY <1>3, <1>4, <1>5

(* A step keeps the watch: what goes past the access plugin is checked,    *)
(* and while a call lasts the list it was checked against stays the same.  *)
LEMMA WatchKept ==
  ASSUME TypeOK, Sound, Watched, AccessIsManual, Spoken, Step
  PROVE  Watched'
<1> SUFFICES ASSUME stack' # <<>> PROVE Watched'
  BY DEF Watched
<1> DEFINE n == Len(stack)
<1>1. stack # <<>> /\ UNCHANGED message /\ (Passed \/ Ended \/ Worked \/ Handed)
  BY StepShape
<1>2. /\ Top \in Frame /\ Top.s \in Stanza /\ n \in Nat \ {0} /\ Top = stack[n]
      /\ \A i \in 1..n : stack[i] \in Frame
  BY <1>1, TopType DEF Frame
<1>3. ~isMyMessage(Top.s)
  BY <1>1, NotMine
<1>4. /\ \A i \in 1..n : Checked(stack[i], denied) /\ NoEditAhead(stack[i])
      /\ \A i \in 2..n : NoEdit(stack[i])
      /\ Checked(Top, denied) /\ NoEditAhead(Top) /\ (n > 1 => NoEdit(Top))
  BY <1>2 DEF Watched
<1>5. UNCHANGED denied
  <2> SUFFICES ASSUME denied' # denied PROVE FALSE
    OBVIOUS
  <2>1. Top.pc = "offer" /\ Top.s.body.first = "ACL" /\ Returns(Top.s)
    BY DeniedBy
  <2>2. n = 1
    <3>1. ~NoEdit(Top)
      BY <2>1 DEF NoEdit
    <3>2. ~(n > 1) /\ n \in Nat \ {0}
      BY <1>2, <1>4, <3>1
    <3> HIDE DEF n
    <3> QED BY <3>2
  <2>3. stack' \in Seq(Frame) /\ Len(stack') = 0
    BY <1>1, <1>2, <2>1, <2>2, ReturnsStack
  <2> QED BY <2>3
<1>6. SUFFICES /\ \A i \in 1..Len(stack') : Checked(stack'[i], denied) /\ NoEditAhead(stack'[i])
               /\ \A i \in 2..Len(stack') : NoEdit(stack'[i])
  BY <1>5 DEF Watched
<1>7. ASSUME NEW f, Len(stack') = n, stack'[n] = f,
             \A i \in 1..(n - 1) : stack'[i] = stack[i],
             Checked(f, denied), NoEditAhead(f), n > 1 => NoEdit(f)
      PROVE  /\ \A i \in 1..Len(stack') : Checked(stack'[i], denied) /\ NoEditAhead(stack'[i])
             /\ \A i \in 2..Len(stack') : NoEdit(stack'[i])
  BY <1>2, <1>4, <1>7
<1> HIDE DEF n
<1>8. CASE Ended
  <2>1. PICK s \in Stanza : Returns(s)
    BY <1>8 DEF Ended
  <2>2. /\ Len(stack') = n - 1 /\ \A i \in 1..(n - 2) : stack'[i] = stack[i]
        /\ n > 1 => stack'[n - 1] = IF stack[n - 1].pc = "expand"
                                   THEN [stack[n - 1] EXCEPT !.s = s] ELSE stack[n - 1]
    BY <1>1, <2>1, ReturnsStack DEF n
  <2>3. ASSUME n > 1, stack[n - 1].pc = "expand"
        PROVE  /\ Checked(stack'[n - 1], denied) /\ NoEditAhead(stack'[n - 1])
               /\ NoEdit(stack'[n - 1])
    <3> DEFINE f == stack[n - 1]
    <3>1. f \in Frame /\ f.pc = "expand" /\ NoEditAhead(f) /\ stack'[n - 1] = [f EXCEPT !.s = s]
      BY <1>2, <1>4, <2>2, <2>3
    <3> HIDE DEF f
    <3>2. stack'[n - 1].pc = "expand" /\ stack'[n - 1].items = f.items
      BY <3>1 DEF Frame
    <3> QED BY <3>1, <3>2 DEF Checked, Past, NoEditAhead, NoEdit
  <2>4. ASSUME NEW i \in 1..Len(stack')
        PROVE  Checked(stack'[i], denied) /\ NoEditAhead(stack'[i]) /\ (i > 1 => NoEdit(stack'[i]))
    <3>1. CASE i = n - 1 /\ stack[i].pc = "expand"
      BY <1>2, <2>2, <2>3, <2>4, <3>1
    <3>2. CASE ~(i = n - 1 /\ stack[i].pc = "expand")
      <4>1. i \in 1..n /\ stack'[i] = stack[i]
        BY <1>2, <2>2, <2>4, <3>2
      <4> QED BY <1>2, <1>4, <4>1
    <3> QED BY <3>1, <3>2
  <2> QED BY <1>2, <2>2, <2>4
<1>9. CASE Handed
  <2>1. PICK f \in Frame, g \in Frame : Calls(f, g) /\ f.pc = Top.pc /\ f.at = Top.at
                                        /\ (f.pc \in {"member", "recheck"} => f.s = Top.s)
                                        /\ f.pc \in {"expand", "member", "recheck"}
    BY <1>9 DEF Handed
  <2>2. /\ Len(stack') = n + 1 /\ stack'[n] = f /\ stack'[n + 1] = g
        /\ \A i \in 1..(n - 1) : stack'[i] = stack[i]
    BY <1>1, <2>1, CallsStack DEF n
  <2>3. g.at = 1 /\ g.pc = "offer" /\ NoEdit(g) /\ NoEditAhead(f)
    BY <1>1, <1>4, <2>1, HandedBody
  <2>4. Checked(g, denied) /\ NoEditAhead(g)
    BY <2>3, AclPlace DEF Checked, Past, NoEditAhead
  <2>5. Checked(f, denied)
    BY <1>4, <2>1 DEF Checked, Past
  <2>6. n > 1 => NoEdit(f)
    BY <1>4, <2>1 DEF NoEdit
  <2>7. ASSUME NEW i \in 1..Len(stack')
        PROVE  Checked(stack'[i], denied) /\ NoEditAhead(stack'[i]) /\ (i > 1 => NoEdit(stack'[i]))
    <3>1. i \in 1..(n - 1) \/ i = n \/ i = n + 1
      BY <1>2, <2>2, <2>7
    <3> QED BY <1>2, <1>4, <2>2, <2>3, <2>4, <2>5, <2>6, <3>1
  <2> QED BY <1>2, <2>2, <2>7
<1>10. CASE Worked
  <2>1. PICK f \in Frame :
          /\ Becomes(f) /\ f.s = Top.s /\ f.at = Top.at
          /\ \/ f.pc = "expand" /\ AreItems(f.items)
             \/ f.pc = "member" /\ Accepts("MUC")
             \/ f.pc \in {"member", "recheck"} /\ Top.pc \in {"member", "recheck"}
                /\ (f.pc = "member" => Top.pc = "member")
    BY <1>10 DEF Worked
  <2>2. /\ Len(stack') = n /\ stack'[n] = f /\ \A i \in 1..(n - 1) : stack'[i] = stack[i]
    BY <1>1, <2>1, BecomesStack DEF n
  <2>3. NoEditAhead(f)
    BY <2>1 DEF NoEditAhead, AreItems, AccessIsManual
  <2>4. Checked(f, denied) /\ (n > 1 => NoEdit(f))
    <3>1. CASE f.pc \in {"expand", "recheck"}
      BY <3>1 DEF Checked, Past, NoEdit
    <3>2. CASE f.pc = "member" /\ Top.pc = "member"
      BY <1>4, <2>1, <3>2 DEF Checked, Past, NoEdit
    <3>3. CASE f.pc = "member" /\ Accepts("MUC")
      <4>1. Top.pc = "offer" /\ ~Top.s.offline /\ Top.at > Position("ACL")
        BY <1>1, <3>3, MucPlace, AclPlace DEF Accepts, Turn, canHandleMessage
      <4> QED BY <1>4, <2>1, <3>3, <4>1 DEF Checked, Past, NoEdit
    <3> QED BY <2>1, <3>1, <3>2, <3>3
  <2> QED BY <1>7, <2>2, <2>3, <2>4
<1>11. CASE Passed
  <2> DEFINE f == [Top EXCEPT !.s = Top.s, !.at = @ + 1, !.pc = "offer"]
  <2>1. ~Echoed
    BY <1>3 DEF Echoed
  <2>2. Top.pc \in {"offer", "member"} /\ Top.at <= Len(Order) /\ Becomes(f)
    BY <1>11, <2>1 DEF Passed, Passes
  <2>3. f \in Frame
    BY <1>2, <2>2, PassType
  <2>4. f.s = Top.s /\ f.at = Top.at + 1 /\ f.pc = "offer"
    BY <1>2 DEF Frame
  <2> HIDE DEF f
  <2>5. /\ Len(stack') = n /\ stack'[n] = f /\ \A i \in 1..(n - 1) : stack'[i] = stack[i]
    BY <1>1, <2>2, <2>3, BecomesStack DEF n
  <2>6. NoEditAhead(f) /\ (n > 1 => NoEdit(f))
    BY <1>4, <2>2, <2>4 DEF NoEditAhead, NoEdit
  <2>7. Checked(f, denied)
    <3> SUFFICES ASSUME f.at > Position("ACL")
                 PROVE  \/ f.s.offline \/ Keys[f.s.from] \cap denied = {}
                        \/ f.s.body.first = "ACL" /\ Role[f.s.from] >= BOTOWNER
      BY <2>4 DEF Checked, Past
    <3>1. CASE Past(Top)
      BY <1>4, <2>4, <3>1 DEF Checked
    <3>2. CASE ~Past(Top)
      <4>1. Top.pc = "offer" /\ Top.at = Position("ACL")
        BY <1>2, <2>2, <2>4, <3>2, AclPlace DEF Past, Frame
      <4>2. Turn("ACL")
        BY <1>1, <2>2, <4>1, AclPlace DEF Turn
      <4>3. ~Returns(Top.s)
        <5>1. Returns(Top.s) => Len(stack') = n - 1
          BY <1>1, <1>2, ReturnsStack DEF n
        <5> QED BY <1>2, <2>5, <5>1
      <4> QED BY <1>3, <2>4, <4>2, <4>3, AtAcl DEF isJidAccepted
    <3> QED BY <3>1, <3>2
  <2> QED BY <1>7, <2>5, <2>6, <2>7
<1> QED BY <1>1, <1>8, <1>9, <1>10, <1>11

(* What a checked call may run, other than the core's and the access       *)
(* plugin's commands, if its sender is denied.                             *)
LEMMA RanChecked ==
  ASSUME TypeOK, Step, done' # done, Checked(Top, denied), Keys[Top.s.from] \cap denied # {}
  PROVE  \E p, cmd, need :
           /\ Ran(p, cmd, need)
           /\ \/ p \in {"CORE", "ACL"}
              \/ p = "MUC" /\ cmd \in DOMAIN VisitCommands /\ Role[Top.s.from] >= BOTOWNER
<1> USE DEF lists, ghosts
<1>1. stack # <<>> /\ Top \in Frame
  BY StepShape, TopType
<1>2. ASSUME NEW p, p \notin {"CORE", "ACL"}, Accepts(p)
      PROVE  Top.s.body.first = "ACL" /\ Role[Top.s.from] >= BOTOWNER
  <2>1. /\ Top.pc = "offer" /\ Top.at \in 1..Len(Order) /\ Order[Top.at] = p
        /\ ~Top.s.offline
    BY <1>1, <1>2 DEF Accepts, Turn, canHandleMessage, Frame
  <2>2. Top.at > Position("ACL")
    BY <1>2, <2>1, AclPlace
  <2> QED BY <2>1, <2>2 DEF Checked, Past
<1>3. ASSUME NEW p, p \notin {"CORE", "ACL", "MUC"}, Accepts(p), isMessageAcceptable(p, Top.s)
      PROVE  FALSE
  BY <1>2, <1>3 DEF isMessageAcceptable
<1>4. ASSUME NEW p \in DOMAIN Table, tableParseMessage(p) PROVE FALSE
  <2>1. p \notin {"CORE", "ACL", "ALIAS", "MUC"}
    BY Tables
  <2>2. Accepts(p) /\ isMessageAcceptable(p, Top.s)
    BY <1>4, <2>1 DEF tableParseMessage, Parses, Accepts, Turn, canHandleMessage
  <2> QED BY <1>3, <2>1, <2>2
<1>5. CASE coreOnMessage
  BY <1>5 DEF coreOnMessage
<1>6. ~wordParseMessage
  <2> SUFFICES ASSUME wordParseMessage PROVE FALSE
    OBVIOUS
  <2>1. Accepts("WORD") /\ isMessageAcceptable("WORD", Top.s)
    BY DEF wordParseMessage, Parses, Accepts, canHandleMessage
  <2> QED BY <1>3, <2>1
<1>7. CASE aclParseCommands
  BY <1>7 DEF aclParseCommands
<1>8. ~aliasParseCommands
  <2> SUFFICES ASSUME aliasParseCommands PROVE FALSE
    OBVIOUS
  <2>1. Accepts("ALIAS") /\ Top.s.body.first = "ALIAS"
    BY DEF aliasParseCommands, Parses
  <2> QED BY <1>2, <2>1
<1>9. CASE mucVisits
  <2>1. Role[Top.s.from] >= BOTOWNER
    BY <1>2, <1>9 DEF mucVisits, Parses
  <2>2. isVisit(Top.s) /\ Ran("MUC", Top.s.body.cmd, VisitCommands[Top.s.body.cmd].need)
    BY <1>9 DEF mucVisits
  <2> QED BY <2>1, <2>2 DEF isVisit
<1>10. Commanded => Top.s.body.first = "ACL"
  BY DEF Commanded, Checked, Past
<1>11. ~mucCommand
  BY <1>10 DEF mucCommand, IsForMuc
<1>12. ~mucLists
  BY <1>10 DEF mucLists, IsForMuc
<1> QED
  BY <1>4, <1>5, <1>6, <1>7, <1>8, <1>9, <1>11, <1>12
     DEF Step, NotHandled, Exhausted, Described, aclParseMessage, aliasParseMessage,
         expandNext, expandDone, mucListens, walkNext, recheckNext, recheckDone

(* Whoever is denied by the access list gets silence, whatever aliases and *)
(* rules hand in on the way and whatever becomes of the list meanwhile.    *)
THEOREM Silence == Spec => DroppedIsSilent
<1>1. Init => WatchInv
  BY DEF Init, WatchInv, Watched
<1>2. IInv /\ WatchInv /\ [Next]_vars => WatchInv'
  <2> SUFFICES ASSUME IInv, WatchInv, [Next]_vars, QuietItems, AccessIsManual, Spoken'
               PROVE  Watched'
    BY DEF WatchInv, QuietItems, AccessIsManual
  <2>1. CASE handleMessage
    <3>1. PICK f : stack' = <<f>> /\ f.at = 1 /\ f.pc = "offer"
      BY <2>1 DEF handleMessage, Call
    <3>2. Checked(f, denied') /\ NoEditAhead(f)
      BY <3>1, AclPlace DEF Checked, Past, NoEditAhead
    <3> QED BY <3>1, <3>2 DEF Watched
  <2>2. CASE onPresence
    <3>1. PICK f : stack' = <<f>> /\ f.pc = "recheck"
      BY <2>2, PresenceStack
    <3>2. Checked(f, denied') /\ NoEditAhead(f)
      BY <3>1 DEF Checked, Past, NoEditAhead
    <3> QED BY <3>1, <3>2 DEF Watched
  <2>3. CASE Step
    <3>1. UNCHANGED message
      BY <2>3, StepShape DEF IInv
    <3>2. Spoken /\ Watched
      BY <3>1 DEF Spoken, WatchInv
    <3> QED BY <2>3, <3>2, WatchKept DEF IInv
  <2>4. CASE UNCHANGED vars
    BY <2>4 DEF vars, WatchInv, Watched, Spoken
  <2> QED BY <2>1, <2>2, <2>3, <2>4 DEF Next
<1>3. IInv /\ WatchInv /\ [Next]_vars =>
        [QuietItems /\ AccessIsManual =>
           \A d \in done' \ done :
             \/ Keys[d.as] \cap denied = {} \/ message.from \in {Bot, Room}
             \/ d.plugin \in {"CORE", "ACL"}
             \/ d.plugin = "MUC" /\ d.cmd \in DOMAIN VisitCommands
                /\ Role[d.as] >= BOTOWNER]_vars
  <2> SUFFICES ASSUME IInv, WatchInv, [Next]_vars, QuietItems, AccessIsManual, Spoken,
                      NEW d \in done' \ done, Keys[d.as] \cap denied # {}
               PROVE  \/ d.plugin \in {"CORE", "ACL"}
                      \/ d.plugin = "MUC" /\ d.cmd \in DOMAIN VisitCommands
                         /\ Role[d.as] >= BOTOWNER
    BY DEF Spoken
  <2>1. Step
    BY DEF Next, handleMessage, onPresence, Begins, vars
  <2>2. stack # <<>> /\ Len(stack) \in Nat \ {0} /\ Top = stack[Len(stack)]
    BY <2>1, StepShape, TopType DEF IInv
  <2>3. Checked(Top, denied)
    BY <2>2 DEF WatchInv, Watched
  <2>4. d.as = Top.s.from
    <3>1. \E p, cmd, need : Ran(p, cmd, need)
      BY <2>1, RanBy
    <3> QED BY <3>1 DEF Ran
  <2>5. PICK p, cmd, need :
          /\ Ran(p, cmd, need)
          /\ \/ p \in {"CORE", "ACL"}
             \/ p = "MUC" /\ cmd \in DOMAIN VisitCommands /\ Role[Top.s.from] >= BOTOWNER
    BY <2>1, <2>3, <2>4, RanChecked DEF IInv
  <2>6. d.plugin = p /\ d.cmd = cmd
    BY <2>5 DEF Ran
  <2> QED BY <2>4, <2>5, <2>6
<1> QED BY <1>1, <1>2, <1>3, Invariance, PTL DEF Spec, DroppedIsSilent
=============================================================================
