--------------------------- MODULE MCCheckMember ---------------------------
(* Four conditions for TLC: a nick, the same nick negated, a version and a *)
(* word that is said, alone and in chains of two.                          *)
EXTENDS CheckMember

CONSTANTS nick, notNick, client, word, somebody

SmallCond == {nick, notNick, client, word}
SmallTest == [c \in SmallCond |-> IF c = notNick THEN nick ELSE c]
SmallKind == [c \in SmallCond |->
  CASE c = client -> "version" [] c = word -> "body" [] OTHER -> "presence"]
SmallFits == [p \in {somebody} |-> {nick, client}]
SmallChain == {<<nick>>, <<notNick>>, <<client>>, <<nick, client>>, <<nick, word>>}
TwinTails == {<<nick, client>>, <<word, client>>}
Outsiders == [p \in {somebody} |-> 0]
=============================================================================
