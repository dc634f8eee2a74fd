----------------------------- MODULE MCMucRoom -----------------------------
(* Small rooms for TLC: the registered nick of the bot and one or two      *)
(* others, of which the last can be the first in other letters.            *)
EXTENDS MucRoom

CONSTANTS gluxi, other, guest, owner

Distinct == [n \in Nick |-> n]
CaseTwins == [n \in Nick |-> IF n = other THEN gluxi ELSE n]
=============================================================================
