---------------------------- MODULE CheckMember ----------------------------
(***************************************************************************)
(* checkMember() of mucplugin.cpp: who is banned, kicked, devoiced or      *)
(* voiced by the automatic lists, on what occasion and on what knowledge.  *)
(* It runs when an occupant enters, shows presence or speaks, when the     *)
(* answer to a version query comes or stays away, and for everybody when   *)
(* a rule is added.  The bot asks the server; what the server does comes   *)
(* back as presence.                                                       *)
(*                                                                         *)
(* Not here: the ACMD list, conditions on vCards, and occupants that are   *)
(* known only from the rows of an earlier process (muc/lazyoffline).       *)
(***************************************************************************)
EXTENDS AList

CONSTANTS
  Person,           \* the other occupants
  Affiliation,      \* Affiliation[p]: 0 none, 1 member, 2 admin, 3 owner
  Kind,             \* Kind[c]: what the matcher of c looks at
  Fits,             \* Fits[p]: the conditions on nick, JID, version p fits
  FitsBlank,        \* those an empty version or a body of size 0 fits
  ApplyToMembers,   \* alists_members of the room's settings
  EveryPresence,    \* alists_every_presence
  BotIsOwner        \* the bot is an owner of the room

Kinds == {"presence", "version", "body", "bodySize"}
BodyKinds == {"body", "bodySize"}

ASSUME MemberAssumption ==
  /\ DOMAIN Affiliation = Person /\ DOMAIN Fits = Person
  /\ DOMAIN Kind = Cond
  /\ \A c \in Cond : Kind[c] \in Kinds
  /\ \A p \in Person : Affiliation[p] \in 0..3 /\ Fits[p] \subseteq Cond
  /\ FitsBlank \subseteq Cond
  /\ {ApplyToMembers, EveryPresence, BotIsOwner} \subseteq BOOLEAN

VARIABLES
  role,      \* role[p]: the role p was last seen in, "none" outside
  version,   \* version[p]: what is known of the client of p
  asked      \* asked[p]: roles and affiliations for p on their way

memberVars == <<role, version, asked>>
vars == <<up, rows, lastId, items, role, version, asked>>

Roles == {"visitor", "participant", "moderator"}
Sentences == Roles \union {"none", "outcast"}

Init ==
  /\ ListInit
  /\ role = [p \in Person |-> "none"]
  /\ version = [p \in Person |-> "unknown"]
  /\ asked = [p \in Person |-> {}]

-----------------------------------------------------------------------------
(* An occasion: the stanza, if checkMember() is given one, the matcher     *)
(* whose answer has come, and the body that was said: says is what it fits.*)
Presence == [s |-> "presence", matcher |-> "unknown", text |-> FALSE, says |-> {}]
Recheck == [Presence EXCEPT !.s = "null"]
VersionKnown == [Recheck EXCEPT !.matcher = "version"]
Message(text, says) ==
  [s |-> "message", matcher |-> "unknown", text |-> text, says |-> says]

(* The size of the body is looked up for a presence, too.                  *)
partMatches(c, p, know, e) ==
  CASE Kind[c] = "presence" -> c \in Fits[p]
    [] Kind[c] = "version"  -> \/ know = "told" /\ c \in Fits[p]
                               \/ know = "silent" /\ c \in FitsBlank
    [] Kind[c] = "body"     -> e.text /\ c \in e.says
    [] Kind[c] = "bodySize" -> \/ e.text /\ c \in e.says
                               \/ e.s # "null" /\ ~e.text /\ c \in FitsBlank

(* Is this an occasion to look at the rule?  A chain that looks at no body *)
(* in its first two conditions is left alone when somebody speaks.         *)
isOccasion(chain, e) ==
  IF Len(chain) > 1
  THEN e.text => \E i \in 1..2 : Kind[chain[i]] \in BodyKinds
  ELSE LET k == Kind[chain[1]]
       IN  /\ e.matcher \in {"unknown", k}
           /\ k = "version" => e.matcher = k
           /\ k = "presence" => e.s # "message"

\* Mutant: one condition of a chain is enough.
chainFitsSomewhere(chain, p, know, e) ==
  \E i \in DOMAIN chain : partMatches(chain[i], p, know, e)

chainMatches(chain, p, know, e) ==
  \A i \in DOMAIN chain : partMatches(chain[i], p, know, e)

aFind(its, l, p, know, e) ==
  {x \in its[l] : isOccasion(x.chain, e) /\ chainMatches(x.chain, p, know, e)}

(* The lists in the order they are consulted, and whom each may reach.     *)
Precedence == <<"ban", "kick", "visitor", "participant", "moderator">>

reaches(l, p, r) ==
  /\ l \in {"ban", "kick", "visitor"} => Affiliation[p] < 1 \/ ApplyToMembers
  /\ l \in {"ban", "visitor", "participant"} => Affiliation[p] < 2
  /\ l = "kick" => r # "moderator"
  /\ l # r

Sentence(l) == CASE l = "ban" -> "outcast" [] l = "kick" -> "none" [] OTHER -> l

(* What checkMember() asks of the server.  warnImOwner() can only warn     *)
(* when there is a stanza.                                                 *)
checkMember(its, p, r, know, e) ==
  LET hits == {i \in DOMAIN Precedence :
                 /\ reaches(Precedence[i], p, r)
                 /\ aFind(its, Precedence[i], p, know, e) # {}}
  IN  IF hits = {} THEN {}
      ELSE LET l == Precedence[Min(hits)]
           IN  IF l = "ban" /\ BotIsOwner /\ e.s # "null" THEN {}
               ELSE {Sentence(l)}

-----------------------------------------------------------------------------
(* Presence.                                                               *)

present(p) == up /\ role[p] # "none"

(* The end of onPresence(): p is seen in role r.                           *)
onPresence(p, r) ==
  LET t == removeExpired([rows |-> rows, items |-> items], ExpiringList)
  IN  /\ rows' = t.rows
      /\ items' = t.items
      /\ role' = [role EXCEPT ![p] = r]
      /\ asked' = IF role[p] = "none" \/ EveryPresence
                  THEN [asked EXCEPT ![p] = (@ \ {r}) \union
                          checkMember(t.items, p, r, version[p], Presence)]
                  ELSE [asked EXCEPT ![p] = @ \ {r}]
      /\ UNCHANGED <<up, lastId, version>>

enters(p, r) == up /\ role[p] = "none" /\ onPresence(p, r)

(* Presence again, after what the bot or a moderator has asked for.        *)
showsPresence(p, r) == present(p) /\ onPresence(p, r)

leaves(p) ==
  /\ present(p)
  /\ role' = [role EXCEPT ![p] = "none"]
  /\ version' = [version EXCEPT ![p] = "unknown"]
  /\ asked' = [asked EXCEPT ![p] = {}]
  /\ UNCHANGED listVars

-----------------------------------------------------------------------------
(* Messages and version queries.                                           *)

says(p, text, what) ==
  /\ present(p)
  /\ asked' = [asked EXCEPT ![p] = @ \union
                 checkMember(items, p, role[p], version[p], Message(text, what))]
  /\ UNCHANGED <<role, version, listVars>>

(* The answer, or the timeout that stands for an empty one.                *)
versionStored(p, how) ==
  /\ present(p)
  /\ version[p] = "unknown"
  /\ version' = [version EXCEPT ![p] = how]
  /\ asked' = [asked EXCEPT ![p] = @ \union
                 checkMember(items, p, role[p], how, VersionKnown)]
  /\ UNCHANGED <<role, listVars>>

-----------------------------------------------------------------------------
(* Commands, and the ends of the process.                                  *)

\* Mutant: only the rule is stored.
nobodyIsRechecked(its) == asked

recheckJIDs(its) ==
  [p \in Person |->
     IF present(p)
     THEN asked[p] \union checkMember(its, p, role[p], version[p], Recheck)
     ELSE asked[p]]

autoListsAdd(l, chain, expire) ==
  /\ UNCHANGED <<up, role, version>>
  /\ \E R \in Replaced(l, chain) :
       LET a == added(l, chain, expire, R)
           t == removeExpired([rows |-> a.rows, items |-> a.items], ExpiringList)
       IN  /\ MayAdd(l, chain, R)
           /\ lastId' = a.lastId
           /\ rows' = t.rows
           /\ items' = t.items
           /\ asked' = recheckJIDs(t.items)

autoListsEdit ==
  /\ \E l \in UsedList : \/ \E x \in items[l] : Del(l, x)
                         \/ Clear(l)
                         \/ Show(l)
  /\ UNCHANGED memberVars

time == timePasses /\ UNCHANGED memberVars

start == starts /\ UNCHANGED memberVars

forgotten ==
  /\ role' = [p \in Person |-> "none"]
  /\ version' = [p \in Person |-> "unknown"]
  /\ asked' = [p \in Person |-> {}]

stop == stops /\ forgotten

die ==
  /\ \E l \in UsedList :
       \/ \E x \in items[l] : \E k \in 1..(Len(x.ids) - 1) : diesInRemoveItem(l, x, k)
       \/ \E chain \in UsedChain : \E R \in Replaced(l, chain), k \in 0..(Len(chain) - 1) :
            diesInAppend(l, chain, R, k)
  /\ forgotten

member(p) ==
  \/ \E r \in Roles : enters(p, r) \/ showsPresence(p, r)
  \/ leaves(p)
  \/ \E what \in SUBSET {c \in Cond : Kind[c] \in BodyKinds} : says(p, TRUE, what)
  \/ says(p, FALSE, {})
  \/ \E how \in {"told", "silent"} : versionStored(p, how)

Next ==
  \/ \E p \in Person : member(p)
  \/ \E l \in UsedList, chain \in UsedChain, expire \in {"never", "ahead"} : autoListsAdd(l, chain, expire)
  \/ autoListsEdit
  \/ time \/ start \/ stop \/ die

Spec == Init /\ [][Next]_vars

-----------------------------------------------------------------------------
TypeOK ==
  /\ up \in BOOLEAN
  /\ rows \subseteq Row
  /\ lastId \in 0..MaxId
  /\ items \in [List -> SUBSET Item]
  /\ role \in [Person -> Roles \union {"none"}]
  /\ version \in [Person -> {"unknown", "told", "silent"}]
  /\ asked \in [Person -> SUBSET Sentences]

(* What the bot knows of p to be so, whatever is being said.               *)
holds(c, p) == /\ Kind[c] \in {"presence", "version"}
               /\ partMatches(c, p, version[p], Recheck)

(* A rule is enforced as soon as it can be: whoever fits it, by what the   *)
(* bot knows, has been reported to the server, whichever came first, the   *)
(* occupant, the knowledge or the rule.  Except that a lone version        *)
(* condition is looked at only when the version comes.                     *)
Enforced ==
  \A l \in {"ban", "kick"}, p \in Person :
    /\ present(p) /\ reaches(l, p, role[p])
    /\ \E x \in items[l] :
         /\ Len(x.chain) = 1 => Kind[x.chain[1]] = "presence"
         /\ \A i \in DOMAIN x.chain : holds(x.chain[i], p)
    => asked[p] \intersect {"outcast", "none"} # {}

(* Nobody is sentenced without a rule: one is in the table that has this   *)
(* sentence and reaches p, and all it says of p is true as far as the bot  *)
(* knows.  Whatever p may have said is not part of the state.              *)
NobodyWithoutRule ==
  [][\A p \in Person : \A s \in asked'[p] \ asked[p] :
       \E l \in List : \E x \in load(rows', l) :
         /\ Sentence(l) = s
         /\ reaches(l, p, role'[p])
         /\ \A i \in DOMAIN x.chain :
              \/ Kind[x.chain[i]] \in BodyKinds
              \/ partMatches(x.chain[i], p, version'[p], Recheck)]_vars

(* "Added" means that the list holds the rule that was given, whole: no     *)
(* condition of a chain is lost on the way into the table and back.        *)
AddedIsThere ==
  [][\A l \in UsedList, chain \in UsedChain, expire \in {"never", "ahead"} :
       Len(chain) > 1 /\ autoListsAdd(l, chain, expire)
         => \E x \in items'[l] : x.chain = chain]_vars
=============================================================================
