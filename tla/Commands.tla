------------------------------ MODULE Commands ------------------------------
(***************************************************************************)
(* The commands of the plugins, as parseMessage() of each plugin knows     *)
(* them: the role a command asks for, whether it does anything without an  *)
(* argument, and what it does.  "tells" stands for a command that only     *)
(* answers.  A name that is in no table makes parseMessage() return false. *)
(***************************************************************************)
EXTENDS Integers, TLC

BOTOWNER == 200
OWNER == 100
ADMIN == 50
MODERATOR == 40
MEMBER == 30
PARTICIPANT == 20
Roles == {0, PARTICIPANT, MEMBER, MODERATOR, ADMIN, OWNER, BOTOWNER}

(* A command: the role it needs, what it does, and whether it only prints  *)
(* its usage when nothing follows.                                         *)
Command == [need : Roles, does : STRING, arg : BOOLEAN]

Open(does) == [need |-> 0, does |-> does, arg |-> FALSE]
Tells == Open("tells")
Needs(role, does) == [need |-> role, does |-> does, arg |-> FALSE]
WithArg(c) == [c EXCEPT !.arg = TRUE]

-----------------------------------------------------------------------------
(* The plugins without state of their own.                                 *)

AdminCommands ==
  [QUIT        |-> Needs(BOTOWNER, "quits"),
   ROLES       |-> Needs(BOTOWNER, "tells"),
   ASYNCCOUNT  |-> Tells,
   ASYNCLIST   |-> Needs(BOTOWNER, "tells"),
   PRESENCE    |-> WithArg(Needs(BOTOWNER, "presence"))]

AdminToOthers ==
  [PRESENCEJID |-> WithArg(Needs(BOTOWNER, "presence")),
   SUBSCRIBE   |-> WithArg(Needs(BOTOWNER, "subscribes")),
   SQL         |-> Needs(BOTOWNER, "tells")]

(* Who is refused a configurator gets no field either.                     *)
ConfigCommands ==
  [GET |-> Needs(ADMIN, "tells"),
   SET |-> WithArg(Needs(ADMIN, "configures"))]

(* SAYJID says "You should be moderator", and asks for an admin.           *)
MiscCommands ==
  [TEST   |-> Tells, DATE |-> Tells, TIME |-> Tells,
   SAYJID |-> WithArg(Needs(ADMIN, "says")),
   SAY    |-> Needs(MODERATOR, "says"),
   BC     |-> Open("asks"),
   DECIDE |-> Tells]

WebstatusCommands ==
  [INVITE |-> WithArg(Needs(BOTOWNER, "subscribes")),
   INFO   |-> Tells] @@
  [c \in {"AVAILABLE", "AWAY", "CHAT", "DND", "UNAVAILABLE", "XA"} |->
     WithArg(Open("configures"))]

NetCommands ==
  [c \in {"PING", "TRACEROUTE", "WWW", "POST", "HEADERS", "SVN"} |->
     WithArg(Open("asks"))] @@
  [c \in {"XEP", "GOOGLE", "CURRENCY", "TRANSLATE", "RP5WEATHER", "RP5",
          "RP5WEATHEREX", "RP5EX"} |-> Open("asks")]

UserCommands ==
  [c \in {"TIME", "VERSION", "PING", "DISCO", "BANLIST", "VOICELIST",
          "MEMBERLIST", "MODERATORLIST", "ADMINLIST", "OWNERLIST", "VCARD",
          "PHOTO", "STATLIST", "STAT", "UPTIME"} |-> Open("asks")]

WordCommands ==
  [c \in {"COUNT", "NAMES", "SHOWALL"} |-> Tells] @@
  [ADD   |-> WithArg(Needs(ADMIN, "edits")),
   DEL   |-> WithArg(Needs(ADMIN, "edits")),
   CLEAR |-> Needs(OWNER, "edits")]

(* These answer somebody else, for which they overwrite the stanza's from. *)
WordTurns == {"SHOW", "SHOWPRIV", "SHOWPRIVSILENT", "SHOWJID"}

-----------------------------------------------------------------------------
(* The rooms plugin, in the order of mucplugin.cpp.                        *)

(* These are looked for before the prefix is.  An owner of the room may    *)
(* send the bot away, out of that room only.                               *)
VisitCommands ==
  [JOIN |-> WithArg(Needs(BOTOWNER, "joins")),
   LEAVE |-> Needs(OWNER, "leaves"),
   WHEREAMI |-> Tells]

RoomCommands ==
  [VISITS |-> Tells, VISITSEX |-> Tells,
   TOPIC  |-> WithArg(Needs(MODERATOR, "topic")),
   CLEAN  |-> Open("asks")]

NickCommands ==
  [INVITE |-> WithArg(Open("invites")),
   REALJID |-> Needs(MODERATOR, "tells"),
   POKE |-> WithArg(Tells),
   HERE |-> Tells]

LookCommands ==
  [NICK |-> Tells, IDLE |-> Tells, ROLE |-> Tells, VERSION |-> Tells,
   CHECKVCARD |-> Open("asks")] @@
  [c \in {"SEEN", "SEENEX", "SEENJID", "SEENJIDEX"} |-> Tells]

StatCommands ==
  [REPORT |-> Tells, STAT |-> Tells, MISSING |-> Tells, KNOWN |-> Tells]

(* Neither a refused moderator nor a refused admin is told so.             *)
RoleCommands ==
  [c \in {"KICK", "VISITOR", "PARTICIPANT"} |-> WithArg(Needs(MODERATOR, "role"))] @@
  [MODERATOR |-> WithArg(Needs(ADMIN, "role"))]

AffiliationCommands ==
  [c \in {"BAN", "NONE", "MEMBER", "ADMIN", "OWNER", "BANJID", "UNBAN"} |->
     WithArg(Needs(ADMIN, "affiliation"))]

ListCommands ==
  {"ABAN", "AKICK", "AVISITOR", "AMODERATOR", "APARTICIPANT", "ACMD", "AEDIT",
   "AFIND", "AAND"}

OtherCommands ==
  [ATRACE  |-> Needs(ADMIN, "traces"),
   CLIENTS |-> Tells,
   SETNICK |-> Needs(OWNER, "nick"),
   STATUS  |-> Tells, AGE |-> Tells, AGESTAT |-> Tells]

MucCommands ==
  RoomCommands @@ NickCommands @@ LookCommands @@ StatCommands @@
  RoleCommands @@ AffiliationCommands @@ OtherCommands

-----------------------------------------------------------------------------
(* The plugins that are nothing but a table.  The roster plugin has no     *)
(* commands, and describes itself.                                         *)
Table ==
  [ADMIN |-> AdminCommands @@ AdminToOthers, CONFIG |-> ConfigCommands,
   MISC |-> MiscCommands, NET |-> NetCommands, ROSTER |-> <<>>,
   USER |-> UserCommands, WEBSTATUS |-> WebstatusCommands, WORD |-> WordCommands]
=============================================================================
