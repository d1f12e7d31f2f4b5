------------------------------- MODULE Interceptor -------------------------------
(***************************************************************************)
(* The interceptor plugin: which messages reach the bot (plugininterceptor).*)
(* The lists are shared with a management plugin that loads them anew while *)
(* messages are being judged; a message is judged by several calls, each of *)
(* which takes the store's read lock for itself.                            *)
(***************************************************************************)
EXTENDS Naturals, Sequences, FiniteSets

CONSTANTS Lists,     \* contents of the configuration: records, see ListsOf
          Messages,  \* the message in hand: [group, user, platform]; group <<>> for a private one
          MaxLoads   \* bound: loads of the lists

InterceptorAssumption == MaxLoads \in Nat

VARIABLES list,     \* the ListStore
          loading,  \* a load by Load(): the platforms it read, or Nobody
          next,     \* the lists it was called with
          msg, at,  \* the message in hand and the check it has come to
          since,    \* the lists in force since the message came
          loads

vars == <<list, loading, next, msg, at, since, loads>>

Platforms == {"qq", "qqofficial", "telegram", "feishu", "discord", "weixin"}
Short == [qo |-> "qqofficial", tg |-> "telegram", fs |-> "feishu", dc |-> "discord", wx |-> "weixin"]

\* NormalizePlatformToken: "" stands for no platform.
Token(p) == IF p \in Platforms THEN p ELSE IF p \in DOMAIN Short THEN Short[p] ELSE ""

\* FromString, on the sequence of an identifier's parts between ":"; "1" and "2" are numbers.
QID(parts) == IF Len(parts) = 1 /\ parts[1] \in {"1", "2"} THEN <<"qq">> \o parts ELSE parts

\* inferPlatformFromQID and PlatformOfMessage.
PlatformOf(id) == IF Len(id) = 1 /\ id[1] \in {"1", "2"} THEN "qq"
                  ELSE IF Len(id) > 1 THEN Token(id[1]) ELSE ""
PlatformOfMessage(m) ==
  IF m.platform # "" THEN Token(m.platform)
  ELSE IF PlatformOf(m.group) # "" THEN PlatformOf(m.group) ELSE PlatformOf(m.user)

\* splitGroupUser: the group may have a platform's prefix, whose ":" is not the boundary.
Boundary(rule) == IF rule[1] \in DOMAIN Short \cup {"qq"} THEN 2 ELSE 1
SplitGroupUser(rule) ==
  IF Len(rule) <= Boundary(rule) THEN <<>>
  ELSE << QID(SubSeq(rule, 1, Boundary(rule))), QID(SubSeq(rule, Boundary(rule) + 1, Len(rule))) >>
JoinGroupUser(g, u) == g \o u

\* migrateLegacyPlatformDefault: the old default list, however it is written, gets "weixin".
SamePlatforms(seq, set) ==
  /\ Len(seq) = Cardinality(set) /\ {Token(seq[i]) : i \in DOMAIN seq} = set
WithWeixin(seq) == IF SamePlatforms(seq, Platforms \ {"weixin"}) THEN Append(seq, "weixin") ELSE seq

\* LoadWithPlatforms: the lists in the form they are looked up in.
Parsed(l) ==
  [enable |-> l.enable, mode |-> IF l.mode = "whitelist" THEN "whitelist" ELSE "blacklist",
   groups |-> {QID(g) : g \in l.groups}, friends |-> {QID(f) : f \in l.friends},
   groupUsers |-> {SplitGroupUser(r) : r \in l.groupUsers} \ {<<>>},
   platforms |-> {Token(p) : p \in l.platforms} \ {""}]

Nobody  == {"no load"}
Waiting == [group |-> <<>>, user |-> <<>>, platform |-> "none"]

Init ==
  /\ list \in {Parsed(l) : l \in Lists}
  /\ loading = Nobody /\ next = list /\ loads = 0
  /\ msg = Waiting /\ at = "idle" /\ since = {}

InForce(l) == list' = l /\ since' = IF at \in {"idle", "passed", "blocked"} THEN since ELSE since \cup {l}

\* The panel's lists and platforms.
LoadWithPlatforms(l) ==
  /\ loads < MaxLoads /\ loads' = loads + 1 /\ InForce(Parsed(l))
  /\ UNCHANGED <<loading, next, msg, at>>

\* Load keeps the platforms: it reads them under one lock and writes them back under another.
LoadReads(l) ==
  /\ loading = Nobody /\ loads < MaxLoads /\ loads' = loads + 1
  /\ loading' = list.platforms /\ next' = Parsed(l)
  /\ UNCHANGED <<list, msg, at, since>>
LoadWrites ==
  /\ loading # Nobody /\ InForce([next EXCEPT !.platforms = loading])
  /\ loading' = Nobody /\ UNCHANGED <<next, msg, at, loads>>

Comes(m) ==
  /\ at = "idle"
  /\ msg' = m /\ at' = "enabled" /\ since' = {list} /\ UNCHANGED <<list, loading, next, loads>>

\* PlatformEnabled, AllowGroup, BlockedInGroup, AllowFriend.
PlatformEnabled(l) == PlatformOfMessage(msg) = "" \/ PlatformOfMessage(msg) \in l.platforms
Allowed(l, id, set) == (id \in set) = (l.mode = "whitelist")
BlockedInGroup(l) == <<msg.group, msg.user>> \in l.groupUsers
IsWhitelist(l)    == l.mode = "whitelist"

\* One check of OnGroupMsg or OnFriendMsg: where it leads.
Private == msg.group = <<>>
AfterCheck(l) ==
  CASE at = "enabled"  -> IF l.enable THEN "platform" ELSE "passed"
    [] at = "platform" -> IF ~PlatformEnabled(l) THEN "blocked" ELSE IF Private THEN "friend" ELSE "group"
    [] at = "group"    -> IF Allowed(l, msg.group, l.groups) THEN "member" ELSE "blocked"
    [] at = "member"   -> IF BlockedInGroup(l) THEN "blocked" ELSE "mode"
    [] at = "mode"     -> IF IsWhitelist(l) THEN "passed" ELSE "friend"
    [] at = "friend"   -> IF Allowed(l, msg.user, l.friends) THEN "passed" ELSE "blocked"

Judge ==
  /\ at \notin {"idle", "passed", "blocked"}
  /\ at' = AfterCheck(list) /\ UNCHANGED <<list, loading, next, msg, since, loads>>

Finish == /\ at \in {"passed", "blocked"} /\ at' = "idle" /\ msg' = Waiting /\ since' = {}
          /\ UNCHANGED <<list, loading, next, loads>>

Next == \/ Judge \/ Finish \/ LoadWrites \/ \E m \in Messages : Comes(m)
        \/ \E l \in Lists : LoadWithPlatforms(l) \/ LoadReads(l)
Spec == Init /\ [][Next]_vars
-------------------------------------------------------------------------------
TypeOK ==
  /\ at \in {"idle", "enabled", "platform", "group", "member", "mode", "friend", "passed", "blocked"}
  /\ msg \in Messages \cup {Waiting} /\ loads \in 0..MaxLoads
  /\ at = "idle" <=> since = {}

\* What every list in force since the message came forbids is not let through, however often
\* the lists are exchanged while it is judged: a platform that is not chosen, a group, a member
\* of a group, a sender in private (plugin.go:132, 191).
HardRulesHold ==
  (at = "passed" /\ \A l \in since : l.enable) =>
    /\ \E l \in since : PlatformEnabled(l)
    /\ ~Private => /\ \E l \in since : Allowed(l, msg.group, l.groups)
                   /\ \E l \in since : ~BlockedInGroup(l)
    /\ Private => \E l \in since : Allowed(l, msg.user, l.friends)

\* With one list in force all the time, the verdict is the documented one (plugin.go:148): a whitelisted
\* group is open to its members but those blocked in it; a blacklist also judges the sender.
Documented(l) ==
  \/ ~l.enable
  \/ /\ PlatformOfMessage(msg) \in l.platforms \cup {""}
     /\ Private /\ IsWhitelist(l)   => msg.user \in l.friends
     /\ Private /\ ~IsWhitelist(l)  => msg.user \notin l.friends
     /\ ~Private /\ IsWhitelist(l)  => msg.group \in l.groups
     /\ ~Private /\ ~IsWhitelist(l) => msg.group \notin l.groups /\ msg.user \notin l.friends
     /\ ~Private => <<msg.group, msg.user>> \notin l.groupUsers
VerdictOf(l) == IF Documented(l) THEN "passed" ELSE "blocked"
VerdictIsDocumented ==
  at \in {"passed", "blocked"} => \A l \in since : since = {l} => at = VerdictOf(l)

\* Why these hold: each check that was passed was passed by a list that was in force then, and
\* if there was only one, by that.
ListIsInForce == at \notin {"idle", "passed", "blocked"} => list \in since
ChecksPassed ==
  /\ at \in {"group", "member", "mode"} => ~Private
  /\ at \in {"group", "member", "mode", "friend"} => \E l \in since : PlatformEnabled(l)
  /\ at \in {"member", "mode", "friend"} /\ ~Private => \E l \in since : Allowed(l, msg.group, l.groups)
  /\ at \in {"mode", "friend"} /\ ~Private => \E l \in since : ~BlockedInGroup(l)
PassedBy(l) ==
  /\ at \in {"platform", "group", "member", "mode", "friend"} => l.enable
  /\ at \in {"group", "member", "mode", "friend"} => PlatformEnabled(l)
  /\ at \in {"member", "mode", "friend"} /\ ~Private => Allowed(l, msg.group, l.groups)
  /\ at \in {"mode", "friend"} /\ ~Private => ~BlockedInGroup(l)
  /\ at = "friend" /\ ~Private => ~IsWhitelist(l)
PassedByOne == \A l \in since : since = {l} => PassedBy(l)
IInv == /\ TypeOK /\ ListIsInForce /\ ChecksPassed /\ PassedByOne
        /\ HardRulesHold /\ VerdictIsDocumented

\* What Snapshot shows of a rule (liststore.go:329) is read back as the same rule.
RulesReadBack ==
  \A g \in {<<"qq", "1">>, <<"tg", "1">>, <<"wx", "a">>, <<"a">>}, u \in {<<"qq", "2">>, <<"tg", "2">>, <<"a">>} :
    /\ SplitGroupUser(JoinGroupUser(g, u)) = <<g, u>>
    /\ \A r \in {<<"1", "2">>, <<"qq", "1", "2">>} : SplitGroupUser(r) = <<<<"qq", "1">>, <<"qq", "2">>>>
-------------------------------------------------------------------------------
(* Claims of the sources that do not hold of this model.                   *)

\* "Replaced atomically by a reload" (liststore.go:30): a message is let through only if one of
\* the lists would let it through; but the sender's check and the mode's are two calls.
VerdictIsOfOneList == at = "passed" => \E l \in since : VerdictOf(l) = "passed"

\* "Keeps the current platforms" (liststore.go:196): not those loaded between its two locks.
LoadKeepsPlatforms == [][LoadWrites => list'.platforms = list.platforms]_vars
===============================================================================
