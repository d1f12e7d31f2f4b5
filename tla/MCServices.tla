------------------------------- MODULE MCServices -------------------------------
(***************************************************************************)
(* TLC instances of what a conversation and the core rest on: of Services   *)
(* with variants of some of its parts, and of the stores, the knowledge     *)
(* base and the long-term memory.  They share no variable of the code, so a *)
(* behaviour is about one of them, as its scenario says.                    *)
(***************************************************************************)
EXTENDS Services, Sequences, FiniteSets

VARIABLES stNow, strs, lists, server, last,
          kRows, kv, mig, kCall, fill, nextId, kCrashes, given

storeVars == <<stNow, strs, lists, server, last>>
kbVars    == <<kRows, kv, mig, kCall, fill, nextId, kCrashes, given>>
otherVars == <<storeVars, kbVars>>
vars      == <<serviceVars, otherVars>>
-------------------------------------------------------------------------------
(* The constants of Services.  The quota: a request of a group and its subagent, *)
(* and two of a friend, one behind the other; a session's limit is reached by      *)
(* one request and the limit of all by two.                                      *)
Askers      == {"r1", "r2", "r3", "r4"}
MCSessionOf == [r \in Askers |-> IF r \in {"r3", "r4"} THEN "f" ELSE "g"]
MCCost      == [r \in Askers |-> 2]

(* ChatBots that are evicted when they are idle, with a restart.                 *)
MCGroupOf == [a \in {"m1", "m2"} |-> "g"]

(* The configuration through restarts, with two saves of the panel, calls of the  *)
(* tool and a preset.                                                             *)
Put(i, u) == [id |-> i, updates |-> u]
MCLowerOf == [k \in {"listen", "key", "opt"} |-> k]
MCSaves   == {Put("p", [key |-> "a"]),
              Put("q", [listen |-> "empty", key |-> "b", opt |-> "mask"])}
MCSets    == {[key |-> "opt", value |-> "b"], [key |-> "listen", value |-> "empty"]}

(* MCP servers: added, removed and reconnected at the same time; a server that     *)
(* offers a tool with the name of one of the bot's own, and one that is there.     *)
Call(k, s, n) == [kind |-> k, server |-> s, n |-> n]
MCOps     == {Call("add", "u", 1), Call("remove", "s", 2), Call("reconnect", "s", 3)}
MCToolsOf == [s \in {"s", "u"} |-> IF s = "s" THEN {"x"} ELSE {"y", "b"}]

(* The interceptor: four lists, loaded twice while a message is judged.            *)
NoRules == [enable |-> FALSE, mode |-> "other", groups |-> {}, friends |-> {},
            groupUsers |-> {}, platforms |-> {}]
MCLists ==
  {NoRules,
   [enable |-> TRUE, mode |-> "blacklist", groups |-> {}, friends |-> {<<"1">>},
    groupUsers |-> {<<"1", "2">>}, platforms |-> {"qq"}],
   [enable |-> TRUE, mode |-> "whitelist", groups |-> {<<"2">>}, friends |-> {<<"1">>},
    groupUsers |-> {}, platforms |-> {"qq", "tg"}],
   [enable |-> TRUE, mode |-> "whitelist", groups |-> {<<"1">>}, friends |-> {},
    groupUsers |-> {<<"qq", "1", "2">>}, platforms |-> {"qq"}]}
MCMessages == [group : {<<>>, <<"qq", "1">>}, user : {<<"qq", "1">>, <<"qq", "2">>},
               platform : {"", "tg"}]

(* Skills: two archives for one directory, one of them bad; a deletion of what they  *)
(* install and a reload; two directories whose skills have the same name.           *)
Skill(n, ok, v) == [name |-> n, ok |-> ok, ver |-> v]
None == Skill("none", TRUE, 0)
Loading ==
  {[id |-> "u1", kind |-> "install", dir |-> "d", name |-> "-", skill |-> Skill("b", TRUE, 2)],
   [id |-> "u2", kind |-> "install", dir |-> "d", name |-> "-", skill |-> Skill("b", FALSE, 3)],
   [id |-> "r1", kind |-> "refresh", dir |-> "-", name |-> "-", skill |-> None]}
Delete(n) == [id |-> "x1", kind |-> "delete", dir |-> "-", name |-> n, skill |-> None]
MCSkillOps   == Loading \cup {Delete("b")}
MCEntryOrder == <<"u1", "u2", "x1", "r1", "d", "e">>
MCPresent    == [d |-> Skill("a", TRUE, 1), e |-> Skill("a", TRUE, 4)]
-------------------------------------------------------------------------------
(* Variants: counters in a store that fails; MCP servers that are connected when    *)
(* they are used; ChatBots that are too many; a group whose history is cleared when *)
(* nobody mentions the bot; keys that are deleted in a store that fails; a stream   *)
(* that cannot be taken back; the tables whose values hold identifiers; a deletion  *)
(* of a skill that is there twice.                                                  *)
FaultyQuota == INSTANCE Quota WITH
  Requests <- {"r1", "r3"}, Checked <- {"r1", "r3"}, Serial <- {"r1", "r3"},
  SessionOf <- [r1 |-> "f", r3 |-> "f"], Cost <- [r1 |-> 2, r3 |-> 1], Faults <- {"writes", "reads"},
  step <- uStep, half <- uHalf, crashes <- uCrashes
LazyMcp == INSTANCE Mcp WITH
  Lazy <- TRUE, Ops <- {Call("add", "s", 1), Call("remove", "s", 2), Call("reconnect", "s", 3)},
  step <- mStep
Capacity == INSTANCE ChatResidency WITH
  Groups <- {"g", "h"}, Mentions <- {"m1", "m3"}, Chatter <- {},
  GroupOf <- [m1 |-> "g", m3 |-> "h"], Threshold <- 0, Every <- 2, MaxIdle <- 0,
  MaxSessions <- 1, MaxTime <- 1, MaxCrashes <- 1,
  rows <- cRows, count <- cCount, now <- cNow, crashes <- cCrashes
NoMention == INSTANCE ChatResidency WITH
  Groups <- {"g"}, Mentions <- {"m1", "m2"}, Chatter <- {"u1", "u2"},
  GroupOf <- [a \in {"m1", "m2", "u1", "u2"} |-> "g"], Threshold <- 2, Every <- 2,
  MaxIdle <- 0, MaxSessions <- 0, MaxTime <- 0, MaxCrashes <- 1,
  rows <- cRows, count <- cCount, now <- cNow, crashes <- cCrashes
FaultyConfig == INSTANCE ConfigStore WITH
  Keys <- {"listen", "key"}, Spellings <- {"listen", "key", "KEY"},
  LowerOf <- [listen |-> "listen", key |-> "key", KEY |-> "key"], Seeded <- {"listen", "key"},
  Registered <- {"listen"},
  Saves <- {Put("p", [key |-> "null", listen |-> "a"]), Put("q", [key |-> "a", KEY |-> "b"])},
  Sets <- {}, Faults <- {"writes", "reads"}, MaxCrashes <- 1,
  at <- gAt, todo <- gTodo, pc <- gPc, left <- gLeft, crashes <- gCrashes
TwinSkills == INSTANCE Skills WITH
  Ops <- Loading \cup {Delete("a")}, Order <- EntryOrder, Names <- SkillNames,
  step <- sStep, todo <- sTodo, crashes <- sCrashes
StuckModel == INSTANCE LlmClient WITH Restartable <- FALSE, at <- lAt
IdValues == INSTANCE QidMigration WITH
  Tables <- {"memory", "doc", "log"}, InValue <- {"memory", "log"},
  MaxWrites <- MaxRowWrites, rows <- qRows, todo <- qTodo, asRead <- qAsRead,
  passed <- qPassed, half <- qHalf,
  running <- qRunning, writes <- qWrites
-------------------------------------------------------------------------------
(* The stores in the process and on a server: a string and a list.              *)
StoredKeys == {<<"p", "s">>, <<"p", "q", "l">>}
Both == INSTANCE Stores WITH
  Keys <- StoredKeys,
  KindOf <- [k \in StoredKeys |-> IF k = <<"p", "s">> THEN {"string"} ELSE {"list"}],
  Values <- {1, 2}, MaxLen <- 2, MaxTime <- 2, Careful <- TRUE, now <- stNow
\* A key that is used as both, and lists whose time is set.
Mixed == INSTANCE Stores WITH
  Keys <- {<<"p", "s">>}, KindOf <- [k \in {<<"p", "s">>} |-> {"string", "list"}],
  Values <- {1}, MaxLen <- 1, MaxTime <- 1, Careful <- FALSE, now <- stNow

(* The knowledge base with two documents of an older version, one of them without   *)
(* an identifier, and a crash; with a database that fails; and the memory.           *)
Do(i, o, d, t) == [id |-> i, op |-> o, doc |-> d, text |-> t]
OldDocs == <<[id |-> 0, doc |-> "l", text |-> <<1>>], [id |-> 1, doc |-> "m", text |-> <<3>>]>>
Base == INSTANCE Knowledge WITH
  Kind <- "knowledge", Legacy <- OldDocs, Limit <- 3, Size <- 7, Overlap <- 2,
  Calls <- {Do("a", "add", "a", <<2>>), Do("b", "add", "b", <<2>>),
            Do("u", "update", "l", <<5>>), Do("x", "remove", "m", <<>>)},
  Faults <- FALSE, MaxCrashes <- 1, rows <- kRows, call <- kCall, crashes <- kCrashes
FaultyBase == INSTANCE Knowledge WITH
  Kind <- "knowledge", Legacy <- OldDocs, Limit <- 3, Size <- 7, Overlap <- 2,
  Calls <- {Do("a", "add", "a", <<2>>), Do("u", "update", "m", <<5>>),
            Do("x", "remove", "l", <<>>)},
  Faults <- TRUE, MaxCrashes <- 1, rows <- kRows, call <- kCall, crashes <- kCrashes
Memory == INSTANCE Knowledge WITH
  Kind <- "memory", Legacy <- <<>>, Limit <- 2, Size <- 7, Overlap <- 2,
  Calls <- {Do("a", "add", "a", <<2>>), Do("b", "add", "b", <<3>>), Do("c", "add", "c", <<3>>),
            Do("u", "update", "a", <<5>>), Do("x", "remove", "b", <<>>)},
  Faults <- FALSE, MaxCrashes <- 1, rows <- kRows, call <- kCall, crashes <- kCrashes

ASSUME /\ Both!StoresAssumption /\ Mixed!StoresAssumption
       /\ IdValues!QidAssumption /\ StuckModel!LlmAssumption
       /\ TwinSkills!SkillsAssumption /\ FaultyQuota!QuotaAssumption
       /\ Base!KnowledgeAssumption /\ FaultyBase!KnowledgeAssumption
       /\ Memory!KnowledgeAssumption
       /\ LazyMcp!McpAssumption /\ FaultyConfig!ConfigAssumption
       /\ Capacity!ResidencyAssumption /\ NoMention!ResidencyAssumption
       /\ Scenarios \subseteq {"quota", "chats", "config", "mcp", "interceptor", "model",
                               "ids", "skills", "lazy mcp", "capacity", "no mention",
                               "faulty quota", "faulty config", "stuck model", "id values",
                               "twin skills", "stores", "mixed", "knowledge", "faulty knowledge",
                               "memory", "laws"}
-------------------------------------------------------------------------------
InitServices ==
  /\ scenario \in Scenarios /\ InitLists
  /\ IF scenario = "faulty quota" THEN FaultyQuota!Init ELSE InitQuota
  /\ CASE scenario = "capacity"   -> Capacity!Init
       [] scenario = "no mention" -> NoMention!Init
       [] OTHER                   -> InitChats
  /\ IF scenario = "faulty config" THEN FaultyConfig!Init ELSE InitConf
  /\ IF scenario = "lazy mcp" THEN LazyMcp!Init ELSE InitMcp
  /\ IF scenario = "stuck model" THEN StuckModel!Init ELSE InitModel
  /\ IF scenario = "id values" THEN IdValues!Init ELSE InitIds
  /\ IF scenario = "twin skills" THEN TwinSkills!Init ELSE InitSkills

InitOthers ==
  /\ IF scenario = "mixed" THEN Mixed!Init ELSE Both!Init
  /\ CASE scenario = "memory"           -> Memory!Init
       [] scenario = "faulty knowledge" -> FaultyBase!Init
       [] OTHER                         -> Base!Init

AllInit == InitServices /\ InitOthers

\* A step of a variant of one of the parts of Services.
Varying ==
  \/ /\ \/ scenario = "capacity" /\ Capacity!Next
        \/ scenario = "no mention" /\ NoMention!Next
     /\ UNCHANGED <<scenario, quotaVars, confVars, mcpVars, listVars, modelVars,
                    idVars, skillVars>>
  \/ /\ scenario = "faulty quota" /\ FaultyQuota!Next
     /\ UNCHANGED <<scenario, chatVars, confVars, mcpVars, listVars, modelVars,
                    idVars, skillVars>>
  \/ /\ scenario = "faulty config" /\ FaultyConfig!Next
     /\ UNCHANGED <<scenario, quotaVars, chatVars, mcpVars, listVars, modelVars,
                    idVars, skillVars>>
  \/ /\ scenario = "lazy mcp" /\ LazyMcp!Next
     /\ UNCHANGED <<scenario, quotaVars, chatVars, confVars, listVars, modelVars,
                    idVars, skillVars>>
  \/ /\ scenario = "stuck model" /\ StuckModel!Next
     /\ UNCHANGED <<scenario, quotaVars, chatVars, confVars, mcpVars, listVars,
                    idVars, skillVars>>
  \/ /\ scenario = "id values" /\ IdValues!Next
     /\ UNCHANGED <<scenario, quotaVars, chatVars, confVars, mcpVars, listVars, modelVars,
                    skillVars>>
  \/ /\ scenario = "twin skills" /\ TwinSkills!Next
     /\ UNCHANGED <<scenario, quotaVars, chatVars, confVars, mcpVars, listVars, modelVars,
                    idVars>>

Storing ==
  /\ \/ scenario = "stores" /\ Both!Next
     \/ scenario = "mixed" /\ Mixed!Next
  /\ UNCHANGED <<serviceVars, kbVars>>

Remembering ==
  /\ \/ scenario = "knowledge" /\ Base!Next
     \/ scenario = "faulty knowledge" /\ FaultyBase!Next
     \/ scenario = "memory" /\ Memory!Next
  /\ UNCHANGED <<serviceVars, storeVars>>

AllNext == \/ (Next \/ Varying) /\ UNCHANGED otherVars
           \/ Storing \/ Remembering

AllSpec == AllInit /\ [][AllNext]_vars
-------------------------------------------------------------------------------
\* What Services promises of its parts holds of their variants.
VariantsHold ==
  /\ scenario = "capacity" => /\ Capacity!TypeOK /\ Capacity!RowsAreWindow
                              /\ Capacity!AnsweredIsStored /\ Capacity!DriverIsResident
  /\ scenario = "no mention" => /\ NoMention!TypeOK /\ NoMention!RowsAreWindow
                                /\ NoMention!DueIsStored /\ NoMention!DriverIsResident
  /\ scenario = "faulty quota" => FaultyQuota!TypeOK /\ FaultyQuota!CountsAreUse
  /\ scenario = "faulty config" => /\ FaultyConfig!TypeOK /\ FaultyConfig!WrittenStays
                                   /\ FaultyConfig!ListenIsSet /\ FaultyConfig!MaskIsNotStored
  /\ scenario = "lazy mcp" => /\ LazyMcp!TypeOK /\ LazyMcp!OfferedToolsWork
                              /\ LazyMcp!CacheIsCurrent
  /\ scenario = "stuck model" => /\ StuckModel!TypeOK /\ StuckModel!ShownIsAnswer
                                 /\ StuckModel!RequestsAreBounded
  /\ scenario = "id values" => /\ IdValues!TypeOK /\ IdValues!Converges
                               /\ IdValues!NothingVanishes
  /\ scenario = "twin skills" => /\ TwinSkills!TypeOK /\ TwinSkills!SkillsSurvive
                                 /\ TwinSkills!RegistryFollows

\* The variables of the others have the values they are declared for.
TypesHold ==
  /\ scenario = "stores" => Both!TypeOK
  /\ scenario = "mixed" => Mixed!TypeOK
  /\ scenario = "skills" => Skills!TypeOK
  /\ scenario = "knowledge" => Base!TypeOK
  /\ scenario = "faulty knowledge" => FaultyBase!TypeOK
  /\ scenario = "memory" => Memory!TypeOK

\* What is computed keeps its laws: patterns and name spaces (memory.go, persistent_sql.go),
\* rewritten identifiers (qid_migration.go), rules that are shown and read back
\* (liststore.go), the root of a skill's archive (skillpanel.go), the history and the stream
\* in the form of each back end (llmbackend_*.go), the chunks of a text and the ranking of
\* what is found (knowledge.go, memorytool.go).
LawsHold ==
  scenario = "laws" =>
    /\ Both!PatternsAreGlobs /\ Both!ClearIsExact /\ Ids!RewritesOnce
    /\ Judge!RulesReadBack
    /\ Judge!WithWeixin(<<"qq", "qo", "tg", "feishu", "dc">>)
         = <<"qq", "qo", "tg", "feishu", "dc", "weixin">>
    /\ Judge!WithWeixin(<<"qq", "tg">>) = <<"qq", "tg">>
    /\ Skills!RootIsFound
    /\ Model!SameIsSaid /\ Model!StreamsAreWhole /\ Model!LimitsFit
    /\ Base!ChunksAreWhole /\ Base!RankingIsStable

\* What else a conversation rests on keeps its promises: both stores hold the same (memory.go,
\* redis.go); the skills that are loaded are those on disk (skillpanel.go); documents are added
\* and moved once, and filling in their vectors undoes no change of them (knowledge.go); and so
\* do the variants of the parts of Services.
OthersHold ==
  /\ TypesHold /\ VariantsHold /\ LawsHold
  /\ scenario = "stores" => Both!StoresAgree
  /\ scenario = "skills" => Skills!RegistryFollows
  /\ scenario = "knowledge" => /\ Base!NothingIsDoubled /\ Base!LegacyIsKept
                              /\ Base!UpdatesAreKept /\ Base!RemovedIsGone
  /\ scenario = "faulty knowledge" => /\ FaultyBase!NothingIsDoubled /\ FaultyBase!LegacyIsKept
                                     /\ FaultyBase!UpdatesAreKept
  /\ scenario = "memory" => Memory!NothingIsDoubled /\ Memory!RemovedIsGone
================================================================================
