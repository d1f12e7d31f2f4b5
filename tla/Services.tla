--------------------------------- MODULE Services ---------------------------------
(***************************************************************************)
(* What a conversation and the core rest on: the quota, the ChatBots in     *)
(* memory, the configuration, the MCP servers, the interceptor, the          *)
(* language model's client, the migration of identifiers and the skills.      *)
(* They share no variable of the code, so a behaviour is about one of them,  *)
(* as its scenario says; the variables of the others are 0.                 *)
(***************************************************************************)
EXTENDS Naturals

CONSTANTS
  Scenarios,   \* those to be considered
  Sessions, Requests, SessionOf, Checked, Serial, Cost, DailyLimit, GlobalLimit, Days,
  KeepDays, MaxResets,                                        \* of Quota
  Groups, Mentions, Chatter, GroupOf, Threshold, Every, MaxIdle, MaxSessions, MaxTime,
  MaxCrashes,                                                 \* of ChatResidency, Quota, Skills
  Keys, Listen, Spellings, LowerOf, Seeded, Registered, Saves, Sets, Presets, TypedIn, Faults,
  MaxRestarts,                                                \* of ConfigStore; Faults of Quota
  Servers, Ops, Names, ToolsOf, BuiltIns, Configured, Lazy,   \* of Mcp
  Lists, Messages, MaxLoads,                                  \* of Interceptor
  MaxAttempts, HasBackup, Visible, Restartable, MaxPieces,    \* of LlmClient
  Tables, InValue, MaxStarts, MaxRowWrites,                   \* of QidMigration
  SkillOps, EntryOrder, SkillNames, Present, Chosen           \* of Skills

VARIABLES
  scenario,
  day, count, uStep, uHalf, used, opened, lost, resets, uCrashes,
  bots, chats, cRows, pending, lock, cCount, stored, loaded, pc, mine, batch, sweep, cNow,
  cCrashes,
  conf, initialized, setup, presets, gAt, gTodo, gPc, gLeft, wanted, completed, gCrashes,
  tools, managers, mgr, open, config, mStep, cfg, old, loaders, sess,
  list, loading, next, msg, iAt, since, loads,
  client, attempt, lAt, got, started, shown, answer, dead, requests,
  qRows, origin, stage, qTodo, qAsRead, qPassed, qHalf, starts, qRunning, qWrites,
  disk, registry, known, sStep, sTodo, found, path, overlap, deleted, torn, sCrashes

quotaVars == <<day, count, uStep, uHalf, used, opened, lost, resets, uCrashes>>
chatVars  == <<bots, chats, cRows, pending, lock, cCount, stored, loaded, pc, mine, batch,
               sweep, cNow, cCrashes>>
confVars  == <<conf, initialized, setup, presets, gAt, gTodo, gPc, gLeft, wanted, completed,
               gCrashes>>
mcpVars   == <<tools, managers, mgr, open, config, mStep, cfg, old, loaders, sess>>
listVars  == <<list, loading, next, msg, iAt, since, loads>>
modelVars == <<client, attempt, lAt, got, started, shown, answer, dead, requests>>
idVars    == <<qRows, origin, stage, qTodo, qAsRead, qPassed, qHalf, starts, qRunning, qWrites>>
skillVars == <<disk, registry, known, sStep, sTodo, found, path, overlap, deleted, torn,
               sCrashes>>
serviceVars == <<scenario, quotaVars, chatVars, confVars, mcpVars, listVars, modelVars,
                 idVars, skillVars>>

Quota         == INSTANCE Quota WITH step <- uStep, half <- uHalf, crashes <- uCrashes
Chats         == INSTANCE ChatResidency WITH
                   rows <- cRows, count <- cCount, now <- cNow, crashes <- cCrashes
Conf          == INSTANCE ConfigStore WITH
                   at <- gAt, todo <- gTodo, pc <- gPc, left <- gLeft, crashes <- gCrashes,
                   MaxCrashes <- MaxRestarts
Mcp           == INSTANCE Mcp WITH step <- mStep
Judge         == INSTANCE Interceptor WITH at <- iAt
Model         == INSTANCE LlmClient WITH at <- lAt
Ids           == INSTANCE QidMigration WITH
                   MaxWrites <- MaxRowWrites, rows <- qRows, todo <- qTodo, asRead <- qAsRead,
                   passed <- qPassed, half <- qHalf, running <- qRunning, writes <- qWrites
Skills        == INSTANCE Skills WITH
                   Ops <- SkillOps, Order <- EntryOrder, Names <- SkillNames, step <- sStep,
                   todo <- sTodo, crashes <- sCrashes

\* What the constants are.
ASSUME ServicesAssumption ==
  /\ Quota!QuotaAssumption /\ Chats!ResidencyAssumption
  /\ Conf!ConfigAssumption /\ Mcp!McpAssumption
  /\ Judge!InterceptorAssumption /\ Model!LlmAssumption
  /\ Ids!QidAssumption /\ Skills!SkillsAssumption
-------------------------------------------------------------------------------
NoQuota == /\ day = 0 /\ count = 0 /\ uStep = 0 /\ uHalf = 0 /\ used = 0 /\ opened = 0
           /\ lost = 0 /\ resets = 0 /\ uCrashes = 0
NoChats == /\ bots = 0 /\ chats = 0 /\ cRows = 0 /\ pending = 0 /\ lock = 0 /\ cCount = 0
           /\ stored = 0 /\ loaded = 0 /\ pc = 0 /\ mine = 0 /\ batch = 0 /\ sweep = 0
           /\ cNow = 0 /\ cCrashes = 0
NoConf  == /\ conf = 0 /\ initialized = 0 /\ setup = 0 /\ presets = 0 /\ gAt = 0 /\ gTodo = 0
           /\ gPc = 0 /\ gLeft = 0 /\ wanted = 0 /\ completed = 0 /\ gCrashes = 0
NoMcp   == /\ tools = 0 /\ managers = 0 /\ mgr = 0 /\ open = 0 /\ config = 0 /\ mStep = 0
           /\ cfg = 0 /\ old = 0 /\ loaders = 0 /\ sess = 0
NoLists == /\ list = 0 /\ loading = 0 /\ next = 0 /\ msg = 0 /\ iAt = 0 /\ since = 0
           /\ loads = 0
NoModel == /\ client = 0 /\ attempt = 0 /\ lAt = 0 /\ got = 0 /\ started = 0 /\ shown = 0
           /\ answer = 0 /\ dead = 0 /\ requests = 0
NoIds   == /\ qRows = 0 /\ origin = 0 /\ stage = 0 /\ qTodo = 0 /\ qAsRead = 0 /\ qPassed = 0
           /\ qHalf = 0 /\ starts = 0 /\ qRunning = 0 /\ qWrites = 0
NoSkills == /\ disk = 0 /\ registry = 0 /\ known = 0 /\ sStep = 0 /\ sTodo = 0 /\ found = 0
            /\ path = 0 /\ overlap = 0 /\ deleted = 0 /\ torn = 0 /\ sCrashes = 0

InitQuota == IF scenario = "quota" THEN Quota!Init ELSE NoQuota
InitChats == IF scenario = "chats" THEN Chats!Init ELSE NoChats
InitConf  == IF scenario = "config" THEN Conf!Init ELSE NoConf
InitMcp   == IF scenario = "mcp" THEN Mcp!Init ELSE NoMcp
InitLists == IF scenario = "interceptor" THEN Judge!Init ELSE NoLists
InitModel == IF scenario = "model" THEN Model!Init ELSE NoModel
InitIds   == IF scenario = "ids" THEN Ids!Init ELSE NoIds
InitSkills == IF scenario = "skills" THEN Skills!Init ELSE NoSkills

Init == /\ scenario \in Scenarios
        /\ InitQuota /\ InitChats /\ InitConf /\ InitMcp /\ InitLists
        /\ InitModel /\ InitIds /\ InitSkills

Counting    == /\ scenario = "quota" /\ Quota!Next
               /\ UNCHANGED <<scenario, chatVars, confVars, mcpVars, listVars, modelVars,
                              idVars, skillVars>>
Evicting    == /\ scenario = "chats" /\ Chats!Next
               /\ UNCHANGED <<scenario, quotaVars, confVars, mcpVars, listVars, modelVars,
                              idVars, skillVars>>
Configuring == /\ scenario = "config" /\ Conf!Next
               /\ UNCHANGED <<scenario, quotaVars, chatVars, mcpVars, listVars, modelVars,
                              idVars, skillVars>>
Serving     == /\ scenario = "mcp" /\ Mcp!Next
               /\ UNCHANGED <<scenario, quotaVars, chatVars, confVars, listVars, modelVars,
                              idVars, skillVars>>
Judging     == /\ scenario = "interceptor" /\ Judge!Next
               /\ UNCHANGED <<scenario, quotaVars, chatVars, confVars, mcpVars, modelVars,
                              idVars, skillVars>>
Generating  == /\ scenario = "model" /\ Model!Next
               /\ UNCHANGED <<scenario, quotaVars, chatVars, confVars, mcpVars, listVars,
                              idVars, skillVars>>
Migrating   == /\ scenario = "ids" /\ Ids!Next
               /\ UNCHANGED <<scenario, quotaVars, chatVars, confVars, mcpVars, listVars,
                              modelVars, skillVars>>
Installing  == /\ scenario = "skills" /\ Skills!Next
               /\ UNCHANGED <<scenario, quotaVars, chatVars, confVars, mcpVars, listVars,
                              modelVars, idVars>>

Next == \/ Counting \/ Evicting \/ Configuring \/ Serving \/ Judging \/ Generating
        \/ Migrating \/ Installing
Spec == Init /\ [][Next]_serviceVars
-------------------------------------------------------------------------------
\* What is kept survives concurrent calls, crashes and restarts: counters are what was used
\* (quota.go); a ChatBot that is evicted, restarted or cleared remembers what is stored
\* (chatcache.go, nomention.go); what was configured outlives starts and their defaults, unless
\* a lookup fails (configstore.go); rows are under their new identifiers when their table has
\* been gone through, and none is lost by a migration that ends before (qid_migration.go); an
\* installed skill stays until it is deleted (skillpanel.go).
DataSurvives ==
  /\ scenario = "quota" => Quota!TypeOK /\ Quota!CountsAreUse
  /\ scenario = "chats" =>
       /\ Chats!TypeOK /\ Chats!AnsweredIsStored /\ Chats!DueIsStored
       /\ Chats!NoStaleClear => Chats!RowsAreWindow
  /\ scenario = "config" =>
       /\ Conf!TypeOK /\ Conf!WrittenStays /\ Conf!DefaultsAreThere
       /\ Conf!SetupIsAskedOnce /\ Conf!MaskIsNotStored /\ Conf!ListenIsSet
  /\ scenario = "ids" => Ids!TypeOK /\ Ids!Converges /\ Ids!NothingVanishes
  /\ scenario = "skills" => Skills!SkillsSurvive

\* What is let through, offered and driven is what it should be, whatever changes meanwhile:
\* a message under lists that are exchanged (interceptor), a request before the quota is really
\* used up, whoever adds to it meanwhile, the tools of MCP servers that come and go, and the
\* ChatBot that answers a session, which is not evicted meanwhile (chatcache.go); what is shown
\* is the answer of the model that gave it, however often it was tried and replaced
\* (llmclient.go).
AnswersAreSound ==
  /\ scenario = "interceptor" => /\ Judge!TypeOK /\ Judge!HardRulesHold
                                /\ Judge!VerdictIsDocumented
  /\ scenario = "quota" => Quota!LetThroughBelow /\ Quota!PassedByTheLast
  /\ scenario = "mcp" => /\ Mcp!TypeOK /\ Mcp!OfferedToolsWork /\ Mcp!CacheIsCurrent
                        /\ Mcp!NoConnectionLeaks
  /\ scenario = "chats" => Chats!DriverIsResident
  /\ scenario = "model" => Model!TypeOK /\ Model!ShownIsAnswer /\ Model!RequestsAreBounded
===============================================================================
