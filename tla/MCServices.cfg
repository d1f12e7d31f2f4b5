SPECIFICATION AllSpec
CONSTANTS
  Scenarios = {"quota", "chats", "config", "mcp", "interceptor", "model", "ids",
               "skills", "lazy mcp", "capacity", "no mention", "faulty quota", "faulty config",
               "stuck model", "id values", "twin skills", "stores", "mixed", "knowledge",
               "faulty knowledge", "memory", "laws"}
  Sessions = {"g", "f"}
  Requests = {"r1", "r2", "r3", "r4"}
  SessionOf <- MCSessionOf
  Checked = {"r1", "r3", "r4"}
  Serial = {"r1", "r3", "r4"}
  Cost <- MCCost
  DailyLimit = 2
  GlobalLimit = 4
  Days = 2
  KeepDays = 0
  MaxResets = 1
  Groups = {"g"}
  Mentions = {"m1", "m2"}
  Chatter = {}
  GroupOf <- MCGroupOf
  Threshold = 0
  Every = 2
  MaxIdle = 1
  MaxSessions = 0
  MaxTime = 2
  MaxCrashes = 1
  Keys = {"listen", "key", "opt"}
  Listen = "listen"
  Spellings = {"listen", "key", "opt"}
  LowerOf <- MCLowerOf
  Seeded = {"listen", "key"}
  Registered = {"listen", "opt"}
  Saves <- MCSaves
  Sets <- MCSets
  Presets = {"n"}
  TypedIn = {"a", "b"}
  Faults = {}
  MaxRestarts = 2
  Servers = {"s", "u"}
  Ops <- MCOps
  Names = {"x", "y", "b"}
  ToolsOf <- MCToolsOf
  BuiltIns = {"b"}
  Configured = {"s"}
  Lazy = FALSE
  Lists <- MCLists
  Messages <- MCMessages
  MaxLoads = 2
  MaxAttempts = 3
  HasBackup = TRUE
  Visible = TRUE
  Restartable = TRUE
  MaxPieces = 2
  Tables = {"kv", "session", "message"}
  InValue = {"kv"}
  MaxStarts = 2
  MaxRowWrites = 1
  SkillOps <- MCSkillOps
  EntryOrder <- MCEntryOrder
  SkillNames = {"a", "b"}
  Present <- MCPresent
  Chosen = {}
INVARIANTS
  DataSurvives
  AnswersAreSound
  OthersHold
CHECK_DEADLOCK FALSE
