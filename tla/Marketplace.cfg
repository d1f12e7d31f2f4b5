SPECIFICATION FairSpec
CONSTANTS
  Plugins = {pa, pb}
  MaxVersion = 2
  MaxOps = 2
  MaxTasks = 3
  MaxReboots = 1
  Environments = {
    {pa, pb, "fetch", "backup", "persist", "source", "remove", "generate", "pull", "build",
     "copy", "retire", "place", "restart"},
    {pa, "fetch", "backup", "persist", "source", "remove", "generate", "undo", "record",
     "strike", "restore", "pull", "list", "build", "copy", "retire", "place", "restart",
     "replay", "drop", "rollbacks", "reboots", "hangs"},
    {pa, "backup", "persist", "generate", "pull", "build", "copy", "retire", "place",
     "restart", "replay", "rollbacks", "reboots", "together"},
    {pa, pb, "record", "strike", "build", "restart"}}
INVARIANTS
  BatchesAreWhole
PROPERTIES
  PluginsAreKept
  TasksEnd
CHECK_DEADLOCK FALSE
