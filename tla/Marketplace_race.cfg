SPECIFICATION Spec
CONSTANTS
  Plugins = {pa, pb}
  MaxVersion = 2
  MaxOps = 2
  MaxTasks = 3
  MaxReboots = 1
  Environments = {
    {pa, "fetch", "backup", "persist", "source", "remove", "generate", "pull", "build", "copy",
     "retire", "place", "restart", "replay", "drop", "rollbacks", "reboots", "together"}}
INVARIANT BinaryIsNeverLost
CHECK_DEADLOCK FALSE
