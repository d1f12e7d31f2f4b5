SPECIFICATION FairSpec
CONSTANTS
  MaxIterations = 2
  MaxCalls = 2
  Threshold = 3
  MaxTurns = 3
  MaxBadTurns = 2
  Environments = {{}, {"usage", "summary usage"}, {"bad reads", "bad writes"}, {"stale clears"}}
INVARIANTS
  HistoryIsPaired
  DiskIsWindow
  WindowIsBounded
PROPERTY TurnEnds
