SPECIFICATION Spec
CONSTANTS
  MaxSeq = 2
  MaxTriggers = 2
  MaxLog = 1
  WritesMayFail = FALSE
  None = None
INVARIANTS
  ExecutionsAreAccounted
  ScheduleMatchesTasks
  AnsweredIsKept
PROPERTY NothingIsReused
