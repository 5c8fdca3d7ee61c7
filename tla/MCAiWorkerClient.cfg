SPECIFICATION FairSpec
CONSTANTS
  Depths = {First, Second, Third}
  Resources = {Initialize}
  Clears = {ClearAll}
  Garbage = Garbage
  QueueLimit = 2
  MaxFaults = 2
  MaxCancels = 1
CHECK_DEADLOCK FALSE
INVARIANTS
  TypeOK
  AnswersAreOwn
  CompletedOnce
PROPERTIES
  NoRequestStranded
  IdleProcessEnds
