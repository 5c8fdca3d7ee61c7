SPECIFICATION Spec
CONSTANTS
  Apps = {Editor, Player}
  NoApp = NoApp
  DayLength = 3
  MaxGap = 3
  UptimeLimit = 2
  Installed = 5
  PastBoots <- Boots
  BootLimit = 2
  SleepLength = 3
  MaxWall = 9
  MaxSleeps = 1
  MaxRestarts = 1
SYMMETRY Interchangeable
INVARIANTS
  TypeOK
  DayHoldsADay
  AppsWithinUptime
