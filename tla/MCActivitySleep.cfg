SPECIFICATION Spec
CONSTANTS
  Apps = {Editor}
  NoApp = NoApp
  DayLength = 3
  MaxGap = 3
  UptimeLimit = 2
  Installed = 5
  PastBoots <- Boots
  BootLimit = 2
  SleepLength = 4
  MaxWall = 11
  MaxSleeps = 1
  MaxRestarts = 0
PROPERTIES
  LongPausesIgnored
