SPECIFICATION FairSpec
CONSTANTS
  Main = Main
  Threads = {Main, Watcher}
  NoThread = NoThread
  Torn = Torn
  Absent = Absent
  MaxGen = 3
  MaxCrashes = 1
  MaxFailures = 1
INVARIANTS
  TypeOK
  AnnouncedSurvivesRestart
  ServedAfterSnapshot
PROPERTIES
  StateNeverRegresses
  ImplementsDurableDocument
  EventuallyDurable
