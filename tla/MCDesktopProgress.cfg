SPECIFICATION FairSpec
CONSTANTS
  Paths = {a, b}
  Ids = {i, j}
  Outputs = {Panel, Projector}
  Main = Main
  Threads = {Main, Handler}
  NoFile = NoFile
  NoId = NoId
  NoOutput = NoOutput
  NoThread = NoThread
  MaxEdits = 2
  MaxRequests = 1
  MaxCrashes = 1
PROPERTIES
  DesktopConverges
