SPECIFICATION Spec
CONSTANTS
  Paths = {a, b}
  Ids = {i, j}
  Outputs = {Panel, Projector}
  Main = Main
  Threads = {Main, Shell, Tool}
  NoFile = NoFile
  NoId = NoId
  NoOutput = NoOutput
  NoThread = NoThread
  MaxEdits = 1
  MaxRequests = 3
  MaxCrashes = 1
SYMMETRY Interchangeable
INVARIANTS
  TypeOK
  EntriesMatchPlacements
  PlacedOnConnectedOutput
PROPERTIES
  OwnersChangeByPlacement
  RacingRenameForgetsNoOwner
