SPECIFICATION FairSpec
CONSTANTS
  Meeting = Meeting
  Review = Review
  Prepare = Prepare
  Report = Report
  Work = Work
  Home = Home
  Week = Week
  Inbox = Inbox
  None = None
  Unreadable = Unreadable
  Events = {Meeting, Review}
  Todos = {Prepare, Report}
  Lists = {Work, Home}
  Defaults = {Work}
  ImportFiles <- Exported
  Ranges = {Week}
  MaxEdits = 2
  MaxFaults = 1
  MaxAsks = 1
CHECK_DEADLOCK FALSE
INVARIANTS
  TypeOK
  StoreConsistent
PROPERTIES
  WidgetIsCommitted
  UnreadableKept
  EditsSaved
  ClientCatchesUp
