SPECIFICATION Spec
CONSTANTS
  Clients = {Shell, Settings}
  Leases = {First, Second}
  NoLease = NoLease
  MaxRestarts = 1
  Contents = {Text, Image}
  Images = {Image}
  Sources = {Left, Right}
  LastSlot = 1
  Things = {Notes, Photo, Draft}
  Jobs = {One, Two}
  Threads = 2
  MaxOthers = 1
  Left = Left
  Right = Right
  Notes = Notes
  Photo = Photo
  Initially <- Homes
CHECK_DEADLOCK FALSE
INVARIANTS
  TypeOK
  EnabledIsHeld
  PinsWhole
  NothingLost
PROPERTIES
  AwakeSettles
