SPECIFICATION FairSpec
CONSTANTS
  Here = Here
  Metric = Metric
  Places = {Here, There}
  Units = {Metric, Imperial}
  Main = Main
  Threads = {Main, Client}
  Default <- Selected
  NoReading = NoReading
  MaxSerial = 3
  MaxOutages = 1
  MaxCrashes = 1
INVARIANTS
  TypeOK
  ShownIsSelected
PROPERTIES
  LoadingEnds
