SPECIFICATION Spec
CONSTANTS
  Here = Here
  Metric = Metric
  Places = {Here, There}
  Units = {Metric, Imperial}
  Main = Main
  Threads = {Main, Client}
  Default <- Selected
  NoReading = NoReading
  MaxSerial = 4
  MaxOutages = 0
  MaxCrashes = 0
INVARIANTS
  AirIsForSelected
