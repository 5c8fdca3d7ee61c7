SPECIFICATION FairSpec
CONSTANTS
  Clients = {Shell, Settings}
  Slow = {Settings}
  Refresh = Refresh
  Details = Details
  Scan = Scan
  Network = Network
  Keys = {Refresh, Details, Scan}
  Domains = {Network}
  DomainOf <- KeyDomain
  Ttl <- KeyTtl
  FailTtl = 1
  Prefill <- Extras
  PeerLimit = 2
  TotalLimit = 2
  KeyLimit = 2
  CacheLimit = 1
  MaxRequests = 3
  MaxChanges = 1
  MaxTime = 1
CHECK_DEADLOCK FALSE
INVARIANTS
  TypeOK
  OneFate
  OneWorkerPerKey
  LimitsHold
  FreshUnlessOvertaken
PROPERTIES
  EveryRequestAnswered
