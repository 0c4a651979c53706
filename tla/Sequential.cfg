SPECIFICATION LogSpec

CONSTANTS
  Slots = {r1}
  r1 = r1
  Nobody = Nobody
  MaxServers = 3
  LastHost = 2
  Excluded = {}
  LogLimit = 3
  LogKeep = 2
  MaxFaults = 0
  MaxCrashes = 1
  MaxRetries = 1
  Interval = 1
  ReapAfter = 5
  MaxTime = 1

INVARIANT LeasesExact
INVARIANT LogIsRecent
INVARIANT LogTellsStatus
PROPERTY LifecycleImplemented
