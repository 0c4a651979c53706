SPECIFICATION FairFloorSpec

CONSTANTS
  Slots = {r1}
  r1 = r1
  Nobody = Nobody
  MaxServers = 2
  LastHost = 2
  Excluded = {1}
  LogLimit = 1
  LogKeep = 1
  MaxFaults = 1
  MaxCrashes = 1
  MaxRetries = 1
  Interval = 1
  ReapAfter = 1
  MaxTime = 2

INVARIANT TypeOK
INVARIANT UnstartedNotBilled
PROPERTY UptimeNeverShrinks
PROPERTY PassCharges
PROPERTY PassReaps
PROPERTY CleanStart
PROPERTY PassEnds
PROPERTY ServesAgain
PROPERTY ShutdownEnds
PROPERTY TableImplemented
