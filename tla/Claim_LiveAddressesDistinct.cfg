SPECIFICATION Spec

CONSTANTS
  Slots = {r1, r2}
  r1 = r1
  r2 = r2
  Nobody = Nobody
  MaxServers = 2
  LastHost = 1
  Excluded = {}
  LogLimit = 2
  LogKeep = 1
  MaxFaults = 0
  MaxCrashes = 0
  MaxRetries = 1
  Interval = 1
  ReapAfter = 1
  MaxTime = 0

INVARIANT LiveAddressesDistinct
