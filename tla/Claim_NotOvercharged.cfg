SPECIFICATION AuditSpec

CONSTANTS
  Slots = {r1}
  r1 = r1
  Nobody = Nobody
  MaxServers = 2
  LastHost = 1
  Excluded = {}
  LogLimit = 2
  LogKeep = 1
  MaxFaults = 0
  MaxCrashes = 0
  MaxRetries = 1
  Interval = 1
  ReapAfter = 10
  MaxTime = 2

INVARIANT NotOvercharged
