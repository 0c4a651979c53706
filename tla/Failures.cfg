SPECIFICATION Spec

CONSTANTS
  Slots = {r1, r2}
  r1 = r1
  r2 = r2
  Nobody = Nobody
  MaxServers = 2
  LastHost = 2
  Excluded = {}
  LogLimit = 1
  LogKeep = 1
  MaxFaults = 1
  MaxCrashes = 2
  MaxRetries = 2
  Interval = 1
  ReapAfter = 1
  MaxTime = 0

SYMMETRY SlotSymmetry

INVARIANT LogBounded
INVARIANT PoolConsistent
PROPERTY PoolImplemented
PROPERTY CleanStart
