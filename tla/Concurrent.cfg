SPECIFICATION Spec

CONSTANTS
  Slots = {r1, r2}
  r1 = r1
  r2 = r2
  Nobody = Nobody
  MaxServers = 2
  LastHost = 2
  Excluded = {}
  LogLimit = 1
  LogKeep = 1
  MaxFaults = 0
  MaxCrashes = 0
  MaxRetries = 1
  Interval = 1
  ReapAfter = 0
  MaxTime = 1

SYMMETRY SlotSymmetry

INVARIANT PoolConsistent
PROPERTY StoppedOnlyAfterStart
PROPERTY TerminationFinalWhenQuiet
