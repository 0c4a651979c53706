SPECIFICATION ReadersSpec

CONSTANTS
  Ids = {1, 2, 3}
  MetricsIds = {1, 2}
  Uptimes = {0, 1}
  Limit = 1
  Filters = {"any", "running"}

INVARIANT CostsFit
INVARIANT ExportedUptimePast
INVARIANT NoLabelVanishes
INVARIANT MissesBounded
INVARIANT RepeatsBounded
PROPERTY TotalNeverShrinks
PROPERTY TerminationShown
