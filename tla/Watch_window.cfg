SPECIFICATION Spec
CONSTANTS
  feed = feed
  renamed = renamed
  Names = {feed, renamed}
  First = feed
  MaxItem = 6
  Matching <- NotTheThird
  Threshold = 2
  Window = 2
  SeenLimit = 3
  Interval = 1
  MinBackoff = 2
  MaxBackoff = 3
  RetryAfters = {3}
  NoHeader = NoHeader
  MaxFetch = 2
  MaxRenames = 0
  MaxFailures = 2
INVARIANTS
  NothingSeenUnreported
  ItemsReportedOnce
  TasksCountNewItems
  RefusalsAreHonoured
CHECK_DEADLOCK FALSE
