SPECIFICATION Spec
CONSTANTS
  feed = feed
  renamed = renamed
  Names = {feed, renamed}
  First = feed
  MaxItem = 3
  Matching <- AllItems
  Threshold = 1
  Window = 1
  SeenLimit = 1
  Interval = 1
  MinBackoff = 1
  MaxBackoff = 1
  RetryAfters = {}
  NoHeader = NoHeader
  MaxFetch = 1
  MaxRenames = 1
  MaxFailures = 1
INVARIANTS
  ItemsReportedOnce
CHECK_DEADLOCK FALSE
