SPECIFICATION FairSpec
CONSTANTS
  t1 = t1
  t2 = t2
  r1 = r1
  NoRepo = NoRepo
  Tasks = {t1, t2, t3}
  Queued = {t1, t3}
  Threads = {p1, p2}
  RepoOf <- SharedRepo
  Rank <- T1First
  Untyped = {}
  Unpreparable = {}
  Expiring = {}
  Ceiling = 2
  MaxFailures = 2
  RepeatThreshold = 3
  GatesBlock = FALSE
  Powers = {}
  MaxHands = 0
  MaxCrashes = 0
  MaxFaults = 0
INVARIANTS
  NoStrandedClaim
  GivenUpAfterLastFailure
PROPERTY EveryTaskFinishes
