SPECIFICATION Spec
CONSTANTS
  t1 = t1
  t2 = t2
  r1 = r1
  NoRepo = NoRepo
  Tasks = {t1, t2, t3}
  Queued = {t1}
  Threads = {p1, p2}
  RepoOf <- OneInRepo
  Rank <- T1First
  Untyped = {}
  Unpreparable = {t1}
  Expiring = {t2}
  Ceiling = 1
  MaxFailures = 2
  RepeatThreshold = 3
  GatesBlock = FALSE
  Powers = {}
  MaxHands = 0
  MaxCrashes = 1
  MaxFaults = 0
INVARIANTS
  SessionsWithinCeiling
  LiveRunNeverLost
  HandedOverIsIdle
  OneFailurePerLaunch
PROPERTY ImplementsDispatch
