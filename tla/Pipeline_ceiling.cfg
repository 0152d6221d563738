SPECIFICATION Spec
CONSTANTS
  t1 = t1
  t2 = t2
  r1 = r1
  NoRepo = NoRepo
  Tasks = {t1, t2, t3}
  Queued = {t1, t2, t3}
  Threads = {p1, p2, p3}
  RepoOf <- OneInRepo
  Rank <- T1Last
  Untyped = {}
  Unpreparable = {}
  Expiring = {}
  Ceiling = 2
  MaxFailures = 2
  RepeatThreshold = 3
  GatesBlock = FALSE
  Powers = {}
  MaxHands = 0
  MaxCrashes = 0
  MaxFaults = 0
SYMMETRY ThreadSymmetry
INVARIANT SessionsWithinCeiling
