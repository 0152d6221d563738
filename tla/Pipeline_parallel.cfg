SPECIFICATION Spec
CONSTANTS
  t1 = t1
  t2 = t2
  r1 = r1
  NoRepo = NoRepo
  Tasks = {t1, t2}
  Queued = {t1}
  Threads = {p1, p2}
  RepoOf <- SharedRepo
  Rank <- T1First
  Untyped = {}
  Unpreparable = {}
  Expiring = {t2}
  Ceiling = 2
  MaxFailures = 2
  RepeatThreshold = 3
  GatesBlock = TRUE
  Powers = {"claim", "release", "close", "rearm", "take", "pause"}
  MaxHands = 1
  MaxCrashes = 1
  MaxFaults = 1
SYMMETRY ThreadSymmetry
INVARIANTS
  OneSessionPerRepo
