SPECIFICATION Spec
CONSTANTS
  None = None
  NoFile = NoFile
  Unasked = Unasked
  Missing = Missing
  Lines = {l1, l2, l3}
  MaxTrouble = 2
  Runs = {r1, r2, r3}
  Noters = {n1, n2}
  Reasons = {cost, paused}
  Ran = Ran
  MaxLines = 2
  KeepLines = 1
  MaxClock = 2
  MaxNotings = 3
  Ended = 3
  MaxMoment = 3
  Questions = {q1, q2}
  MaxMishaps = 2
  RunTasks = {t1, t2}
  Undeletable = {t1}
  MaxFailures = 2
  Writers = {w1, w2, w3}
  MaxFaults = 2
  Readers = {c1, c2}
  Tick = tick
  MaxChecks = 4
  Editors = {e1, e2}
  HandEdits = {h1}
  MaxLaunches = 2
  MaxCrashes = 1
  MaxPrinted = 4
  Silent = 1
  MaxNow = 5
  MaxBeats = 4
  MaxLapses = 2
  McpServers = {s1, s2}
  Launches = {u1, u2}
  WithToken = {s2}
  MaxEdits = 3
  MaxBreaks = 1
INVARIANTS
  ToldTwiceIsTrouble
  LoneRunsCountOnce
  LogTellsWhy
  PeakIsReached
  BodyIsTheLastSet
  SilenceKeepsTheLastWord
  RunsUnderItsRecord
  ClosedOnlyByTheReport
  SilenceIsToldOnce
  ReachesItsServers
PROPERTIES
  NoticesArrive
  PanelComesBack
  StaleIsToldOnce
  OldRunsGo
CHECK_DEADLOCK FALSE
