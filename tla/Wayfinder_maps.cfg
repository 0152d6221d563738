SPECIFICATION Spec
CONSTANTS
  p = p
  ps = ps
  Maps = {m1, m2}
  Tickets = {k1, k2}
  Projects = {p, ps}
  Inside <- Nested
  Callers = {c1, c2}
  None = None
  Lines = 1
  MaxCalls = 3
  MaxByHand = 1
SYMMETRY WayfinderSymmetry
INVARIANTS
  ClaimedByOne
  AnswerStands
  OrphansCameLate
  MisplacedByOverlap
  QuietFaultsWereNamed
CHECK_DEADLOCK FALSE
