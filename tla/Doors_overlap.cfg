SPECIFICATION Spec
CONSTANTS
  Names = {n1, n2}
  Grants = {g1, g2}
  Texts = {x1, x2}
  Callers = {c1, c2}
  AllFieldsCount = FALSE
  None = None
  MaxCalls = 4
SYMMETRY CallerSymmetry
INVARIANTS
  LiveIsApproved
CHECK_DEADLOCK FALSE
