SPECIFICATION FairSpec
CONSTANTS
  five_hour = five_hour
  Cap = 4
  Edge = 3
  Least = 1
  Most = 2
  MaxWanted = 2
  Windows <- OneWindow
  Levels = {1, 2}
  UseEdge = 1
  UseCeiling = 2
  None = None
  Lost = Lost
  MaxOthers = 1
  MaxDeaths = 1
INVARIANTS
  SpendWithinReach
  BlockIsHeard
PROPERTY WorkResumes
