SPECIFICATION Spec
CONSTANTS
  Rounds = {0, 1, 2, 3, 99}
  Contested = {2, 3}
  Opened = {2}
  Cars = {c1, c2}
  None = None
  Nullid = Nullid
  NoRun = NoRun
  Times = {0, 16}
  Typed = {16}
  Cones = {0, 1}
  Statuses = {"OK", "RL"}
  ConePenalty = 2
  Dials = {20}
  MaxRuns = 5
  MaxMoves = 1
  MaxTargets = 2
SYMMETRY CarSymmetry
  
PROPERTIES  SemifinalSplits
CHECK_DEADLOCK FALSE
