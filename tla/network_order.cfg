SPECIFICATION Spec
CONSTANTS
  Programs = {p1}
  Times = {0, 1, 2}
  MaxConns = 1
  MaxSends = 4
INVARIANTS NothingStale InOrder
CHECK_DEADLOCK FALSE
