SPECIFICATION FairSpec
CONSTANTS
  Programs = {p1}
  Times = {1}
  MaxConns = 2
  MaxSends = 2
INVARIANTS TypeOK NothingMissed NoFalseAlarm
PROPERTIES RunsArrive 
CHECK_DEADLOCK FALSE
