SPECIFICATION OrderingSpec
CONSTANTS
  Events = {e1, e2}
  Courses = {1}
  Groups = {1}
  MaxRuns = 1
  d1 = d1
  Cars = {c1, c2}
  Owner <- OwnedByOne
  NoCar = NoCar
  Patient = FALSE
  MaxQueue = 2
  MaxRows = 2
  MaxFaults = 1
SYMMETRY CarSymmetry
INVARIANTS TypeOK  OrderIsCommitted TableIsOrder CrashLosesNothing
PROPERTIES AddKeepsOrder
CHECK_DEADLOCK FALSE
