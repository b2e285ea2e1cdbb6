SPECIFICATION Spec
CONSTANTS
  Events = {e1}
  Courses = {1}
  Groups = {1, 2}
  MaxRuns = 1
  d1 = d1
  Cars = {c1, c2, c3}
  Owner <- OwnedByOne
  NoCar = NoCar
  Patient = TRUE
  MaxQueue = 1
  MaxRows = 3
  MaxFaults = 0
SYMMETRY CarSymmetry
PROPERTIES KeepsRunOrder DragMovesBlock
CHECK_DEADLOCK FALSE
