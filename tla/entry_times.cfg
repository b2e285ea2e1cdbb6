SPECIFICATION TimingSpec
CONSTANTS
  Events = {e1}
  Courses = {1}
  Groups = {1, 2}
  MaxRuns = 1
  d1 = d1
  Cars = {c1, c2}
  Owner <- OwnedByOne
  NoCar = NoCar
  Patient = FALSE
  MaxQueue = 2
  MaxRows = 2
  MaxFaults = 1
SYMMETRY CarSymmetry
PROPERTIES TableKeepsRuns RunsAreKept RetryStores
CHECK_DEADLOCK FALSE
