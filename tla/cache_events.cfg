SPECIFICATION FairSpec
CONSTANTS
  Names = {"e1"}
  Changing = {"runs1", "cars"}
  Requests = {1, 2}
  MaxWrites = 2
INVARIANTS TypeOK StaleIsNoticed
PROPERTIES CatchesUp ComesToRest
