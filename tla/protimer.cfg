SPECIFICATION Spec
CONSTANTS
  MaxStarts = 2
  MaxLine = 1
  MaxActs = 2
INVARIANTS TypeOK RowsAreOwn CourseIsKnown NothingAhead
 
CHECK_DEADLOCK FALSE
