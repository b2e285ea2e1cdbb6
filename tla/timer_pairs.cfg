SPECIFICATION Spec
CONSTANTS
  LightCounts = {2, 3}
  MaxTime = 6
INVARIANTS Aligned Pairing SegmentsOwn
PROPERTIES AnnouncesRuns

CHECK_DEADLOCK FALSE
