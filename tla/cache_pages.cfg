SPECIFICATION Spec
CONSTANTS
  Names = {"e1", "champ", "info", "challenge"}
  Changing = {"runs1", "events", "chruns"}
  Requests = {1}
  MaxWrites = 2
PROPERTIES PageIsCurrent
