\* A tab that reviews a round while routes come in, and nothing fails.
SPECIFICATION Spec
CONSTANTS
  NumRounds = 2
  Roles = {"player", "guide"}
  Teams = {"mine"}
  ZoneRounds = {2}
  MaxRequests <- Requests
  MaxMessages = 3
  MaxBreaks = 0
INVARIANTS
  PageSurvives
CHECK_DEADLOCK FALSE
