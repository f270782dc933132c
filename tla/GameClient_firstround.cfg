\* A player in the waiting room when the game starts, and nothing fails.
SPECIFICATION FairSpec
CONSTANTS
  NumRounds = 2
  Roles = {"player"}
  Teams = {"mine"}
  ZoneRounds = {2}
  MaxRequests <- Requests
  MaxMessages = 3
  MaxBreaks = 0
PROPERTIES
  PlayerSeesRound
CHECK_DEADLOCK FALSE
