\* One tab of any kind, through two rounds.
SPECIFICATION FairSpec
CONSTANTS
  NumRounds = 2
  Roles = {"player", "guide", "solo", "demo"}
  Teams = {"mine"}
  ZoneRounds = {2}
  MaxRequests <- Requests
  MaxMessages = 1
  MaxBreaks = 1
PROPERTIES RoundReachesGuide RowFollowsProtocol
INVARIANTS
  TypeOK
  ShowsSession
  DrawingCounts
  SoloKeepsPage
  SubmittingIsUnderWay
CHECK_DEADLOCK FALSE
