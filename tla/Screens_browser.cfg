\* One browser, its guide and its player, and two games.
SPECIFICATION Spec
CONSTANTS
  Users = {"player", "guide"}
  TeamLimit = 2
  MaxGames = 2
  MaxPlayers = 2
  MaxTokens = 1
  MaxRequests <- Requests
  MaxBreaks = 1
INVARIANTS
  TypeOK
  TeamAgrees
  IdentityFollows
PROPERTIES
  
  RoomsFollowProtocol
CHECK_DEADLOCK FALSE
