\* One connection whose peer stays.
SPECIFICATION Spec
CONSTANTS
  ann = ann
  ben = ben
  NumConns = 1
  Players = {ann, ben}
  PlayerID <- Reconnecting
  TeamID <- OneTeam
  Callers = {server}
  Buffer = 1
  NoConn = NoConn
PROPERTY
  LivesWithPeer
CHECK_DEADLOCK FALSE
