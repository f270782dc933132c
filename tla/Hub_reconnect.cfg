\* A player who reconnects, while the server broadcasts.
SPECIFICATION FairSpec
CONSTANTS
  ann = ann
  ben = ben
  NumConns = 2
  Players = {ann, ben}
  PlayerID <- Reconnecting
  TeamID <- OneTeam
  Callers = {server}
  Buffer = 1
  NoConn = NoConn
INVARIANTS
  TypeOK
  NoGhost
  SendNeverPanics
PROPERTIES
  RegisterReturns
  DeadConnectionsGo
CHECK_DEADLOCK FALSE
