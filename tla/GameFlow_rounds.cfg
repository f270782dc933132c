SPECIFICATION FaultSpec
CONSTANTS
  s1 = s1  s2 = s2
  t1 = t1  t2 = t2  t3 = t3  t4 = t4
  p1 = p1  p2 = p2  p3 = p3
  h1 = h1  h2 = h2  h3 = h3  h4 = h4
  Sessions = {s1}
  Kind <- AllMulti
  NumRounds = 1
  Teams = {t1, t2}
  Players = {p1, p2}
  Hosts = {h1, h2}
  SessionOf <- OneSession
  FirstTeam <- Mates
  Ticker = ticker
  NoTeam = noTeam
  MaxFaults = 1
INVARIANT TypeOK
INVARIANT RoundEndsOnce
INVARIANT OneRoutePerTeam
PROPERTY ImplementsProtocol
VIEW RowsAndEnds
SYMMETRY Teammates
CHECK_DEADLOCK FALSE
