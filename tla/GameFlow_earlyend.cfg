SPECIFICATION PlaySpec
CONSTANTS
  s1 = s1  s2 = s2
  t1 = t1  t2 = t2  t3 = t3  t4 = t4
  p1 = p1  p2 = p2  p3 = p3
  h1 = h1  h2 = h2  h3 = h3  h4 = h4
  Sessions = {s1}
  Kind <- AllMulti
  NumRounds = 2
  Teams = {t1, t2}
  Players = {p1, p2, p3}
  Hosts = {h1}
  SessionOf <- OneSession
  FirstTeam <- Spectated
  Ticker = ticker
  NoTeam = noTeam
  MaxFaults = 0
INVARIANT EarlyEndNotMissed
VIEW RowsAndRoutes
CHECK_DEADLOCK FALSE
