SPECIFICATION PlaySpec
CONSTANTS
  s1 = s1  s2 = s2
  t1 = t1  t2 = t2  t3 = t3  t4 = t4
  p1 = p1  p2 = p2  p3 = p3
  h1 = h1  h2 = h2  h3 = h3  h4 = h4
  Sessions = {s1, s2}
  Kind <- SoloAndDemo
  NumRounds = 2
  Teams = {t1, t3}
  Players = {p1}
  Hosts = {h1, h2, h3, h4}
  SessionOf <- TwoSessions
  FirstTeam <- Rivals
  Ticker = ticker
  NoTeam = noTeam
  MaxFaults = 0
PROPERTY ImplementsProtocol
VIEW RowsAndStarts
SYMMETRY Tabs
CHECK_DEADLOCK FALSE
