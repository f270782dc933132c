SPECIFICATION Spec
CONSTANTS
  Streams = {c1, c2, c3}
  TeamIds = {t1, t2, t3, t4}
  PlayerIds = {p1, p2, p3, p4}
  MaxTeams = 1
  MaxPlayers = 1
  NoTeam = noTeam
  Absent = absent
INVARIANT TypeOK
INVARIANT TeamsBounded
INVARIANT PlayersBounded
PROPERTY ImplementsRoom
SYMMETRY Interchangeable
CHECK_DEADLOCK FALSE
