---------------------------- MODULE LobbyProofs -----------------------------
(***************************************************************************)
(* How far the waiting room's limits can be overshot, for every limit and  *)
(* every number of requests in flight.                                     *)
(***************************************************************************)
EXTENDS Lobby, FiniteSetTheorems, TLAPS

SeatInv == TypeOK /\ SeatsOK

\* The sets the limits count are finite.
LEMMA Finite ==
  ASSUME TypeOK
  PROVE  /\ IsFiniteSet(teams) /\ Cardinality(teams) \in Nat
         /\ IsFiniteSet(players) /\ Cardinality(players) \in Nat
         /\ IsFiniteSet(Joining) /\ Cardinality(Joining) \in Nat
         /\ IsFiniteSet(Creating) /\ Cardinality(Creating) \in Nat
         /\ Cardinality(Streams) \in Nat
<1>1. teams \in SUBSET TeamIds /\ players \in SUBSET PlayerIds
  BY DEF TypeOK, players
<1>2. Joining \in SUBSET Streams /\ Creating \in SUBSET Streams
  BY DEF Joining, Creating
<1> QED
  BY <1>1, <1>2, StreamAssumption, RowAssumption, FS_Subset, FS_CardinalityType

\* A stream that has not yet seen room leaves fewer than all of them about to insert.
LEMMA Spare ==
  ASSUME NEW S \in SUBSET Streams, NEW c \in Streams, c \notin S
  PROVE  Cardinality(S) < Cardinality(Streams)
<1>1. Cardinality(S) <= Cardinality(Streams) /\ (Cardinality(Streams) = Cardinality(S) => Streams = S)
  BY StreamAssumption, FS_Subset
<1>2. Cardinality(S) \in Nat /\ Cardinality(Streams) \in Nat
  BY StreamAssumption, FS_Subset, FS_CardinalityType
<1> QED
  BY <1>1, <1>2

\* Every step keeps the rows well formed.
LEMMA TypeStep == TypeOK /\ [Next]_vars => TypeOK'
BY DEF TypeOK, Next, vars, Step, JoinSession, CountPlayers, CreatePlayer, CreateTeam, CountTeams,
       InsertTeam, JoinTeam, KickPlayer, StartGame, StartRound, StoreError

\* A request that counted too many rows, inserted one or failed is about to insert none.
LEMMA Leaves ==
  ASSUME TypeOK, NEW c \in Streams, pc' = [pc EXCEPT ![c] = "idle"]
  PROVE  /\ Joining' = Joining \ {c} /\ (c \notin Joining => Joining' = Joining)
         /\ Creating' = Creating \ {c} /\ (c \notin Creating => Creating' = Creating)
BY DEF TypeOK, Joining, Creating

\* A request that saw room for a player joins those about to insert one.
LEMMA SeesPlayerRoom ==
  ASSUME TypeOK, NEW c \in Streams, pc' = [pc EXCEPT ![c] = "insertPlayer"]
  PROVE  Joining' = Joining \cup {c} /\ (c \notin Creating => Creating' = Creating)
BY DEF TypeOK, Joining, Creating

\* A request that saw room for a team joins those about to insert one.
LEMMA SeesTeamRoom ==
  ASSUME TypeOK, NEW c \in Streams, pc' = [pc EXCEPT ![c] = "insertTeam"]
  PROVE  Creating' = Creating \cup {c} /\ (c \notin Joining => Joining' = Joining)
BY DEF TypeOK, Joining, Creating

\* The counts fit together after every step.
LEMMA SeatStep == SeatInv /\ [Next]_vars => SeatsOK'
<1> SUFFICES ASSUME SeatInv, [Next]_vars PROVE SeatsOK'
  OBVIOUS
<1> USE LimitAssumption DEF SeatInv
<1>1. ASSUME players' = players, teams' = teams, Joining' = Joining, Creating' = Creating
      PROVE  SeatsOK'
  BY <1>1 DEF SeatsOK
<1>2. ASSUME NEW c \in Streams, JoinSession(c) \/ CreateTeam(c)
      PROVE  SeatsOK'
  <2>1. players' = players /\ teams' = teams
    BY <1>2 DEF JoinSession, CreateTeam, players
  <2>2. Joining' = Joining /\ Creating' = Creating
    BY <1>2 DEF JoinSession, CreateTeam, Step, Joining, Creating, TypeOK
  <2> QED
    BY <1>1, <2>1, <2>2
<1>3. ASSUME NEW c \in Streams, CountPlayers(c)
      PROVE  SeatsOK'
  <2>1. players' = players /\ teams' = teams /\ c \notin Joining /\ c \notin Creating
    BY <1>3 DEF CountPlayers, Step, players, Joining, Creating
  <2>2. CASE Cardinality(players) >= MaxPlayers
    <3>1. pc' = [pc EXCEPT ![c] = "idle"]
      BY <1>3, <2>2 DEF CountPlayers, Step
    <3>2. Joining' = Joining /\ Creating' = Creating
      BY <1>3, <2>1, <3>1, Leaves
    <3> QED
      BY <1>1, <2>1, <3>2
  <2>3. CASE ~(Cardinality(players) >= MaxPlayers)
    <3>1. pc' = [pc EXCEPT ![c] = "insertPlayer"]
      BY <1>3, <2>3 DEF CountPlayers, Step
    <3>2. Joining' = Joining \cup {c} /\ Creating' = Creating
      BY <1>3, <2>1, <3>1, SeesPlayerRoom
    <3>3. Cardinality(Joining') = Cardinality(Joining) + 1
      BY <2>1, <3>2, Finite, FS_AddElement
    <3>4. Cardinality(Joining) < Cardinality(Streams)
      BY <2>1, Spare DEF Joining
    <3> QED
      BY <2>1, <2>3, <3>2, <3>3, <3>4, Finite DEF SeatsOK
  <2> QED
    BY <2>2, <2>3
<1>4. ASSUME NEW c \in Streams, CountTeams(c)
      PROVE  SeatsOK'
  <2>1. players' = players /\ teams' = teams /\ c \notin Joining /\ c \notin Creating
    BY <1>4 DEF CountTeams, Step, players, Joining, Creating
  <2>2. CASE Cardinality(teams) >= MaxTeams
    <3>1. pc' = [pc EXCEPT ![c] = "idle"]
      BY <1>4, <2>2 DEF CountTeams, Step
    <3>2. Joining' = Joining /\ Creating' = Creating
      BY <1>4, <2>1, <3>1, Leaves
    <3> QED
      BY <1>1, <2>1, <3>2
  <2>3. CASE ~(Cardinality(teams) >= MaxTeams)
    <3>1. pc' = [pc EXCEPT ![c] = "insertTeam"]
      BY <1>4, <2>3 DEF CountTeams, Step
    <3>2. Creating' = Creating \cup {c} /\ Joining' = Joining
      BY <1>4, <2>1, <3>1, SeesTeamRoom
    <3>3. Cardinality(Creating') = Cardinality(Creating) + 1
      BY <2>1, <3>2, Finite, FS_AddElement
    <3>4. Cardinality(Creating) < Cardinality(Streams)
      BY <2>1, Spare DEF Creating
    <3> QED
      BY <2>1, <2>3, <3>2, <3>3, <3>4, Finite DEF SeatsOK
  <2> QED
    BY <2>2, <2>3
<1>5. ASSUME NEW c \in Streams, NEW p \in PlayerIds, CreatePlayer(c, p)
      PROVE  SeatsOK'
  <2>1. c \in Joining /\ c \notin Creating /\ pc' = [pc EXCEPT ![c] = "idle"]
    BY <1>5 DEF CreatePlayer, Step, Joining, Creating
  <2>2. p \notin players /\ players' = players \cup {p} /\ teams' = teams
    BY <1>5, RowAssumption DEF CreatePlayer, players, TypeOK
  <2>3. Joining' = Joining \ {c} /\ Creating' = Creating
    BY <1>5, <2>1, Leaves
  <2>4. Cardinality(players') = Cardinality(players) + 1
    BY <2>2, Finite, FS_AddElement
  <2>5. Cardinality(Joining') = Cardinality(Joining) - 1
    BY <2>1, <2>3, Finite, FS_RemoveElement
  <2> QED
    BY <2>2, <2>3, <2>4, <2>5, Finite DEF SeatsOK
<1>6. ASSUME NEW c \in Streams, NEW t \in TeamIds, InsertTeam(c, t)
      PROVE  SeatsOK'
  <2>1. c \in Creating /\ c \notin Joining /\ pc' = [pc EXCEPT ![c] = "idle"]
    BY <1>6 DEF InsertTeam, Step, Joining, Creating
  <2>2. t \notin teams /\ teams' = teams \cup {t} /\ players' = players
    BY <1>6 DEF InsertTeam, players
  <2>3. Creating' = Creating \ {c} /\ Joining' = Joining
    BY <1>6, <2>1, Leaves
  <2>4. Cardinality(teams') = Cardinality(teams) + 1
    BY <2>2, Finite, FS_AddElement
  <2>5. Cardinality(Creating') = Cardinality(Creating) - 1
    BY <2>1, <2>3, Finite, FS_RemoveElement
  <2> QED
    BY <2>2, <2>3, <2>4, <2>5, Finite DEF SeatsOK
<1>7. ASSUME NEW p \in PlayerIds, KickPlayer(p)
      PROVE  SeatsOK'
  <2>1. players' = players \ {p} /\ p \in players /\ teams' = teams
    BY <1>7 DEF KickPlayer, players, TypeOK
  <2>2. Joining' = Joining /\ Creating' = Creating
    BY <1>7 DEF KickPlayer, Joining, Creating
  <2>3. Cardinality(players') = Cardinality(players) - 1
    BY <2>1, Finite, FS_RemoveElement
  <2> QED
    BY <2>1, <2>2, <2>3, Finite DEF SeatsOK
<1>8. ASSUME NEW p \in PlayerIds, NEW t \in TeamIds, JoinTeam(p, t)
      PROVE  SeatsOK'
  <2>1. players' = players /\ teams' = teams
    BY <1>8, RowAssumption DEF JoinTeam, players, TypeOK
  <2>2. Joining' = Joining /\ Creating' = Creating
    BY <1>8 DEF JoinTeam, Joining, Creating
  <2> QED
    BY <1>1, <2>1, <2>2
<1>9. ASSUME NEW c \in Streams, StoreError(c)
      PROVE  SeatsOK'
  <2>1. players' = players /\ teams' = teams /\ pc' = [pc EXCEPT ![c] = "idle"]
    BY <1>9 DEF StoreError, players
  <2>2. Joining' = Joining \ {c} /\ Creating' = Creating \ {c}
    BY <1>9, <2>1, Leaves
  <2>3. Cardinality(Joining') <= Cardinality(Joining) /\ Cardinality(Joining') \in Nat
    BY <2>2, Finite, FS_Subset, FS_CardinalityType
  <2>4. Cardinality(Creating') <= Cardinality(Creating) /\ Cardinality(Creating') \in Nat
    BY <2>2, Finite, FS_Subset, FS_CardinalityType
  <2> QED
    BY <2>1, <2>3, <2>4, Finite DEF SeatsOK
<1>10. CASE StartGame \/ StartRound \/ UNCHANGED vars
  <2>1. players' = players /\ teams' = teams /\ Joining' = Joining /\ Creating' = Creating
    BY <1>10 DEF StartGame, StartRound, vars, players, Joining, Creating
  <2> QED
    BY <1>1, <2>1
<1> QED
  BY <1>2, <1>3, <1>4, <1>5, <1>6, <1>7, <1>8, <1>9, <1>10 DEF Next

\* The empty waiting room.
LEMMA SeatInit == Init => SeatInv
<1> SUFFICES ASSUME Init PROVE SeatInv
  OBVIOUS
<1>1. TypeOK
  BY DEF Init, TypeOK
<1>2. players = {} /\ teams = {} /\ Joining = {} /\ Creating = {}
  BY DEF Init, players, Joining, Creating
<1>3. Cardinality(Streams) \in Nat /\ Cardinality({}) = 0
  BY StreamAssumption, FS_CardinalityType, FS_EmptySet
<1> QED
  BY <1>1, <1>2, <1>3, LimitAssumption DEF SeatInv, SeatsOK

\* Rows stay well formed: no player is ever on a team that is not stored.
THEOREM RowsCorrect == Spec => []TypeOK
<1>1. Init => TypeOK
  BY SeatInit DEF SeatInv
<1> QED
  BY <1>1, TypeStep, PTL DEF Spec

\* Whatever the limits and however many requests race, a limit is overshot by fewer
\* rows than there are requests in flight.
THEOREM LimitsBounded == Spec => [](TeamsBounded /\ PlayersBounded)
<1>1. Init => SeatInv
  BY SeatInit
<1>2. SeatInv /\ [Next]_vars => SeatInv'
  BY TypeStep, SeatStep DEF SeatInv
<1>3. SeatInv => TeamsBounded /\ PlayersBounded
  BY Finite, LimitAssumption DEF SeatInv, SeatsOK, TeamsBounded, PlayersBounded
<1> QED
  BY <1>1, <1>2, <1>3, PTL DEF Spec

\* Of the players alone: those admitted together exceed the limit by fewer than they are.
THEOREM PlayersLimited == Spec => []PlayersBounded
BY LimitsBounded, PTL

-----------------------------------------------------------------------------
(* The room                                                                *)

\* A start that is under way counted two teams, and only it can start the game.
StartOK == host = "start" => phase = "waiting" /\ Cardinality(teams) >= 2

\* A new team is one more, and a request that inserts one found the limit not reached
\* or races with those that reached it.
LEMMA InsertsOne ==
  ASSUME SeatInv, NEW c \in Streams, NEW t \in TeamIds, InsertTeam(c, t)
  PROVE  /\ Cardinality(teams') = Cardinality(teams) + 1
         /\ Cardinality(teams) < MaxTeams + Cardinality(Streams) - 1
<1>1. t \notin teams /\ teams' = teams \cup {t} /\ c \in Creating
  BY DEF InsertTeam, Step, Creating
<1>2. Cardinality(teams') = Cardinality(teams) + 1
  BY <1>1, Finite, FS_AddElement DEF SeatInv
<1>3. Cardinality(Creating \ {c}) = Cardinality(Creating) - 1 /\ Cardinality(Creating \ {c}) \in Nat
  BY <1>1, Finite, FS_RemoveElement, FS_CardinalityType DEF SeatInv
<1>4. Cardinality(Creating) >= 1
  BY <1>3, Finite DEF SeatInv
<1> QED
  BY <1>2, <1>4, Finite, LimitAssumption DEF SeatInv, SeatsOK

\* Only two handlers touch what the room is.
LEMMA RoomSteps ==
  ASSUME [Next]_vars
  PROVE  \/ UNCHANGED <<teams, phase, host>>
         \/ \E c \in Streams, t \in TeamIds : InsertTeam(c, t)
         \/ StartGame \/ StartRound
BY DEF Next, vars, JoinSession, CountPlayers, CreateTeam, CountTeams, StoreError, CreatePlayer,
       JoinTeam, KickPlayer

\* What StartGame counted is still there when it writes: no handler removes a team.
LEMMA StartStep == SeatInv /\ StartOK /\ [Next]_vars => StartOK'
<1> SUFFICES ASSUME SeatInv, StartOK, [Next]_vars PROVE StartOK'
  OBVIOUS
<1>1. CASE UNCHANGED <<teams, phase, host>>
  BY <1>1 DEF StartOK
<1>2. ASSUME NEW c \in Streams, NEW t \in TeamIds, InsertTeam(c, t) PROVE StartOK'
  BY <1>2, InsertsOne, Finite DEF InsertTeam, StartOK, SeatInv
<1>3. CASE StartGame
  BY <1>3 DEF StartGame, StartOK
<1>4. CASE StartRound
  BY <1>4 DEF StartRound, StartOK
<1> QED
  BY <1>1, <1>2, <1>3, <1>4, RoomSteps

LEMMA RoomStep ==
  SeatInv /\ StartOK /\ [Next]_vars => [Room!Next]_<<Cardinality(teams), phase>>
<1> SUFFICES ASSUME SeatInv, StartOK, [Next]_vars
             PROVE  [Room!Next]_<<Cardinality(teams), phase>>
  OBVIOUS
<1>1. CASE UNCHANGED <<teams, phase, host>>
  BY <1>1
<1>2. ASSUME NEW c \in Streams, NEW t \in TeamIds, InsertTeam(c, t) PROVE Room!AddTeam
  BY <1>2, InsertsOne DEF Room!AddTeam, InsertTeam
<1>3. CASE StartGame
  BY <1>3 DEF StartGame
<1>4. CASE StartRound
  <2>1. Room!Start
    BY <1>4 DEF StartRound, StartOK, Room!Start
  <2> QED
    BY <2>1 DEF Room!Next
<1> QED
  BY <1>1, <1>2, <1>3, <1>4, RoomSteps DEF Room!Next

\* Whatever requests race, teams come one by one and stay, and the game starts once, when
\* it has two.
THEOREM LobbyIsRoom == Spec => ImplementsRoom
<1>1. Init => SeatInv /\ StartOK /\ Room!Init
  <2>1. Cardinality({}) = 0
    BY FS_EmptySet
  <2> QED
    BY <2>1, SeatInit DEF Init, StartOK, Room!Init
<1>2. SeatInv /\ StartOK /\ [Next]_vars
        => (SeatInv /\ StartOK)' /\ [Room!Next]_<<Cardinality(teams), phase>>
  BY TypeStep, SeatStep, StartStep, RoomStep DEF SeatInv
<1> QED
  BY <1>1, <1>2, PTL DEF Spec, ImplementsRoom, Room!Spec
=============================================================================
