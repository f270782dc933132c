------------------------------- MODULE Lobby --------------------------------
(***************************************************************************)
(* The waiting room of one multiplayer session: the handlers of            *)
(* handler/session.go that count rows, compare with a limit and insert,    *)
(* and the StartGame that closes the room.  The count and the insert are   *)
(* separate statements outside any transaction, so requests that count     *)
(* together all insert.                                                    *)
(***************************************************************************)
EXTENDS Naturals, FiniteSets

CONSTANTS Streams,     \* requests that can be in flight together
          TeamIds,     \* uuids of team rows
          PlayerIds,   \* uuids of player rows
          MaxTeams,    \* 4 in the code
          MaxPlayers,  \* 8 in the code
          NoTeam,      \* NULL team_id
          Absent       \* no row

ASSUME StreamAssumption == IsFiniteSet(Streams) /\ Streams # {}
ASSUME RowAssumption ==
  /\ IsFiniteSet(TeamIds) /\ IsFiniteSet(PlayerIds)
  /\ NoTeam \notin TeamIds /\ Absent \notin TeamIds \cup {NoTeam}
ASSUME LimitAssumption == MaxTeams \in Nat \ {0} /\ MaxPlayers \in Nat \ {0}

VARIABLES
  phase,   \* "waiting" until StartGame, "playing" after
  teams,   \* team rows
  player,  \* team_id of each player row
  pc,      \* where each request stands
  host     \* "start" while StartGame is between its load and its write

vars == <<phase, teams, player, pc, host>>

players == {p \in PlayerIds : player[p] # Absent}

Init ==
  /\ phase = "waiting"
  /\ teams = {}
  /\ player = [p \in PlayerIds |-> Absent]
  /\ pc = [c \in Streams |-> "idle"]
  /\ host = "idle"

Step(c, from, to) == pc[c] = from /\ pc' = [pc EXCEPT ![c] = to]

\* JoinSession: GetSession, and the check that the game has not started.
JoinSession(c) ==
  /\ phase = "waiting"
  /\ Step(c, "idle", "countPlayers")
  /\ UNCHANGED <<phase, teams, player, host>>

\* Slip: the limit compared with > .
CountPlayersLoose(c) ==
  /\ Step(c, "countPlayers", IF Cardinality(players) > MaxPlayers THEN "idle" ELSE "insertPlayer")
  /\ UNCHANGED <<phase, teams, player, host>>

\* GetPlayersBySession and the limit.
CountPlayers(c) ==
  /\ Step(c, "countPlayers", IF Cardinality(players) >= MaxPlayers THEN "idle" ELSE "insertPlayer")
  /\ UNCHANGED <<phase, teams, player, host>>

CreatePlayer(c, p) ==
  /\ player[p] = Absent
  /\ Step(c, "insertPlayer", "idle")
  /\ player' = [player EXCEPT ![p] = NoTeam]
  /\ UNCHANGED <<phase, teams, host>>

\* CreateTeam loads the session, for its existence only.
CreateTeam(c) ==
  /\ Step(c, "idle", "countTeams")
  /\ UNCHANGED <<phase, teams, player, host>>

\* Slip: the limit compared with > .
CountTeamsLoose(c) ==
  /\ Step(c, "countTeams", IF Cardinality(teams) > MaxTeams THEN "idle" ELSE "insertTeam")
  /\ UNCHANGED <<phase, teams, player, host>>

\* GetTeamsBySession and the limit.
CountTeams(c) ==
  /\ Step(c, "countTeams", IF Cardinality(teams) >= MaxTeams THEN "idle" ELSE "insertTeam")
  /\ UNCHANGED <<phase, teams, player, host>>

InsertTeam(c, t) ==
  /\ t \notin teams
  /\ Step(c, "insertTeam", "idle")
  /\ teams' = teams \cup {t}
  /\ UNCHANGED <<phase, player, host>>

\* Slip: a schema without the foreign key on players.team_id.
JoinAnyTeam(p, t) ==
  /\ player[p] # Absent
  /\ player' = [player EXCEPT ![p] = t]
  /\ UNCHANGED <<phase, teams, pc, host>>

\* JoinTeam is one UPDATE; the foreign key wants a stored team.
JoinTeam(p, t) ==
  /\ t \in teams
  /\ player[p] # Absent
  /\ player' = [player EXCEPT ![p] = t]
  /\ UNCHANGED <<phase, teams, pc, host>>

\* The guide removes a player.
KickPlayer(p) ==
  /\ player[p] # Absent
  /\ player' = [player EXCEPT ![p] = Absent]
  /\ UNCHANGED <<phase, teams, pc, host>>

\* Slip: one team is enough.
StartGameAlone ==
  /\ host = "idle"
  /\ phase = "waiting"
  /\ Cardinality(teams) >= 1
  /\ host' = "start"
  /\ UNCHANGED <<phase, teams, player, pc>>

\* StartGame: the load, with the checks of phase and teams, then StartRound.
StartGame ==
  /\ host = "idle"
  /\ phase = "waiting"
  /\ Cardinality(teams) >= 2
  /\ host' = "start"
  /\ UNCHANGED <<phase, teams, player, pc>>

StartRound ==
  /\ host = "start"
  /\ host' = "idle"
  /\ phase' = "playing"
  /\ UNCHANGED <<teams, player, pc>>

\* A statement of the request fails and it is answered with an error.
StoreError(c) ==
  /\ pc[c] # "idle"
  /\ pc' = [pc EXCEPT ![c] = "idle"]
  /\ UNCHANGED <<phase, teams, player, host>>

Next ==
  \/ \E c \in Streams : JoinSession(c) \/ CountPlayers(c) \/ CreateTeam(c) \/ CountTeams(c) \/ StoreError(c)
  \/ \E c \in Streams, p \in PlayerIds : CreatePlayer(c, p)
  \/ \E c \in Streams, t \in TeamIds : InsertTeam(c, t)
  \/ \E p \in PlayerIds, t \in TeamIds : JoinTeam(p, t)
  \/ \E p \in PlayerIds : KickPlayer(p)
  \/ StartGame \/ StartRound

Spec == Init /\ [][Next]_vars

-----------------------------------------------------------------------------
(* What the limits are worth                                               *)

\* The shape of the rows: a player's team is one that is stored.
TypeOK ==
  /\ phase \in {"waiting", "playing"}
  /\ teams \subseteq TeamIds
  /\ player \in [PlayerIds -> teams \cup {NoTeam, Absent}]
  /\ pc \in [Streams -> {"idle", "countPlayers", "insertPlayer", "countTeams", "insertTeam"}]
  /\ host \in {"idle", "start"}

Joining == {c \in Streams : pc[c] = "insertPlayer"}
Creating == {c \in Streams : pc[c] = "insertTeam"}

\* Rows and the requests about to insert one fit together: a request that saw room
\* was one of at most all the streams.
SeatsOK ==
  /\ Cardinality(players) + Cardinality(Joining) < MaxPlayers + Cardinality(Streams)
  /\ Cardinality(teams) + Cardinality(Creating) < MaxTeams + Cardinality(Streams)

\* The limit on teams is overshot by at most the requests racing with the one that
\* reached it, however long the room stays open.
TeamsBounded == Cardinality(teams) < MaxTeams + Cardinality(Streams)

\* The same of the limit on players, kicks and rejoins included.
PlayersBounded == Cardinality(players) < MaxPlayers + Cardinality(Streams)

\* However requests race, teams are added one by one and never taken away, and the game
\* starts once, when it has two: what StartGame counted is still true when it writes.
Room ==
  INSTANCE RoomProtocol WITH Limit <- MaxTeams + Cardinality(Streams) - 1, Needed <- 2,
                             teams <- Cardinality(teams)
ImplementsRoom == Room!Spec

-----------------------------------------------------------------------------
(* What comments and documentation say, and the code does not do           *)

\* session.go:156, "up to a maximum of four".
TeamsWithinMax == Cardinality(teams) <= MaxTeams

\* session.go:126, "game is full (max 8 players)".
PlayersWithinMax == Cardinality(players) <= MaxPlayers

\* session.go:104, "registers a new player in a waiting session".
JoinersFindItWaiting ==
  [][\A p \in PlayerIds : player[p] = Absent /\ player'[p] # Absent => phase = "waiting"]_vars

\* README.md:62, "players join by code (2-4 teams, 2-8 players)": a game that starts
\* has at least two players.
StartsWithPlayers == [][phase # phase' => Cardinality(players) >= 2]_vars

=============================================================================
