---------------------------- MODULE RoomProtocol -----------------------------
(***************************************************************************)
(* What the server promises about a waiting room, with no requests in      *)
(* sight: teams come one at a time and stay, up to a limit, and the game   *)
(* starts once, when it has the teams it needs.  Lobby, the handlers of    *)
(* session.go at the granularity of their database calls, implements it,   *)
(* and the games that Screens presumes follow it.                          *)
(***************************************************************************)
EXTENDS Naturals

CONSTANTS Limit,   \* of the teams of a game
          Needed   \* the teams a game starts with at least

VARIABLES teams,   \* how many there are
          phase    \* "waiting" until the game starts, "playing" after

Init == teams = 0 /\ phase = "waiting"

\* Also in a game that has started: CreateTeam does not look at the phase.
AddTeam ==
  /\ teams < Limit
  /\ teams' = teams + 1
  /\ UNCHANGED phase

Start ==
  /\ phase = "waiting" /\ teams >= Needed
  /\ phase' = "playing"
  /\ UNCHANGED teams

Next == AddTeam \/ Start

Spec == Init /\ [][Next]_<<teams, phase>>

=============================================================================
