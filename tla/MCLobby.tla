------------------------------ MODULE MCLobby -------------------------------
(***************************************************************************)
(* Small instances of Lobby: limits of two where the code has four and     *)
(* eight, and requests, teams and players that are interchangeable.        *)
(***************************************************************************)
EXTENDS Lobby, TLC

Interchangeable == Permutations(Streams) \cup Permutations(TeamIds) \cup Permutations(PlayerIds)

=============================================================================
