----------------------------- MODULE MCScreens -----------------------------
(***************************************************************************)
(* Small instances of Screens.                                             *)
(***************************************************************************)
EXTENDS Screens

\* The guide has more screens to go to: one press in flight, and two of a player.
Requests == [u \in Users |-> IF u = "guide" THEN 1 ELSE 2]

=============================================================================
