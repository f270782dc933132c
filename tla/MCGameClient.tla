---------------------------- MODULE MCGameClient ----------------------------
(***************************************************************************)
(* Small instances of GameClient.                                          *)
(***************************************************************************)
EXTENDS GameClient

\* The guide's tab has more to ask for: it asks one thing at a time, the others two.
Requests == [r \in Roles |-> IF r = "guide" THEN 1 ELSE 2]

=============================================================================
