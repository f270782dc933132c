------------------------------- MODULE MCHub --------------------------------
(***************************************************************************)
(* Small instances of Hub: one player who reconnects, or two teammates.     *)
(***************************************************************************)
EXTENDS Hub

CONSTANTS ann, ben

Reconnecting == [c \in Conns |-> ann]
Teammates == [c \in Conns |-> IF c = 2 THEN ben ELSE ann]
OneTeam == [c \in Conns |-> 1]

=============================================================================
