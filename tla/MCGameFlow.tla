----------------------------- MODULE MCGameFlow -----------------------------
(***************************************************************************)
(* Small instances of GameFlow.                                            *)
(***************************************************************************)
EXTENDS GameFlow, TLC

CONSTANTS s1, s2, t1, t2, t3, t4, p1, p2, p3, h1, h2, h3, h4

\* Every session is multiplayer, or one is solo and the other the demo.
AllMulti == [s \in Sessions |-> "multi"]
SoloAndDemo == [s \in Sessions |-> IF s = s1 THEN "solo" ELSE "demo"]

\* One session owns everything, or s2 owns t3, t4, p3, h3 and h4.
OneSession == [x \in Teams \cup Players \cup Hosts |-> s1]
TwoSessions ==
  [x \in Teams \cup Players \cup Hosts |-> IF x \in {t3, t4, p3, h3, h4} THEN s2 ELSE s1]

\* Who plays for whom: p1 and p3 against p2; p1 and p2 together; p3 without a team.
Rivals == [p \in Players |-> CASE p = p2 -> t2 [] p = p3 /\ t3 \in Teams -> t3 [] OTHER -> t1]
Mates == [p \in Players |-> t1]
Spectated == [p \in Players |-> CASE p = p1 -> t1 [] p = p2 -> t2 [] p = p3 -> NoTeam]

\* Players of one team, and hosts of one session, with nothing but their names to tell
\* them apart.
Teammates == Permutations({p1, p2}) \cup Permutations({h1, h2})
Tabs == Permutations({h1, h2}) \cup Permutations({h3, h4})

\* No action reads wire or the history: a run keeps the history its properties read,
\* and states that differ in the rest only are one.
RowsAndRequests == <<session, routes, teamOf, present, pc, loc, sweep, tickerUp, faults>>
RowsAndStarts == <<RowsAndRequests, reached, outrun>>
RowsAndEnds == <<RowsAndStarts, flips>>
RowsAndRoutes == <<RowsAndRequests, carried>>

=============================================================================
