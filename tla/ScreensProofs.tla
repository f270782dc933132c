----------------------------- MODULE ScreensProofs ---------------------------
(***************************************************************************)
(* The browser for any number of games, players, sign-ins, requests and    *)
(* breaks: it agrees with the server on the player's team, shows a room to *)
(* a player of another game only in the ways listed, and starts no game    *)
(* that is not ready.                                                      *)
(***************************************************************************)
EXTENDS Screens, FiniteSetTheorems, TLAPS

Uis == [loaded : BOOLEAN, starting : BOOLEAN, view : View, found : 0 .. MaxGames]
Places == [name : Pages, game : 0 .. MaxGames]

\* What the server keeps and what the browser keeps from game to game.
StoreOK ==
  /\ user \in Users
  /\ games \in Seq(Game) /\ Len(games) <= MaxGames
  /\ rows \in Seq(PlayerRow) /\ Len(rows) <= MaxPlayers
  /\ rounds \in BOOLEAN
  /\ issued \in 0 .. MaxTokens /\ expired \in 0 .. issued
  /\ token \in 0 .. issued
  /\ me \in Identity /\ me.id <= Len(rows)
  /\ foreign \in BOOLEAN /\ crossed \in BOOLEAN

\* The screen is a record, and a room is one of a game.
ScreenOK ==
  /\ ui \in Uis /\ ui.found <= Len(games)
  /\ page \in Places /\ page.game <= Len(games)
  /\ page.name \in Rooms => page.game # 0
  /\ news \in BOOLEAN /\ (news => page.name = "lobby")

\* There are no more requests than a screen or a user asks for.
NetOK ==
  /\ net \subseteq Request
  /\ IsFiniteSet(net) /\ Cardinality(net) <= MaxRequests[user] + 1
  /\ \A q \in net : q.game <= Len(games) /\ q.me.id <= Len(rows) /\ q.auth <= issued

\* The ops that are asked in a room, and those that are about a game.
RoomOps == {"session", "createTeam", "joinTeam", "joinHere", "start"}
GameOps == RoomOps \cup {"lookup", "join", "soloStart"}
\* The ops whose answer brings a new player, and such an answer.
PlayerOps == {"join", "joinHere", "solo", "demo"}
Done(q) == q.at = "back" /\ q.answer = "ok"
Brings(q) == q.op \in PlayerOps /\ Done(q)
Picks(q, p) == q.op = "joinTeam" /\ q.me.id = p

\* A request names a game when it has one, and belongs to the screen while that is shown.
RequestsOK ==
  \A q \in net :
    /\ q.at # "back" => q.answer = "ok"
    /\ q.at = "lost" => ~q.live
    /\ q.op \in GameOps => q.game # 0
    /\ (q.op \in PlayerOps \cup {"create"} /\ Done(q)) => q.game # 0
    /\ q.live /\ q.op \in RoomOps => page = [name |-> "lobby", game |-> q.game]
    /\ q.live /\ q.op = "solo" => page.name \notin Rooms

\* Teams are only added: what was seen of a room is never ahead of it.
ViewsOK ==
  /\ page.name = "lobby" => ui.view.teams <= games[page.game].teams
  /\ \A q \in net : /\ q.op = "session" /\ q.at = "back" => q.view.teams <= games[q.game].teams
                    /\ q.op = "start" => games[q.game].teams >= 2

\* A new player is known to nobody before the answer that brings it.
PlayersOK ==
  \A q \in net : Brings(q) =>
    /\ q.me.id # 0 /\ q.me.id # me.id
    /\ rows[q.me.id].game = q.game /\ rows[q.me.id].team = q.me.team
    /\ \A p \in net : ~Picks(p, q.me.id) /\ (Brings(p) /\ p # q => p.me.id # q.me.id)

\* A player has one team choice under way at most, unless two overlapped.
ChoicesOK ==
  \A q \in net : q.op = "joinTeam" =>
    /\ q.me.id # 0 /\ q.answer = "ok"
    /\ q.at = "lost" => crossed
    /\ q.live => foreign \/ rows[q.me.id].game = page.game
    /\ ~crossed => /\ q.at = "back" => rows[q.me.id].team = q.team
                   /\ \A p \in net : Picks(p, q.me.id) => p = q

\* The player's team is the server's until an answer brings another.
TeamOK ==
  (me.id # 0 /\ ~crossed /\ ~\E q \in net : Picks(q, me.id) /\ q.at = "back") =>
    me.team = rows[me.id].team

Known == StoreOK /\ ScreenOK /\ NetOK
BrowserInv ==
  Known /\ RequestsOK /\ ViewsOK /\ PlayersOK /\ ChoicesOK /\ TeamOK /\ IdentityFollows

-----------------------------------------------------------------------------
(* Requests                                                                *)

\* Whose browser it is does not change, nor does what a request may be.
LEMMA SameRequest == user' = user => Request' = Request
BY DEF Request, Ids

\* A game of the list is a game, and a player a player.
LEMMA GameShape ==
  ASSUME StoreOK, NEW g \in 1 .. Len(games)
  PROVE  games[g] \in Game /\ games[g].teams \in Nat
<1>1. games \in Seq(Game)
  BY DEF StoreOK
<1>2. games[g] \in Game
  BY <1>1
<1> QED
  BY <1>2, BoundAssumption DEF Game

LEMMA PlayerShape ==
  ASSUME StoreOK, NEW p \in 1 .. Len(rows)
  PROVE  rows[p] \in PlayerRow
<1>1. rows \in Seq(PlayerRow)
  BY DEF StoreOK
<1> QED
  BY <1>1

\* A user asks for something.
LEMMA Bound == user \in Users => MaxRequests[user] \in Nat \ {0}
BY BoundAssumption

\* An id is free as long as there are no more requests than MaxRequests.
LEMMA FreeIdShape ==
  ASSUME user \in Users, NEW requests, IsFiniteSet(requests),
         Cardinality(requests) <= MaxRequests[user], NEW op
  PROVE  /\ FreeId(requests, op) \in Ids
         /\ \A q \in requests : q.op = op => q.id # FreeId(requests, op)
<1>1. ASSUME \A i \in Ids : \E q \in requests : q.op = op /\ q.id = i PROVE FALSE
  <2> DEFINE f == [i \in Ids |-> CHOOSE q \in requests : q.op = op /\ q.id = i]
  <2>1. \A i \in Ids : f[i] \in requests /\ f[i].id = i
    BY <1>1
  <2>2. f \in [Ids -> requests]
    BY <2>1
  <2>3. IsFiniteSet(Ids) /\ Cardinality(Ids) = MaxRequests[user] + 1
    BY Bound, FS_Interval DEF Ids
  <2>4. Cardinality(requests) \in Nat
    BY FS_CardinalityType
  <2>5. Cardinality(requests) < Cardinality(Ids)
    BY <2>3, <2>4, Bound
  <2> HIDE DEF f
  <2>6. \E x, y \in Ids : x # y /\ f[x] = f[y]
    BY <2>2, <2>3, <2>5, FS_PigeonHole
  <2> QED
    BY <2>1, <2>6
<1>2. PICK i \in Ids : \A q \in requests : q.op = op => q.id # i
  BY <1>1
<1> QED
  BY <1>2 DEF FreeId

\* One more request finds an id.
HasRoom(requests) ==
  user \in Users /\ IsFiniteSet(requests) /\ Cardinality(requests) <= MaxRequests[user]

\* A request is well formed, is about what it was asked for, and brings nothing yet.
LEMMA AskShape ==
  ASSUME NEW requests, HasRoom(requests),
         NEW op \in Ops, NEW game \in 0 .. MaxGames, NEW tok \in 0 .. MaxTokens
  PROVE  /\ Ask(requests, op, game, tok) \in Request
         /\ Ask(requests, op, game, tok).op = op
         /\ Ask(requests, op, game, tok).game = game
         /\ Ask(requests, op, game, tok).at = "sent"
         /\ Ask(requests, op, game, tok).answer = "ok"
         /\ Ask(requests, op, game, tok).me = Nobody
         /\ Ask(requests, op, game, tok).auth <= tok
<1>1. FreeId(requests, op) \in Ids
  BY FreeIdShape DEF HasRoom
<1>2. NoTeam \in Team /\ Nobody \in Identity /\ NoView \in View
  BY BoundAssumption DEF NoTeam, Team, Nobody, Identity, NoView, View
<1> HIDE DEF Ids
<1> QED
  BY <1>1, <1>2, BoundAssumption DEF Ask, Request

\* Adding a request.
LEMMA Adding ==
  ASSUME NEW S, IsFiniteSet(S), NEW n \in Nat, Cardinality(S) <= n, NEW a
  PROVE  IsFiniteSet(S \cup {a}) /\ Cardinality(S \cup {a}) <= n + 1
<1>1. Cardinality(S) \in Nat
  BY FS_CardinalityType
<1>2. /\ IsFiniteSet(S \cup {a})
      /\ Cardinality(S \cup {a}) = IF a \in S THEN Cardinality(S) ELSE Cardinality(S) + 1
  BY FS_AddElement
<1> QED
  BY <1>1, <1>2

\* Taking one away.
LEMMA Taking ==
  ASSUME NEW S, IsFiniteSet(S), NEW n \in Nat, Cardinality(S) <= n + 1, NEW q \in S
  PROVE  IsFiniteSet(S \ {q}) /\ Cardinality(S \ {q}) <= n
<1>1. Cardinality(S) \in Nat
  BY FS_CardinalityType
<1>2. /\ IsFiniteSet(S \ {q})
      /\ Cardinality(S \ {q}) = IF q \in S THEN Cardinality(S) - 1 ELSE Cardinality(S)
  BY FS_RemoveElement
<1> QED
  BY <1>1, <1>2

\* Leaving a screen leaves no more requests than there were.
Behind(requests) ==
  {[q EXCEPT !.live = FALSE] : q \in {r \in requests : r.op \notin {"session", "lookup"}}}

LEMMA BehindShape ==
  ASSUME NEW requests, requests \subseteq Request, IsFiniteSet(requests)
  PROVE  /\ Behind(requests) \subseteq Request /\ IsFiniteSet(Behind(requests))
         /\ Cardinality(Behind(requests)) <= Cardinality(requests)
<1> DEFINE S == {r \in requests : r.op \notin {"session", "lookup"}}
           f == [q \in S |-> [q EXCEPT !.live = FALSE]]
<1>1. IsFiniteSet(S) /\ Cardinality(S) <= Cardinality(requests)
  BY FS_Subset
<1>2. f \in Surjection(S, Behind(requests))
  BY DEF Surjection, Behind
<1>3. IsFiniteSet(Behind(requests)) /\ Cardinality(Behind(requests)) <= Cardinality(S)
  BY <1>1, <1>2, FS_Surjection
<1>4. Behind(requests) \subseteq Request
  BY DEF Behind, Request
<1>5. Cardinality(S) \in Nat /\ Cardinality(requests) \in Nat /\ Cardinality(Behind(requests)) \in Nat
  BY <1>1, <1>3, FS_CardinalityType
<1> QED
  BY <1>1, <1>3, <1>4, <1>5

-----------------------------------------------------------------------------
(* From screen to screen                                                   *)

\* What is said of the requests on their own.
CarriedOK(requests) ==
  /\ requests \subseteq Request
  /\ IsFiniteSet(requests) /\ Cardinality(requests) <= MaxRequests[user] + 1
  /\ \A q \in requests :
       /\ q.game <= Len(games) /\ q.me.id <= Len(rows) /\ q.auth <= issued
       /\ q.at # "back" => q.answer = "ok"
       /\ q.op \in GameOps => q.game # 0
       /\ (q.op \in PlayerOps \cup {"create"} /\ Done(q)) => q.game # 0
       /\ q.op = "start" => games[q.game].teams >= 2

\* So it is of those of a browser that is well, with or without one that was answered.
LEMMA CarriedShape ==
  ASSUME NetOK, RequestsOK, ViewsOK, StoreOK
  PROVE  /\ CarriedOK(net)
         /\ \A q \in net : /\ CarriedOK(net \ {q})
                           /\ Cardinality(net \ {q}) <= MaxRequests[user]
<1>1. CarriedOK(net)
  BY DEF NetOK, RequestsOK, ViewsOK, CarriedOK
<1>3. ASSUME NEW q \in net
      PROVE  CarriedOK(net \ {q}) /\ Cardinality(net \ {q}) <= MaxRequests[user]
  <2>1. MaxRequests[user] \in Nat
    BY Bound DEF StoreOK
  <2>2. IsFiniteSet(net \ {q}) /\ Cardinality(net \ {q}) <= MaxRequests[user]
    BY <2>1, Taking DEF NetOK
  <2>3. Cardinality(net \ {q}) \in Nat
    BY <2>2, FS_CardinalityType
  <2> QED
    BY <1>1, <2>1, <2>2, <2>3 DEF CarriedOK
<1> QED
  BY <1>1, <1>3

\* The next screen begins well, and what was asked before no longer belongs to one.
LEMMA ShowKeeps ==
  ASSUME StoreOK, StoreOK', UNCHANGED server,
         NEW requests, CarriedOK(requests),
         NEW name \in Pages, NEW game \in 0 .. Len(games), name \in Rooms => game # 0,
         Show(name, game, requests)
  PROVE  /\ ScreenOK' /\ NetOK' /\ RequestsOK' /\ ViewsOK'
         /\ page'.name \in Rooms => name \in Rooms /\ page'.game = game
         /\ \A q \in net' :
              \/ q.op \in {"maps", "session"}
              \/ ~q.live /\ \E p \in requests : q = [p EXCEPT !.live = FALSE]
<1>0. PICK tok : tok = token'
  OBVIOUS
<1> DEFINE shown == Route(name, tok)
           left == Behind(requests)
<1>1. /\ page' = [name |-> shown, game |-> IF shown \in Rooms THEN game ELSE 0]
      /\ ui' = Fresh /\ news' = FALSE
      /\ Mounts(shown) # {} => Cardinality(left) <= MaxRequests[user]
      /\ net' = left \cup {Ask(left, op, game, tok) : op \in Mounts(shown)}
  BY <1>0 DEF Show, Behind
<1>2. shown \in Pages /\ (shown \in Rooms => name \in Rooms)
  BY DEF Route, Pages, GuidePages, Rooms
<1>3. UNCHANGED <<user, games, rows, rounds, issued, expired>>
  BY DEF server
<1>4. /\ left \subseteq Request /\ IsFiniteSet(left)
      /\ Cardinality(left) \in Nat /\ Cardinality(left) <= MaxRequests[user] + 1
  <2>1. requests \subseteq Request /\ IsFiniteSet(requests)
        /\ Cardinality(requests) <= MaxRequests[user] + 1
    BY DEF CarriedOK
  <2>2. left \subseteq Request /\ IsFiniteSet(left) /\ Cardinality(left) <= Cardinality(requests)
    BY <2>1, BehindShape
  <2>3. Cardinality(requests) \in Nat /\ Cardinality(left) \in Nat /\ MaxRequests[user] \in Nat
    BY <2>1, <2>2, FS_CardinalityType, Bound DEF StoreOK
  <2> QED
    BY <2>1, <2>2, <2>3
<1>5. game \in 0 .. MaxGames /\ tok \in 0 .. issued /\ tok \in 0 .. MaxTokens
      /\ user \in Users
  BY <1>0, <1>3, BoundAssumption DEF StoreOK
<1> HIDE DEF left, shown
<1>6. ScreenOK'
  <2>1. Fresh \in Uis /\ Fresh.found = 0
    BY BoundAssumption DEF Fresh, Uis, NoView, View
  <2>3. Len(games) \in Nat
    BY DEF StoreOK
  <2>2. page' \in Places /\ page'.game <= Len(games) /\ (page'.name \in Rooms => page'.game # 0)
    BY <1>1, <1>2, <1>5, <2>3, BoundAssumption DEF Places
  <2>4. ui' \in Uis /\ ui'.found <= Len(games) /\ news' = FALSE
    BY <1>1, <2>1, <2>3
  <2> QED
    BY <1>3, <2>2, <2>4 DEF ScreenOK
<1>7. ASSUME NEW q \in left
      PROVE  \E p \in requests : /\ p.op \notin {"session", "lookup"}
                                 /\ q = [p EXCEPT !.live = FALSE]
                                 /\ q.live = FALSE /\ q.op = p.op /\ q.at = p.at
                                 /\ q.answer = p.answer /\ q.game = p.game /\ q.me = p.me
                                 /\ q.auth = p.auth
  BY <1>7 DEF left, Behind, CarriedOK, Request
<1>8. ASSUME NEW op \in Mounts(shown)
      PROVE  /\ Mounts(shown) = {op} /\ op \in {"maps", "session"}
             /\ op = "session" => shown = "lobby"
             /\ Ask(left, op, game, tok) \in Request
             /\ Ask(left, op, game, tok).op = op
             /\ Ask(left, op, game, tok).at = "sent"
             /\ Ask(left, op, game, tok).answer = "ok"
             /\ Ask(left, op, game, tok).game = game
             /\ Ask(left, op, game, tok).me.id = 0
             /\ Ask(left, op, game, tok).auth <= tok
  <2>1. Mounts(shown) = {op} /\ op \in {"maps", "session"} /\ (op = "session" => shown = "lobby")
    BY <1>8, <1>2 DEF Mounts, GuidePages
  <2>2. Cardinality(left) <= MaxRequests[user] /\ op \in Ops
    BY <1>1, <2>1 DEF Ops
  <2> DEFINE a == Ask(left, op, game, tok)
  <2>3. /\ a \in Request /\ a.op = op /\ a.game = game /\ a.at = "sent" /\ a.answer = "ok"
        /\ a.me = Nobody /\ a.auth <= tok
    <3> HIDE DEF a
    <3>1. IsFiniteSet(left) /\ user \in Users
      BY <1>4, <1>5
    <3>2. op \in Ops /\ game \in 0 .. MaxGames /\ tok \in 0 .. MaxTokens
      BY <1>5, <2>2
    <3>3. HasRoom(left)
      BY <2>2, <3>1 DEF HasRoom
    <3>4. /\ Ask(left, op, game, tok) \in Request /\ Ask(left, op, game, tok).op = op
          /\ Ask(left, op, game, tok).game = game /\ Ask(left, op, game, tok).at = "sent"
          /\ Ask(left, op, game, tok).answer = "ok" /\ Ask(left, op, game, tok).me = Nobody
          /\ Ask(left, op, game, tok).auth <= tok
      BY <3>1, <3>2, <3>3, AskShape
    <3> QED
      BY <3>4 DEF a
  <2>4. Nobody.id = 0
    BY DEF Nobody
  <2> QED
    BY <2>1, <2>3, <2>4
<1>9. ASSUME NEW q \in left
      PROVE  /\ q.live = FALSE /\ q.op \notin {"session", "lookup"}
             /\ q \in Request
             /\ q.game <= Len(games) /\ q.me.id <= Len(rows) /\ q.auth <= issued
             /\ q.at # "back" => q.answer = "ok"
             /\ q.op \in GameOps => q.game # 0
             /\ (q.op \in PlayerOps \cup {"create"} /\ Done(q)) => q.game # 0
             /\ q.op = "start" => games[q.game].teams >= 2
  <2>1. PICK p \in requests : /\ p.op \notin {"session", "lookup"}
                              /\ q = [p EXCEPT !.live = FALSE]
                              /\ q.live = FALSE /\ q.op = p.op /\ q.at = p.at
                              /\ q.answer = p.answer /\ q.game = p.game /\ q.me = p.me
                              /\ q.auth = p.auth
    BY <1>7, <1>9
  <2>2. q \in Request
    BY <1>4, <1>9
  <2>3. /\ p.game <= Len(games) /\ p.me.id <= Len(rows) /\ p.auth <= issued
        /\ p.at # "back" => p.answer = "ok"
        /\ p.op \in GameOps => p.game # 0
        /\ (p.op \in PlayerOps \cup {"create"} /\ Done(p)) => p.game # 0
        /\ p.op = "start" => games[p.game].teams >= 2
    BY DEF CarriedOK
  <2> QED
    BY <2>1, <2>2, <2>3 DEF Done
<1>10. ASSUME NEW q \in net', q \notin left
       PROVE  /\ q \in Request /\ q.op \in {"maps", "session"} /\ q.at = "sent" /\ q.answer = "ok"
              /\ q.game = game /\ q.me.id = 0 /\ q.auth <= tok
              /\ q.op = "session" => shown = "lobby"
  BY <1>1, <1>8, <1>10
<1>11. NetOK'
  <2>1. IsFiniteSet(net') /\ Cardinality(net') <= MaxRequests[user] + 1
    <3>1. CASE Mounts(shown) = {}
      BY <1>1, <1>4, <3>1
    <3>2. CASE Mounts(shown) # {}
      <4>1. PICK op \in Mounts(shown) : TRUE
        BY <3>2
      <4>2. net' = left \cup {Ask(left, op, game, tok)}
        BY <1>1, <1>8
      <4>3. MaxRequests[user] \in Nat /\ Cardinality(left) <= MaxRequests[user]
        BY <1>1, <1>5, <3>2, Bound
      <4> QED
        BY <1>4, <4>2, <4>3, Adding
    <3> QED
      BY <3>1, <3>2
  <2>2. ASSUME NEW q \in net'
        PROVE  q \in Request /\ q.game <= Len(games) /\ q.me.id <= Len(rows) /\ q.auth <= issued
    <3>1. CASE q \in left
      BY <1>9, <3>1
    <3>2. CASE q \notin left
      <4>1. q.auth \in Nat /\ issued \in Nat /\ Len(rows) \in Nat /\ Len(games) \in Nat
        BY <1>10, <3>2, BoundAssumption DEF StoreOK, Request
      <4> QED
        BY <1>5, <1>10, <3>2, <4>1
    <3> QED
      BY <3>1, <3>2
  <2> QED
    BY <1>3, <2>1, <2>2, SameRequest DEF NetOK
<1>12. RequestsOK'
  <2> SUFFICES ASSUME NEW q \in net'
               PROVE  /\ q.at # "back" => q.answer = "ok"
                      /\ q.at = "lost" => ~q.live
                      /\ q.op \in GameOps => q.game # 0
                      /\ (q.op \in PlayerOps \cup {"create"} /\ Done(q)) => q.game # 0
                      /\ q.live /\ q.op \in RoomOps =>
                            page' = [name |-> "lobby", game |-> q.game]
                      /\ q.live /\ q.op = "solo" => page'.name \notin Rooms
    BY DEF RequestsOK
  <2>1. CASE q \in left
    BY <1>9, <2>1
  <2>2. CASE q \notin left
    <3>1. q.op = "session" => page' = [name |-> "lobby", game |-> q.game] /\ q.game # 0
      BY <1>1, <1>2, <1>10, <2>2 DEF Rooms
    <3> QED
      BY <1>10, <2>2, <3>1 DEF Done, GameOps, RoomOps, PlayerOps
  <2> QED
    BY <2>1, <2>2
<1>13. ViewsOK'
  <2>1. page'.name = "lobby" => ui'.view.teams <= games[page'.game].teams
    <3>1. ui'.view.teams = 0
      BY <1>1 DEF Fresh, NoView
    <3>2. page'.name = "lobby" => page'.game \in 1 .. Len(games)
      BY <1>1, <1>2 DEF Rooms
    <3>3. ASSUME NEW g \in 1 .. Len(games) PROVE games[g].teams \in Nat
      BY GameShape
    <3> QED
      BY <3>1, <3>2, <3>3
  <2>2. ASSUME NEW q \in net'
        PROVE  /\ q.op = "session" /\ q.at = "back" => q.view.teams <= games[q.game].teams
               /\ q.op = "start" => games[q.game].teams >= 2
    BY <1>9, <1>10, <2>2
  <2> QED
    BY <1>3, <2>1, <2>2 DEF ViewsOK
<1>14. ASSUME NEW q \in net'
       PROVE  \/ q.op \in {"maps", "session"}
              \/ ~q.live /\ \E p \in requests : q = [p EXCEPT !.live = FALSE]
  BY <1>7, <1>10, <1>14
<1>15. page'.name \in Rooms => name \in Rooms /\ page'.game = game
  BY <1>1, <1>2
<1> QED
  BY <1>6, <1>11, <1>12, <1>13, <1>14, <1>15

\* What is asked for goes on, but nobody waits for an answer.
Adrift(p, o) == o.at # "back" /\ p = [o EXCEPT !.at = "lost", !.live = FALSE]

LEMMA AdriftShape ==
  ASSUME NEW o \in Request, NEW p, Adrift(p, o)
  PROVE  /\ p \in Request /\ p.at = "lost" /\ p.live = FALSE /\ p.op = o.op /\ p.id = o.id
         /\ p.answer = o.answer /\ p.game = o.game /\ p.me = o.me /\ p.team = o.team
         /\ p.auth = o.auth /\ p.view = o.view
<1> DEFINE c == [o EXCEPT !.at = "lost"]
           d == [c EXCEPT !.live = FALSE]
<1>1. p = d
  BY DEF Adrift
<1>2. /\ c \in Request /\ c.at = "lost" /\ c.op = o.op /\ c.id = o.id
      /\ c.answer = o.answer /\ c.game = o.game /\ c.me = o.me /\ c.team = o.team
      /\ c.auth = o.auth /\ c.view = o.view
  BY DEF Request
<1> HIDE DEF c
<1>3. /\ d \in Request /\ d.at = c.at /\ d.live = FALSE /\ d.op = c.op /\ d.id = c.id
      /\ d.answer = c.answer /\ d.game = c.game /\ d.me = c.me /\ d.team = c.team
      /\ d.auth = c.auth /\ d.view = c.view
  BY <1>2 DEF Request
<1> QED
  BY <1>1, <1>2, <1>3

\* A step to another screen keeps everything, whoever the player is from then on.
LEMMA ScreenChanges ==
  ASSUME BrowserInv, StoreOK', UNCHANGED server, IdentityFollows',
         NEW requests, CarriedOK(requests),
         \A p \in requests : p \in net \/ (\E o \in net : Adrift(p, o)),
         \A q \in (net \ requests) \cup (requests \ net) : q.op = "joinTeam" => crossed',
         ~crossed' => ~crossed,
         \/ me' = me
         \/ \E q \in net \ requests : Brings(q) /\ me' = q.me,
         NEW name \in Pages, NEW game \in 0 .. Len(games), name \in Rooms => game # 0,
         Show(name, game, requests)
  PROVE  BrowserInv'
<1> USE DEF BrowserInv, Known
<1>1. ScreenOK' /\ NetOK' /\ RequestsOK' /\ ViewsOK'
  BY ShowKeeps
<1>2. \A q \in net' : \/ q.op \in {"maps", "session"}
                      \/ ~q.live /\ \E p \in requests : q = [p EXCEPT !.live = FALSE]
  BY ShowKeeps
<1>3. ASSUME NEW q \in net', q.op \notin {"maps", "session"}
      PROVE  ~q.live /\ \E p \in requests :
               /\ q = [p EXCEPT !.live = FALSE]
               /\ q.op = p.op /\ q.at = p.at /\ q.answer = p.answer /\ q.game = p.game
               /\ q.me = p.me /\ q.team = p.team
  BY <1>2, <1>3 DEF CarriedOK, Request
<1>4. UNCHANGED <<user, games, rows, rounds, issued, expired>>
  BY DEF server
<1>8. ASSUME NEW p \in requests
      PROVE  \E o \in net : /\ p.op = o.op /\ p.me = o.me /\ p.answer = o.answer
                            /\ p \in net => p = o
                            /\ p \notin net => p.at = "lost"
  <2>1. CASE p \in net
    BY <2>1
  <2>2. CASE p \notin net
    <3>1. PICK o \in net : Adrift(p, o)
      BY <2>2
    <3>2. o \in Request
      BY DEF NetOK
    <3> QED
      BY <2>2, <3>1, <3>2, AdriftShape
  <2> QED
    BY <2>1, <2>2
<1>5. PlayersOK'
  <2> SUFFICES ASSUME NEW q \in net', Brings(q)
               PROVE  /\ q.me.id # 0 /\ q.me.id # me'.id
                      /\ rows[q.me.id].game = q.game /\ rows[q.me.id].team = q.me.team
                      /\ \A a \in net' : /\ ~Picks(a, q.me.id)
                                         /\ Brings(a) /\ a # q => a.me.id # q.me.id
    BY <1>4 DEF PlayersOK
  <2>1. PICK p \in requests : /\ q = [p EXCEPT !.live = FALSE]
                              /\ q.op = p.op /\ q.at = p.at /\ q.answer = p.answer
                              /\ q.game = p.game /\ q.me = p.me
    BY <1>3 DEF Brings, PlayerOps
  <2>2. p \in net /\ Brings(p)
    BY <1>8, <2>1 DEF Brings, Done
  <2>3. /\ p.me.id # 0 /\ p.me.id # me.id
        /\ rows[p.me.id].game = p.game /\ rows[p.me.id].team = p.me.team
        /\ \A a \in net : ~Picks(a, p.me.id) /\ (Brings(a) /\ a # p => a.me.id # p.me.id)
    BY <2>2 DEF PlayersOK
  <2>4. q.me.id # me'.id
    BY <2>1, <2>3
  <2>5. ASSUME NEW a \in net', Picks(a, q.me.id) \/ (Brings(a) /\ a # q)
        PROVE  ~Picks(a, q.me.id) /\ a.me.id # q.me.id
    <3>1. PICK o \in requests : /\ a = [o EXCEPT !.live = FALSE]
                                /\ a.op = o.op /\ a.at = o.at /\ a.answer = o.answer
                                /\ a.me = o.me
      BY <1>3, <2>5 DEF Brings, PlayerOps, Picks
    <3>2. PICK n \in net : /\ o.op = n.op /\ o.me = n.me /\ o.answer = n.answer
                           /\ o \in net => o = n
                           /\ o \notin net => o.at = "lost"
      BY <1>8
    <3>3. (Picks(a, q.me.id) => Picks(n, p.me.id)) /\ (Brings(a) => Brings(n) /\ n = o)
      BY <2>1, <3>1, <3>2 DEF Picks, Brings, Done
    <3>4. a # q => o # p
      BY <2>1, <3>1
    <3> QED
      BY <2>1, <2>3, <2>5, <3>1, <3>2, <3>3, <3>4
  <2> QED
    BY <2>1, <2>3, <2>4, <2>5
<1>6. ChoicesOK'
  <2> SUFFICES ASSUME NEW q \in net', q.op = "joinTeam"
               PROVE  /\ q.me.id # 0 /\ q.answer = "ok" /\ ~q.live
                      /\ q.at = "lost" => crossed'
                      /\ ~crossed' => /\ q.at = "back" => rows[q.me.id].team = q.team
                                      /\ \A a \in net' : Picks(a, q.me.id) => a = q
    BY <1>4 DEF ChoicesOK
  <2>1. ~q.live
    BY <1>3
  <2>2. PICK p \in requests : /\ q = [p EXCEPT !.live = FALSE]
                              /\ q.op = p.op /\ q.at = p.at /\ q.answer = p.answer
                              /\ q.me = p.me /\ q.team = p.team
    BY <1>3
  <2>3. /\ p.me.id # 0 /\ p.answer = "ok"
        /\ p.at = "lost" => crossed'
        /\ ~crossed' => /\ p.at = "back" => rows[p.me.id].team = p.team
                        /\ \A o \in net : Picks(o, p.me.id) => o = p
    <3>1. CASE p \in net
      BY <2>2, <3>1 DEF ChoicesOK
    <3>2. CASE p \notin net
      <4>1. crossed'
        BY <2>2, <3>2
      <4> QED
        BY <1>8, <2>2, <4>1 DEF ChoicesOK
    <3> QED
      BY <3>1, <3>2
  <2>4. ASSUME NEW a \in net', ~crossed', Picks(a, q.me.id) PROVE a = q
    <3>1. PICK o \in requests : a = [o EXCEPT !.live = FALSE] /\ a.op = o.op /\ a.me = o.me
      BY <1>3, <2>4 DEF Picks
    <3>2. o \in net /\ Picks(o, p.me.id)
      BY <2>2, <2>4, <3>1 DEF Picks
    <3> QED
      BY <2>2, <2>3, <2>4, <3>1, <3>2
  <2> QED
    BY <2>1, <2>2, <2>3, <2>4
<1>7. TeamOK'
  <2> SUFFICES ASSUME me'.id # 0, ~crossed', ~\E q \in net' : Picks(q, me'.id) /\ q.at = "back"
               PROVE  me'.team = rows[me'.id].team
    BY <1>4 DEF TeamOK
  <2>1. CASE me' = me
    <3>1. ASSUME NEW p \in net, Picks(p, me.id), p.at = "back" PROVE FALSE
      <4>1. p \in requests /\ p.op = "joinTeam"
        BY <3>1 DEF Picks
      <4>2. [p EXCEPT !.live = FALSE] \in net'
        BY <4>1 DEF Show
      <4>3. Picks([p EXCEPT !.live = FALSE], me'.id) /\ [p EXCEPT !.live = FALSE].at = "back"
        BY <2>1, <3>1, <4>1 DEF Picks, CarriedOK, Request
      <4> QED
        BY <4>2, <4>3
    <3> QED
      BY <2>1, <3>1 DEF TeamOK
  <2>2. CASE \E q \in net \ requests : Brings(q) /\ me' = q.me
    BY <2>2 DEF PlayersOK
  <2> QED
    BY <2>1, <2>2
<1> QED
  BY <1>1, <1>5, <1>6, <1>7

-----------------------------------------------------------------------------
(* What the user asks                                                      *)

\* A request as a user sends it from the screen it belongs to.
Asked(a) ==
  /\ a \in Request /\ a.at = "sent" /\ a.answer = "ok"
  /\ a.game <= Len(games) /\ a.me.id <= Len(rows) /\ a.auth <= issued
  /\ a.op \in GameOps => a.game # 0
  /\ a.op \in RoomOps => page = [name |-> "lobby", game |-> a.game]
  /\ a.op = "solo" => page.name \notin Rooms
  /\ a.op = "start" => games[a.game].teams >= 2
  /\ a.op = "joinTeam" => a.me = me /\ me.id # 0

\* One request more keeps everything, when a second team choice of a player is noted.
LEMMA AskKeeps ==
  ASSUME BrowserInv, UNCHANGED <<server, token, me, page, news, foreign>>,
         NEW a, Asked(a), net' = net \cup {a}, Cardinality(net) < MaxRequests[user],
         ui' \in Uis, ui'.found = ui.found, ui'.view = ui.view,
         crossed' \in BOOLEAN, ~crossed' => ~crossed,
         a.op = "joinTeam" /\ ~crossed' => \A q \in net : ~Picks(q, me.id)
  PROVE  BrowserInv'
<1>1. UNCHANGED <<user, games, rows, rounds, issued, expired>>
  BY DEF server
<1>2. Known'
  <2>1. StoreOK'
    BY <1>1 DEF BrowserInv, Known, StoreOK
  <2>2. ScreenOK'
    BY <1>1 DEF BrowserInv, Known, ScreenOK
  <2>3. IsFiniteSet(net') /\ Cardinality(net') <= MaxRequests[user] + 1
    <3>1. IsFiniteSet(net) /\ MaxRequests[user] \in Nat
      BY Bound DEF BrowserInv, Known, NetOK, StoreOK
    <3>2. Cardinality(net) \in Nat /\ Cardinality(net) <= MaxRequests[user]
      BY <3>1, FS_CardinalityType
    <3> QED
      BY <3>1, <3>2, Adding
  <2>4. NetOK'
    BY <1>1, <2>3, SameRequest DEF BrowserInv, Known, NetOK, Asked
  <2> QED
    BY <2>1, <2>2, <2>4 DEF Known
<1>3. RequestsOK'
  BY DEF BrowserInv, RequestsOK, Asked, Done
<1>4. ViewsOK'
  BY <1>1 DEF BrowserInv, ViewsOK, Asked
<1>5. PlayersOK'
  <2>1. ~Brings(a) /\ \A p : p # me.id => ~Picks(a, p)
    BY DEF Asked, Brings, Done, Picks
  <2> QED
    BY <1>1, <2>1 DEF BrowserInv, PlayersOK
<1>6. ChoicesOK'
  <2> SUFFICES ASSUME NEW q \in net', q.op = "joinTeam"
               PROVE  /\ q.me.id # 0 /\ q.answer = "ok"
                      /\ q.at = "lost" => crossed'
                      /\ q.live => foreign \/ rows[q.me.id].game = page.game
                      /\ ~crossed' => /\ q.at = "back" => rows[q.me.id].team = q.team
                                      /\ \A p \in net' : Picks(p, q.me.id) => p = q
    BY <1>1 DEF ChoicesOK
  <2>1. CASE q = a
    <3>1. foreign \/ rows[me.id].game = page.game
      BY <2>1 DEF BrowserInv, IdentityFollows, Asked, RoomOps, Rooms
    <3> QED
      BY <2>1, <3>1 DEF Asked
  <2>2. CASE q \in net
    <3>1. ~crossed' => ~Picks(a, q.me.id)
      BY <2>2 DEF Asked, Picks
    <3> QED
      BY <2>2, <3>1 DEF BrowserInv, ChoicesOK
  <2> QED
    BY <2>1, <2>2
<1>7. TeamOK'
  BY <1>1 DEF BrowserInv, TeamOK
<1>8. IdentityFollows'
  BY <1>1 DEF BrowserInv, IdentityFollows
<1> QED
  BY <1>2, <1>3, <1>4, <1>5, <1>6, <1>7, <1>8 DEF BrowserInv

\* What Send adds is such a request.
LEMMA SendShape ==
  ASSUME Known, CanAsk, NEW op \in Ops, NEW game \in 0 .. Len(games), op # "joinTeam",
         op \in GameOps => game # 0,
         op \in RoomOps => page = [name |-> "lobby", game |-> game],
         op = "solo" => page.name \notin Rooms,
         op = "start" => games[game].teams >= 2,
         Send(op, game)
  PROVE  /\ Asked(Ask(net, op, game, token)) /\ Cardinality(net) < MaxRequests[user]
         /\ Ask(net, op, game, token).op # "joinTeam"
         /\ net' = net \cup {Ask(net, op, game, token)}
<1>1. HasRoom(net)
  <2>1. Cardinality(net) \in Nat /\ MaxRequests[user] \in Nat
    BY FS_CardinalityType, Bound DEF Known, NetOK, StoreOK
  <2> QED
    BY <2>1 DEF HasRoom, CanAsk, Known, NetOK, StoreOK
<1>2. game \in 0 .. MaxGames /\ token \in 0 .. MaxTokens /\ token <= issued
      /\ issued \in Nat /\ token \in Nat /\ Len(rows) \in Nat
  BY BoundAssumption DEF Known, StoreOK
<1> DEFINE a == Ask(net, op, game, token)
<1>3. /\ a \in Request /\ a.op = op /\ a.game = game /\ a.at = "sent" /\ a.answer = "ok"
      /\ a.me = Nobody /\ a.auth <= token
  BY <1>1, <1>2, AskShape
<1>4. Nobody.id = 0 /\ a.auth \in Nat
  BY <1>3, BoundAssumption DEF Nobody, Request
<1> HIDE DEF a
<1>5. Asked(a)
  BY <1>2, <1>3, <1>4 DEF Asked
<1> QED
  BY <1>3, <1>5 DEF CanAsk, Send, a

\* Every handler that asks keeps everything.
LEMMA HandlersKeep ==
  ASSUME BrowserInv,
         \/ \E g \in Multi : HandleLookup(g)
         \/ HandleLogin \/ HandleCreate \/ HandleJoin \/ HandlePlay
         \/ HandleJoinHere \/ HandleCreateTeam \/ HandleStart
         \/ \E n \in 1 .. TeamLimit : HandleJoinTeam(n)
  PROVE  BrowserInv'
<1>0. /\ Known /\ ui \in Uis /\ ui.found \in 0 .. Len(games) /\ crossed \in BOOLEAN
      /\ page.name = "lobby" => page = [name |-> "lobby", game |-> page.game]
                                /\ page.game \in 1 .. Len(games)
      /\ Len(games) \in Nat
  BY BoundAssumption DEF BrowserInv, Known, StoreOK, ScreenOK, Uis, Places, Rooms
<1>1. ASSUME NEW op \in Ops, NEW game \in 0 .. Len(games), op # "joinTeam",
             op \in GameOps => game # 0,
             op \in RoomOps => page = [name |-> "lobby", game |-> game],
             op = "solo" => page.name \notin Rooms,
             op = "start" => games[game].teams >= 2,
             CanAsk, Send(op, game), Asks, UNCHANGED crossed,
             ui' \in Uis, ui'.found = ui.found, ui'.view = ui.view
      PROVE  BrowserInv'
  <2> DEFINE a == Ask(net, op, game, token)
  <2>1. /\ Asked(a) /\ Cardinality(net) < MaxRequests[user] /\ a.op # "joinTeam"
        /\ net' = net \cup {a}
    BY <1>0, <1>1, SendShape
  <2>2. UNCHANGED <<server, token, me, page, news, foreign>> /\ crossed' \in BOOLEAN
    BY <1>0, <1>1 DEF Asks
  <2> HIDE DEF a
  <2> QED
    BY <1>1, <2>1, <2>2, AskKeeps
<1>2. ASSUME NEW u \in Uis PROVE [u EXCEPT !.starting = TRUE] \in Uis
                                 /\ [u EXCEPT !.starting = TRUE].found = u.found
                                 /\ [u EXCEPT !.starting = TRUE].view = u.view
  BY DEF Uis
<1>3. CASE \E g \in Multi : HandleLookup(g)
  <2>1. PICK g \in Multi : HandleLookup(g)
    BY <1>3
  <2>2. g \in 0 .. Len(games) /\ g # 0
    BY <1>0 DEF Multi
  <2> QED
    BY <1>0, <1>1, <2>1, <2>2 DEF HandleLookup, Ops, RoomOps
<1>4. CASE HandleLogin
  BY <1>0, <1>1, <1>2, <1>4 DEF HandleLogin, Ops, GameOps, RoomOps
<1>5. CASE HandleCreate
  BY <1>0, <1>1, <1>5 DEF HandleCreate, Ops, GameOps, RoomOps
<1>6. CASE HandleJoin
  BY <1>0, <1>1, <1>6 DEF HandleJoin, Ops, RoomOps
<1>7. CASE HandlePlay
  <2>1. page.name \in {"demo", "solo"} /\ Send(page.name, 0)
    BY <1>7 DEF HandlePlay
  <2>2. page.name \in Ops /\ page.name \notin GameOps /\ page.name \notin RoomOps
        /\ page.name \notin Rooms /\ page.name # "joinTeam" /\ page.name # "start"
    BY <2>1 DEF Ops, GameOps, RoomOps, Rooms
  <2> QED
    BY <1>0, <1>1, <1>2, <1>7, <2>1, <2>2 DEF HandlePlay
<1>8. CASE HandleJoinHere
  BY <1>0, <1>1, <1>8 DEF HandleJoinHere, InLobby, Ops
<1>9. CASE HandleCreateTeam
  BY <1>0, <1>1, <1>9 DEF HandleCreateTeam, InLobby, Ops
<1>10. CASE HandleStart
  <2>1. games[page.game].teams \in Nat /\ ui.view.teams \in Nat
    BY <1>0, <1>10, GameShape, BoundAssumption DEF HandleStart, InLobby, Known, Uis, View
  <2>2. games[page.game].teams >= 2
    BY <1>10, <2>1 DEF HandleStart, InLobby, BrowserInv, ViewsOK
  <2> QED
    BY <1>0, <1>1, <1>10, <2>2 DEF HandleStart, InLobby, Ops
<1>11. CASE \E n \in 1 .. TeamLimit : HandleJoinTeam(n)
  <2>1. PICK n \in 1 .. TeamLimit : HandleJoinTeam(n)
    BY <1>11
  <2> DEFINE team == [game |-> page.game, n |-> n]
             b == Ask(net, "joinTeam", page.game, 0)
             a == [b EXCEPT !.team = team, !.me = me]
  <2>2. page.name = "lobby" /\ me.id # 0 /\ CanAsk /\ Asks /\ UNCHANGED ui
        /\ net' = net \cup {a}
        /\ crossed' = (crossed \/ \E q \in net : q.op = "joinTeam" /\ q.me.id = me.id)
    BY <2>1 DEF HandleJoinTeam, InLobby
  <2>3. page.game \in 0 .. MaxGames /\ page.game # 0 /\ page.game <= Len(games)
        /\ me \in Identity /\ me.id <= Len(rows) /\ issued \in Nat
    BY <1>0, <2>2, BoundAssumption DEF Known, StoreOK
  <2>4. HasRoom(net) /\ Cardinality(net) < MaxRequests[user]
    <3>1. Cardinality(net) \in Nat /\ MaxRequests[user] \in Nat
      BY <1>0, FS_CardinalityType, Bound DEF Known, NetOK, StoreOK
    <3> QED
      BY <1>0, <2>2, <3>1 DEF HasRoom, CanAsk, Known, NetOK, StoreOK
  <2>5. /\ b \in Request /\ b.op = "joinTeam" /\ b.game = page.game /\ b.at = "sent"
        /\ b.answer = "ok" /\ b.auth <= 0
    <3> HIDE DEF b
    <3>1. "joinTeam" \in Ops /\ 0 \in 0 .. MaxTokens
      BY BoundAssumption DEF Ops
    <3>2. /\ Ask(net, "joinTeam", page.game, 0) \in Request
          /\ Ask(net, "joinTeam", page.game, 0).op = "joinTeam"
          /\ Ask(net, "joinTeam", page.game, 0).game = page.game
          /\ Ask(net, "joinTeam", page.game, 0).at = "sent"
          /\ Ask(net, "joinTeam", page.game, 0).answer = "ok"
          /\ Ask(net, "joinTeam", page.game, 0).auth <= 0
      BY <2>3, <2>4, <3>1, AskShape
    <3> QED
      BY <3>2 DEF b
  <2> HIDE DEF b
  <2>6. team \in Team
    BY <2>3, BoundAssumption DEF Team
  <2>7. /\ a \in Request /\ a.op = "joinTeam" /\ a.game = page.game /\ a.at = "sent"
        /\ a.answer = "ok" /\ a.me = me /\ a.auth \in Nat /\ a.auth <= 0
    <3> DEFINE c == [b EXCEPT !.team = team]
    <3> HIDE DEF team
    <3>1. c \in Request /\ c.op = b.op /\ c.game = b.game /\ c.at = b.at /\ c.answer = b.answer
          /\ c.auth = b.auth
      BY <2>5, <2>6 DEF Request
    <3>2. a = [c EXCEPT !.me = me]
      OBVIOUS
    <3> HIDE DEF c, a
    <3>3. a \in Request /\ a.op = c.op /\ a.game = c.game /\ a.at = c.at /\ a.answer = c.answer
          /\ a.auth = c.auth /\ a.me = me
      BY <2>3, <3>1, <3>2 DEF Request
    <3>4. a.auth \in Nat
      BY <3>3, BoundAssumption DEF Request
    <3> QED
      BY <2>5, <3>1, <3>3, <3>4
  <2> HIDE DEF a, team
  <2>8. Asked(a)
    BY <1>0, <2>2, <2>3, <2>7 DEF Asked
  <2>9. UNCHANGED <<server, token, me, page, news, foreign>> /\ crossed' \in BOOLEAN
    BY <1>0, <2>2 DEF Asks
  <2>10. ~crossed' => ~crossed /\ \A q \in net : ~Picks(q, me.id)
    BY <2>2 DEF Picks
  <2> QED
    BY <1>0, <2>2, <2>4, <2>8, <2>9, <2>10, AskKeeps
<1> QED
  BY <1>3, <1>4, <1>5, <1>6, <1>7, <1>8, <1>9, <1>10, <1>11

-----------------------------------------------------------------------------
(* Answers that stay on the screen                                         *)

\* A question that follows an answer.
Followed(a) ==
  /\ a \in Request /\ a.at = "sent" /\ a.answer = "ok" /\ a.op \in {"session", "soloStart"}
  /\ a.game # 0 /\ a.game <= Len(games) /\ a.me.id <= Len(rows) /\ a.auth <= issued
  /\ a.live /\ a.op = "session" => page = [name |-> "lobby", game |-> a.game]

\* Who the player is once q is answered.
Becomes(q, player) ==
  \/ player = me /\ q.op # "joinTeam"
  \/ player = q.me /\ Brings(q)
  \/ player = [q.me EXCEPT !.team = q.team] /\ q.op = "joinTeam"

\* An answer goes and one question at most follows it.
LEMMA StayKeeps ==
  ASSUME BrowserInv, UNCHANGED <<server, page, news, crossed>>,
         NEW q \in net, q.at = "back", Becomes(q, me'),
         token' \in 0 .. issued,
         ui' \in Uis, ui'.found <= Len(games),
         page.name = "lobby" => ui'.view.teams <= games[page.game].teams,
         foreign' \in BOOLEAN, foreign => foreign', IdentityFollows',
         \/ net' = net \ {q}
         \/ \E a : Followed(a) /\ net' = (net \ {q}) \cup {a}
  PROVE  BrowserInv'
<1>1. UNCHANGED <<user, games, rows, rounds, issued, expired>>
  BY DEF server
<1>2. /\ net \ {q} \subseteq net' /\ q \in Request
      /\ \A p \in net' : p \in net \ {q} \/ Followed(p)
  BY DEF BrowserInv, Known, NetOK
<1>3. Known'
  <2>1. me' \in Identity /\ me'.id <= Len(rows)
    <3>1. CASE me' = me
      BY <3>1 DEF BrowserInv, Known, StoreOK
    <3>2. CASE me' = q.me
      BY <1>2, <3>2 DEF BrowserInv, Known, NetOK, Request
    <3>3. CASE me' = [q.me EXCEPT !.team = q.team]
      <4>1. q.me \in Identity /\ q.team \in Team /\ q.me.id <= Len(rows)
        BY <1>2 DEF BrowserInv, Known, NetOK, Request
      <4> QED
        BY <3>3, <4>1 DEF Identity
    <3> QED
      BY <3>1, <3>2, <3>3 DEF Becomes
  <2>2. StoreOK'
    BY <1>1, <2>1 DEF BrowserInv, Known, StoreOK
  <2>3. ScreenOK'
    BY <1>1 DEF BrowserInv, Known, ScreenOK
  <2>4. IsFiniteSet(net') /\ Cardinality(net') <= MaxRequests[user] + 1
    <3>1. MaxRequests[user] \in Nat
      BY Bound DEF BrowserInv, Known, StoreOK
    <3>2. IsFiniteSet(net \ {q}) /\ Cardinality(net \ {q}) <= MaxRequests[user]
      BY <3>1, Taking DEF BrowserInv, Known, NetOK
    <3>3. Cardinality(net \ {q}) \in Nat
      BY <3>2, FS_CardinalityType
    <3>4. CASE net' = net \ {q}
      BY <3>1, <3>2, <3>3, <3>4
    <3>5. CASE \E a : Followed(a) /\ net' = (net \ {q}) \cup {a}
      <4>1. PICK a : net' = (net \ {q}) \cup {a}
        BY <3>5
      <4>2. /\ IsFiniteSet((net \ {q}) \cup {a})
            /\ Cardinality((net \ {q}) \cup {a}) <= MaxRequests[user] + 1
        BY <3>1, <3>2, Adding
      <4> QED
        BY <4>1, <4>2
    <3> QED
      BY <3>4, <3>5
  <2>5. NetOK'
    BY <1>1, <1>2, <2>4, SameRequest DEF BrowserInv, Known, NetOK, Followed
  <2> QED
    BY <2>2, <2>3, <2>5 DEF Known
<1>4. RequestsOK'
  <2> SUFFICES ASSUME NEW p \in net'
               PROVE  /\ p.at # "back" => p.answer = "ok"
                      /\ p.at = "lost" => ~p.live
                      /\ p.op \in GameOps => p.game # 0
                      /\ (p.op \in PlayerOps \cup {"create"} /\ Done(p)) => p.game # 0
                      /\ p.live /\ p.op \in RoomOps =>
                            page = [name |-> "lobby", game |-> p.game]
                      /\ p.live /\ p.op = "solo" => page.name \notin Rooms
    BY DEF RequestsOK
  <2>1. CASE p \in net
    BY <2>1 DEF BrowserInv, RequestsOK
  <2>2. CASE Followed(p)
    BY <2>2 DEF Followed, Done, PlayerOps, RoomOps
  <2> QED
    BY <1>2, <2>1, <2>2
<1>5. ViewsOK'
  BY <1>1, <1>2 DEF BrowserInv, ViewsOK, Followed
<1>6. ASSUME NEW p \in net', Followed(p)
      PROVE  ~Brings(p) /\ p.op # "joinTeam"
  BY <1>6 DEF Followed, Brings, PlayerOps
<1>7. PlayersOK'
  <2> SUFFICES ASSUME NEW p \in net', Brings(p)
               PROVE  /\ p.me.id # 0 /\ p.me.id # me'.id
                      /\ rows[p.me.id].game = p.game /\ rows[p.me.id].team = p.me.team
                      /\ \A r \in net' : /\ ~Picks(r, p.me.id)
                                         /\ Brings(r) /\ r # p => r.me.id # p.me.id
    BY <1>1 DEF PlayersOK
  <2>1. p \in net /\ p # q
    BY <1>2, <1>6
  <2>2. /\ p.me.id # 0 /\ p.me.id # me.id
        /\ rows[p.me.id].game = p.game /\ rows[p.me.id].team = p.me.team
        /\ \A r \in net : ~Picks(r, p.me.id) /\ (Brings(r) /\ r # p => r.me.id # p.me.id)
    BY <2>1 DEF BrowserInv, PlayersOK
  <2>3. p.me.id # me'.id
    <3>1. CASE q.op = "joinTeam" /\ me' = [q.me EXCEPT !.team = q.team]
      <4>1. me'.id = q.me.id
        BY <1>2, <3>1 DEF Request, Identity
      <4> QED
        BY <2>2, <3>1, <4>1 DEF Picks
    <3> QED
      BY <2>1, <2>2, <3>1 DEF Becomes
  <2> QED
    BY <1>2, <1>6, <2>2, <2>3 DEF Picks
<1>8. ChoicesOK'
  <2> SUFFICES ASSUME NEW p \in net', p.op = "joinTeam"
               PROVE  /\ p.me.id # 0 /\ p.answer = "ok"
                      /\ p.at = "lost" => crossed'
                      /\ p.live => foreign \/ rows[p.me.id].game = page.game
                      /\ ~crossed => /\ p.at = "back" => rows[p.me.id].team = p.team
                                     /\ \A r \in net' : Picks(r, p.me.id) => r = p
    BY <1>1 DEF ChoicesOK
  <2>1. p \in net
    BY <1>2, <1>6
  <2> QED
    BY <1>2, <1>6, <2>1 DEF BrowserInv, ChoicesOK, Picks
<1>9. TeamOK'
  <2> SUFFICES ASSUME me'.id # 0, ~crossed, ~\E p \in net' : Picks(p, me'.id) /\ p.at = "back"
               PROVE  me'.team = rows[me'.id].team
    BY <1>1 DEF TeamOK
  <2>1. CASE me' = me /\ q.op # "joinTeam"
    BY <1>2, <2>1 DEF BrowserInv, TeamOK, Picks
  <2>2. CASE me' = q.me /\ Brings(q)
    BY <2>2 DEF BrowserInv, PlayersOK
  <2>3. CASE me' = [q.me EXCEPT !.team = q.team] /\ q.op = "joinTeam"
    <3>1. me'.id = q.me.id /\ me'.team = q.team
      BY <1>2, <2>3 DEF Request, Identity
    <3> QED
      BY <2>3, <3>1 DEF BrowserInv, ChoicesOK
  <2> QED
    BY <2>1, <2>2, <2>3 DEF Becomes
<1> QED
  BY <1>3, <1>4, <1>5, <1>7, <1>8, <1>9 DEF BrowserInv

-----------------------------------------------------------------------------
(* Answers                                                                 *)

\* A room is shown only when it was asked for, and of the game it was asked for.
LEMMA ShowRoom ==
  ASSUME NEW name, NEW game, NEW requests, Show(name, game, requests)
  PROVE  page'.name \in Rooms => name \in Rooms /\ page'.game = game
BY DEF Show, Route, Rooms, GuidePages

\* A question that follows an answer is well formed.
LEMMA FollowShape ==
  ASSUME BrowserInv, NEW q \in net, NEW op \in {"session", "soloStart"}, q.game # 0,
         NEW tok \in 0 .. issued,
         op = "session" => page = [name |-> "lobby", game |-> q.game]
  PROVE  /\ Followed(Ask(Rest(q), op, q.game, tok))
         /\ Ask(Rest(q), op, q.game, tok).op = op
<1>1. HasRoom(net \ {q})
  <2>1. Cardinality(net \ {q}) <= MaxRequests[user]
    BY CarriedShape DEF BrowserInv, Known
  <2> QED
    BY <2>1, CarriedShape DEF BrowserInv, Known, CarriedOK, HasRoom, StoreOK
<1>2. /\ q.game \in 0 .. MaxGames /\ q.game <= Len(games) /\ tok \in 0 .. MaxTokens
      /\ issued \in Nat /\ tok \in Nat /\ Len(rows) \in Nat /\ op \in Ops
  BY BoundAssumption DEF BrowserInv, Known, NetOK, StoreOK, Request, Ops
<1> DEFINE a == Ask(net \ {q}, op, q.game, tok)
<1>3. /\ a \in Request /\ a.op = op /\ a.game = q.game /\ a.at = "sent" /\ a.answer = "ok"
      /\ a.me = Nobody /\ a.auth <= tok
  BY <1>1, <1>2, AskShape
<1>4. Nobody.id = 0 /\ a.auth \in Nat
  BY <1>3, BoundAssumption DEF Nobody, Request
<1> HIDE DEF a
<1>5. Followed(a)
  BY <1>2, <1>3, <1>4 DEF Followed
<1> QED
  BY <1>3, <1>5 DEF a, Rest

\* Every answer keeps everything.
LEMMA AnswerKeeps ==
  ASSUME BrowserInv, NEW q \in net, Answer(q)
  PROVE  BrowserInv'
<1>1. /\ Known /\ q \in Request /\ q.game \in 0 .. Len(games) /\ q.game \in 0 .. MaxGames
      /\ q.at = "back" /\ UNCHANGED server /\ UNCHANGED <<user, games, rows, rounds, issued, expired>>
      /\ token \in 0 .. issued /\ q.auth \in 0 .. issued /\ 0 \in 0 .. issued
      /\ foreign \in BOOLEAN /\ ui \in Uis /\ ui.found <= Len(games)
      /\ page.name = "lobby" => ui.view.teams <= games[page.game].teams
      /\ page.name \in Pages /\ page.game \in 0 .. Len(games)
  BY BoundAssumption DEF Answer, server, BrowserInv, Known, NetOK, StoreOK, ScreenOK, Request,
     ViewsOK, Places
<1>2. ASSUME NEW name \in Pages, GoOn(q, name), name \in Rooms => q.game # 0,
             q.op # "joinTeam", token' \in 0 .. issued, foreign' \in BOOLEAN, IdentityFollows',
             me' = me \/ (Brings(q) /\ me' = q.me)
      PROVE  BrowserInv'
  <2>1. CarriedOK(Rest(q)) /\ Rest(q) \subseteq net /\ q \in net \ Rest(q)
        /\ \A p \in net \ Rest(q) : p = q
    BY CarriedShape DEF BrowserInv, Known, Rest
  <2>2. StoreOK'
    BY <1>1, <1>2 DEF Known, StoreOK, NetOK, Request, GoOn
  <2> QED
    BY <1>1, <1>2, <2>1, <2>2, ScreenChanges DEF GoOn
<1>3. ASSUME q.answer = "ok" PROVE Done(q)
  BY <1>1, <1>3 DEF Done
<1>4. CASE q.answer = "ok" /\ ApplyLogin(q)
  <2>1. "guide" \in Pages /\ "guide" \notin Rooms
    BY DEF Pages, GuidePages, Rooms
  <2>2. IdentityFollows'
    BY <1>4, <2>1, ShowRoom DEF ApplyLogin, GoOn, IdentityFollows
  <2> QED
    BY <1>1, <1>2, <1>4, <2>1, <2>2 DEF ApplyLogin
<1>5. CASE q.answer = "ok" /\ (ApplyCreate(q) \/ ApplyStart(q))
  <2>1. PICK name \in Rooms : GoOn(q, name)
    BY <1>5 DEF ApplyCreate, ApplyStart, Rooms
  <2>2. /\ UNCHANGED <<token, me>> /\ foreign' = Carried(q.game)
        /\ q.op \in {"create", "start", "soloStart"}
    BY <1>5 DEF ApplyCreate, ApplyStart
  <2>3. q.game # 0
    BY <1>3, <1>5, <2>2 DEF BrowserInv, RequestsOK, GameOps, RoomOps
  <2>4. IdentityFollows' /\ foreign' \in BOOLEAN
    BY <1>1, <2>1, <2>2, ShowRoom DEF GoOn, IdentityFollows, Carried
  <2> QED
    BY <1>1, <1>2, <2>1, <2>2, <2>3, <2>4 DEF Pages
<1>6. CASE q.answer = "ok" /\ ApplyJoin(q)
  <2>1. PICK name \in Rooms : GoOn(q, name)
    BY <1>6 DEF ApplyJoin, Rooms
  <2>2. Brings(q) /\ me' = q.me /\ foreign' = FALSE /\ token' = token /\ q.op # "joinTeam"
    BY <1>3, <1>6 DEF ApplyJoin, Brings, PlayerOps
  <2>3. q.game # 0 /\ rows[q.me.id].game = q.game
    BY <2>2 DEF BrowserInv, RequestsOK, PlayersOK, Brings
  <2>4. IdentityFollows'
    BY <1>1, <2>1, <2>2, <2>3, ShowRoom DEF GoOn, IdentityFollows
  <2> QED
    BY <1>1, <1>2, <2>1, <2>2, <2>3, <2>4 DEF Pages
<1>7. CASE q.answer = "ok" /\ (ApplyMaps(q) \/ ApplyLookup(q) \/ ApplySession(q))
  <2>1. PICK u : ui' = Local(q, u)
                 /\ \/ u = [ui EXCEPT !.loaded = TRUE]
                    \/ u = [ui EXCEPT !.found = q.game]
                    \/ u = [ui EXCEPT !.loaded = TRUE, !.view = q.view] /\ q.op = "session"
    BY <1>7 DEF ApplyMaps, ApplyLookup, ApplySession
  <2>2. /\ UNCHANGED <<token, me, history, page, news>> /\ net' = net \ {q}
        /\ q.op # "joinTeam"
    BY <1>7 DEF ApplyMaps, ApplyLookup, ApplySession, Stay, Rest
  <2>3. q.live /\ q.op = "session" => /\ page.name = "lobby" /\ page.game = q.game
                                      /\ q.view.teams <= games[q.game].teams
    BY <1>1 DEF BrowserInv, RequestsOK, RoomOps, ViewsOK
  <2>4. /\ u \in Uis /\ u.found <= Len(games)
        /\ q.live /\ page.name = "lobby" => u.view.teams <= games[page.game].teams
    <3>1. CASE u = [ui EXCEPT !.loaded = TRUE]
      BY <1>1, <3>1 DEF Uis
    <3>2. CASE u = [ui EXCEPT !.found = q.game]
      BY <1>1, <3>2 DEF Uis
    <3>3. CASE u = [ui EXCEPT !.loaded = TRUE, !.view = q.view] /\ q.op = "session"
      BY <1>1, <2>3, <3>3 DEF Uis, Request
    <3> QED
      BY <2>1, <3>1, <3>2, <3>3
  <2>5. /\ ui' \in Uis /\ ui'.found <= Len(games)
        /\ page.name = "lobby" => ui'.view.teams <= games[page.game].teams
    BY <1>1, <2>1, <2>4 DEF Local
  <2>6. IdentityFollows' /\ Becomes(q, me')
    BY <1>1, <2>2 DEF BrowserInv, IdentityFollows, history, Becomes
  <2> QED
    BY <1>1, <2>2, <2>5, <2>6, StayKeeps DEF history
<1>8. CASE q.answer = "ok" /\ ApplyCreateTeam(q)
  <2>1. UNCHANGED <<token, me, page, ui, news, history>> /\ Refresh(q) /\ q.op = "createTeam"
    BY <1>8 DEF ApplyCreateTeam
  <2>2. \/ net' = net \ {q}
        \/ \E a : Followed(a) /\ net' = (net \ {q}) \cup {a}
    <3>1. CASE q.live
      <4>1. page = [name |-> "lobby", game |-> q.game] /\ q.game # 0
        BY <2>1, <3>1 DEF BrowserInv, RequestsOK, RoomOps, GameOps
      <4> QED
        BY <1>1, <2>1, <3>1, <4>1, FollowShape DEF Refresh, Rest
    <3>2. CASE ~q.live
      BY <2>1, <3>2 DEF Refresh, Rest
    <3> QED
      BY <3>1, <3>2
  <2>3. IdentityFollows' /\ Becomes(q, me')
    BY <1>1, <2>1 DEF BrowserInv, IdentityFollows, history, Becomes
  <2> QED
    BY <1>1, <2>1, <2>2, <2>3, StayKeeps DEF history
<1>9. CASE q.answer = "ok" /\ ApplyJoinTeam(q)
  <2>1. /\ q.op = "joinTeam" /\ Refresh(q) /\ me' = [q.me EXCEPT !.team = q.team]
        /\ foreign' = (foreign \/ (~q.live /\ page.name \in Rooms))
        /\ UNCHANGED <<token, ui, page, news, crossed>>
    BY <1>9 DEF ApplyJoinTeam, Become
  <2>2. \/ net' = net \ {q}
        \/ \E a : Followed(a) /\ net' = (net \ {q}) \cup {a}
    <3>1. CASE q.live
      <4>1. page = [name |-> "lobby", game |-> q.game] /\ q.game # 0
        BY <2>1, <3>1 DEF BrowserInv, RequestsOK, RoomOps, GameOps
      <4> QED
        BY <1>1, <2>1, <3>1, <4>1, FollowShape DEF Refresh, Rest
    <3>2. CASE ~q.live
      BY <2>1, <3>2 DEF Refresh, Rest
    <3> QED
      BY <3>1, <3>2
  <2>3. me'.id = q.me.id
    BY <1>1, <2>1 DEF Request, Identity
  <2>4. IdentityFollows'
    BY <1>1, <2>1, <2>3 DEF BrowserInv, IdentityFollows, ChoicesOK
  <2>5. Becomes(q, me') /\ foreign' \in BOOLEAN /\ (foreign => foreign')
    BY <1>1, <2>1 DEF Becomes
  <2> QED
    BY <1>1, <2>1, <2>2, <2>4, <2>5, StayKeeps
<1>10. CASE q.answer = "ok" /\ (ApplyJoinHere(q) \/ ApplySolo(q))
  <2>1. /\ q.op \in {"joinHere", "solo"} /\ me' = q.me
        /\ foreign' = (foreign \/ (~q.live /\ page.name \in Rooms))
        /\ UNCHANGED <<token, ui, page, news, crossed>>
    BY <1>10 DEF ApplyJoinHere, ApplySolo, Become
  <2>2. Brings(q) /\ q.game # 0 /\ rows[q.me.id].game = q.game
    BY <1>3, <1>10, <2>1 DEF Brings, PlayerOps, BrowserInv, RequestsOK, PlayersOK
  <2>3. \/ net' = net \ {q}
        \/ \E a : Followed(a) /\ net' = (net \ {q}) \cup {a}
    <3>1. CASE ApplyJoinHere(q)
      BY <3>1 DEF ApplyJoinHere, Rest
    <3>2. CASE ApplySolo(q)
      <4> DEFINE b == Ask(Rest(q), "soloStart", q.game, token)
                 a == [b EXCEPT !.live = q.live]
      <4>1. Followed(b) /\ b.op = "soloStart"
        BY <1>1, <2>2, FollowShape
      <4>2. net' = (net \ {q}) \cup {a}
        BY <3>2 DEF ApplySolo, Rest
      <4> HIDE DEF b
      <4>3. Followed(a)
        BY <1>1, <4>1 DEF Followed, Request
      <4> QED
        BY <4>2, <4>3
    <3> QED
      BY <1>10, <3>1, <3>2
  <2>4. IdentityFollows'
    <3>1. q.live => page.name \notin Rooms \/ page.game = q.game
      BY <2>1 DEF BrowserInv, RequestsOK, RoomOps
    <3>2. page' = page /\ rows' = rows
      BY <1>1, <2>1
    <3> QED
      BY <2>1, <2>2, <3>1, <3>2 DEF IdentityFollows
  <2>5. Becomes(q, me') /\ foreign' \in BOOLEAN /\ (foreign => foreign')
    BY <1>1, <2>1, <2>2 DEF Becomes
  <2> QED
    BY <1>1, <2>1, <2>3, <2>4, <2>5, StayKeeps
<1>11. CASE q.answer # "ok" /\ ApplyFailure(q)
  <2>1. UNCHANGED <<me, history>> /\ token' \in 0 .. issued /\ q.op # "joinTeam"
    BY <1>1, <1>11 DEF ApplyFailure, BrowserInv, ChoicesOK
  <2>2. CASE Route(page.name, token') # page.name
    <3>1. Show(page.name, page.game, Rest(q))
      BY <1>11, <2>2 DEF ApplyFailure
    <3>2. page.name \notin Rooms
      BY <2>2 DEF Route, GuidePages, Rooms
    <3>3. IdentityFollows'
      BY <3>1, <3>2, ShowRoom DEF IdentityFollows
    <3>4. CarriedOK(Rest(q)) /\ Rest(q) \subseteq net /\ \A p \in net \ Rest(q) : p = q
      BY CarriedShape DEF BrowserInv, Known, Rest
    <3>5. StoreOK'
      BY <1>1, <2>1 DEF Known, StoreOK, history
    <3>6. /\ \A p \in Rest(q) : p \in net
          /\ \A p \in (net \ Rest(q)) \cup (Rest(q) \ net) : p = q
      BY <3>4
    <3> QED
      BY <1>1, <2>1, <3>1, <3>2, <3>3, <3>4, <3>5, <3>6, ScreenChanges DEF history
  <2>3. CASE Route(page.name, token') = page.name
    <3> DEFINE s == ui.starting /\ q.op \notin FormOps
               l == ui.loaded \/ (q.op = "maps" /\ page.name = "guide")
    <3>1. ui' = Local(q, [ui EXCEPT !.starting = s, !.loaded = l])
      BY <1>11, <2>3 DEF ApplyFailure
    <3>2. s \in BOOLEAN /\ l \in BOOLEAN
      OBVIOUS
    <3> HIDE DEF s, l
    <3>3. /\ ui' \in Uis /\ ui'.found <= Len(games)
          /\ page.name = "lobby" => ui'.view.teams <= games[page.game].teams
      BY <1>1, <3>1, <3>2 DEF Local, Uis
    <3>4. net' = net \ {q} /\ UNCHANGED <<page, news>>
      BY <1>11, <2>3 DEF ApplyFailure, Stay, Rest
    <3>5. IdentityFollows' /\ Becomes(q, me')
      BY <1>1, <2>1, <3>4 DEF BrowserInv, IdentityFollows, history, Becomes
    <3> QED
      BY <1>1, <2>1, <3>3, <3>4, <3>5, StayKeeps DEF history
  <2> QED
    BY <2>2, <2>3
<1> QED
  BY <1>4, <1>5, <1>6, <1>7, <1>8, <1>9, <1>10, <1>11 DEF Answer

-----------------------------------------------------------------------------
(* The server                                                              *)

\* What the server adds and forgets nothing of.
Grows ==
  /\ UNCHANGED <<user, token, me, page, ui, foreign, crossed>>
  /\ issued' \in issued .. MaxTokens /\ expired' \in 0 .. issued'
  /\ games' \in Seq(Game) /\ Len(games') <= MaxGames /\ Len(games) <= Len(games')
  /\ \A g \in 1 .. Len(games) : games'[g].teams >= games[g].teams
  /\ rows' \in Seq(PlayerRow) /\ Len(rows') <= MaxPlayers /\ Len(rows) <= Len(rows')
  /\ \A p \in 1 .. Len(rows) : rows'[p].game = rows[p].game
  /\ rounds' \in BOOLEAN
  /\ news' \in BOOLEAN /\ (news' => page.name = "lobby")

\* The store and the screen stay good, and so does what the requests say of the server.
LEMMA GrowsKeeps ==
  ASSUME BrowserInv, Grows
  PROVE  /\ StoreOK' /\ ScreenOK' /\ IdentityFollows'
         /\ page.name = "lobby" => ui.view.teams <= games'[page.game].teams
         /\ \A q \in net :
              /\ q.game <= Len(games') /\ q.me.id <= Len(rows') /\ q.auth <= issued'
              /\ q.op = "session" /\ q.at = "back" => q.view.teams <= games'[q.game].teams
              /\ q.op = "start" => games'[q.game].teams >= 2
<1>1. /\ issued \in Nat /\ issued' \in Nat /\ token \in 0 .. issued /\ me.id \in Nat
      /\ me.id <= Len(rows) /\ Len(rows) \in Nat /\ Len(rows') \in Nat
      /\ Len(games) \in Nat /\ Len(games') \in Nat
      /\ page.game \in 0 .. Len(games) /\ ui.found \in 0 .. Len(games)
      /\ page.name \in Rooms => page.game # 0
      /\ ui.view.teams \in Nat
  BY BoundAssumption DEF BrowserInv, Known, StoreOK, ScreenOK, Identity, Grows, Places, Uis, View
<1>2. StoreOK'
  BY <1>1 DEF BrowserInv, Known, StoreOK, Grows
<1>3. ScreenOK'
  BY <1>1 DEF BrowserInv, Known, ScreenOK, Grows
<1>4. ASSUME NEW g \in 1 .. Len(games) PROVE games[g].teams \in Nat /\ games'[g].teams \in Nat
  <2>1. games[g].teams \in Nat
    BY GameShape DEF BrowserInv, Known
  <2>2. g \in 1 .. Len(games')
    BY <1>1 DEF Grows
  <2>3. games'[g] \in Game
    BY <2>2 DEF Grows
  <2> QED
    BY <2>1, <2>3, BoundAssumption DEF Game
<1>5. ASSUME NEW g \in 1 .. Len(games), NEW n \in Nat, n <= games[g].teams
      PROVE  n <= games'[g].teams
  BY <1>4, <1>5 DEF Grows
<1>6. IdentityFollows'
  BY <1>1 DEF BrowserInv, IdentityFollows, Grows
<1>7. page.name = "lobby" => ui.view.teams <= games'[page.game].teams
  BY <1>1, <1>5 DEF BrowserInv, ViewsOK, Rooms
<1>8. ASSUME NEW q \in net
      PROVE  /\ q.game <= Len(games') /\ q.me.id <= Len(rows') /\ q.auth <= issued'
             /\ q.op = "session" /\ q.at = "back" => q.view.teams <= games'[q.game].teams
             /\ q.op = "start" => games'[q.game].teams >= 2
  <2>1. /\ q.game \in 0 .. Len(games) /\ q.me.id \in 0 .. Len(rows) /\ q.auth \in 0 .. issued
        /\ q.view.teams \in Nat
    BY BoundAssumption DEF BrowserInv, Known, NetOK, Request, View, Identity
  <2>2. q.op \in GameOps => q.game \in 1 .. Len(games)
    BY <2>1 DEF BrowserInv, RequestsOK
  <2>3. q.op = "session" /\ q.at = "back" => q.view.teams <= games'[q.game].teams
    <3>1. q.op = "session" /\ q.at = "back" => q.view.teams <= games[q.game].teams
      BY DEF BrowserInv, ViewsOK
    <3> QED
      BY <1>5, <2>1, <2>2, <3>1 DEF GameOps, RoomOps
  <2>4. q.op = "start" => games'[q.game].teams >= 2
    <3>1. q.op = "start" => games[q.game].teams >= 2
      BY DEF BrowserInv, ViewsOK
    <3> QED
      BY <1>4, <1>5, <2>2, <3>1 DEF GameOps, RoomOps
  <2>5. q.game <= Len(games') /\ q.me.id <= Len(rows') /\ q.auth <= issued'
    BY <1>1, <2>1 DEF Grows
  <2> QED
    BY <2>3, <2>4, <2>5
<1> QED
  BY <1>2, <1>3, <1>6, <1>7, <1>8

\* The world outside grows and no request of this browser is served.
LEMMA OthersKeep ==
  ASSUME BrowserInv, Grows, UNCHANGED <<rows, net>>
  PROVE  BrowserInv'
<1>1. /\ StoreOK' /\ ScreenOK' /\ IdentityFollows'
      /\ page.name = "lobby" => ui.view.teams <= games'[page.game].teams
      /\ \A q \in net :
           /\ q.game <= Len(games') /\ q.me.id <= Len(rows') /\ q.auth <= issued'
           /\ q.op = "session" /\ q.at = "back" => q.view.teams <= games'[q.game].teams
           /\ q.op = "start" => games'[q.game].teams >= 2
  BY GrowsKeeps
<1>2. UNCHANGED <<user, me, page, ui, foreign, crossed, rows, net>>
  BY DEF Grows
<1>3. NetOK'
  BY <1>1, <1>2, SameRequest DEF BrowserInv, Known, NetOK
<1>4. RequestsOK' /\ ViewsOK'
  BY <1>1, <1>2 DEF BrowserInv, RequestsOK, ViewsOK
<1>5. PlayersOK' /\ ChoicesOK' /\ TeamOK'
  BY <1>2 DEF BrowserInv, PlayersOK, ChoicesOK, TeamOK
<1> QED
  BY <1>1, <1>3, <1>4, <1>5 DEF BrowserInv, Known

\* What the server answers to q.
Answered(a, q) ==
  /\ a \in Request' /\ a.op = q.op /\ a.at = "back" /\ a.live = q.live
  /\ a.game <= Len(games') /\ a.me.id <= Len(rows') /\ a.auth <= issued'
  /\ q.op \in GameOps => a.game = q.game
  /\ (a.op \in PlayerOps \cup {"create"} /\ a.answer = "ok") => a.game # 0
  /\ a.op = "session" => a.view.teams <= games'[a.game].teams
  /\ Brings(a) => /\ a.me.id = Len(rows) + 1
                  /\ rows'[a.me.id].game = a.game /\ rows'[a.me.id].team = a.me.team
  /\ a.op = "joinTeam" => a.answer = "ok" /\ a.me = q.me /\ a.team = q.team

\* A request is served, with an answer or without; only a team choice changes a player.
LEMMA ServedKeeps ==
  ASSUME BrowserInv, Grows, NEW q \in net, q.at # "back",
         \/ /\ net' = net \ {q}
            /\ \A p \in 1 .. Len(rows) :
                 rows'[p].team = rows[p].team \/ (crossed /\ Picks(q, p))
         \/ /\ \E a : Answered(a, q) /\ net' = (net \ {q}) \cup {a}
            /\ \A p \in 1 .. Len(rows) : rows'[p].team = rows[p].team \/ Picks(q, p)
            /\ q.op = "joinTeam" => rows'[q.me.id].team = q.team
  PROVE  BrowserInv'
<1>1. /\ StoreOK' /\ ScreenOK' /\ IdentityFollows'
      /\ page.name = "lobby" => ui.view.teams <= games'[page.game].teams
      /\ \A p \in net :
           /\ p.game <= Len(games') /\ p.me.id <= Len(rows') /\ p.auth <= issued'
           /\ p.op = "session" /\ p.at = "back" => p.view.teams <= games'[p.game].teams
           /\ p.op = "start" => games'[p.game].teams >= 2
  BY GrowsKeeps
<1>2. UNCHANGED <<user, me, page, ui, foreign, crossed>>
  BY DEF Grows
<1>3. /\ net \ {q} \subseteq net'
      /\ \A p \in net' : p \in net \ {q} \/ Answered(p, q)
      /\ \A p, r \in net' : p \notin net \ {q} /\ r \notin net \ {q} => p = r
  OBVIOUS
<1>4. Len(rows) \in Nat /\ \A p \in net : p.me.id \in Nat /\ p.me.id <= Len(rows)
  BY BoundAssumption DEF BrowserInv, Known, NetOK, StoreOK, Request, Identity
<1>5. NetOK'
  <2>1. IsFiniteSet(net') /\ Cardinality(net') <= MaxRequests[user] + 1
    <3>1. MaxRequests[user] \in Nat
      BY Bound DEF BrowserInv, Known, StoreOK
    <3>2. IsFiniteSet(net \ {q}) /\ Cardinality(net \ {q}) <= MaxRequests[user]
      BY <3>1, Taking DEF BrowserInv, Known, NetOK
    <3>3. Cardinality(net \ {q}) \in Nat
      BY <3>2, FS_CardinalityType
    <3>4. CASE net' = net \ {q}
      BY <3>1, <3>2, <3>3, <3>4
    <3>5. CASE \E a : Answered(a, q) /\ net' = (net \ {q}) \cup {a}
      <4>1. PICK a : net' = (net \ {q}) \cup {a}
        BY <3>5
      <4>2. /\ IsFiniteSet((net \ {q}) \cup {a})
            /\ Cardinality((net \ {q}) \cup {a}) <= MaxRequests[user] + 1
        BY <3>1, <3>2, Adding
      <4> QED
        BY <4>1, <4>2
    <3> QED
      BY <3>4, <3>5
  <2> QED
    BY <1>1, <1>2, <1>3, <2>1, SameRequest DEF BrowserInv, Known, NetOK, Answered
<1>6. RequestsOK'
  <2> SUFFICES ASSUME NEW p \in net'
               PROVE  /\ p.at # "back" => p.answer = "ok"
                      /\ p.at = "lost" => ~p.live
                      /\ p.op \in GameOps => p.game # 0
                      /\ (p.op \in PlayerOps \cup {"create"} /\ Done(p)) => p.game # 0
                      /\ p.live /\ p.op \in RoomOps =>
                            page = [name |-> "lobby", game |-> p.game]
                      /\ p.live /\ p.op = "solo" => page.name \notin Rooms
    BY <1>2 DEF RequestsOK
  <2>1. CASE p \in net
    BY <2>1 DEF BrowserInv, RequestsOK
  <2>2. CASE Answered(p, q)
    BY <2>2 DEF Answered, BrowserInv, RequestsOK, Done, GameOps
  <2> QED
    BY <1>3, <2>1, <2>2
<1>7. ViewsOK'
  <2> SUFFICES ASSUME NEW p \in net'
               PROVE  /\ p.op = "session" /\ p.at = "back" => p.view.teams <= games'[p.game].teams
                      /\ p.op = "start" => games'[p.game].teams >= 2
    BY <1>1, <1>2 DEF ViewsOK
  <2>1. CASE p \in net
    BY <1>1, <2>1
  <2>2. CASE Answered(p, q)
    BY <1>1, <2>2 DEF Answered, GameOps, RoomOps
  <2> QED
    BY <1>3, <2>1, <2>2
<1>8. ASSUME NEW p \in net, p.me.id # 0
      PROVE  /\ rows'[p.me.id].game = rows[p.me.id].game
             /\ ~Picks(q, p.me.id) => rows'[p.me.id].team = rows[p.me.id].team
  <2>1. p.me.id \in 1 .. Len(rows)
    BY <1>4, <1>8
  <2> QED
    BY <2>1 DEF Grows, Picks
<1>9. PlayersOK'
  <2> SUFFICES ASSUME NEW p \in net', Brings(p)
               PROVE  /\ p.me.id # 0 /\ p.me.id # me.id
                      /\ rows'[p.me.id].game = p.game /\ rows'[p.me.id].team = p.me.team
                      /\ \A r \in net' : /\ ~Picks(r, p.me.id)
                                         /\ Brings(r) /\ r # p => r.me.id # p.me.id
    BY <1>2 DEF PlayersOK
  <2>1. CASE p \in net \ {q}
    <3>1. /\ p.me.id # 0 /\ p.me.id # me.id
          /\ rows[p.me.id].game = p.game /\ rows[p.me.id].team = p.me.team
          /\ \A r \in net : ~Picks(r, p.me.id) /\ (Brings(r) /\ r # p => r.me.id # p.me.id)
      BY <2>1 DEF BrowserInv, PlayersOK
    <3>2. rows'[p.me.id].game = p.game /\ rows'[p.me.id].team = p.me.team
      BY <1>8, <2>1, <3>1
    <3>3. ASSUME NEW r \in net', Answered(r, q)
          PROVE  ~Picks(r, p.me.id) /\ (Brings(r) => r.me.id # p.me.id)
      <4>1. ~Picks(r, p.me.id)
        BY <3>1, <3>3 DEF Answered, Picks
      <4>2. Brings(r) => r.me.id # p.me.id
        BY <1>4, <2>1, <3>3 DEF Answered
      <4> QED
        BY <4>1, <4>2
    <3> QED
      BY <1>3, <3>1, <3>2, <3>3
  <2>2. CASE p \notin net \ {q}
    <3>1. Answered(p, q)
      BY <1>3, <2>2
    <3>2. /\ p.me.id = Len(rows) + 1 /\ p.op \in PlayerOps
          /\ rows'[p.me.id].game = p.game /\ rows'[p.me.id].team = p.me.team
      BY <3>1 DEF Answered, Brings
    <3>3. p.me.id # 0 /\ p.me.id # me.id
      <4>1. me.id \in Nat /\ me.id <= Len(rows)
        BY BoundAssumption DEF BrowserInv, Known, StoreOK, Identity
      <4> QED
        BY <1>4, <3>2, <4>1
    <3>4. ASSUME NEW r \in net'
          PROVE  ~Picks(r, p.me.id) /\ (Brings(r) /\ r # p => r.me.id # p.me.id)
      <4>1. CASE r \in net \ {q}
        BY <1>4, <3>2, <4>1 DEF Picks
      <4>2. CASE r \notin net \ {q}
        <5>1. r = p
          BY <1>3, <2>2, <4>2
        <5> QED
          BY <3>2, <5>1 DEF Picks, PlayerOps
      <4> QED
        BY <4>1, <4>2
    <3> QED
      BY <3>2, <3>3, <3>4
  <2> QED
    BY <2>1, <2>2
<1>10. ChoicesOK'
  <2> SUFFICES ASSUME NEW p \in net', p.op = "joinTeam"
               PROVE  /\ p.me.id # 0 /\ p.answer = "ok"
                      /\ p.at = "lost" => crossed'
                      /\ p.live => foreign \/ rows'[p.me.id].game = page.game
                      /\ ~crossed => /\ p.at = "back" => rows'[p.me.id].team = p.team
                                     /\ \A r \in net' : Picks(r, p.me.id) => r = p
    BY <1>2 DEF ChoicesOK
  <2>1. CASE p \in net \ {q}
    <3>1. /\ p.me.id # 0 /\ p.answer = "ok"
          /\ p.at = "lost" => crossed
          /\ p.live => foreign \/ rows[p.me.id].game = page.game
          /\ ~crossed => /\ p.at = "back" => rows[p.me.id].team = p.team
                         /\ \A r \in net : Picks(r, p.me.id) => r = p
      BY <2>1 DEF BrowserInv, ChoicesOK
    <3>2. ASSUME ~crossed PROVE ~Picks(q, p.me.id)
      BY <2>1, <3>1, <3>2
    <3>3. ASSUME ~crossed, NEW r \in net', Picks(r, p.me.id) PROVE r = p
      <4>1. ~Answered(r, q)
        BY <3>2, <3>3 DEF Answered, Picks
      <4> QED
        BY <1>3, <3>1, <3>3, <4>1
    <3> QED
      BY <1>2, <1>8, <2>1, <3>1, <3>2, <3>3
  <2>2. CASE p \notin net \ {q}
    <3>1. Answered(p, q)
      BY <1>3, <2>2
    <3>2. /\ q.op = "joinTeam" /\ p.me = q.me /\ p.team = q.team /\ p.answer = "ok"
          /\ p.live = q.live /\ p.at = "back"
      BY <2>2, <3>1 DEF Answered
    <3>3. /\ q.me.id # 0
          /\ q.live => foreign \/ rows[q.me.id].game = page.game
          /\ ~crossed => \A r \in net : Picks(r, q.me.id) => r = q
      BY <3>2 DEF BrowserInv, ChoicesOK
    <3>4. ASSUME ~crossed, NEW r \in net', Picks(r, p.me.id) PROVE r = p
      BY <1>3, <2>2, <3>2, <3>3, <3>4
    <3>5. rows'[q.me.id].team = q.team
      BY <2>2, <3>2
    <3> QED
      BY <1>8, <3>2, <3>3, <3>4, <3>5
  <2> QED
    BY <2>1, <2>2
<1>11. TeamOK'
  <2> SUFFICES ASSUME me.id # 0, ~crossed, ~\E p \in net' : Picks(p, me.id) /\ p.at = "back"
               PROVE  me.team = rows'[me.id].team
    BY <1>2 DEF TeamOK
  <2>1. me.id \in 1 .. Len(rows)
    BY BoundAssumption DEF BrowserInv, Known, StoreOK, Identity
  <2>2. me.team = rows[me.id].team
    BY <1>3 DEF BrowserInv, TeamOK
  <2>3. CASE \A p \in 1 .. Len(rows) :
               rows'[p].team = rows[p].team \/ (crossed /\ Picks(q, p))
    BY <2>1, <2>2, <2>3
  <2>4. CASE \E a : Answered(a, q) /\ net' = (net \ {q}) \cup {a}
    <3>1. PICK a \in net' : Answered(a, q)
      BY <2>4
    <3>2. ~Picks(q, me.id)
      BY <3>1 DEF Answered, Picks
    <3> QED
      BY <2>1, <2>2, <3>2
  <2> QED
    BY <2>3, <2>4
<1> QED
  BY <1>1, <1>5, <1>6, <1>7, <1>9, <1>10, <1>11 DEF BrowserInv, Known

\* A game changes or is added, and so does a player.
LEMMA GamesGrow ==
  ASSUME StoreOK
  PROVE  /\ \A g \in 1 .. Len(games), r \in Game :
              LET s == [games EXCEPT ![g] = r]
              IN r.teams >= games[g].teams =>
                   /\ s \in Seq(Game) /\ Len(s) = Len(games)
                   /\ \A h \in 1 .. Len(games) : s[h].teams >= games[h].teams
         /\ \A r \in Game :
              LET s == Append(games, r)
              IN /\ s \in Seq(Game) /\ Len(s) = Len(games) + 1
                 /\ \A h \in 1 .. Len(games) : s[h].teams >= games[h].teams
<1>1. games \in Seq(Game) /\ Len(games) \in Nat
  BY DEF StoreOK
<1>2. ASSUME NEW h \in 1 .. Len(games) PROVE games[h].teams \in Nat
  BY GameShape
<1> QED
  BY <1>1, <1>2

LEMMA RowsGrow ==
  ASSUME StoreOK
  PROVE  /\ \A p \in 1 .. Len(rows), r \in PlayerRow :
              LET s == [rows EXCEPT ![p] = r]
              IN r.game = rows[p].game =>
                   /\ s \in Seq(PlayerRow) /\ Len(s) = Len(rows) /\ s[p] = r
                   /\ \A o \in 1 .. Len(rows) : /\ s[o].game = rows[o].game
                                                /\ o # p => s[o] = rows[o]
         /\ \A r \in PlayerRow :
              LET s == Append(rows, r)
              IN /\ s \in Seq(PlayerRow) /\ Len(s) = Len(rows) + 1 /\ s[Len(rows) + 1] = r
                 /\ \A o \in 1 .. Len(rows) : s[o] = rows[o]
<1>1. rows \in Seq(PlayerRow) /\ Len(rows) \in Nat
  BY DEF StoreOK
<1> QED
  BY <1>1

\* An answer as the server sends it.
LEMMA ReplyShape ==
  ASSUME NEW a \in Request
  PROVE  LET b == [a EXCEPT !.at = "back"]
         IN /\ b \in Request /\ b.at = "back" /\ b.op = a.op /\ b.live = a.live
            /\ b.game = a.game /\ b.me = a.me /\ b.auth = a.auth /\ b.answer = a.answer
            /\ b.view = a.view /\ b.team = a.team
BY DEF Request

LEMMA Unsigned ==
  ASSUME NEW a \in Request
  PROVE  LET b == [a EXCEPT !.auth = 0]
         IN /\ b \in Request /\ b.auth = 0 /\ b.op = a.op /\ b.live = a.live
            /\ b.game = a.game /\ b.me = a.me /\ b.answer = a.answer
            /\ b.view = a.view /\ b.team = a.team
BY BoundAssumption DEF Request

\* Nothing but the requests changes, and those of nobody's team.
LEMMA StillGrows ==
  ASSUME BrowserInv, UNCHANGED <<server, token, me, page, ui, news, foreign, crossed>>
  PROVE  Grows /\ \A p \in 1 .. Len(rows) : rows'[p].team = rows[p].team
<1>1. UNCHANGED <<user, games, rows, rounds, issued, expired>>
  BY DEF server
<1>2. StoreOK /\ ScreenOK
  BY DEF BrowserInv, Known
<1>3. ASSUME NEW g \in 1 .. Len(games) PROVE games[g].teams \in Nat
  BY <1>2, GameShape
<1>4. \A g \in 1 .. Len(games) : games'[g].teams >= games[g].teams
  BY <1>1, <1>3
<1> QED
  BY <1>1, <1>2, <1>4, BoundAssumption DEF Grows, StoreOK, ScreenOK

\* A refusal, whatever the reason.
LEMMA RefuseKeeps ==
  ASSUME BrowserInv, Grows, NEW q \in net, q.at # "back", NEW why \in {"401", "error"},
         \A p \in 1 .. Len(rows) : rows'[p].team = rows[p].team,
         why = "401" => q.op \notin {"joinTeam", "session"},
         Refuse(q, why)
  PROVE  BrowserInv'
<1>1. CASE net' = net \ {q}
  BY <1>1, ServedKeeps
<1>2. CASE /\ Reply(q, [q EXCEPT !.answer = why, !.auth = 0])
           /\ q.op \notin {"joinTeam", "session"}
  <2> DEFINE b == [q EXCEPT !.answer = why]
             c == [b EXCEPT !.auth = 0]
             a == [c EXCEPT !.at = "back"]
  <2>1. q \in Request /\ q.game <= Len(games') /\ q.me.id <= Len(rows')
    BY GrowsKeeps DEF BrowserInv, Known, NetOK
  <2>2. b \in Request /\ b.answer = why /\ b.op = q.op /\ b.live = q.live /\ b.game = q.game
        /\ b.me = q.me /\ b.view = q.view
    BY <2>1 DEF Request
  <2>3. net' = (net \ {q}) \cup {a} \/ net' = net \ {q}
    BY <1>2 DEF Reply
  <2> HIDE DEF b
  <2>4. /\ c \in Request /\ c.auth = 0 /\ c.answer = why /\ c.op = q.op /\ c.live = q.live
        /\ c.game = q.game /\ c.me = q.me
    BY <2>2, Unsigned
  <2> HIDE DEF c
  <2>5. /\ a \in Request /\ a.at = "back" /\ a.auth = 0 /\ a.answer = why /\ a.op = q.op
        /\ a.live = q.live /\ a.game = q.game /\ a.me = q.me
    BY <2>4, ReplyShape
  <2> HIDE DEF a
  <2>6. issued' \in Nat /\ user' = user
    BY DEF Grows, BrowserInv, Known, StoreOK
  <2>7. Answered(a, q)
    BY <1>2, <2>1, <2>5, <2>6, SameRequest DEF Answered, Brings, Done
  <2>8. CASE net' = (net \ {q}) \cup {a}
    BY <1>2, <2>7, <2>8, ServedKeeps
  <2> QED
    BY <1>1, <2>3, <2>8
<1> QED
  BY <1>1, <1>2 DEF Refuse, HeardOps, FormOps

\* An answer, whatever it brings.
LEMMA ReplyKeeps ==
  ASSUME BrowserInv, Grows, NEW q \in net, q.at # "back", NEW a \in Request, Reply(q, a),
         a.op = q.op, a.live = q.live, a.answer = "ok",
         a.game <= Len(games'), a.me.id <= Len(rows'), a.auth <= issued',
         q.op \in GameOps => a.game = q.game,
         q.op \in PlayerOps \cup {"create"} => a.game # 0,
         q.op = "session" => a.view.teams <= games'[a.game].teams,
         q.op \in PlayerOps => /\ a.me.id = Len(rows) + 1
                               /\ rows'[a.me.id].game = a.game
                               /\ rows'[a.me.id].team = a.me.team,
         q.op = "joinTeam" => /\ a.me = q.me /\ a.team = q.team
                              /\ rows'[q.me.id].team = q.team,
         \A p \in 1 .. Len(rows) : rows'[p].team = rows[p].team \/ Picks(q, p)
  PROVE  BrowserInv'
<1> DEFINE b == [a EXCEPT !.at = "back"]
<1>1. /\ net' = (net \ {q}) \cup {b} \/ (net' = net \ {q} /\ q.at = "lost")
      /\ user' = user /\ crossed' = crossed
  BY DEF Reply, Grows, BrowserInv, Known, NetOK, Request
<1>2. /\ b \in Request /\ b.at = "back" /\ b.op = a.op /\ b.live = a.live
      /\ b.game = a.game /\ b.me = a.me /\ b.auth = a.auth /\ b.answer = a.answer
      /\ b.view = a.view /\ b.team = a.team
  BY ReplyShape
<1> HIDE DEF b
<1>3. Answered(b, q)
  BY <1>1, <1>2, SameRequest DEF Answered, Brings
<1>4. CASE net' = (net \ {q}) \cup {b}
  BY <1>3, <1>4, ServedKeeps
<1>5. CASE net' = net \ {q} /\ q.at = "lost"
  <2>1. q.op = "joinTeam" => crossed
    BY <1>5 DEF BrowserInv, ChoicesOK
  <2> QED
    BY <1>5, <2>1, ServedKeeps DEF Picks
<1> QED
  BY <1>1, <1>4, <1>5

\* What is known of a request on its way.
LEMMA SentShape ==
  ASSUME BrowserInv, NEW q \in net, q.at # "back"
  PROVE  /\ q \in Request /\ q.answer = "ok" /\ q.auth \in Nat /\ q.auth <= issued
         /\ q.game \in 0 .. Len(games) /\ q.game \in 0 .. MaxGames
         /\ q.me \in Identity /\ q.me.id \in 0 .. Len(rows) /\ q.team \in Team
         /\ q.op \in GameOps => q.game \in 1 .. Len(games)
         /\ q.op = "joinTeam" => q.me.id \in 1 .. Len(rows)
BY BoundAssumption DEF BrowserInv, Known, NetOK, RequestsOK, ChoicesOK, Request, Identity

\* Accept keeps everything when the server did what was asked.
LEMMA AcceptKeeps ==
  ASSUME BrowserInv, Grows, NEW q \in net, q.at # "back", Accept(q),
         q.op \notin PlayerOps \cup {"create", "session"},
         q.op = "joinTeam" => rows'[q.me.id].team = q.team,
         \A p \in 1 .. Len(rows) : rows'[p].team = rows[p].team \/ Picks(q, p)
  PROVE  BrowserInv'
<1> DEFINE a == [q EXCEPT !.auth = 0]
<1>1. /\ a \in Request /\ a.auth = 0 /\ a.op = q.op /\ a.live = q.live
      /\ a.game = q.game /\ a.me = q.me /\ a.answer = "ok" /\ a.team = q.team
  BY SentShape, Unsigned
<1>2. a.game <= Len(games') /\ a.me.id <= Len(rows') /\ a.auth <= issued'
  <2>1. issued' \in Nat
    BY DEF Grows, BrowserInv, Known, StoreOK
  <2> QED
    BY <1>1, <2>1, GrowsKeeps
<1>3. Reply(q, a)
  BY DEF Accept
<1> HIDE DEF a
<1> QED
  BY <1>1, <1>2, <1>3, ReplyKeeps

\* The view of a game is one.
LEMMA ViewShape ==
  ASSUME StoreOK, NEW g \in 1 .. Len(games), NEW manned \in BOOLEAN
  PROVE  [teams |-> games[g].teams, manned |-> manned] \in View
<1>1. games[g].teams \in 0 .. TeamLimit
  BY GameShape DEF Game
<1> QED
  BY <1>1 DEF View

LEMMA ServeReadKeeps ==
  ASSUME BrowserInv, NEW q \in net, q.at # "back", ServeRead(q), UNCHANGED issued,
         UNCHANGED <<user, rounds, expired, token, me, page, ui, breaks, history>>
  PROVE  BrowserInv'
<1>1. UNCHANGED <<server, token, me, page, ui, news, foreign, crossed>>
  BY DEF ServeRead, server, history
<1>2. Grows /\ \A p \in 1 .. Len(rows) : rows'[p].team = rows[p].team
  BY <1>1, StillGrows
<1>3. CASE q.op = "maps"
  <2>1. Accept(q) \/ Refuse(q, "401")
    BY <1>3 DEF ServeRead
  <2> QED
    BY <1>2, <1>3, <2>1, AcceptKeeps, RefuseKeeps DEF PlayerOps
<1>4. CASE q.op = "lookup"
  <2>1. Accept(q)
    BY <1>4 DEF ServeRead
  <2> QED
    BY <1>2, <1>4, <2>1, AcceptKeeps DEF PlayerOps
<1>5. CASE q.op = "session"
  <2>1. q.game \in 1 .. Len(games)
    BY <1>5, SentShape DEF GameOps, RoomOps
  <2> DEFINE manned == \E p \in 1 .. Len(rows) : rows[p].game = q.game /\ rows[p].team # NoTeam
             v == [teams |-> games[q.game].teams, manned |-> manned]
             a == [q EXCEPT !.view = v]
  <2>2. Reply(q, a)
    BY <1>5 DEF ServeRead
  <2>3. manned \in BOOLEAN
    OBVIOUS
  <2> HIDE DEF manned
  <2>4. v \in View /\ v.teams = games[q.game].teams
    BY <2>1, <2>3, ViewShape DEF BrowserInv, Known
  <2> HIDE DEF v
  <2>5. /\ a \in Request /\ a.auth = q.auth /\ a.op = q.op /\ a.live = q.live /\ a.view = v
        /\ a.game = q.game /\ a.me = q.me /\ a.answer = "ok"
    BY <2>4, SentShape DEF Request
  <2> HIDE DEF a
  <2>6. games[q.game].teams \in Nat /\ games' = games
    BY <1>1, <2>1, GameShape DEF server, BrowserInv, Known
  <2>7. a.game <= Len(games') /\ a.me.id <= Len(rows') /\ a.auth <= issued'
    BY <1>2, <2>5, GrowsKeeps
  <2>8. a.view.teams <= games'[a.game].teams
    BY <2>4, <2>5, <2>6
  <2> QED
    BY <1>2, <1>5, <2>2, <2>5, <2>7, <2>8, ReplyKeeps DEF PlayerOps
<1> QED
  BY <1>3, <1>4, <1>5 DEF ServeRead, ReadOps

LEMMA ServeLoginKeeps ==
  ASSUME BrowserInv, NEW q \in net, q.at # "back", ServeLogin(q),
         UNCHANGED <<user, rounds, expired, token, me, page, ui, breaks, history>>
  PROVE  BrowserInv'
<1>1. UNCHANGED <<user, games, rows, rounds, expired, token, me, page, ui, news, foreign, crossed>>
      /\ q.op = "login"
  BY DEF ServeLogin, history
<1>2. CASE Refuse(q, "401") /\ UNCHANGED issued
  <2>1. Grows /\ \A p \in 1 .. Len(rows) : rows'[p].team = rows[p].team
    BY <1>1, <1>2, StillGrows DEF server
  <2> QED
    BY <1>1, <1>2, <2>1, RefuseKeeps
<1>3. CASE issued < MaxTokens /\ issued' = issued + 1 /\ Reply(q, [q EXCEPT !.auth = issued'])
  <2>1. Grows
    <3>1. /\ issued \in Nat /\ expired \in 0 .. issued /\ MaxTokens \in Nat
          /\ games \in Seq(Game) /\ Len(games) <= MaxGames
          /\ rows \in Seq(PlayerRow) /\ Len(rows) <= MaxPlayers
          /\ news \in BOOLEAN /\ (news => page.name = "lobby") /\ rounds \in BOOLEAN
      BY BoundAssumption DEF BrowserInv, Known, StoreOK, ScreenOK
    <3>2. \A g \in 1 .. Len(games) : games[g].teams \in Nat
      BY GameShape DEF BrowserInv, Known
    <3>3. issued' \in issued .. MaxTokens /\ expired' \in 0 .. issued'
      BY <1>1, <1>3, <3>1
    <3> QED
      BY <1>1, <3>1, <3>2, <3>3 DEF Grows
  <2> DEFINE a == [q EXCEPT !.auth = issued']
  <2>2. issued' \in 0 .. MaxTokens
    BY <1>3, BoundAssumption DEF BrowserInv, Known, StoreOK
  <2>3. PICK i \in 0 .. MaxTokens : i = issued'
    BY <2>2
  <2>4. /\ a \in Request /\ a.auth = i /\ a.op = q.op /\ a.live = q.live
        /\ a.game = q.game /\ a.me = q.me /\ a.answer = "ok"
    BY <2>3, SentShape DEF Request
  <2>5. Reply(q, a)
    BY <1>3
  <2> HIDE DEF a
  <2>6. a.game <= Len(games') /\ a.me.id <= Len(rows') /\ a.auth <= issued'
    BY <2>1, <2>2, <2>3, <2>4, GrowsKeeps
  <2> QED
    BY <1>1, <2>1, <2>4, <2>5, <2>6, ReplyKeeps DEF PlayerOps, GameOps, RoomOps
<1> QED
  BY <1>2, <1>3 DEF ServeLogin

\* A session, a team, a player or a start is something more.
LEMMA MoreGrows ==
  ASSUME BrowserInv,
         UNCHANGED <<user, rounds, issued, expired, token, me, page, ui, foreign, crossed>>,
         \/ games' = games
         \/ \E g \in 1 .. Len(games), r \in Game :
              r.teams >= games[g].teams /\ games' = [games EXCEPT ![g] = r]
         \/ Len(games) < MaxGames /\ \E r \in Game : games' = Append(games, r),
         \/ rows' = rows
         \/ \E p \in 1 .. Len(rows), r \in PlayerRow :
              r.game = rows[p].game /\ rows' = [rows EXCEPT ![p] = r]
         \/ Len(rows) < MaxPlayers /\ \E r \in PlayerRow : rows' = Append(rows, r),
         news' = news \/ (news' \in BOOLEAN /\ (news' => page.name = "lobby"))
  PROVE  Grows
<1>1. /\ issued \in 0 .. MaxTokens /\ expired \in 0 .. issued /\ MaxTokens \in Nat
      /\ MaxGames \in Nat /\ MaxPlayers \in Nat
      /\ games \in Seq(Game) /\ Len(games) <= MaxGames /\ Len(games) \in Nat
      /\ rows \in Seq(PlayerRow) /\ Len(rows) <= MaxPlayers /\ Len(rows) \in Nat
      /\ news \in BOOLEAN /\ (news => page.name = "lobby") /\ StoreOK /\ rounds' \in BOOLEAN
  BY BoundAssumption DEF BrowserInv, Known, StoreOK, ScreenOK
<1>2. /\ games' \in Seq(Game) /\ Len(games') <= MaxGames /\ Len(games) <= Len(games')
      /\ \A h \in 1 .. Len(games) : games'[h].teams >= games[h].teams
  <2>1. CASE games' = games
    <3>1. \A h \in 1 .. Len(games) : games[h].teams \in Nat
      BY <1>1, GameShape
    <3> QED
      BY <1>1, <2>1, <3>1
  <2>2. CASE \E g \in 1 .. Len(games), r \in Game :
               r.teams >= games[g].teams /\ games' = [games EXCEPT ![g] = r]
    <3>1. PICK g \in 1 .. Len(games), r \in Game :
                 r.teams >= games[g].teams /\ games' = [games EXCEPT ![g] = r]
      BY <2>2
    <3> DEFINE s == [games EXCEPT ![g] = r]
    <3>2. /\ s \in Seq(Game) /\ Len(s) = Len(games)
          /\ \A h \in 1 .. Len(games) : s[h].teams >= games[h].teams
      BY <1>1, <3>1, GamesGrow
    <3> HIDE DEF s
    <3>3. games' = s
      BY <3>1 DEF s
    <3> QED
      BY <1>1, <3>2, <3>3
  <2>3. CASE Len(games) < MaxGames /\ \E r \in Game : games' = Append(games, r)
    <3>1. PICK r \in Game : games' = Append(games, r)
      BY <2>3
    <3> DEFINE s == Append(games, r)
    <3>2. /\ s \in Seq(Game) /\ Len(s) = Len(games) + 1
          /\ \A h \in 1 .. Len(games) : s[h].teams >= games[h].teams
      BY <1>1, GamesGrow
    <3> HIDE DEF s
    <3>3. games' = s
      BY <3>1 DEF s
    <3> QED
      BY <1>1, <2>3, <3>2, <3>3
  <2> QED
    BY <2>1, <2>2, <2>3
<1>3. /\ rows' \in Seq(PlayerRow) /\ Len(rows') <= MaxPlayers /\ Len(rows) <= Len(rows')
      /\ \A o \in 1 .. Len(rows) : rows'[o].game = rows[o].game
  <2>1. CASE rows' = rows
    BY <1>1, <2>1
  <2>2. CASE \E p \in 1 .. Len(rows), r \in PlayerRow :
               r.game = rows[p].game /\ rows' = [rows EXCEPT ![p] = r]
    <3>1. PICK p \in 1 .. Len(rows), r \in PlayerRow :
                 r.game = rows[p].game /\ rows' = [rows EXCEPT ![p] = r]
      BY <2>2
    <3> DEFINE s == [rows EXCEPT ![p] = r]
    <3>2. /\ s \in Seq(PlayerRow) /\ Len(s) = Len(rows)
          /\ \A o \in 1 .. Len(rows) : s[o].game = rows[o].game
      BY <1>1, <3>1, RowsGrow
    <3> HIDE DEF s
    <3>3. rows' = s
      BY <3>1 DEF s
    <3> QED
      BY <1>1, <3>2, <3>3
  <2>3. CASE Len(rows) < MaxPlayers /\ \E r \in PlayerRow : rows' = Append(rows, r)
    <3>1. PICK r \in PlayerRow : rows' = Append(rows, r)
      BY <2>3
    <3> DEFINE s == Append(rows, r)
    <3>2. /\ s \in Seq(PlayerRow) /\ Len(s) = Len(rows) + 1
          /\ \A o \in 1 .. Len(rows) : s[o] = rows[o]
      BY <1>1, RowsGrow
    <3> HIDE DEF s
    <3>3. rows' = s
      BY <3>1 DEF s
    <3> QED
      BY <1>1, <2>3, <3>2, <3>3
  <2> QED
    BY <2>1, <2>2, <2>3
<1>4. issued' \in issued .. MaxTokens /\ expired' \in 0 .. issued'
      /\ news' \in BOOLEAN /\ (news' => page.name = "lobby")
  BY <1>1
<1> QED
  BY <1>1, <1>2, <1>3, <1>4 DEF Grows

\* A session as it is created, a team more, and a game that is started.
LEMMA NewGameShape ==
  ASSUME NEW solo \in BOOLEAN, NEW mine \in BOOLEAN, NEW phase \in Phases
  PROVE  /\ NewGame(solo, mine) \in Game
         /\ [NewGame(solo, mine) EXCEPT !.phase = phase] \in Game
BY BoundAssumption DEF NewGame, Game, Phases

LEMMA GameChanges ==
  ASSUME StoreOK, NEW g \in 1 .. Len(games), games[g].teams < TeamLimit
  PROVE  /\ [games[g] EXCEPT !.teams = @ + 1] \in Game
         /\ [games[g] EXCEPT !.teams = @ + 1].teams >= games[g].teams
         /\ [games EXCEPT ![g].teams = @ + 1] =
              [games EXCEPT ![g] = [games[g] EXCEPT !.teams = @ + 1]]
<1>1. games[g] \in Game /\ games[g].teams \in Nat
  BY GameShape
<1>2. ASSUME NEW r \in Game, r.teams < TeamLimit, r.teams \in Nat
      PROVE  [r EXCEPT !.teams = @ + 1] \in Game /\ [r EXCEPT !.teams = @ + 1].teams >= r.teams
  BY <1>2, BoundAssumption DEF Game
<1>3. [games EXCEPT ![g].teams = @ + 1] = [games EXCEPT ![g] = [games[g] EXCEPT !.teams = @ + 1]]
  OBVIOUS
<1> QED
  BY <1>1, <1>2, <1>3

LEMMA PhaseChanges ==
  ASSUME StoreOK, NEW g \in 1 .. Len(games), NEW phase \in Phases
  PROVE  /\ [games[g] EXCEPT !.phase = phase] \in Game
         /\ [games[g] EXCEPT !.phase = phase].teams >= games[g].teams
         /\ [games EXCEPT ![g].phase = phase] =
              [games EXCEPT ![g] = [games[g] EXCEPT !.phase = phase]]
<1>1. games[g] \in Game /\ games[g].teams \in Nat
  BY GameShape
<1>2. ASSUME NEW r \in Game, r.teams \in Nat
      PROVE  [r EXCEPT !.phase = phase] \in Game /\ [r EXCEPT !.phase = phase].teams >= r.teams
  <2>1. [r EXCEPT !.phase = phase] \in Game /\ [r EXCEPT !.phase = phase].teams = r.teams
    BY DEF Game
  <2> QED
    BY <1>2, <2>1
<1>3. [games EXCEPT ![g].phase = phase] = [games EXCEPT ![g] = [games[g] EXCEPT !.phase = phase]]
  OBVIOUS
<1> QED
  BY <1>1, <1>2, <1>3

\* A game that goes from phase to phase.
LEMMA TurnGrows ==
  ASSUME BrowserInv, NEW g \in 1 .. Len(games), NEW phase \in Phases, Turn(g, phase),
         UNCHANGED <<user, rows, rounds, issued, expired, token, me, page, ui, foreign, crossed>>
  PROVE  Grows
<1>1. news' \in BOOLEAN /\ (news' => page.name = "lobby")
  BY DEF Turn, Listening, BrowserInv, Known, ScreenOK
<1>2. games' = [games EXCEPT ![g].phase = phase] /\ StoreOK
  BY DEF Turn, BrowserInv, Known
<1> QED
  BY <1>1, <1>2, PhaseChanges, MoreGrows

\* The answer that brings a player.
LEMMA NewPlayerShape ==
  ASSUME NEW q \in Request, NEW team \in Team, NEW n \in 0 .. MaxPlayers, NEW g \in 0 .. MaxGames,
         Len(rows') = n, rows'[n].game = g
  PROVE  /\ NewPlayer(q, team) \in Request /\ NewPlayer(q, team).op = q.op
         /\ NewPlayer(q, team).live = q.live /\ NewPlayer(q, team).answer = q.answer
         /\ NewPlayer(q, team).auth = 0 /\ NewPlayer(q, team).game = g
         /\ NewPlayer(q, team).me.id = n /\ NewPlayer(q, team).me.team = team
<1> DEFINE m == [id |-> n, team |-> team]
           b == [q EXCEPT !.me = m]
           c == [b EXCEPT !.game = g]
           d == [c EXCEPT !.auth = 0]
<1>1. NewPlayer(q, team) = d
  BY DEF NewPlayer
<1>2. m \in Identity /\ m.id = n /\ m.team = team
  BY DEF Identity
<1> HIDE DEF m
<1>3. b \in Request /\ b.op = q.op /\ b.live = q.live /\ b.answer = q.answer /\ b.me = m
  BY <1>2 DEF Request
<1> HIDE DEF b
<1>4. c \in Request /\ c.op = b.op /\ c.live = b.live /\ c.answer = b.answer /\ c.me = b.me
      /\ c.game = g
  BY <1>3 DEF Request
<1> HIDE DEF c
<1>5. /\ d \in Request /\ d.auth = 0 /\ d.op = c.op /\ d.live = c.live
      /\ d.game = c.game /\ d.me = c.me /\ d.answer = c.answer
  BY <1>4, Unsigned
<1> HIDE DEF d
<1> QED
  BY <1>1, <1>2, <1>3, <1>4, <1>5

\* A player as it joins.
LEMMA NewRow ==
  ASSUME BrowserInv, NEW r \in PlayerRow, rows' = Append(rows, r)
  PROVE  /\ Len(rows') = Len(rows) + 1 /\ rows'[Len(rows) + 1] = r
         /\ \A p \in 1 .. Len(rows) : rows'[p] = rows[p]
         /\ Len(rows) \in Nat
<1> DEFINE s == Append(rows, r)
<1>1. /\ Len(s) = Len(rows) + 1 /\ s[Len(rows) + 1] = r
      /\ \A p \in 1 .. Len(rows) : s[p] = rows[p]
  BY RowsGrow DEF BrowserInv, Known
<1> HIDE DEF s
<1>2. rows' = s /\ Len(rows) \in Nat
  BY DEF s, BrowserInv, Known, StoreOK
<1> QED
  BY <1>1, <1>2

\* Sessions, teams and starts.
LEMMA ServeGameKeeps ==
  ASSUME BrowserInv, NEW q \in net, q.at # "back",
         ServeCreate(q) \/ ServeCreateTeam(q) \/ ServeStart(q), UNCHANGED issued,
         UNCHANGED <<user, rounds, expired, token, me, page, ui, breaks, history>>
  PROVE  BrowserInv'
<1>0. /\ UNCHANGED <<user, rounds, issued, expired, token, me, page, ui, foreign, crossed, rows>>
      /\ \A p \in 1 .. Len(rows) : rows'[p].team = rows[p].team
      /\ StoreOK
  BY DEF ServeCreate, ServeCreateTeam, ServeStart, history, BrowserInv, Known
<1>1. ASSUME UNCHANGED <<games, news>>, NEW why \in {"401", "error"}, Refuse(q, why),
             q.op \notin {"joinTeam", "session"}
      PROVE  BrowserInv'
  BY <1>0, <1>1, MoreGrows, RefuseKeeps
<1>2. CASE ServeCreate(q)
  <2>1. CASE Authorised(q)
    <3> DEFINE n == Len(games) + 1
               b == [q EXCEPT !.game = n]
               a == [b EXCEPT !.auth = 0]
    <3>1. /\ q.op = "create" /\ Len(games) < MaxGames /\ news' = news
          /\ games' = Append(games, NewGame(FALSE, TRUE))
      BY <1>2, <2>1 DEF ServeCreate
    <3>2. Grows
      BY <1>0, <3>1, NewGameShape, MoreGrows DEF Phases
    <3>3. Len(games') = n /\ n \in 0 .. MaxGames /\ n # 0
      BY <1>0, <3>1, BoundAssumption DEF StoreOK
    <3>4. Reply(q, a)
      BY <1>2, <2>1, <3>3 DEF ServeCreate
    <3> HIDE DEF n
    <3>5. b \in Request /\ b.op = q.op /\ b.live = q.live /\ b.answer = "ok" /\ b.game = n
          /\ b.me = q.me
      BY <3>3, SentShape DEF Request
    <3> HIDE DEF b
    <3>6. /\ a \in Request /\ a.auth = 0 /\ a.op = q.op /\ a.live = q.live
          /\ a.game = n /\ a.me = q.me /\ a.answer = "ok"
      BY <3>5, Unsigned
    <3> HIDE DEF a
    <3>7. a.game <= Len(games') /\ a.me.id <= Len(rows') /\ a.auth <= issued'
      <4>1. issued' \in Nat /\ n \in Nat
        BY <1>0, <3>3 DEF StoreOK
      <4> QED
        BY <3>2, <3>3, <3>6, <4>1, GrowsKeeps
    <3> QED
      BY <1>0, <3>1, <3>2, <3>3, <3>4, <3>6, <3>7, ReplyKeeps DEF PlayerOps, GameOps, RoomOps
  <2>2. CASE ~Authorised(q)
    BY <1>1, <1>2, <2>2 DEF ServeCreate
  <2> QED
    BY <2>1, <2>2
<1>3. CASE ServeCreateTeam(q)
  <2>1. q.game \in 1 .. Len(games) /\ q.op = "createTeam" /\ news' = news
    BY <1>3, SentShape DEF ServeCreateTeam, GameOps, RoomOps
  <2>2. CASE games[q.game].teams < TeamLimit
    <3>1. games' = [games EXCEPT ![q.game].teams = @ + 1] /\ Accept(q)
      BY <1>3, <2>2 DEF ServeCreateTeam
    <3>2. Grows
      BY <1>0, <2>1, <2>2, <3>1, GameChanges, MoreGrows
    <3> QED
      BY <1>0, <2>1, <3>1, <3>2, AcceptKeeps DEF PlayerOps
  <2>3. CASE ~(games[q.game].teams < TeamLimit)
    BY <1>1, <1>3, <2>1, <2>3 DEF ServeCreateTeam
  <2> QED
    BY <2>2, <2>3
<1>4. CASE ServeStart(q)
  <2>1. q.game \in 1 .. Len(games) /\ q.op \in {"start", "soloStart"}
    BY <1>4, SentShape DEF ServeStart, GameOps, RoomOps
  <2>2. CASE Turn(q.game, "on") /\ Accept(q)
    <3>1. Grows
      BY <1>0, <2>1, <2>2, TurnGrows DEF Phases
    <3> QED
      BY <1>0, <2>1, <2>2, <3>1, AcceptKeeps DEF PlayerOps
  <2>3. CASE \E why \in {"401", "error"} : Refuse(q, why) /\ UNCHANGED <<games, news>>
    BY <1>1, <2>1, <2>3
  <2> QED
    BY <1>4, <2>2, <2>3 DEF ServeStart
<1> QED
  BY <1>2, <1>3, <1>4

\* Players.
LEMMA ServePlayerKeeps ==
  ASSUME BrowserInv, NEW q \in net, q.at # "back",
         ServeJoin(q) \/ ServeJoinTeam(q) \/ ServeSolo(q), UNCHANGED issued,
         UNCHANGED <<user, rounds, expired, token, me, page, ui, breaks, history>>
  PROVE  BrowserInv'
<1>0. /\ UNCHANGED <<user, rounds, issued, expired, token, me, page, ui, foreign, crossed, news>>
      /\ StoreOK /\ NoTeam \in Team /\ Len(rows) \in Nat /\ Len(games) \in Nat
      /\ MaxPlayers \in Nat /\ MaxGames \in Nat /\ issued' \in Nat
  BY BoundAssumption DEF ServeJoin, ServeJoinTeam, ServeSolo, history, BrowserInv, Known, StoreOK,
     NoTeam, Team
<1>1. ASSUME UNCHANGED <<games, rows>>, NEW why \in {"401", "error"}, Refuse(q, why),
             q.op \notin {"joinTeam", "session"}
      PROVE  BrowserInv'
  BY <1>0, <1>1, MoreGrows, RefuseKeeps
<1>2. ASSUME NEW team \in Team, NEW g \in 1 .. MaxGames, Grows,
             rows' = Append(rows, [game |-> g, team |-> team]), Len(rows) < MaxPlayers,
             Reply(q, NewPlayer(q, team)), g <= Len(games'),
             q.op \in PlayerOps, q.op \in GameOps => g = q.game
      PROVE  BrowserInv'
  <2> DEFINE r == [game |-> g, team |-> team]
             n == Len(rows) + 1
             a == NewPlayer(q, team)
  <2>1. r \in PlayerRow /\ r.game = g /\ r.team = team
    BY DEF PlayerRow
  <2>2. rows' = Append(rows, r)
    BY <1>2
  <2> HIDE DEF r
  <2>3. Len(rows') = n /\ rows'[n] = r /\ \A p \in 1 .. Len(rows) : rows'[p] = rows[p]
    BY <2>1, <2>2, NewRow
  <2>4. n \in 0 .. MaxPlayers /\ n \in Nat /\ g \in 0 .. MaxGames
    BY <1>0, <1>2
  <2>5. /\ a \in Request /\ a.op = q.op /\ a.live = q.live /\ a.answer = "ok"
        /\ a.auth = 0 /\ a.game = g /\ a.me.id = n /\ a.me.team = team
    BY <2>1, <2>3, <2>4, NewPlayerShape, SentShape
  <2> HIDE DEF a
  <2>6. /\ rows'[a.me.id].game = a.game /\ rows'[a.me.id].team = a.me.team
        /\ a.me.id = Len(rows) + 1 /\ a.me.id <= Len(rows') /\ a.auth <= issued' /\ a.game # 0
    BY <1>0, <2>1, <2>3, <2>4, <2>5
  <2>7. Reply(q, a) /\ q.op # "joinTeam" /\ q.op # "session"
    BY <1>2 DEF a, PlayerOps
  <2> HIDE DEF n
  <2> QED
    BY <1>2, <2>3, <2>5, <2>6, <2>7, ReplyKeeps
<1>3. CASE ServeJoin(q)
  <2>1. q.op \in {"join", "joinHere"} /\ q.game \in 1 .. Len(games) /\ games' = games
    BY <1>3, SentShape DEF ServeJoin, GameOps, RoomOps
  <2>2. q.game \in 1 .. MaxGames
    BY <1>0, <2>1 DEF StoreOK
  <2>3. CASE /\ rows' = Append(rows, [game |-> q.game, team |-> NoTeam])
             /\ Len(rows) < MaxPlayers /\ Reply(q, NewPlayer(q, NoTeam))
    <3>1. /\ rows' = Append(rows, [game |-> q.game, team |-> NoTeam]) /\ Len(rows) < MaxPlayers
          /\ Reply(q, NewPlayer(q, NoTeam))
      BY <2>3
    <3>2. [game |-> q.game, team |-> NoTeam] \in PlayerRow
      BY <1>0, <2>2 DEF PlayerRow
    <3>3. Grows
      BY <1>0, <2>1, <3>1, <3>2, MoreGrows
    <3> QED
      BY <1>0, <1>2, <2>1, <2>2, <3>1, <3>3 DEF PlayerOps
  <2>4. CASE Refuse(q, "error") /\ UNCHANGED rows
    BY <1>1, <2>1, <2>4
  <2> QED
    BY <1>3, <2>3, <2>4 DEF ServeJoin
<1>4. CASE ServeJoinTeam(q)
  <2>1. /\ q.op = "joinTeam" /\ Accept(q) /\ games' = games
        /\ rows' = [rows EXCEPT ![q.me.id].team = q.team]
    BY <1>4 DEF ServeJoinTeam
  <2>2. q.me.id \in 1 .. Len(rows) /\ q.team \in Team
    BY <2>1, SentShape
  <2> DEFINE r == [rows[q.me.id] EXCEPT !.team = q.team]
  <2>3. r \in PlayerRow /\ r.game = rows[q.me.id].game /\ r.team = q.team
    BY <1>0, <2>2, PlayerShape DEF PlayerRow
  <2>4. rows' = [rows EXCEPT ![q.me.id] = r]
    BY <2>1
  <2> HIDE DEF r
  <2>5. Grows
    BY <1>0, <2>1, <2>2, <2>3, <2>4, MoreGrows
  <2>6. rows'[q.me.id] = r /\ \A p \in 1 .. Len(rows) : p # q.me.id => rows'[p] = rows[p]
    BY <1>0, <2>2, <2>3, <2>4, RowsGrow
  <2> QED
    BY <2>1, <2>3, <2>5, <2>6, AcceptKeeps DEF PlayerOps, Picks
<1>5. CASE ServeSolo(q)
  <2>1. q.op \in {"solo", "demo"}
    BY <1>5 DEF ServeSolo
  <2>2. CASE IF q.op = "demo" THEN rounds ELSE Authorised(q)
    <3> DEFINE g == Len(games) + 1
               team == [game |-> g, n |-> 1]
               mine == q.op = "solo"
               phase == IF q.op = "demo" THEN "on" ELSE "waiting"
               r == [NewGame(TRUE, mine) EXCEPT !.phase = phase]
    <3>1. /\ Len(games) < MaxGames /\ Len(rows) < MaxPlayers
          /\ games' = Append(games, r) /\ rows' = Append(rows, [game |-> g, team |-> team])
          /\ Reply(q, NewPlayer(q, team))
      BY <1>5, <2>2 DEF ServeSolo, NewGame
    <3>2. mine \in BOOLEAN /\ phase \in Phases
      BY DEF Phases
    <3> HIDE DEF mine, phase
    <3>3. r \in Game
      BY <3>2, NewGameShape
    <3> HIDE DEF r
    <3>4. g \in 1 .. MaxGames /\ g <= Len(games')
      BY <1>0, <3>1, <3>3 DEF StoreOK
    <3> HIDE DEF g
    <3>5. team \in Team /\ [game |-> g, team |-> team] \in PlayerRow
      <4>1. team \in Team
        BY <3>4, BoundAssumption DEF Team
      <4> HIDE DEF team
      <4> QED
        BY <3>4, <4>1 DEF PlayerRow
    <3> HIDE DEF team
    <3>6. Grows
      BY <1>0, <3>1, <3>3, <3>5, MoreGrows
    <3>7. q.op \in PlayerOps /\ q.op \notin GameOps
      BY <2>1 DEF PlayerOps, GameOps, RoomOps
    <3> QED
      BY <1>2, <3>1, <3>4, <3>5, <3>6, <3>7
  <2>3. CASE ~(IF q.op = "demo" THEN rounds ELSE Authorised(q))
    BY <1>1, <1>5, <2>1, <2>3 DEF ServeSolo
  <2> QED
    BY <2>2, <2>3
<1> QED
  BY <1>3, <1>4, <1>5

-----------------------------------------------------------------------------
(* Every step                                                              *)

LEMMA ServeKeeps ==
  ASSUME BrowserInv, NEW q \in net, Serve(q)
  PROVE  BrowserInv'
<1>1. q.at # "back" /\ UNCHANGED <<user, rounds, expired, token, me, page, ui, breaks, history>>
  BY DEF Serve
<1>2. CASE ServeLogin(q)
  BY <1>1, <1>2, ServeLoginKeeps
<1>3. CASE ServeRead(q) /\ UNCHANGED issued
  BY <1>1, <1>3, ServeReadKeeps
<1>4. CASE (ServeCreate(q) \/ ServeCreateTeam(q) \/ ServeStart(q)) /\ UNCHANGED issued
  BY <1>1, <1>4, ServeGameKeeps
<1>5. CASE (ServeJoin(q) \/ ServeJoinTeam(q) \/ ServeSolo(q)) /\ UNCHANGED issued
  BY <1>1, <1>5, ServePlayerKeeps
<1> QED
  BY <1>2, <1>3, <1>4, <1>5 DEF Serve

\* What a form is told when its request fails.
Failed(a, q) ==
  /\ q.op \in HeardOps
  /\ a = [q EXCEPT !.at = "back", !.answer = "error", !.auth = 0]

LEMMA FailedShape ==
  ASSUME NEW q \in Request, NEW a, Failed(a, q)
  PROVE  /\ a \in Request /\ a.at = "back" /\ a.answer = "error" /\ a.auth = 0 /\ a.op = q.op
         /\ a.game = q.game /\ a.me = q.me /\ a.live = q.live /\ a.op \in HeardOps
<1> DEFINE b == [q EXCEPT !.at = "back"]
           c == [b EXCEPT !.answer = "error"]
           d == [c EXCEPT !.auth = 0]
<1>1. a = d /\ q.op \in HeardOps
  BY DEF Failed
<1>2. b \in Request /\ b.at = "back" /\ b.op = q.op /\ b.game = q.game /\ b.me = q.me
      /\ b.live = q.live
  BY DEF Request
<1> HIDE DEF b
<1>3. c \in Request /\ c.at = b.at /\ c.answer = "error" /\ c.op = b.op /\ c.game = b.game
      /\ c.me = b.me /\ c.live = b.live
  BY <1>2 DEF Request
<1> HIDE DEF c
<1>4. d \in Request /\ d.at = c.at /\ d.answer = c.answer /\ d.auth = 0 /\ d.op = c.op
      /\ d.game = c.game /\ d.me = c.me /\ d.live = c.live
  BY <1>3, BoundAssumption DEF Request
<1> HIDE DEF d
<1> QED
  BY <1>1, <1>2, <1>3, <1>4

\* A request whose answer nobody hears, wherever it got lost.
LEMMA LoseKeeps ==
  ASSUME BrowserInv, UNCHANGED <<server, token, me, page, ui, news, foreign>>,
         crossed' \in BOOLEAN, ~crossed' => ~crossed,
         NEW q \in net, q.op = "joinTeam" => crossed', net \ {q} \subseteq net',
         IsFiniteSet(net'), Cardinality(net') <= MaxRequests[user] + 1,
         \A a \in net' : a \in net \/ Adrift(a, q) \/ Failed(a, q)
  PROVE  BrowserInv'
<1>1. UNCHANGED <<user, games, rows, rounds, issued, expired>> /\ q \in Request
      /\ net \subseteq Request
  BY DEF server, BrowserInv, Known, NetOK
<1>2. /\ q.game <= Len(games) /\ q.me.id <= Len(rows) /\ q.auth <= issued /\ 0 <= issued
      /\ q.at # "back" => q.answer = "ok"
      /\ q.op \in GameOps => q.game # 0
      /\ q.live /\ q.op = "solo" => page.name \notin Rooms
      /\ q.op = "start" => games[q.game].teams >= 2
  BY BoundAssumption DEF BrowserInv, Known, NetOK, StoreOK, RequestsOK, ViewsOK
<1>3. ASSUME NEW a \in net', Adrift(a, q)
      PROVE  /\ a \in Request /\ a.at = "lost" /\ a.live = FALSE /\ a.op = q.op
             /\ a.answer = "ok" /\ a.game = q.game /\ a.me = q.me /\ a.auth = q.auth
  <2>1. q.at # "back"
    BY <1>3 DEF Adrift
  <2> QED
    BY <1>1, <1>2, <1>3, <2>1, AdriftShape
<1>4. ASSUME NEW a \in net', Failed(a, q)
      PROVE  /\ a \in Request /\ a.at = "back" /\ a.answer = "error" /\ a.auth = 0 /\ a.op = q.op
             /\ a.game = q.game /\ a.me = q.me /\ a.live = q.live
             /\ a.op \notin RoomOps \cup {"joinTeam"}
  BY <1>1, <1>4, FailedShape DEF HeardOps, FormOps, RoomOps
<1>5. Known'
  <2>1. StoreOK' /\ ScreenOK'
    BY <1>1 DEF BrowserInv, Known, StoreOK, ScreenOK
  <2>2. ASSUME NEW a \in net'
        PROVE  a \in Request /\ a.game <= Len(games) /\ a.me.id <= Len(rows) /\ a.auth <= issued
    BY <1>2, <1>3, <1>4 DEF BrowserInv, Known, NetOK
  <2> QED
    BY <1>1, <2>1, <2>2, SameRequest DEF Known, NetOK
<1>6. RequestsOK'
  <2> SUFFICES ASSUME NEW p \in net'
               PROVE  /\ p.at # "back" => p.answer = "ok"
                      /\ p.at = "lost" => ~p.live
                      /\ p.op \in GameOps => p.game # 0
                      /\ (p.op \in PlayerOps \cup {"create"} /\ Done(p)) => p.game # 0
                      /\ p.live /\ p.op \in RoomOps =>
                            page = [name |-> "lobby", game |-> p.game]
                      /\ p.live /\ p.op = "solo" => page.name \notin Rooms
    BY DEF RequestsOK
  <2>1. CASE p \in net
    BY <2>1 DEF BrowserInv, RequestsOK
  <2>2. CASE Adrift(p, q)
    BY <1>2, <1>3, <2>2 DEF Done
  <2>3. CASE Failed(p, q)
    BY <1>2, <1>4, <2>3 DEF Done
  <2> QED
    BY <2>1, <2>2, <2>3
<1>7. ViewsOK'
  <2>1. ASSUME NEW p \in net'
        PROVE  /\ p.op = "session" /\ p.at = "back" => p.view.teams <= games[p.game].teams
               /\ p.op = "start" => games[p.game].teams >= 2
    <3>1. CASE p \in net
      BY <3>1 DEF BrowserInv, ViewsOK
    <3>2. CASE Adrift(p, q)
      BY <1>2, <1>3, <3>2
    <3>3. CASE Failed(p, q)
      BY <1>4, <3>3 DEF RoomOps
    <3> QED
      BY <3>1, <3>2, <3>3
  <2> QED
    BY <1>1, <2>1 DEF BrowserInv, ViewsOK
<1>8. ASSUME NEW p \in net', Brings(p) PROVE p \in net
  BY <1>3, <1>4, <1>8 DEF Brings, Done
<1>9. ASSUME NEW p \in net', NEW n, Picks(p, n) PROVE p \in net \/ (Picks(q, n) /\ crossed')
  BY <1>3, <1>4, <1>9 DEF Picks
<1>10. PlayersOK'
  <2> SUFFICES ASSUME NEW p \in net', Brings(p)
               PROVE  /\ p.me.id # 0 /\ p.me.id # me.id
                      /\ rows[p.me.id].game = p.game /\ rows[p.me.id].team = p.me.team
                      /\ \A a \in net' : /\ ~Picks(a, p.me.id)
                                         /\ Brings(a) /\ a # p => a.me.id # p.me.id
    BY <1>1 DEF PlayersOK
  <2> QED
    BY <1>8, <1>9 DEF BrowserInv, PlayersOK
<1>11. ChoicesOK'
  <2> SUFFICES ASSUME NEW p \in net', p.op = "joinTeam"
               PROVE  /\ p.me.id # 0 /\ p.answer = "ok"
                      /\ p.at = "lost" => crossed'
                      /\ p.live => foreign \/ rows[p.me.id].game = page.game
                      /\ ~crossed' => /\ p.at = "back" => rows[p.me.id].team = p.team
                                      /\ \A a \in net' : Picks(a, p.me.id) => a = p
    BY <1>1 DEF ChoicesOK
  <2>1. CASE p \in net
    BY <1>9, <2>1 DEF BrowserInv, ChoicesOK
  <2>2. CASE Adrift(p, q)
    BY <1>3, <2>2 DEF BrowserInv, ChoicesOK
  <2> QED
    BY <1>4, <2>1, <2>2
<1>12. TeamOK'
  <2> SUFFICES ASSUME me.id # 0, ~crossed', ~\E p \in net' : Picks(p, me.id) /\ p.at = "back"
               PROVE  me.team = rows[me.id].team
    BY <1>1 DEF TeamOK
  <2>1. ASSUME NEW p \in net, Picks(p, me.id) PROVE p \in net'
    BY <2>1 DEF Picks
  <2> QED
    BY <2>1 DEF BrowserInv, TeamOK
<1>13. IdentityFollows'
  BY <1>1 DEF BrowserInv, IdentityFollows
<1> QED
  BY <1>5, <1>6, <1>7, <1>10, <1>11, <1>12, <1>13 DEF BrowserInv

LEMMA FailKeeps ==
  ASSUME BrowserInv, NEW q \in net, Fail(q)
  PROVE  BrowserInv'
<1>1. /\ UNCHANGED <<server, token, me, page, ui, news, foreign>>
      /\ crossed' = (crossed \/ q.op = "joinTeam") /\ user' = user
  BY DEF Fail, server
<1>2. crossed' \in BOOLEAN /\ (~crossed' => ~crossed)
  BY <1>1 DEF BrowserInv, Known, StoreOK
<1> DEFINE l == [q EXCEPT !.at = "lost", !.live = FALSE]
           e == [q EXCEPT !.at = "back", !.answer = "error", !.auth = 0]
<1>3. PICK still \in {{}, {l}} :
        /\ still # {} => q.at = "sent"
        /\ net' = (net \ {q}) \cup still \cup (IF q.op \in HeardOps THEN {e} ELSE {})
        /\ Cardinality(net') <= MaxRequests[user] + 1
  BY DEF Fail
<1>4. IsFiniteSet(net')
  <2>1. IsFiniteSet(net \ {q}) /\ IsFiniteSet(still)
    BY <1>3, FS_Subset, FS_EmptySet, FS_Singleton DEF BrowserInv, Known, NetOK
  <2>2. IsFiniteSet(IF q.op \in HeardOps THEN {e} ELSE {})
    BY FS_EmptySet, FS_Singleton
  <2> HIDE DEF e
  <2> QED
    BY <1>3, <2>1, <2>2, FS_Union
<1>5. \A a \in net' : a \in net \/ Adrift(a, q) \/ Failed(a, q)
  BY <1>3 DEF Adrift, Failed
<1> QED
  BY <1>1, <1>2, <1>3, <1>4, <1>5, LoseKeeps

LEMMA VanishKeeps ==
  ASSUME BrowserInv, NEW q \in net, Vanish(q)
  PROVE  BrowserInv'
<1>1. /\ UNCHANGED <<server, token, me, page, ui, news, foreign, crossed>>
      /\ net' = net \ {q} /\ q.at = "lost"
  BY DEF Vanish, history
<1>2. crossed \in BOOLEAN /\ (q.op = "joinTeam" => crossed)
  BY <1>1 DEF BrowserInv, Known, StoreOK, ChoicesOK
<1>3. /\ IsFiniteSet(net) /\ Cardinality(net) \in Nat /\ MaxRequests[user] \in Nat
      /\ Cardinality(net) <= MaxRequests[user] + 1
  BY FS_CardinalityType, Bound DEF BrowserInv, Known, NetOK, StoreOK
<1>4. /\ IsFiniteSet(net \ {q}) /\ Cardinality(net \ {q}) <= MaxRequests[user] + 1
  <2>1. IsFiniteSet(net \ {q}) /\ Cardinality(net \ {q}) <= MaxRequests[user]
    BY <1>3, Taking
  <2>2. Cardinality(net \ {q}) \in Nat
    BY <2>1, FS_CardinalityType
  <2> QED
    BY <1>3, <2>1, <2>2
<1> QED
  BY <1>1, <1>2, <1>4, LoseKeeps

\* What happens without a request being served.
LEMMA WorldKeeps ==
  ASSUME BrowserInv,
         \/ \E g \in 1 .. Len(games) : OthersCreateTeam(g) \/ OthersStart(g) \/ OthersEndRound(g)
         \/ OthersEditMap \/ Expire
  PROVE  BrowserInv'
<1>1. StoreOK /\ (news => page.name = "lobby") /\ news \in BOOLEAN
  BY DEF BrowserInv, Known, ScreenOK
<1>3. CASE \E g \in 1 .. Len(games) : OthersCreateTeam(g)
  <2>1. PICK g \in 1 .. Len(games) : OthersCreateTeam(g)
    BY <1>3
  <2>2. /\ games[g].teams < TeamLimit /\ games' = [games EXCEPT ![g].teams = @ + 1]
        /\ UNCHANGED <<user, rows, rounds, issued, expired, token, me, page, ui, net, news, foreign, crossed>>
    BY <2>1 DEF OthersCreateTeam, history
  <2>3. Grows
    BY <1>1, <2>2, GameChanges, MoreGrows
  <2> QED
    BY <2>2, <2>3, OthersKeep
<1>4. CASE \E g \in 1 .. Len(games) : OthersStart(g) \/ OthersEndRound(g)
  <2>1. PICK g \in 1 .. Len(games), phase \in {"on", "scoring"} :
          /\ Turn(g, phase)
          /\ UNCHANGED <<user, rows, rounds, issued, expired, token, me, page, ui, net, foreign,
                         crossed>>
    BY <1>4 DEF OthersStart, OthersEndRound, history
  <2>2. Grows
    BY <2>1, TurnGrows DEF Phases
  <2> QED
    BY <2>1, <2>2, OthersKeep
<1>2. CASE OthersEditMap
  <2>1. /\ rounds' = ~rounds
        /\ UNCHANGED <<user, games, rows, issued, expired, token, me, page, ui, net, news, foreign,
                       crossed>>
    BY <1>2 DEF OthersEditMap, history
  <2>2. Grows
    <3>1. \A g \in 1 .. Len(games) : games[g].teams \in Nat
      BY <1>1, GameShape
    <3>2. \A g \in 1 .. Len(games) : games'[g].teams >= games[g].teams
      BY <2>1, <3>1
    <3> QED
      BY <1>1, <2>1, <3>2, BoundAssumption DEF Grows, StoreOK
  <2> QED
    BY <2>1, <2>2, OthersKeep
<1>5. CASE Expire
  <2>1. /\ expired < issued /\ expired' = expired + 1
        /\ UNCHANGED <<user, games, rows, rounds, issued, token, me, page, ui, net, news, foreign, crossed>>
    BY <1>5 DEF Expire, history
  <2>2. Grows
    <3>1. \A g \in 1 .. Len(games) : games[g].teams \in Nat
      BY <1>1, GameShape
    <3>2. \A g \in 1 .. Len(games) : games'[g].teams >= games[g].teams
      BY <2>1, <3>1
    <3> QED
      BY <1>1, <2>1, <3>2, BoundAssumption DEF Grows, StoreOK
  <2> QED
    BY <2>1, <2>2, OthersKeep
<1> QED
  BY <1>2, <1>3, <1>4, <1>5

\* What a page that is gone has left to be served.
LEMMA OrphansShape ==
  ASSUME BrowserInv
  PROVE  CarriedOK(Orphans) /\ \A p \in Orphans : \E o \in net : p.op = o.op /\ Adrift(p, o)
<1> DEFINE S == {r \in net : r.at # "back" /\ r.op \notin ReadOps}
           f == [q \in S |-> [q EXCEPT !.at = "lost", !.live = FALSE]]
<1>1. /\ net \subseteq Request /\ IsFiniteSet(net) /\ Cardinality(net) \in Nat
      /\ Cardinality(net) <= MaxRequests[user] + 1 /\ MaxRequests[user] \in Nat
  BY Bound, FS_CardinalityType DEF BrowserInv, Known, StoreOK, NetOK
<1>2. IsFiniteSet(S) /\ Cardinality(S) <= Cardinality(net)
  BY <1>1, FS_Subset
<1>3. f \in Surjection(S, Orphans)
  BY DEF Surjection, Orphans
<1>4. IsFiniteSet(Orphans) /\ Cardinality(Orphans) <= Cardinality(S)
  BY <1>2, <1>3, FS_Surjection
<1>5. Cardinality(S) \in Nat /\ Cardinality(Orphans) \in Nat
  BY <1>2, <1>4, FS_CardinalityType
<1>6. ASSUME NEW p \in Orphans PROVE \E o \in net : Adrift(p, o)
  BY DEF Orphans, Adrift
<1>7. ASSUME NEW p \in Orphans
      PROVE  /\ p \in Request /\ p.at = "lost"
             /\ \E o \in net : /\ Adrift(p, o) /\ p.op = o.op /\ p.answer = o.answer
                               /\ p.game = o.game /\ p.me = o.me /\ p.auth = o.auth
  <2>1. PICK o \in net : Adrift(p, o)
    BY <1>6
  <2>2. o \in Request
    BY <1>1
  <2> QED
    BY <2>1, <2>2, AdriftShape
<1>8. CarriedOK(net) /\ \A o \in net : o.at # "back" => o.answer = "ok"
  BY CarriedShape DEF BrowserInv, Known, RequestsOK
<1>9. ASSUME NEW p \in Orphans
      PROVE  /\ p \in Request /\ p.game <= Len(games) /\ p.me.id <= Len(rows) /\ p.auth <= issued
             /\ p.answer = "ok" /\ (p.op \in GameOps => p.game # 0) /\ ~Done(p)
             /\ p.op = "start" => games[p.game].teams >= 2
  <2>1. PICK o \in net : /\ Adrift(p, o) /\ p.op = o.op /\ p.answer = o.answer
                         /\ p.game = o.game /\ p.me = o.me /\ p.auth = o.auth
    BY <1>7
  <2>2. o.at # "back"
    BY <2>1 DEF Adrift
  <2> QED
    BY <1>7, <1>8, <2>1, <2>2 DEF CarriedOK, Done
<1>10. IsFiniteSet(Orphans) /\ Cardinality(Orphans) <= MaxRequests[user] + 1
  BY <1>1, <1>2, <1>4, <1>5
<1> QED
  BY <1>7, <1>9, <1>10 DEF CarriedOK

\* From one screen to another without an answer.
LEMMA ScreensKeep ==
  ASSUME BrowserInv,
         \/ \E name \in Pages : Click(name)
         \/ SignOut \/ GameOpens
         \/ \E g \in Multi : Open("lobby", g)
         \/ Open("solo", 0) \/ Open(page.name, page.game)
  PROVE  BrowserInv'
<1>1. /\ StoreOK /\ CarriedOK(net) /\ Len(games) \in Nat
      /\ page.game \in 0 .. Len(games) /\ page.name \in Pages
      /\ page.name \in Rooms => page.game # 0
      /\ news => page.name = "lobby"
  BY CarriedShape DEF BrowserInv, Known, ScreenOK, StoreOK, Places
<1>2. ASSUME UNCHANGED server, token' \in 0 .. issued, me' = me, foreign' \in BOOLEAN,
             crossed' \in BOOLEAN
      PROVE  StoreOK'
  BY <1>1, <1>2 DEF StoreOK, server
<1>3. CASE \E name \in Pages : Click(name)
  <2>1. PICK name \in Pages : Click(name)
    BY <1>3
  <2>2. /\ UNCHANGED <<server, token, me, crossed>> /\ foreign' = (foreign /\ name \in Rooms)
        /\ Show(name, page.game, net)
    BY <2>1 DEF Click
  <2>3. name \in Rooms => page.name \in Rooms
    BY <2>1 DEF Click, Links, Rooms
  <2>4. StoreOK'
    BY <1>1, <1>2, <2>2 DEF StoreOK
  <2>5. IdentityFollows'
    BY <2>2, <2>3, ShowRoom DEF BrowserInv, IdentityFollows, server
  <2> QED
    BY <1>1, <2>2, <2>3, <2>4, <2>5, ScreenChanges
<1>4. CASE SignOut
  <2>1. UNCHANGED <<server, me, foreign, crossed>> /\ token' = 0 /\ Show("home", 0, net)
    BY <1>4 DEF SignOut, history
  <2>2. "home" \in Pages /\ "home" \notin Rooms
    BY DEF Pages, Rooms
  <2>3. StoreOK'
    BY <1>1, <1>2, <2>1 DEF StoreOK
  <2>4. IdentityFollows'
    BY <2>1, <2>2, ShowRoom DEF IdentityFollows
  <2> QED
    BY <1>1, <2>1, <2>2, <2>3, <2>4, ScreenChanges
<1>5. CASE GameOpens
  <2>1. /\ UNCHANGED <<server, token, me, foreign, crossed>> /\ Show("play", page.game, net)
        /\ page.name = "lobby"
    BY <1>1, <1>5 DEF GameOpens, history
  <2>2. "play" \in Pages /\ page.name \in Rooms /\ page.game # 0
    BY <1>1, <2>1 DEF Pages, Rooms
  <2>3. StoreOK'
    BY <1>1, <1>2, <2>1 DEF StoreOK
  <2>4. IdentityFollows'
    BY <2>1, <2>2, ShowRoom DEF BrowserInv, IdentityFollows, server
  <2> QED
    BY <1>1, <2>1, <2>2, <2>3, <2>4, ScreenChanges
<1>6. ASSUME NEW name \in Pages, NEW game \in 0 .. Len(games), name \in Rooms => game # 0,
             Open(name, game)
      PROVE  BrowserInv'
  <2>1. /\ UNCHANGED <<server, token, me>> /\ foreign' = (name \in Rooms /\ Carried(game))
        /\ crossed' = (crossed \/ \E q \in net : q.op = "joinTeam") /\ Show(name, game, Orphans)
    BY <1>6 DEF Open
  <2>2. StoreOK'
    BY <1>1, <1>2, <2>1 DEF StoreOK
  <2>3. IdentityFollows'
    BY <2>1, ShowRoom DEF IdentityFollows, Carried, server
  <2>4. CarriedOK(Orphans) /\ \A p \in Orphans : \E o \in net : p.op = o.op /\ Adrift(p, o)
    BY OrphansShape
  <2>5. /\ ~crossed' => ~crossed
        /\ \A q \in (net \ Orphans) \cup (Orphans \ net) : q.op = "joinTeam" => crossed'
    BY <2>1, <2>4
  <2> QED
    BY <1>1, <1>6, <2>1, <2>2, <2>3, <2>4, <2>5, ScreenChanges
<1>7. ASSUME NEW g \in Multi PROVE g \in 0 .. Len(games) /\ g # 0
  BY <1>1 DEF Multi
<1>8. "lobby" \in Pages /\ "solo" \in Pages /\ "solo" \notin Rooms /\ 0 \in 0 .. Len(games)
  BY <1>1 DEF Pages, GuidePages, Rooms
<1> QED
  BY <1>1, <1>3, <1>4, <1>5, <1>6, <1>7, <1>8

LEMMA BrowserInit == Init => BrowserInv
<1> SUFFICES ASSUME Init PROVE BrowserInv
  OBVIOUS
<1>1. /\ user \in Users /\ rows = <<>> /\ issued = 0 /\ expired = 0 /\ token = 0 /\ me = Nobody
      /\ page = [name |-> "home", game |-> 0] /\ ui = Fresh /\ net = {}
      /\ ~news /\ ~foreign /\ ~crossed
      /\ news \in BOOLEAN /\ foreign \in BOOLEAN /\ crossed \in BOOLEAN /\ rounds \in BOOLEAN
  BY DEF Init
<1>2. games \in Seq(Game) /\ Len(games) = 1
  <2>1. games = <<NewGame(FALSE, FALSE)>>
    BY DEF Init
  <2>2. PICK r \in Game : r = NewGame(FALSE, FALSE)
    BY NewGameShape DEF Phases
  <2>3. games = <<r>>
    BY <2>1, <2>2
  <2> QED
    BY <2>3
<1>3. StoreOK
  <2>1. Nobody \in Identity /\ Nobody.id = 0
    BY BoundAssumption DEF Nobody, Identity, NoTeam, Team
  <2>2. rows \in Seq(PlayerRow) /\ Len(rows) = 0
    BY <1>1
  <2> QED
    BY <1>1, <1>2, <2>1, <2>2, BoundAssumption DEF StoreOK
<1>4. ScreenOK
  <2>1. Fresh \in Uis /\ Fresh.found = 0
    BY BoundAssumption DEF Fresh, Uis, NoView, View
  <2>2. page \in Places /\ page.game = 0 /\ page.name \notin Rooms
    BY <1>1, BoundAssumption DEF Places, Pages, Rooms
  <2> QED
    BY <1>1, <1>2, <2>1, <2>2 DEF ScreenOK
<1>5. NetOK
  <2>1. IsFiniteSet(net) /\ Cardinality(net) = 0
    BY <1>1, FS_EmptySet
  <2> QED
    BY <1>1, <2>1, Bound DEF NetOK
<1>6. RequestsOK /\ PlayersOK /\ ChoicesOK
  BY <1>1 DEF RequestsOK, PlayersOK, ChoicesOK
<1>7. ViewsOK /\ TeamOK /\ IdentityFollows
  BY <1>1 DEF ViewsOK, TeamOK, IdentityFollows, Nobody, Rooms
<1> QED
  BY <1>3, <1>4, <1>5, <1>6, <1>7 DEF BrowserInv, Known

LEMMA BrowserStep == BrowserInv /\ [Next]_vars => BrowserInv'
<1> SUFFICES ASSUME BrowserInv, [Next]_vars PROVE BrowserInv'
  OBVIOUS
<1>1. CASE UNCHANGED vars
  <2>1. UNCHANGED <<user, games, rows, rounds, issued, expired, token, me, page, ui, net, news, foreign,
                    crossed>>
    BY <1>1 DEF vars
  <2>2. Request' = Request
    BY <2>1, SameRequest
  <2> QED
    BY <2>1, <2>2 DEF BrowserInv, Known, StoreOK, ScreenOK, NetOK, RequestsOK, ViewsOK, PlayersOK,
       ChoicesOK, TeamOK, IdentityFollows
<1>2. CASE \/ \E name \in Pages : Click(name)
           \/ SignOut \/ GameOpens
           \/ \E g \in Multi : Open("lobby", g)
           \/ Open("solo", 0) \/ Open(page.name, page.game)
  BY <1>2, ScreensKeep
<1>3. CASE \/ \E g \in Multi : HandleLookup(g)
           \/ HandleLogin \/ HandleCreate \/ HandleJoin \/ HandlePlay
           \/ HandleJoinHere \/ HandleCreateTeam \/ HandleStart
           \/ \E n \in 1 .. TeamLimit : HandleJoinTeam(n)
  BY <1>3, HandlersKeep
<1>4. CASE \E q \in net : Serve(q)
  BY <1>4, ServeKeeps
<1>5. CASE \E q \in net : Answer(q)
  BY <1>5, AnswerKeeps
<1>7. CASE \E q \in net : Fail(q) \/ Vanish(q)
  BY <1>7, FailKeeps, VanishKeeps
<1>6. CASE \/ \E g \in 1 .. Len(games) : OthersCreateTeam(g) \/ OthersStart(g) \/ OthersEndRound(g)
           \/ OthersEditMap \/ Expire
  BY <1>6, WorldKeeps
<1> QED
  BY <1>1, <1>2, <1>3, <1>4, <1>5, <1>6, <1>7 DEF Next

-----------------------------------------------------------------------------
(* Theorems                                                                *)

\* Whatever the users, the server and the network do, the browser stays well: what it asked
\* is about games and players there are, it never expects more of a room than there is, a
\* player is its own before anyone has heard of it, and the team it has is the server's.
THEOREM BrowserInvariant == Spec => []BrowserInv
<1> QED
  BY BrowserInit, BrowserStep, PTL DEF Spec

\* The state is well formed, for any number of games, players, sign-ins and requests.
THEOREM BrowserTypeOK == Spec => []TypeOK
<1>1. BrowserInv => TypeOK
  <2> SUFFICES ASSUME BrowserInv PROVE TypeOK
    OBVIOUS
  <2>1. page.game \in 0 .. Len(games) /\ ui.found \in 0 .. Len(games) /\ ui.view \in View
        /\ page.name \in Pages
    BY BoundAssumption DEF BrowserInv, Known, StoreOK, ScreenOK, Places, Uis
  <2> QED
    BY <2>1 DEF BrowserInv, Known, StoreOK, ScreenOK, NetOK, TypeOK
<1> QED
  BY <1>1, BrowserInvariant, PTL

\* The team a browser submits routes for is the one the server has its player on, through
\* every order of joining, choosing and answering, until two choices overlap or the answer
\* to one is not heard.
THEOREM BrowserTeamAgrees == Spec => []TeamAgrees
<1>1. BrowserInv => TeamAgrees
  BY DEF BrowserInv, TeamOK, TeamAgrees, Picks
<1> QED
  BY <1>1, BrowserInvariant, PTL

\* A room is shown to a player of another game in the ways IdentityFollows lists, and in no other.
THEOREM BrowserIdentityFollows == Spec => []IdentityFollows
<1>1. BrowserInv => IdentityFollows
  BY DEF BrowserInv
<1> QED
  BY <1>1, BrowserInvariant, PTL

-----------------------------------------------------------------------------
(* Starting a game                                                         *)

\* A failure is counted, and the count only goes up.
LEMMA BreaksStep == breaks \in Nat /\ [Next]_vars => breaks' = breaks \/ breaks' = breaks + 1
<1> SUFFICES ASSUME [Next]_vars PROVE breaks' = breaks \/ breaks' = breaks + 1
  OBVIOUS
<1>1. CASE UNCHANGED vars
  BY <1>1 DEF vars
<1>2. ASSUME NEW name, NEW game, Click(name) \/ SignOut \/ GameOpens \/ Open(name, game)
      PROVE  breaks' = breaks \/ breaks' = breaks + 1
  BY <1>2 DEF Click, SignOut, GameOpens, Open
<1>3. ASSUME NEW n, \/ HandleLookup(n) \/ HandleLogin \/ HandleCreate \/ HandleJoin \/ HandlePlay
                    \/ HandleJoinHere \/ HandleCreateTeam \/ HandleStart \/ HandleJoinTeam(n)
      PROVE  breaks' = breaks
  BY <1>3 DEF HandleLookup, HandleLogin, HandleCreate, HandleJoin, HandlePlay, HandleJoinHere,
     HandleCreateTeam, HandleStart, HandleJoinTeam, Asks
<1>4. ASSUME NEW q, Serve(q) \/ Answer(q) \/ Fail(q) \/ Vanish(q)
      PROVE  breaks' = breaks \/ breaks' = breaks + 1
  BY <1>4 DEF Serve, Answer, Fail, Vanish
<1>5. ASSUME NEW g, \/ OthersCreateTeam(g) \/ OthersStart(g) \/ OthersEndRound(g)
                    \/ OthersEditMap \/ Expire
      PROVE  breaks' = breaks \/ breaks' = breaks + 1
  BY <1>5 DEF OthersCreateTeam, OthersStart, OthersEndRound, OthersEditMap, Expire
<1> QED
  BY <1>1, <1>2, <1>3, <1>4, <1>5 DEF Next

LEMMA BreaksCount == Spec => [](breaks \in Nat)
<1>1. Init => breaks \in Nat
  BY DEF Init
<1>2. breaks \in Nat /\ [Next]_vars => (breaks \in Nat)'
  BY BreaksStep
<1> QED
  BY <1>1, <1>2, PTL DEF Spec

\* Whether a start is still asked for, or has been granted.
GoesOn(q) == \E a \in net' : a.id = q.id /\ a.op = q.op /\ a.answer = "ok"

\* A screen that is left does not take a start with it.
LEMMA ShowGoesOn ==
  ASSUME NEW requests, CarriedOK(requests), NEW q \in requests, q.op = "start", q.answer = "ok",
         NEW name, NEW game, Show(name, game, requests)
  PROVE  GoesOn(q)
<1> DEFINE a == [q EXCEPT !.live = FALSE]
<1>1. a \in net'
  BY DEF Show
<1>2. a.id = q.id /\ a.op = q.op /\ a.answer = q.answer
  BY DEF CarriedOK, Request
<1> QED
  BY <1>1, <1>2 DEF GoesOn

\* No step but a failure or its own refusal ends a start, and it is not refused between
\* rounds while the map has some and the token is good.
LEMMA StartStep ==
  ASSUME BrowserInv, breaks \in Nat, [Next]_vars,
         NEW q \in net, q.op = "start", q.at = "sent", breaks' = breaks,
         games[q.game].phase # "on", rounds, q.auth > expired
  PROVE  GoesOn(q)
<1>1. q.answer = "ok" /\ q \in Request /\ CarriedOK(net)
      /\ games[q.game].teams >= 2 /\ q.game \in 1 .. Len(games)
  BY SentShape, CarriedShape DEF BrowserInv, Known, ViewsOK, GameOps, RoomOps
<1>2. ASSUME q \in net' PROVE GoesOn(q)
  BY <1>1, <1>2 DEF GoesOn
<1>3. CASE UNCHANGED vars
  BY <1>2, <1>3 DEF vars
<1>4. ASSUME NEW name, NEW game, Click(name) \/ SignOut \/ GameOpens \/ Open(name, game)
      PROVE  GoesOn(q)
  <2>1. CASE Open(name, game)
    BY <2>1 DEF Open
  <2>2. CASE Click(name) \/ SignOut \/ GameOpens
    <3>1. PICK n, g : Show(n, g, net)
      BY <2>2 DEF Click, SignOut, GameOpens
    <3> QED
      BY <1>1, <3>1, ShowGoesOn
  <2> QED
    BY <1>4, <2>1, <2>2
<1>5. ASSUME NEW n, \/ HandleLookup(n) \/ HandleLogin \/ HandleCreate \/ HandleJoin \/ HandlePlay
                    \/ HandleJoinHere \/ HandleCreateTeam \/ HandleStart \/ HandleJoinTeam(n)
      PROVE  GoesOn(q)
  BY <1>2, <1>5 DEF HandleLookup, HandleLogin, HandleCreate, HandleJoin, HandlePlay, HandleJoinHere,
     HandleCreateTeam, HandleStart, HandleJoinTeam, Send
<1>6. ASSUME NEW p \in net, Serve(p)
      PROVE  GoesOn(q)
  <2>1. CASE p # q
    <3>1. net \ {p} \subseteq net'
      BY <1>6 DEF Serve, ServeLogin, ServeRead, ServeCreate, ServeJoin, ServeCreateTeam,
         ServeJoinTeam, ServeSolo, ServeStart, Accept, Refuse, Reply
    <3> QED
      BY <1>2, <2>1, <3>1
  <2>2. CASE p = q
    <3>1. ServeStart(q)
      BY <1>6, <2>2 DEF Serve, ServeLogin, ServeRead, ServeCreate, ServeJoin, ServeCreateTeam,
         ServeJoinTeam, ServeSolo, ReadOps
    <3>2. Authorised(q) /\ MayStart(q.game)
      <4>1. games[q.game].teams \in Nat
        BY <1>1, GameShape DEF BrowserInv, Known
      <4> QED
        <5>1. games[q.game].phase \in {"waiting", "scoring"}
          BY <1>1, GameShape DEF BrowserInv, Known, Game, Phases
        <5> QED
          BY <1>1, <4>1, <5>1 DEF Authorised, MayStart, StartPhases, NeededBy
    <3> DEFINE b == [q EXCEPT !.auth = 0]
               a == [b EXCEPT !.at = "back"]
    <3>3. a \in net'
      BY <3>1, <3>2 DEF ServeStart, Accept, Reply
    <3>4. b.id = q.id /\ b.op = q.op /\ b.answer = q.answer /\ b \in Request
      BY <1>1, BoundAssumption DEF Request
    <3> HIDE DEF b
    <3>5. a.id = b.id /\ a.op = b.op /\ a.answer = b.answer
      BY <3>4 DEF Request
    <3> QED
      BY <1>1, <3>3, <3>4, <3>5 DEF GoesOn
  <2> QED
    BY <2>1, <2>2
<1>7. ASSUME NEW p \in net, Fail(p) \/ Vanish(p)
      PROVE  GoesOn(q)
  <2>1. CASE Fail(p)
    BY <2>1 DEF Fail
  <2>2. CASE Vanish(p)
    BY <1>2, <2>2 DEF Vanish
  <2> QED
    BY <1>7, <2>1, <2>2
<1>8. ASSUME NEW p \in net, Answer(p)
      PROVE  GoesOn(q)
  <2>1. p # q /\ q \in Rest(p) /\ CarriedOK(Rest(p))
    BY <1>8, CarriedShape DEF Answer, Rest, BrowserInv, Known
  <2>2. Rest(p) \subseteq net' \/ \E n, g : Show(n, g, Rest(p))
    BY <1>8 DEF Answer, ApplyMaps, ApplyLogin, ApplyCreate, ApplyLookup, ApplyJoin, ApplyJoinHere,
       ApplySolo, ApplyCreateTeam, ApplyJoinTeam, ApplySession, ApplyStart, ApplyFailure, Stay,
       GoOn, Refresh
  <2> QED
    BY <1>1, <1>2, <2>1, <2>2, ShowGoesOn
<1>9. ASSUME NEW g, \/ OthersCreateTeam(g) \/ OthersStart(g) \/ OthersEndRound(g)
                    \/ OthersEditMap \/ Expire
      PROVE  GoesOn(q)
  BY <1>2, <1>9 DEF OthersCreateTeam, OthersStart, OthersEndRound, OthersEditMap, Expire
<1> QED
  BY <1>3, <1>4, <1>5, <1>6, <1>7, <1>8, <1>9 DEF Next

\* A start goes by an old view of the room and is right all the same: teams are only added,
\* so it is refused only during a round, after the last one, on a map without any, or once
\* the token has expired.
THEOREM BrowserStartAccepted == Spec => StartAccepted
<1> DEFINE Taken == \A q \in net :
             (/\ q.op = "start" /\ q.at = "sent" /\ breaks' = breaks
              /\ ~\E a \in net' : a.id = q.id /\ a.op = q.op /\ a.answer = "ok") =>
                games[q.game].phase = "on" \/ ~rounds \/ q.auth <= expired
<1>1. BrowserInv /\ breaks \in Nat /\ [Next]_vars => Taken
  <2> SUFFICES ASSUME BrowserInv, breaks \in Nat, [Next]_vars,
                      NEW q \in net, q.op = "start", q.at = "sent", breaks' = breaks,
                      games[q.game].phase # "on", rounds, ~(q.auth <= expired)
               PROVE  GoesOn(q)
    BY DEF GoesOn
  <2>1. q.auth > expired
    BY SentShape DEF BrowserInv, Known, StoreOK
  <2> QED
    BY <2>1, StartStep
<1>2. Spec => [][Taken]_vars
  BY <1>1, BrowserInvariant, BreaksCount, PTL DEF Spec
<1> QED
  BY <1>2 DEF StartAccepted


-----------------------------------------------------------------------------
(* The rooms                                                               *)

\* What happens to the games in a step: one is added, one gets a team, or one starts.
GamesMove ==
  \/ games' = games
  \/ \E g : games' = Append(games, g)
  \/ \E g : games[g].teams < TeamLimit /\ games' = [games EXCEPT ![g].teams = @ + 1]
  \/ \E g : MayStart(g) /\ games' = [games EXCEPT ![g].phase = "on"]
  \/ \E g : games[g].phase = "on" /\ games' = [games EXCEPT ![g].phase = "scoring"]

LEMMA GamesMoves == ASSUME Next PROVE GamesMove
<1>1. ASSUME NEW name, NEW g, Click(name) \/ SignOut \/ Open(name, g) \/ GameOpens PROVE games' = games
  BY <1>1 DEF Click, SignOut, Open, GameOpens, server
<1>2. ASSUME NEW n, \/ HandleLookup(n) \/ HandleLogin \/ HandleCreate \/ HandleJoin \/ HandlePlay
                    \/ HandleJoinHere \/ HandleCreateTeam \/ HandleStart \/ HandleJoinTeam(n)
      PROVE  games' = games
  BY <1>2 DEF HandleLookup, HandleLogin, HandleCreate, HandleJoin, HandlePlay, HandleJoinHere,
     HandleCreateTeam, HandleStart, HandleJoinTeam, Asks, server
<1>3. ASSUME NEW q, Fail(q) \/ Vanish(q) \/ Answer(q) PROVE games' = games
  BY <1>3 DEF Fail, Vanish, Answer, server
<1>4. ASSUME NEW q, Serve(q) PROVE GamesMove
  <2>1. CASE ServeLogin(q) \/ ServeRead(q) \/ ServeJoin(q) \/ ServeJoinTeam(q)
    BY <2>1 DEF ServeLogin, ServeRead, ServeJoin, ServeJoinTeam, GamesMove
  <2>2. CASE ServeCreate(q)
    BY <2>2 DEF ServeCreate, GamesMove
  <2>3. CASE ServeSolo(q)
    BY <2>3 DEF ServeSolo, GamesMove
  <2>4. CASE ServeCreateTeam(q)
    BY <2>4 DEF ServeCreateTeam, GamesMove
  <2>5. CASE ServeStart(q)
    BY <2>5 DEF ServeStart, Turn, GamesMove
  <2> QED
    BY <1>4, <2>1, <2>2, <2>3, <2>4, <2>5 DEF Serve
<1>5. ASSUME NEW g, OthersCreateTeam(g) PROVE GamesMove
  BY <1>5 DEF OthersCreateTeam, GamesMove
<1>6. ASSUME NEW g, OthersStart(g) \/ OthersEndRound(g) PROVE GamesMove
  BY <1>6 DEF OthersStart, OthersEndRound, Turn, GamesMove
<1>7. CASE OthersEditMap \/ Expire
  BY <1>7 DEF OthersEditMap, Expire, GamesMove
<1> QED
  BY <1>1, <1>2, <1>3, <1>4, <1>5, <1>6, <1>7 DEF Next, GamesMove

RoomMoves(g) ==
  /\ g \in DOMAIN games'
  /\ \/ UNCHANGED <<games[g].teams, RoomPhase(g)>>
     \/ \E needed \in {1, 2} : needed = NeededBy(g) /\ Room(g, needed)!Next

LEMMA RoomsMove ==
  ASSUME games \in Seq(Game), GamesMove, NEW g \in DOMAIN games
  PROVE  RoomMoves(g)
<1>1. g \in 1 .. Len(games) /\ games[g] \in Game
  OBVIOUS
<1>2. CASE games' = games
  BY <1>2 DEF RoomMoves, RoomPhase
<1>3. ASSUME NEW h, games' = Append(games, h) PROVE RoomMoves(g)
  BY <1>1, <1>3 DEF RoomMoves, RoomPhase
<1>4. PICK needed \in {1, 2} : needed = NeededBy(g)
  BY DEF NeededBy
<1>5. ASSUME games[g].teams < TeamLimit, games' = [games EXCEPT ![g].teams = @ + 1]
      PROVE  RoomMoves(g)
  <2>1. /\ g \in DOMAIN games' /\ games'[g].teams = games[g].teams + 1
        /\ games'[g].phase = games[g].phase
    BY <1>1, <1>5 DEF Game
  <2>2. Room(g, needed)!AddTeam
    BY <1>5, <2>1 DEF Room!AddTeam, RoomPhase
  <2> QED
    BY <1>4, <2>1, <2>2 DEF Room!Next, RoomMoves
<1>6. ASSUME NEW phase \in {"on", "scoring"}, games' = [games EXCEPT ![g].phase = phase],
             games[g].phase = "waiting" => games[g].teams >= NeededBy(g)
      PROVE  RoomMoves(g)
  <2>1. /\ g \in DOMAIN games' /\ games'[g].teams = games[g].teams /\ games'[g].phase = phase
    BY <1>1, <1>6 DEF Game
  <2>2. CASE games[g].phase = "waiting"
    <3>1. Room(g, needed)!Start
      BY <1>4, <1>6, <2>1, <2>2 DEF Room!Start, RoomPhase
    <3> QED
      BY <1>4, <2>1, <3>1 DEF Room!Next, RoomMoves
  <2>3. CASE games[g].phase # "waiting"
    BY <2>1, <2>3 DEF RoomMoves, RoomPhase
  <2> QED
    BY <2>2, <2>3
<1>7. ASSUME NEW h, games[h].teams < TeamLimit, games' = [games EXCEPT ![h].teams = @ + 1]
      PROVE  RoomMoves(g)
  <2>1. CASE h = g
    BY <1>5, <1>7, <2>1
  <2>2. CASE h # g
    BY <1>1, <1>7, <2>2 DEF RoomMoves, RoomPhase
  <2> QED
    BY <2>1, <2>2
<1>8. ASSUME NEW h, NEW phase \in {"on", "scoring"}, games' = [games EXCEPT ![h].phase = phase],
             MayStart(h) \/ games[h].phase = "on"
      PROVE  RoomMoves(g)
  <2>1. CASE h = g
    <3>1. games[g].phase = "waiting" => games[g].teams >= NeededBy(g)
      BY <1>8, <2>1 DEF MayStart
    <3> QED
      BY <1>6, <1>8, <2>1, <3>1
  <2>2. CASE h # g
    BY <1>1, <1>8, <2>2 DEF RoomMoves, RoomPhase
  <2> QED
    BY <2>1, <2>2
<1> QED
  BY <1>2, <1>3, <1>7, <1>8 DEF GamesMove

\* The server that the screens presume keeps its rooms as RoomProtocol says, which the
\* waiting room's handlers implement.
THEOREM BrowserRoomsFollow == Spec => RoomsFollowProtocol
<1>1. TypeOK /\ [Next]_vars => [\A g \in DOMAIN games : RoomMoves(g)]_games
  BY GamesMoves, RoomsMove DEF TypeOK, vars
<1>2. [\A g \in DOMAIN games : RoomMoves(g)]_games
        => [\A g \in DOMAIN games :
              /\ g \in DOMAIN games'
              /\ \/ UNCHANGED <<games[g].teams, RoomPhase(g)>>
                 \/ \E needed \in {1, 2} : needed = NeededBy(g) /\ Room(g, needed)!Next]_games
  BY DEF RoomMoves
<1> QED
  BY <1>1, <1>2, BrowserTypeOK, PTL DEF Spec, RoomsFollowProtocol
=============================================================================
