------------------------------ MODULE Screens ------------------------------
(***************************************************************************)
(* One browser and the screens around the game: App.tsx with its routes,   *)
(* Home, GuideLogin, CreateSession, JoinSession, SoloSetup, DemoSetup and  *)
(* WaitingRoom, the player and the guide's token that are kept from game   *)
(* to game (playerStore.ts, guideStore.ts), and request() of api.ts, which *)
(* signs the guide out.  The game screen is GameClient's, the dashboard    *)
(* MapCatalog's.  Handlers go on after the screen that began them is left. *)
(***************************************************************************)
EXTENDS Naturals, Sequences, FiniteSets

CONSTANTS Users,        \* whose browser: a "guide" has an account, a "player" has none
          TeamLimit,    \* teams of a game, 4 in the code
          MaxGames,     \* bound: sessions
          MaxPlayers,   \* bound: players
          MaxTokens,    \* bound: times the guide signs in
          MaxRequests,  \* bound: requests in flight when a user asks for another, and when
                        \* a screen does, for each kind of user
          MaxBreaks     \* bound: requests failed, pages reloaded or opened by a link, and
                        \* times the map got a first round or lost its last one

ASSUME BoundAssumption ==
  /\ TeamLimit \in Nat \ {0} /\ MaxGames \in Nat \ {0}
  /\ MaxPlayers \in Nat /\ MaxTokens \in Nat
  /\ MaxRequests \in [Users -> Nat \ {0}] /\ MaxBreaks \in Nat
ASSUME UserAssumption == Users \subseteq {"player", "guide"}

VARIABLES
  user,     \* whose browser it is
  games,    \* server: the sessions, in the order they were created
  rows,     \* server: the players, in the order they joined
  rounds,   \* server: the map of the sessions has rounds
  issued,   \* server: tokens given out so far
  expired,  \* server: the oldest of them, which it accepts no more
  token,    \* guideStore: the token, 0 when signed out
  me,       \* playerStore: the player, id 0 when there is none
  page,     \* the route: a screen, and the session in its address
  ui,       \* useState of that screen
  net,      \* requests, sent or answered, or sent by a handler that hears no answer
  news,     \* a game_state is on its way to the waiting room's socket
  breaks,
  foreign,  \* history: the room on the screen was entered with a player of another game in
            \* the store, or a screen that had been left changed the player since
  crossed   \* history: two team choices of a player overlapped, or the answer to one
            \* was not heard

vars == <<user, games, rows, rounds, issued, expired, token, me, page, ui, net, news, breaks, foreign, crossed>>
server == <<user, games, rows, rounds, issued, expired>>
history == <<foreign, crossed>>

-----------------------------------------------------------------------------
(* Records                                                                 *)

Ids == 1 .. MaxRequests[user] + 1
GuidePages == {"guide", "create", "solo"}
Rooms == {"lobby", "play"}
Pages == GuidePages \cup Rooms \cup {"home", "login", "join", "demo"}

\* A session: who made it, its teams so far, and where it stands.  While it is "on" a
\* round is played or the game is over, which only the next start tells apart.
Phases == {"waiting", "on", "scoring"}
Game == [solo : BOOLEAN, mine : BOOLEAN, teams : 0 .. TeamLimit, phase : Phases]
Team == [game : 0 .. MaxGames, n : 0 .. TeamLimit]
NoTeam == [game |-> 0, n |-> 0]
PlayerRow == [game : 1 .. MaxGames, team : Team]
Identity == [id : 0 .. MaxPlayers, team : Team]
Nobody == [id |-> 0, team |-> NoTeam]

\* What getSession shows of a game: its teams, and whether a player is on one.
View == [teams : 0 .. TeamLimit, manned : BOOLEAN]
NoView == [teams |-> 0, manned |-> FALSE]

Ops == {"maps", "login", "create", "lookup", "join", "joinHere", "session", "createTeam",
        "joinTeam", "start", "solo", "soloStart", "demo"}
\* The ops that change nothing.
ReadOps == {"maps", "session", "lookup"}
\* auth: the token in its header, or the one it brings; me: the player it is about, or the
\* one it brings; live: its screen is shown.
Request == [id : Ids, op : Ops, at : {"sent", "back", "lost"}, answer : {"ok", "401", "error"},
            auth : 0 .. MaxTokens, game : 0 .. MaxGames, team : Team, me : Identity,
            view : View, live : BOOLEAN]

Fresh == [loaded |-> FALSE, starting |-> FALSE, view |-> NoView, found |-> 0]

\* request, and authRequest for what only a guide may ask.
AuthOps == {"maps", "create", "start", "solo", "soloStart"}
\* Requests of one kind in flight are told apart by a number.
FreeId(requests, op) ==
  CHOOSE i \in Ids : \A q \in requests : q.op = op => q.id # i
Ask(requests, op, game, tok) ==
  [id |-> FreeId(requests, op), op |-> op, at |-> "sent", answer |-> "ok",
   auth |-> IF op \in AuthOps THEN tok ELSE 0, game |-> game, team |-> NoTeam,
   me |-> Nobody, view |-> NoView, live |-> TRUE]

CanAsk == Cardinality(net) < MaxRequests[user]
Send(op, game) == net' = net \cup {Ask(net, op, game, token)}

NewGame(solo, mine) ==
  [solo |-> solo, mine |-> mine, teams |-> IF solo THEN 1 ELSE 0, phase |-> "waiting"]

\* One game is there, another guide's.
Init ==
  /\ user \in Users
  /\ games = <<NewGame(FALSE, FALSE)>>
  /\ rows = <<>> /\ rounds \in BOOLEAN /\ issued = 0 /\ expired = 0
  /\ token = 0 /\ me = Nobody
  /\ page = [name |-> "home", game |-> 0]
  /\ ui = Fresh
  /\ net = {}
  /\ news = FALSE
  /\ breaks = 0
  /\ foreign = FALSE /\ crossed = FALSE

-----------------------------------------------------------------------------
(* Routes                                                                  *)

\* GuideRoute: without a token its pages show the login.
Route(name, tok) == IF name \in GuidePages /\ tok = 0 THEN "login" ELSE name

\* What a screen asks for as it mounts.
Mounts(name) ==
  CASE name \in GuidePages -> {"maps"}
    [] name = "lobby" -> {"session"}
    [] OTHER -> {}

\* The room of a game is entered with whatever player the store holds.
Carried(game) == me'.id # 0 /\ rows[me'.id].game # game

\* The screen changes; token' is given.  What was asked goes on without it,
\* and what only the screen would have shown is of no use to anybody.
Show(name, game, requests) ==
  LET shown == Route(name, token')
      left == {[q EXCEPT !.live = FALSE] :
                 q \in {r \in requests : r.op \notin {"session", "lookup"}}}
  IN /\ page' = [name |-> shown, game |-> IF shown \in Rooms THEN game ELSE 0]
     /\ ui' = Fresh
     /\ Mounts(shown) # {} => Cardinality(left) <= MaxRequests[user]
     /\ net' = left \cup {Ask(left, op, game, token') : op \in Mounts(shown)}
     /\ news' = FALSE

\* The buttons and links from screen to screen; the others wait for an answer.
Links ==
  CASE page.name = "home" -> {"demo", "join", IF token = 0 THEN "login" ELSE "guide"}
    [] page.name = "login" -> {"home"}
    [] page.name = "guide" -> {"home", "create"}
    [] page.name = "create" -> {"guide"}
    [] page.name = "play" -> {"home", "lobby"}
    [] page.name = "lobby" -> {}
    [] OTHER -> {"home"}

Click(name) ==
  /\ name \in Links
  /\ page.name = "guide" => ui.loaded
  /\ foreign' = (foreign /\ name \in Rooms)
  /\ UNCHANGED <<server, token, me, breaks, crossed>>
  /\ Show(name, page.game, net)

\* Sign Out, on the dashboard.
SignOut ==
  /\ page.name = "guide" /\ ui.loaded
  /\ token' = 0
  /\ UNCHANGED <<server, me, breaks, history>>
  /\ Show("home", 0, net)

\* The page is reloaded, or an address is typed or followed: a waiting room's, or that of
\* solo play, which no button leads to.  No answer is heard to what was asked, and the
\* server may serve it all the same.
Orphans == {[q EXCEPT !.at = "lost", !.live = FALSE] :
              q \in {r \in net : r.at # "back" /\ r.op \notin ReadOps}}
Open(name, game) ==
  /\ breaks < MaxBreaks
  /\ breaks' = breaks + 1
  /\ crossed' = (crossed \/ \E q \in net : q.op = "joinTeam")
  /\ UNCHANGED <<server, token, me>>
  /\ foreign' = (name \in Rooms /\ Carried(game))
  /\ Show(name, game, Orphans)

-----------------------------------------------------------------------------
(* What the user does on each screen                                       *)

Asks == UNCHANGED <<server, token, me, page, news, breaks, foreign>>

\* GuideLogin, GuideLogin.handleSubmit: disabled while it waits.
HandleLogin ==
  /\ page.name = "login" /\ ~ui.starting
  /\ user = "guide"
  /\ CanAsk /\ Send("login", 0)
  /\ ui' = [ui EXCEPT !.starting = TRUE]
  /\ Asks /\ UNCHANGED crossed

\* CreateSession.handleCreate: not disabled.
HandleCreate ==
  /\ page.name = "create" /\ ui.loaded
  /\ CanAsk /\ Send("create", 0)
  /\ Asks /\ UNCHANGED <<ui, crossed>>

\* JoinSession.handleLookup, with the code of some game.
HandleLookup(g) ==
  /\ page.name = "join" /\ ui.found = 0
  /\ CanAsk /\ Send("lookup", g)
  /\ Asks /\ UNCHANGED <<ui, crossed>>

\* JoinSession.handleJoin: not disabled.
HandleJoin ==
  /\ page.name = "join" /\ ui.found # 0
  /\ CanAsk /\ Send("join", ui.found)
  /\ Asks /\ UNCHANGED <<ui, crossed>>

\* SoloSetup.handleStart and DemoSetup.handleStart: disabled while they wait.
HandlePlay ==
  /\ page.name = "demo" \/ (page.name = "solo" /\ ui.loaded)
  /\ ~ui.starting
  /\ CanAsk /\ Send(page.name, 0)
  /\ ui' = [ui EXCEPT !.starting = TRUE]
  /\ Asks /\ UNCHANGED crossed

\* The waiting room, once it has loaded the session.  Whether there is a player decides
\* what it shows, not whether the player is one of this game.
InLobby == page.name = "lobby" /\ ui.loaded

\* WaitingRoom.handleJoin.
HandleJoinHere ==
  /\ InLobby /\ me.id = 0
  /\ CanAsk /\ Send("joinHere", page.game)
  /\ Asks /\ UNCHANGED <<ui, crossed>>

\* WaitingRoom.handleCreateTeam, by the number of teams last seen.
HandleCreateTeam ==
  /\ InLobby /\ me.id # 0
  /\ ui.view.teams < TeamLimit
  /\ CanAsk /\ Send("createTeam", page.game)
  /\ Asks /\ UNCHANGED <<ui, crossed>>

\* WaitingRoom.handleJoinTeam, offered for the teams the player is not on.
HandleJoinTeam(n) ==
  LET team == [game |-> page.game, n |-> n]
  IN /\ InLobby /\ me.id # 0
     /\ n \in 1 .. ui.view.teams /\ me.team # team
     /\ CanAsk
     /\ net' = net \cup {[Ask(net, "joinTeam", page.game, 0)
                             EXCEPT !.team = team, !.me = me]}
     /\ crossed' = (crossed \/ \E q \in net : q.op = "joinTeam" /\ q.me.id = me.id)
     /\ Asks /\ UNCHANGED ui

\* Mutant of HandleStart: one team is enough.
HandleStartAlone ==
  /\ InLobby /\ me.id # 0
  /\ token # 0 /\ games[page.game].mine
  /\ ui.view.teams >= 1 /\ ui.view.manned
  /\ CanAsk /\ Send("start", page.game)
  /\ Asks /\ UNCHANGED <<ui, crossed>>

\* WaitingRoom.handleStart, by the teams and players last seen.
HandleStart ==
  /\ InLobby /\ me.id # 0
  /\ token # 0 /\ games[page.game].mine
  /\ ui.view.teams >= 2 /\ ui.view.manned
  /\ CanAsk /\ Send("start", page.game)
  /\ Asks /\ UNCHANGED <<ui, crossed>>

-----------------------------------------------------------------------------
(* The server                                                              *)

Authorised(q) == q.auth > expired

\* The answer, which nobody hears when the request's page is gone or has given it up.
Reply(q, a) ==
  net' = (net \ {q}) \cup (IF q.at = "sent" THEN {[a EXCEPT !.at = "back"]} ELSE {})
Accept(q) == Reply(q, [q EXCEPT !.auth = 0])
\* A failure that signs nobody out and that no screen waits for is over at once.
FormOps == {"login", "solo", "soloStart", "demo"}
HeardOps == FormOps \cup {"maps"}
Refuse(q, why) ==
  IF why = "401" \/ q.op \in HeardOps
  THEN Reply(q, [q EXCEPT !.answer = why, !.auth = 0])
  ELSE net' = net \ {q}

\* The session's socket is open for the players of the session alone.
Listening(g) == page = [name |-> "lobby", game |-> g] /\ me.id # 0 /\ rows[me.id].game = g

\* Requests that only read.
ServeRead(q) ==
  /\ q.op \in ReadOps
  /\ CASE q.op = "maps" -> IF Authorised(q) THEN Accept(q) ELSE Refuse(q, "401")
       [] q.op = "lookup" -> Accept(q)
       [] OTHER -> Reply(q, [q EXCEPT !.view =
            [teams |-> games[q.game].teams,
             manned |-> \E p \in 1 .. Len(rows) :
                          rows[p].game = q.game /\ rows[p].team # NoTeam]])
  /\ UNCHANGED <<games, rows, news>>

\* Login and Register: the new token, or a refusal.
ServeLogin(q) ==
  /\ q.op = "login"
  /\ \/ /\ issued < MaxTokens
        /\ issued' = issued + 1
        /\ Reply(q, [q EXCEPT !.auth = issued'])
     \/ Refuse(q, "401") /\ UNCHANGED issued
  /\ UNCHANGED <<games, rows, news>>

\* handler/session.go CreateSession.
ServeCreate(q) ==
  /\ q.op = "create"
  /\ IF Authorised(q)
     THEN /\ Len(games) < MaxGames
          /\ games' = Append(games, NewGame(FALSE, TRUE))
          /\ Reply(q, [q EXCEPT !.game = Len(games'), !.auth = 0])
     ELSE Refuse(q, "401") /\ UNCHANGED games
  /\ UNCHANGED <<rows, news>>

NewPlayer(q, team) == [q EXCEPT !.me = [id |-> Len(rows'), team |-> team],
                                !.game = rows'[Len(rows')].game, !.auth = 0]

\* JoinSession, while the game waits and has a place; the players of other browsers are
\* not counted here, and any game may be full.
ServeJoin(q) ==
  /\ q.op \in {"join", "joinHere"}
  /\ \/ /\ games[q.game].phase = "waiting"
        /\ Len(rows) < MaxPlayers
        /\ rows' = Append(rows, [game |-> q.game, team |-> NoTeam])
        /\ Reply(q, NewPlayer(q, NoTeam))
     \/ Refuse(q, "error") /\ UNCHANGED rows
  /\ UNCHANGED <<games, news>>

\* Mutant of ServeCreateTeam: one team more than the limit.
ServeCreateTeamPastLimit(q) ==
  /\ q.op = "createTeam"
  /\ IF games[q.game].teams <= TeamLimit
     THEN games' = [games EXCEPT ![q.game].teams = @ + 1] /\ Accept(q)
     ELSE Refuse(q, "error") /\ UNCHANGED games
  /\ UNCHANGED <<rows, news>>

\* CreateTeam.
ServeCreateTeam(q) ==
  /\ q.op = "createTeam"
  /\ IF games[q.game].teams < TeamLimit
     THEN games' = [games EXCEPT ![q.game].teams = @ + 1] /\ Accept(q)
     ELSE Refuse(q, "error") /\ UNCHANGED games
  /\ UNCHANGED <<rows, news>>

\* JoinTeam asks neither whose game the team is of nor whose the player.
ServeJoinTeam(q) ==
  /\ q.op = "joinTeam"
  /\ rows' = [rows EXCEPT ![q.me.id].team = q.team]
  /\ Accept(q)
  /\ UNCHANGED <<games, news>>

\* createSoloLike: a game, its team and its player; the demo's is started as well, and
\* not made of a map without rounds.
ServeSolo(q) ==
  /\ q.op \in {"solo", "demo"}
  /\ IF IF q.op = "demo" THEN rounds ELSE Authorised(q)
     THEN LET team == [game |-> Len(games) + 1, n |-> 1]
          IN /\ Len(games) < MaxGames /\ Len(rows) < MaxPlayers
             /\ games' = Append(games, [NewGame(TRUE, q.op = "solo") EXCEPT
                                         !.phase = IF q.op = "demo" THEN "on" ELSE @])
             /\ rows' = Append(rows, [game |-> team.game, team |-> team])
             /\ Reply(q, NewPlayer(q, team))
     ELSE Refuse(q, IF q.op = "demo" THEN "error" ELSE "401") /\ UNCHANGED <<games, rows>>
  /\ UNCHANGED news

NeededBy(g) == IF games[g].solo THEN 1 ELSE 2

\* The phases StartGame goes on from; solo play, from a round as well.
StartPhases(g) == {"waiting", "scoring"} \cup (IF games[g].solo THEN {"on"} ELSE {})

\* Mutant of MayStart: one team is enough for every game.
MayStartAlone(g) ==
  games[g].phase \in StartPhases(g) /\ rounds /\ games[g].teams >= 1

\* StartGame's refusals: by the phase, of a map without rounds, of too few teams.
MayStart(g) ==
  games[g].phase \in StartPhases(g) /\ rounds /\ games[g].teams >= NeededBy(g)

\* The phase changes, and game_state says so.
Turn(g, phase) ==
  /\ games' = [games EXCEPT ![g].phase = phase]
  /\ news' = (news \/ Listening(g))

\* The first round, the next one, or the end of the game; how many there are is GameFlow's,
\* and so is what happens between reading the session and writing it.
ServeStart(q) ==
  /\ q.op \in {"start", "soloStart"}
  /\ \/ /\ Authorised(q) /\ MayStart(q.game)
        /\ Turn(q.game, "on")
        /\ Accept(q)
     \/ /\ ~(Authorised(q) /\ MayStart(q.game)) \/ games[q.game].phase = "on"
        /\ Refuse(q, IF Authorised(q) THEN "error" ELSE "401")
        /\ UNCHANGED <<games, news>>
  /\ UNCHANGED rows

Serve(q) ==
  /\ q.at \in {"sent", "lost"}
  /\ \/ ServeLogin(q)
     \/ /\ \/ ServeRead(q) \/ ServeCreate(q) \/ ServeJoin(q) \/ ServeCreateTeam(q)
           \/ ServeJoinTeam(q) \/ ServeSolo(q) \/ ServeStart(q)
        /\ UNCHANGED issued
  /\ UNCHANGED <<user, rounds, expired, token, me, page, ui, breaks, history>>

\* The connection of a request fails: before the server acts on it, which it may still
\* do, or after, and the answer is lost.
Fail(q) ==
  /\ q.at = "sent" \/ (q.at = "back" /\ q.answer # "error")
  /\ breaks < MaxBreaks
  /\ breaks' = breaks + 1
  /\ crossed' = (crossed \/ q.op = "joinTeam")
  /\ \E still \in {{}, IF q.at = "sent" /\ q.op \notin ReadOps
                      THEN {[q EXCEPT !.at = "lost", !.live = FALSE]} ELSE {}} :
       /\ net' = (net \ {q}) \cup still \cup
                  (IF q.op \in HeardOps
                   THEN {[q EXCEPT !.at = "back", !.answer = "error", !.auth = 0]} ELSE {})
       /\ Cardinality(net') <= MaxRequests[user] + 1
  /\ UNCHANGED <<server, token, me, page, ui, news, foreign>>

\* What nobody hears about may never reach the server.
Vanish(q) ==
  /\ q.at = "lost"
  /\ net' = net \ {q}
  /\ UNCHANGED <<server, token, me, page, ui, news, breaks, history>>

\* Other browsers: a player adds a team, the game is started, or goes on; the guide or
\* the deadline ends a round.  What follows in solo play is GameFlow's alone.
OthersCreateTeam(g) ==
  /\ ~games[g].solo /\ games[g].teams < TeamLimit
  /\ games' = [games EXCEPT ![g].teams = @ + 1]
  /\ UNCHANGED <<user, rows, rounds, issued, expired, token, me, page, ui, net, news, breaks, history>>

OthersStart(g) ==
  /\ ~games[g].solo /\ MayStart(g)
  /\ Turn(g, "on")
  /\ UNCHANGED <<user, rows, rounds, issued, expired, token, me, page, ui, net, breaks, history>>

OthersEndRound(g) ==
  /\ ~games[g].solo /\ games[g].phase = "on"
  /\ Turn(g, "scoring")
  /\ UNCHANGED <<user, rows, rounds, issued, expired, token, me, page, ui, net, breaks, history>>

\* The map's guide draws its first round or deletes its last one.
OthersEditMap ==
  /\ breaks < MaxBreaks
  /\ breaks' = breaks + 1
  /\ rounds' = ~rounds
  /\ UNCHANGED <<user, games, rows, issued, expired, token, me, page, ui, net, news, history>>

\* The token's time is up.
Expire ==
  /\ expired < issued
  /\ expired' = expired + 1
  /\ UNCHANGED <<user, games, rows, rounds, issued, token, me, page, ui, net, news, breaks, history>>

-----------------------------------------------------------------------------
(* Answers                                                                 *)

Rest(q) == net \ {q}
Local(q, u) == IF q.live THEN u ELSE ui
\* navigate, after everything else the handler set.
GoOn(q, name) == Show(name, q.game, Rest(q)) /\ UNCHANGED crossed
Stay(q) == net' = Rest(q) /\ UNCHANGED <<page, news>>

\* setMaps and setLoading.
ApplyMaps(q) ==
  /\ q.op = "maps"
  /\ ui' = Local(q, [ui EXCEPT !.loaded = TRUE])
  /\ Stay(q) /\ UNCHANGED <<token, me, history>>

ApplyLogin(q) ==
  /\ q.op = "login"
  /\ token' = q.auth
  /\ foreign' = FALSE
  /\ UNCHANGED me
  /\ GoOn(q, "guide")

\* The guide enters the new room with the player of the last game, if there was one.
ApplyCreate(q) ==
  /\ q.op = "create"
  /\ UNCHANGED <<token, me>>
  /\ foreign' = Carried(q.game)
  /\ GoOn(q, "lobby")

ApplyLookup(q) ==
  /\ q.op = "lookup"
  /\ ui' = Local(q, [ui EXCEPT !.found = q.game])
  /\ Stay(q) /\ UNCHANGED <<token, me, history>>

\* Mutant of ApplyJoin: whoever has played before stays that player.
ApplyJoinOnce(q) ==
  /\ q.op \in {"join", "demo"}
  /\ me' = IF me.id = 0 THEN q.me ELSE me
  /\ foreign' = FALSE
  /\ UNCHANGED token
  /\ GoOn(q, IF q.op = "join" THEN "lobby" ELSE "play")

\* setPlayer and on to the waiting room, or for a demo into the game.
ApplyJoin(q) ==
  /\ q.op \in {"join", "demo"}
  /\ me' = q.me
  /\ foreign' = FALSE
  /\ UNCHANGED token
  /\ GoOn(q, IF q.op = "join" THEN "lobby" ELSE "play")

\* setPlayer by a handler that stays.
Become(q, player) ==
  /\ me' = player
  /\ foreign' = (foreign \/ (~q.live /\ page.name \in Rooms))
  /\ UNCHANGED <<token, ui, page, news, crossed>>

ApplyJoinHere(q) ==
  /\ q.op = "joinHere"
  /\ Become(q, q.me)
  /\ net' = Rest(q)

\* SoloSetup.handleStart has its player, and asks for the game to be started.
ApplySolo(q) ==
  /\ q.op = "solo"
  /\ Become(q, q.me)
  /\ net' = Rest(q) \cup {[Ask(Rest(q), "soloStart", q.game, token) EXCEPT !.live = q.live]}

\* refreshSession, which only the room on the screen has a use for.
Refresh(q) == net' = Rest(q) \cup (IF q.live THEN {Ask(Rest(q), "session", q.game, 0)} ELSE {})

ApplyCreateTeam(q) ==
  /\ q.op = "createTeam"
  /\ Refresh(q)
  /\ UNCHANGED <<token, me, page, ui, news, history>>

\* Mutant of ApplyJoinTeam: a room that was left no longer sets the player's team.
ApplyJoinTeamHere(q) ==
  /\ q.op = "joinTeam"
  /\ Become(q, IF q.live THEN [q.me EXCEPT !.team = q.team] ELSE me)
  /\ Refresh(q)

\* The player as it was when the team was chosen, with the team.
ApplyJoinTeam(q) ==
  /\ q.op = "joinTeam"
  /\ Become(q, [q.me EXCEPT !.team = q.team])
  /\ Refresh(q)

ApplySession(q) ==
  /\ q.op = "session"
  /\ ui' = Local(q, [ui EXCEPT !.loaded = TRUE, !.view = q.view])
  /\ Stay(q) /\ UNCHANGED <<token, me, history>>

ApplyStart(q) ==
  /\ q.op \in {"start", "soloStart"}
  /\ UNCHANGED <<token, me>>
  /\ foreign' = Carried(q.game)
  /\ GoOn(q, "play")

\* request() signs the guide out on a 401, whoever asked, and GuideRoute turns to the
\* login.  The forms offer another try, the dashboard shows no maps, and the rest stays
\* as it is, a screen that waits for its maps or its session for good.
ApplyFailure(q) ==
  /\ token' = IF q.answer = "401" THEN 0 ELSE token
  /\ UNCHANGED <<me, history>>
  /\ IF Route(page.name, token') # page.name
     THEN Show(page.name, page.game, Rest(q))
     ELSE /\ ui' = Local(q, [ui EXCEPT
                     !.starting = @ /\ q.op \notin FormOps,
                     !.loaded = @ \/ (q.op = "maps" /\ page.name = "guide")])
          /\ Stay(q)

Answer(q) ==
  /\ q.at = "back"
  /\ \/ /\ q.answer = "ok"
        /\ \/ ApplyMaps(q) \/ ApplyLogin(q) \/ ApplyCreate(q) \/ ApplyLookup(q)
           \/ ApplyJoin(q) \/ ApplyJoinHere(q) \/ ApplySolo(q) \/ ApplyCreateTeam(q)
           \/ ApplyJoinTeam(q) \/ ApplySession(q) \/ ApplyStart(q)
     \/ q.answer # "ok" /\ ApplyFailure(q)
  /\ UNCHANGED <<server, breaks>>

\* game_state on the waiting room's socket.
GameOpens ==
  /\ news
  /\ UNCHANGED <<server, token, me, breaks, history>>
  /\ Show("play", page.game, net)

-----------------------------------------------------------------------------

Multi == {g \in 1 .. Len(games) : ~games[g].solo}

Next ==
  \/ \E name \in Pages : Click(name)
  \/ SignOut
  \/ \E g \in Multi : Open("lobby", g) \/ HandleLookup(g)
  \/ Open("solo", 0) \/ Open(page.name, page.game)
  \/ HandleLogin \/ HandleCreate \/ HandleJoin \/ HandlePlay
  \/ HandleJoinHere \/ HandleCreateTeam \/ HandleStart
  \/ \E n \in 1 .. TeamLimit : HandleJoinTeam(n)
  \/ \E q \in net : Serve(q) \/ Fail(q) \/ Vanish(q) \/ Answer(q)
  \/ Expire \/ OthersEditMap
  \/ \E g \in 1 .. Len(games) : OthersCreateTeam(g) \/ OthersStart(g) \/ OthersEndRound(g)
  \/ GameOpens

Spec == Init /\ [][Next]_vars

-----------------------------------------------------------------------------
(* Properties                                                              *)

\* The state is well formed.
TypeOK ==
  /\ user \in Users
  /\ games \in Seq(Game) /\ Len(games) <= MaxGames
  /\ rows \in Seq(PlayerRow) /\ Len(rows) <= MaxPlayers
  /\ rounds \in BOOLEAN
  /\ issued \in 0 .. MaxTokens /\ expired \in 0 .. issued
  /\ token \in 0 .. issued
  /\ me \in Identity /\ me.id <= Len(rows)
  /\ page.name \in Pages /\ page.game \in 0 .. Len(games)
  /\ ui.found \in 0 .. Len(games) /\ ui.view \in View
  /\ net \subseteq Request
  /\ \A q \in net : q.game <= Len(games) /\ q.me.id <= Len(rows)
  /\ news \in BOOLEAN /\ foreign \in BOOLEAN /\ crossed \in BOOLEAN

\* The team the browser submits routes for is the team the server has the player on,
\* unless two choices of a team overlapped, or the answer to one was not heard: it was lost
\* on the way, or the page was reloaded or left by its address.
TeamAgrees ==
  (/\ me.id # 0 /\ ~crossed
   /\ ~\E q \in net : q.op = "joinTeam" /\ q.me.id = me.id) =>
     me.team = rows[me.id].team

\* Whatever handlers overlap, a room is shown to a player of another game in two ways
\* only: it was entered by an address, by creating it or by starting it while the store
\* held that player, or a screen left behind set the player afterwards.  Joining, playing
\* alone and the game_state that opens the game never lead there.
IdentityFollows ==
  (page.name \in Rooms /\ me.id # 0 /\ ~foreign) => rows[me.id].game = page.game

\* Start Game goes by an old view of the room, and is never refused for want of teams: it
\* is refused only when a round is being played or the game is over, when the map has no
\* rounds, or when the guide's token is no longer good.
StartAccepted ==
  [][\A q \in net :
       (/\ q.op = "start" /\ q.at = "sent" /\ breaks' = breaks
        /\ ~\E a \in net' : a.id = q.id /\ a.op = q.op /\ a.answer = "ok") =>
          games[q.game].phase = "on" \/ ~rounds \/ q.auth <= expired]_vars

\* The server the screens talk to keeps its rooms as RoomProtocol says, which the handlers
\* implement: an old view of a room errs only by teams that came since and by a start.
RoomPhase(g) == IF games[g].phase = "waiting" THEN "waiting" ELSE "playing"
Room(g, needed) ==
  INSTANCE RoomProtocol WITH Limit <- TeamLimit, Needed <- needed,
                             teams <- games[g].teams, phase <- RoomPhase(g)
RoomsFollowProtocol ==
  [][\A g \in DOMAIN games :
       /\ g \in DOMAIN games'
       /\ \/ UNCHANGED <<games[g].teams, RoomPhase(g)>>
          \/ \E needed \in {1, 2} : needed = NeededBy(g) /\ Room(g, needed)!Next]_games

-----------------------------------------------------------------------------
(* What the code's own words promise and the code does not keep            *)

\* WaitingRoom.tsx:87, "Not yet joined", asks whether there is a player, not whether it is
\* one of this game: the player of one game is given a team of another.
TeamOfOwnGame ==
  \A p \in 1 .. Len(rows) : rows[p].team # NoTeam => rows[p].team.game = rows[p].game

\* GuideLogin.tsx:28 stores the token that a 401 has not refused yet, and api.ts:20 drops
\* whatever token there is: a late answer to the old one signs out the new one.
KeepsFreshLogin ==
  [][\A q \in net \ net' :
       (q.at = "back" /\ q.answer = "401" /\ token > expired) => token' = token]_vars

\* An answer to a screen that was left takes the user off the one on display.
PageIsUsers ==
  [][\A q \in net \ net' : (q.at = "back" /\ ~q.live) => page' = page]_vars

\* CreateSession.tsx:33 and SoloSetup.tsx:49, "Loading maps...": when the request for them
\* fails nothing ends the wait, and none is on its way.
LoadingIsUnderWay ==
  (page.name \in {"create", "solo"} /\ ~ui.loaded) =>
     \E q \in net : q.op = "maps" /\ q.live

=============================================================================
