# sluff in TLA+

sluff is a route-drawing game: a guide authors maps with rounds, players in teams draw a
route in each round against a deadline, and a Go server scores the routes and moves the game
along over HTTP and WebSockets. This directory holds TLA+ specifications of its server and
of the screens that talk to it, the TLC configurations that check them, and TLAPS proofs
about them. Paths below are relative to `src/`; line numbers are of the commit the
specifications were written from.

## 1. Inventory

### Parts of the system

| Part | Source | State | Operations |
|---|---|---|---|
| Round life cycle | `backend/internal/handler/game.go` | the `sessions` row (phase, current_round, round_ends_at) and `team_routes` | StartGame, SubmitRoute, EndRound, DemoNextRound, RunRoundTicker, endRound, broadcastScores |
| Guide moderation | `handler/guide_admin.go` | `players`, `team_routes` | KickPlayer, ClearRoute |
| Waiting room | `handler/session.go` | `sessions`, `teams`, `players` | CreateSession, JoinSession, CreateTeam, JoinTeam, CreateSoloSession, CreateDemoSession |
| WebSocket hub | `ws/hub.go`, `ws/client.go`, `handler/ws.go` | `rooms` under an RWMutex, a send channel per client, two pumps per connection | HandleWebSocket, Register, Unregister, Run, BroadcastToSession, BroadcastToTeam, ReadPump, WritePump |
| Store | `store/sqlite.go`, `store/migrations.go` | the SQLite file | one statement per operation, no transaction anywhere |
| Map catalogue | `handler/guide.go`, `model/map.go` | `game_maps`, `rounds` | CreateMap, ListMaps, GetMap, DeleteMap, CreateRound, UpdateRound, DeleteRound |
| Accounts | `handler/auth.go`, `middleware/auth.go` | `guides`, bearer tokens | Register, Login, RequireGuide |
| Rate limiter | `middleware/ratelimit.go` | a token bucket per address | Limit, cleanup |
| Scoring | `game/scoring.go`, `geo/geo.go` | none | ScoreRoute |
| Lifecycle | `cmd/sluff-server/main.go`, `server/server.go` | the signal's context | New, Start |
| Game client | `frontend/src/components/game/`, `services/ws.ts`, `stores/gameStore.ts` | the screen, the drawing, the review's map, the socket with its backoff | load, submit, automatic submit on `round_end`, continue, end round, clear, reconnect |
| Lobby screens | `components/lobby`, `solo`, `demo`, `auth`, `Home.tsx`, `App.tsx`, `stores/playerStore.ts`, `guideStore.ts`, `services/api.ts` | the player and the token kept in localStorage, the session as last loaded | log in and out, create, look up, join, create and join teams, start, play solo or the demo |
| Map editor | `components/guide/MapEditor.tsx` | the Terra Draw features, the refs that name them, the step, the list of rounds | draw, redo, zones, edit, save, delete, cancel |
| Dashboard and import | `components/guide/GuideDashboard.tsx`, `ImportLabeler.tsx`, `utils/importGeo.ts` | the list of maps, the labels of a file's features | create, delete, import, label, save |

### How they interact

Every HTTP request runs in a goroutine of its own. Handlers share nothing in
memory but the hub: they meet in the database, where each statement is atomic and
nothing larger is, and each handler runs between two and six statements. The
ticker is one more goroutine that calls the same `endRound` as the guide and the
last submission. What changes is pushed to browsers by `BroadcastToSession`, which
takes the hub's read lock and puts the message in each client's channel without
waiting; `Hub.Run` alone writes `rooms`, under the write lock, as clients arrive on
two unbuffered channels. Browsers answer a `round_end` by submitting what they have.

A browser reads state from answers and from broadcasts, and nothing relates the two:
an answer carries no time, is applied when it comes, and belongs to whatever is on
the screen by then, since a React handler goes on after its screen is left. What a
tab keeps from screen to screen is the player and the guide's token; the rest is
asked for again on entry.

### What is hard

* Statements of different requests interleave, so what a handler has read is stale
  when it writes: the phase, the roster, the list of overdue ids.
* One event has three callers (deadline, guide, last submission).
* Broadcasts are made after the write they announce, and nothing orders the
  broadcasts of two handlers.
* A failure or a crash between two statements leaves the first one done.
* Answers overtake each other and the broadcasts, and are applied in the closure of
  the render that asked, or to a screen that has moved on.
* Screens keep copies of what they were told, which age; a drawing is kept in four
  places at once.
* Connections are replaced while their predecessors are still being cleaned up.
* Goroutines wait for one another through two channels and a lock.

`PROJECT.json` lists each such hazard at its line, with the property that looks
at it, or the reason none does yet.

### What makes each part correct

* Rounds are played in order, one at a time; each ends once for each time it is put into
  play, by the deadline at the latest, and as soon as every team with players has
  submitted; it is revealed with the scores of its own session; a finished game stays
  finished unless a start that another one outran writes what it read before.
* A team has at most one route per round.
* The waiting room respects its limits and closes when the game starts.
* The hub never sends on a closed channel, never keeps a dead client, never loses
  a live one, and never blocks a handler for ever.
* The catalogue keeps rounds numbered and the editor's drawings are stored as they
  are shown, once; a list shows what is stored.
* A tab shows the session's phase and round, and what was drawn when a round ends
  counts.
* The player a browser plays as is one of the game it shows, on the team it names.

## 2. Modules

| Module | What it is |
|---|---|
| `RoundProtocol` | abstract: the life of a session's rounds, with no requests, goroutines or database |
| `GameFlow` | `game.go`, `guide_admin.go`, `JoinTeam`, the ticker and the rows they share, one action per database call |
| `RoomProtocol` | abstract: a waiting room, its teams and the start of its game |
| `MCGameFlow` | small instances of it |
| `GameFlowProofs` | type correctness, unique routes, rounds end once, the early end, `GameFlow` implements `RoundProtocol` |
| `Lobby`, `MCLobby`, `LobbyProofs` | the waiting room of one session and its limits |
| `Hub`, `MCHub`, `HubProofs` | the hub and the pumps of one session's connections |
| `GameClient`, `MCGameClient` | one tab in one session, with the server reduced to what the tab sees of it, which follows `RoundProtocol` |
| `GameClientProofs`, `GameViewProofs` | what is drawn is stored; what is shown is the session, and Submit comes back |
| `Screens`, `MCScreens`, `ScreensProofs` | one browser and the screens around the game, from Home to the waiting room |
| `MapEditor`, `MapEditorProofs` | the editor of one map's rounds over their rows, with another tab at work |
| `MapCatalog`, `MCMapCatalog`, `MapCatalogProofs` | extends `MapEditor` with the dashboard, the importer and the maps |

The server's modules and the browser's meet in what is broadcast and asked: `GameFlow`
cuts handlers at their database calls and follows the rows, `Hub` follows the
connections, and `GameClient` follows the messages: there a handler reads and writes the row
in one step and then makes its broadcasts one by one.
`ClearRoute`, `JoinTeam` and `StartGame` are therefore in several of them, each time with
what that module tells apart. `RoundProtocol` ties the two together: the handlers of
`GameFlow` implement it (`ImplementsProtocol`), and the row that `GameClient` presumes
moves as it says (`RowFollowsProtocol`), so that a tab is not checked against a session
that goes where no session goes. `RoomProtocol` is the same for the waiting room: `Lobby`
implements it (`ImplementsRoom`) and the games of `Screens` follow it
(`RoomsFollowProtocol`). The two differ in its limit: in `Screens` each handler is one step
and the limit is exact; in `Lobby` requests race, and it is overshot by fewer than they are.

### GameFlow

A request in flight of process `p` is `pc[p]`, the next database call or broadcast
it makes, and `loc[p]`, the part of its Go locals that later steps use. Each player
has one browser and each host stream one, so a process has at most one request in
flight. As Next Round is never disabled and a guide may have two tabs, a session may have
any number of hosts, and their starts overlap: what one of them read may be written over
before it writes. The ticker is a process too; `sweep.ids` is the rest of the slice it
ranges over.

| Variable | In the code |
|---|---|
| `session[s]` | the row: `phase`, `current_round`, and `round_ends_at` as `null`, `future` or `past` |
| `routes` | `team_routes`; `by` tells two attempts of one team apart |
| `teamOf`, `present` | `players.team_id`; whether the row exists. A kicked browser keeps its team and goes on |
| `wire[s]` | what a client that receives every broadcast shows (`GameView.tsx:148`) |
| `flips` | history: how often a round was ended since a start last put it into play |
| `reached` | history: the highest round the session has had |
| `outrun` | history: the hosts with a start in flight whose session another start has written since they read it |
| `carried` | history: the sessions whose round was put into play with a submission for it stored or in flight, as SubmitRoute takes any round of the map |

| Actions | In the code |
|---|---|
| `SubmitRoute`, `ReadRoster`, `CheckDuplicate`, `CreateTeamRoute`, `TallyTeams` | `SubmitRoute`. Its load of the session is two actions because the phase and the players come from different statements; the team list, which never changes in a game, is in neither |
| `EndRoundIfPlaying`, `ReloadSession`, `RevealScoring`, `ReadScores`, `PublishScores` | `endRound` and `broadcastScores`, for whichever process calls them |
| `StartGame`, `StartRound`, `AnnounceRound`, `FinishGame`, `AnnounceFinish` | `StartGame` |
| `EndRound`, `DemoNextRound`, `AdvanceDemo` | the handlers of those names |
| `TickerQuery`, `TickerNext`, `Expire` | `RunRoundTicker`, and the clock it compares with |
| `KickPlayer`, `ClearRoute`, `JoinTeam` | one write each |
| `StoreError`, `Crash`, `Signal` | a statement fails and the handler gives up; the process dies and restarts; SIGTERM cancels the context |

Left out on purpose: the path of a route and its score (a bad path only answers
400, which `CheckDuplicate` allows at any time), ownership checks (the processes
are the guide's and the players' own browsers), and edits of a map while it is
being played (`NumRounds` is a constant).

### Lobby

Requests are interchangeable `Streams`; team and player ids are fresh uuids. Each
of JoinSession and CreateTeam is three actions: load, count, insert.

### Hub

One session; a connection is one `Client`, numbered in the order browsers open
them. `handler`, `reader` and `writer` are the three goroutines of a connection,
`run` is `Hub.Run`, `cast[x]` is a broadcast in progress by a handler or by a read
pump. `run.at # "select"` means that Run waits for `Lock`; Go's RWMutex then admits
no new reader, which is the guard of `RLock`. A broadcast sends to one client per
step, so broadcasts interleave. `link = "silent"` is a peer lost without a close,
which only a failed ping or write discovers; writes to it may succeed for a while.
Browsers keep the player in localStorage, so an earlier connection may still be
open, in another tab, when the next one is made. `CancelContext` is net/http, external
to the repository: it cancels a request's context when the handler returns.

### GameClient

One tab, of one of four roles: a player's, that of the guide (who plays too), a solo
game, the demo. The server is `row` and `routes`; `chan` is what was broadcast to the
tab and not handled yet, in order; `net` is the set of requests, so that they are
served, and their answers applied, in any order. A handler that has changed the row is
one of `handlers`: it reloads the session if it is `endRound`, makes each broadcast in a
step of its own, and answers, while other handlers change the row again and overtake it.
A request that has been posted is not taken back by a reload of the page: it is `adrift`,
and may still be served.

| Variable | In the code |
|---|---|
| `page` | the route, and `blank` when React has unmounted the page after an exception |
| `ws` | the GameWebSocket: `connecting`, `open`, `waiting` for its backoff timer |
| `store` | `gameStore`: phase, round, scores, the routes of the review |
| `ui` | `useState` of `GameView`: showScores, submitted, submitting |
| `map` | which MapLibre map is mounted, whether it has loaded, the source ids added to it |
| `line` | the drawing in Terra Draw, as the round it was drawn in: it outlives the round |
| `handlers` | the goroutines that have changed the session: the row they set, the step they are at, the request they will answer |
| `adrift` | requests of a page that was left, or whose connection failed, which the server may still get |
| `told` | history: how far the broadcasts made so far say the game has come, by which a later one is known to come too late |
| `stale`, `due` | history: whether the view has missed news; the drawing owed to the player |

| Actions | In the code |
|---|---|
| `LobbyMessage`, `HandleStart`, `ApplyStart`, `Enter` | the waiting room's socket and its Start Game; the game screen mounts, and loads |
| `SocketOpens`, `SocketCloses`, `Reconnect` | `ws.ts`; broadcasts of the time between are lost |
| `GuideAdvances`, `RoundEnds`, `OthersSubmit` | what others make the server do: the row changes, and a handler goes on |
| `HandlerStep`: `BroadcastToSession`, `ReloadSession`, `GivesUp`, `WritesAnswer` | the rest of StartGame, `endRound` and `broadcastScores`: a broadcast that the tab gets, or does not as its socket is not open or its channel full; a query that fails, after which nothing is broadcast; the answer |
| `Serve`, `Fail` | a request reaches its handler, whether or not the page still waits; it fails on its way, or its answer is lost |
| `ServerStops` | the handlers and what they would have broadcast are gone |
| `GameMessage` | `ws.onMessage`: `GameState`, `RoundStart`, `ScoresCome`, `RoundEnd` with `AutoSubmit` |
| `Answer`, `AnswerElsewhere` | what follows each `await`, on this view or after it was left |
| `MapLoads`, `Draw`, `HandleSubmit`, `HandleScoreContinue`, `HandleEndRound`, `HandleClearRoute`, `GoHome`, `Exit`, `Reload` | the user and the browser |

`Redraw` and `Throws` are React's part: every change of the store renders, the review's
effect runs when its inputs changed, and adds sources that MapLibre refuses if their id
is taken. Left out, being display only: the countdown, cursors and teammates' drawings,
the count of submitted teams, markers, and the demo's tutorial. Two reductions concern the
server: a start reads and writes the row in one step, since the start that another one
outruns is `GameFlow`'s; and what StartGame broadcasts in a solo game is left out, since
the tab has closed its socket by the time it may ask for the next round.

### Screens

One browser of a `guide` with an account or of a `player` without. `games`, `rows`,
`issued` and `expired` are the server's; `token` and `me` are what localStorage keeps;
`page` and `ui` the screen; `news` is the `game_state` that opens the game.
`HandleX` is the press of a button up to its first request, `ServeX` the handler,
`ApplyX` what follows the `await`, `Refresh` what the waiting room asks for on entry and
after each of its own changes (it is told of no one else's). A game's `phase` is where its
round stands, as far as StartGame looks at it, and `rounds` whether the map has any:
`MayStart` is all of StartGame's refusals. `Fail` loses a request before the server acts,
which the server may still do, or the answer after it acted; a request nobody hears about
is `lost`, and is served or vanishes. `Open` is a reload, a link or an address typed, which
leaves the requests of the page to the same fate; `Expire` ends a token, after which the 401 of `Refuse` signs the
guide out (`ApplyFailure`). A handler whose screen was left keeps `live = FALSE` and
still navigates and sets the player, as the code does. `foreign` and `crossed` are
history: the ways in which another game's player may have come to a room, and in which
two team choices may have overlapped or the answer to one gone unheard.

### MapEditor and MapCatalog

The editor keeps one drawing in four places, and each has its field: the features in
Terra Draw (`draw.features`, with its `mode`), the refs that name them (`ui.at`,
`ui.zones`), the step and flags of React state (`ui.step`, `ui.zoning`, `ui.editing`), and
the round as last loaded (`list`). `draw.heard` is whether `handleFinish` is listening,
which it first does when the step changes after the map is ready.

| Actions | In the code |
|---|---|
| `InitDraw`, `RedoStep`, `DrawZone`, `DeleteZone`, `StartNewRound`, `EditRound`, `CancelEditing` | the functions of those names, each with the `useEffect` on the step it triggers (`SetStep`) |
| `FinishFeature`, `DragFeature` | Terra Draw's `finish`, of a shape just drawn or of one dragged in the select mode (`MapEditor.tsx:179`); both call `handleFinish` (`HandleFinish`), which does not ask which it was |
| `SaveRound`, `DeleteRound`; `Serve`, `Apply` (`ApplyGet`, `ApplyDone`, `ApplyFailure`) | create or update, then get; delete, then get |
| `Fail` | a request is lost, or its answer is after it was done |
| `OthersCreate`, `OthersDelete` | another tab of the guide's |
| `HandleCreateMap`, `HandleDeleteMap`, `EditMap`, `LeaveGuide` | the dashboard |
| `HandleImport`, `FileParsed`, `FileRefused` | a file is chosen; when it has been read the guide is taken to the importer, wherever the guide is by then |
| `SetLabel`, `HandleSave`, `ApplyImportMap`, `ApplyImportRound` | the importer, its two requests, and the two ways out |

`ServeCreate` and `ServeUpdate` have UNIQUE(map_id, round_number), `ServeDeleteMap` the
foreign key of sessions. A file is the list of its geometry types, and the importer's form
names a feature by its place in it; the types decide which labels are offered and whether
the round has places: `HasPlace` is the `?? [0, 0]` of `ImportLabeler.tsx:292`, and the
server's `ValidateRound` refuses what it yields.

## 3. Runs

Passing runs:

| Run | Question | Instance |
|---|---|---|
| `GameFlow_rounds` | do rounds go through `RoundProtocol`, end once and hold one route per team, with failures and two tabs of the guide? | 1 session, 1 round, 2 teams, 2 teammates and 2 hosts (symmetric), ticker, 1 fault, signal |
| `GameFlow_earlyend` | is the early end ever missed? | 2 rounds, two teams of one player and a third player who is on no team; no faults, no moderation |
| `GameFlow_deadline` | does every round end? | 1 round, 2 teams, 1 player, moderation and 1 fault, fairness |
| `GameFlow_solo` | do solo and demo sessions follow the protocol though presses of Next Round overlap? | a solo and a demo session, 2 rounds, 2 hosts each (symmetric) |
| `Lobby_bounds` | by how much can limits be overshot, and is the room otherwise as `RoomProtocol` says? | 3 requests, limits of 1, 4 ids, symmetric |
| `Hub_reconnect` | does a dead client hold a slot, can a broadcast panic, does Register return, do dead connections go? | 2 connections of one player, a broadcaster, a buffer of 1, fairness |
| `GameClient_tab` | does a tab show the session, is what was drawn stored, does Submit come back, does every round reach the guide, does the session follow `RoundProtocol`? | a tab of each role, 2 rounds, the second with zones, 1 break, 1 handler of others' under way; fairness; @TAB@ states |
| `Screens_browser` | is the player in the browser the one of the game, on the team stored; is Start Game good when offered; do the rooms follow `RoomProtocol`? | a guide and a player, 2 games, 2 players, a token that expires, a map with rounds or without, 1 break; @SCR@ states |
| `MapCatalog_guide` | is what is drawn what is saved, once; do the lists show what is stored; is an import whole; is Save disabled just while a save is under way? | 2 maps, 2 rounds, 4 features, a file that can be imported and one that cannot; @CAT@ states |

Runs that end in a violation, each of a sentence in the code or its documents, quoted
with the property and in `PROJECT.json` under findings:

| Run | What the code does |
|---|---|
| `Hub_longlived` | the pumps die with the request's context, at once |
| `GameClient_firstround` | a player who waited in the lobby is not shown the first round, though nothing fails |
| `GameClient_blank` | a review that is given its routes a second time takes the page down |

### Bounds

Two rounds are enough for everything a round can do to the next one: each race
found spans two consecutive rounds, and the third would repeat the second.
`GameFlow_rounds` has one, so that two tabs of the guide fit: a start that was outrun puts
that round into play again, during its scoring or after the game, and `GameFlow_solo` has
the starts of two rounds outrun each other. Two
teams are the least a multiplayer game starts with, and make the last submission a
race of two. One fault lets it fall at every step of every interleaving. The
limits of the waiting room are 1 in the model because overshooting depends on the
number of requests past the check, not on the limit; the proof covers all values.
A buffer of one message is filled by the broadcasts of the instance. Two
connections are one reconnect. Where a run's properties read neither the screen nor some of
the history, its `VIEW` leaves that out: no action reads it, so states that differ in
nothing else have the same successors.

In the browser's modules a bound on requests is how many a tab may have in flight when
it asks for another: an answer that comes late needs two, an answer that comes after the
screen was left needs one. The guide has more to press and has one, the others two
(`Requests`). `MaxMessages` says how much the handlers of others may have under way:
one begins when less than that is, and its broadcasts reach an open socket when no more is.
What the page itself waits for is never held back, so that neither waits for the other.
With 1, a handler of others' is overtaken by those of the tab's own requests, as when
the guide here starts the next round while the ticker's `endRound` still has its broadcasts
to make; that other handlers overtake each other in every way is the proof's. `MaxBreaks`
is the number of connections, requests, queries and messages that are lost; one of them
falls at every step of every interleaving. The editor is
checked under five profiles (`SmallLimits`): something goes wrong or another tab is at
work; two requests of the editor's at once; the editor is entered and left while one is
under way; the dashboard and the importer with something going wrong; and the importer
left while it saves and entered again. A behaviour is held to one profile, and the
hazards need no more together.

### Fairness

`GameFlow`'s `Fairness` asks that a request in flight, the ticker and the clock move
on; requests are never owed, so nothing depends on a browser. A goroutine with
work is scheduled by Go, statements have a busy timeout, and the ticker fires each
second. Faults are bounded, as liveness needs an end to failures. In `Hub` each
goroutine that can run does, and the ping is strongly fair: `select` chooses at
random among what is ready, so a stream of messages cannot keep the ticker out for
ever. Neither broadcasts, browsers nor `CancelContext` are fair, so that
`DeadConnectionsGo` rests on the pumps alone. `Run` is fair as a whole and not per
connection: the instance has finitely many connections, each of which calls Register
and Unregister once.

In `GameClient` the event loop handles what has arrived, a socket opens or its timer
fires, a handler runs on, the server serves and answers are applied. Delivery of a
message and the steps of handlers are strongly fair only because `MaxRequests` and
`MaxMessages`, bounds of the model, may hold them back again and again. Nobody owes a
click, neither the user nor the guide elsewhere, nothing that fails is owed, and no
request that its page has given up is.

## 4. Proofs

All for every value of the constants, from the named assumptions of each module.

`GameFlowProofs`. `TypeInv` is `TypeOK` with `InFlightOK`: a stored route is well
formed only because what the request carries was, and `EndRoundIfPlaying` counts a
flip of a real round only because no demo session reaches it. `RoutesUnique`
follows from `CreateTeamRoute` seeing the unique key at the moment it inserts,
though the check before it is stale. `RoundsEndOnce` and `RoundsFollowProtocol` hold for
any number of hosts. What StartGame read is still the row's round when it writes, unless
another start has written in between (`HostFresh`), because everybody else only moves a
session from playing to scoring; a start that was outrun has read a round the session has
had, so that it can start no round but those and the next (`reached`). A round that is
being played has not ended since it was put into play (`EndsInOrder`). Their conjunction
`LifeInv` is inductive, and each step under it is a step of `RoundProtocol` or a stutter; the
write of an outrun start is `Repeat`, the one exception the abstract specification makes,
and it asks for a start in flight that was outrun.

`LastSubmissionEnds` proves `EarlyEndNotMissed` of `PlaySpec`, where nobody moderates
and nothing fails. `EarlyInv` says that a complete round has a submission that will
still end it: one that counts that very round with the players there are, or one on
its way to `endRound`. The insert that completes a round is such a submission because
the players a request read are still the players and a request that was loaded in the
scoring phase, which nobody counts, is for a round that was submitted for before it was put
into play again: those sessions are `carried`, and the property excepts them.

`FinishedStaysFinished` says when a finished game may go back into play (`FinishedStays`):
only by a start that was outrun. That it happens then is what section 6 refutes of
`FinishedIsFinal`.

`LobbyProofs`. The limits themselves are not invariant. Rows plus requests that
have seen room stay below the limit plus the number of requests (`SeatsOK`): a
request joins that count only when the rows alone are below the limit, and then it
is itself one that was not counted. `LimitsBounded` and `PlayersLimited` follow. `LobbyIsRoom` is the refinement
of `RoomProtocol`: a request that inserts a team is one of those in `SeatsOK`, so that the
limit of the abstract room, `MaxTeams + Cardinality(Streams) - 1`, was not reached; and the
teams that StartGame counted are still there when it writes (`StartOK`), since no handler
removes one.

`HubProofs`. `HubInv`: a slot holds an open client of its own player; while a
broadcast holds the lock the clients it has left are in their slots; the client
Run holds is one it may still add or one whose reader has stopped; pumps start
only after Register. `NoPanic`, `GhostsNeverReturn` and `HubTyped` follow.

`GameClientProofs`. `TabInv` is the type invariant with what makes it inductive:
`current_round` is positive once the session plays (`RowOK`), a submission names a
round (`SubmitsOK`), nothing before the start has told the tab of a round
(`WaitingOK`). `TabDrawingCounts` needs the same, and `DueOK`, which follows a
submission from the press to the row: the drawing due is stored, or its submission has
not reached the server. The server's duplicate check keeps it true, since a refused
duplicate means that a route of that round is there.

`GameViewProofs`. What a tab shows is seldom the session: a broadcast is on its way, or is
still to be made, or a request is, and they overtake each other. `ViewInv` says what the
difference may be. In a multiplayer game only broadcasts move the screen, so the
difference is in the channel and in the handlers. `told` is the furthest the broadcasts have
come, and it is at the row unless a handler has yet to tell of it (`ToldOK`); the last
`game_state` and the last `round_start` in the channel tell the phase and the round of the
row, unless a handler is about to (`TellsRow`); and when none of a kind is on its way or
about to be made, the screen and every answered load agree with the row in what that kind
tells (`TabShows`). A broadcast made after that of a later change is below `told`, by which
it is recognised: it sets `stale`. Solo and demo tabs
hear no broadcast and move the session themselves: one request that moves it is under way
at most, and until it is answered the screen is at the round the session had when it was
sent (`SoloShows`); a drawing is posted once, before its review, and this is why the
review is given its routes once (`SoloInTurn`). `TabShowsSession` and `TabSoloKeepsPage`
follow. `TabFollowsProtocol` proves that each step of the tab's world is a step of
`RoundProtocol` of the row or leaves it alone. `TabSubmittingIsUnderWay` needs only that
`submitting` is reset wherever the submission of this view ends, refusals and rounds that
begin meanwhile included.

`ScreensProofs`. `BrowserInv` knows where each request comes from (`RequestsOK`: a
room's requests are of the room on the page as long as it is shown), that what was seen
of a room is never ahead of it (`ViewsOK`, since teams are only added; this is why no
start an old view offers is refused for want of teams), that an answer with a new player is the
first to bring it (`PlayersOK`), and that a player has one team choice under way unless
two overlapped (`ChoicesOK`, `TeamOK`). `BrowserTypeOK`, `BrowserTeamAgrees`,
`BrowserIdentityFollows` and the action properties `BrowserStartAccepted` and
`BrowserRoomsFollow` follow.

`MapEditorProofs` holds the editor's invariant and `EditorStep`, that each of its steps
keeps it; `MapCatalogProofs` adds the pages and states the theorems of the whole.
`EditorInv`: a feature on the map is known to the refs while `handleFinish` listens, and
the mode says which shape the next one drawn has, so that it gets its ref; a drag finishes
one that is known already, or is dropped for another that is (`SketchOK`); the list was read right or will be read
again (`ListOK`); the requests that save the drawing on display save the same round, which
is the only one stored from it (`ThisOK`). `StoredOnce` is the case of a save that is tried
again: its number is that of the list, the unique key refuses it if the first try was
stored. `CatalogInv`: while the list is asked for nothing else is (`ListingOK`), the
dashboard shows the maps there are or those before its one delete (`DashboardOK`), an
imported map that lacks its round has the request that brings it (`OwedOK`). `FormOK` says
that the importer's form has one import under way while it saves and none otherwise,
counting only the requests of the importer on the page, and `PlacesOK` that the editor's
page is the one with a map open. `SavesOK` does the same for the editor's Save: the request,
what it becomes when it is answered and refused, and the reload that follows it are one at a
time, and the only request whose failure is heard of is that one, so that nothing else
offers Save again. `EditorTracksAll`, `EditorListShown`, `EditorStoresOnce`,
`EditorSavesStored`, `EditorSavingIsUnderWay`, `GuideDashboardShows`, `GuideImportWhole`,
`GuideSavingIsImporting` and `CatalogTypeOK` follow.

Every invariant and action property of the passing runs is thus a theorem. Model-checked
only is what is temporal under fairness (`EveryRoundEnds`, `RegisterReturns`,
`DeadConnectionsGo`, `RoundReachesGuide`), which is out of the prover's reach.

## 5. Not modelled

| What | Why |
|---|---|
| `middleware/ratelimit.go` | a token bucket over floating-point time that shares nothing with the game; each request is one step under its mutex |
| `game/scoring.go`, `geo/geo.go` | floating-point geometry; an integer model would be of another algorithm. Scores are the set of teams that have one |
| `UpdateMap` of `handler/guide.go`, `extractRounds` of `importGeo.ts` | no screen calls them |
| unfinished polygons, the Delete key and undo of Terra Draw | the library's own state, which the code does not read |
| countdown, cursors, teammates' drawings, markers, the layers of saved rounds | display only: no handler reads them |
| migrations, `seedDefaultGuide` | run alone, before the server listens |
| passwords and `Register` | the UNIQUE column decides the race of two registrations |
| a session stored without its team or player | `createSoloLike` is one step of `Screens`; nothing ever reads the orphan |
| edits of a map while a session plays it | `NumRounds` is a constant of `GameFlow` and `GameClient`, and the rounds of `MapEditor` are not played |

## 6. What comments, tests and documents say, and the code does not do

Besides the three runs above, each module states under its last heading further
sentences of the code or its documents that the code does not keep, with the place they
are from. TLC refutes each in seconds when it is put in the place of the properties of the
named configuration, with what the last column changes (and without the `VIEW` and
`SYMMETRY` it may have; a safety property is quicker under `Spec`).

| Property | What the code does | Configuration | Changes |
|---|---|---|---|
| `EarlyEndJustified` | the tally of one round ends the next | `GameFlow_earlyend` | two players, `Rivals` |
| `TickerEndsOverdueOnly` | the ticker ends a fresh round with an id listed for the one before | `GameFlow_earlyend` | two players, `Rivals` |
| `LastScoresComplete` | incomplete scores are the last ones sent | `GameFlow_earlyend` | two players, `Rivals` |
| `OnlyPlayingSubmits` | a route is stored outside the playing phase | `GameFlow_earlyend` | two players, `Rivals` |
| `FinishReachesPlayers` | a late reveal overwrites the end of the game on every screen | `GameFlow_earlyend` | two players, `Rivals` |
| `EarlyEndNotMissed` | a kick that completes the round does not end it | `GameFlow_earlyend` | two players, `Rivals`, `Spec` |
| `FinishedIsFinal` | two StartGame requests in flight put a finished game back into play; with one the theorem `FinishedStaysFinished` excludes it | `GameFlow_earlyend` | one player, two hosts |
| `ScoresAreOwnSession` | two sessions of one map are shown each other's scores | `GameFlow_earlyend` | two sessions (`TwoSessions`) with two teams, a player and a host each, one round |
| `EveryRoundEnds` | after SIGTERM the server serves on without its ticker | `GameFlow_deadline` | `FairSignalSpec`, no faults |
| `ScoringShown` | a failed query loses the reveal for good | `GameFlow_rounds` | |
| `TeamsWithinMax`, `PlayersWithinMax` | the limits are exceeded by requests that count together | `Lobby_bounds` | |
| `JoinersFindItWaiting` | a player is created in a game that has started | `Lobby_bounds` | |
| `StartsWithPlayers` | a game starts with no players | `Lobby_bounds` | |
| `NewestListed` | a late Register displaces the player's live connection | `Hub_reconnect` | |
| `PostsOwnRound` | a line of the last round is posted for this one | `GameClient_tab` | |
| `ClearsListed` | Clear is offered for the routes of one round and clears another's | `GameClient_tab` | |
| `SoloPlaysEveryRound` | a second press of Next Round passes over a round | `GameClient_tab` | |
| `SubmittedIsStored` | an answer that comes a round late marks the new round submitted | `GameClient_tab` | a player, three rounds |
| `TeamOfOwnGame` | the player of one game is given a team of another | `Screens_browser` | |
| `PageIsUsers` | an answer to a screen that was left navigates | `Screens_browser` | |
| `LoadingIsUnderWay` | "Loading maps..." stays when the request failed | `Screens_browser` | |
| `KeepsFreshLogin` | a late 401 for the old token signs the new one out | `Screens_browser` | the guide with two requests in flight, two tokens, one game and player, no breaks |
| `ReviewIsComplete` | two redos lead to the review without a start | `MapCatalog_guide` | |
| `StepHasMode` | a zone leaves the select mode behind, in which the step cannot be finished | `MapCatalog_guide` | |
| `NumberIsNew` | a new round gets a number that is taken | `MapCatalog_guide` | |
| `EditIsSent` | a save of a round that was deleted sends nothing and is reported done | `MapCatalog_guide` | |
| `SaveKeepsDrawing` | a save that was cancelled clears what has been drawn since | `MapCatalog_guide` | |
| `SavesToShownMap` | a round drawn on one map is saved to another | `MapCatalog_guide` | |
| `ImportHasPlaces` | a start on a multiple feature is sent as the one place the server refuses | `MapCatalog_guide` | |
| `DeletedStaysOff` | the answer to one delete brings back the map of another | `MapCatalog_guide` | two calls, three maps |
