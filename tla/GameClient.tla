----------------------------- MODULE GameClient -----------------------------
(***************************************************************************)
(* One browser tab in one session: the socket of services/ws.ts, the       *)
(* screen of components/game/GameView.tsx with the RoundReview it turns    *)
(* into and the GuideSessionControls it holds, and the way in from the     *)
(* waiting room.  The server is the one of GameFlow, reduced to what this  *)
(* tab sees of it: the session's row, the routes of the tab's own team and *)
(* of the others, and the handlers that changed the row and broadcast it   *)
(* step by step, each at its own pace.  Requests are served, answered, and *)
(* answers applied, in any order.                                          *)
(***************************************************************************)
EXTENDS Naturals, Sequences, FiniteSets

CONSTANTS NumRounds,    \* rounds of the map
          Roles,        \* whose tab: "player", "guide" (who plays too), "solo", "demo"
          Teams,        \* of the session, the tab's own being "mine"
          ZoneRounds,   \* the rounds that have no-go zones
          MaxRequests,  \* bound: requests of a role's tab in flight
          MaxMessages,  \* bound: what the others' handlers may have under way
          MaxBreaks     \* bound: connections, requests, queries and messages lost, and
                        \* pages left or reloaded

Rounds == 1 .. NumRounds
Phases == {"waiting", "playing", "scoring", "finished"}

ASSUME BoundAssumption ==
  /\ NumRounds \in Nat \ {0}
  /\ MaxRequests \in [Roles -> Nat \ {0}]
  /\ MaxMessages \in Nat /\ MaxBreaks \in Nat
ASSUME RoleAssumption == Roles \subseteq {"player", "guide", "solo", "demo"}
ASSUME TeamAssumption == "mine" \in Teams
ASSUME ZoneAssumption == ZoneRounds \subseteq Rounds

VARIABLES
  role,    \* whose tab it is
  row,     \* server: phase and current_round of the session
  routes,  \* server: the stored routes, as <<team, round>>
  handlers, \* server: the handlers that changed the session and are not done
  adrift,  \* requests nobody waits for any more, which the server may still get
  told,    \* history: how far the broadcasts made so far say the game has come
  chan,    \* broadcasts sent to the tab and not handled yet
  net,     \* requests of the tab, sent, served or answered
  page,    \* "lobby", "game", "home", or "blank" when React gave up the page
  ws,      \* the tab's GameWebSocket; "waiting" for its reconnect timer
  store,   \* gameStore: loaded, round (0 is null), phase, scores, results
  ui,      \* useState of GameView: showScores, submitted, submitting
  map,     \* the MapLibre map on the page, and what was added to it
  line,    \* the line drawRef's snapshot holds, as the round it was drawn in
  breaks,
  stale,   \* history: since the view was opened a broadcast or an answer did not reach it,
           \* or a load's answer was, or will be, used after newer news
  due      \* history: the last round to end on the screen with a line drawn, unless its
           \* submission failed or the guide cleared its route

vars == <<role, row, routes, handlers, adrift, told, chan, net, page, ws, store, ui, map,
          line, breaks, stale, due>>
server == <<row, routes, handlers, adrift, told>>
screen == <<page, ws, store, ui, map, line>>
history == <<stale, due>>

-----------------------------------------------------------------------------
(* Records                                                                 *)

Row == [phase : Phases, round : 0 .. NumRounds]
Results == [round : 0 .. NumRounds, teams : SUBSET Teams]
NoResults == [round |-> 0, teams |-> {}]

Message == [type : {"game_state"}, phase : Phases]
           \cup [type : {"round_start"}, round : Rounds]
           \cup [type : {"scores"}, teams : SUBSET Teams]
           \cup [type : {"round_end"}]

\* What a request asks for.  "load" is getSession on entry, "round" the getMap or
\* getCurrentRound after it, "restore" the getScores after that; "results" is the
\* getScores of a scores message and "reveal" the one of a solo submission; "start" is
\* startGame in the waiting room, "advance" startGame or demoNextRound in the game,
\* "next" the getMap after it.
Ops == {"load", "round", "restore", "results", "submit", "reveal", "start", "advance",
        "next", "end", "clear"}
Posts == {"submit", "start", "advance", "end", "clear"}
\* live: asked by the view on the page, not by one that was left.  A request is "served"
\* when its handler has changed the session and still broadcasts, before the answer; it
\* is "lost" when nobody waits for the answer.
Request == [op : Ops, at : {"sent", "served", "back", "lost"}, ok : BOOLEAN, row : Row,
            round : 0 .. NumRounds, teams : SUBSET Teams, live : BOOLEAN]

\* A handler that has set the session to a row: the step it is at, the round whose scores
\* it will broadcast, and the request it will answer ("none" if nobody waits).
Steps == {"reload", "round_end", "round_start", "game_state", "scores", "answer"}
Handler == [row : Row, at : Steps, scored : 0 .. NumRounds,
            op : Posts \cup {"none"}, round : 0 .. NumRounds]

\* How far the game has come, as a number.
Turn(r) ==
  CASE r.phase = "waiting"  -> 0
    [] r.phase = "playing"  -> 2 * r.round - 1
    [] r.phase = "scoring"  -> 2 * r.round
    [] r.phase = "finished" -> 2 * NumRounds + 1

\* request and authRequest: a fetch on behalf of the view.  A map does not change
\* while it is asked for, so its answer is there at once.
Ask(op, seen, round) ==
  [op |-> op, at |-> IF op \in {"round", "next"} THEN "back" ELSE "sent",
   ok |-> TRUE, row |-> seen, round |-> round, teams |-> {}, live |-> TRUE]

CanAsk == Cardinality(net) < MaxRequests[role]
NoRow == [phase |-> "waiting", round |-> 0]

\* The initial values of gameStore, restored by reset().
EmptyStore ==
  [loaded |-> FALSE, round |-> 0, phase |-> "none", scores |-> {}, results |-> NoResults]
FreshUi == [showScores |-> FALSE, submitted |-> FALSE, submitting |-> FALSE]
\* GameMap as it mounts: a map that has not fired its load event.
NewMap(kind) == [kind |-> kind, loaded |-> FALSE, sources |-> {}]

Solo == role \in {"solo", "demo"}
IsSolo == store.loaded /\ Solo
IsGuide == store.loaded /\ role \in {"guide", "solo"}

Init ==
  /\ role \in Roles
  /\ row = IF Solo THEN [phase |-> "playing", round |-> 1]
                   ELSE [phase |-> "waiting", round |-> 0]
  /\ routes = {}
  /\ handlers = {} /\ adrift = {} /\ told = 0
  /\ chan = <<>>
  /\ page = IF Solo THEN "game" ELSE "lobby"
  /\ ws = "connecting"
  /\ net = IF Solo THEN {Ask("load", NoRow, 0)} ELSE {}
  /\ store = EmptyStore
  /\ ui = FreshUi
  /\ map = NewMap(IF Solo THEN "game" ELSE "none")
  /\ line = 0
  /\ breaks = 0
  /\ stale = FALSE /\ due = 0

-----------------------------------------------------------------------------
(* Rendering: what React shows for the state, and the effects that follow   *)

\* The finished screen has no map, the review has one of its own.
MapKind(s, u) ==
  CASE s.phase = "finished" -> "none"
    [] s.phase # "finished" /\ u.showScores /\ s.scores # {} -> "review"
    [] OTHER -> "game"

\* The sources RoundReview's effect adds: one per route, and one for the zones.
ReviewSources(s) ==
  {<<t, s.results.round>> : t \in s.results.teams}
    \cup (IF s.round \in ZoneRounds THEN {<<"zones", 0>>} ELSE {})

\* The map after a render.  drawn: routeResults or currentRound was set, on which
\* the review's effect depends.
Redraw(s, u, drawn) ==
  LET kind == MapKind(s, u)
  IN CASE kind # map.kind -> NewMap(kind)
       [] kind = map.kind /\ kind = "review" /\ drawn /\ map.loaded ->
            [map EXCEPT !.sources = @ \cup ReviewSources(s)]
       [] OTHER -> map

\* MapLibre throws on a source id that is taken.  The effect does not catch it, no
\* error boundary does, and React takes the page down.
Throws(s, u, drawn) ==
  /\ drawn /\ map.loaded
  /\ map.kind = "review" /\ MapKind(s, u) = "review"
  /\ ReviewSources(s) \cap map.sources # {}

Render(s, u, drawn) ==
  IF Throws(s, u, drawn)
  THEN /\ page' = "blank" /\ ws' = "none" /\ map' = NewMap("none")
       /\ UNCHANGED <<store, ui>>
  ELSE /\ store' = s
       /\ ui' = u
       /\ map' = Redraw(s, u, drawn)
       /\ UNCHANGED <<page, ws>>

-----------------------------------------------------------------------------
(* Coming and going                                                        *)

Left(requests) == {[q EXCEPT !.live = FALSE] : q \in requests}

\* GameView mounts: reset, the load of the session, a socket of its own.
Enter(requests) ==
  /\ page' = "game"
  /\ store' = EmptyStore
  /\ ui' = FreshUi
  /\ map' = NewMap("game")
  /\ line' = 0
  /\ ws' = "connecting"
  /\ chan' = <<>>
  /\ net' = requests \cup {Ask("load", NoRow, 0)}
  /\ stale' = FALSE /\ due' = 0

\* The waiting room's own socket: any game_state opens the game, everything else
\* is ignored here.
LobbyMessage ==
  /\ page = "lobby"
  /\ ws = "open"
  /\ chan # <<>>
  /\ IF Head(chan).type = "game_state"
     THEN CanAsk /\ Enter(Left(net))
     ELSE /\ chan' = Tail(chan)
          /\ UNCHANGED <<net, screen, history>>
  /\ UNCHANGED <<role, server, breaks>>

\* The guide presses Start Game: handleStart waits for the server and opens the game.
HandleStart ==
  /\ page = "lobby"
  /\ role = "guide"
  /\ CanAsk
  /\ net' = net \cup {Ask("start", NoRow, 0)}
  /\ UNCHANGED <<role, server, chan, screen, breaks, history>>

\* Exit, which only the map view offers.  What the waiting room does to the store is
\* reset on the way back, so it is reset here.
Exit ==
  /\ page = "game"
  /\ map.kind = "game"
  /\ breaks < MaxBreaks
  /\ breaks' = breaks + 1
  /\ page' = IF IsSolo THEN "home" ELSE "lobby"
  /\ ws' = IF IsSolo THEN "none" ELSE "connecting"
  /\ store' = EmptyStore /\ ui' = FreshUi /\ map' = NewMap("none") /\ line' = 0
  /\ chan' = <<>>
  /\ net' = Left(net)
  /\ stale' = FALSE /\ due' = 0
  /\ UNCHANGED <<role, server>>

\* What was posted and not served yet may still reach the server, though nobody waits.
Unserved == {q \in net : q.at = "sent" /\ q.op \in Posts}
Lose(requests) ==
  adrift' = adrift \cup {[q EXCEPT !.at = "lost", !.live = FALSE] : q \in requests}

\* The page is reloaded: no answer is waited for, and the game is entered afresh.
Reload ==
  /\ page \in {"game", "blank"}
  /\ breaks < MaxBreaks
  /\ breaks' = breaks + 1
  /\ Enter({})
  /\ \E posted \in SUBSET Unserved : Lose(posted)
  /\ UNCHANGED <<role, row, routes, handlers, told>>

-----------------------------------------------------------------------------
(* The socket                                                              *)

SocketOpens ==
  /\ ws = "connecting"
  /\ ws' = "open"
  /\ UNCHANGED <<role, server, chan, net, page, store, ui, map, line, breaks, history>>

\* The messages that move the game on; no other sets the phase or the round.
IsNews(type) == type \in {"round_start", "game_state"}
NewsComing == \E i \in DOMAIN chan : IsNews(chan[i].type)

\* onclose without close(): a reconnect is scheduled, and what was on its way is lost.
SocketCloses ==
  /\ ws \in {"connecting", "open"}
  /\ breaks < MaxBreaks
  /\ breaks' = breaks + 1
  /\ ws' = "waiting"
  /\ chan' = <<>>
  /\ stale' = (stale \/ NewsComing)
  /\ UNCHANGED <<role, server, net, page, store, ui, map, line, due>>

\* The reconnect timer fires; nothing is loaded again.
Reconnect ==
  /\ ws = "waiting"
  /\ ws' = "connecting"
  /\ UNCHANGED <<role, server, chan, net, page, store, ui, map, line, breaks, history>>

-----------------------------------------------------------------------------
(* The server: a handler after it changed the session                      *)

Scored(r, stored) == {t \in Teams : <<t, r>> \in stored}

\* What a handler says at a step that broadcasts.
Said(h) ==
  CASE h.at = "round_start" -> [type |-> "round_start", round |-> h.row.round]
    [] h.at = "game_state"  -> [type |-> "game_state", phase |-> h.row.phase]
    [] h.at = "scores"      -> [type |-> "scores", teams |-> Scored(h.scored, routes)]
    [] h.at = "round_end"   -> [type |-> "round_end"]

\* The step after that.
Following(h) ==
  CASE h.at = "reload" -> "round_end"
    [] h.at \in {"round_start", "round_end"} -> "game_state"
    [] h.at = "game_state" /\ h.row.phase = "scoring" -> "scores"
    [] OTHER -> "answer"

\* A handler that no request waits for is done when it has nothing more to broadcast.
MovesTo(h, step) ==
  handlers' = (handlers \ {h})
    \cup (IF step = "answer" /\ h.op = "none" THEN {} ELSE {[h EXCEPT !.at = step]})

Latest(m, n) == IF m < n THEN n ELSE m
\* The hub has passed on this news, or the handler will never pass it on.
NowTold(h) == told' = IF IsNews(h.at) \/ h.at = "reload" THEN Latest(told, Turn(h.row))
                                                       ELSE told

\* The bound on what nobody on the page waits for: it begins when little is under way, and
\* reaches an open socket when the tab has caught up.  What the page waits for is never
\* held back, so that neither waits for the other.
UnderWay == Cardinality(handlers) + Len(chan)
MayBegin(op) == op = "none" => Cardinality(net) + UnderWay < MaxMessages
MayArrive(h) == h.op = "none" => UnderWay <= MaxMessages

\* BroadcastToSession: the hub reaches the tab if its socket is open, unless the channel
\* to it is full.  News that comes after the news of a later change is late.
BroadcastToSession(h) ==
  /\ h.at \in {"round_end", "round_start", "game_state", "scores"}
  /\ MovesTo(h, Following(h))
  /\ NowTold(h)
  /\ \/ /\ ws = "open" /\ MayArrive(h)
        /\ chan' = Append(chan, Said(h))
        /\ stale' = (stale \/ (IsNews(h.at) /\ Turn(h.row) < told))
        /\ UNCHANGED breaks
     \/ /\ ws = "open" /\ breaks < MaxBreaks
        /\ breaks' = breaks + 1
        /\ stale' = (stale \/ IsNews(h.at))
        /\ UNCHANGED chan
     \/ /\ ws # "open"
        /\ stale' = (stale \/ IsNews(h.at))
        /\ UNCHANGED <<chan, breaks>>
  /\ UNCHANGED net

\* endRound reads the session again, for the round whose scores it reveals.
ReloadSession(h) ==
  /\ h.at = "reload"
  /\ handlers' = (handlers \ {h}) \cup {[h EXCEPT !.at = Following(h), !.scored = row.round]}
  /\ UNCHANGED <<told, chan, net, breaks, stale>>

\* A query fails, the one of endRound or the ones of broadcastScores: nothing is
\* broadcast, and the handler answers all the same.
GivesUp(h) ==
  /\ h.at \in {"reload", "scores"}
  /\ breaks < MaxBreaks
  /\ breaks' = breaks + 1
  /\ MovesTo(h, "answer")
  /\ NowTold(h)
  /\ stale' = (stale \/ h.at = "reload")
  /\ UNCHANGED <<chan, net>>

Replace(q, a) == net' = (net \ {q}) \cup {a}
Answered(q) == [q EXCEPT !.at = "back", !.ok = TRUE]
\* The answer changes nothing: it has been handled as soon as it was given.
Forget(q) == net' = net \ {q}

\* The handler is done, and answers the request if the page still waits for it.
WaitsFor(q, h) == q.at = "served" /\ q.op = h.op /\ q.round = h.round
WritesAnswer(h) ==
  /\ h.at = "answer"
  /\ handlers' = handlers \ {h}
  /\ \/ \E q \in net : /\ WaitsFor(q, h)
                       /\ IF q.op \in {"start", "submit"} THEN Replace(q, Answered(q))
                                                         ELSE Forget(q)
     \/ ~(\E q \in net : WaitsFor(q, h)) /\ UNCHANGED net
  /\ UNCHANGED <<told, chan, breaks, stale>>

HandlerStep(h) ==
  /\ BroadcastToSession(h) \/ ReloadSession(h) \/ GivesUp(h) \/ WritesAnswer(h)
  /\ UNCHANGED <<role, row, routes, adrift, screen, due>>

\* A handler goes on to broadcast a row, beginning with the step named.
GoesOn(step, r, op, round) ==
  /\ MayBegin(op)
  /\ handlers' = handlers \cup
       {[row |-> r, at |-> step, scored |-> r.round, op |-> op, round |-> round]}

-----------------------------------------------------------------------------
(* The server, as this tab sees it                                         *)

\* Mutant of NextRow: one round too many.
NextRowPastLast ==
  IF row.round <= NumRounds THEN [phase |-> "playing", round |-> row.round + 1]
                            ELSE [row EXCEPT !.phase = "finished"]

\* StartGame and DemoNextRound: the next round, or the end after the last one.  The row is
\* read and written in one step here; the start that another one outruns is GameFlow's.
NextRow ==
  IF row.round < NumRounds THEN [phase |-> "playing", round |-> row.round + 1]
                           ELSE [row EXCEPT !.phase = "finished"]
\* Mutant of MayAdvance: a round being played is passed over without its scores.
MayAdvanceEarly == row.phase # "finished" \/ role = "demo"

MayAdvance ==
  CASE role = "demo" -> TRUE
    [] role = "solo" -> row.phase # "finished"
    [] OTHER -> row.phase \in {"waiting", "scoring"}
Ended == [row EXCEPT !.phase = "scoring"]

\* StartGame announces a round and its phase, or the end.  It does so in a solo game too,
\* but the tab has no socket by the time it may ask for it.
Announces(op, round) ==
  IF Solo THEN UNCHANGED handlers
          ELSE GoesOn(IF NextRow.phase = "playing" THEN "round_start" ELSE "game_state",
                      NextRow, op, round)

\* Another tab of the guide advances the game.
GuideAdvances ==
  /\ role = "player"
  /\ MayAdvance
  /\ row' = NextRow
  /\ Announces("none", 0)
  /\ UNCHANGED <<role, routes, adrift, told, chan, net, screen, breaks, history>>

\* The ticker, the last team or the guide elsewhere ends the round.
RoundEnds ==
  /\ ~Solo
  /\ row.phase = "playing"
  /\ row' = Ended
  /\ GoesOn("reload", Ended, "none", 0)
  /\ UNCHANGED <<role, routes, adrift, told, chan, net, screen, breaks, history>>

\* A teammate or another team submits; while the round is scored this reveals it.
OthersSubmit(t) ==
  /\ ~Solo
  /\ row.phase \in {"playing", "scoring"}
  /\ <<t, row.round>> \notin routes
  /\ routes' = routes \cup {<<t, row.round>>}
  /\ IF row.phase = "scoring" THEN GoesOn("scores", row, "none", 0) ELSE UNCHANGED handlers
  /\ UNCHANGED <<role, row, adrift, told, chan, net, screen, breaks, history>>

\* The server is done with a request, which takes this place if the page waits for it.
Settle(q, answers) ==
  IF q.at = "lost" THEN adrift' = adrift \ {q} /\ UNCHANGED net
                   ELSE net' = (net \ {q}) \cup answers /\ UNCHANGED adrift
Served(q) == [q EXCEPT !.at = "served"]
Heard(q) == IF q.at = "lost" THEN "none" ELSE q.op

\* Mutant of Refused: nobody does anything about a failure.
RefusedQuietly(q) == {}

\* Only handleSubmit does something about a failure: it lets the player try again.
Refused(q) == IF q.op \in {"submit", "reveal"} THEN {[q EXCEPT !.at = "back", !.ok = FALSE]}
                                                ELSE {}

\* The server reads the session or the routes for a GET.
ServeRead(q) ==
  /\ q.op \in {"load", "restore", "results", "reveal"}
  /\ Settle(q, {[Answered(q) EXCEPT
                   !.row = IF q.op = "load" THEN row ELSE @,
                   !.teams = IF q.op = "load" THEN {} ELSE Scored(q.round, routes)]})
  /\ UNCHANGED <<row, routes, handlers, stale>>

\* SubmitRoute: accepted while the session plays or scores, whatever its round; while it
\* scores the scores are broadcast before the answer.
ServeSubmit(q) ==
  /\ q.op = "submit"
  /\ IF row.phase \in {"playing", "scoring"} /\ <<"mine", q.round>> \notin routes
     THEN /\ routes' = routes \cup {<<"mine", q.round>>}
          /\ \/ /\ row.phase = "scoring"
                /\ Settle(q, {Served(q)})
                /\ GoesOn("scores", row, Heard(q), q.round)
             \/ /\ row.phase = "playing"
                /\ Settle(q, {Answered(q)})
                /\ UNCHANGED handlers
     ELSE Settle(q, Refused(q)) /\ UNCHANGED <<routes, handlers>>
  /\ UNCHANGED <<row, stale>>

\* A solo game that moves on for a page that is gone leaves the new one behind.
ServeAdvance(q) ==
  /\ q.op \in {"start", "advance"}
  /\ IF MayAdvance
     THEN /\ row' = NextRow
          /\ Settle(q, {[(IF Solo THEN Answered(q) ELSE Served(q)) EXCEPT !.row = NextRow]})
          /\ Announces(Heard(q), q.round)
     ELSE Settle(q, Refused(q)) /\ UNCHANGED <<row, handlers>>
  /\ stale' = (stale \/ (Solo /\ q.at = "lost"))
  /\ UNCHANGED routes

\* EndRound answers the same whether it ends the round or finds it ended.
ServeEnd(q) ==
  /\ q.op = "end"
  /\ IF row.phase = "playing"
     THEN row' = Ended /\ Settle(q, {Served(q)}) /\ GoesOn("reload", Ended, Heard(q), q.round)
     ELSE Settle(q, {}) /\ UNCHANGED <<row, handlers>>
  /\ UNCHANGED <<routes, stale>>

ServeClear(q) ==
  /\ q.op = "clear"
  /\ routes' = routes \ {<<t, q.round>> : t \in q.teams}
  /\ Settle(q, {})
  /\ due' = IF "mine" \in q.teams /\ q.round = due THEN 0 ELSE due
  /\ UNCHANGED <<row, handlers, stale>>

Serve(q) ==
  /\ q.at \in {"sent", "lost"}
  /\ \/ ServeClear(q)
     \/ /\ ServeRead(q) \/ ServeSubmit(q) \/ ServeAdvance(q) \/ ServeEnd(q)
        /\ UNCHANGED due
  /\ UNCHANGED <<role, told, chan, screen, breaks>>

\* A request that fails on its way, which the server may get all the same, or whose
\* answer is lost.
Fail(q) ==
  /\ q.ok
  /\ breaks < MaxBreaks
  /\ breaks' = breaks + 1
  /\ net' = (net \ {q}) \cup Refused(q)
  /\ Lose({}) \/ (q \in Unserved /\ Lose({q}))
  /\ stale' = (stale \/ (q.live /\ q.op \in {"load", "round", "next"})
                     \/ (Solo /\ q.op = "advance"))
  /\ due' = IF q.op = "submit" /\ q.at = "sent" /\ q.round = due THEN 0 ELSE due
  /\ UNCHANGED <<role, row, routes, handlers, told, chan, screen>>

\* The server stops and starts again: what it was doing is left undone.
ServerStops ==
  /\ handlers # {}
  /\ breaks < MaxBreaks
  /\ breaks' = breaks + 1
  /\ handlers' = {}
  /\ told' = Turn(row)
  /\ LET served == {q \in net : q.at = "served"}
     IN net' = (net \ served) \cup UNION {Refused(q) : q \in served}
  /\ ws' = IF ws = "open" THEN "waiting" ELSE ws
  /\ chan' = <<>>
  /\ stale' = (stale \/ NewsComing \/ \E h \in handlers : h.at \notin {"scores", "answer"})
  /\ UNCHANGED <<role, row, routes, adrift, page, store, ui, map, line, due>>

-----------------------------------------------------------------------------
(* Broadcasts on the game screen                                           *)

\* A load whose answer is on its way will overwrite what a broadcast says now.
Loading == \E q \in net : q.op \in {"load", "round"} /\ q.at = "back"

GameState(m) ==
  /\ m.type = "game_state"
  /\ Render([store EXCEPT !.phase = m.phase],
            [ui EXCEPT !.showScores = @ \/ m.phase = "scoring"], FALSE)
  /\ stale' = (stale \/ Loading)
  /\ UNCHANGED <<net, line, due>>

\* Everything of the last round goes, but the drawing.
RoundStart(m) ==
  /\ m.type = "round_start"
  /\ Render([store EXCEPT !.round = m.round, !.phase = "playing",
                          !.scores = {}, !.results = NoResults],
            [ui EXCEPT !.showScores = FALSE, !.submitted = FALSE], TRUE)
  /\ stale' = (stale \/ Loading)
  /\ UNCHANGED <<net, line, due>>

\* The scores are shown, and the routes of the round on the screen asked for.
ScoresCome(m) ==
  /\ m.type = "scores"
  /\ Render([store EXCEPT !.scores = m.teams], ui, FALSE)
  /\ IF store.round # 0 THEN CanAsk /\ net' = net \cup {Ask("results", NoRow, store.round)}
                        ELSE UNCHANGED net
  /\ UNCHANGED <<line, stale, due>>

\* handleSubmit, past its guards: the last line of the drawing goes to the round on
\* the screen.
CanPost == store.round # 0 /\ line # 0
Post == net' = net \cup {Ask("submit", NoRow, store.round)}

\* Mutant of AutoSubmit: the closure sees whether the round was submitted.
AutoSubmitFresh ==
  IF CanPost /\ ~ui.submitted THEN /\ CanAsk /\ Post
                                   /\ ui' = [ui EXCEPT !.submitting = TRUE]
                              ELSE UNCHANGED <<net, ui>>

\* handleAutoSubmit.  It and the handleSubmit it calls belong to the render that opened
\* the socket, in which submitted was false: it is not looked at.
AutoSubmit ==
  IF CanPost THEN /\ CanAsk /\ Post
                  /\ ui' = [ui EXCEPT !.submitting = TRUE]
             ELSE UNCHANGED <<net, ui>>

RoundEnd(m) ==
  /\ m.type = "round_end"
  /\ AutoSubmit
  /\ due' = IF CanPost THEN store.round ELSE due
  /\ UNCHANGED <<page, ws, store, map, line, stale>>

GameMessage ==
  /\ page = "game"
  /\ ws = "open"
  /\ chan # <<>>
  /\ chan' = Tail(chan)
  /\ \/ GameState(Head(chan))
     \/ RoundStart(Head(chan))
     \/ ScoresCome(Head(chan))
     \/ RoundEnd(Head(chan))
  /\ UNCHANGED <<role, server, breaks>>

-----------------------------------------------------------------------------
(* Answers                                                                 *)

\* What a view that was left sets of its own is lost; what it sets in the store is not.
Local(q, u) == IF q.live THEN u ELSE ui
Then(q, op) == [Ask(op, q.row, q.row.round) EXCEPT !.live = q.live]
Nothing(q) == Forget(q) /\ UNCHANGED <<chan, screen, history>>

\* Mutant of ApplyLoad: the round is not asked for.
ApplyLoadOnly(q) ==
  /\ q.op = "load"
  /\ store' = [store EXCEPT !.loaded = TRUE]
  /\ Forget(q)
  /\ IF Solo THEN ws' = "none" /\ chan' = <<>> ELSE UNCHANGED <<ws, chan>>
  /\ UNCHANGED <<page, ui, map, line, history>>

\* getSession: a solo session needs no socket, and the round is asked for.  The server
\* refuses the map to anyone but the guide who owns it, so a player learns nothing more.
ApplyLoad(q) ==
  /\ q.op = "load"
  /\ store' = [store EXCEPT !.loaded = TRUE]
  /\ IF q.row.phase \in {"playing", "scoring"} /\ q.row.round > 0 /\ role # "player"
     THEN Replace(q, Then(q, "round"))
     ELSE Forget(q)
  /\ IF Solo THEN ws' = "none" /\ chan' = <<>> ELSE UNCHANGED <<ws, chan>>
  /\ UNCHANGED <<page, ui, map, line, history>>

\* Mutant of ApplyRound: a reload while the round is scored is not told apart.
ApplyRoundPlaying(q) ==
  /\ q.op = "round"
  /\ Render([store EXCEPT !.round = q.row.round, !.phase = "playing"], ui, TRUE)
  /\ Forget(q)
  /\ stale' = (stale \/ ~q.live)
  /\ UNCHANGED <<chan, line, due>>

\* The round and the phase the session was loaded in.
ApplyRound(q) ==
  /\ q.op = "round"
  /\ Render([store EXCEPT !.round = q.row.round, !.phase = q.row.phase], ui, TRUE)
  /\ IF q.row.phase = "scoring" THEN Replace(q, Then(q, "restore")) ELSE Forget(q)
  /\ stale' = (stale \/ ~q.live)
  /\ UNCHANGED <<chan, line, due>>

ApplyResults(q) ==
  /\ q.op = "results"
  /\ Render([store EXCEPT !.results = [round |-> q.round, teams |-> q.teams]], ui, TRUE)
  /\ Forget(q)
  /\ UNCHANGED <<chan, line, history>>

\* Results, scores and the review at once, after a reload and in solo play.
ApplyReveal(q) ==
  /\ q.op \in {"restore", "reveal"} /\ q.ok
  /\ Render([store EXCEPT !.results = [round |-> q.round, teams |-> q.teams],
                          !.scores = q.teams],
            Local(q, [ui EXCEPT !.showScores = TRUE,
                                !.submitting = @ /\ q.op # "reveal"]), TRUE)
  /\ Forget(q)
  /\ UNCHANGED <<chan, line, history>>

\* submitted is set for whatever round is on the screen by now.
ApplySubmit(q) ==
  /\ q.op = "submit" /\ q.ok
  /\ ui' = Local(q, [ui EXCEPT !.submitted = TRUE, !.submitting = Solo])
  /\ IF Solo THEN Replace(q, [Ask("reveal", NoRow, q.round) EXCEPT !.live = q.live])
             ELSE Forget(q)
  /\ UNCHANGED <<chan, page, ws, store, map, line, history>>

\* handleStart navigates to the game, where the tab may be already.
ApplyStart(q) ==
  /\ q.op = "start"
  /\ page = "lobby"
  /\ Enter(Left(net \ {q}))

\* Mutant of NextRound: the review of the last round is not put away.
NextRoundKeepsReview(q) ==
  /\ Render([store EXCEPT !.round = q.row.round, !.phase = "playing"], ui, TRUE)
  /\ line' = IF q.live THEN 0 ELSE line
  /\ Forget(q)

\* handleScoreContinue, with the round the server moved a solo session to.
NextRound(q) ==
  /\ Render([store EXCEPT !.round = q.row.round, !.phase = "playing",
                          !.results = NoResults],
            Local(q, [ui EXCEPT !.showScores = FALSE, !.submitted = FALSE]), TRUE)
  /\ line' = IF q.live THEN 0 ELSE line
  /\ Forget(q)

GameIsOver(q) ==
  /\ Render([store EXCEPT !.phase = "finished"],
            Local(q, [ui EXCEPT !.showScores = FALSE]), FALSE)
  /\ Forget(q)
  /\ UNCHANGED line

\* A guide's startGame leaves the rest to the broadcasts.
ApplyAdvance(q) ==
  /\ q.op = "advance"
  /\ \/ q.row.phase = "finished" /\ GameIsOver(q)
     \/ q.row.phase # "finished" /\ role = "demo" /\ NextRound(q)
     \/ /\ q.row.phase # "finished" /\ role = "solo"
        /\ Replace(q, Then(q, "next"))
        /\ UNCHANGED screen
  /\ UNCHANGED <<chan, history>>

ApplyNext(q) ==
  /\ q.op = "next"
  /\ NextRound(q)
  /\ UNCHANGED <<chan, history>>

\* handleStart was answered after a broadcast had opened the game.
Unheeded(q) == q.op = "start"

ApplyFailure(q) ==
  /\ ~q.ok /\ q.op \in {"submit", "reveal"}
  /\ ui' = Local(q, [ui EXCEPT !.submitting = FALSE])
  /\ Forget(q)
  /\ UNCHANGED <<chan, page, ws, store, map, line, history>>

\* An answer arrives on the game screen.
Answer(q) ==
  /\ q.at = "back"
  /\ page = "game"
  /\ \/ ApplyLoad(q) \/ ApplyRound(q) \/ ApplyResults(q) \/ ApplyReveal(q)
     \/ ApplySubmit(q) \/ ApplyAdvance(q) \/ ApplyNext(q) \/ ApplyFailure(q)
     \/ Unheeded(q) /\ Nothing(q)
  /\ UNCHANGED <<role, server, breaks>>

\* Off the game screen only handleStart does anything with its answer.
AnswerElsewhere(q) ==
  /\ q.at = "back"
  /\ page # "game"
  /\ \/ ApplyStart(q)
     \/ ~(q.op = "start" /\ page = "lobby") /\ Nothing(q)
  /\ UNCHANGED <<role, server, breaks>>

-----------------------------------------------------------------------------
(* The user                                                                *)

Chooses == UNCHANGED <<role, server, chan, breaks, history>>

\* initDraw or the review's onMapReady: the map has loaded.
MapLoads ==
  /\ page = "game"
  /\ map.kind # "none" /\ ~map.loaded
  /\ IF map.kind = "game"
     THEN map' = [map EXCEPT !.loaded = TRUE] /\ line' = 0
     ELSE /\ map' = [map EXCEPT !.loaded = TRUE, !.sources = ReviewSources(store)]
          /\ UNCHANGED line
  /\ Chooses
  /\ UNCHANGED <<net, page, ws, store, ui>>

\* A finished line puts Terra Draw into select mode, so there is one line at most.
Draw ==
  /\ page = "game"
  /\ map.kind = "game" /\ map.loaded
  /\ store.round # 0 /\ line = 0
  /\ line' = store.round
  /\ Chooses
  /\ UNCHANGED <<net, page, ws, store, ui, map>>

\* Submit Route, offered while the round is played and not submitted.
MaySubmit ==
  /\ page = "game" /\ map.kind = "game"
  /\ store.phase = "playing"
  /\ ~ui.submitted /\ ~ui.submitting

HandleSubmit ==
  /\ MaySubmit
  /\ CanPost /\ CanAsk
  /\ Post
  /\ ui' = [ui EXCEPT !.submitting = TRUE]
  /\ Chooses
  /\ UNCHANGED <<page, ws, store, map, line>>

\* A solo game on its way to the next round.
Advancing == \E q \in net : q.op \in {"advance", "next"} /\ q.live

\* Next Round, offered by the review and never disabled.
MayContinue == page = "game" /\ map.kind = "review" /\ (IsSolo \/ IsGuide)

HandleScoreContinue ==
  /\ MayContinue
  /\ CanAsk
  /\ stale' = (stale \/ (IsSolo /\ Advancing))
  /\ net' = net \cup {Ask("advance", NoRow, 0)}
  /\ UNCHANGED <<role, server, chan, screen, breaks, due>>

\* The guide's controls, on the map view of a multiplayer game.
Controls == page = "game" /\ map.kind = "game" /\ IsGuide /\ ~IsSolo

Busy == \E q \in net : q.op \in {"end", "clear"} /\ q.live
MayEnd == Controls /\ ~Busy /\ store.phase = "playing"

HandleEndRound ==
  /\ MayEnd /\ CanAsk
  /\ net' = net \cup {Ask("end", NoRow, 0)}
  /\ Chooses
  /\ UNCHANGED screen

\* Clear, offered for each route in routeResults, of the round on the screen.
MayClear(t) == Controls /\ ~Busy /\ t \in store.results.teams /\ store.round # 0

HandleClearRoute(t) ==
  /\ MayClear(t) /\ CanAsk
  /\ net' = net \cup {[Ask("clear", NoRow, store.round) EXCEPT !.teams = {t}]}
  /\ Chooses
  /\ UNCHANGED screen

\* Back to Home, on the finished screen.
GoHome ==
  /\ page = "game" /\ store.phase = "finished"
  /\ page' = "home"
  /\ ws' = "none"
  /\ chan' = <<>>
  /\ net' = Left(net)
  /\ UNCHANGED <<role, server, store, ui, map, line, breaks, history>>

-----------------------------------------------------------------------------

Next ==
  \/ LobbyMessage \/ HandleStart \/ Exit \/ Reload
  \/ SocketOpens \/ SocketCloses \/ Reconnect
  \/ GuideAdvances \/ RoundEnds \/ ServerStops
  \/ \E h \in handlers : HandlerStep(h)
  \/ \E t \in Teams : OthersSubmit(t) \/ HandleClearRoute(t)
  \/ \E q \in net : Serve(q) \/ Fail(q) \/ Answer(q) \/ AnswerElsewhere(q)
  \/ \E q \in adrift : Serve(q)
  \/ GameMessage
  \/ MapLoads \/ Draw \/ HandleSubmit \/ HandleScoreContinue \/ HandleEndRound \/ GoHome

Spec == Init /\ [][Next]_vars

\* The browser's event loop delivers what has arrived, a socket opens or its timer
\* fires, a handler runs on, and the server answers what is asked.  Nobody owes a click,
\* and nobody a request that was given up.  Messages and handlers are strongly fair only
\* because the bounds may hold them back again and again, which nothing in the code does.
Fairness ==
  /\ SF_vars(GameMessage \/ LobbyMessage)
  /\ SF_vars(\E h \in handlers : HandlerStep(h))
  /\ WF_vars(SocketOpens \/ Reconnect)
  /\ WF_vars(\E q \in net : Serve(q) \/ Answer(q) \/ AnswerElsewhere(q))

FairSpec == Spec /\ Fairness

-----------------------------------------------------------------------------
(* Properties                                                              *)

\* The state is well formed.
TypeOK ==
  /\ role \in Roles
  /\ row \in Row
  /\ routes \subseteq Teams \X Rounds
  /\ handlers \subseteq Handler
  /\ adrift \subseteq Request /\ \A q \in adrift : q.at = "lost"
  /\ told \in 0 .. 2 * NumRounds + 1
  /\ chan \in Seq(Message)
  /\ net \subseteq Request
  /\ page \in {"lobby", "game", "home", "blank"}
  /\ ws \in {"none", "connecting", "open", "waiting"}
  /\ store \in [loaded : BOOLEAN, round : 0 .. NumRounds, phase : Phases \cup {"none"},
                scores : SUBSET Teams, results : Results]
  /\ ui \in [showScores : BOOLEAN, submitted : BOOLEAN, submitting : BOOLEAN]
  /\ map.kind \in {"none", "game", "review"} /\ map.loaded \in BOOLEAN
  /\ line \in 0 .. NumRounds
  /\ breaks \in 0 .. MaxBreaks
  /\ stale \in BOOLEAN /\ due \in 0 .. NumRounds

\* Nothing is on its way to the game screen.
Settled ==
  /\ page = "game" /\ chan = <<>>
  /\ \A h \in handlers : h.at \in {"scores", "answer"}
  /\ IF Solo THEN ~Advancing ELSE ws = "open"
  /\ ~\E q \in net : q.op \in {"load", "round"}

\* A tab with nothing on its way shows the session's phase and, if it knows a round, the
\* one being played, unless the view came to miss the news in one of these ways, which
\* nothing makes up for: a broadcast made while the socket was not open, dropped because
\* the channel was full (hub.go:91), lost with the connection, or never made because
\* endRound could not read the session again (game.go:357) or the server stopped; the
\* broadcasts of one change overtaken by those of a later one; a load that failed, or whose
\* answer is used after a later broadcast or in a view that was left and opened again;
\* and, in solo play, a Next Round pressed twice, or answered to nobody.
ShowsSession ==
  (Settled /\ ~stale /\ store.phase # "none") =>
     /\ store.phase = row.phase
     /\ store.round \in {0, row.round}

\* What a player has drawn when the round ends is stored as the team's route, even
\* when the answer to an earlier submission arrived a round late and hid the Submit
\* button; unless the request failed, the route was cleared or the game was over first.
DrawingCounts ==
  (/\ due # 0 /\ row.phase # "finished"
   /\ ~\E q \in net : q.op = "submit") =>
     <<"mine", due>> \in routes

\* The tab's session goes through the rounds as RoundProtocol says, which the server of
\* GameFlow implements: what is presumed of the server here is what is shown of it there.
Protocol(kind) == INSTANCE RoundProtocol WITH
  Sessions <- {"here"}, Kind <- [s \in {"here"} |-> kind],
  phase <- [s \in {"here"} |-> row.phase], round <- [s \in {"here"} |-> row.round],
  reached <- [s \in {"here"} |-> row.round], late <- {}
KindOfTab == IF Solo THEN role ELSE "multi"
RowFollowsProtocol ==
  [][\E kind \in {"multi", "solo", "demo"} : kind = KindOfTab /\ Protocol(kind)!Next]_row

\* Submit is held back only while a submission of the view, or the reveal a solo game asks
\* for after it, is under way: no refusal, late answer, lost connection or new round leaves
\* it disabled for ever.
SubmittingIsUnderWay ==
  (page = "game" /\ ui.submitting) => \E q \in net : q.live /\ q.op \in {"submit", "reveal"}

\* Solo and demo play never lose the page: the review they mount is given its routes
\* before its map is there, and never again.
SoloKeepsPage == Solo => page # "blank"

\* A round being played reaches the screen, unless it ends or the view is left first, or
\* the view went stale.
RoundReaches(r) ==
  (role = r /\ page = "game" /\ row.phase = "playing") ~>
     \/ store.phase = "playing" /\ store.round = row.round
     \/ row.phase # "playing" \/ page # "game" \/ stale

\* The guide's tab is shown every round, by its load or by the broadcast.
RoundReachesGuide == RoundReaches("guide")

-----------------------------------------------------------------------------
(* What the code's own words promise and the code does not keep            *)

\* README.md:63, "Each round: teams draw a route in a time limit".  A player is not shown
\* the first round: the waiting room ignores its round_start and leaves on the
\* game_state that follows, and the load that the game screen begins with then asks for
\* the map, which the server keeps for the guide.
PlayerSeesRound == RoundReaches("player")

\* GameView.tsx:185, "this just fills in the (progressively revealed) results".  The
\* second revelation of a round adds the first one's sources again, which MapLibre
\* refuses by throwing: the page goes blank.
PageSurvives == page # "blank"

\* game.go:136, "clients can auto-submit their in-progress route when the round ends".
\* The drawing outlives the round, and a line of the last one is posted for this one.
PostsOwnRound == [][\A q \in net' \ net : q.op = "submit" => q.round = line]_vars

\* GameView.tsx:390, "if (!submitted)": an answer that comes after the next round began
\* marks that round submitted, though no route of it is stored.
SubmittedIsStored ==
  (role = "player" /\ page = "game" /\ ui.submitted /\ Settled /\ ~stale
     /\ store.phase = "playing" /\ store.round # 0) => <<"mine", store.round>> \in routes

\* GuideSessionControls.tsx:122, "Route submissions": the ones listed may be of the round
\* before, the one cleared is of this one.
ClearsListed ==
  [][\A q \in net' \ net : (q.op = "clear" /\ q.at = "sent") =>
       q.round = store.results.round]_vars

\* README.md:63 again: in solo play a second press of Next Round, which nothing disables,
\* passes over a round before it is shown.
SoloPlaysEveryRound ==
  [][(Solo /\ row.phase # "finished" /\ row'.phase = "finished") =>
       store.round = NumRounds]_vars

=============================================================================
