--------------------------- MODULE GameClientProofs --------------------------
(***************************************************************************)
(* The tab for any map, any teams, any number of requests, broadcasts and  *)
(* breaks: its state stays well formed, and what is drawn when a round     *)
(* ends is stored as a route.                                              *)
(***************************************************************************)
EXTENDS GameClient, Integers, TLAPS

\* The map on the page is a record; the sources on it are routes and zones.
Maps == [kind : {"none", "game", "review"}, loaded : BOOLEAN,
         sources : SUBSET ((Teams \X (0 .. NumRounds)) \cup {<<"zones", 0>>})]
Stores == [loaded : BOOLEAN, round : 0 .. NumRounds, phase : Phases \cup {"none"},
           scores : SUBSET Teams, results : Results]
Uis == [showScores : BOOLEAN, submitted : BOOLEAN, submitting : BOOLEAN]

\* What the browser shows is well formed.
ScreenOK ==
  /\ page \in {"lobby", "game", "home", "blank"}
  /\ ws \in {"none", "connecting", "open", "waiting"}
  /\ store \in Stores /\ ui \in Uis /\ map \in Maps

\* So is everything else.
RestOK ==
  /\ role \in Roles /\ row \in Row /\ routes \subseteq Teams \X Rounds
  /\ handlers \subseteq Handler /\ told \in 0 .. 2 * NumRounds + 1
  /\ adrift \subseteq Request /\ \A q \in adrift : q.at = "lost"
  /\ chan \in Seq(Message) /\ net \subseteq Request
  /\ line \in 0 .. NumRounds /\ breaks \in 0 .. MaxBreaks
  /\ stale \in BOOLEAN /\ due \in 0 .. NumRounds

\* A round is counted from when the session starts, and the last one is over only
\* when all of them were played.
RowOK ==
  /\ row.phase \in {"playing", "scoring"} => row.round # 0
  /\ row.phase = "waiting" => row.round = 0
  /\ row.phase = "finished" => row.round = NumRounds

\* A handler broadcasts a row the session had once it had started: a round_start for a
\* round that is played, a round_end for one that is scored.
HandlersOK ==
  \A h \in handlers :
    /\ h.row.phase # "waiting"
    /\ h.row.phase \in {"playing", "scoring"} => h.row.round # 0
    /\ h.row.phase = "finished" => h.row.round = NumRounds
    /\ h.at = "round_start" => h.row.phase = "playing"
    /\ h.at \in {"reload", "round_end"} => h.row.phase = "scoring"

\* A route is submitted for a round.
SubmitsOK == \A q \in net \cup adrift : q.op = "submit" => q.round # 0

\* Before the session starts nothing has told the tab of a round.
WaitingOK ==
  row.phase = "waiting" =>
    /\ handlers = {} /\ chan = <<>> /\ store.round = 0 /\ due = 0
    /\ \A q \in net : q.row.round = 0

\* A drawing that is due is stored, or its submission has not reached the server.
DueOK ==
  (due # 0 /\ row.phase # "finished") =>
    \/ <<"mine", due>> \in routes
    \/ \E q \in net : q.op = "submit" /\ q.at = "sent" /\ q.round = due

TabInv == ScreenOK /\ RestOK /\ RowOK /\ HandlersOK /\ SubmitsOK /\ WaitingOK /\ DueOK

-----------------------------------------------------------------------------
(* What the operators return                                               *)

\* A request is well formed.
LEMMA AskShape ==
  ASSUME NEW op \in Ops, NEW seen \in Row, NEW round \in 0 .. NumRounds
  PROVE  /\ Ask(op, seen, round) \in Request
         /\ Ask(op, seen, round).op = op
         /\ Ask(op, seen, round).round = round
         /\ Ask(op, seen, round).row = seen
         /\ op \notin {"round", "next"} => Ask(op, seen, round).at = "sent"
BY DEF Ask, Request

\* The row no load has read yet is a row.
LEMMA NoRowShape == NoRow \in Row /\ NoRow.round = 0 /\ 0 \in 0 .. NumRounds
BY BoundAssumption DEF NoRow, Row, Phases

\* Leaving the view changes nothing of a request but whose it is.
LEMMA LeftShape ==
  ASSUME NEW requests, requests \subseteq Request
  PROVE  /\ Left(requests) \subseteq Request
         /\ \A q \in Left(requests) : \E p \in requests :
              q.op = p.op /\ q.at = p.at /\ q.round = p.round /\ q.row = p.row
         /\ \A p \in requests : \E q \in Left(requests) :
              q.op = p.op /\ q.at = p.at /\ q.round = p.round /\ q.row = p.row
<1>1. ASSUME NEW p \in requests
      PROVE  /\ [p EXCEPT !.live = FALSE] \in Request
             /\ [p EXCEPT !.live = FALSE].op = p.op /\ [p EXCEPT !.live = FALSE].at = p.at
             /\ [p EXCEPT !.live = FALSE].round = p.round
             /\ [p EXCEPT !.live = FALSE].row = p.row
  BY DEF Request
<1> QED
  BY <1>1 DEF Left

\* A message on its way can be read by its type.
LEMMA MessageShape ==
  ASSUME NEW m \in Message
  PROVE  /\ m.type = "game_state" => m.phase \in Phases
         /\ m.type = "round_start" => m.round \in Rounds
         /\ m.type = "scores" => m.teams \in SUBSET Teams
BY DEF Message

\* A new map is a map.
LEMMA NewMapShape ==
  ASSUME NEW kind \in {"none", "game", "review"}
  PROVE  NewMap(kind) \in Maps
BY DEF NewMap, Maps

\* The review shows the routes of a round, and its zones.
LEMMA SourcesShape ==
  ASSUME NEW s \in Stores
  PROVE  ReviewSources(s) \in SUBSET ((Teams \X (0 .. NumRounds)) \cup {<<"zones", 0>>})
BY DEF ReviewSources, Stores, Results

\* Rendering keeps the screen well formed, and takes what it is given or nothing.
LEMMA RenderShape ==
  ASSUME ScreenOK, NEW s \in Stores, NEW u \in Uis, NEW drawn \in BOOLEAN,
         Render(s, u, drawn)
  PROVE  ScreenOK' /\ store' \in {store, s}
<1>1. MapKind(s, u) \in {"none", "game", "review"}
  BY DEF MapKind
<1>2. Redraw(s, u, drawn) \in Maps
  <2>1. [map EXCEPT !.sources = @ \cup ReviewSources(s)] \in Maps
    BY SourcesShape DEF ScreenOK, Maps
  <2>2. NewMap(MapKind(s, u)) \in Maps
    BY <1>1, NewMapShape
  <2>3. map \in Maps
    BY DEF ScreenOK
  <2> QED
    BY <2>1, <2>2, <2>3 DEF Redraw
<1>3. CASE Throws(s, u, drawn)
  BY <1>3, NewMapShape DEF Render, ScreenOK
<1>4. CASE ~Throws(s, u, drawn)
  BY <1>2, <1>4 DEF Render, ScreenOK
<1> QED
  BY <1>3, <1>4

\* The view begins with a store, a screen and a request of its own.
LEMMA EmptyShape == EmptyStore \in Stores /\ EmptyStore.round = 0 /\ FreshUi \in Uis
BY BoundAssumption DEF EmptyStore, NoResults, Stores, Results, FreshUi, Uis, Phases

\* The next row is a row of a session that has started.
LEMMA NextRowShape ==
  ASSUME RestOK, RowOK
  PROVE  /\ NextRow \in Row
         /\ NextRow.phase \in {"playing", "finished"}
         /\ NextRow.phase = "playing" => NextRow.round # 0
         /\ NextRow.phase = "finished" => NextRow.round = NumRounds
         /\ row.phase = "finished" => NextRow.phase = "finished"
BY BoundAssumption DEF RestOK, RowOK, NextRow, Row, Phases

\* So is the row of a round that ended.
LEMMA EndedShape ==
  ASSUME RestOK
  PROVE  Ended \in Row /\ Ended.phase = "scoring" /\ Ended.round = row.round
BY DEF RestOK, Ended, Row, Phases

\* How far a game has come is a number that its rounds bound.
LEMMA TurnShape ==
  ASSUME NEW r \in Row
  PROVE  /\ Turn(r) \in Int /\ Turn(r) <= 2 * NumRounds + 1
         /\ (r.phase \in {"playing", "scoring"} => r.round # 0) => Turn(r) \in 0 .. 2 * NumRounds + 1
BY BoundAssumption DEF Turn, Row, Phases

\* What a handler says is a message.
LEMMA SaidShape ==
  ASSUME NEW h \in Handler, h.at \in {"round_end", "round_start", "game_state", "scores"},
         h.at = "round_start" => h.row.round # 0
  PROVE  Said(h) \in Message /\ Said(h).type = h.at
<1>1. h.row \in Row /\ h.row.round \in 0 .. NumRounds /\ h.row.phase \in Phases
  BY DEF Handler, Row
<1>2. h.at = "round_start" => h.row.round \in Rounds
  BY <1>1, BoundAssumption DEF Rounds
<1>3. Scored(h.scored, routes) \in SUBSET Teams
  BY DEF Scored
<1> QED
  BY <1>1, <1>2, <1>3 DEF Said, Message

\* The server is done with a request: what it leaves is what it answers.
LEMMA SettleShape ==
  ASSUME NEW q, NEW answers, Settle(q, answers)
  PROVE  /\ net' \subseteq net \cup answers /\ adrift' \subseteq adrift
         /\ \A p \in net : p # q => p \in net'
BY DEF Settle

\* A request that failed is gone, or is a submission sent back.
LEMMA RefusedShape ==
  ASSUME NEW q \in Request
  PROVE  /\ Refused(q) \subseteq Request
         /\ \A a \in Refused(q) : /\ a.op = q.op /\ a.at = "back" /\ ~a.ok
                                  /\ a.live = q.live /\ a.row = q.row /\ a.round = q.round
         /\ q.op \in {"submit", "reveal"} <=> Refused(q) # {}
BY DEF Refused, Request

\* A request the server has served, or answered, is the same request.
LEMMA AnsweredShape ==
  ASSUME NEW q \in Request
  PROVE  /\ Answered(q) \in Request
         /\ Answered(q).op = q.op /\ Answered(q).at = "back" /\ Answered(q).live = q.live
         /\ Answered(q).row = q.row /\ Answered(q).round = q.round
         /\ Served(q) \in Request
         /\ Served(q).op = q.op /\ Served(q).at = "served" /\ Served(q).live = q.live
         /\ Served(q).row = q.row /\ Served(q).round = q.round
BY DEF Answered, Served, Request

\* Whoever waits for a handler posted something.
LEMMA HeardShape ==
  ASSUME NEW q, q.op \in Posts
  PROVE  Heard(q) \in Posts \cup {"none"}
BY DEF Heard

\* A request that was posted and lost is still a request.
LEMMA LoseShape ==
  ASSUME NEW requests, requests \subseteq Request, Lose(requests),
         adrift \subseteq Request, \A q \in adrift : q.at = "lost"
  PROVE  /\ adrift' \subseteq Request /\ \A q \in adrift' : q.at = "lost"
         /\ \A q \in adrift' : q \in adrift \/ \E p \in requests :
              q.op = p.op /\ q.round = p.round /\ q.row = p.row
<1> DEFINE lost(p) == [p EXCEPT !.at = "lost", !.live = FALSE]
<1>1. ASSUME NEW p \in requests
      PROVE  /\ lost(p) \in Request /\ lost(p).at = "lost" /\ lost(p).op = p.op
             /\ lost(p).round = p.round /\ lost(p).row = p.row
  BY DEF Request
<1>2. adrift' = adrift \cup {lost(p) : p \in requests}
  BY DEF Lose
<1> HIDE DEF lost
<1> QED
  BY <1>1, <1>2

-----------------------------------------------------------------------------
(* The state stays well formed                                             *)

Shape == ScreenOK /\ RestOK

\* What everything begins with.
LEMMA NothingYet == <<>> \in Seq(Message) /\ 0 \in 0 .. NumRounds /\ 0 \in 0 .. MaxBreaks
BY BoundAssumption

\* The view opens well formed.
LEMMA EnterShape ==
  ASSUME NEW requests, requests \subseteq Request, Enter(requests),
         UNCHANGED <<role, row, routes, handlers, told>>, breaks' \in 0 .. MaxBreaks,
         adrift' \subseteq Request, \A q \in adrift' : q.at = "lost", Shape
  PROVE  Shape'
<1>1. Ask("load", NoRow, 0) \in Request
  BY AskShape, NoRowShape DEF Ops
<1>2. NewMap("game") \in Maps
  BY NewMapShape
<1>3. ScreenOK'
  BY <1>2, EmptyShape DEF Enter, ScreenOK
<1>4. RestOK'
  BY <1>1, NothingYet DEF Enter, Shape, RestOK
<1> QED
  BY <1>3, <1>4 DEF Shape

\* The initial state is well formed.
LEMMA ShapeInit == Init => Shape
<1> SUFFICES ASSUME Init PROVE Shape
  OBVIOUS
<1>1. Ask("load", NoRow, 0) \in Request
  BY AskShape, NoRowShape DEF Ops
<1>2. NewMap("game") \in Maps /\ NewMap("none") \in Maps
  BY NewMapShape
<1>3. row \in Row
  BY BoundAssumption DEF Init, Row, Phases
<1>4. ScreenOK
  BY <1>2, EmptyShape DEF Init, ScreenOK
<1>5. net \subseteq Request
  BY <1>1 DEF Init
<1>6. 0 \in 0 .. 2 * NumRounds + 1
  BY BoundAssumption
<1>7. RestOK
  BY <1>3, <1>5, <1>6, NothingYet DEF Init, RestOK
<1> QED
  BY <1>4, <1>7 DEF Shape

\* A handler that goes on to broadcast is a handler.
LEMMA GoesOnShape ==
  ASSUME RestOK, NEW step \in Steps, NEW r \in Row, NEW op \in Posts \cup {"none"},
         NEW round \in 0 .. NumRounds, GoesOn(step, r, op, round)
  PROVE  handlers' \subseteq Handler
<1>1. [row |-> r, at |-> step, scored |-> r.round, op |-> op, round |-> round] \in Handler
  BY DEF Handler, Row
<1> QED
  BY <1>1 DEF GoesOn, RestOK

\* So is one that announces the next round.
LEMMA AnnouncesShape ==
  ASSUME RestOK, RowOK, NEW op \in Posts \cup {"none"}, NEW round \in 0 .. NumRounds,
         Announces(op, round)
  PROVE  handlers' \subseteq Handler
<1>1. (IF NextRow.phase = "playing" THEN "round_start" ELSE "game_state") \in Steps
  BY DEF Steps
<1>2. NextRow \in Row
  BY NextRowShape
<1> QED
  BY <1>1, <1>2, GoesOnShape DEF Announces, RestOK

\* The state is well formed after a step of a server request.
LEMMA ServeShape ==
  ASSUME Shape, RowOK, SubmitsOK, NEW q \in net \cup adrift, Serve(q)
  PROVE  Shape'
<1> USE DEF Shape, RestOK
<1>1. /\ q \in Request /\ q.round \in 0 .. NumRounds
      /\ UNCHANGED <<role, told, chan, page, ws, store, ui, map, line, breaks>>
  BY DEF Serve, screen, Request
<1>2. /\ Answered(q) \in Request /\ Served(q) \in Request /\ Refused(q) \subseteq Request
  BY <1>1, AnsweredShape, RefusedShape
<1>3. ASSUME NEW answers, answers \subseteq Request, Settle(q, answers)
      PROVE  net' \subseteq Request /\ adrift' \subseteq Request /\ \A p \in adrift' : p.at = "lost"
  BY <1>3, SettleShape
<1>4. ASSUME row' \in Row, routes' \subseteq Teams \X Rounds, handlers' \subseteq Handler,
             due' \in 0 .. NumRounds, stale' \in BOOLEAN,
             NEW answers, answers \subseteq Request, Settle(q, answers)
      PROVE  Shape'
  BY <1>1, <1>3, <1>4 DEF ScreenOK
<1>5. {} \subseteq Request
  OBVIOUS
<1>6. CASE ServeClear(q)
  <2>1. routes' \subseteq Teams \X Rounds /\ due' \in 0 .. NumRounds
    BY <1>6, NothingYet DEF ServeClear
  <2> QED
    BY <1>4, <1>5, <1>6, <2>1 DEF ServeClear
<1>7. CASE ServeRead(q) /\ UNCHANGED due
  <2> DEFINE a == [Answered(q) EXCEPT
                     !.row = IF q.op = "load" THEN row ELSE @,
                     !.teams = IF q.op = "load" THEN {} ELSE Scored(q.round, routes)]
  <2>1. a \in Request
    BY <1>2 DEF Request, Scored
  <2>2. Settle(q, {a}) /\ UNCHANGED <<row, routes, handlers, stale>>
    BY <1>7 DEF ServeRead
  <2> HIDE DEF a
  <2> QED
    BY <1>4, <1>7, <2>1, <2>2
<1>8. CASE ServeSubmit(q) /\ UNCHANGED due
  <2>1. q.op \in Posts /\ q.round \in Rounds /\ UNCHANGED <<row, stale>>
    BY <1>1, <1>8, BoundAssumption DEF ServeSubmit, SubmitsOK, Rounds, Posts
  <2>2. CASE Settle(q, Refused(q)) /\ UNCHANGED <<routes, handlers>>
    BY <1>2, <1>4, <1>8, <2>1, <2>2
  <2>3. ASSUME routes' = routes \cup {<<"mine", q.round>>} PROVE routes' \subseteq Teams \X Rounds
    BY <2>1, <2>3, TeamAssumption
  <2>4. CASE /\ routes' = routes \cup {<<"mine", q.round>>}
             /\ Settle(q, {Served(q)}) /\ GoesOn("scores", row, Heard(q), q.round)
    <3>1. handlers' \subseteq Handler
      BY <1>1, <2>1, <2>4, HeardShape, GoesOnShape DEF Steps
    <3>2. {Served(q)} \subseteq Request
      BY <1>2
    <3> QED
      BY <1>4, <1>8, <2>1, <2>3, <2>4, <3>1, <3>2
  <2>5. CASE /\ routes' = routes \cup {<<"mine", q.round>>}
             /\ Settle(q, {Answered(q)}) /\ UNCHANGED handlers
    <3>1. {Answered(q)} \subseteq Request
      BY <1>2
    <3> QED
      BY <1>4, <1>8, <2>1, <2>3, <2>5, <3>1
  <2> QED
    BY <1>8, <2>2, <2>4, <2>5 DEF ServeSubmit
<1>9. CASE ServeAdvance(q) /\ UNCHANGED due
  <2>1. NextRow \in Row
    BY NextRowShape
  <2> DEFINE a == [(IF Solo THEN Answered(q) ELSE Served(q)) EXCEPT !.row = NextRow]
  <2>2. {a} \subseteq Request
    BY <1>2, <2>1 DEF Request
  <2>3. q.op \in Posts /\ routes' = routes /\ stale' \in BOOLEAN
    BY <1>9 DEF ServeAdvance, Posts, Solo
  <2>4. CASE MayAdvance
    <3>1. row' = NextRow /\ Settle(q, {a}) /\ Announces(Heard(q), q.round)
      BY <1>9, <2>4 DEF ServeAdvance
    <3>2. handlers' \subseteq Handler
      BY <1>1, <2>3, <3>1, HeardShape, AnnouncesShape
    <3> HIDE DEF a
    <3> QED
      BY <1>4, <1>9, <2>1, <2>2, <2>3, <3>1, <3>2
  <2>5. CASE ~MayAdvance
    <3>1. Settle(q, Refused(q)) /\ UNCHANGED <<row, handlers>>
      BY <1>9, <2>5 DEF ServeAdvance
    <3> QED
      BY <1>2, <1>4, <1>9, <2>3, <3>1
  <2> QED
    BY <2>4, <2>5
<1>10. CASE ServeEnd(q) /\ UNCHANGED due
  <2>1. q.op \in Posts /\ UNCHANGED <<routes, stale>> /\ {Served(q)} \subseteq Request
    BY <1>2, <1>10 DEF ServeEnd, Posts
  <2>2. CASE row.phase = "playing"
    <3>1. row' = Ended /\ Settle(q, {Served(q)}) /\ GoesOn("reload", Ended, Heard(q), q.round)
      BY <1>10, <2>2 DEF ServeEnd
    <3>2. Ended \in Row
      BY EndedShape
    <3>3. handlers' \subseteq Handler
      BY <1>1, <2>1, <3>1, <3>2, HeardShape, GoesOnShape DEF Steps
    <3> QED
      BY <1>4, <1>10, <2>1, <3>1, <3>2, <3>3
  <2>3. CASE row.phase # "playing"
    BY <1>4, <1>5, <1>10, <2>1, <2>3 DEF ServeEnd
  <2> QED
    BY <2>2, <2>3
<1> QED
  BY <1>6, <1>7, <1>8, <1>9, <1>10 DEF Serve

\* So it is after a step of a handler, and after the server stops.
LEMMA HandlerShape ==
  ASSUME Shape, RowOK, HandlersOK, (\E h \in handlers : HandlerStep(h)) \/ ServerStops
  PROVE  Shape'
<1> USE DEF Shape, RestOK
<1>1. ASSUME NEW h \in handlers, NEW step \in Steps PROVE [h EXCEPT !.at = step] \in Handler
  BY DEF Handler
<1>2. ASSUME NEW h \in handlers, NEW step \in Steps, MovesTo(h, step)
      PROVE  handlers' \subseteq Handler
  BY <1>1, <1>2 DEF MovesTo
<1>3. ASSUME NEW h \in handlers PROVE Following(h) \in Steps \ {"reload", "round_start"}
  BY DEF Following, Steps
<1>4. ASSUME NEW h \in handlers, NowTold(h) PROVE told' \in 0 .. 2 * NumRounds + 1
  <2>1. Turn(h.row) \in Int /\ Turn(h.row) <= 2 * NumRounds + 1
    BY TurnShape DEF Handler
  <2> QED
    BY <1>4, <2>1, BoundAssumption DEF NowTold, Latest
<1>5. ASSUME NEW h \in handlers, BroadcastToSession(h), HandlerStep(h) PROVE Shape'
  <2>1. Said(h) \in Message
    BY <1>5, SaidShape DEF BroadcastToSession, HandlersOK
  <2>2. chan' \in Seq(Message) /\ breaks' \in 0 .. MaxBreaks /\ stale' \in BOOLEAN
    <3>1. IsNews(h.at) \in BOOLEAN /\ (Turn(h.row) < told) \in BOOLEAN
      BY DEF IsNews
    <3>2. CASE chan' = Append(chan, Said(h)) /\ breaks' = breaks
      BY <1>5, <2>1, <3>1, <3>2 DEF BroadcastToSession
    <3>3. CASE chan' = chan /\ breaks' \in {breaks, breaks + 1} /\ (breaks' # breaks => breaks < MaxBreaks)
      BY <1>5, <3>1, <3>3, BoundAssumption DEF BroadcastToSession
    <3> QED
      BY <1>5, <3>2, <3>3 DEF BroadcastToSession
  <2>3. handlers' \subseteq Handler /\ told' \in 0 .. 2 * NumRounds + 1
    BY <1>2, <1>3, <1>4, <1>5 DEF BroadcastToSession
  <2> QED
    BY <1>5, <2>2, <2>3 DEF HandlerStep, BroadcastToSession, ScreenOK, screen
<1>6. ASSUME NEW h \in handlers, ReloadSession(h), HandlerStep(h) PROVE Shape'
  <2>1. [h EXCEPT !.at = Following(h), !.scored = row.round] \in Handler
    BY <1>3 DEF Handler, Row
  <2> QED
    BY <1>6, <2>1 DEF HandlerStep, ReloadSession, ScreenOK, screen
<1>7. ASSUME NEW h \in handlers, GivesUp(h), HandlerStep(h) PROVE Shape'
  <2>1. handlers' \subseteq Handler /\ told' \in 0 .. 2 * NumRounds + 1
    BY <1>2, <1>4, <1>7 DEF GivesUp, Steps
  <2>2. breaks' \in 0 .. MaxBreaks /\ stale' \in BOOLEAN
    BY <1>7, BoundAssumption DEF GivesUp
  <2> QED
    BY <1>7, <2>1, <2>2 DEF HandlerStep, GivesUp, ScreenOK, screen
<1>8. ASSUME NEW h \in handlers, WritesAnswer(h), HandlerStep(h) PROVE Shape'
  <2>1. \A q \in net : Answered(q) \in Request
    BY AnsweredShape
  <2>2. net' \subseteq Request
    BY <1>8, <2>1 DEF WritesAnswer, Replace, Forget
  <2> QED
    BY <1>8, <2>2 DEF HandlerStep, WritesAnswer, ScreenOK, screen
<1>9. CASE ServerStops
  <2>1. net' \subseteq Request
    BY <1>9, RefusedShape DEF ServerStops
  <2>2. told' \in 0 .. 2 * NumRounds + 1
    BY <1>9, TurnShape DEF ServerStops, RowOK
  <2>3. breaks' \in 0 .. MaxBreaks /\ stale' \in BOOLEAN
    BY <1>9, BoundAssumption DEF ServerStops, NewsComing, IsNews
  <2>4. ws' \in {"none", "connecting", "open", "waiting"}
    BY <1>9 DEF ServerStops, ScreenOK
  <2> QED
    BY <1>9, <2>1, <2>2, <2>3, <2>4, NothingYet DEF ServerStops, ScreenOK
<1> QED
  BY <1>5, <1>6, <1>7, <1>8, <1>9 DEF HandlerStep

\* So it is after a broadcast is handled.
LEMMA GameMessageShape ==
  ASSUME Shape, GameMessage
  PROVE  Shape'
<1> DEFINE m == Head(chan)
<1> USE DEF Shape, RestOK
<1>1. m \in Message /\ chan' \in Seq(Message)
  BY DEF GameMessage
<1>2. UNCHANGED <<role, row, routes, handlers, adrift, told, breaks>>
  BY DEF GameMessage, server
<1>3. store \in Stores /\ ui \in Uis
  BY DEF ScreenOK
<1>4. CASE GameState(m)
  <2> DEFINE s == [store EXCEPT !.phase = m.phase]
             u == [ui EXCEPT !.showScores = @ \/ m.phase = "scoring"]
  <2>1. m.phase \in Phases
    BY <1>1, <1>4, MessageShape DEF GameState
  <2>2. s \in Stores /\ u \in Uis
    BY <1>3, <2>1 DEF Stores, Uis
  <2>3. Render(s, u, FALSE)
    BY <1>4 DEF GameState
  <2>4. ScreenOK'
    BY <2>2, <2>3, RenderShape
  <2> QED
    BY <1>1, <1>2, <1>4, <2>4 DEF GameState
<1>5. CASE RoundStart(m)
  <2> DEFINE s == [store EXCEPT !.round = m.round, !.phase = "playing",
                                !.scores = {}, !.results = NoResults]
             u == [ui EXCEPT !.showScores = FALSE, !.submitted = FALSE]
  <2>1. m.round \in 0 .. NumRounds
    BY <1>1, <1>5, MessageShape, BoundAssumption DEF RoundStart, Rounds
  <2>2. NoResults \in Results /\ "playing" \in Phases
    BY BoundAssumption DEF NoResults, Results, Phases
  <2>3. s \in Stores /\ u \in Uis /\ Render(s, u, TRUE)
    <3>1. s \in Stores
      BY <1>3, <2>1, <2>2 DEF Stores
    <3>2. u \in Uis
      BY <1>3 DEF Uis
    <3>3. Render(s, u, TRUE)
      BY <1>5 DEF RoundStart
    <3> QED
      BY <3>1, <3>2, <3>3
  <2>4. ScreenOK'
    BY <2>3, RenderShape
  <2> QED
    BY <1>1, <1>2, <1>5, <2>4 DEF RoundStart
<1>6. CASE ScoresCome(m)
  <2> DEFINE s == [store EXCEPT !.scores = m.teams]
  <2>1. m.teams \in SUBSET Teams
    BY <1>1, <1>6, MessageShape DEF ScoresCome
  <2>2. s \in Stores /\ store.round \in 0 .. NumRounds
    BY <1>3, <2>1 DEF Stores
  <2>3. Render(s, ui, FALSE)
    BY <1>6 DEF ScoresCome
  <2>4. ScreenOK'
    BY <1>3, <2>2, <2>3, RenderShape
  <2>5. Ask("results", NoRow, store.round) \in Request
    BY <2>2, AskShape, NoRowShape DEF Ops
  <2>6. net' \subseteq Request
    BY <1>6, <2>5 DEF ScoresCome
  <2> QED
    BY <1>1, <1>2, <1>6, <2>4, <2>6 DEF ScoresCome
<1>7. CASE RoundEnd(m)
  <2>1. store.round \in 0 .. NumRounds
    BY <1>3 DEF Stores
  <2>2. Ask("submit", NoRow, store.round) \in Request
    BY <2>1, AskShape, NoRowShape DEF Ops
  <2>3. net' \subseteq Request
    BY <1>7, <2>2 DEF RoundEnd, AutoSubmit, Post
  <2>4. ui' \in Uis
    BY <1>3, <1>7 DEF RoundEnd, AutoSubmit, Uis
  <2>5. due' \in 0 .. NumRounds
    BY <1>7, <2>1 DEF RoundEnd
  <2> QED
    BY <1>1, <1>2, <1>7, <2>3, <2>4, <2>5 DEF RoundEnd, ScreenOK
<1> QED
  BY <1>4, <1>5, <1>6, <1>7 DEF GameMessage

\* So it is after an answer is applied on the game screen.
LEMMA AnswerShape ==
  ASSUME Shape, NEW q \in net, Answer(q)
  PROVE  Shape'
<1> USE DEF Shape, RestOK
<1>1. q \in Request /\ q.row \in Row /\ q.row.round \in 0 .. NumRounds /\ q.row.phase \in Phases
      /\ q.round \in 0 .. NumRounds /\ q.teams \in SUBSET Teams
  BY DEF Request, Row
<1>2. UNCHANGED <<role, row, routes, handlers, adrift, told, breaks>>
  BY DEF Answer, server
<1>3. store \in Stores /\ ui \in Uis
  BY DEF ScreenOK
<1>4. Forget(q) => net' \subseteq Request
  BY DEF Forget
<1>5. ASSUME NEW op \in Ops, Replace(q, Then(q, op)) PROVE net' \subseteq Request
  <2>1. Ask(op, q.row, q.row.round) \in Request
    BY <1>1, AskShape
  <2>2. Then(q, op) \in Request
    BY <1>1, <2>1 DEF Then, Request
  <2> QED
    BY <1>5, <2>2 DEF Replace
<1>6. [round |-> q.round, teams |-> q.teams] \in Results
  BY <1>1 DEF Results
<1>7. ASSUME NEW u \in Uis PROVE Local(q, u) \in Uis
  BY <1>3 DEF Local
<1>8. CASE ApplyLoad(q)
  <2>1. store' \in Stores
    BY <1>3, <1>8 DEF ApplyLoad, Stores
  <2>2. net' \subseteq Request
    BY <1>4, <1>5, <1>8 DEF ApplyLoad, Ops
  <2>3. chan' \in Seq(Message) /\ ws' \in {"none", "connecting", "open", "waiting"}
    BY <1>8, NothingYet DEF ApplyLoad, ScreenOK
  <2> QED
    BY <1>2, <1>8, <2>1, <2>2, <2>3 DEF ApplyLoad, ScreenOK, history
<1>9. CASE ApplyRound(q)
  <2> DEFINE s == [store EXCEPT !.round = q.row.round, !.phase = q.row.phase]
  <2>1. s \in Stores
    BY <1>1, <1>3 DEF Stores
  <2>2. Render(s, ui, TRUE)
    BY <1>9 DEF ApplyRound
  <2>3. ScreenOK'
    BY <1>3, <2>1, <2>2, RenderShape
  <2>4. net' \subseteq Request
    BY <1>4, <1>5, <1>9 DEF ApplyRound, Ops
  <2>5. stale' \in BOOLEAN
    BY <1>9 DEF ApplyRound
  <2> QED
    BY <1>2, <1>9, <2>3, <2>4, <2>5 DEF ApplyRound
<1>10. CASE ApplyResults(q)
  <2> DEFINE s == [store EXCEPT !.results = [round |-> q.round, teams |-> q.teams]]
  <2>1. s \in Stores
    BY <1>3, <1>6 DEF Stores
  <2>2. Render(s, ui, TRUE)
    BY <1>10 DEF ApplyResults
  <2>3. ScreenOK'
    BY <1>3, <2>1, <2>2, RenderShape
  <2> QED
    BY <1>2, <1>4, <1>10, <2>3 DEF ApplyResults, history
<1>11. CASE ApplyReveal(q)
  <2> DEFINE s == [store EXCEPT !.results = [round |-> q.round, teams |-> q.teams],
                                !.scores = q.teams]
             u == [ui EXCEPT !.showScores = TRUE, !.submitting = @ /\ q.op # "reveal"]
  <2>1. s \in Stores
    BY <1>1, <1>3, <1>6 DEF Stores
  <2>2. u \in Uis /\ Local(q, u) \in Uis
    <3>1. u \in Uis
      BY <1>3 DEF Uis
    <3> HIDE DEF u
    <3> QED
      BY <1>7, <3>1
  <2>3. Render(s, Local(q, u), TRUE)
    BY <1>11 DEF ApplyReveal
  <2>4. ScreenOK'
    BY <2>1, <2>2, <2>3, RenderShape
  <2> QED
    BY <1>2, <1>4, <1>11, <2>4 DEF ApplyReveal, history
<1>12. CASE ApplySubmit(q)
  <2>1. [ui EXCEPT !.submitted = TRUE, !.submitting = Solo] \in Uis
    <3>1. Solo \in BOOLEAN
      BY DEF Solo
    <3> QED
      BY <1>3, <3>1 DEF Uis
  <2>2. ui' \in Uis
    BY <1>7, <1>12, <2>1 DEF ApplySubmit
  <2>3. Ask("reveal", NoRow, q.round) \in Request
    BY <1>1, AskShape, NoRowShape DEF Ops
  <2>4. [Ask("reveal", NoRow, q.round) EXCEPT !.live = q.live] \in Request
    BY <1>1, <2>3 DEF Request
  <2>5. net' \subseteq Request
    BY <1>4, <1>12, <2>4 DEF ApplySubmit, Replace
  <2> QED
    BY <1>2, <1>12, <2>2, <2>5 DEF ApplySubmit, ScreenOK, history
<1>13. ASSUME NextRound(q) PROVE ScreenOK' /\ net' \subseteq Request /\ line' \in 0 .. NumRounds
  <2> DEFINE s == [store EXCEPT !.round = q.row.round, !.phase = "playing",
                                !.results = NoResults]
             u == [ui EXCEPT !.showScores = FALSE, !.submitted = FALSE]
  <2>1. NoResults \in Results /\ "playing" \in Phases
    BY BoundAssumption DEF NoResults, Results, Phases
  <2>2. s \in Stores
    BY <1>1, <1>3, <2>1 DEF Stores
  <2>3. u \in Uis /\ Local(q, u) \in Uis
    <3>1. u \in Uis
      BY <1>3 DEF Uis
    <3> HIDE DEF u
    <3> QED
      BY <1>7, <3>1
  <2>4. Render(s, Local(q, u), TRUE)
    BY <1>13 DEF NextRound
  <2>5. ScreenOK'
    BY <2>2, <2>3, <2>4, RenderShape
  <2> QED
    BY <1>4, <1>13, <2>5, NothingYet DEF NextRound
<1>14. CASE ApplyAdvance(q)
  <2>1. CASE GameIsOver(q)
    <3> DEFINE s == [store EXCEPT !.phase = "finished"]
               u == [ui EXCEPT !.showScores = FALSE]
    <3>1. s \in Stores
      BY <1>3 DEF Stores, Phases
    <3>2. u \in Uis /\ Local(q, u) \in Uis
      <4>1. u \in Uis
        BY <1>3 DEF Uis
      <4> HIDE DEF u
      <4> QED
        BY <1>7, <4>1
    <3>3. Render(s, Local(q, u), FALSE)
      BY <2>1 DEF GameIsOver
    <3>4. ScreenOK'
      BY <3>1, <3>2, <3>3, RenderShape
    <3> QED
      BY <1>2, <1>4, <1>14, <2>1, <3>4 DEF ApplyAdvance, GameIsOver, history
  <2>2. CASE NextRound(q)
    BY <1>2, <1>13, <1>14, <2>2 DEF ApplyAdvance, history
  <2>3. CASE Replace(q, Then(q, "next")) /\ UNCHANGED screen
    BY <1>2, <1>5, <1>14, <2>3 DEF ApplyAdvance, Ops, ScreenOK, screen, history
  <2> QED
    BY <1>14, <2>1, <2>2, <2>3 DEF ApplyAdvance
<1>15. CASE ApplyNext(q)
  BY <1>2, <1>13, <1>15 DEF ApplyNext, history
<1>16. CASE ApplyFailure(q)
  <2>1. [ui EXCEPT !.submitting = FALSE] \in Uis
    BY <1>3 DEF Uis
  <2>2. ui' \in Uis
    BY <1>7, <1>16, <2>1 DEF ApplyFailure
  <2> QED
    BY <1>2, <1>4, <1>16, <2>2 DEF ApplyFailure, ScreenOK, history
<1>17. CASE Unheeded(q) /\ Nothing(q)
  BY <1>2, <1>4, <1>17 DEF Nothing, ScreenOK, screen, history
<1> QED
  BY <1>8, <1>9, <1>10, <1>11, <1>12, <1>14, <1>15, <1>16, <1>17 DEF Answer

\* So it is after an answer that finds another screen.
LEMMA ElsewhereShape ==
  ASSUME Shape, NEW q \in net, AnswerElsewhere(q)
  PROVE  Shape'
<1>1. /\ UNCHANGED <<role, row, routes, handlers, told, adrift>>
      /\ breaks' \in 0 .. MaxBreaks /\ net \subseteq Request
      /\ adrift \subseteq Request /\ \A p \in adrift : p.at = "lost"
  BY DEF AnswerElsewhere, Shape, RestOK, server
<1>2. CASE ApplyStart(q)
  <2>1. Left(net \ {q}) \subseteq Request
    BY <1>1, LeftShape
  <2> QED
    BY <1>1, <1>2, <2>1, EnterShape DEF ApplyStart
<1>3. CASE Nothing(q)
  BY <1>1, <1>3 DEF Nothing, Forget, Shape, ScreenOK, RestOK, screen, server, history
<1> QED
  BY <1>2, <1>3 DEF AnswerElsewhere

\* So it is after a step of the user.
LEMMA UserShape ==
  ASSUME Shape,
         \/ MapLoads \/ Draw \/ HandleSubmit \/ HandleScoreContinue \/ HandleEndRound \/ GoHome
         \/ HandleStart \/ \E t \in Teams : HandleClearRoute(t)
  PROVE  Shape'
<1> USE DEF Shape, RestOK, Chooses, server, history
<1>1. store \in Stores /\ ui \in Uis /\ map \in Maps /\ store.round \in 0 .. NumRounds
  BY DEF ScreenOK, Stores
<1>2. \A op \in Ops : Ask(op, NoRow, 0) \in Request /\ Ask(op, NoRow, store.round) \in Request
  BY <1>1, AskShape, NoRowShape
<1>3. CASE MapLoads
  <2>1. map' \in Maps
    BY <1>1, <1>3, SourcesShape DEF MapLoads, Maps
  <2> QED
    BY <1>3, <2>1, NothingYet DEF MapLoads, ScreenOK
<1>4. CASE Draw
  BY <1>1, <1>4 DEF Draw, ScreenOK
<1>5. CASE HandleSubmit
  <2>1. ui' \in Uis
    BY <1>1, <1>5 DEF HandleSubmit, Uis
  <2>2. net' \subseteq Request
    BY <1>2, <1>5 DEF HandleSubmit, Post, Ops
  <2> QED
    BY <1>5, <2>1, <2>2 DEF HandleSubmit, ScreenOK
<1>6. CASE HandleScoreContinue
  BY <1>2, <1>6 DEF HandleScoreContinue, ScreenOK, screen, Ops
<1>7. CASE HandleEndRound
  BY <1>2, <1>7 DEF HandleEndRound, ScreenOK, screen, Ops
<1>8. CASE GoHome
  <2>1. Left(net) \subseteq Request
    BY LeftShape
  <2> QED
    BY <1>8, <2>1, NothingYet DEF GoHome, ScreenOK
<1>9. CASE HandleStart
  BY <1>2, <1>9 DEF HandleStart, ScreenOK, screen, Ops
<1>10. ASSUME NEW t \in Teams, HandleClearRoute(t) PROVE Shape'
  <2>1. [Ask("clear", NoRow, store.round) EXCEPT !.teams = {t}] \in Request
    BY <1>2 DEF Ops, Request
  <2> QED
    BY <1>10, <2>1 DEF HandleClearRoute, ScreenOK, screen
<1> QED
  BY <1>3, <1>4, <1>5, <1>6, <1>7, <1>8, <1>9, <1>10

\* So it is after the socket, the server or the browser did something of its own.
LEMMA AroundShape ==
  ASSUME Shape, RowOK,
         \/ LobbyMessage \/ Exit \/ Reload \/ SocketOpens \/ SocketCloses \/ Reconnect
         \/ GuideAdvances \/ RoundEnds \/ \E t \in Teams : OthersSubmit(t)
         \/ \E q \in net : Fail(q)
  PROVE  Shape'
<1> USE DEF Shape, RestOK, server, history
<1>1. Left(net) \subseteq Request /\ {} \subseteq Request
  BY LeftShape
<1>2. CASE LobbyMessage
  <2>1. CASE Enter(Left(net))
    BY <1>1, <1>2, <2>1, EnterShape DEF LobbyMessage
  <2>2. CASE chan' = Tail(chan) /\ UNCHANGED <<net, screen, history>>
    BY <1>2, <2>2 DEF LobbyMessage, ScreenOK, screen
  <2> QED
    BY <1>2, <2>1, <2>2 DEF LobbyMessage
<1>3. CASE Exit
  <2>1. NewMap("none") \in Maps /\ breaks' \in 0 .. MaxBreaks
    BY <1>3, NewMapShape, BoundAssumption DEF Exit
  <2>2. ScreenOK'
    BY <1>3, <2>1, EmptyShape DEF Exit, ScreenOK
  <2> QED
    BY <1>1, <1>3, <2>1, <2>2, NothingYet DEF Exit
<1>4. CASE Reload
  <2>1. breaks' \in 0 .. MaxBreaks
    BY <1>4, BoundAssumption DEF Reload
  <2>2. PICK posted \in SUBSET Unserved : Lose(posted)
    BY <1>4 DEF Reload
  <2>3. posted \subseteq Request
    BY DEF Unserved
  <2>4. adrift' \subseteq Request /\ \A q \in adrift' : q.at = "lost"
    BY <2>2, <2>3, LoseShape
  <2> QED
    BY <1>1, <1>4, <2>1, <2>4, EnterShape DEF Reload
<1>5. CASE SocketOpens \/ Reconnect
  BY <1>5 DEF SocketOpens, Reconnect, ScreenOK
<1>6. CASE SocketCloses
  <2>1. breaks' \in 0 .. MaxBreaks /\ stale' \in BOOLEAN
    BY <1>6, BoundAssumption DEF SocketCloses, NewsComing, IsNews
  <2> QED
    BY <1>6, <2>1, NothingYet DEF SocketCloses, ScreenOK
<1>7. CASE GuideAdvances
  <2>1. handlers' \subseteq Handler
    BY <1>7, NothingYet, AnnouncesShape DEF GuideAdvances
  <2> QED
    BY <1>7, <2>1, NextRowShape DEF GuideAdvances, ScreenOK, screen
<1>8. CASE RoundEnds
  <2>1. handlers' \subseteq Handler
    BY <1>8, NothingYet, EndedShape, GoesOnShape DEF RoundEnds, Steps
  <2> QED
    BY <1>8, <2>1, EndedShape DEF RoundEnds, ScreenOK, screen
<1>9. ASSUME NEW t \in Teams, OthersSubmit(t) PROVE Shape'
  <2>1. handlers' \subseteq Handler
    BY <1>9, NothingYet, GoesOnShape DEF OthersSubmit, Steps
  <2>2. row.round \in Rounds
    BY <1>9, BoundAssumption DEF OthersSubmit, RowOK, Row, Rounds
  <2> QED
    BY <1>9, <2>1, <2>2 DEF OthersSubmit, ScreenOK, screen
<1>10. ASSUME NEW q \in net, Fail(q) PROVE Shape'
  <2>1. net' \subseteq Request
    BY <1>10, RefusedShape DEF Fail
  <2>2. adrift' \subseteq Request /\ \A p \in adrift' : p.at = "lost"
    BY <1>10, LoseShape DEF Fail
  <2>3. breaks' \in 0 .. MaxBreaks
    BY <1>10, BoundAssumption DEF Fail
  <2>4. stale' \in BOOLEAN /\ due' \in 0 .. NumRounds
    BY <1>10, NothingYet DEF Fail, Solo
  <2> QED
    BY <1>10, <2>1, <2>2, <2>3, <2>4 DEF Fail, ScreenOK, screen
<1> QED
  BY <1>2, <1>3, <1>4, <1>5, <1>6, <1>7, <1>8, <1>9, <1>10

\* Every step keeps the state well formed.
LEMMA ShapeStep == Shape /\ RowOK /\ HandlersOK /\ SubmitsOK /\ [Next]_vars => Shape'
<1> SUFFICES ASSUME Shape, RowOK, HandlersOK, SubmitsOK, [Next]_vars PROVE Shape'
  OBVIOUS
<1>1. CASE UNCHANGED vars
  BY <1>1 DEF vars, Shape, ScreenOK, RestOK
<1>2. CASE Next
  BY <1>2, ServeShape, HandlerShape, GameMessageShape, AnswerShape, ElsewhereShape, UserShape,
     AroundShape DEF Next
<1> QED
  BY <1>1, <1>2

-----------------------------------------------------------------------------
(* The rows a session goes through                                         *)

\* What a step of the server does to the row and to the handlers that broadcast it: nothing;
\* a handler goes on, or all are gone; or the row moves, and a handler sets out to tell of it.
LEMMA ServerMoves ==
  ASSUME RestOK, [Next]_vars
  PROVE  \/ UNCHANGED <<row, handlers>>
         \/ row' = row /\ handlers' = {}
         \/ row' = row /\ \E h \in handlers : HandlerStep(h)
         \/ \E op \in Posts \cup {"none"}, round \in 0 .. NumRounds :
              \/ MayAdvance /\ row' = NextRow /\ Announces(op, round)
              \/ row.phase = "playing" /\ row' = Ended /\ GoesOn("reload", Ended, op, round)
              \/ row.phase = "scoring" /\ row' = row /\ GoesOn("scores", row, op, round)
<1>1. 0 \in 0 .. NumRounds
  BY NothingYet
<1>2. CASE GuideAdvances \/ RoundEnds \/ \E t \in Teams : OthersSubmit(t)
  BY <1>1, <1>2 DEF GuideAdvances, RoundEnds, OthersSubmit
<1>3. ASSUME NEW q \in net \cup adrift, Serve(q)
      PROVE  \/ UNCHANGED <<row, handlers>>
             \/ \E op \in Posts \cup {"none"}, round \in 0 .. NumRounds :
                  \/ MayAdvance /\ row' = NextRow /\ Announces(op, round)
                  \/ row.phase = "playing" /\ row' = Ended /\ GoesOn("reload", Ended, op, round)
                  \/ row.phase = "scoring" /\ row' = row /\ GoesOn("scores", row, op, round)
  <2>1. q.round \in 0 .. NumRounds
    BY DEF RestOK, Request
  <2>2. CASE ServeClear(q) \/ ServeRead(q)
    BY <2>2 DEF ServeClear, ServeRead
  <2>3. CASE ServeSubmit(q) \/ ServeAdvance(q) \/ ServeEnd(q)
    <3>1. Heard(q) \in Posts \cup {"none"}
      BY <2>3, HeardShape DEF ServeSubmit, ServeAdvance, ServeEnd, Posts
    <3> QED
      BY <2>1, <2>3, <3>1 DEF ServeSubmit, ServeAdvance, ServeEnd
  <2> QED
    BY <1>3, <2>2, <2>3 DEF Serve
<1>4. CASE ServerStops \/ \E h \in handlers : HandlerStep(h)
  BY <1>4 DEF ServerStops, HandlerStep
<1>5. CASE \/ LobbyMessage \/ HandleStart \/ Exit \/ Reload \/ SocketOpens \/ SocketCloses
           \/ Reconnect \/ (\E t \in Teams : HandleClearRoute(t))
           \/ (\E q \in net : Fail(q) \/ Answer(q) \/ AnswerElsewhere(q))
           \/ GameMessage \/ MapLoads \/ Draw \/ HandleSubmit \/ HandleScoreContinue
           \/ HandleEndRound \/ GoHome \/ UNCHANGED vars
  BY <1>5 DEF vars, server, LobbyMessage, HandleStart, Exit, Reload, SocketOpens, SocketCloses,
         Reconnect, HandleClearRoute, Fail, Answer, AnswerElsewhere,
         GameMessage, MapLoads, Draw, HandleSubmit, HandleScoreContinue, HandleEndRound, GoHome,
         Chooses
<1> QED
  BY <1>2, <1>3, <1>4, <1>5 DEF Next

\* The row moves on by one round, or its round ends; it never waits again, and a
\* finished session stays finished.
LEMMA RowStep ==
  ASSUME RestOK, RowOK, [Next]_vars
  PROVE  /\ RowOK'
         /\ row'.phase = "waiting" => row' = row
         /\ row.phase = "finished" => row'.phase = "finished"
<1>1. \/ row' = row
      \/ row' = NextRow
      \/ row.phase = "playing" /\ row' = Ended
  BY ServerMoves
<1>2. CASE row' = row
  BY <1>2 DEF RowOK
<1>3. CASE row' = NextRow
  BY <1>3, NextRowShape DEF RowOK
<1>4. CASE row.phase = "playing" /\ row' = Ended
  BY <1>4, EndedShape DEF RowOK, RestOK, Row
<1> QED
  BY <1>1, <1>2, <1>3, <1>4

\* A handler that is new broadcasts the row as it has become.
LEMMA GoesOnKeeps ==
  ASSUME HandlersOK, NEW step, NEW r, NEW op, NEW round, GoesOn(step, r, op, round),
         r.phase # "waiting",
         r.phase \in {"playing", "scoring"} => r.round # 0,
         r.phase = "finished" => r.round = NumRounds,
         step = "round_start" => r.phase = "playing",
         step \in {"reload", "round_end"} => r.phase = "scoring"
  PROVE  HandlersOK'
<1> DEFINE b == [row |-> r, at |-> step, scored |-> r.round, op |-> op, round |-> round]
<1>1. b.row = r /\ b.at = step
  OBVIOUS
<1>2. handlers' = handlers \cup {b}
  BY DEF GoesOn
<1> HIDE DEF b
<1> QED
  BY <1>1, <1>2 DEF HandlersOK

\* A handler keeps its row, and comes neither to reload nor to a round_start again.
LEMMA HandlerKeeps ==
  ASSUME RestOK, NEW h \in handlers, HandlerStep(h)
  PROVE  \A b \in handlers' : \/ b \in handlers
                              \/ /\ b.row = h.row /\ b.at \notin {"reload", "round_start"}
                                 /\ b.at = "round_end" => h.at = "reload"
<1>1. h \in Handler
  BY DEF RestOK
<1>2. Following(h) \notin {"reload", "round_start"}
      /\ (Following(h) = "round_end" => h.at = "reload")
  BY DEF Following
<1>3. ASSUME NEW step, step \notin {"reload", "round_start"},
             step = "round_end" => h.at = "reload",
             NEW b, b = [h EXCEPT !.at = step] \/ b = [h EXCEPT !.at = step, !.scored = row.round]
      PROVE  /\ b.row = h.row /\ b.at \notin {"reload", "round_start"}
             /\ b.at = "round_end" => h.at = "reload"
  BY <1>1, <1>3 DEF Handler
<1>4. PICK step \in {Following(h), "answer"} :
        \A b \in handlers' : \/ b \in handlers
                             \/ b = [h EXCEPT !.at = step]
                             \/ b = [h EXCEPT !.at = step, !.scored = row.round]
  <2>1. CASE MovesTo(h, Following(h)) \/ MovesTo(h, "answer")
    BY <2>1 DEF MovesTo
  <2>2. CASE ReloadSession(h) \/ WritesAnswer(h)
    BY <2>2 DEF ReloadSession, WritesAnswer
  <2> QED
    BY <2>1, <2>2 DEF HandlerStep, BroadcastToSession, GivesUp
<1> QED
  BY <1>2, <1>3, <1>4

LEMMA HandlersStep ==
  ASSUME RestOK, RowOK, HandlersOK, [Next]_vars
  PROVE  HandlersOK'
<1>1. CASE UNCHANGED <<row, handlers>> \/ handlers' = {}
  BY <1>1 DEF HandlersOK
<1>2. ASSUME NEW h \in handlers, HandlerStep(h) PROVE HandlersOK'
  BY <1>2, HandlerKeeps DEF HandlersOK
<1>3. ASSUME NEW op, NEW round, Announces(op, round) PROVE HandlersOK'
  BY <1>3, NextRowShape, GoesOnKeeps DEF Announces, HandlersOK
<1>4. ASSUME NEW op, NEW round, row.phase = "playing", GoesOn("reload", Ended, op, round)
      PROVE  HandlersOK'
  BY <1>4, EndedShape, GoesOnKeeps DEF RowOK
<1>5. ASSUME NEW op, NEW round, row.phase = "scoring", GoesOn("scores", row, op, round)
      PROVE  HandlersOK'
  BY <1>5, GoesOnKeeps DEF RowOK
<1> QED
  BY <1>1, <1>2, <1>3, <1>4, <1>5, ServerMoves

-----------------------------------------------------------------------------
(* What is drawn when a round ends is stored                                *)

Kept == SubmitsOK /\ WaitingOK /\ DueOK

\* A view that opens owes nothing.
LEMMA EnterKeeps ==
  ASSUME NEW requests, requests \subseteq Request, Enter(requests),
         \A q \in requests : q.op = "submit" => q.round # 0,
         row.phase = "waiting" => \A q \in requests : q.row.round = 0,
         \A q \in adrift' : q.op = "submit" => q.round # 0,
         WaitingOK, UNCHANGED <<row, handlers>>
  PROVE  Kept'
<1>1. Ask("load", NoRow, 0).op = "load" /\ Ask("load", NoRow, 0).row.round = 0
  BY AskShape, NoRowShape DEF Ops
<1> QED
  BY <1>1, EmptyShape DEF Enter, Kept, SubmitsOK, WaitingOK, DueOK

\* Nothing is owed at first.
LEMMA KeptInit == Init => Kept
<1>1. Ask("load", NoRow, 0).op = "load" /\ Ask("load", NoRow, 0).row.round = 0
  BY AskShape, NoRowShape DEF Ops
<1> QED
  BY <1>1, EmptyShape DEF Init, Kept, SubmitsOK, WaitingOK, DueOK

\* The server takes a request from the net, or sends it back with an answer.
LEMMA ServeKeeps ==
  ASSUME TabInv, [Next]_vars, NEW q \in net \cup adrift, Serve(q)
  PROVE  Kept'
<1> USE DEF TabInv
<1>1. /\ q \in Request /\ UNCHANGED <<store, chan>>
      /\ row'.phase = "waiting" => row' = row
      /\ row.phase = "finished" => row'.phase = "finished"
  BY RowStep DEF Serve, screen, RestOK
<1>2. (row.phase = "waiting" /\ q \in net) => q.row.round = 0
  BY DEF WaitingOK
<1>3. ASSUME NEW answers, Settle(q, answers),
             \A a \in answers : /\ a.op = q.op /\ a.round = q.round
                                /\ row'.phase = "waiting" => a.row.round = 0,
             row'.phase = "waiting" => handlers' = {} /\ due' = due,
             DueOK'
      PROVE  Kept'
  <2>1. /\ net' \subseteq net \cup answers /\ adrift' \subseteq adrift
        /\ \A p \in net : p # q => p \in net'
    BY <1>3, SettleShape
  <2>2. SubmitsOK'
    BY <1>3, <2>1 DEF SubmitsOK
  <2>3. WaitingOK'
    BY <1>1, <1>3, <2>1 DEF WaitingOK
  <2> QED
    BY <1>3, <2>2, <2>3 DEF Kept
<1>4. ASSUME UNCHANGED <<row, routes, due>>, q.op # "submit", NEW answers, Settle(q, answers)
      PROVE  DueOK'
  BY <1>4, SettleShape DEF DueOK
<1>5. row'.phase = "waiting" => \A a \in Refused(q) : q \in net => a.row.round = 0
  BY <1>1, <1>2, RefusedShape
<1>6. ASSUME Settle(q, Refused(q)), UNCHANGED <<row, handlers, due>>, DueOK' PROVE Kept'
  <2>1. CASE q.at = "lost"
    <3>1. Settle(q, {})
      BY <1>6, <2>1 DEF Settle
    <3> QED
      BY <1>1, <1>3, <1>6, <3>1 DEF WaitingOK
  <2>2. CASE q.at # "lost"
    <3>1. q \in net
      BY <2>2 DEF RestOK
    <3> QED
      BY <1>1, <1>3, <1>5, <1>6, <3>1, RefusedShape DEF WaitingOK
  <2> QED
    BY <2>1, <2>2
<1>7. CASE ServeClear(q)
  <2>1. Settle(q, {}) /\ UNCHANGED <<row, handlers>> /\ q.op = "clear"
    BY <1>7 DEF ServeClear
  <2>2. DueOK'
    BY <1>7, <2>1, SettleShape DEF ServeClear, DueOK
  <2>3. row'.phase = "waiting" => handlers' = {} /\ due' = due
    BY <1>7, <2>1 DEF ServeClear, WaitingOK
  <2> QED
    BY <1>3, <2>1, <2>2, <2>3
<1>8. CASE ServeRead(q) /\ UNCHANGED due
  <2> DEFINE a == [Answered(q) EXCEPT
                     !.row = IF q.op = "load" THEN row ELSE @,
                     !.teams = IF q.op = "load" THEN {} ELSE Scored(q.round, routes)]
  <2>1. /\ a.op = q.op /\ a.round = q.round
        /\ a.row = IF q.op = "load" THEN row ELSE q.row
    <3>1. /\ Answered(q) \in Request /\ Answered(q).op = q.op /\ Answered(q).round = q.round
          /\ Answered(q).row = q.row
      BY <1>1, AnsweredShape
    <3> QED
      BY <3>1 DEF Request
  <2>2. Settle(q, {a}) /\ UNCHANGED <<row, routes, handlers>> /\ q.op # "submit" /\ q.op \notin Posts
    BY <1>8 DEF ServeRead, Posts
  <2> HIDE DEF a
  <2>3. DueOK'
    BY <1>4, <1>8, <2>2
  <2>4. CASE q.at = "lost"
    <3>1. Settle(q, {})
      BY <2>2, <2>4 DEF Settle
    <3> QED
      BY <1>1, <1>3, <1>8, <2>2, <2>3, <3>1 DEF WaitingOK
  <2>5. CASE q.at # "lost"
    <3>1. q \in net
      BY <2>5 DEF RestOK
    <3>2. row'.phase = "waiting" => a.row.round = 0
      BY <1>2, <2>1, <2>2, <3>1 DEF RowOK
    <3> QED
      BY <1>1, <1>3, <1>8, <2>1, <2>2, <2>3, <3>2 DEF WaitingOK
  <2> QED
    BY <2>4, <2>5
<1>9. CASE ServeSubmit(q) /\ UNCHANGED due
  <2>1. row' = row /\ q.op = "submit"
    BY <1>9 DEF ServeSubmit
  <2>2. CASE row.phase \in {"playing", "scoring"} /\ <<"mine", q.round>> \notin routes
    <3>1. PICK a \in {Served(q), Answered(q)} :
            Settle(q, {a}) /\ routes' = routes \cup {<<"mine", q.round>>}
      BY <1>9, <2>2 DEF ServeSubmit
    <3>2. a.op = q.op /\ a.round = q.round
      BY <1>1, AnsweredShape
    <3>3. DueOK'
      BY <1>9, <2>1, <3>1, SettleShape DEF DueOK
    <3> QED
      BY <1>3, <2>1, <2>2, <3>1, <3>2, <3>3
  <2>3. CASE ~(row.phase \in {"playing", "scoring"} /\ <<"mine", q.round>> \notin routes)
    <3>1. Settle(q, Refused(q)) /\ UNCHANGED <<row, routes, handlers>>
      BY <1>9, <2>3 DEF ServeSubmit
    <3>2. due # 0 /\ row.phase # "finished" => row.phase \in {"playing", "scoring"}
      BY DEF RestOK, Row, Phases, WaitingOK
    <3>3. DueOK'
      BY <1>9, <2>3, <3>1, <3>2, SettleShape DEF DueOK
    <3> QED
      BY <1>6, <1>9, <3>1, <3>3
  <2> QED
    BY <2>2, <2>3
<1>10. CASE ServeAdvance(q) /\ UNCHANGED due
  <2>1. q.op \in {"start", "advance"} /\ routes' = routes
    BY <1>10 DEF ServeAdvance
  <2>2. CASE MayAdvance
    <3> DEFINE a == [(IF Solo THEN Answered(q) ELSE Served(q)) EXCEPT !.row = NextRow]
    <3>1. Settle(q, {a}) /\ row' = NextRow
      BY <1>10, <2>2 DEF ServeAdvance
    <3>2. a.op = q.op /\ a.round = q.round
      BY <1>1, AnsweredShape DEF Request
    <3> HIDE DEF a
    <3>3. row'.phase # "waiting"
      BY <3>1, NextRowShape
    <3>4. DueOK'
      BY <1>1, <1>10, <2>1, <3>1, SettleShape DEF DueOK
    <3> QED
      BY <1>3, <3>1, <3>2, <3>3, <3>4
  <2>3. CASE ~MayAdvance
    <3>1. Settle(q, Refused(q)) /\ UNCHANGED <<row, handlers>>
      BY <1>10, <2>3 DEF ServeAdvance
    <3>2. DueOK'
      BY <1>4, <1>10, <2>1, <3>1
    <3> QED
      BY <1>6, <1>10, <3>1, <3>2
  <2> QED
    BY <2>2, <2>3
<1>11. CASE ServeEnd(q) /\ UNCHANGED due
  <2>1. q.op = "end" /\ routes' = routes
    BY <1>11 DEF ServeEnd
  <2>2. CASE row.phase = "playing"
    <3>1. Settle(q, {Served(q)}) /\ row' = Ended
      BY <1>11, <2>2 DEF ServeEnd
    <3>2. row'.phase = "scoring"
      BY <3>1, EndedShape
    <3>3. DueOK'
      BY <1>11, <2>1, <2>2, <3>1, SettleShape DEF DueOK
    <3> QED
      BY <1>1, <1>3, <3>1, <3>2, <3>3, AnsweredShape
  <2>3. CASE row.phase # "playing"
    <3>1. Settle(q, {}) /\ UNCHANGED <<row, handlers>>
      BY <1>11, <2>3 DEF ServeEnd
    <3>2. DueOK'
      BY <1>4, <1>11, <2>1, <3>1
    <3> QED
      BY <1>1, <1>3, <1>11, <3>1, <3>2 DEF WaitingOK
  <2> QED
    BY <2>2, <2>3
<1> QED
  BY <1>7, <1>8, <1>9, <1>10, <1>11 DEF Serve

\* A handler that broadcasts and answers owes nothing; nor does the server as it stops.
LEMMA HandlerKept ==
  ASSUME TabInv, (\E h \in handlers : HandlerStep(h)) \/ ServerStops
  PROVE  Kept'
<1> USE DEF TabInv
<1>1. handlers # {} /\ UNCHANGED <<row, routes, adrift, store, due>> /\ net \subseteq Request
  BY DEF HandlerStep, ServerStops, screen, RestOK
<1>2. row'.phase # "waiting"
  BY <1>1 DEF WaitingOK
<1>3. ASSUME NEW h \in handlers, HandlerStep(h)
      PROVE  /\ \A p \in net : p.at = "sent" => p \in net'
             /\ \A p \in net' : p \in net \/ \E q \in net : p.op = q.op /\ p.round = q.round
  <2>1. \A q \in net : Answered(q).op = q.op /\ Answered(q).round = q.round
    BY <1>1, AnsweredShape
  <2>2. CASE net' = net
    BY <2>2
  <2>3. ASSUME NEW q \in net, q.at = "served", Forget(q) \/ Replace(q, Answered(q))
        PROVE  /\ \A p \in net : p.at = "sent" => p \in net'
               /\ \A p \in net' : p \in net \/ \E o \in net : p.op = o.op /\ p.round = o.round
    BY <2>1, <2>3 DEF Forget, Replace
  <2> QED
    BY <1>3, <2>2, <2>3 DEF HandlerStep, BroadcastToSession, ReloadSession, GivesUp,
                            WritesAnswer, WaitsFor
<1>4. ASSUME ServerStops
      PROVE  /\ \A p \in net : p.at = "sent" => p \in net'
             /\ \A p \in net' : p \in net \/ \E q \in net : p.op = q.op /\ p.round = q.round
  BY <1>1, <1>4, RefusedShape DEF ServerStops
<1>5. /\ \A p \in net : p.at = "sent" => p \in net'
      /\ \A p \in net' : p \in net \/ \E q \in net : p.op = q.op /\ p.round = q.round
  BY <1>3, <1>4
<1> QED
  BY <1>1, <1>2, <1>5 DEF Kept, SubmitsOK, WaitingOK, DueOK

\* A drawing becomes due as its submission is sent.
LEMMA GameMessageKeeps ==
  ASSUME TabInv, GameMessage
  PROVE  Kept'
<1> USE DEF TabInv
<1>1. UNCHANGED <<row, routes, handlers, adrift>> /\ row.phase # "waiting"
  BY DEF GameMessage, server, WaitingOK
<1>2. store.round \in 0 .. NumRounds
  BY DEF ScreenOK, Stores
<1>3. CASE net' = net /\ due' = due
  BY <1>1, <1>3 DEF Kept, SubmitsOK, WaitingOK, DueOK
<1>4. CASE due' = due /\ net' = net \cup {Ask("results", NoRow, store.round)}
  <2>1. Ask("results", NoRow, store.round).op = "results"
    BY <1>2, AskShape, NoRowShape DEF Ops
  <2> QED
    BY <1>1, <1>4, <2>1 DEF Kept, SubmitsOK, WaitingOK, DueOK
<1>5. CASE due' = store.round /\ store.round # 0
           /\ net' = net \cup {Ask("submit", NoRow, store.round)}
  <2>1. /\ Ask("submit", NoRow, store.round).op = "submit"
        /\ Ask("submit", NoRow, store.round).at = "sent"
        /\ Ask("submit", NoRow, store.round).round = store.round
    BY <1>2, AskShape, NoRowShape DEF Ops
  <2> QED
    BY <1>1, <1>5, <2>1 DEF Kept, SubmitsOK, WaitingOK, DueOK
<1> QED
  BY <1>3, <1>4, <1>5 DEF GameMessage, GameState, RoundStart, ScoresCome, RoundEnd,
                          AutoSubmit, CanPost, Post

\* What an answer that arrives can change: it is gone, and may be followed by a
\* request that submits nothing; a round comes to the screen only from its row.
LEMMA AnswerMoves ==
  ASSUME TabInv, NEW q \in net, Answer(q)
  PROVE  /\ UNCHANGED <<row, routes, handlers, adrift, due>> /\ chan' \in {chan, <<>>}
         /\ \A p \in net : p # q => p \in net'
         /\ \A p \in net' : p \in net \/ (p.op # "submit" /\ p.row.round \in {0, q.row.round})
         /\ store'.round \in {store.round, q.row.round}
<1> USE DEF TabInv
<1>1. /\ q \in Request /\ q.row \in Row /\ q.row.round \in 0 .. NumRounds
      /\ q.row.phase \in Phases
      /\ q.round \in 0 .. NumRounds /\ q.teams \in SUBSET Teams
  BY DEF RestOK, Request, Row
<1>2. UNCHANGED <<row, routes, handlers, adrift>>
  BY DEF Answer, server
<1>3. store \in Stores /\ ui \in Uis
  BY DEF ScreenOK
<1>4. ASSUME Forget(q)
      PROVE  (\A p \in net : p # q => p \in net') /\ \A p \in net' : p \in net
  BY <1>4 DEF Forget
<1>5. ASSUME NEW op \in {"round", "restore", "next"}, Replace(q, Then(q, op))
      PROVE  /\ \A p \in net : p # q => p \in net'
             /\ \A p \in net' : p \in net \/ (p.op # "submit" /\ p.row.round = q.row.round)
  <2>1. op \in Ops /\ op # "submit"
    BY DEF Ops
  <2>2. Ask(op, q.row, q.row.round) \in Request /\ Ask(op, q.row, q.row.round).op = op
        /\ Ask(op, q.row, q.row.round).row = q.row
    BY <1>1, <2>1, AskShape
  <2>3. Then(q, op).op = op /\ Then(q, op).row = q.row
    BY <1>1, <2>2 DEF Then, Request
  <2> QED
    BY <1>5, <2>1, <2>3 DEF Replace
<1>6. ASSUME NEW s, NEW u, NEW drawn, Render(s, u, drawn) PROVE store' \in {store, s}
  BY <1>6 DEF Render
<1>7. ASSUME NextRound(q) PROVE store'.round \in {store.round, q.row.round}
  <2> DEFINE s == [store EXCEPT !.round = q.row.round, !.phase = "playing",
                                !.results = NoResults]
  <2>1. s.round = q.row.round
    BY <1>3 DEF Stores
  <2> QED
    BY <1>6, <1>7, <2>1 DEF NextRound
<1>8. CASE ApplyLoad(q)
  <2>1. store'.round = store.round
    BY <1>3, <1>8 DEF ApplyLoad, Stores
  <2> QED
    BY <1>2, <1>4, <1>5, <1>8, <2>1 DEF ApplyLoad, history
<1>9. CASE ApplyRound(q)
  <2> DEFINE s == [store EXCEPT !.round = q.row.round, !.phase = q.row.phase]
  <2>1. s.round = q.row.round
    BY <1>3 DEF Stores
  <2>2. store' \in {store, s}
    BY <1>6, <1>9 DEF ApplyRound
  <2> QED
    BY <1>2, <1>4, <1>5, <1>9, <2>1, <2>2 DEF ApplyRound
<1>10. CASE ApplyResults(q)
  <2> DEFINE s == [store EXCEPT !.results = [round |-> q.round, teams |-> q.teams]]
  <2>1. s.round = store.round
    BY <1>3 DEF Stores
  <2>2. store' \in {store, s}
    BY <1>6, <1>10 DEF ApplyResults
  <2> QED
    BY <1>2, <1>4, <1>10, <2>1, <2>2 DEF ApplyResults, history
<1>11. CASE ApplyReveal(q)
  <2> DEFINE s == [store EXCEPT !.results = [round |-> q.round, teams |-> q.teams],
                                !.scores = q.teams]
  <2>1. s.round = store.round
    BY <1>3 DEF Stores
  <2>2. store' \in {store, s}
    BY <1>6, <1>11 DEF ApplyReveal
  <2> QED
    BY <1>2, <1>4, <1>11, <2>1, <2>2 DEF ApplyReveal, history
<1>12. CASE ApplySubmit(q)
  <2> DEFINE a == [Ask("reveal", NoRow, q.round) EXCEPT !.live = q.live]
  <2>1. /\ Ask("reveal", NoRow, q.round) \in Request /\ Ask("reveal", NoRow, q.round).op = "reveal"
        /\ Ask("reveal", NoRow, q.round).row = NoRow
    BY <1>1, AskShape, NoRowShape DEF Ops
  <2>2. a.op = "reveal" /\ a.row.round = 0
    BY <2>1, NoRowShape DEF Request
  <2>3. Forget(q) \/ Replace(q, a)
    BY <1>12 DEF ApplySubmit
  <2> HIDE DEF a
  <2>4. /\ \A p \in net : p # q => p \in net'
        /\ \A p \in net' : p \in net \/ p = a
    BY <2>3 DEF Forget, Replace
  <2> QED
    BY <1>2, <1>12, <2>2, <2>4 DEF ApplySubmit, history
<1>13. CASE ApplyAdvance(q)
  <2>1. CASE GameIsOver(q)
    <3> DEFINE s == [store EXCEPT !.phase = "finished"]
    <3>1. s.round = store.round
      BY <1>3 DEF Stores
    <3>2. store' \in {store, s}
      BY <1>6, <2>1 DEF GameIsOver
    <3> QED
      BY <1>2, <1>4, <1>13, <2>1, <3>1, <3>2 DEF ApplyAdvance, GameIsOver, history
  <2>2. CASE NextRound(q)
    <3>1. Forget(q)
      BY <2>2 DEF NextRound
    <3> QED
      BY <1>2, <1>4, <1>7, <1>13, <2>2, <3>1 DEF ApplyAdvance, history
  <2>3. CASE Replace(q, Then(q, "next")) /\ UNCHANGED screen
    BY <1>2, <1>5, <1>13, <2>3 DEF ApplyAdvance, screen, history
  <2> QED
    BY <1>13, <2>1, <2>2, <2>3 DEF ApplyAdvance
<1>14. CASE ApplyNext(q)
  <2>1. Forget(q)
    BY <1>14 DEF ApplyNext, NextRound
  <2> QED
    BY <1>2, <1>4, <1>7, <1>14, <2>1 DEF ApplyNext, history
<1>15. CASE ApplyFailure(q)
  BY <1>2, <1>4, <1>15 DEF ApplyFailure, history
<1>16. CASE Unheeded(q) /\ Nothing(q)
  BY <1>2, <1>4, <1>16 DEF Nothing, screen, history
<1> QED
  BY <1>8, <1>9, <1>10, <1>11, <1>12, <1>13, <1>14, <1>15, <1>16 DEF Answer

\* An answer that arrives owes nothing and settles nothing: its request was served.
LEMMA AnswerKeeps ==
  ASSUME TabInv, NEW q \in net, Answer(q)
  PROVE  Kept'
<1> USE DEF TabInv
<1>1. /\ UNCHANGED <<row, routes, handlers, adrift, due>> /\ chan' \in {chan, <<>>}
      /\ \A p \in net : p # q => p \in net'
      /\ \A p \in net' : p \in net \/ (p.op # "submit" /\ p.row.round \in {0, q.row.round})
      /\ store'.round \in {store.round, q.row.round}
  BY AnswerMoves
<1>2. q.at = "back"
  BY DEF Answer
<1>3. SubmitsOK'
  BY <1>1 DEF SubmitsOK
<1>4. WaitingOK'
  BY <1>1 DEF WaitingOK
<1>5. DueOK'
  BY <1>1, <1>2 DEF DueOK
<1> QED
  BY <1>3, <1>4, <1>5 DEF Kept

\* An answer elsewhere opens the game, or changes nothing.
LEMMA ElsewhereKeeps ==
  ASSUME TabInv, NEW q \in net, AnswerElsewhere(q)
  PROVE  Kept'
<1> USE DEF TabInv
<1>1. UNCHANGED <<row, routes, handlers, adrift>> /\ q.at = "back" /\ net \subseteq Request
  BY DEF AnswerElsewhere, server, RestOK
<1>2. CASE ApplyStart(q)
  <2> DEFINE others == Left(net \ {q})
  <2>1. /\ others \subseteq Request
        /\ \A p \in others : \E o \in net : p.op = o.op /\ p.round = o.round /\ p.row = o.row
    <3>1. net \ {q} \subseteq Request
      BY <1>1
    <3> QED
      BY <3>1, LeftShape
  <2> HIDE DEF others
  <2>2. /\ \A p \in others : p.op = "submit" => p.round # 0
        /\ row.phase = "waiting" => \A p \in others : p.row.round = 0
    BY <2>1 DEF SubmitsOK, WaitingOK
  <2>3. Enter(others)
    BY <1>2 DEF ApplyStart, others
  <2> QED
    BY <1>1, <2>1, <2>2, <2>3, EnterKeeps DEF SubmitsOK
<1>3. CASE Nothing(q)
  BY <1>1, <1>3 DEF Nothing, Forget, screen, history, Kept, SubmitsOK, WaitingOK, DueOK
<1> QED
  BY <1>2, <1>3 DEF AnswerElsewhere

\* The user submits only for a round on the screen, and leaves the rest alone.
LEMMA UserKeeps ==
  ASSUME TabInv,
         \/ MapLoads \/ Draw \/ HandleSubmit \/ HandleScoreContinue \/ HandleEndRound \/ GoHome
         \/ HandleStart \/ \E t \in Teams : HandleClearRoute(t)
  PROVE  Kept'
<1> USE DEF TabInv, Kept, SubmitsOK, WaitingOK, DueOK, Chooses, server, history
<1>1. store.round \in 0 .. NumRounds
  BY DEF ScreenOK, Stores
<1>2. \A op \in Ops : /\ Ask(op, NoRow, 0).op = op /\ Ask(op, NoRow, 0).row.round = 0
                      /\ Ask(op, NoRow, store.round) \in Request
                      /\ Ask(op, NoRow, store.round).op = op
                      /\ Ask(op, NoRow, store.round).round = store.round
                      /\ Ask(op, NoRow, store.round).row.round = 0
  BY <1>1, AskShape, NoRowShape
<1>3. CASE MapLoads \/ Draw
  BY <1>3 DEF MapLoads, Draw
<1>4. CASE HandleSubmit
  BY <1>2, <1>4 DEF HandleSubmit, CanPost, Post, Ops
<1>5. CASE HandleScoreContinue \/ HandleEndRound \/ HandleStart
  <2>1. PICK op \in {"advance", "end", "start"} : net' = net \cup {Ask(op, NoRow, 0)}
    BY <1>5 DEF HandleScoreContinue, HandleEndRound, HandleStart
  <2>2. UNCHANGED <<row, routes, handlers, adrift, chan, store, due>>
    BY <1>5 DEF HandleScoreContinue, HandleEndRound, HandleStart, screen
  <2>3. Ask(op, NoRow, 0).op # "submit" /\ Ask(op, NoRow, 0).row.round = 0
    BY <1>2 DEF Ops
  <2> QED
    BY <2>1, <2>2, <2>3
<1>6. CASE GoHome
  <2>1. net' = Left(net) /\ UNCHANGED <<row, routes, handlers, adrift, store, due>> /\ chan' = <<>>
    BY <1>6 DEF GoHome
  <2>2. net \subseteq Request
    BY DEF RestOK
  <2>3. /\ \A p \in net' : \E o \in net : p.op = o.op /\ p.round = o.round /\ p.row = o.row
        /\ \A o \in net : \E p \in net' : p.op = o.op /\ p.at = o.at /\ p.round = o.round
    BY <2>1, <2>2, LeftShape
  <2> QED
    BY <2>1, <2>3
<1>7. ASSUME NEW t \in Teams, HandleClearRoute(t) PROVE Kept'
  <2> DEFINE a == [Ask("clear", NoRow, store.round) EXCEPT !.teams = {t}]
  <2>1. a.op = "clear" /\ a.row.round = 0
    BY <1>2 DEF Ops, Request
  <2>2. net' = net \cup {a} /\ UNCHANGED <<row, routes, handlers, adrift, chan, store, due>>
    BY <1>7 DEF HandleClearRoute, screen
  <2> HIDE DEF a
  <2> QED
    BY <2>1, <2>2
<1> QED
  BY <1>3, <1>4, <1>5, <1>6, <1>7

\* Connections come and go, and the session moves on.
LEMMA AroundKeeps ==
  ASSUME TabInv, [Next]_vars,
         \/ LobbyMessage \/ Exit \/ Reload \/ SocketOpens \/ SocketCloses \/ Reconnect
         \/ GuideAdvances \/ RoundEnds \/ \E t \in Teams : OthersSubmit(t)
         \/ \E q \in net : Fail(q)
  PROVE  Kept'
<1> USE DEF TabInv, server, history
<1>1. /\ net \subseteq Request /\ Left(net) \subseteq Request
      /\ \A p \in Left(net) : \E o \in net : p.op = o.op /\ p.round = o.round /\ p.row = o.row
  BY LeftShape DEF RestOK
<1>2. /\ \A p \in Left(net) : p.op = "submit" => p.round # 0
      /\ row.phase = "waiting" => \A p \in Left(net) : p.row.round = 0
  BY <1>1 DEF SubmitsOK, WaitingOK
<1>3. CASE LobbyMessage
  <2>1. CASE Enter(Left(net))
    BY <1>1, <1>2, <1>3, <2>1, EnterKeeps DEF LobbyMessage, SubmitsOK
  <2>2. CASE chan' = Tail(chan) /\ UNCHANGED <<net, screen, history>>
    <3>1. row.phase # "waiting"
      BY <1>3 DEF LobbyMessage, WaitingOK
    <3> QED
      BY <1>3, <2>2, <3>1 DEF LobbyMessage, screen, Kept, SubmitsOK, WaitingOK, DueOK
  <2> QED
    BY <1>3, <2>1, <2>2 DEF LobbyMessage
<1>4. CASE Exit
  BY <1>2, <1>4, EmptyShape DEF Exit, Kept, SubmitsOK, WaitingOK, DueOK
<1>5. CASE Reload
  <2>1. PICK posted \in SUBSET Unserved : Lose(posted)
    BY <1>5 DEF Reload
  <2>2. \A q \in adrift' : q.op = "submit" => q.round # 0
    <3>1. posted \subseteq Request /\ posted \subseteq net
      BY <1>1 DEF Unserved
    <3> QED
      BY <2>1, <3>1, LoseShape DEF SubmitsOK, RestOK
  <2> QED
    BY <1>5, <2>2, EnterKeeps DEF Reload
<1>6. CASE SocketOpens \/ SocketCloses \/ Reconnect
  BY <1>6 DEF SocketOpens, SocketCloses, Reconnect, Kept, SubmitsOK, WaitingOK, DueOK
<1>7. CASE GuideAdvances \/ RoundEnds
  <2>1. UNCHANGED <<routes, net, adrift, due>> /\ row'.phase # "waiting"
    BY <1>7, NextRowShape, EndedShape DEF GuideAdvances, RoundEnds
  <2>2. row'.phase # "finished" => row.phase # "finished"
    BY RowStep
  <2> QED
    BY <2>1, <2>2 DEF Kept, SubmitsOK, WaitingOK, DueOK
<1>8. ASSUME NEW t \in Teams, OthersSubmit(t) PROVE Kept'
  BY <1>8 DEF OthersSubmit, Kept, SubmitsOK, WaitingOK, DueOK
<1>9. ASSUME NEW q \in net, Fail(q) PROVE Kept'
  <2>1. \A a \in Refused(q) : a.op = q.op /\ a.round = q.round /\ a.row = q.row
    BY <1>1, RefusedShape
  <2>2. net' = (net \ {q}) \cup Refused(q) /\ UNCHANGED <<row, routes, handlers, chan, store>>
    BY <1>9 DEF Fail, screen
  <2>3. \A p \in adrift' : p.op = "submit" => p.round # 0
    <3>1. \A requests : requests \in {{}, {q}} => requests \subseteq Request
      BY <1>1
    <3>2. \E requests \in {{}, {q}} : Lose(requests)
      BY <1>9 DEF Fail
    <3> QED
      BY <3>1, <3>2, LoseShape DEF SubmitsOK, RestOK
  <2>4. SubmitsOK'
    BY <2>1, <2>2, <2>3 DEF SubmitsOK
  <2>5. WaitingOK'
    BY <1>9, <2>1, <2>2 DEF Fail, WaitingOK
  <2>6. DueOK'
    BY <1>9, <2>2 DEF Fail, DueOK
  <2> QED
    BY <2>4, <2>5, <2>6 DEF Kept
<1> QED
  BY <1>3, <1>4, <1>5, <1>6, <1>7, <1>8, <1>9

\* The invariant is inductive.
LEMMA TabStep == TabInv /\ [Next]_vars => TabInv'
<1> SUFFICES ASSUME TabInv, [Next]_vars PROVE TabInv'
  OBVIOUS
<1>1. Shape'
  BY ShapeStep DEF TabInv, Shape
<1>2. RowOK' /\ HandlersOK'
  BY RowStep, HandlersStep DEF TabInv
<1>3. Kept'
  <2>1. CASE UNCHANGED vars
    BY <2>1 DEF vars, TabInv, Kept, SubmitsOK, WaitingOK, DueOK
  <2>2. CASE Next
    BY <2>2, ServeKeeps, HandlerKept, GameMessageKeeps, AnswerKeeps, ElsewhereKeeps, UserKeeps, AroundKeeps
       DEF Next
  <2> QED
    BY <2>1, <2>2
<1> QED
  BY <1>1, <1>2, <1>3 DEF TabInv, Shape, Kept

\* It holds at first.
LEMMA TabInit == Init => TabInv
<1> SUFFICES ASSUME Init PROVE TabInv
  OBVIOUS
<1>1. RowOK /\ HandlersOK
  BY BoundAssumption DEF Init, RowOK, HandlersOK
<1> QED
  BY <1>1, ShapeInit, KeptInit DEF TabInv, Shape, Kept

\* The inductive invariant of the tab: every step of the browser, the user and the
\* server keeps it.
THEOREM TabInvariant == Spec => []TabInv
BY TabInit, TabStep, PTL DEF Spec

\* The tab's state is well formed.
THEOREM TabTypeOK == Spec => []TypeOK
<1>1. TabInv => TypeOK
  BY DEF TabInv, ScreenOK, RestOK, Stores, Uis, Maps, TypeOK
<1> QED
  BY <1>1, TabInvariant, PTL

\* What a player has drawn when the round ends is stored as the team's route, for any
\* number of rounds, teams, requests in flight, lost connections and reloads.
THEOREM TabDrawingCounts == Spec => []DrawingCounts
<1>1. TabInv => DrawingCounts
  BY DEF TabInv, DueOK, DrawingCounts
<1> QED
  BY <1>1, TabInvariant, PTL

=============================================================================
