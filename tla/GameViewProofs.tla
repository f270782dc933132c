---------------------------- MODULE GameViewProofs ---------------------------
(***************************************************************************)
(* What the tab shows, for any map, any teams, any number of requests,     *)
(* broadcasts and breaks: the session as it is, unless one of the named    *)
(* ways made the view stale; and in solo play never a blank page.          *)
(***************************************************************************)
EXTENDS GameClientProofs

\* The requests a view opens with, the ones that move a solo game on, and the ones
\* that store a drawing and reveal it.
Opening == {"load", "round"}
Moving == {"advance", "next"}
Posting == {"submit", "reveal"}

-----------------------------------------------------------------------------
(* A solo game: the tab alone changes the session, one step at a time      *)

\* A solo session is played or finished; its tab asks only for what moves it, and hears
\* no broadcast.
SoloPlays ==
  /\ page # "blank" /\ chan = <<>> /\ handlers = {}
  /\ row.phase \in {"playing", "finished"}
  /\ \A q \in net : /\ q.op \in Opening \cup Moving \cup Posting
                     /\ q.row.phase # "scoring" /\ q.at \in {"sent", "back"}
  /\ \A q \in adrift : q.op \in Moving \cup Posting
  /\ store.loaded => ws = "none"
  /\ \A q \in net : q.op \in Moving => ws = "none"

\* Before the first round only the load is under way, and it is by itself; the game moves
\* on when it was loaded; and a drawing is posted once, before its review.
SoloInTurn ==
  page = "game" =>
    /\ \A q \in net : q.live
    /\ map.kind = MapKind(store, ui)
    /\ store.phase = "none" => /\ store.round = 0 /\ store.scores = {}
                               /\ \A q \in net : q.op \in Opening
    /\ store.phase # "none" => \A q \in net : q.op \notin Opening
    /\ \A q \in net : q.op \in Moving => store.loaded
    /\ \A q \in net : q.op \in Posting => ui.submitting /\ map.kind # "review"
    /\ \A p, q \in net : (p.op \in Opening /\ q.op \in Opening) => p = q
    /\ \A p, q \in net : (p.op \in Posting /\ q.op \in Posting) => p = q

\* The screen is at the session's round, or the one request that moves both has moved
\* the session and its answer carries the round to the screen.
SoloShows ==
  (page = "game" /\ ~stale) =>
    /\ \A q \in net : (q.op \in Opening /\ q.at = "back") => q.row = row
    /\ (store.phase # "none" /\ \A q \in net : q.op \notin Moving) =>
         store.phase = row.phase /\ store.round = row.round
    /\ \A q \in net : (q.op \in Moving /\ q.at = "sent") =>
         store.phase = row.phase /\ store.round = row.round
    /\ \A q \in net : (q.op \in Moving /\ q.at = "back") =>
         /\ q.row = row
         /\ row.phase = "finished" => q.op = "advance" /\ store.round = row.round
    /\ \A p, q \in net : (p.op \in Moving /\ q.op \in Moving) => p = q

SoloInv == SoloPlays /\ SoloInTurn /\ SoloShows

-----------------------------------------------------------------------------
(* A multiplayer game: the broadcasts on their way make up the difference  *)

\* The messages of a type in a channel, by their place.
At(c, type) == {i \in DOMAIN c : c[i].type = type}

\* The last broadcast on its way tells of a phase, and a round that starts is followed by
\* one; the last round_start tells of a round.
TellsPhase(c, phase) ==
  /\ \A i \in At(c, "round_start") : \E j \in At(c, "game_state") : i < j
  /\ \A i \in At(c, "game_state") :
       c[i].phase = phase \/ \E j \in At(c, "game_state") : i < j
TellsRound(c, round) ==
  \A i \in At(c, "round_start") :
    c[i].round = round \/ \E j \in At(c, "round_start") : i < j

\* A handler has yet to broadcast the phase, or the round, that the session has.
StateComing == \E h \in handlers :
  h.row = row /\ h.at \in {"reload", "round_end", "round_start", "game_state"}
StartComing == \E h \in handlers : h.at = "round_start" /\ h.row.round = row.round

\* No handler is ahead of the session, and the broadcasts made are as far as it has come,
\* unless the one of its last change is coming.
ToldOK ==
  /\ told <= Turn(row)
  /\ \A h \in handlers : Turn(h.row) <= Turn(row)
  /\ StateComing \/ told = Turn(row)
  /\ StartComing \/ row.round = 0 \/ told >= 2 * row.round - 1

\* Nothing is on its way to a closed socket; what is on its way to an open one tells of the
\* session as it is, or a handler is about to.
TellsRow ==
  ws # "none" =>
    /\ ws # "open" => chan = <<>>
    /\ ~stale => /\ StateComing \/ TellsPhase(chan, row.phase)
                 /\ StartComing \/ TellsRound(chan, row.round)

\* A game that is open has a socket, and only broadcasts move it on.
Hears ==
  /\ page = "game" => ws # "none"
  /\ \A q \in net : q.op # "next" /\ (q.op = "advance" => q.at # "back")

\* When no broadcast on its way, or about to be made, will change the phase, the screen and
\* a load that is answered have the session's; so it is with the round.
PhaseSettled == At(chan, "game_state") = {} /\ ~StateComing
RoundSettled == At(chan, "round_start") = {} /\ ~StartComing
TabShows ==
  (page = "game" /\ ~stale) =>
    /\ PhaseSettled =>
         /\ store.phase \in {"none", row.phase}
         /\ \A q \in net :
              (q.op \in Opening /\ q.live /\ q.at = "back") => q.row.phase = row.phase
    /\ RoundSettled =>
         /\ store.round \in {0, row.round}
         /\ \A q \in net :
              (q.op \in Opening /\ q.live /\ q.at = "back") => q.row.round = row.round

ManyInv == ToldOK /\ TellsRow /\ Hears /\ TabShows

\* The inductive invariant of what the tab shows.
ViewInv == TabInv /\ (Solo => SoloInv) /\ (~Solo => ManyInv)

-----------------------------------------------------------------------------
(* What the operators return                                               *)

\* A request that is asked belongs to the view that asks.
LEMMA AskLive ==
  ASSUME NEW op \in Ops, NEW seen \in Row, NEW round \in 0 .. NumRounds
  PROVE  /\ Ask(op, seen, round) \in Request
         /\ Ask(op, seen, round).op = op /\ Ask(op, seen, round).row = seen
         /\ Ask(op, seen, round).live
         /\ op \in {"round", "next"} => Ask(op, seen, round).at = "back"
         /\ op \notin {"round", "next"} => Ask(op, seen, round).at = "sent"
BY DEF Ask, Request

\* Of an answered request only the answer is new.
LEMMA AnswerFields ==
  ASSUME NEW q \in Request, NEW r, NEW t
  PROVE  /\ Answered(q).op = q.op /\ Answered(q).at = "back"
         /\ Answered(q).live = q.live /\ Answered(q).row = q.row
         /\ [Answered(q) EXCEPT !.row = r].op = q.op
         /\ [Answered(q) EXCEPT !.row = r].at = "back"
         /\ [Answered(q) EXCEPT !.row = r].live = q.live
         /\ [Answered(q) EXCEPT !.row = r].row = r
         /\ [Answered(q) EXCEPT !.row = r, !.teams = t].op = q.op
         /\ [Answered(q) EXCEPT !.row = r, !.teams = t].at = "back"
         /\ [Answered(q) EXCEPT !.row = r, !.teams = t].live = q.live
         /\ [Answered(q) EXCEPT !.row = r, !.teams = t].row = r
BY DEF Answered, Request

\* A request that failed is gone, or is a submission sent back.
LEMMA RefusedFields ==
  ASSUME NEW q \in Request
  PROVE  \E a : /\ a.op = q.op /\ a.at = "back" /\ a.live = q.live /\ a.row = q.row
               /\ \/ q.op \notin Posting /\ Refused(q) = {}
                  \/ q.op \in Posting /\ Refused(q) = {a}
<1> DEFINE a == [q EXCEPT !.at = "back", !.ok = FALSE]
<1>1. a.op = q.op /\ a.at = "back" /\ a.live = q.live /\ a.row = q.row
  BY DEF Request
<1>2. Refused(q) = IF q.op \in Posting THEN {a} ELSE {}
  BY DEF Refused, Posting
<1> HIDE DEF a
<1> QED
  BY <1>1, <1>2

\* What follows an answer belongs to the view that asked, and carries its row.
LEMMA ThenFields ==
  ASSUME NEW q \in Request, NEW op \in {"round", "restore", "next"}
  PROVE  /\ Then(q, op).op = op /\ Then(q, op).row = q.row /\ Then(q, op).live = q.live
         /\ op \in {"round", "next"} => Then(q, op).at = "back"
<1>1. q.row \in Row /\ q.row.round \in 0 .. NumRounds /\ op \in Ops
  BY DEF Request, Row, Ops
<1>2. /\ Ask(op, q.row, q.row.round) \in Request
      /\ Ask(op, q.row, q.row.round).op = op /\ Ask(op, q.row, q.row.round).row = q.row
      /\ op \in {"round", "next"} => Ask(op, q.row, q.row.round).at = "back"
  BY <1>1, AskLive
<1> HIDE DEF Ask
<1> QED
  BY <1>2 DEF Then, Request

\* A request of a view that was left is the same, but nobody's.
LEMMA LeftFields ==
  ASSUME NEW requests, requests \subseteq Request
  PROVE  \A p \in Left(requests) :
           ~p.live /\ \E o \in requests : p.op = o.op /\ p.at = o.at /\ p.row = o.row
<1>1. ASSUME NEW o \in requests
      PROVE  /\ ~[o EXCEPT !.live = FALSE].live
             /\ [o EXCEPT !.live = FALSE].op = o.op /\ [o EXCEPT !.live = FALSE].at = o.at
             /\ [o EXCEPT !.live = FALSE].row = o.row
  BY DEF Request
<1> QED
  BY <1>1 DEF Left

\* A render takes what it is given, with the map that goes with it, or the page goes;
\* it throws only as one review is drawn into another.
LEMMA RenderTakes ==
  ASSUME ScreenOK, NEW s, NEW u, NEW drawn, Render(s, u, drawn)
  PROVE  /\ \/ /\ page' = "blank" /\ ws' = "none" /\ UNCHANGED <<store, ui>>
            \/ /\ store' = s /\ ui' = u /\ map'.kind = MapKind(s, u)
               /\ UNCHANGED <<page, ws>>
         /\ (map.kind # "review" \/ MapKind(s, u) # "review") =>
              /\ store' = s /\ ui' = u /\ map'.kind = MapKind(s, u)
              /\ UNCHANGED <<page, ws>>
<1>1. Redraw(s, u, drawn).kind = MapKind(s, u)
  <2>1. NewMap(MapKind(s, u)).kind = MapKind(s, u)
    BY DEF NewMap
  <2>2. map.kind = MapKind(s, u) => [map EXCEPT !.sources = @ \cup ReviewSources(s)].kind = MapKind(s, u)
    BY DEF ScreenOK, Maps
  <2> HIDE DEF NewMap, ReviewSources
  <2> QED
    BY <2>1, <2>2 DEF Redraw
<1>2. CASE Throws(s, u, drawn)
  BY <1>2 DEF Render, Throws
<1>3. CASE ~Throws(s, u, drawn)
  BY <1>1, <1>3 DEF Render
<1> QED
  BY <1>2, <1>3

-----------------------------------------------------------------------------
(* A solo game keeps its turns                                             *)

\* It begins in turn, and so it does after the page was reloaded.
LEMMA SoloOpens ==
  ASSUME NEW requests, requests = {}, Enter(requests), row' = row,
         row.phase \in {"playing", "finished"}, handlers' = {},
         \A q \in adrift' : q.op \in Moving \cup Posting
  PROVE  SoloInv'
<1>1. /\ Ask("load", NoRow, 0).op = "load" /\ Ask("load", NoRow, 0).row = NoRow
      /\ Ask("load", NoRow, 0).live /\ Ask("load", NoRow, 0).at = "sent"
  BY AskLive, NoRowShape DEF Ops
<1>2. net' = {Ask("load", NoRow, 0)} /\ NoRow.phase # "scoring"
  BY DEF Enter, NoRow
<1>3. /\ EmptyStore.phase = "none" /\ EmptyStore.round = 0 /\ EmptyStore.scores = {}
      /\ ~EmptyStore.loaded
  BY DEF EmptyStore
<1>4. NewMap("game").kind = MapKind(EmptyStore, FreshUi)
  BY <1>3 DEF MapKind, NewMap, FreshUi
<1>5. SoloPlays'
  BY <1>1, <1>2, <1>3 DEF Enter, SoloPlays, Opening, Moving
<1>6. SoloInTurn'
  BY <1>1, <1>2, <1>3, <1>4 DEF Enter, SoloInTurn, Opening, Moving, Posting
<1>7. SoloShows'
  BY <1>1, <1>2, <1>3 DEF Enter, SoloShows, Opening, Moving
<1> QED
  BY <1>5, <1>6, <1>7 DEF SoloInv

\* Connections come and go, and requests fail, without a turn being lost.
LEMMA SoloAround ==
  ASSUME TabInv, Solo, SoloInv,
         \/ LobbyMessage \/ Exit \/ Reload \/ SocketOpens \/ SocketCloses \/ Reconnect
         \/ GuideAdvances \/ RoundEnds \/ \E t \in Teams : OthersSubmit(t)
         \/ ServerStops \/ \E h \in handlers : HandlerStep(h)
         \/ \E q \in net : Fail(q)
  PROVE  SoloInv'
<1> USE DEF SoloInv
<1>1. net \subseteq Request /\ role \in {"solo", "demo"}
  BY DEF TabInv, RestOK, Solo
<1>2. /\ ~LobbyMessage /\ ~GuideAdvances /\ ~RoundEnds /\ ~\E t \in Teams : OthersSubmit(t)
      /\ ~ServerStops /\ ~\E h \in handlers : HandlerStep(h)
  BY <1>1 DEF LobbyMessage, GuideAdvances, RoundEnds, OthersSubmit, ServerStops, Solo, SoloPlays
<1>3. CASE Exit
  <2>1. /\ page' \in {"home", "lobby"} /\ chan' = <<>> /\ net' = Left(net)
        /\ UNCHANGED <<row, handlers, adrift>>
        /\ ~store'.loaded /\ page = "game"
        /\ ws' = "none" \/ ~store.loaded
    BY <1>1, <1>3 DEF Exit, server, EmptyStore, IsSolo, Solo
  <2>2. \A p \in net' : \E o \in net : p.op = o.op /\ p.row = o.row /\ p.at = o.at
    BY <1>1, <2>1, LeftFields
  <2>3. \A p \in net : p.op \in Moving => ws' = "none"
    BY <2>1 DEF SoloInTurn
  <2> QED
    BY <2>1, <2>2, <2>3 DEF SoloPlays, SoloInTurn, SoloShows
<1>4. CASE Reload
  <2>1. PICK posted \in SUBSET Unserved : Lose(posted)
    BY <1>4 DEF Reload
  <2>2. posted \subseteq Request /\ \A q \in posted : q.op \in Moving \cup Posting
    BY <1>1 DEF Unserved, Posts, SoloPlays, Opening, Moving, Posting
  <2>3. \A q \in adrift' : q.op \in Moving \cup Posting
    BY <2>1, <2>2, LoseShape DEF SoloPlays, TabInv, RestOK
  <2> QED
    BY <1>4, <2>3, SoloOpens DEF Reload, SoloPlays
<1>5. CASE SocketOpens \/ SocketCloses \/ Reconnect
  <2>1. /\ ws # "none" /\ chan' = <<>> /\ (~stale' => ~stale)
        /\ UNCHANGED <<net, page, store, ui, map, row, handlers, adrift>>
    <3>1. CASE SocketOpens \/ Reconnect
      BY <3>1 DEF SocketOpens, Reconnect, server, history, SoloPlays
    <3>2. CASE SocketCloses
      BY <3>2 DEF SocketCloses, server, history, SoloPlays
    <3> QED
      BY <1>5, <3>1, <3>2
  <2>2. SoloPlays'
    BY <2>1 DEF SoloPlays
  <2>3. SoloInTurn'
    BY <2>1 DEF SoloInTurn, MapKind
  <2>4. SoloShows'
    BY <2>1 DEF SoloShows
  <2> QED
    BY <2>2, <2>3, <2>4
<1>6. ASSUME NEW q \in net, Fail(q) PROVE SoloInv'
  <2>1. /\ UNCHANGED <<row, handlers, chan, page, ws, store, ui, map>>
        /\ net' = (net \ {q}) \cup Refused(q) /\ (stale \in BOOLEAN /\ ~stale' => ~stale)
        /\ (q.live /\ q.op \in {"load", "round", "next"}) => stale'
        /\ q.op = "advance" => stale'
    BY <1>6 DEF Fail, screen
  <2>2. PICK a : /\ a.op = q.op /\ a.at = "back" /\ a.live = q.live /\ a.row = q.row
                 /\ \/ q.op \notin Posting /\ Refused(q) = {}
                    \/ q.op \in Posting /\ Refused(q) = {a}
    BY <1>1, RefusedFields
  <2>3. \A p \in adrift' : p.op \in Moving \cup Posting
    <3>1. PICK lost \in {{}, {q}} : Lose(lost) /\ (lost = {q} => q \in Unserved)
      BY <1>6 DEF Fail
    <3>2. lost \subseteq Request /\ \A p \in lost : p.op \in Moving \cup Posting
      BY <1>1, <3>1 DEF Unserved, Posts, SoloPlays, Opening, Moving, Posting
    <3> QED
      BY <3>1, <3>2, LoseShape DEF SoloPlays, TabInv, RestOK
  <2>4. SoloPlays'
    BY <2>1, <2>2, <2>3 DEF SoloPlays, Opening, Moving, Posting
  <2>5. SoloInTurn'
    BY <2>1, <2>2 DEF SoloInTurn, Opening, Moving, Posting, MapKind
  <2>6. SoloShows'
    BY <2>1, <2>2 DEF SoloShows, SoloInTurn, Opening, Moving, Posting
  <2> QED
    BY <2>4, <2>5, <2>6
<1> QED
  BY <1>2, <1>3, <1>4, <1>5, <1>6

\* The user posts a drawing only while none is posted, and moves on only after the first
\* round was shown; a second press makes the view stale.
LEMMA SoloUser ==
  ASSUME TabInv, Solo, SoloInv,
         \/ MapLoads \/ Draw \/ HandleSubmit \/ HandleScoreContinue \/ HandleEndRound \/ GoHome
         \/ HandleStart \/ \E t \in Teams : HandleClearRoute(t)
  PROVE  SoloInv'
<1> USE DEF SoloInv
<1>1. /\ net \subseteq Request /\ role \in {"solo", "demo"}
      /\ store.round \in 0 .. NumRounds /\ ui \in Uis /\ map \in Maps
  BY DEF TabInv, RestOK, Solo, ScreenOK, Stores
<1>2. ~HandleEndRound /\ ~HandleStart /\ ~\E t \in Teams : HandleClearRoute(t)
  BY <1>1 DEF HandleStart, HandleEndRound, HandleClearRoute, MayEnd, MayClear, Controls,
              IsGuide, IsSolo, Solo
<1>3. CASE MapLoads \/ Draw
  <2>1. /\ UNCHANGED <<row, handlers, adrift, chan, net, page, ws, store, ui, stale>> /\ map'.kind = map.kind
    BY <1>1, <1>3 DEF MapLoads, Draw, Chooses, server, history, Maps
  <2> QED
    BY <2>1 DEF SoloPlays, SoloInTurn, SoloShows, MapKind
<1>4. CASE HandleSubmit
  <2> DEFINE a == Ask("submit", NoRow, store.round)
  <2>1. a.op = "submit" /\ a.at = "sent" /\ a.live /\ a.row = NoRow /\ NoRow.phase # "scoring"
    BY <1>1, AskLive, NoRowShape DEF Ops, NoRow
  <2> HIDE DEF a
  <2>2. /\ UNCHANGED <<row, handlers, adrift, chan, page, ws, store, map, stale>> /\ net' = net \cup {a}
        /\ store.phase = "playing" /\ map.kind = "game" /\ ~ui.submitting
    BY <1>4 DEF HandleSubmit, MaySubmit, Post, Chooses, server, history, a
  <2>3. ui'.submitting /\ ui'.showScores = ui.showScores
    BY <1>1, <1>4 DEF HandleSubmit, Uis
  <2>4. SoloPlays'
    BY <2>1, <2>2 DEF SoloPlays, Opening, Moving, Posting
  <2>5. MapKind(store, ui)' = MapKind(store, ui)
    BY <2>2, <2>3 DEF MapKind
  <2>6. SoloInTurn'
    BY <2>1, <2>2, <2>3, <2>5 DEF SoloInTurn, Opening, Moving, Posting
  <2>7. SoloShows'
    BY <2>1, <2>2 DEF SoloShows, Opening, Moving
  <2> QED
    BY <2>4, <2>6, <2>7
<1>5. CASE HandleScoreContinue
  <2> DEFINE a == Ask("advance", NoRow, 0)
  <2>1. a.op = "advance" /\ a.at = "sent" /\ a.live /\ a.row = NoRow /\ NoRow.phase # "scoring"
    BY <1>1, AskLive, NoRowShape DEF Ops, NoRow
  <2> HIDE DEF a
  <2>2. /\ UNCHANGED <<row, handlers, adrift, chan, page, ws, store, ui, map>> /\ net' = net \cup {a}
        /\ page = "game" /\ map.kind = "review" /\ store.loaded
    BY <1>5 DEF HandleScoreContinue, MayContinue, IsSolo, IsGuide, server, screen, a
  <2>3. store.phase # "none"
    BY <2>2 DEF SoloInTurn, MapKind
  <2>4. ~stale' => ~stale /\ \A q \in net : q.op \notin Moving
    BY <1>5, <2>2 DEF HandleScoreContinue, IsSolo, Advancing, SoloInTurn, Moving
  <2>5. SoloPlays'
    BY <2>1, <2>2 DEF SoloPlays, Opening, Moving, Posting
  <2>6. MapKind(store, ui)' = MapKind(store, ui)
    BY <2>2 DEF MapKind
  <2>7. SoloInTurn'
    BY <2>1, <2>2, <2>3, <2>6 DEF SoloInTurn, Opening, Moving, Posting
  <2>8. SoloShows'
    BY <2>1, <2>2, <2>3, <2>4 DEF SoloShows, Opening, Moving
  <2> QED
    BY <2>5, <2>7, <2>8
<1>6. CASE GoHome
  <2>1. /\ page' = "home" /\ ws' = "none" /\ chan' = <<>> /\ net' = Left(net)
        /\ UNCHANGED <<row, handlers, adrift, store>>
    BY <1>6 DEF GoHome, server
  <2>2. \A p \in net' : \E o \in net : p.op = o.op /\ p.row = o.row /\ p.at = o.at
    BY <1>1, <2>1, LeftFields
  <2> QED
    BY <2>1, <2>2 DEF SoloPlays, SoloInTurn, SoloShows
<1> QED
  BY <1>2, <1>3, <1>4, <1>5, <1>6

\* The server moves the session only for the request that moves the screen, and has
\* nothing to tell the tab meanwhile.
LEMMA SoloServe ==
  ASSUME TabInv, Solo, SoloInv, NEW q \in net, Serve(q)
  PROVE  SoloInv'
<1> USE DEF SoloInv
<1>1. /\ net \subseteq Request /\ q \in Request /\ role \in {"solo", "demo"} /\ row \in Row
      /\ q.at = "sent" /\ UNCHANGED <<page, ws, store, ui, map, chan>>
  BY DEF TabInv, RestOK, Solo, Serve, screen, SoloPlays
<1>2. MapKind(store, ui)' = MapKind(store, ui)
  BY <1>1 DEF MapKind
<1>3. ~ServeClear(q) /\ ~ServeEnd(q)
  BY DEF ServeClear, ServeEnd, SoloPlays, Opening, Moving, Posting
<1>4. ASSUME NEW answers, Settle(q, answers)
      PROVE  net' = (net \ {q}) \cup answers /\ adrift' = adrift
  BY <1>1, <1>4 DEF Settle
<1>5. ASSUME NEW a, UNCHANGED <<row, handlers, adrift>>, ~stale' => ~stale,
             a.op = q.op /\ a.live = q.live /\ a.at = "back",
             a.row.phase # "scoring",
             a.row = row \/ a.op \notin Opening,
             \/ net' = net \ {q}
             \/ q.op \notin Moving /\ net' = (net \ {q}) \cup {a}
      PROVE  SoloInv'
  <2>1. SoloPlays'
    BY <1>1, <1>5 DEF SoloPlays
  <2>2. SoloInTurn'
    BY <1>1, <1>2, <1>5 DEF SoloInTurn
  <2>3. SoloShows'
    BY <1>1, <1>5 DEF SoloShows, SoloInTurn
  <2> QED
    BY <2>1, <2>2, <2>3
<1>6. q.row.phase # "scoring" /\ row.phase # "scoring"
  BY DEF SoloPlays
<1>7. ASSUME Settle(q, Refused(q)), UNCHANGED <<row, handlers>>, ~stale' => ~stale,
             q.op \notin Opening
      PROVE  SoloInv'
  <2>1. PICK a : /\ a.op = q.op /\ a.at = "back" /\ a.live = q.live /\ a.row = q.row
                 /\ \/ q.op \notin Posting /\ Refused(q) = {}
                    \/ q.op \in Posting /\ Refused(q) = {a}
    BY <1>1, RefusedFields
  <2> QED
    BY <1>4, <1>5, <1>6, <1>7, <2>1 DEF Posting, Moving
<1>8. CASE ServeRead(q)
  <2> DEFINE a == [Answered(q) EXCEPT
                     !.row = IF q.op = "load" THEN row ELSE @,
                     !.teams = IF q.op = "load" THEN {} ELSE Scored(q.round, routes)]
  <2>1. /\ a.op = q.op /\ a.at = "back" /\ a.live = q.live
        /\ a.row = IF q.op = "load" THEN row ELSE q.row
    BY <1>1, AnswerFields
  <2>2. Settle(q, {a}) /\ UNCHANGED <<row, handlers, stale>>
        /\ q.op \in {"load", "restore", "results", "reveal"}
    BY <1>8 DEF ServeRead
  <2> HIDE DEF a
  <2> QED
    BY <1>4, <1>5, <1>6, <2>1, <2>2 DEF Opening, Moving
<1>9. CASE ServeSubmit(q)
  <2>1. q.op = "submit" /\ UNCHANGED <<row, handlers, stale>>
        /\ (Settle(q, Refused(q)) \/ Settle(q, {Answered(q)}))
    BY <1>6, <1>9 DEF ServeSubmit
  <2>2. /\ Answered(q).op = q.op /\ Answered(q).at = "back"
        /\ Answered(q).live = q.live /\ Answered(q).row = q.row
    BY <1>1, AnswerFields
  <2> QED
    BY <1>4, <1>5, <1>6, <1>7, <2>1, <2>2 DEF Opening, Moving
<1>10. CASE ServeAdvance(q)
  <2>1. q.op = "advance" /\ stale' = stale /\ stale \in BOOLEAN
    BY <1>1, <1>10 DEF ServeAdvance, SoloPlays, Opening, Moving, Posting, TabInv, RestOK
  <2>2. CASE MayAdvance
    <3> DEFINE a == [Answered(q) EXCEPT !.row = NextRow]
    <3>1. a.op = q.op /\ a.at = "back" /\ a.live = q.live /\ a.row = NextRow
      BY <1>1, AnswerFields
    <3>2. row' = NextRow /\ Settle(q, {a}) /\ handlers' = handlers
      BY <1>10, <2>2 DEF ServeAdvance, Announces
    <3> HIDE DEF a
    <3>3. net' = (net \ {q}) \cup {a} /\ adrift' = adrift /\ ws = "none"
      BY <1>4, <2>1, <3>2 DEF SoloPlays, Moving
    <3>4. /\ NextRow.phase \in {"playing", "finished"}
          /\ NextRow.phase = "finished" => NextRow.round = row.round
      BY <1>1, BoundAssumption DEF NextRow, Row
    <3>5. SoloPlays'
      BY <1>1, <2>1, <3>1, <3>2, <3>3, <3>4 DEF SoloPlays, Opening, Moving, Posting
    <3>6. SoloInTurn'
      BY <1>1, <1>2, <2>1, <3>1, <3>3 DEF SoloInTurn, Opening, Moving, Posting
    <3>7. SoloShows'
      <4> SUFFICES ASSUME page = "game", ~stale'
                   PROVE  SoloShows'
        BY <1>1 DEF SoloShows
      <4>1. /\ \A p \in net : p.op \notin Opening /\ (p.op \in Moving => p = q)
            /\ store.phase = row.phase /\ store.round = row.round
        BY <1>1, <2>1 DEF SoloShows, SoloInTurn, Opening, Moving
      <4> QED
        BY <1>1, <2>1, <3>1, <3>2, <3>3, <3>4, <4>1 DEF SoloShows, Opening, Moving
    <3> QED
      BY <3>5, <3>6, <3>7
  <2>3. CASE ~MayAdvance
    BY <1>7, <1>10, <2>1, <2>3 DEF ServeAdvance, Opening
  <2> QED
    BY <2>2, <2>3
<1> QED
  BY <1>3, <1>8, <1>9, <1>10 DEF Serve

\* A request nobody waits for may still store a drawing, or move the session and leave the
\* screen behind.
LEMMA SoloAdrift ==
  ASSUME TabInv, Solo, SoloInv, NEW q \in adrift, Serve(q)
  PROVE  SoloInv'
<1> USE DEF SoloInv
<1>1. /\ q.op \in {"submit", "reveal", "advance", "next"} /\ q.at = "lost" /\ row \in Row
      /\ UNCHANGED <<page, ws, store, ui, map, chan>>
      /\ row.phase \in {"playing", "finished"}
  BY DEF TabInv, RestOK, Serve, screen, SoloPlays, Moving, Posting
<1>2. ASSUME NEW answers, Settle(q, answers) PROVE net' = net /\ adrift' \subseteq adrift
  BY <1>1, <1>2 DEF Settle
<1>3. MapKind(store, ui)' = MapKind(store, ui)
  BY <1>1 DEF MapKind
<1>4. ASSUME handlers' = {}, NEW answers, Settle(q, answers),
             row' = row \/ stale', row'.phase \in {"playing", "finished"}, ~stale' => ~stale
      PROVE  SoloInv'
  <2>1. SoloPlays'
    BY <1>1, <1>2, <1>4 DEF SoloPlays
  <2>2. SoloInTurn'
    BY <1>1, <1>2, <1>3, <1>4 DEF SoloInTurn
  <2>3. SoloShows'
    BY <1>1, <1>2, <1>4 DEF SoloShows
  <2> QED
    BY <2>1, <2>2, <2>3
<1>5. CASE ServeRead(q)
  BY <1>1, <1>4, <1>5 DEF ServeRead, SoloPlays
<1>6. CASE ServeSubmit(q)
  <2>1. UNCHANGED <<row, handlers, stale>> /\ \E answers : Settle(q, answers)
    BY <1>1, <1>6 DEF ServeSubmit
  <2> QED
    BY <1>1, <1>4, <2>1 DEF SoloPlays
<1>7. CASE ServeAdvance(q)
  <2>1. NextRow.phase \in {"playing", "finished"}
    BY <1>1, BoundAssumption DEF NextRow, Row
  <2>2. /\ stale' /\ row' \in {row, NextRow} /\ handlers' = handlers
        /\ \E answers : Settle(q, answers)
    BY <1>1, <1>7 DEF ServeAdvance, Announces
  <2> QED
    BY <1>1, <1>4, <2>1, <2>2 DEF SoloPlays
<1>8. ~ServeEnd(q) /\ ~ServeClear(q)
  BY <1>1 DEF ServeEnd, ServeClear
<1> QED
  BY <1>5, <1>6, <1>7, <1>8 DEF Serve

\* The next round is shown on a map of its own, whatever was shown before.
LEMMA SoloNextRound ==
  ASSUME TabInv, NEW q \in net, q.live, NextRound(q)
  PROVE  /\ store'.phase = "playing" /\ store'.round = q.row.round
         /\ store'.loaded = store.loaded
         /\ ui'.submitting = ui.submitting
         /\ map'.kind = MapKind(store', ui') /\ map'.kind = "game"
         /\ UNCHANGED <<page, ws>> /\ net' = net \ {q}
<1> DEFINE s == [store EXCEPT !.round = q.row.round, !.phase = "playing",
                              !.results = NoResults]
           u == Local(q, [ui EXCEPT !.showScores = FALSE, !.submitted = FALSE])
<1>1. store \in Stores /\ ui \in Uis /\ ScreenOK
  BY DEF TabInv, ScreenOK
<1>2. s.phase = "playing" /\ s.round = q.row.round /\ s.loaded = store.loaded
  BY <1>1 DEF Stores
<1>3. u.submitting = ui.submitting /\ ~u.showScores
  BY <1>1 DEF Uis, Local
<1>4. Render(s, u, TRUE) /\ net' = net \ {q}
  BY DEF NextRound, Forget
<1> HIDE DEF s, u
<1>5. MapKind(s, u) = "game"
  BY <1>2, <1>3 DEF MapKind
<1> QED
  BY <1>1, <1>2, <1>3, <1>4, <1>5, RenderTakes

\* An answer takes its turn: the load opens the game, the one request that moved the
\* session moves the screen, and a drawing's review comes when no review is there.
LEMMA SoloAnswer ==
  ASSUME TabInv, Solo, SoloInv, NEW q \in net, Answer(q)
  PROVE  SoloInv'
<1> USE DEF SoloInv
<1>1. /\ net \subseteq Request /\ q \in Request /\ role \in {"solo", "demo"} /\ row \in Row
      /\ q.row \in Row /\ q.at = "back" /\ page = "game" /\ UNCHANGED <<row, handlers, adrift>>
      /\ store \in Stores /\ ui \in Uis /\ ScreenOK
  BY DEF TabInv, RestOK, Solo, Answer, server, ScreenOK, Request
<1>2. q.live /\ chan = <<>> /\ q.row.phase # "scoring" /\ page # "blank"
  BY <1>1 DEF SoloPlays, SoloInTurn
<1>3. CASE ApplyLoad(q)
  <2> DEFINE s == [store EXCEPT !.loaded = TRUE]
  <2>1. s.phase = store.phase /\ s.round = store.round /\ s.scores = store.scores /\ s.loaded
    BY <1>1 DEF Stores
  <2> HIDE DEF s
  <2>2. q.op = "load" /\ store' = s /\ ws' = "none" /\ chan' = <<>>
        /\ UNCHANGED <<page, ui, map, stale>>
    BY <1>3 DEF ApplyLoad, history, s
  <2>3. store.phase = "none" /\ \A p \in net : p = q
    BY <1>1, <2>2 DEF SoloInTurn, Opening
  <2>4. PICK a : /\ a.op = "round" /\ a.row = q.row /\ a.live /\ a.at = "back"
                 /\ net' = {} \/ net' = {a}
    <3>1. /\ Then(q, "round").op = "round" /\ Then(q, "round").row = q.row
          /\ Then(q, "round").live /\ Then(q, "round").at = "back"
      BY <1>1, <1>2, ThenFields
    <3>2. net' = net \ {q} \/ net' = (net \ {q}) \cup {Then(q, "round")}
      BY <1>3 DEF ApplyLoad, Forget, Replace
    <3> QED
      BY <2>3, <3>1, <3>2
  <2>5. MapKind(store, ui)' = MapKind(store, ui)
    BY <2>1, <2>2 DEF MapKind
  <2>6. SoloPlays'
    BY <1>1, <1>2, <2>2, <2>4 DEF SoloPlays, Opening, Moving
  <2>7. SoloInTurn'
    BY <1>1, <2>1, <2>2, <2>3, <2>4, <2>5 DEF SoloInTurn, Opening, Moving, Posting
  <2>8. SoloShows'
    BY <1>1, <2>1, <2>2, <2>3, <2>4 DEF SoloShows, Opening, Moving
  <2> QED
    BY <2>6, <2>7, <2>8
<1>4. CASE ApplyRound(q)
  <2> DEFINE s == [store EXCEPT !.round = q.row.round, !.phase = q.row.phase]
  <2>1. /\ s.phase = q.row.phase /\ s.round = q.row.round
        /\ s.scores = store.scores /\ s.loaded = store.loaded
    BY <1>1 DEF Stores
  <2> HIDE DEF s
  <2>2. /\ q.op = "round" /\ Render(s, ui, TRUE) /\ net' = net \ {q} /\ chan' = chan
        /\ ~stale' => ~stale
    BY <1>2, <1>4 DEF ApplyRound, Forget, s
  <2>3. store.phase = "none" /\ store.scores = {} /\ \A p \in net : p = q
    BY <1>1, <2>2 DEF SoloInTurn, Opening
  <2>4. MapKind(s, ui) # "review"
    BY <2>1, <2>3 DEF MapKind
  <2>5. store' = s /\ ui' = ui /\ map'.kind = MapKind(s, ui) /\ UNCHANGED <<page, ws>>
    BY <1>1, <2>2, <2>4, RenderTakes
  <2>6. net' = {} /\ q.row.phase # "none"
    BY <1>1, <2>2, <2>3 DEF Row, Phases
  <2>7. MapKind(store, ui)' = MapKind(s, ui)
    BY <2>5 DEF MapKind
  <2>8. SoloPlays'
    BY <1>1, <1>2, <2>1, <2>2, <2>5, <2>6 DEF SoloPlays
  <2>9. SoloInTurn'
    BY <1>1, <2>1, <2>5, <2>6, <2>7 DEF SoloInTurn
  <2>10. SoloShows'
    BY <1>1, <2>1, <2>2, <2>5, <2>6 DEF SoloShows, Opening
  <2> QED
    BY <2>8, <2>9, <2>10
<1>5. ~ApplyResults(q) /\ ~(Unheeded(q) /\ Nothing(q))
  BY DEF ApplyResults, Unheeded, SoloPlays, Opening, Moving, Posting
<1>6. ASSUME q.op \notin Opening
      PROVE  store.phase # "none" /\ \A p \in net : p.op \notin Opening
  BY <1>1, <1>6 DEF SoloInTurn
<1>7. ASSUME q.op \in Posting, UNCHANGED <<page, ws, chan, stale>>,
             store'.phase = store.phase, store'.round = store.round,
             store'.loaded = store.loaded,
             map'.kind = MapKind(store', ui'),
             NEW a, a.op \in Posting, a.live, a.row.phase # "scoring", a.at \in {"sent", "back"},
             \/ net' = net \ {q}
             \/ net' = (net \ {q}) \cup {a} /\ ui'.submitting /\ map'.kind = map.kind
      PROVE  SoloInv'
  <2>1. q.op \notin Opening /\ a.op \notin Opening /\ q.op \notin Moving /\ a.op \notin Moving
    BY <1>7 DEF Opening, Moving, Posting
  <2>2. SoloPlays'
    BY <1>1, <1>2, <1>7, <2>1 DEF SoloPlays
  <2>3. SoloInTurn'
    <3>1. \A p \in net' : p.live /\ p.op \notin Opening /\ (p.op \in Moving => store'.loaded)
      BY <1>1, <1>6, <1>7, <2>1 DEF SoloInTurn
    <3>2. \A p \in net' : p.op \in Posting => ui'.submitting /\ map'.kind # "review"
      BY <1>1, <1>7 DEF SoloInTurn
    <3>3. \A p, o \in net' : (p.op \in Posting /\ o.op \in Posting) => p = o
      BY <1>1, <1>7 DEF SoloInTurn
    <3>4. map'.kind = MapKind(store, ui)'
      BY <1>7 DEF MapKind
    <3> QED
      BY <1>6, <1>7, <2>1, <3>1, <3>2, <3>3, <3>4 DEF SoloInTurn
  <2>4. SoloShows'
    BY <1>1, <1>6, <1>7, <2>1 DEF SoloShows
  <2> QED
    BY <2>2, <2>3, <2>4
<1>8. CASE ApplyReveal(q)
  <2> DEFINE s == [store EXCEPT !.results = [round |-> q.round, teams |-> q.teams],
                                !.scores = q.teams]
             u == Local(q, [ui EXCEPT !.showScores = TRUE,
                                      !.submitting = @ /\ q.op # "reveal"])
  <2>1. s.phase = store.phase /\ s.round = store.round /\ s.loaded = store.loaded
    BY <1>1 DEF Stores
  <2>2. q.op = "reveal" /\ Render(s, u, TRUE) /\ net' = net \ {q} /\ UNCHANGED <<chan, stale>>
    BY <1>8 DEF ApplyReveal, SoloPlays, Opening, Moving, Posting, Forget, history
  <2> HIDE DEF s, u
  <2>3. map.kind # "review"
    BY <1>1, <2>2 DEF SoloInTurn, Posting
  <2>4. store' = s /\ ui' = u /\ map'.kind = MapKind(s, u) /\ UNCHANGED <<page, ws>>
    BY <1>1, <2>2, <2>3, RenderTakes
  <2> QED
    BY <1>1, <1>2, <1>7, <2>1, <2>2, <2>4 DEF Posting
<1>9. CASE ApplySubmit(q)
  <2> DEFINE a == [Ask("reveal", NoRow, q.round) EXCEPT !.live = q.live]
             u == [ui EXCEPT !.submitted = TRUE, !.submitting = Solo]
  <2>1. /\ Ask("reveal", NoRow, q.round) \in Request /\ Ask("reveal", NoRow, q.round).op = "reveal"
        /\ Ask("reveal", NoRow, q.round).row = NoRow /\ Ask("reveal", NoRow, q.round).at = "sent"
    <3>1. q.round \in 0 .. NumRounds
      BY <1>1 DEF Request
    <3> QED
      BY <3>1, AskLive, NoRowShape DEF Ops
  <2>2. a.op = "reveal" /\ a.row = NoRow /\ a.live /\ a.at = "sent"
    BY <1>2, <2>1 DEF Request
  <2>3. u.submitting /\ u.showScores = ui.showScores
    BY <1>1 DEF Uis
  <2>4. /\ q.op = "submit" /\ net' = (net \ {q}) \cup {a} /\ ui' = u
        /\ UNCHANGED <<chan, page, ws, store, map, stale>>
    BY <1>2, <1>9 DEF ApplySubmit, Replace, Local, history
  <2> HIDE DEF a, u
  <2>5. map'.kind = MapKind(store', ui') /\ map'.kind = map.kind
    BY <1>1, <2>3, <2>4 DEF SoloInTurn, MapKind
  <2>6. NoRow.phase # "scoring"
    BY DEF NoRow
  <2> QED
    BY <1>7, <2>2, <2>3, <2>4, <2>5, <2>6 DEF Posting
<1>10. CASE ApplyFailure(q)
  <2> DEFINE u == [ui EXCEPT !.submitting = FALSE]
  <2>1. u.showScores = ui.showScores
    BY <1>1 DEF Uis
  <2>2. /\ q.op \in Posting /\ net' = net \ {q} /\ ui' = u
        /\ UNCHANGED <<chan, page, ws, store, map, stale>>
    BY <1>2, <1>10 DEF ApplyFailure, Forget, Local, history, Posting
  <2> HIDE DEF u
  <2>3. map'.kind = MapKind(store', ui')
    BY <1>1, <2>1, <2>2 DEF SoloInTurn, MapKind
  <2> QED
    BY <1>1, <1>2, <1>7, <2>2, <2>3
<1>11. ASSUME q.op \in Moving, UNCHANGED <<page, ws, chan, stale>>, net' = net \ {q},
              store'.phase # "none", store'.loaded = store.loaded,
              ui'.submitting = ui.submitting,
              map'.kind = MapKind(store', ui'), map'.kind # "review",
              ~stale => store'.phase = row.phase /\ store'.round = row.round
       PROVE  SoloInv'
  <2>1. q.op \notin Opening
    BY <1>11 DEF Opening, Moving
  <2>2. SoloPlays'
    BY <1>1, <1>2, <1>11 DEF SoloPlays
  <2>3. map'.kind = MapKind(store, ui)'
    BY <1>11 DEF MapKind
  <2>4. SoloInTurn'
    BY <1>1, <1>6, <1>11, <2>1, <2>3 DEF SoloInTurn
  <2>5. SoloShows'
    BY <1>1, <1>6, <1>11, <2>1 DEF SoloShows
  <2> QED
    BY <2>2, <2>4, <2>5
<1>12. ~stale => ((q.op \in Moving) => (q.row = row /\ (row.phase = "finished" => q.op = "advance" /\ store.round = row.round)))
  BY <1>1 DEF SoloShows
<1>13. ASSUME q.op \in Moving, NextRound(q), UNCHANGED <<chan, stale>>, q.row.phase # "finished"
       PROVE  SoloInv'
  <2>1. /\ store'.phase = "playing" /\ store'.round = q.row.round
        /\ store'.loaded = store.loaded
        /\ ui'.submitting = ui.submitting
        /\ map'.kind = MapKind(store', ui') /\ map'.kind = "game"
        /\ UNCHANGED <<page, ws>> /\ net' = net \ {q}
    BY <1>2, <1>13, SoloNextRound
  <2>2. ~stale => row.phase = "playing" /\ row.round = q.row.round
    BY <1>12, <1>13 DEF SoloPlays
  <2> QED
    BY <1>11, <1>13, <2>1, <2>2
<1>14. CASE ApplyAdvance(q)
  <2>1. q.op \in Moving /\ UNCHANGED <<chan, stale>> /\ q.op = "advance"
    BY <1>14 DEF ApplyAdvance, Moving, history
  <2>2. CASE q.row.phase = "finished" /\ GameIsOver(q)
    <3> DEFINE s == [store EXCEPT !.phase = "finished"]
               u == Local(q, [ui EXCEPT !.showScores = FALSE])
    <3>1. s.phase = "finished" /\ s.round = store.round /\ s.loaded = store.loaded
          /\ u.submitting = ui.submitting
      BY <1>1 DEF Stores, Uis, Local
    <3>2. Render(s, u, FALSE) /\ net' = net \ {q}
      BY <2>2 DEF GameIsOver, Forget
    <3> HIDE DEF s, u
    <3>3. MapKind(s, u) = "none"
      BY <3>1 DEF MapKind
    <3>4. store' = s /\ ui' = u /\ map'.kind = MapKind(s, u) /\ UNCHANGED <<page, ws>>
      BY <1>1, <3>2, <3>3, RenderTakes
    <3> QED
      BY <1>11, <1>12, <2>1, <2>2, <3>1, <3>2, <3>3, <3>4
  <2>3. CASE q.row.phase # "finished" /\ NextRound(q)
    BY <1>13, <2>1, <2>3
  <2>4. CASE q.row.phase # "finished" /\ Replace(q, Then(q, "next")) /\ UNCHANGED screen
    <3> DEFINE a == Then(q, "next")
    <3>1. a.op = "next" /\ a.row = q.row /\ a.live /\ a.at = "back"
      BY <1>1, <1>2, ThenFields
    <3>2. net' = (net \ {q}) \cup {a} /\ UNCHANGED <<page, ws, store, ui, map>>
      BY <2>4 DEF Replace, screen
    <3> HIDE DEF a
    <3>3. a.op \in Moving /\ a.op \notin Opening /\ q.op \notin Opening /\ a.op \notin Posting
      BY <2>1, <3>1 DEF Opening, Moving, Posting
    <3>4. SoloPlays'
      BY <1>1, <1>2, <2>1, <3>1, <3>2, <3>3 DEF SoloPlays
    <3>5. MapKind(store, ui)' = MapKind(store, ui)
      BY <3>2 DEF MapKind
    <3>6. SoloInTurn'
      BY <1>1, <1>6, <2>1, <3>1, <3>2, <3>3, <3>5 DEF SoloInTurn
    <3>7. SoloShows'
      BY <1>1, <1>6, <1>12, <2>1, <2>4, <3>1, <3>2, <3>3 DEF SoloShows
    <3> QED
      BY <3>4, <3>6, <3>7
  <2> QED
    BY <1>14, <2>2, <2>3, <2>4 DEF ApplyAdvance
<1>15. CASE ApplyNext(q)
  <2>1. q.op \in Moving /\ q.op = "next" /\ UNCHANGED <<chan, stale>> /\ NextRound(q)
    BY <1>15 DEF ApplyNext, Moving, history
  <2>2. CASE q.row.phase # "finished"
    BY <1>13, <2>1, <2>2
  <2>3. CASE q.row.phase = "finished"
    <3>1. stale
      BY <1>12, <2>1, <2>3
    <3>2. /\ store'.phase = "playing" /\ store'.loaded = store.loaded
          /\ ui'.submitting = ui.submitting
          /\ map'.kind = MapKind(store', ui') /\ map'.kind = "game"
          /\ UNCHANGED <<page, ws>> /\ net' = net \ {q}
      BY <1>2, <2>1, SoloNextRound
    <3> QED
      BY <1>11, <2>1, <3>1, <3>2
  <2> QED
    BY <2>2, <2>3
<1> QED
  BY <1>3, <1>4, <1>5, <1>8, <1>9, <1>10, <1>14, <1>15 DEF Answer

\* Off the game screen an answer is dropped: a solo tab never asks for a start.
LEMMA SoloElsewhere ==
  ASSUME TabInv, SoloInv, NEW q \in net, AnswerElsewhere(q)
  PROVE  SoloInv'
<1> USE DEF SoloInv
<1>1. ~ApplyStart(q)
  BY DEF ApplyStart, SoloPlays, Opening, Moving, Posting
<1>2. /\ page # "game" /\ UNCHANGED <<row, handlers, adrift>> /\ net' = net \ {q}
      /\ UNCHANGED <<chan, page, ws, store>>
  BY <1>1 DEF AnswerElsewhere, Nothing, Forget, server, screen
<1> QED
  BY <1>2 DEF SoloPlays, SoloInTurn, SoloShows

\* Whose tab it is does not change.
LEMMA RoleStays == [Next]_vars => role' = role
BY DEF Next, vars, LobbyMessage, HandleStart, Exit, Reload, SocketOpens, SocketCloses,
       Reconnect, GuideAdvances, RoundEnds, ServerStops, HandlerStep, OthersSubmit,
       HandleClearRoute, Serve, Fail, Answer, AnswerElsewhere, GameMessage, MapLoads, Draw, HandleSubmit, HandleScoreContinue,
       HandleEndRound, GoHome, Chooses

\* Every step of a solo game keeps it in turn.
LEMMA SoloStep ==
  ASSUME TabInv, Solo, SoloInv, [Next]_vars
  PROVE  SoloInv'
<1>1. CASE UNCHANGED vars
  BY <1>1 DEF vars, SoloInv, SoloPlays, SoloInTurn, SoloShows, MapKind
<1>2. ~GameMessage
  BY DEF GameMessage, SoloInv, SoloPlays
<1>3. CASE Next
  BY <1>2, <1>3, SoloAround, SoloUser, SoloServe, SoloAdrift, SoloAnswer, SoloElsewhere DEF Next
<1> QED
  BY <1>1, <1>3

-----------------------------------------------------------------------------
(* Channels                                                                *)

\* An empty channel tells of any phase and any round.
LEMMA TellsNothing ==
  /\ \A phase : TellsPhase(<<>>, phase)
  /\ \A round : TellsRound(<<>>, round)
  /\ \A type : At(<<>>, type) = {}
BY DEF TellsPhase, TellsRound, At

\* A broadcast added to a channel has the last word on what it speaks of.
LEMMA TellsAppend ==
  ASSUME NEW c \in Seq(Message), NEW m \in Message, NEW phase, NEW round
  PROVE  /\ (~IsNews(m.type) /\ TellsPhase(c, phase)) => TellsPhase(Append(c, m), phase)
         /\ (m.type = "game_state" /\ m.phase = phase) => TellsPhase(Append(c, m), phase)
         /\ (m.type # "round_start" /\ TellsRound(c, round)) => TellsRound(Append(c, m), round)
         /\ (m.type = "round_start" /\ m.round = round) => TellsRound(Append(c, m), round)
         /\ \A type : At(Append(c, m), type) = {} => At(c, type) = {} /\ m.type # type
<1> DEFINE e == Append(c, m)
           n == Len(c) + 1
<1>1. /\ DOMAIN e = 1 .. n /\ DOMAIN c = 1 .. Len(c) /\ Len(c) \in Nat /\ e[n] = m
      /\ \A i \in DOMAIN c : e[i] = c[i]
  OBVIOUS
<1> HIDE DEF e
<1>2. \A i \in DOMAIN e : i \in DOMAIN c \/ i = n
  BY <1>1
<1>3. \A i \in DOMAIN c : i \in DOMAIN e /\ i < n
  BY <1>1
<1>4. n \in DOMAIN e
  BY <1>1
<1> HIDE DEF n
<1>5. \A type : \A i : i \in At(e, type) <=> i \in At(c, type) \/ (i = n /\ m.type = type)
  BY <1>1, <1>2, <1>3, <1>4 DEF At
<1>6. \A type : \A i \in At(c, type) : i < n /\ e[i] = c[i]
  BY <1>1, <1>3 DEF At
<1>7. ASSUME ~IsNews(m.type), TellsPhase(c, phase) PROVE TellsPhase(e, phase)
  BY <1>5, <1>6, <1>7 DEF TellsPhase, IsNews
<1>8. ASSUME m.type = "game_state", m.phase = phase PROVE TellsPhase(e, phase)
  BY <1>1, <1>5, <1>6, <1>8 DEF TellsPhase
<1>9. ASSUME m.type # "round_start", TellsRound(c, round) PROVE TellsRound(e, round)
  BY <1>5, <1>6, <1>9 DEF TellsRound
<1>10. ASSUME m.type = "round_start", m.round = round PROVE TellsRound(e, round)
  BY <1>1, <1>5, <1>6, <1>10 DEF TellsRound
<1>11. \A type : At(e, type) = {} => At(c, type) = {} /\ m.type # type
  BY <1>5
<1> QED
  BY <1>7, <1>8, <1>9, <1>10, <1>11 DEF e

\* What is left of a channel tells of what the channel did; and so does the message taken
\* from it, if it was the last of its kind.
LEMMA TellsRest ==
  ASSUME NEW c \in Seq(Message), c # <<>>
  PROVE  /\ \A phase : TellsPhase(c, phase) =>
              /\ TellsPhase(Tail(c), phase)
              /\ (Head(c).type = "game_state" /\ At(Tail(c), "game_state") = {}) =>
                   Head(c).phase = phase
              /\ Head(c).type = "round_start" => At(Tail(c), "game_state") # {}
         /\ \A round : TellsRound(c, round) =>
              /\ TellsRound(Tail(c), round)
              /\ (Head(c).type = "round_start" /\ At(Tail(c), "round_start") = {}) =>
                   Head(c).round = round
         /\ \A type : At(Tail(c), type) = {} => At(c, type) = {} \/ Head(c).type = type
<1> DEFINE t == Tail(c)
<1>1. /\ DOMAIN c = 1 .. Len(c) /\ DOMAIN t = 1 .. Len(c) - 1
      /\ Len(c) \in Nat \ {0} /\ Head(c) = c[1]
      /\ \A i \in 1 .. Len(c) - 1 : t[i] = c[i + 1]
  OBVIOUS
<1> HIDE DEF t
<1>2. \A type : \A i \in At(t, type) : i + 1 \in At(c, type)
  BY <1>1 DEF At
<1>3. \A type : \A j \in At(c, type) : j = 1 \/ j - 1 \in At(t, type)
  BY <1>1 DEF At
<1>4. \A type : At(t, type) \subseteq Nat /\ At(c, type) \subseteq Nat
  BY <1>1 DEF At
<1>5. \A type : \A i \in Nat : (\E j \in At(c, type) : i + 1 < j) => \E j \in At(t, type) : i < j
  <2> SUFFICES ASSUME NEW type, NEW i \in Nat, NEW j \in At(c, type), i + 1 < j
               PROVE  \E k \in At(t, type) : i < k
    OBVIOUS
  <2>1. j - 1 \in At(t, type) /\ i < j - 1
    BY <1>3, <1>4
  <2> QED
    BY <2>1
<1>6. \A type : \A i \in At(t, type) : t[i] = c[i + 1]
  BY <1>1 DEF At
<1>7. \A type : Head(c).type = type => 1 \in At(c, type)
  BY <1>1 DEF At
<1>8. \A type : (\E j \in At(c, type) : 1 < j) => At(t, type) # {}
  BY <1>3, <1>4
<1>9. ASSUME NEW phase, TellsPhase(c, phase)
      PROVE  /\ TellsPhase(t, phase)
             /\ (Head(c).type = "game_state" /\ At(t, "game_state") = {}) => Head(c).phase = phase
             /\ Head(c).type = "round_start" => At(t, "game_state") # {}
  <2>1. \A i \in At(t, "round_start") : \E j \in At(t, "game_state") : i < j
    BY <1>2, <1>4, <1>5, <1>9 DEF TellsPhase
  <2>2. \A i \in At(t, "game_state") :
          t[i].phase = phase \/ \E j \in At(t, "game_state") : i < j
    BY <1>2, <1>4, <1>5, <1>6, <1>9 DEF TellsPhase
  <2> QED
    BY <1>1, <1>7, <1>8, <1>9, <2>1, <2>2 DEF TellsPhase
<1>10. ASSUME NEW round, TellsRound(c, round)
       PROVE  /\ TellsRound(t, round)
              /\ (Head(c).type = "round_start" /\ At(t, "round_start") = {}) =>
                   Head(c).round = round
  <2>1. \A i \in At(t, "round_start") :
          t[i].round = round \/ \E j \in At(t, "round_start") : i < j
    BY <1>2, <1>4, <1>5, <1>6, <1>10 DEF TellsRound
  <2> QED
    BY <1>1, <1>7, <1>8, <1>10, <2>1 DEF TellsRound
<1>11. \A type : At(t, type) = {} => At(c, type) = {} \/ Head(c).type = type
  BY <1>1, <1>3 DEF At
<1> QED
  BY <1>9, <1>10, <1>11 DEF t

-----------------------------------------------------------------------------
(* A multiplayer game follows the session                                  *)

\* A row a session may have.
RowFits(r) ==
  /\ r \in Row
  /\ r.phase = "waiting" => r.round = 0
  /\ r.phase \in {"playing", "scoring"} => r.round # 0
  /\ r.phase = "finished" => r.round = NumRounds

\* The number of a turn tells its row, and later turns have no earlier rounds.
LEMMA TurnTells ==
  ASSUME NEW r, NEW s, RowFits(r), RowFits(s)
  PROVE  /\ Turn(r) \in Nat
         /\ Turn(r) = Turn(s) => r = s
         /\ Turn(r) <= Turn(s) => r.round <= s.round
         /\ r.phase = "playing" => Turn(r) = 2 * r.round - 1
         /\ Turn(r) >= 2 * r.round - 1
<1>1. /\ r.phase \in Phases /\ r.round \in 0 .. NumRounds
      /\ s.phase \in Phases /\ s.round \in 0 .. NumRounds
      /\ NumRounds \in Nat \ {0}
      /\ (r.phase = s.phase /\ r.round = s.round) => r = s
  BY BoundAssumption DEF RowFits, Row
<1>2. /\ r.phase = "waiting" => Turn(r) = 0 /\ r.round = 0
      /\ r.phase = "playing" => Turn(r) = 2 * r.round - 1 /\ r.round # 0
      /\ r.phase = "scoring" => Turn(r) = 2 * r.round /\ r.round # 0
      /\ r.phase = "finished" => Turn(r) = 2 * NumRounds + 1 /\ r.round = NumRounds
  BY <1>1 DEF Turn, RowFits
<1>3. /\ s.phase = "waiting" => Turn(s) = 0 /\ s.round = 0
      /\ s.phase = "playing" => Turn(s) = 2 * s.round - 1 /\ s.round # 0
      /\ s.phase = "scoring" => Turn(s) = 2 * s.round /\ s.round # 0
      /\ s.phase = "finished" => Turn(s) = 2 * NumRounds + 1 /\ s.round = NumRounds
  BY <1>1 DEF Turn, RowFits
<1> HIDE DEF Turn
<1>4. r.phase \in {"waiting", "playing", "scoring", "finished"}
      /\ s.phase \in {"waiting", "playing", "scoring", "finished"}
  BY <1>1 DEF Phases
<1>5. Turn(r) \in Nat /\ Turn(r) >= 2 * r.round - 1
  BY <1>1, <1>2, <1>4
<1>6. Turn(r) <= Turn(s) => r.round <= s.round
  BY <1>1, <1>2, <1>3, <1>4
<1>7. Turn(r) = Turn(s) => r.phase = s.phase /\ r.round = s.round
  BY <1>1, <1>2, <1>3, <1>4
<1> QED
  BY <1>1, <1>2, <1>5, <1>6, <1>7

\* The session and its handlers have such rows.
LEMMA RowsFit ==
  ASSUME TabInv
  PROVE  RowFits(row) /\ \A h \in handlers : RowFits(h.row)
BY DEF TabInv, RestOK, RowOK, HandlersOK, RowFits, Handler

\* In a multiplayer game the session only comes further.
LEMMA TurnGrows ==
  ASSUME TabInv, ~Solo
  PROVE  /\ MayAdvance => Turn(row) <= Turn(NextRow)
         /\ row.phase = "playing" => Turn(row) <= Turn(Ended)
<1>1. /\ row.phase \in Phases /\ row.round \in 0 .. NumRounds /\ NumRounds \in Nat \ {0}
      /\ row.phase = "waiting" => row.round = 0
  BY BoundAssumption DEF TabInv, RestOK, RowOK, Row
<1>2. ASSUME MayAdvance PROVE Turn(row) <= Turn(NextRow)
  <2>1. row.phase \in {"waiting", "scoring"}
    BY <1>2 DEF MayAdvance, Solo
  <2>2. Turn(row) = 2 * row.round
    BY <1>1, <2>1 DEF Turn
  <2>3. CASE row.round < NumRounds
    <3>1. NextRow.phase = "playing" /\ NextRow.round = row.round + 1
      BY <2>3 DEF NextRow
    <3>2. Turn(NextRow) = 2 * (row.round + 1) - 1
      BY <3>1 DEF Turn
    <3> QED
      BY <1>1, <2>2, <3>2
  <2>4. CASE ~(row.round < NumRounds)
    <3>1. NextRow.phase = "finished"
      BY <2>4 DEF NextRow, TabInv, RestOK, Row
    <3>2. Turn(NextRow) = 2 * NumRounds + 1
      BY <3>1 DEF Turn
    <3> QED
      BY <1>1, <2>2, <3>2
  <2> QED
    BY <2>3, <2>4
<1>3. ASSUME row.phase = "playing" PROVE Turn(row) <= Turn(Ended)
  <2>1. Ended.phase = "scoring" /\ Ended.round = row.round
    BY EndedShape DEF TabInv
  <2>2. Turn(row) = 2 * row.round - 1 /\ Turn(Ended) = 2 * row.round
    BY <1>3, <2>1 DEF Turn
  <2> QED
    BY <1>1, <2>2
<1> QED
  BY <1>2, <1>3

\* Nothing about the phase, or the round, is settled that was not.
Unheard ==
  /\ PhaseSettled' => PhaseSettled /\ row'.phase = row.phase
  /\ RoundSettled' => RoundSettled /\ row'.round = row.round

\* What the server has still to tell does not change with the rest.
LEMMA SameSession ==
  ASSUME ToldOK, UNCHANGED <<row, handlers, told>>
  PROVE  /\ ToldOK' /\ (StateComing' <=> StateComing) /\ (StartComing' <=> StartComing)
         /\ chan' = chan => Unheard
BY DEF ToldOK, StateComing, StartComing, Unheard, PhaseSettled, RoundSettled, At

\* When the session changes, the handler that changed it is about to tell of it.
LEMMA RowMovesTells ==
  ASSUME TabInv, ~Solo, ToldOK, TellsRow, UNCHANGED <<chan, told, ws, stale>>,
         \/ UNCHANGED <<row, handlers>>
         \/ \E op, round :
              \/ MayAdvance /\ row' = NextRow /\ Announces(op, round)
              \/ row.phase = "playing" /\ row' = Ended /\ GoesOn("reload", Ended, op, round)
              \/ row.phase = "scoring" /\ row' = row /\ GoesOn("scores", row, op, round)
  PROVE  ToldOK' /\ TellsRow' /\ Unheard
<1>1. CASE UNCHANGED <<row, handlers>>
  BY <1>1, SameSession DEF TellsRow
<1>2. ASSUME NEW b, handlers' = handlers \cup {b}, b.row = row', Turn(row) <= Turn(row'),
             Turn(row') \in Int,
             row' = row \/ b.at \in {"reload", "round_start", "game_state"},
             row'.round = row.round \/ b.at = "round_start"
      PROVE  ToldOK' /\ TellsRow' /\ Unheard
  <2>1. Turn(row) \in Nat /\ told \in Nat /\ \A h \in handlers : Turn(h.row) \in Nat
    BY RowsFit, TurnTells DEF TabInv, RestOK
  <2>2. (StateComing' \/ row' = row) /\ (StateComing /\ row' = row => StateComing')
    BY <1>2 DEF StateComing
  <2>3. (StartComing' \/ row'.round = row.round) /\ (StartComing /\ row'.round = row.round => StartComing')
    BY <1>2 DEF StartComing
  <2>4. ToldOK'
    BY <1>2, <2>1, <2>2, <2>3 DEF ToldOK
  <2>5. TellsRow'
    BY <2>2, <2>3 DEF TellsRow
  <2>6. Unheard
    BY <2>2, <2>3 DEF Unheard, PhaseSettled, RoundSettled, At
  <2> QED
    BY <2>4, <2>5, <2>6
<1>3. ASSUME NEW step, NEW r, NEW op, NEW round, GoesOn(step, r, op, round)
      PROVE  \E b : handlers' = handlers \cup {b} /\ b.row = r /\ b.at = step
  <2> DEFINE b == [row |-> r, at |-> step, scored |-> r.round, op |-> op, round |-> round]
  <2>1. b.row = r /\ b.at = step /\ handlers' = handlers \cup {b}
    BY <1>3 DEF GoesOn
  <2> HIDE DEF b
  <2> QED
    BY <2>1
<1>4. ASSUME NEW op, NEW round, MayAdvance, row' = NextRow, Announces(op, round)
      PROVE  ToldOK' /\ TellsRow' /\ Unheard
  <2>1. NextRow.phase = "playing" \/ NextRow.round = row.round
    BY DEF NextRow, TabInv, RestOK, Row
  <2>2. PICK b : /\ handlers' = handlers \cup {b} /\ b.row = row'
                 /\ b.at = IF NextRow.phase = "playing" THEN "round_start" ELSE "game_state"
    BY <1>3, <1>4 DEF Announces
  <2>3. Turn(row) <= Turn(row') /\ Turn(row') \in Int
    BY <1>4, TurnGrows, NextRowShape, TurnShape DEF TabInv
  <2> QED
    BY <1>2, <1>4, <2>1, <2>2, <2>3
<1>5. ASSUME NEW op, NEW round, row.phase = "playing", row' = Ended,
             GoesOn("reload", Ended, op, round)
      PROVE  ToldOK' /\ TellsRow' /\ Unheard
  <2>1. Turn(row) <= Turn(row') /\ Turn(row') \in Int /\ row'.round = row.round
    BY <1>5, TurnGrows, EndedShape, TurnShape DEF TabInv
  <2> QED
    BY <1>2, <1>3, <1>5, <2>1
<1>6. ASSUME NEW op, NEW round, row' = row, GoesOn("scores", row, op, round)
      PROVE  ToldOK' /\ TellsRow' /\ Unheard
  <2>1. Turn(row) \in Nat
    BY RowsFit, TurnTells
  <2> QED
    BY <1>2, <1>3, <1>6, <2>1
<1> QED
  BY <1>1, <1>4, <1>5, <1>6

\* What a step of a handler leaves to be told, and what it tells the tab.
LEMMA HandlerTold ==
  ASSUME TabInv, NEW h \in handlers, HandlerStep(h)
  PROVE  /\ \A b \in handlers : b # h => b \in handlers'
         /\ \A b \in handlers' : b \in handlers \/ b.row = h.row
         /\ h.at \in {"round_start", "round_end"} =>
              \E b \in handlers' : b.row = h.row /\ b.at = "game_state"
         /\ h.at = "reload" => \/ \E b \in handlers' : b.row = h.row /\ b.at = "round_end"
                               \/ stale' /\ told' = Latest(told, Turn(h.row))
         /\ IsNews(h.at) => told' = Latest(told, Turn(h.row))
         /\ told' \in {told, Latest(told, Turn(h.row))}
         /\ UNCHANGED <<row, page, ws, store>>
         /\ \/ /\ chan' = Append(chan, Said(h)) /\ ws = "open"
               /\ Said(h) \in Message /\ Said(h).type = h.at
               /\ ~stale' => ~stale /\ (IsNews(h.at) => ~(Turn(h.row) < told))
            \/ /\ chan' = chan
               /\ ~stale' => ~stale /\ ~IsNews(h.at)
<1>1. h \in Handler
  BY DEF TabInv, RestOK
<1>2. ASSUME NEW step PROVE [h EXCEPT !.at = step].row = h.row /\ [h EXCEPT !.at = step].at = step
  BY <1>1 DEF Handler
<1>3. \A b \in handlers' : b \in handlers \/ b.row = h.row
  BY HandlerKeeps DEF TabInv
<1>4. ASSUME NEW step, MovesTo(h, step)
      PROVE  /\ \A b \in handlers : b # h => b \in handlers'
             /\ step # "answer" => \E b \in handlers' : b.row = h.row /\ b.at = step
  BY <1>2, <1>4 DEF MovesTo
<1>5. UNCHANGED <<row, page, ws, store>>
  BY DEF HandlerStep, screen
<1>6. CASE BroadcastToSession(h)
  <2>1. /\ h.at \in {"round_end", "round_start", "game_state", "scores"}
        /\ MovesTo(h, Following(h)) /\ NowTold(h)
    BY <1>6 DEF BroadcastToSession
  <2>2. h.at \in {"round_start", "round_end"} => Following(h) = "game_state"
    BY DEF Following
  <2>3. Said(h) \in Message /\ Said(h).type = h.at
    BY <1>1, <2>1, SaidShape DEF TabInv, HandlersOK
  <2>4. h.at # "reload" /\ (IsNews(h.at) => told' = Latest(told, Turn(h.row)))
        /\ told' \in {told, Latest(told, Turn(h.row))}
    BY <2>1 DEF NowTold
  <2>5. \/ /\ chan' = Append(chan, Said(h)) /\ ws = "open"
           /\ ~stale' => ~stale /\ (IsNews(h.at) => ~(Turn(h.row) < told))
        \/ /\ chan' = chan
           /\ ~stale' => ~stale /\ ~IsNews(h.at)
    BY <1>6 DEF BroadcastToSession
  <2> QED
    BY <1>3, <1>4, <1>5, <2>1, <2>2, <2>3, <2>4, <2>5
<1>7. CASE ReloadSession(h)
  <2> DEFINE b == [h EXCEPT !.at = Following(h), !.scored = row.round]
  <2>1. h.at = "reload" /\ Following(h) = "round_end" /\ ~IsNews(h.at)
    BY <1>7 DEF ReloadSession, Following, IsNews
  <2>2. b.row = h.row /\ b.at = "round_end"
    BY <1>1, <2>1 DEF Handler
  <2>3. handlers' = (handlers \ {h}) \cup {b} /\ UNCHANGED <<told, chan, stale>>
    BY <1>7 DEF ReloadSession
  <2> HIDE DEF b
  <2> QED
    BY <1>3, <1>5, <2>1, <2>2, <2>3
<1>8. CASE GivesUp(h)
  <2>1. h.at \in {"reload", "scores"} /\ ~IsNews(h.at) /\ chan' = chan /\ MovesTo(h, "answer")
    BY <1>8 DEF GivesUp, IsNews
  <2>2. /\ h.at = "reload" => stale' /\ told' = Latest(told, Turn(h.row))
        /\ told' \in {told, Latest(told, Turn(h.row))} /\ (~stale' => ~stale)
    BY <1>8 DEF GivesUp, NowTold
  <2> QED
    BY <1>3, <1>4, <1>5, <2>1, <2>2
<1>9. CASE WritesAnswer(h)
  <2>1. h.at = "answer" /\ handlers' = handlers \ {h} /\ UNCHANGED <<told, chan, stale>>
    BY <1>9 DEF WritesAnswer
  <2> QED
    BY <1>3, <1>5, <2>1 DEF IsNews
<1> QED
  BY <1>6, <1>7, <1>8, <1>9 DEF HandlerStep

\* Each step of a handler brings the tab nearer to the session, or makes it stale: what
\* comes late comes after something newer was told.
LEMMA HandlerTells ==
  ASSUME TabInv, ~Solo, ToldOK, TellsRow, NEW h \in handlers, HandlerStep(h)
  PROVE  ToldOK' /\ TellsRow' /\ (~stale' => ~stale /\ Unheard)
<1> DEFINE others == \A b \in handlers : b # h => b \in handlers'
<1>1. /\ others /\ \A b \in handlers' : b \in handlers \/ b.row = h.row
      /\ h.at \in {"round_start", "round_end"} =>
           \E b \in handlers' : b.row = h.row /\ b.at = "game_state"
      /\ h.at = "reload" => \/ \E b \in handlers' : b.row = h.row /\ b.at = "round_end"
                            \/ stale' /\ told' = Latest(told, Turn(h.row))
      /\ IsNews(h.at) => told' = Latest(told, Turn(h.row))
      /\ told' \in {told, Latest(told, Turn(h.row))}
      /\ row' = row /\ ws' = ws
  BY HandlerTold
<1>2. \/ /\ chan' = Append(chan, Said(h)) /\ ws = "open"
         /\ Said(h) \in Message /\ Said(h).type = h.at
         /\ ~stale' => ~stale /\ (IsNews(h.at) => ~(Turn(h.row) < told))
      \/ /\ chan' = chan
         /\ ~stale' => ~stale /\ ~IsNews(h.at)
  BY HandlerTold
<1>3. /\ told \in Nat /\ Turn(row) \in Nat /\ Turn(h.row) \in Nat /\ told <= Turn(row)
      /\ Turn(h.row) <= Turn(row) /\ row.round \in Nat /\ h.row.round \in Nat
      /\ Turn(h.row) = Turn(row) => h.row = row
      /\ h.row.round <= row.round
      /\ h.at = "round_start" => Turn(h.row) = 2 * h.row.round - 1 /\ h.row.round # 0
      /\ chan \in Seq(Message)
  BY RowsFit, TurnTells DEF ToldOK, TabInv, RestOK, Row, HandlersOK, RowFits
<1> HIDE DEF Turn, others
<1>4. told' \in Nat /\ told <= told' /\ told' <= Turn(row)
      /\ (told' = Latest(told, Turn(h.row)) => Turn(h.row) <= told')
  BY <1>1, <1>3 DEF Latest
<1>5. StateComing => \/ StateComing'
                     \/ h.row = row /\ told' = Turn(row) /\ (stale' \/ h.at = "game_state")
  <2> SUFFICES ASSUME NEW b \in handlers, b.row = row,
                      b.at \in {"reload", "round_end", "round_start", "game_state"}
               PROVE  \/ StateComing'
                      \/ h.row = row /\ told' = Turn(row) /\ (stale' \/ h.at = "game_state")
    BY DEF StateComing
  <2>1. CASE b # h
    BY <1>1, <2>1 DEF StateComing, others
  <2>2. CASE b = h /\ h.at \in {"round_start", "round_end"}
    BY <1>1, <2>2 DEF StateComing
  <2>3. CASE b = h /\ h.at = "reload"
    BY <1>1, <1>3, <1>4, <2>3 DEF StateComing
  <2>4. CASE b = h /\ h.at = "game_state"
    BY <1>1, <1>3, <1>4, <2>4 DEF IsNews
  <2> QED
    BY <2>1, <2>2, <2>3, <2>4
<1>6. StartComing => StartComing' \/ (h.at = "round_start" /\ h.row.round = row.round)
  BY <1>1 DEF StartComing, others
<1>7. ToldOK'
  <2>1. \A b \in handlers' : Turn(b.row) <= Turn(row')
    BY <1>1, <1>3 DEF ToldOK
  <2>2. StateComing' \/ told' = Turn(row')
    BY <1>1, <1>3, <1>4, <1>5 DEF ToldOK
  <2>3. StartComing' \/ row'.round = 0 \/ told' >= 2 * row'.round - 1
    <3>1. CASE StartComing
      BY <1>1, <1>3, <1>4, <1>6, <3>1 DEF IsNews
    <3>2. CASE row.round = 0 \/ told >= 2 * row.round - 1
      BY <1>1, <1>3, <1>4, <3>2
    <3> QED
      BY <3>1, <3>2 DEF ToldOK
  <2> QED
    BY <1>1, <1>4, <2>1, <2>2, <2>3 DEF ToldOK
<1>8. ASSUME ws # "none", ~stale, ~stale'
      PROVE  /\ StateComing' \/ TellsPhase(chan', row.phase)
             /\ StartComing' \/ TellsRound(chan', row.round)
             /\ PhaseSettled' => PhaseSettled
             /\ RoundSettled' => RoundSettled
  <2>1. /\ StateComing \/ TellsPhase(chan, row.phase)
        /\ StartComing \/ TellsRound(chan, row.round)
    BY <1>8 DEF TellsRow
  <2>2. CASE IsNews(h.at)
    <3> DEFINE m == Said(h)
    <3>1. /\ chan' = Append(chan, m) /\ m \in Message /\ m.type = h.at
          /\ told <= Turn(h.row)
      BY <1>2, <1>3, <1>8, <2>2
    <3>2. m.type = "round_start" => m.round = h.row.round
      BY <3>1 DEF Said
    <3>3. m.type = "game_state" => m.phase = h.row.phase
      BY <3>1 DEF Said
    <3> HIDE DEF m
    <3>4. StateComing \/ h.row = row
      BY <1>3, <3>1 DEF ToldOK
    <3>5. \A type : At(chan', type) = {} => At(chan, type) = {} /\ m.type # type
      BY <1>3, <3>1, TellsAppend
    <3>6. CASE h.at = "game_state"
      <4>1. StateComing' \/ h.row = row
        BY <1>5, <3>4
      <4>2. StateComing' \/ TellsPhase(chan', row.phase)
        BY <1>3, <3>1, <3>3, <3>6, <4>1, TellsAppend
      <4>3. StartComing' \/ TellsRound(chan', row.round)
        BY <1>3, <1>6, <2>1, <3>1, <3>6, TellsAppend
      <4> QED
        BY <1>6, <3>1, <3>5, <3>6, <4>2, <4>3 DEF PhaseSettled, RoundSettled
    <3>7. CASE h.at = "round_start"
      <4>1. StateComing'
        BY <1>1, <1>5, <1>8, <3>4, <3>7 DEF StateComing
      <4>2. StartComing' \/ h.row.round = row.round
        BY <1>3, <1>6, <3>1, <3>7 DEF ToldOK
      <4>3. StartComing' \/ TellsRound(chan', row.round)
        BY <1>3, <3>1, <3>2, <3>7, <4>2, TellsAppend
      <4> QED
        BY <3>1, <3>5, <3>7, <4>1, <4>3 DEF PhaseSettled, RoundSettled
    <3> QED
      BY <2>2, <3>6, <3>7 DEF IsNews
  <2>3. CASE ~IsNews(h.at)
    <3>1. StateComing => StateComing'
      BY <1>5, <1>8, <2>3 DEF IsNews
    <3>2. StartComing => StartComing'
      BY <1>6, <2>3 DEF IsNews
    <3>3. /\ TellsPhase(chan, row.phase) => TellsPhase(chan', row.phase)
          /\ TellsRound(chan, row.round) => TellsRound(chan', row.round)
          /\ \A type : At(chan', type) = {} => At(chan, type) = {}
      <4>1. CASE chan' = chan
        BY <4>1
      <4>2. CASE chan' = Append(chan, Said(h)) /\ Said(h) \in Message /\ Said(h).type = h.at
        BY <1>3, <2>3, <4>2, TellsAppend DEF IsNews
      <4> QED
        BY <1>2, <4>1, <4>2
    <3> QED
      BY <2>1, <3>1, <3>2, <3>3 DEF PhaseSettled, RoundSettled
  <2> QED
    BY <2>2, <2>3
<1>9. ASSUME ws = "none", ~stale' PROVE (PhaseSettled' => PhaseSettled) /\ (RoundSettled' => RoundSettled)
  BY <1>2, <1>5, <1>6, <1>9 DEF PhaseSettled, RoundSettled, IsNews
<1>10. ~stale' => ~stale /\ Unheard
  BY <1>1, <1>2, <1>8, <1>9 DEF Unheard
<1>11. TellsRow'
  BY <1>1, <1>2, <1>8, <1>10 DEF TellsRow
<1> QED
  BY <1>7, <1>10, <1>11

\* Nothing the user sees changes, and every answer of a load that there is now was there
\* before or has the row as it is: the screen follows as it did.
LEMMA StillShows ==
  ASSUME TabShows, page' = page, store'.phase = store.phase, store'.round = store.round,
         (page = "game" /\ ~stale') => ~stale /\ Unheard,
         \A p \in net' : (p.op \in Opening /\ p.live /\ p.at = "back") =>
           \/ p.row = row'
           \/ \E o \in net : o.op \in Opening /\ o.live /\ o.at = "back" /\ o.row = p.row
  PROVE  TabShows'
<1> SUFFICES ASSUME page = "game", ~stale' PROVE TabShows'
  BY DEF TabShows
<1>1. ~stale /\ Unheard
  OBVIOUS
<1>2. PhaseSettled' =>
        /\ store'.phase \in {"none", row'.phase}
        /\ \A p \in net' : (p.op \in Opening /\ p.live /\ p.at = "back") =>
                             p.row.phase = row'.phase
  BY <1>1 DEF TabShows, Unheard
<1>3. RoundSettled' =>
        /\ store'.round \in {0, row'.round}
        /\ \A p \in net' : (p.op \in Opening /\ p.live /\ p.at = "back") =>
                             p.row.round = row'.round
  BY <1>1 DEF TabShows, Unheard
<1> QED
  BY <1>2, <1>3 DEF TabShows

\* A view that opens, with none but its own load to come, shows nothing of the session yet.
LEMMA ManyOpens ==
  ASSUME NEW requests, Enter(requests), ToldOK, UNCHANGED <<row, handlers, told>>,
         \A p \in requests : ~p.live /\ p.op # "next" /\ (p.op = "advance" => p.at # "back")
  PROVE  ManyInv'
<1>1. /\ Ask("load", NoRow, 0).op = "load" /\ Ask("load", NoRow, 0).at = "sent"
  BY AskLive, NoRowShape DEF Ops
<1>2. /\ net' = requests \cup {Ask("load", NoRow, 0)} /\ chan' = <<>> /\ ws' = "connecting"
      /\ store'.phase = "none" /\ store'.round = 0
  BY DEF Enter, EmptyStore
<1>3. TellsRow'
  BY <1>2, TellsNothing DEF TellsRow
<1>4. Hears'
  BY <1>1, <1>2 DEF Hears
<1>5. TabShows'
  BY <1>1, <1>2 DEF TabShows
<1> QED
  BY <1>3, <1>4, <1>5, SameSession DEF ManyInv

\* Connections come and go and the session moves on: the tab hears of it or is stale.
LEMMA ManyAround ==
  ASSUME TabInv, ~Solo, ManyInv,
         \/ LobbyMessage \/ Exit \/ Reload \/ SocketOpens \/ SocketCloses \/ Reconnect
         \/ GuideAdvances \/ RoundEnds \/ \E t \in Teams : OthersSubmit(t)
         \/ \E q \in net : Fail(q)
  PROVE  ManyInv'
<1> USE DEF ManyInv
<1>1. net \subseteq Request /\ chan \in Seq(Message) /\ RestOK /\ ~IsSolo
  BY DEF TabInv, RestOK, IsSolo
<1>2. \A p \in Left(net) : ~p.live /\ p.op # "next" /\ (p.op = "advance" => p.at # "back")
  BY <1>1, LeftFields DEF Hears
<1>3. CASE LobbyMessage
  <2>1. UNCHANGED <<row, handlers, told>>
    BY <1>3 DEF LobbyMessage, server
  <2>2. CASE Enter(Left(net))
    BY <1>2, <2>1, <2>2, ManyOpens
  <2>3. CASE chan' = Tail(chan) /\ UNCHANGED <<net, screen, history>>
    <3>1. page = "lobby" /\ ws = "open" /\ chan # <<>>
          /\ UNCHANGED <<net, page, ws, stale>>
      BY <1>3, <2>3 DEF LobbyMessage, screen, history
    <3>2. TellsRow'
      BY <1>1, <2>1, <2>3, <3>1, TellsRest, SameSession DEF TellsRow
    <3> QED
      BY <2>1, <3>1, <3>2, SameSession DEF Hears, TabShows
  <2> QED
    BY <1>3, <2>2, <2>3 DEF LobbyMessage
<1>4. CASE Exit
  <2>1. page' = "lobby" /\ ws' = "connecting" /\ chan' = <<>> /\ net' = Left(net)
        /\ UNCHANGED <<row, handlers, told>>
    BY <1>1, <1>4 DEF Exit, server
  <2> QED
    BY <1>2, <2>1, TellsNothing, SameSession DEF TellsRow, Hears, TabShows
<1>5. CASE Reload
  BY <1>5, ManyOpens DEF Reload
<1>6. CASE SocketOpens \/ SocketCloses \/ Reconnect
  <2>1. /\ ws # "none" /\ ws' # "none"
        /\ UNCHANGED <<net, page, store, row, handlers, told>>
    <3>1. CASE SocketOpens \/ Reconnect
      BY <3>1 DEF SocketOpens, Reconnect, server
    <3>2. CASE SocketCloses
      BY <3>2 DEF SocketCloses, server
    <3> QED
      BY <1>6, <3>1, <3>2
  <2>2. /\ chan' = <<>>
        /\ ~stale' => ~stale /\ At(chan, "game_state") = {} /\ At(chan, "round_start") = {}
    <3>1. CASE SocketOpens \/ Reconnect
      BY <3>1, TellsNothing DEF SocketOpens, Reconnect, history, TellsRow
    <3>2. CASE SocketCloses
      BY <3>2 DEF SocketCloses, NewsComing, IsNews, At
    <3> QED
      BY <1>6, <3>1, <3>2
  <2>3. ToldOK' /\ (StateComing' <=> StateComing) /\ (StartComing' <=> StartComing)
    BY <2>1, SameSession
  <2>4. TellsRow'
    BY <2>1, <2>2, TellsNothing DEF TellsRow
  <2>5. ~stale' => Unheard
    BY <2>1, <2>2, <2>3 DEF Unheard, PhaseSettled, RoundSettled
  <2>6. TabShows'
    BY <2>1, <2>2, <2>5, StillShows
  <2> QED
    BY <2>1, <2>3, <2>4, <2>6 DEF Hears
<1>7. ASSUME UNCHANGED <<chan, told, stale, net, page, ws, store>>,
             \/ UNCHANGED <<row, handlers>>
             \/ \E op, round :
                  \/ MayAdvance /\ row' = NextRow /\ Announces(op, round)
                  \/ row.phase = "playing" /\ row' = Ended /\ GoesOn("reload", Ended, op, round)
                  \/ row.phase = "scoring" /\ row' = row /\ GoesOn("scores", row, op, round)
      PROVE  ManyInv'
  <2>1. ToldOK' /\ TellsRow' /\ Unheard
    BY <1>7, RowMovesTells
  <2>2. TabShows'
    BY <1>7, <2>1, StillShows
  <2> QED
    BY <1>7, <2>1, <2>2 DEF Hears
<1>8. CASE GuideAdvances
  BY <1>7, <1>8 DEF GuideAdvances, screen, history
<1>9. CASE RoundEnds
  BY <1>7, <1>9 DEF RoundEnds, screen, history
<1>10. ASSUME NEW t \in Teams, OthersSubmit(t) PROVE ManyInv'
  BY <1>7, <1>10 DEF OthersSubmit, screen, history
<1>11. ASSUME NEW q \in net, Fail(q) PROVE ManyInv'
  <2>1. /\ UNCHANGED <<row, handlers, told, chan, page, ws, store>>
        /\ net' = (net \ {q}) \cup Refused(q) /\ (~stale' => ~stale)
    BY <1>11 DEF Fail, screen
  <2>2. \A a \in Refused(q) : a.op \notin Opening /\ a.op \notin Moving
    BY <1>1, RefusedShape DEF Opening, Moving, Refused
  <2>3. Unheard /\ ToldOK'
    BY <2>1, SameSession
  <2>4. TellsRow'
    BY <2>1, SameSession DEF TellsRow
  <2>5. TabShows'
    BY <2>1, <2>2, <2>3, StillShows
  <2> QED
    BY <2>1, <2>2, <2>3, <2>4, <2>5 DEF Hears, Moving
<1> QED
  BY <1>3, <1>4, <1>5, <1>6, <1>8, <1>9, <1>10, <1>11

\* The handlers go on, or stop with the server: the tab hears of it or is stale.
LEMMA ManyHandlers ==
  ASSUME TabInv, ~Solo, ManyInv, ServerStops \/ \E h \in handlers : HandlerStep(h)
  PROVE  ManyInv'
<1> USE DEF ManyInv
<1>1. net \subseteq Request
  BY DEF TabInv, RestOK
<1>2. ASSUME NEW h \in handlers, HandlerStep(h) PROVE ManyInv'
  <2>1. UNCHANGED <<page, ws, store>>
    BY <1>2, HandlerTold
  <2>2. \A p \in net' : p \in net \/ p.op \in {"start", "submit"}
    <3>1. CASE WritesAnswer(h)
      <4>1. \A q \in net : Answered(q).op = q.op
        BY <1>1, AnsweredShape
      <4> QED
        BY <3>1, <4>1 DEF WritesAnswer, Replace, Forget
    <3>2. CASE BroadcastToSession(h) \/ ReloadSession(h) \/ GivesUp(h)
      BY <3>2 DEF BroadcastToSession, ReloadSession, GivesUp
    <3> QED
      BY <1>2, <3>1, <3>2 DEF HandlerStep
  <2>3. ToldOK' /\ TellsRow' /\ (~stale' => ~stale /\ Unheard)
    BY <1>2, HandlerTells
  <2>4. TabShows'
    BY <2>1, <2>2, <2>3, StillShows DEF Opening
  <2> QED
    BY <2>1, <2>2, <2>3, <2>4 DEF Hears
<1>3. CASE ServerStops
  <2>1. /\ UNCHANGED <<row, page, store>> /\ chan' = <<>> /\ handlers' = {} /\ told' = Turn(row)
        /\ ws' # "none" <=> ws # "none"
        /\ \A p \in net' : p \in net \/ \E q \in net : p \in Refused(q)
    BY <1>3 DEF ServerStops
  <2>2. \A p \in net' : p \in net \/ (p.op \notin Opening /\ p.op \notin Moving)
    BY <1>1, <2>1, RefusedShape DEF Opening, Moving, Refused
  <2>3. ~stale' => ~stale /\ PhaseSettled /\ RoundSettled
    BY <1>3 DEF ServerStops, NewsComing, IsNews, At, PhaseSettled, RoundSettled, StateComing,
                StartComing
  <2>4. ToldOK'
    <3>1. Turn(row) \in Nat /\ Turn(row) >= 2 * row.round - 1
      BY RowsFit, TurnTells
    <3> QED
      BY <2>1, <3>1 DEF ToldOK
  <2>5. TellsRow'
    BY <2>1, TellsNothing DEF TellsRow
  <2>6. ~stale' => Unheard
    BY <2>1, <2>3 DEF Unheard
  <2>7. TabShows'
    BY <2>1, <2>2, <2>3, <2>6, StillShows
  <2> QED
    BY <2>1, <2>2, <2>4, <2>5, <2>7 DEF Hears, Moving
<1> QED
  BY <1>2, <1>3

\* What the user asks for has not been answered, and shows nothing new.
LEMMA ManyUser ==
  ASSUME TabInv, ~Solo, ManyInv,
         \/ MapLoads \/ Draw \/ HandleSubmit \/ HandleScoreContinue \/ HandleEndRound \/ GoHome
         \/ HandleStart \/ \E t \in Teams : HandleClearRoute(t)
  PROVE  ManyInv'
<1> USE DEF ManyInv
<1>1. net \subseteq Request /\ store.round \in 0 .. NumRounds /\ ~IsSolo
  BY DEF TabInv, RestOK, ScreenOK, Stores, IsSolo
<1>2. ASSUME UNCHANGED <<server, chan, page, ws, store>>, ~stale' => ~stale,
             \A p \in net' : p \in net \/ (p.at = "sent" /\ p.op # "next")
      PROVE  ManyInv'
  <2>1. UNCHANGED <<row, handlers, told>>
    BY <1>2 DEF server
  <2>2. Unheard /\ ToldOK'
    BY <1>2, <2>1, SameSession
  <2>3. TabShows'
    BY <1>2, <2>1, <2>2, StillShows
  <2> QED
    BY <1>2, <2>1, <2>2, <2>3, SameSession DEF TellsRow, Hears
<1>3. CASE MapLoads \/ Draw
  <2>1. UNCHANGED <<server, chan, page, ws, store, stale, net>>
    BY <1>3 DEF MapLoads, Draw, Chooses, history
  <2> QED
    BY <1>2, <2>1
<1>4. CASE HandleSubmit
  <2> DEFINE a == Ask("submit", NoRow, store.round)
  <2>1. a.op = "submit" /\ a.at = "sent"
    BY <1>1, AskLive, NoRowShape DEF Ops
  <2>2. UNCHANGED <<server, chan, page, ws, store, stale>> /\ net' = net \cup {a}
    BY <1>4 DEF HandleSubmit, Post, Chooses, history
  <2> HIDE DEF a
  <2> QED
    BY <1>2, <2>1, <2>2
<1>5. CASE HandleScoreContinue \/ HandleEndRound \/ HandleStart
  <2>1. PICK op \in {"advance", "end", "start"} : net' = net \cup {Ask(op, NoRow, 0)}
    BY <1>5 DEF HandleScoreContinue, HandleEndRound, HandleStart
  <2>2. Ask(op, NoRow, 0).op = op /\ Ask(op, NoRow, 0).at = "sent"
    BY AskLive, NoRowShape DEF Ops
  <2>3. UNCHANGED <<server, chan, page, ws, store>>
    BY <1>5 DEF HandleScoreContinue, HandleEndRound, HandleStart, Chooses, screen
  <2>4. ~stale' => ~stale
    <3>1. CASE HandleScoreContinue
      BY <3>1 DEF HandleScoreContinue
    <3>2. CASE HandleEndRound \/ HandleStart
      BY <3>2 DEF HandleEndRound, HandleStart, Chooses, history
    <3> QED
      BY <1>5, <3>1, <3>2
  <2> QED
    BY <1>2, <2>1, <2>2, <2>3, <2>4
<1>6. CASE GoHome
  <2>1. page' = "home" /\ ws' = "none" /\ net' = Left(net) /\ UNCHANGED <<row, handlers, told>>
    BY <1>6 DEF GoHome, server
  <2>2. \A p \in net' : \E o \in net : p.op = o.op /\ p.at = o.at
    BY <1>1, <2>1, LeftFields
  <2> QED
    BY <2>1, <2>2, SameSession DEF TellsRow, Hears, TabShows
<1>7. ASSUME NEW t \in Teams, HandleClearRoute(t) PROVE ManyInv'
  <2> DEFINE b == Ask("clear", NoRow, store.round)
             a == [b EXCEPT !.teams = {t}]
  <2>1. b \in Request /\ b.op = "clear" /\ b.at = "sent"
    BY <1>1, AskLive, NoRowShape DEF Ops
  <2>2. a.op = "clear" /\ a.at = "sent"
    BY <2>1 DEF Request
  <2>3. UNCHANGED <<server, chan, page, ws, store, stale>> /\ net' = net \cup {a}
    BY <1>7 DEF HandleClearRoute, Chooses, screen, history
  <2> HIDE DEF a, b
  <2> QED
    BY <1>2, <2>2, <2>3
<1> QED
  BY <1>3, <1>4, <1>5, <1>6, <1>7

\* The server answers a load with the row as it is, and tells of every change it makes.
LEMMA ManyServe ==
  ASSUME TabInv, ~Solo, ManyInv, NEW q \in net \cup adrift, Serve(q)
  PROVE  ManyInv'
<1> USE DEF ManyInv
<1>1. /\ q \in Request /\ UNCHANGED <<page, ws, store, chan, told>>
  BY DEF TabInv, RestOK, Serve, screen
<1>2. ASSUME stale' = stale, NEW answers, Settle(q, answers),
             \A a \in answers : a.op = q.op /\ (q.op \in Opening => a.row = row')
                                 /\ q.op # "next" /\ (q.op = "advance" => a.at # "back"),
             \/ UNCHANGED <<row, handlers>>
             \/ \E op, round :
                  \/ MayAdvance /\ row' = NextRow /\ Announces(op, round)
                  \/ row.phase = "playing" /\ row' = Ended /\ GoesOn("reload", Ended, op, round)
                  \/ row.phase = "scoring" /\ row' = row /\ GoesOn("scores", row, op, round)
      PROVE  ManyInv'
  <2>1. ToldOK' /\ TellsRow' /\ Unheard
    BY <1>1, <1>2, RowMovesTells
  <2>2. net' \subseteq net \cup answers
    BY <1>2, SettleShape
  <2>3. TabShows'
    BY <1>1, <1>2, <2>1, <2>2, StillShows
  <2>4. Hears'
    BY <1>1, <1>2, <2>2 DEF Hears
  <2> QED
    BY <2>1, <2>3, <2>4
<1>3. /\ Answered(q).op = q.op /\ Served(q).op = q.op /\ Served(q).at = "served"
      /\ Served(q) \in Request
  BY <1>1, AnsweredShape
<1>4. ASSUME Settle(q, Refused(q)), UNCHANGED <<row, handlers, stale>> PROVE ManyInv'
  <2>1. \A a \in Refused(q) : a.op = q.op /\ q.op \in {"submit", "reveal"}
    BY <1>1, RefusedShape
  <2> QED
    BY <1>2, <1>4, <2>1 DEF Opening
<1>5. ASSUME Settle(q, {}), UNCHANGED <<row, handlers, stale>> PROVE ManyInv'
  BY <1>2, <1>5
<1>6. CASE ServeClear(q)
  BY <1>5, <1>6 DEF ServeClear
<1>7. CASE ServeRead(q)
  <2> DEFINE a == [Answered(q) EXCEPT
                     !.row = IF q.op = "load" THEN row ELSE @,
                     !.teams = IF q.op = "load" THEN {} ELSE Scored(q.round, routes)]
  <2>1. a.op = q.op /\ a.row = IF q.op = "load" THEN row ELSE q.row
    BY <1>1, AnswerFields
  <2>2. Settle(q, {a}) /\ UNCHANGED <<row, handlers, stale>>
        /\ q.op \in {"load", "restore", "results", "reveal"}
    BY <1>7 DEF ServeRead
  <2> HIDE DEF a
  <2> QED
    BY <1>2, <2>1, <2>2 DEF Opening
<1>8. CASE ServeSubmit(q)
  <2>1. q.op = "submit" /\ row' = row /\ stale' = stale
    BY <1>8 DEF ServeSubmit
  <2>2. CASE Settle(q, Refused(q)) /\ UNCHANGED handlers
    BY <1>4, <2>1, <2>2
  <2>3. CASE Settle(q, {Answered(q)}) /\ UNCHANGED handlers
    BY <1>2, <1>3, <2>1, <2>3 DEF Opening
  <2>4. CASE Settle(q, {Served(q)}) /\ row.phase = "scoring" /\ GoesOn("scores", row, Heard(q), q.round)
    BY <1>2, <1>3, <2>1, <2>4 DEF Opening
  <2> QED
    BY <1>8, <2>2, <2>3, <2>4 DEF ServeSubmit
<1>9. CASE ServeAdvance(q)
  <2>1. q.op \in {"start", "advance"} /\ stale' = stale
    BY <1>9 DEF ServeAdvance, TabInv, RestOK
  <2>2. CASE MayAdvance
    <3> DEFINE a == [Served(q) EXCEPT !.row = NextRow]
    <3>1. a.op = q.op /\ a.at = "served"
      BY <1>3 DEF Request
    <3>2. Settle(q, {a}) /\ row' = NextRow /\ Announces(Heard(q), q.round)
      BY <1>9, <2>2 DEF ServeAdvance
    <3> HIDE DEF a
    <3> QED
      BY <1>2, <2>1, <2>2, <3>1, <3>2 DEF Opening
  <2>3. CASE ~MayAdvance
    BY <1>4, <1>9, <2>1, <2>3 DEF ServeAdvance
  <2> QED
    BY <2>2, <2>3
<1>10. CASE ServeEnd(q)
  <2>1. q.op = "end" /\ stale' = stale
    BY <1>10 DEF ServeEnd
  <2>2. CASE row.phase = "playing"
    <3>1. row' = Ended /\ Settle(q, {Served(q)}) /\ GoesOn("reload", Ended, Heard(q), q.round)
      BY <1>10, <2>2 DEF ServeEnd
    <3> QED
      BY <1>2, <1>3, <2>1, <2>2, <3>1 DEF Opening
  <2>3. CASE row.phase # "playing"
    BY <1>5, <1>10, <2>1, <2>3 DEF ServeEnd
  <2> QED
    BY <2>2, <2>3
<1> QED
  BY <1>6, <1>7, <1>8, <1>9, <1>10 DEF Serve

\* A broadcast that is handled leaves what follows it to tell of the row; what a load
\* will overwrite makes the view stale.
LEMMA ManyGameMessage ==
  ASSUME TabInv, ~Solo, ManyInv, GameMessage
  PROVE  ManyInv'
<1> DEFINE m == Head(chan)
<1> USE DEF ManyInv
<1>1. /\ chan \in Seq(Message) /\ chan # <<>> /\ chan' = Tail(chan)
      /\ UNCHANGED <<row, handlers, told>>
      /\ page = "game" /\ ws = "open" /\ ScreenOK /\ store \in Stores
      /\ store.round \in 0 .. NumRounds
  BY DEF GameMessage, TabInv, RestOK, ScreenOK, server, Stores
<1>2. /\ ToldOK' /\ (StateComing' <=> StateComing) /\ (StartComing' <=> StartComing)
      /\ \A type : At(chan', type) = {} => At(chan, type) = {} \/ m.type = type
  BY <1>1, SameSession, TellsRest
<1>12. ASSUME ~stale
       PROVE  /\ StateComing' \/ TellsPhase(chan', row.phase)
              /\ StartComing' \/ TellsRound(chan', row.round)
              /\ (m.type = "game_state" /\ PhaseSettled') => m.phase = row.phase
              /\ (m.type = "round_start" /\ RoundSettled') => m.round = row.round
              /\ m.type = "round_start" => ~PhaseSettled'
  BY <1>1, <1>2, <1>12, TellsRest DEF TellsRow, PhaseSettled, RoundSettled
<1>3. ASSUME page' = "blank", ws' = "none",
             \A p \in net' : p \in net \/ (p.op # "next" /\ p.at = "sent")
      PROVE  ManyInv'
  BY <1>2, <1>3 DEF TellsRow, Hears, TabShows
<1>4. ASSUME UNCHANGED <<page, ws>>,
             \A p \in net' : p \in net \/ (p.op # "next" /\ p.at = "sent"),
             m.type \in {"game_state", "round_start"} =>
               net' = net /\ (~stale' => ~stale /\ ~Loading),
             m.type \notin {"game_state", "round_start"} => (~stale' => ~stale),
             m.type = "game_state" => store'.phase = m.phase,
             m.type # "round_start" => store'.round = store.round,
             m.type \notin {"game_state", "round_start"} => store'.phase = store.phase,
             m.type = "round_start" => store'.round = m.round
      PROVE  ManyInv'
  <2>1. TellsRow'
    BY <1>1, <1>4, <1>12 DEF TellsRow
  <2>2. Hears'
    BY <1>4 DEF Hears
  <2>3. TabShows'
    <3> SUFFICES ASSUME ~stale' PROVE TabShows'
      BY DEF TabShows
    <3>1. CASE m.type \in {"game_state", "round_start"}
      <4>1. \A p \in net' : ~(p.op \in Opening /\ p.at = "back")
        BY <1>4, <3>1 DEF Loading, Opening
      <4>2. PhaseSettled' => store'.phase \in {"none", row'.phase}
        BY <1>1, <1>4, <1>12, <3>1
      <4>3. RoundSettled' => store'.round \in {0, row'.round}
        BY <1>1, <1>2, <1>4, <1>12, <3>1 DEF TabShows, RoundSettled
      <4> QED
        BY <4>1, <4>2, <4>3 DEF TabShows
    <3>2. CASE m.type \notin {"game_state", "round_start"}
      <4>1. Unheard
        BY <1>1, <1>2, <3>2 DEF Unheard, PhaseSettled, RoundSettled
      <4> QED
        BY <1>4, <3>2, <4>1, StillShows
    <3> QED
      BY <3>1, <3>2
  <2> QED
    BY <1>2, <2>1, <2>2, <2>3
<1>5. CASE GameState(m)
  <2> DEFINE s == [store EXCEPT !.phase = m.phase]
             u == [ui EXCEPT !.showScores = @ \/ m.phase = "scoring"]
  <2>1. s.phase = m.phase /\ s.round = store.round
    BY <1>1 DEF Stores
  <2>2. m.type = "game_state" /\ Render(s, u, FALSE) /\ net' = net
        /\ (~stale' => ~stale /\ ~Loading)
    BY <1>5 DEF GameState
  <2> HIDE DEF s, u
  <2>3. \/ page' = "blank" /\ ws' = "none"
        \/ store' = s /\ UNCHANGED <<page, ws>>
    BY <1>1, <2>2, RenderTakes
  <2> QED
    BY <1>3, <1>4, <2>1, <2>2, <2>3
<1>6. CASE RoundStart(m)
  <2> DEFINE s == [store EXCEPT !.round = m.round, !.phase = "playing",
                                !.scores = {}, !.results = NoResults]
             u == [ui EXCEPT !.showScores = FALSE, !.submitted = FALSE]
  <2>1. s.round = m.round
    BY <1>1 DEF Stores
  <2>2. m.type = "round_start" /\ Render(s, u, TRUE) /\ net' = net
        /\ (~stale' => ~stale /\ ~Loading)
    BY <1>6 DEF RoundStart
  <2> HIDE DEF s, u
  <2>3. \/ page' = "blank" /\ ws' = "none"
        \/ store' = s /\ UNCHANGED <<page, ws>>
    BY <1>1, <2>2, RenderTakes
  <2> QED
    BY <1>3, <1>4, <2>1, <2>2, <2>3
<1>7. CASE ScoresCome(m)
  <2> DEFINE s == [store EXCEPT !.scores = m.teams]
             a == Ask("results", NoRow, store.round)
  <2>1. s.phase = store.phase /\ s.round = store.round
    BY <1>1 DEF Stores
  <2>2. a.op = "results" /\ a.at = "sent"
    BY <1>1, AskLive, NoRowShape DEF Ops
  <2>3. m.type = "scores" /\ Render(s, ui, FALSE) /\ stale' = stale
        /\ (net' = net \/ net' = net \cup {a})
    BY <1>7 DEF ScoresCome
  <2> HIDE DEF s, a
  <2>4. \/ page' = "blank" /\ ws' = "none"
        \/ store' = s /\ UNCHANGED <<page, ws>>
    BY <1>1, <2>3, RenderTakes
  <2> QED
    BY <1>3, <1>4, <2>1, <2>2, <2>3, <2>4
<1>8. CASE RoundEnd(m)
  <2> DEFINE a == Ask("submit", NoRow, store.round)
  <2>1. a.op = "submit" /\ a.at = "sent"
    BY <1>1, AskLive, NoRowShape DEF Ops
  <2>2. m.type = "round_end" /\ UNCHANGED <<page, ws, store, stale>>
        /\ (net' = net \/ net' = net \cup {a})
    BY <1>8 DEF RoundEnd, AutoSubmit, Post
  <2> HIDE DEF a
  <2> QED
    BY <1>4, <2>1, <2>2
<1> QED
  BY <1>5, <1>6, <1>7, <1>8 DEF GameMessage

\* An answer brings to the screen what the session was when it was asked, which is what
\* it is unless a broadcast on its way says otherwise.
LEMMA ManyAnswer ==
  ASSUME TabInv, ~Solo, ManyInv, NEW q \in net, Answer(q)
  PROVE  ManyInv'
<1> USE DEF ManyInv
<1>1. /\ net \subseteq Request /\ q \in Request /\ q.at = "back" /\ page = "game"
      /\ UNCHANGED <<row, handlers, told>> /\ ToldOK'
      /\ (StateComing' <=> StateComing) /\ (StartComing' <=> StartComing)
      /\ store \in Stores /\ ScreenOK /\ q.op # "next" /\ q.op # "advance"
  BY SameSession DEF TabInv, RestOK, Answer, server, ScreenOK, Hears
<1>2. ASSUME \/ page' = "blank" /\ ws' = "none"
             \/ /\ UNCHANGED <<page, ws>> /\ chan' = chan
                /\ store'.phase = store.phase /\ store'.round = store.round
                /\ ~stale' => ~stale,
             \/ net' = net \ {q}
             \/ \E a : /\ net' = (net \ {q}) \cup {a}
                       /\ a.op \notin {"next", "advance"}
                       /\ (a.op \in Opening /\ a.live /\ a.at = "back") =>
                            q.op \in Opening /\ q.live /\ a.row = q.row
      PROVE  ManyInv'
  <2>1. Hears'
    BY <1>2 DEF Hears
  <2>2. CASE page' = "blank" /\ ws' = "none"
    BY <1>1, <2>1, <2>2 DEF TellsRow, TabShows
  <2>3. CASE /\ UNCHANGED <<page, ws>> /\ chan' = chan
             /\ store'.phase = store.phase /\ store'.round = store.round
             /\ ~stale' => ~stale
    <3>1. TellsRow' /\ Unheard
      BY <1>1, <2>3, SameSession DEF TellsRow
    <3>2. \A p \in net' : (p.op \in Opening /\ p.live /\ p.at = "back") =>
            \E o \in net : o.op \in Opening /\ o.live /\ o.at = "back" /\ o.row = p.row
      BY <1>1, <1>2
    <3>3. TabShows'
      BY <2>3, <3>1, <3>2, StillShows
    <3> QED
      BY <1>1, <2>1, <3>1, <3>3
  <2> QED
    BY <1>2, <2>2, <2>3
<1>3. CASE ApplyLoad(q)
  <2> DEFINE a == Then(q, "round")
  <2>1. a.op = "round" /\ a.row = q.row /\ a.live = q.live
    BY <1>1, ThenFields
  <2>2. store'.phase = store.phase /\ store'.round = store.round
    BY <1>1, <1>3 DEF ApplyLoad, Stores
  <2>3. /\ q.op = "load" /\ UNCHANGED <<page, ws, chan, stale>>
        /\ net' = net \ {q} \/ net' = (net \ {q}) \cup {a}
    BY <1>3 DEF ApplyLoad, Forget, Replace, history
  <2> HIDE DEF a
  <2> QED
    BY <1>2, <2>1, <2>2, <2>3 DEF Opening
<1>4. CASE ApplyRound(q)
  <2> DEFINE s == [store EXCEPT !.round = q.row.round, !.phase = q.row.phase]
             a == Then(q, "restore")
  <2>1. s.phase = q.row.phase /\ s.round = q.row.round
    BY <1>1 DEF Stores
  <2>2. a.op = "restore" /\ a.op \notin Opening
    BY <1>1, ThenFields DEF Opening
  <2>3. /\ q.op = "round" /\ Render(s, ui, TRUE) /\ chan' = chan
        /\ net' = net \ {q} \/ net' = (net \ {q}) \cup {a}
        /\ ~stale' => ~stale /\ q.live
    BY <1>4 DEF ApplyRound, Forget, Replace
  <2> HIDE DEF s, a
  <2>4. \/ page' = "blank" /\ ws' = "none"
        \/ store' = s /\ UNCHANGED <<page, ws>>
    BY <1>1, <2>3, RenderTakes
  <2>5. CASE page' = "blank" /\ ws' = "none"
    BY <1>2, <2>2, <2>3, <2>5
  <2>6. CASE store' = s /\ UNCHANGED <<page, ws>>
    <3>1. TellsRow'
      BY <1>1, <2>3, <2>6 DEF TellsRow
    <3>2. Hears'
      BY <2>2, <2>3, <2>6 DEF Hears
    <3>3. TabShows'
      <4> SUFFICES ASSUME ~stale' PROVE TabShows'
        BY DEF TabShows
      <4>1. q.op \in Opening /\ q.live /\ ~stale
        BY <2>3 DEF Opening
      <4> QED
        BY <1>1, <2>1, <2>2, <2>3, <2>6, <4>1 DEF TabShows, PhaseSettled, RoundSettled
    <3> QED
      BY <1>1, <3>1, <3>2, <3>3
  <2> QED
    BY <2>4, <2>5, <2>6
<1>5. CASE ApplyResults(q)
  <2> DEFINE s == [store EXCEPT !.results = [round |-> q.round, teams |-> q.teams]]
  <2>1. s.phase = store.phase /\ s.round = store.round
    BY <1>1 DEF Stores
  <2>2. Render(s, ui, TRUE) /\ net' = net \ {q} /\ UNCHANGED <<chan, stale>>
    BY <1>5 DEF ApplyResults, Forget, history
  <2> HIDE DEF s
  <2>3. \/ page' = "blank" /\ ws' = "none"
        \/ store' = s /\ UNCHANGED <<page, ws>>
    BY <1>1, <2>2, RenderTakes
  <2> QED
    BY <1>2, <2>1, <2>2, <2>3
<1>6. CASE ApplyReveal(q)
  <2> DEFINE s == [store EXCEPT !.results = [round |-> q.round, teams |-> q.teams],
                                !.scores = q.teams]
             u == Local(q, [ui EXCEPT !.showScores = TRUE,
                                      !.submitting = @ /\ q.op # "reveal"])
  <2>1. s.phase = store.phase /\ s.round = store.round
    BY <1>1 DEF Stores
  <2>2. Render(s, u, TRUE) /\ net' = net \ {q} /\ UNCHANGED <<chan, stale>>
    BY <1>6 DEF ApplyReveal, Forget, history
  <2> HIDE DEF s, u
  <2>3. \/ page' = "blank" /\ ws' = "none"
        \/ store' = s /\ UNCHANGED <<page, ws>>
    BY <1>1, <2>2, RenderTakes
  <2> QED
    BY <1>2, <2>1, <2>2, <2>3
<1>7. CASE ApplySubmit(q) \/ ApplyFailure(q)
  <2>1. net' = net \ {q} /\ UNCHANGED <<chan, page, ws, store, stale>>
    BY <1>7 DEF ApplySubmit, ApplyFailure, Forget, history
  <2> QED
    BY <1>2, <2>1
<1>8. CASE Nothing(q)
  <2>1. net' = net \ {q} /\ UNCHANGED <<chan, page, ws, store, stale>>
    BY <1>8 DEF Nothing, Forget, screen, history
  <2> QED
    BY <1>2, <2>1
<1> QED
  BY <1>1, <1>3, <1>4, <1>5, <1>6, <1>7, <1>8 DEF Answer, ApplyAdvance, ApplyNext

\* Off the game screen an answer opens the game, or changes nothing.
LEMMA ManyElsewhere ==
  ASSUME TabInv, ManyInv, NEW q \in net, AnswerElsewhere(q)
  PROVE  ManyInv'
<1> USE DEF ManyInv
<1>1. net \subseteq Request /\ page # "game" /\ UNCHANGED <<row, handlers, told>>
  BY DEF TabInv, RestOK, AnswerElsewhere, server
<1>2. CASE ApplyStart(q)
  <2>1. net \ {q} \subseteq Request /\ Enter(Left(net \ {q}))
    BY <1>1, <1>2 DEF ApplyStart
  <2>2. \A p \in Left(net \ {q}) : ~p.live /\ p.op # "next" /\ (p.op = "advance" => p.at # "back")
    BY <2>1, LeftFields DEF Hears
  <2> QED
    BY <1>1, <2>1, <2>2, ManyOpens
<1>3. CASE Nothing(q)
  <2>1. net' = net \ {q} /\ UNCHANGED <<chan, page, ws, stale>>
    BY <1>3 DEF Nothing, Forget, screen, history
  <2> QED
    BY <1>1, <2>1, SameSession DEF TellsRow, Hears, TabShows
<1> QED
  BY <1>2, <1>3 DEF AnswerElsewhere

\* Every step of a multiplayer game is followed.
LEMMA ManyStep ==
  ASSUME TabInv, ~Solo, ManyInv, [Next]_vars
  PROVE  ManyInv'
<1>1. CASE UNCHANGED vars
  <2>1. UNCHANGED <<row, handlers, told, chan, net, page, ws, store, stale>>
    BY <1>1 DEF vars
  <2>2. UNCHANGED <<PhaseSettled, RoundSettled>>
    BY <2>1 DEF PhaseSettled, RoundSettled, At, StateComing, StartComing
  <2>3. TabShows'
    BY <2>1, <2>2 DEF ManyInv, TabShows
  <2> QED
    BY <2>1, <2>3, SameSession DEF ManyInv, TellsRow, Hears
<1>2. CASE Next
  BY <1>2, ManyAround, ManyHandlers, ManyUser, ManyServe, ManyGameMessage, ManyAnswer,
     ManyElsewhere DEF Next
<1> QED
  BY <1>1, <1>2

-----------------------------------------------------------------------------
(* What the tab shows                                                      *)

\* The invariant holds at first.
LEMMA ViewInit == Init => ViewInv
<1> SUFFICES ASSUME Init PROVE ViewInv
  OBVIOUS
<1>1. /\ Ask("load", NoRow, 0).op = "load" /\ Ask("load", NoRow, 0).row = NoRow
      /\ Ask("load", NoRow, 0).live /\ Ask("load", NoRow, 0).at = "sent"
  BY AskLive, NoRowShape DEF Ops
<1>2. /\ store.phase = "none" /\ store.round = 0 /\ store.scores = {} /\ ~store.loaded
      /\ chan = <<>> /\ ws = "connecting" /\ NoRow.phase # "scoring"
  BY DEF Init, EmptyStore, NoRow
<1>3. ASSUME Solo PROVE SoloInv
  <2>1. /\ net = {Ask("load", NoRow, 0)} /\ page = "game" /\ row.phase = "playing"
        /\ map.kind = MapKind(store, ui) /\ handlers = {} /\ adrift = {}
    BY <1>2, <1>3 DEF Init, MapKind, NewMap
  <2> QED
    BY <1>1, <1>2, <2>1 DEF SoloInv, SoloPlays, SoloInTurn, SoloShows, Opening, Moving, Posting
<1>4. ASSUME ~Solo PROVE ManyInv
  <2>1. net = {} /\ page = "lobby"
    BY <1>4 DEF Init
  <2> QED
    <3>1. /\ handlers = {} /\ told = 0 /\ row.phase = "waiting" /\ row.round = 0
      BY <1>4 DEF Init
    <3>2. Turn(row) = 0
      BY <3>1 DEF Turn
    <3>3. ToldOK
      BY <3>1, <3>2 DEF ToldOK
    <3> QED
      BY <1>2, <2>1, <3>3, TellsNothing DEF ManyInv, TellsRow, Hears, TabShows
<1> QED
  BY <1>3, <1>4, TabInit DEF ViewInv

\* Every step keeps it.
LEMMA ViewStep == ViewInv /\ [Next]_vars => ViewInv'
<1> SUFFICES ASSUME ViewInv, [Next]_vars PROVE ViewInv'
  OBVIOUS
<1>1. Solo' <=> Solo
  BY RoleStays DEF Solo
<1> QED
  BY <1>1, SoloStep, ManyStep, TabStep DEF ViewInv

\* The inductive invariant: a solo game takes its steps one at a time, and a multiplayer
\* tab differs from the session by the broadcasts on their way.
THEOREM ViewInvariant == Spec => []ViewInv
BY ViewInit, ViewStep, PTL DEF Spec

\* Once nothing is on its way, a view that none of the named ways made stale shows the
\* phase of the session and the round being played, for any number of rounds, requests,
\* broadcasts, lost connections and reloads.
THEOREM TabShowsSession == Spec => []ShowsSession
<1>1. ViewInv => ShowsSession
  <2> SUFFICES ASSUME ViewInv, Settled, ~stale, store.phase # "none"
               PROVE  store.phase = row.phase /\ store.round \in {0, row.round}
    BY DEF ShowsSession
  <2>1. CASE Solo
    <3>1. page = "game" /\ \A q \in net : q.op \notin Moving
      BY <2>1 DEF Settled, Advancing, Moving, ViewInv, SoloInv, SoloInTurn
    <3> QED
      BY <2>1, <3>1 DEF ViewInv, SoloInv, SoloShows
  <2>2. CASE ~Solo
    <3>1. page = "game" /\ chan = <<>> /\ ~StateComing /\ ~StartComing
      BY DEF Settled, StateComing, StartComing
    <3> QED
      BY <2>2, <3>1, TellsNothing DEF ViewInv, ManyInv, TabShows, PhaseSettled, RoundSettled
  <2> QED
    BY <2>1, <2>2
<1> QED
  BY <1>1, ViewInvariant, PTL

\* Solo and demo play never lose the page, however the user presses Submit and Next Round
\* and however late the answers come.
THEOREM TabSoloKeepsPage == Spec => []SoloKeepsPage
<1>1. ViewInv => SoloKeepsPage
  BY DEF ViewInv, SoloInv, SoloPlays, SoloKeepsPage
<1> QED
  BY <1>1, ViewInvariant, PTL

-----------------------------------------------------------------------------
(* The session of the tab is one of RoundProtocol's                         *)

\* What any step does to the row: it is advanced when it may be, or its round ends, which
\* a solo tab never asks for.
LEMMA RowMoves ==
  ASSUME ViewInv, [Next]_vars
  PROVE  \/ row' = row
         \/ MayAdvance /\ row' = NextRow
         \/ ~Solo /\ row.phase = "playing" /\ row' = Ended
<1>1. \/ row' = row
      \/ MayAdvance /\ row' = NextRow
      \/ row.phase = "playing" /\ row' = Ended
  BY ServerMoves DEF ViewInv, TabInv
<1>2. Solo => row'.phase # "scoring"
  BY ViewStep, RoleStays DEF Solo, ViewInv, SoloInv, SoloPlays
<1>3. Ended.phase = "scoring"
  BY EndedShape DEF ViewInv, TabInv
<1> QED
  BY <1>1, <1>2, <1>3

\* So each of its steps is one of RoundProtocol's, for the kind of session it is.
LEMMA RowMovesByProtocol ==
  ASSUME ViewInv, [Next]_vars, row' # row
  PROVE  \E kind \in {"multi", "solo", "demo"} : kind = KindOfTab /\ Protocol(kind)!Next
<1> DEFINE here == "here"
<1>1. /\ row.phase \in Phases /\ row.round \in 0 .. NumRounds /\ row \in Row
      /\ row.phase = "finished" => row.round = NumRounds
      /\ NumRounds \in Nat
  BY BoundAssumption DEF ViewInv, TabInv, RestOK, RowOK, Row
<1>2. PICK kind \in {"multi", "solo", "demo"} : kind = KindOfTab
  BY DEF KindOfTab, Solo
<1>3. CASE ~Solo /\ row.phase = "playing" /\ row' = Ended
  <2>1. kind = "multi"
    BY <1>2, <1>3 DEF KindOfTab
  <2>2. row'.phase = "scoring" /\ row'.round = row.round
    BY <1>3, EndedShape DEF ViewInv, TabInv
  <2>3. Protocol(kind)!End(here)
    BY <1>3, <2>1, <2>2 DEF Protocol!End
  <2> QED
    BY <1>2, <2>3 DEF Protocol!Next
<1>4. CASE MayAdvance /\ row' = NextRow
  <2>1. row.phase \in {"waiting", "scoring"} \/ (kind # "multi" /\ row.phase = "playing")
    <3>1. CASE role = "demo"
      <4>1. row.phase \in {"playing", "finished"} /\ kind = "demo"
        BY <1>2, <3>1 DEF KindOfTab, Solo, ViewInv, SoloInv, SoloPlays
      <4>2. row.phase # "finished"
        BY <1>1, <1>4 DEF NextRow, Row
      <4> QED
        BY <4>1, <4>2
    <3>2. CASE role = "solo"
      BY <1>2, <1>4, <3>2 DEF MayAdvance, KindOfTab, Solo, ViewInv, SoloInv, SoloPlays
    <3>3. CASE role \notin {"demo", "solo"}
      BY <1>4, <3>3 DEF MayAdvance
    <3> QED
      BY <3>1, <3>2, <3>3
  <2>2. Protocol(kind)!MayAdvance(here)
    BY <2>1 DEF Protocol!MayAdvance
  <2>3. CASE row.round < NumRounds
    <3>1. row'.phase = "playing" /\ row'.round = row.round + 1 /\ row.round + 1 > row.round
      BY <1>1, <1>4, <2>3 DEF NextRow
    <3>2. Protocol(kind)!Play(here, row.round + 1)
      BY <3>1 DEF Protocol!Play
    <3>3. Protocol(kind)!Begin(here)
      BY <2>2, <2>3, <3>2 DEF Protocol!Begin
    <3> QED
      BY <1>2, <3>3 DEF Protocol!Next
  <2>4. CASE row.round = NumRounds
    <3>1. row'.phase = "finished" /\ row'.round = NumRounds
      BY <1>1, <1>4, <2>4 DEF NextRow, Row
    <3>2. Protocol(kind)!Over(here)
      BY <2>4, <3>1 DEF Protocol!Over
    <3>3. Protocol(kind)!Finish(here)
      BY <2>2, <2>4, <3>2 DEF Protocol!Finish
    <3> QED
      BY <1>2, <3>3 DEF Protocol!Next
  <2> QED
    BY <1>1, <2>3, <2>4
<1> QED
  BY <1>3, <1>4, RowMoves

\* What the tab's model presumes of the server is a behaviour of RoundProtocol, which the
\* handlers implement: rounds are played in order, and a finished game stays finished.
THEOREM TabFollowsProtocol == Spec => RowFollowsProtocol
<1>1. ViewInv /\ [Next]_vars =>
        [\E kind \in {"multi", "solo", "demo"} : kind = KindOfTab /\ Protocol(kind)!Next]_row
  BY RowMovesByProtocol
<1> QED
  BY <1>1, ViewInvariant, PTL DEF Spec, RowFollowsProtocol

-----------------------------------------------------------------------------
(* Submit is held back only by a submission                                *)

Holds(q) == q.live /\ q.op \in Posting

LEMMA HeldKept ==
  ASSUME SubmittingIsUnderWay,
         page' = "game" => page = "game",
         page' = "game" /\ ui'.submitting => ui.submitting,
         \A q \in net : Holds(q) => \E p \in net' : Holds(p)
  PROVE  SubmittingIsUnderWay'
BY DEF SubmittingIsUnderWay, Holds, Posting

\* A view that opens has submitted nothing.
LEMMA EnterHolds == ASSUME NEW requests, Enter(requests) PROVE SubmittingIsUnderWay'
BY DEF Enter, FreshUi, SubmittingIsUnderWay

\* A drawing is posted for the view on the page.
LEMMA PostHolds == ASSUME TabInv, Post PROVE SubmittingIsUnderWay'
<1>1. store.round \in 0 .. NumRounds
  BY DEF TabInv, ScreenOK, Stores
<1>2. Ask("submit", NoRow, store.round).op = "submit" /\ Ask("submit", NoRow, store.round).live
  BY <1>1, AskLive, NoRowShape DEF Ops
<1> QED
  BY <1>2 DEF Post, SubmittingIsUnderWay

\* What is rendered neither submits nor ends a submission, unless it says so.
LEMMA RenderHolds ==
  ASSUME ScreenOK, NEW s, NEW u, NEW drawn, Render(s, u, drawn)
  PROVE  /\ page' = "game" => page = "game"
         /\ page' = "game" /\ ui'.submitting => ui.submitting \/ u.submitting
  BY RenderTakes

\* What failed is still known to the tab, if it was a submission.
LEMMA RefusedHolds ==
  ASSUME NEW q \in Request, Holds(q)
  PROVE  \E a \in Refused(q) : Holds(a)
BY RefusedShape DEF Holds, Posting

\* The server answers, or does not, with the submission still known to the tab.
LEMMA ServeHolds ==
  ASSUME TabInv, SubmittingIsUnderWay, NEW q \in net \cup adrift, Serve(q)
  PROVE  SubmittingIsUnderWay'
<1>1. q \in Request /\ UNCHANGED <<page, ui>>
  BY DEF TabInv, RestOK, Serve, screen
<1>2. ASSUME NEW answers, Settle(q, answers), Holds(q) => \E a \in answers : Holds(a)
      PROVE  SubmittingIsUnderWay'
  <2>1. \A p \in net : Holds(p) => \E a \in net' : Holds(a)
    BY <1>2 DEF Settle
  <2> QED
    BY <1>1, <2>1, HeldKept
<1>3. /\ Answered(q) \in Request /\ Answered(q).op = q.op /\ Answered(q).live = q.live
      /\ Served(q).op = q.op /\ Served(q).live = q.live
  BY <1>1, AnsweredShape
<1>4. ASSUME Settle(q, Refused(q)) PROVE SubmittingIsUnderWay'
  BY <1>1, <1>2, <1>4, RefusedHolds
<1>5. CASE ServeClear(q)
  BY <1>2, <1>5 DEF ServeClear, Holds, Posting
<1>6. CASE ServeRead(q)
  <2> DEFINE a == [Answered(q) EXCEPT
                     !.row = IF q.op = "load" THEN row ELSE @,
                     !.teams = IF q.op = "load" THEN {} ELSE Scored(q.round, routes)]
  <2>1. a.op = q.op /\ a.live = q.live
    BY <1>3 DEF Request
  <2>2. Settle(q, {a})
    BY <1>6 DEF ServeRead
  <2> HIDE DEF a
  <2> QED
    BY <1>2, <2>1, <2>2 DEF Holds
<1>7. CASE ServeSubmit(q)
  <2>1. Settle(q, Refused(q)) \/ Settle(q, {Answered(q)}) \/ Settle(q, {Served(q)})
    BY <1>7 DEF ServeSubmit
  <2> QED
    BY <1>2, <1>3, <1>4, <2>1 DEF Holds
<1>8. CASE ServeAdvance(q) \/ ServeEnd(q)
  <2>1. ~Holds(q) /\ \E answers : Settle(q, answers)
    BY <1>8 DEF ServeAdvance, ServeEnd, Holds, Posting
  <2> QED
    BY <1>2, <2>1
<1> QED
  BY <1>5, <1>6, <1>7, <1>8 DEF Serve

\* A request that fails is refused; so is one whose handler was stopped.
LEMMA LossHolds ==
  ASSUME TabInv, SubmittingIsUnderWay,
         ServerStops \/ (\E q \in net : Fail(q)) \/ (\E h \in handlers : HandlerStep(h))
  PROVE  SubmittingIsUnderWay'
<1>1. net \subseteq Request
  BY DEF TabInv, RestOK
<1>2. ASSUME NEW q \in net, Fail(q) PROVE SubmittingIsUnderWay'
  <2>1. net' = (net \ {q}) \cup Refused(q) /\ UNCHANGED <<page, ui>>
    BY <1>2 DEF Fail, screen
  <2>2. \A p \in net : Holds(p) => \E a \in net' : Holds(a)
    BY <1>1, <2>1, RefusedHolds
  <2> QED
    BY <2>1, <2>2, HeldKept
<1>3. CASE ServerStops
  <2>1. /\ UNCHANGED <<page, ui>>
        /\ \A p \in net : p \in net' \/ Refused(p) \subseteq net'
    BY <1>3 DEF ServerStops
  <2>2. \A p \in net : Holds(p) => \E a \in net' : Holds(a)
    BY <1>1, <2>1, RefusedHolds
  <2> QED
    BY <2>1, <2>2, HeldKept
<1>4. ASSUME NEW h \in handlers, HandlerStep(h) PROVE SubmittingIsUnderWay'
  <2>1. UNCHANGED <<page, ui>>
    BY <1>4 DEF HandlerStep, screen
  <2>2. \A p \in net : Holds(p) => \E a \in net' : Holds(a)
    <3>1. CASE net' = net
      BY <3>1
    <3>2. CASE WritesAnswer(h)
      <4>1. ASSUME NEW q \in net, WaitsFor(q, h),
                   IF q.op \in {"start", "submit"} THEN Replace(q, Answered(q)) ELSE Forget(q)
            PROVE  \A p \in net : Holds(p) => \E a \in net' : Holds(a)
        <5>1. Answered(q).op = q.op /\ Answered(q).live = q.live
          BY <1>1, AnsweredShape
        <5>2. q.op \in Posts \cup {"none"}
          BY <4>1 DEF WaitsFor, TabInv, RestOK, Handler
        <5>3. CASE q.op \in {"start", "submit"}
          BY <4>1, <5>1, <5>3 DEF Replace, Holds
        <5>4. CASE q.op \notin {"start", "submit"}
          BY <4>1, <5>2, <5>4 DEF Forget, Holds, Posting, Posts
        <5> QED
          BY <5>3, <5>4
      <4> QED
        BY <3>2, <4>1 DEF WritesAnswer
    <3> QED
      BY <1>4, <3>1, <3>2 DEF HandlerStep, BroadcastToSession, ReloadSession, GivesUp
  <2> QED
    BY <2>1, <2>2, HeldKept
<1> QED
  BY <1>2, <1>3, <1>4

\* An answer that ends a submission gives Submit back, or asks for the reveal.
LEMMA AnswerHolds ==
  ASSUME TabInv, SubmittingIsUnderWay, NEW q \in net, Answer(q)
  PROVE  SubmittingIsUnderWay'
<1>1. net \subseteq Request /\ q \in Request /\ ui \in Uis /\ ScreenOK /\ q.round \in 0 .. NumRounds
  BY DEF TabInv, RestOK, ScreenOK, Request
<1>2. ASSUME q.op \notin Posting \/ ~q.live, Forget(q),
             page' = "game" => page = "game", page' = "game" /\ ui'.submitting => ui.submitting
      PROVE  SubmittingIsUnderWay'
  BY <1>2, HeldKept DEF Forget, Holds
<1>3. ASSUME NEW a, q.op \notin Posting, Replace(q, a),
             page' = "game" => page = "game", page' = "game" /\ ui'.submitting => ui.submitting
      PROVE  SubmittingIsUnderWay'
  BY <1>3, HeldKept DEF Replace, Holds
<1>4. CASE ApplyLoad(q)
  BY <1>2, <1>3, <1>4 DEF ApplyLoad, Posting
<1>5. CASE ApplyRound(q)
  <2>1. (page' = "game" => page = "game") /\ (page' = "game" /\ ui'.submitting => ui.submitting)
    BY <1>1, <1>5, RenderHolds DEF ApplyRound
  <2> QED
    BY <1>2, <1>3, <1>5, <2>1 DEF ApplyRound, Posting
<1>6. CASE ApplyResults(q)
  <2>1. (page' = "game" => page = "game") /\ (page' = "game" /\ ui'.submitting => ui.submitting)
    BY <1>1, <1>6, RenderHolds DEF ApplyResults
  <2> QED
    BY <1>2, <1>6, <2>1 DEF ApplyResults, Posting
<1>7. CASE ApplyReveal(q)
  <2> DEFINE v == [ui EXCEPT !.showScores = TRUE, !.submitting = @ /\ q.op # "reveal"]
             u == Local(q, v)
             s == [store EXCEPT !.results = [round |-> q.round, teams |-> q.teams],
                                !.scores = q.teams]
  <2>1. v.submitting <=> (ui.submitting /\ q.op # "reveal")
    BY <1>1 DEF Uis
  <2>2. /\ ~q.live => u.submitting = ui.submitting
        /\ q.live => (u.submitting <=> (ui.submitting /\ q.op # "reveal"))
    BY <2>1 DEF Local
  <2>3. Render(s, u, TRUE) /\ Forget(q) /\ q.op \in {"restore", "reveal"}
    BY <1>7 DEF ApplyReveal
  <2> HIDE DEF u, s, v
  <2>4. \/ page' = "blank"
        \/ page' = page /\ ui' = u
    BY <1>1, <2>3, RenderTakes
  <2>5. CASE page' = "blank"
    BY <2>5 DEF SubmittingIsUnderWay
  <2>6. CASE page' = page /\ ui' = u /\ (q.op = "restore" \/ ~q.live)
    <3>1. page' = "game" /\ ui'.submitting => ui.submitting
      BY <2>2, <2>6
    <3> QED
      BY <1>2, <2>3, <2>6, <3>1 DEF Posting
  <2>7. CASE page' = page /\ ui' = u /\ q.op = "reveal" /\ q.live
    BY <2>2, <2>7 DEF SubmittingIsUnderWay
  <2> QED
    BY <2>3, <2>4, <2>5, <2>6, <2>7
<1>8. CASE ApplySubmit(q)
  <2> DEFINE v == [ui EXCEPT !.submitted = TRUE, !.submitting = Solo]
             r == Ask("reveal", NoRow, q.round)
             a == [r EXCEPT !.live = q.live]
  <2>1. r \in Request /\ r.op = "reveal"
    BY <1>1, AskLive, NoRowShape DEF Ops
  <2> HIDE DEF r
  <2>2. a.op = "reveal" /\ a.live = q.live
    BY <2>1 DEF Request
  <2>3. v.submitting <=> Solo
    BY <1>1 DEF Uis
  <2>4. ui' = Local(q, v) /\ page' = page /\ (IF Solo THEN Replace(q, a) ELSE Forget(q))
    BY <1>8 DEF ApplySubmit, r
  <2> HIDE DEF a, v
  <2>5. CASE ~q.live
    <3>1. ui' = ui
      BY <2>4, <2>5 DEF Local
    <3>2. \A p \in net : Holds(p) => p \in net'
      BY <2>4, <2>5 DEF Replace, Forget, Holds
    <3> QED
      BY <2>4, <3>1, <3>2, HeldKept
  <2>6. CASE q.live /\ Solo
    <3>1. a \in net' /\ a.live /\ a.op = "reveal"
      BY <2>2, <2>4, <2>6 DEF Replace
    <3> QED
      BY <3>1 DEF SubmittingIsUnderWay
  <2>7. CASE q.live /\ ~Solo
    <3>1. ~ui'.submitting
      BY <2>3, <2>4, <2>7 DEF Local
    <3> QED
      BY <3>1 DEF SubmittingIsUnderWay
  <2> QED
    BY <2>5, <2>6, <2>7
<1>9. ASSUME NextRound(q), q.op \notin Posting PROVE SubmittingIsUnderWay'
  <2> DEFINE v == [ui EXCEPT !.showScores = FALSE, !.submitted = FALSE]
  <2>1. v.submitting = ui.submitting
    BY <1>1 DEF Uis
  <2>2. Local(q, v).submitting = ui.submitting
    BY <2>1 DEF Local
  <2> HIDE DEF v
  <2>3. (page' = "game" => page = "game") /\ (page' = "game" /\ ui'.submitting => ui.submitting)
    BY <1>1, <1>9, <2>2, RenderHolds DEF NextRound, v
  <2> QED
    BY <1>2, <1>9, <2>3 DEF NextRound
<1>10. ASSUME GameIsOver(q), q.op \notin Posting PROVE SubmittingIsUnderWay'
  <2> DEFINE v == [ui EXCEPT !.showScores = FALSE]
  <2>1. v.submitting = ui.submitting
    BY <1>1 DEF Uis
  <2>2. Local(q, v).submitting = ui.submitting
    BY <2>1 DEF Local
  <2> HIDE DEF v
  <2>3. (page' = "game" => page = "game") /\ (page' = "game" /\ ui'.submitting => ui.submitting)
    BY <1>1, <1>10, <2>2, RenderHolds DEF GameIsOver, v
  <2> QED
    BY <1>2, <1>10, <2>3 DEF GameIsOver
<1>11. CASE ApplyAdvance(q)
  <2>1. q.op \notin Posting
    BY <1>11 DEF ApplyAdvance, Posting
  <2>2. CASE Replace(q, Then(q, "next")) /\ UNCHANGED screen
    BY <1>3, <2>1, <2>2 DEF screen
  <2> QED
    BY <1>9, <1>10, <1>11, <2>1, <2>2 DEF ApplyAdvance
<1>12. CASE ApplyNext(q)
  BY <1>9, <1>12 DEF ApplyNext, Posting
<1>13. CASE ApplyFailure(q)
  <2> DEFINE v == [ui EXCEPT !.submitting = FALSE]
  <2>1. ~v.submitting
    BY <1>1 DEF Uis
  <2>2. ui' = Local(q, v) /\ page' = page /\ Forget(q)
    BY <1>13 DEF ApplyFailure
  <2> HIDE DEF v
  <2>3. CASE q.live
    BY <2>1, <2>2, <2>3 DEF Local, SubmittingIsUnderWay
  <2>4. CASE ~q.live
    BY <1>2, <2>2, <2>4 DEF Local
  <2> QED
    BY <2>3, <2>4
<1>14. CASE Unheeded(q) /\ Nothing(q)
  BY <1>2, <1>14 DEF Unheeded, Nothing, screen, Posting
<1> QED
  BY <1>4, <1>5, <1>6, <1>7, <1>8, <1>11, <1>12, <1>13, <1>14 DEF Answer

\* A broadcast takes the submission of its round along.
LEMMA MessageHolds ==
  ASSUME TabInv, SubmittingIsUnderWay, GameMessage
  PROVE  SubmittingIsUnderWay'
<1> DEFINE m == Head(chan)
<1>1. ui \in Uis /\ ScreenOK
  BY DEF TabInv, ScreenOK
<1>2. CASE GameState(m) \/ RoundStart(m)
  <2> DEFINE v == [ui EXCEPT !.showScores = @ \/ m.phase = "scoring"]
             w == [ui EXCEPT !.showScores = FALSE, !.submitted = FALSE]
  <2>1. v.submitting = ui.submitting /\ w.submitting = ui.submitting
    BY <1>1 DEF Uis
  <2>2. net' = net /\ \E s, drawn : Render(s, v, drawn) \/ Render(s, w, drawn)
    BY <1>2 DEF GameState, RoundStart
  <2> HIDE DEF v, w
  <2>3. (page' = "game" => page = "game") /\ (page' = "game" /\ ui'.submitting => ui.submitting)
    BY <1>1, <2>1, <2>2, RenderHolds
  <2> QED
    BY <2>2, <2>3, HeldKept
<1>3. CASE ScoresCome(m)
  <2>1. (page' = "game" => page = "game") /\ (page' = "game" /\ ui'.submitting => ui.submitting)
    BY <1>1, <1>3, RenderHolds DEF ScoresCome
  <2>2. net \subseteq net'
    BY <1>3 DEF ScoresCome
  <2> QED
    BY <2>1, <2>2, HeldKept
<1>4. CASE RoundEnd(m)
  <2>1. CASE CanPost
    BY <1>4, <2>1, PostHolds DEF RoundEnd, AutoSubmit
  <2>2. CASE ~CanPost
    BY <1>4, <2>2, HeldKept DEF RoundEnd, AutoSubmit
  <2> QED
    BY <2>1, <2>2
<1> QED
  BY <1>2, <1>3, <1>4 DEF GameMessage

LEMMA SubmittingStep ==
  ASSUME TabInv, SubmittingIsUnderWay, [Next]_vars
  PROVE  SubmittingIsUnderWay'
<1>1. CASE \/ (\E q \in net \cup adrift : Serve(q)) \/ (\E q \in net : Fail(q) \/ Answer(q))
           \/ ServerStops \/ \E h \in handlers : HandlerStep(h)
  BY <1>1, ServeHolds, LossHolds, AnswerHolds
<1>2. ASSUME NEW q \in net, AnswerElsewhere(q) PROVE SubmittingIsUnderWay'
  <2>1. CASE ApplyStart(q)
    BY <2>1, EnterHolds DEF ApplyStart
  <2>2. CASE Nothing(q)
    BY <1>2, <2>2 DEF AnswerElsewhere, Nothing, screen, SubmittingIsUnderWay
  <2> QED
    BY <1>2, <2>1, <2>2 DEF AnswerElsewhere
<1>3. CASE GameMessage
  BY <1>3, MessageHolds
<1>4. CASE HandleSubmit
  BY <1>4, PostHolds DEF HandleSubmit
<1>5. CASE LobbyMessage
  BY <1>5, EnterHolds, HeldKept DEF LobbyMessage, screen
<1>6. CASE Reload
  BY <1>6, EnterHolds DEF Reload
<1>7. CASE Exit \/ GoHome
  <2>1. page' # "game"
    BY <1>7 DEF Exit, GoHome
  <2> QED
    BY <2>1 DEF SubmittingIsUnderWay
<1>8. ASSUME net \subseteq net', page' = page, ui' = ui PROVE SubmittingIsUnderWay'
  BY <1>8, HeldKept
<1>9. ASSUME NEW t, \/ HandleStart \/ SocketOpens \/ SocketCloses \/ Reconnect \/ GuideAdvances
                    \/ RoundEnds \/ OthersSubmit(t) \/ HandleClearRoute(t) \/ MapLoads \/ Draw
                    \/ HandleScoreContinue \/ HandleEndRound \/ UNCHANGED vars
      PROVE  net \subseteq net' /\ page' = page /\ ui' = ui
  BY <1>9 DEF HandleStart, SocketOpens, SocketCloses, Reconnect, GuideAdvances, RoundEnds,
              OthersSubmit, HandleClearRoute, MapLoads, Draw, HandleScoreContinue,
              HandleEndRound, vars, screen, Chooses
<1> QED
  BY <1>1, <1>2, <1>3, <1>4, <1>5, <1>6, <1>7, <1>8, <1>9 DEF Next

\* Submit comes back after every submission, whichever way it ends and whatever round is
\* on the screen by then.
THEOREM TabSubmittingIsUnderWay == Spec => []SubmittingIsUnderWay
<1>1. Init => SubmittingIsUnderWay
  BY DEF Init, FreshUi, SubmittingIsUnderWay
<1>2. TabInv /\ SubmittingIsUnderWay /\ [Next]_vars => SubmittingIsUnderWay'
  BY SubmittingStep
<1> QED
  BY <1>1, <1>2, TabInvariant, PTL DEF Spec
=============================================================================
