------------------------------ MODULE MapEditor ------------------------------
(***************************************************************************)
(* The editor of one map's rounds, components/guide/MapEditor.tsx, over    *)
(* the rows that handler/guide.go keeps: a drawing that lives in Terra     *)
(* Draw, in refs and in React state at once, and a list of rounds that is  *)
(* read again after every change.  Another tab of the guide edits the same *)
(* maps.  MapCatalog adds the pages around it.                             *)
(***************************************************************************)
EXTENDS Naturals, FiniteSets

CONSTANTS MaxMaps,      \* bound: maps
          MaxRounds,    \* bound: rounds created
          MaxFeatures,  \* bound: features on the drawing and in its refs
          Limits        \* bound: each behaviour is held to one of these records,
                        \* requests: the editor's in flight when it asks for another;
                        \* calls: those of the pages around it;
                        \* events: zones begun, requests failed, answers lost, changes made
                        \* elsewhere; files: what may be imported

ASSUME BoundAssumption ==
  /\ MaxMaps \in Nat \ {0} /\ MaxRounds \in Nat /\ MaxFeatures \in Nat \ (0 .. 3)
  /\ \A l \in Limits : l.requests \in Nat /\ l.calls \in Nat /\ l.events \in Nat

VARIABLES
  limit,      \* the record of Limits that holds
  maps,       \* server: the guide's maps
  rows,       \* server: their rounds
  born,       \* server: round ids given out
  open,       \* the map in the editor's address, 0 when another page is shown
  list,       \* gameMap: the map and its rounds as last loaded, map 0 when there is none
  ui,         \* refs and useState of the editor
  draw,       \* the Terra Draw on the map
  net,        \* the editor's requests, sent or answered
  events,
  stale,      \* history: rounds changed, or may have, since those in list were read
  refreshed,  \* history: the list or the map was replaced under the drawing
  made        \* history: ids of the rounds stored from the drawing on display

shelf == <<limit, maps, rows, born>>
history == <<stale, refreshed, made>>
editor == <<open, list, ui, draw, net>>
editorVars == <<limit, maps, rows, born, open, list, ui, draw, net, events, stale, refreshed, made>>

-----------------------------------------------------------------------------
(* Records                                                                 *)

Maps == 1 .. MaxMaps
Ids == 1 .. MaxRounds
Features == 1 .. MaxFeatures
Parts == {"start", "end", "corridor"}
Steps == Parts \cup {"idle", "review"}

Row == [id : Ids, map : Maps, number : Ids]
RoundsOf(m) == {r \in rows : r.map = m}
NoList == [map |-> 0, rounds |-> {}]

\* at: startPointId, endPointId and corridorId, 0 for null; placed is set with them.
\* zones: noGoZoneIds; zoning: isDrawingNoGoZone; editing: a round_number, 0 for null.
FreshUi == [step |-> "idle", editing |-> 0, saving |-> FALSE,
            at |-> [p \in Parts |-> 0], zones |-> {}, zoning |-> FALSE]
\* heard: handleFinish listens, which it first does when the step changes.
NoDraw == [ready |-> FALSE, heard |-> FALSE, mode |-> "select", features |-> {}]

Ops == {"get", "create", "update", "delete"}
\* save: on behalf of saveRound; live: asked by the editor on the page; this: saves the
\* drawing still on display; id: the round it is about, or was.
Request == [op : Ops, map : Maps, id : 0 .. MaxRounds, number : 0 .. MaxRounds + 1,
            at : {"sent", "back"}, ok : BOOLEAN, rounds : SUBSET Row,
            save : BOOLEAN, live : BOOLEAN, this : BOOLEAN]

Ask(op, m, id, number, save) ==
  [op |-> op, map |-> m, id |-> id, number |-> number, at |-> "sent", ok |-> TRUE,
   rounds |-> {}, save |-> save, live |-> TRUE, this |-> save]
\* An await in the same handler: the next request.
ThenGet(q) == [Ask("get", q.map, q.id, 0, q.save) EXCEPT !.this = q.this]

Live(requests) == {q \in requests : q.live}
CanAsk == Cardinality(net) < limit.requests
\* What was asked by an editor that is left: only what changes rows matters still.
Left(requests) ==
  {[q EXCEPT !.live = FALSE, !.this = FALSE] :
     q \in {r \in requests : r.at = "sent" /\ r.op # "get"}}

\* One map, without rounds.
EditorInit ==
  /\ limit \in Limits
  /\ maps = {1}
  /\ rows = {} /\ born = 0
  /\ open = 0 /\ list = NoList /\ ui = FreshUi /\ draw = NoDraw
  /\ net = {} /\ events = 0
  /\ stale = FALSE /\ refreshed = FALSE /\ made = {}

-----------------------------------------------------------------------------
(* The drawing                                                             *)

StepMode(step) ==
  CASE step \in {"start", "end"} -> "point" [] step = "corridor" -> "polygon" [] OTHER -> "select"

\* setStep: when the step changes, an effect sets the mode and another listens.
SetStep(u, d, step) ==
  /\ ui' = [u EXCEPT !.step = step]
  /\ draw' = IF d.ready /\ step # ui.step
             THEN [d EXCEPT !.mode = StepMode(step), !.heard = TRUE] ELSE d

\* clearDrawing, which does nothing before the map has loaded.
Cleared(u) ==
  IF draw.ready THEN [u EXCEPT !.at = FreshUi.at, !.zones = {}, !.zoning = FALSE] ELSE u
Blank(d) == [d EXCEPT !.features = {}]
\* Nothing that is under way saves what comes next.
Anew(requests) == {[q EXCEPT !.this = FALSE] : q \in requests}
NewDrawing == made' = {} /\ refreshed' = FALSE

Shown == open # 0 /\ list.map # 0
Draws == UNCHANGED <<shelf, open, list, net, events, history>>

Refs(u) == {u.at[p] : p \in Parts} \ {0}
\* A feature is a polygon or a point, as its name here says.
IsPolygon(f) == f % 2 = 0
OwnId(p) == CASE p = "start" -> 1 [] p = "corridor" -> 2 [] p = "end" -> 3
\* A new feature has an id of its own.
Taken == draw.features \cup Refs(ui) \cup ui.zones
Free == {f \in Features \ Taken : IsPolygon(f) = (draw.mode = "polygon")}
FreshFeature == CHOOSE f \in Free : TRUE
CanDraw == Free # {}

\* initDraw.
InitDraw ==
  /\ Shown /\ ~draw.ready
  /\ draw' = [draw EXCEPT !.ready = TRUE]
  /\ UNCHANGED ui /\ Draws

\* Where handleFinish goes on to.
NextStep(p, at) ==
  CASE p = "start" /\ at["end"] = 0 -> "end"
    [] p # "corridor" /\ at["corridor"] = 0 /\ ~(p = "start" /\ at["end"] = 0) -> "corridor"
    [] OTHER -> "review"

\* handleFinish: f, on the map d, has been drawn, or dragged there, which it does not ask.
HandleFinish(f, d) ==
  LET step == ui.step
      zone == IsPolygon(f) /\ ui.zoning
      places == IF IsPolygon(f) THEN step = "corridor" ELSE step \in {"start", "end"}
      at == [ui.at EXCEPT ![step] = f]
  IN CASE d.heard /\ zone ->
            /\ ui' = [ui EXCEPT !.zoning = FALSE, !.zones = @ \cup {f}]
            /\ draw' = [d EXCEPT !.mode = "select"]
       [] d.heard /\ ~zone /\ places ->
            SetStep([ui EXCEPT !.at = at], [d EXCEPT !.features = @ \ {ui.at[step]}],
                    NextStep(step, at))
       [] OTHER -> draw' = d /\ UNCHANGED ui

\* Terra Draw finishes a point or a polygon.
FinishFeature ==
  /\ open # 0 /\ draw.ready /\ draw.mode # "select" /\ CanDraw
  /\ HandleFinish(FreshFeature, [draw EXCEPT !.features = @ \cup {FreshFeature}])
  /\ Draws

\* In the select mode every feature can be dragged, and is finished again.
DragFeature(f) ==
  /\ open # 0 /\ draw.ready /\ draw.mode = "select" /\ f \in draw.features
  /\ HandleFinish(f, draw)
  /\ Draws

\* redo, offered for a part that is placed and not the current step.
MayRedo(p) == Shown /\ ui.step \notin {"idle", p} /\ ui.at[p] # 0

\* Mutant of RedoStep: the feature stays on the map.
RedoStepKeeps(p) ==
  /\ MayRedo(p) /\ draw.ready
  /\ SetStep([ui EXCEPT !.at[p] = 0], draw, p)
  /\ Draws

\* redoStep.
RedoStep(p) ==
  /\ MayRedo(p) /\ draw.ready
  /\ SetStep([ui EXCEPT !.at[p] = 0], [draw EXCEPT !.features = @ \ {ui.at[p]}], p)
  /\ Draws

\* Draw Zone.
DrawZone ==
  /\ Shown /\ ui.step # "idle"
  /\ events < limit.events
  /\ events' = events + 1
  /\ ui' = [ui EXCEPT !.zoning = TRUE]
  /\ draw' = IF draw.ready THEN [draw EXCEPT !.mode = "polygon"] ELSE draw
  /\ UNCHANGED <<shelf, open, list, net, history>>

\* Delete, beside a zone.
DeleteZone(z) ==
  /\ Shown /\ ui.step # "idle" /\ z \in ui.zones
  /\ ui' = [ui EXCEPT !.zones = @ \ {z}]
  /\ draw' = [draw EXCEPT !.features = @ \ {z}]
  /\ Draws

-----------------------------------------------------------------------------
(* Rounds                                                                  *)

Rounds == UNCHANGED <<shelf, open, list, events, stale>>

StartNewRound ==
  /\ Shown /\ ui.step = "idle"
  /\ SetStep([Cleared(ui) EXCEPT !.editing = 0], Blank(draw), "start")
  /\ net' = Anew(net) /\ NewDrawing /\ Rounds

\* Edit and Delete, offered for each round of the list.
Offered(r) == Shown /\ ui.step = "idle" /\ r \in list.rounds

\* loadRound: the round's three parts and its zones are drawn, once the map has loaded.
LoadRound(u) ==
  IF draw.ready
  THEN \E zones \in {{}, {4}} :
         SetStep([u EXCEPT !.at = [p \in Parts |-> OwnId(p)], !.zones = zones],
                 [draw EXCEPT !.features = 1 .. 3 \cup zones], "review")
  ELSE SetStep(u, draw, "review")

EditRound(r) ==
  /\ Offered(r)
  /\ LoadRound([Cleared(ui) EXCEPT !.editing = r.number])
  /\ net' = Anew(net) /\ NewDrawing /\ Rounds

Cancelled(u) == [Cleared(u) EXCEPT !.editing = 0]

\* cancelEditing, by either button.
CancelEditing ==
  /\ Shown /\ ui.step # "idle"
  /\ SetStep(Cancelled(ui), Blank(draw), "idle")
  /\ net' = Anew(net) /\ NewDrawing /\ Rounds

\* Mutant of MaySave: Save stays enabled while the editor is saving.
MaySaveAgain == Shown /\ ui.step # "idle" /\ 0 \notin {ui.at[p] : p \in Parts}

\* Save Round, offered when all is placed.
MaySave == Shown /\ ui.step # "idle" /\ ~ui.saving /\ 0 \notin {ui.at[p] : p \in Parts}

\* saveRound.  A number that is no longer in the list sends nothing but the reload, or, as
\* a map without rounds comes without a list of them, creates a round of that number.
SaveRound ==
  LET existing == {r \in list.rounds : r.number = ui.editing}
      request ==
        CASE ui.editing = 0 -> Ask("create", open, 0, Cardinality(list.rounds) + 1, TRUE)
          [] ui.editing # 0 /\ existing # {} ->
               Ask("update", open, (CHOOSE r \in existing : TRUE).id, ui.editing, TRUE)
          [] ui.editing # 0 /\ list.rounds = {} -> Ask("create", open, 0, ui.editing, TRUE)
          [] OTHER -> Ask("get", open, 0, 0, TRUE)
  IN /\ MaySave /\ draw.ready
     /\ Refs(ui) \subseteq draw.features
     /\ CanAsk
     /\ net' = net \cup {request}
     /\ ui' = [ui EXCEPT !.saving = TRUE]
     /\ UNCHANGED <<shelf, open, list, draw, events, history>>

DeleteRound(r) ==
  /\ Offered(r) /\ CanAsk
  /\ net' = net \cup {Ask("delete", open, r.id, 0, FALSE)}
  /\ UNCHANGED <<shelf, open, list, ui, draw, events, history>>

-----------------------------------------------------------------------------
(* The server                                                              *)

Answer(q, a) == net' = (net \ {q}) \cup (IF q.live THEN {[a EXCEPT !.at = "back"]} ELSE {})
\* Nothing waits for the failure of a reload or a delete but saveRound's catch.
Refuse(q) == IF q.save THEN Answer(q, [q EXCEPT !.ok = FALSE]) ELSE net' = net \ {q}

\* GetMap: what it reads is the latest word unless something else is under way.
ServeGet(q) ==
  /\ q.op = "get"
  /\ IF q.map \in maps
     THEN /\ Answer(q, [q EXCEPT !.rounds = RoundsOf(q.map)])
          /\ stale' = (Live(net) # {q} \/ q.map # open)
     ELSE Refuse(q) /\ stale' = TRUE
  /\ UNCHANGED <<shelf, made>>

\* Mutant of ServeCreate: round numbers need not differ.
ServeCreateAgain(q) ==
  /\ q.op = "create"
  /\ IF q.map \in maps
     THEN /\ born < MaxRounds
          /\ born' = born + 1
          /\ rows' = rows \cup {[id |-> born', map |-> q.map, number |-> q.number]}
          /\ made' = IF q.this THEN made \cup {born'} ELSE made
          /\ Answer(q, q)
     ELSE Refuse(q) /\ UNCHANGED <<rows, born, made>>
  /\ stale' = (stale \/ ~q.live)
  /\ UNCHANGED <<limit, maps>>

\* CreateRound, with UNIQUE(map_id, round_number).
ServeCreate(q) ==
  /\ q.op = "create"
  /\ IF q.map \in maps /\ ~\E r \in RoundsOf(q.map) : r.number = q.number
     THEN /\ born < MaxRounds
          /\ born' = born + 1
          /\ rows' = rows \cup {[id |-> born', map |-> q.map, number |-> q.number]}
          /\ made' = IF q.this THEN made \cup {born'} ELSE made
          /\ Answer(q, q)
     ELSE Refuse(q) /\ UNCHANGED <<rows, born, made>>
  /\ stale' = (stale \/ ~q.live)
  /\ UNCHANGED <<limit, maps>>

\* UpdateRound writes the number the row has, and the drawing.
ServeUpdate(q) ==
  /\ q.op = "update"
  /\ IF \E r \in rows : r.id = q.id
     THEN made' = (IF q.this THEN made \cup {q.id} ELSE made) /\ Answer(q, q)
     ELSE Refuse(q) /\ UNCHANGED made
  /\ UNCHANGED <<shelf, stale>>

ServeDelete(q) ==
  /\ q.op = "delete"
  /\ IF \E r \in rows : r.id = q.id THEN Answer(q, q) ELSE Refuse(q)
  /\ rows' = {r \in rows : r.id # q.id}
  /\ stale' = (stale \/ ~q.live)
  /\ UNCHANGED <<limit, maps, born, made>>

Serve(q) ==
  /\ q.at = "sent"
  /\ ServeGet(q) \/ ServeCreate(q) \/ ServeUpdate(q) \/ ServeDelete(q)
  /\ UNCHANGED <<open, list, ui, draw, events, refreshed>>

\* A request fails before the server acts on it, or its answer is lost afterwards.
Fail(q) ==
  /\ q.at = "sent" \/ q.ok
  /\ events < limit.events
  /\ events' = events + 1
  /\ Refuse(q)
  /\ stale' = (stale \/ q.live)
  /\ UNCHANGED <<shelf, open, list, ui, draw, refreshed, made>>

\* Another tab of the guide's adds a round, or deletes one.
OthersCreate(n) ==
  /\ open \in maps /\ born < MaxRounds
  /\ events < limit.events
  /\ events' = events + 1
  /\ ~\E r \in RoundsOf(open) : r.number = n
  /\ born' = born + 1
  /\ rows' = rows \cup {[id |-> born', map |-> open, number |-> n]}
  /\ stale' = TRUE
  /\ UNCHANGED <<limit, maps, editor, refreshed, made>>

OthersDelete(r) ==
  /\ open # 0
  /\ events < limit.events
  /\ events' = events + 1
  /\ rows' = rows \ {r}
  /\ stale' = TRUE
  /\ UNCHANGED <<limit, maps, born, editor, refreshed, made>>

-----------------------------------------------------------------------------
(* Answers                                                                 *)

\* setGameMap, and for saveRound the end of editing, whatever is being drawn by now.
ApplyGet(q) ==
  /\ q.op = "get" /\ q.ok
  /\ list' = [map |-> q.map, rounds |-> q.rounds]
  /\ IF q.save
     THEN /\ SetStep([Cancelled(ui) EXCEPT !.saving = FALSE], Blank(draw), "idle")
          /\ net' = Anew(net \ {q}) /\ NewDrawing
     ELSE /\ net' = net \ {q}
          /\ refreshed' = (refreshed \/ ui.step # "idle")
          /\ UNCHANGED <<ui, draw, made>>

\* Mutant of ApplyDone: the list is left as it was.
ApplyDoneUnread(q) ==
  /\ q.op # "get" /\ q.ok
  /\ net' = net \ {q}
  /\ UNCHANGED <<list, ui, draw, refreshed, made>>

\* The change is made: the map is read again.
ApplyDone(q) ==
  /\ q.op # "get" /\ q.ok
  /\ net' = (net \ {q}) \cup {ThenGet(q)}
  /\ UNCHANGED <<list, ui, draw, refreshed, made>>

\* Mutant of ApplyFailure: the reload is outside the try.
ApplyFailureReloads(q) ==
  /\ ~q.ok
  /\ ui' = [ui EXCEPT !.saving = (q.op # "get")]
  /\ net' = (net \ {q}) \cup (IF q.op # "get" THEN {ThenGet(q)} ELSE {})
  /\ UNCHANGED <<list, draw, refreshed, made>>

\* saveRound's catch.
ApplyFailure(q) ==
  /\ ~q.ok
  /\ ui' = [ui EXCEPT !.saving = FALSE]
  /\ net' = net \ {q}
  /\ UNCHANGED <<list, draw, refreshed, made>>

Apply(q) ==
  /\ q.at = "back"
  /\ ApplyGet(q) \/ ApplyDone(q) \/ ApplyFailure(q)
  /\ UNCHANGED <<shelf, open, events, stale>>

-----------------------------------------------------------------------------
(* Coming and going                                                        *)

\* The editor is mounted.
Mount(m) ==
  /\ open' = m
  /\ list' = NoList /\ ui' = FreshUi /\ draw' = NoDraw
  /\ net' = Left(net) \cup {Ask("get", m, 0, 0, FALSE)}
  /\ stale' = FALSE /\ NewDrawing

\* Another map's address: the editor stays, with all that is drawn in it.
SwitchMap(m) ==
  /\ open' = m
  /\ net' = net \cup {Ask("get", m, 0, 0, FALSE)}
  /\ stale' = TRUE /\ refreshed' = TRUE
  /\ UNCHANGED <<list, ui, draw, made>>

Unmount ==
  /\ open' = 0
  /\ list' = NoList /\ ui' = FreshUi /\ draw' = NoDraw
  /\ net' = Left(net)
  /\ stale' = FALSE /\ NewDrawing

EditorNext ==
  \/ InitDraw \/ FinishFeature \/ DrawZone
  \/ \E p \in Parts : RedoStep(p)
  \/ \E f \in Features : DragFeature(f) \/ DeleteZone(f)
  \/ StartNewRound \/ CancelEditing \/ SaveRound
  \/ \E r \in list.rounds : EditRound(r) \/ DeleteRound(r)
  \/ \E q \in net : Serve(q) \/ Fail(q) \/ Apply(q)
  \/ \E n \in Ids : OthersCreate(n)
  \/ \E r \in rows : OthersDelete(r)

-----------------------------------------------------------------------------
(* Properties                                                              *)

\* The state is well formed.
EditorTypeOK ==
  /\ limit \in Limits
  /\ maps \subseteq Maps
  /\ rows \subseteq Row /\ born \in 0 .. MaxRounds
  /\ open \in 0 .. MaxMaps
  /\ list \in [map : 0 .. MaxMaps, rounds : SUBSET Row]
  /\ ui \in [step : Steps, editing : 0 .. MaxRounds, saving : BOOLEAN,
             at : [Parts -> 0 .. MaxFeatures],
             zones : SUBSET Features, zoning : BOOLEAN]
  /\ draw \in [ready : BOOLEAN, heard : BOOLEAN, mode : {"point", "polygon", "select"},
               features : SUBSET Features]
  /\ net \subseteq Request
  /\ events \in 0 .. limit.events
  /\ stale \in BOOLEAN /\ refreshed \in BOOLEAN /\ made \subseteq Ids

\* Once the editor listens to Terra Draw, whatever is on the map is the start, the end,
\* the corridor or a zone of the round being edited: what a save stores is all the guide
\* sees, through redo, cancel, a save that ends late, zones begun in any step, and drags
\* that handleFinish takes for new drawings, by which one feature may become two parts.
NothingUntracked == draw.heard => draw.features \subseteq Refs(ui) \cup ui.zones

\* When nothing is on its way the list shows the rounds there are, unless another tab
\* changed them, a request failed, or two reloads of the list were under way together.
ListShown ==
  (open # 0 /\ list.map # 0 /\ ~stale /\ Live(net) = {}) => list = [map |-> open, rounds |-> RoundsOf(open)]

\* A drawing is stored once, however often its save is tried again after an answer was
\* lost: the number is taken from a list that has not changed, and is taken already.
\* Only a list or a map that changes under the drawing undoes this.
StoredOnce == Cardinality({r \in rows : r.id \in made}) <= 1 \/ refreshed

\* A save that is reported done has stored the drawing it was pressed for, unless the
\* list changed under it.
SavedIsStored ==
  [][\A q \in net \ net' :
       (q.op = "get" /\ q.save /\ q.at = "back" /\ ui.saving /\ ~ui'.saving
          /\ q.this /\ ~refreshed) => made # {}]_editorVars

\* The editor is saving just as long as its one save, or the reload that follows it, is
\* under way: a drawing is never saved by two requests at once, and Save comes back after
\* any refusal, lost answer or cancel in between, and not before.
SavingIsUnderWay ==
  /\ ui.saving <=> \E q \in Live(net) : q.save
  /\ \A p, q \in Live(net) : p.save /\ q.save => p = q

-----------------------------------------------------------------------------
(* What the code's own words promise and the code does not keep            *)

\* MapEditor.tsx:57, "Review your round and click Save when ready".  Redo of the start and
\* then of the end leads to the review without a start, and nothing but Cancel leads
\* back to it.
ReviewIsComplete ==
  (ui.step = "review" /\ draw.ready /\ draw.heard) => 0 \notin {ui.at[p] : p \in Parts}

\* MapEditor.tsx:198, "Set TerraDraw mode when step changes".  A zone drawn in the middle
\* of a step leaves the select mode behind, in which the step cannot be finished.
StepHasMode == (draw.heard /\ ~ui.zoning) => draw.mode = StepMode(ui.step)

\* migrations.go:27, UNIQUE(map_id, round_number): the number of a new round counts the
\* list, and is one of the list's when a round before the last was deleted.
NumberIsNew ==
  [][\A q \in net' \ net :
       q.op = "create" => ~\E r \in list.rounds : r.number = q.number]_editorVars

\* Delete and then Edit, pressed on one round: the save finds no such round any more, and
\* sends nothing, or a new round in its place, and is reported done.
EditIsSent ==
  [][(ui.editing # 0 /\ ~ui.saving /\ ui'.saving) =>
       \E q \in net' \ net : q.op = "update"]_editorVars

\* A save that was pressed, then cancelled, clears what has been drawn since.
SaveKeepsDrawing ==
  [][\A q \in net \ net' :
       (q.op = "get" /\ q.save /\ q.live /\ q.at = "back" /\ q.ok /\ ~q.this) =>
         draw' = draw]_editorVars

\* A map that was asked for on the dashboard takes the editor of another map over with
\* all that is in it: a round drawn on one map is saved to the other.
SavesToShownMap ==
  [][\A q \in net' \ net : q.op = "create" => q.map = list.map]_editorVars

=============================================================================
