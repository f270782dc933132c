--------------------------- MODULE MapEditorProofs ---------------------------
(***************************************************************************)
(* The editor for any number of maps, rounds, features and requests: what  *)
(* an invariant must say for its drawing, its list and its saves to be     *)
(* right, and that every step of the editor keeps it.  MapCatalogProofs    *)
(* adds the pages around it and states the theorems.                       *)
(***************************************************************************)
EXTENDS MapEditor, FiniteSetTheorems, TLAPS

UiRecord == [step : Steps, editing : 0 .. MaxRounds, saving : BOOLEAN,
             at : [Parts -> 0 .. MaxFeatures], zones : SUBSET Features, zoning : BOOLEAN]
DrawRecord == [ready : BOOLEAN, heard : BOOLEAN, mode : {"point", "polygon", "select"},
               features : SUBSET Features]
ListRecord == [map : 0 .. MaxMaps, rounds : SUBSET Row]

\* As EditorTypeOK, and only rounds that were stored are remembered.
ShapeOK ==
  /\ maps \subseteq Maps
  /\ rows \subseteq Row /\ born \in 0 .. MaxRounds
  /\ open \in 0 .. MaxMaps
  /\ list \in ListRecord /\ ui \in UiRecord /\ draw \in DrawRecord
  /\ net \subseteq Request
  /\ stale \in BOOLEAN /\ refreshed \in BOOLEAN /\ made \subseteq 1 .. born

\* No more rounds are ever seen of a map than have been stored.
Counted(rs, n) == IsFiniteSet(rs) /\ Cardinality(rs) \in 0 .. n

\* A round has its id for itself, and its number on its map.
RowsOK ==
  \A r \in rows :
    /\ r.id \in 1 .. born
    /\ \A s \in rows : r.id = s.id \/ (r.map = s.map /\ r.number = s.number) => r = s

\* What the editor listens to it keeps track of, and before it listens it has nothing.
SketchOK ==
  /\ draw.heard => draw.ready
  /\ draw.heard /\ draw.mode = "point" => ui.step \in {"start", "end"}
  /\ draw.heard /\ draw.mode = "polygon" => ui.step = "corridor" \/ (ui.zoning /\ ui.step # "idle")
  /\ draw.heard => draw.features \subseteq Refs(ui) \cup ui.zones
  /\ ~draw.heard => (\A p \in Parts : ui.at[p] = 0) /\ ui.zones = {}

\* Only the editor on the page hears answers.
NetOK ==
  /\ Counted(list.rounds, born)
  /\ \A q \in net :
       /\ Counted(q.rounds, born)
       /\ q.at = "sent" => q.ok
       /\ q.at = "back" => q.live
       /\ q.op = "get" => q.live
       /\ q.op = "create" => q.number \in 1 .. born + 1 \cup Ids
       /\ q.op = "update" => q.id \in Ids

\* A reload that is to come, or a change after which one is asked for.
Awaits(q) ==
  \/ q.op = "get" /\ q.at = "sent"
  \/ q.op # "get" /\ q.at = "back" /\ q.ok
\* A reload that brings the rounds there are.
Right(q) == q.op = "get" /\ q.at = "back" /\ q.ok /\ q.map = open /\ q.rounds = RoundsOf(open)
ListRight == list = [map |-> open, rounds |-> RoundsOf(open)]

\* The list is right, or was read right, or will be read again.
ListOK ==
  (open # 0 /\ ~stale /\ \A q \in net : ~Awaits(q)) =>
    /\ \A q \in net : q.op = "get" => Right(q)
    /\ list.map = 0 \/ ListRight \/ \E q \in net : Right(q)

\* The round that is edited, and the number a new one gets.
Edited == (CHOOSE r \in {s \in list.rounds : s.number = ui.editing} : TRUE).id
NextNumber == Cardinality(list.rounds) + 1

\* A request saves what the editor would save now, and is answered once it has.
SavesThis(q) ==
  /\ q.op # "delete"
  /\ q.op = "create" => ui.editing = 0 /\ q.map = open /\ q.number = NextNumber
  /\ q.op = "update" => ui.editing # 0 /\ q.id = Edited
  /\ q.op = "get" \/ (q.at = "back" /\ q.ok) => made # {}

\* All that is stored of one drawing is the same round.
StoredThis ==
  IF ui.editing = 0 THEN \A r \in rows : r.id \in made => r.map = open /\ r.number = NextNumber
  ELSE made \subseteq {Edited}

ThisOK ==
  /\ ui.step = "idle" => ui.editing = 0 /\ made = {} /\ \A q \in net : ~q.this
  /\ ~refreshed => /\ ui.editing # 0 => \E r \in list.rounds : r.number = ui.editing
                   /\ \A q \in net : q.this => SavesThis(q)
                   /\ StoredThis

EditorInv == ShapeOK /\ RowsOK /\ SketchOK /\ NetOK /\ ListOK /\ ThisOK

-----------------------------------------------------------------------------
(* Requests                                                                *)

\* The reload that is not a save's.
LEMMA GetShape ==
  ASSUME NEW m \in Maps
  PROVE  LET g == Ask("get", m, 0, 0, FALSE)
         IN /\ g \in Request /\ g.op = "get" /\ g.at = "sent" /\ g.ok /\ g.live /\ ~g.this
            /\ g.rounds = {}
<1>1. 0 \in 0 .. MaxRounds /\ 0 \in 0 .. MaxRounds + 1 /\ "get" \in Ops
  BY BoundAssumption DEF Ops
<1> QED
  BY <1>1 DEF Ask, Request

\* Two requests that differ in whose drawing they save at most.
Same(x, q) ==
  /\ x.op = q.op /\ x.map = q.map /\ x.id = q.id /\ x.number = q.number /\ x.at = q.at
  /\ x.ok = q.ok /\ x.rounds = q.rounds /\ x.save = q.save /\ x.live = q.live

LEMMA AnewShape ==
  ASSUME NEW qs, qs \subseteq Request
  PROVE  /\ Anew(qs) \subseteq Request
         /\ \A x \in Anew(qs) : ~x.this /\ \E q \in qs : Same(x, q)
         /\ \A q \in qs : \E x \in Anew(qs) : Same(x, q)
<1>1. ASSUME NEW q \in qs
      PROVE  LET x == [q EXCEPT !.this = FALSE]
             IN x \in Request /\ ~x.this /\ Same(x, q)
  BY <1>1 DEF Request, Same
<1> QED
  BY <1>1 DEF Anew

\* What is left behind waits for the server only.
LEMMA LeftShape ==
  ASSUME NEW qs, qs \subseteq Request
  PROVE  /\ Left(qs) \subseteq Request
         /\ \A x \in Left(qs) :
              /\ ~x.this /\ ~x.live /\ x.at = "sent" /\ x.op # "get"
              /\ \E q \in qs : /\ x.op = q.op /\ x.map = q.map /\ x.id = q.id /\ x.at = q.at
                               /\ x.number = q.number /\ x.ok = q.ok /\ x.rounds = q.rounds
<1>1. ASSUME NEW x \in Left(qs)
      PROVE  /\ x \in Request
             /\ ~x.this /\ ~x.live /\ x.at = "sent" /\ x.op # "get"
             /\ \E q \in qs : /\ x.op = q.op /\ x.map = q.map /\ x.id = q.id /\ x.at = q.at
                              /\ x.number = q.number /\ x.ok = q.ok /\ x.rounds = q.rounds
  <2>1. PICK q \in qs : /\ q.at = "sent" /\ q.op # "get"
                        /\ x = [q EXCEPT !.live = FALSE, !.this = FALSE]
    BY <1>1 DEF Left
  <2> QED
    BY <2>1 DEF Request
<1> QED
  BY <1>1

\* The drawing is given a step.
LEMMA SetStepShape ==
  ASSUME ui \in UiRecord, draw \in DrawRecord,
         NEW u, u \in UiRecord, NEW d, d \in DrawRecord, NEW step \in Steps, SetStep(u, d, step)
  PROVE  /\ ui' \in UiRecord /\ draw' \in DrawRecord
         /\ ui'.step = step /\ ui'.editing = u.editing /\ ui'.saving = u.saving
         /\ ui'.at = u.at /\ ui'.zones = u.zones /\ ui'.zoning = u.zoning
         /\ draw'.ready = d.ready /\ draw'.features = d.features
         /\ d.ready /\ step # ui.step => draw'.heard /\ draw'.mode = StepMode(step)
         /\ ~(d.ready /\ step # ui.step) => draw'.heard = d.heard /\ draw'.mode = d.mode
<1>1. /\ ui' \in UiRecord /\ ui'.step = step /\ ui'.editing = u.editing /\ ui'.saving = u.saving
      /\ ui'.at = u.at /\ ui'.zones = u.zones /\ ui'.zoning = u.zoning
  BY DEF SetStep, UiRecord
<1>2. CASE d.ready /\ step # ui.step
  <2>1. StepMode(step) \in {"point", "polygon", "select"}
    BY DEF StepMode
  <2> QED
    BY <1>1, <1>2, <2>1 DEF SetStep, DrawRecord
<1>3. CASE ~(d.ready /\ step # ui.step)
  BY <1>1, <1>3 DEF SetStep
<1> QED
  BY <1>2, <1>3

\* The drawing is cleared, when there is one.
LEMMA ClearedShape ==
  ASSUME ui \in UiRecord
  PROVE  /\ Cleared(ui) \in UiRecord /\ Cleared(ui).step = ui.step
         /\ Cleared(ui).editing = ui.editing /\ Cleared(ui).saving = ui.saving
         /\ draw.ready => /\ \A p \in Parts : Cleared(ui).at[p] = 0
                          /\ Cleared(ui).zones = {} /\ ~Cleared(ui).zoning
         /\ ~draw.ready => Cleared(ui) = ui
<1>1. FreshUi.at = [p \in Parts |-> 0] /\ FreshUi.at \in [Parts -> 0 .. MaxFeatures]
  BY BoundAssumption DEF FreshUi
<1>2. CASE draw.ready
  <2> DEFINE a == [ui EXCEPT !.at = FreshUi.at]
             b == [a EXCEPT !.zones = {}]
             c == [b EXCEPT !.zoning = FALSE]
  <2>1. a \in UiRecord /\ a.at = FreshUi.at /\ a.step = ui.step /\ a.editing = ui.editing
        /\ a.saving = ui.saving
    BY <1>1 DEF UiRecord
  <2>2. Cleared(ui) = c
    BY <1>2 DEF Cleared, UiRecord
  <2> HIDE DEF a
  <2>3. b \in UiRecord /\ b.at = a.at /\ b.step = a.step /\ b.editing = a.editing
        /\ b.saving = a.saving /\ b.zones = {}
    BY <2>1 DEF UiRecord
  <2> HIDE DEF b
  <2>4. c \in UiRecord /\ c.at = b.at /\ c.step = b.step /\ c.editing = b.editing
        /\ c.saving = b.saving /\ c.zones = b.zones /\ ~c.zoning
    BY <2>3 DEF UiRecord
  <2> HIDE DEF c
  <2> QED
    BY <1>1, <1>2, <2>1, <2>2, <2>3, <2>4
<1>3. CASE ~draw.ready
  BY <1>3 DEF Cleared
<1> QED
  BY <1>2, <1>3

-----------------------------------------------------------------------------
(* The drawing                                                             *)

\* A step of the drawing's own leaves the rest as it was.
LEMMA SketchKeeps ==
  ASSUME EditorInv, UNCHANGED <<shelf, open, list, net, history>>,
         ui' \in UiRecord, draw' \in DrawRecord, ui'.editing = ui.editing,
         ui'.step = "idle" => ui.step = "idle", SketchOK'
  PROVE  EditorInv'
<1> USE DEF shelf, history
<1>1. ShapeOK'
  BY DEF EditorInv, ShapeOK
<1>2. RowsOK' /\ NetOK'
  BY DEF EditorInv, RowsOK, NetOK
<1>3. ListOK'
  BY DEF EditorInv, ListOK, Awaits, Right, ListRight, RoundsOf
<1>4. Edited' = Edited /\ NextNumber' = NextNumber
  BY DEF Edited, NextNumber
<1>5. ThisOK'
  BY <1>4 DEF EditorInv, ThisOK, SavesThis, StoredThis
<1> QED
  BY <1>1, <1>2, <1>3, <1>5 DEF EditorInv

LEMMA InitDrawKeeps == ASSUME EditorInv, InitDraw PROVE EditorInv'
<1>1. /\ UNCHANGED <<shelf, open, list, net, history, ui>> /\ ~draw.ready
      /\ draw' = [draw EXCEPT !.ready = TRUE]
  BY DEF InitDraw, Draws
<1>2. draw' \in DrawRecord /\ draw'.heard = draw.heard
  BY <1>1 DEF EditorInv, ShapeOK, DrawRecord
<1>3. SketchOK'
  BY <1>1, <1>2 DEF EditorInv, SketchOK
<1> QED
  BY <1>1, <1>2, <1>3, SketchKeeps DEF EditorInv, ShapeOK

LEMMA DrawZoneKeeps == ASSUME EditorInv, DrawZone PROVE EditorInv'
<1>1. /\ UNCHANGED <<shelf, open, list, net, history>> /\ ui.step # "idle"
      /\ ui' = [ui EXCEPT !.zoning = TRUE]
      /\ draw' = IF draw.ready THEN [draw EXCEPT !.mode = "polygon"] ELSE draw
  BY DEF DrawZone
<1>2. ui \in UiRecord /\ draw \in DrawRecord
  BY DEF EditorInv, ShapeOK
<1>3. /\ ui' \in UiRecord /\ ui'.step = ui.step /\ ui'.editing = ui.editing /\ ui'.zoning
      /\ ui'.at = ui.at /\ ui'.zones = ui.zones
  BY <1>1, <1>2 DEF UiRecord
<1>4. /\ draw' \in DrawRecord /\ draw'.heard = draw.heard /\ draw'.ready = draw.ready
      /\ draw'.features = draw.features
      /\ draw'.mode = IF draw.ready THEN "polygon" ELSE draw.mode
  BY <1>1, <1>2 DEF DrawRecord
<1>5. SketchOK'
  BY <1>1, <1>3, <1>4 DEF EditorInv, SketchOK, Refs
<1> QED
  BY <1>1, <1>3, <1>4, <1>5, SketchKeeps

LEMMA DeleteZoneKeeps == ASSUME EditorInv, NEW z, DeleteZone(z) PROVE EditorInv'
<1>1. /\ UNCHANGED <<shelf, open, list, net, history>> /\ ui.step # "idle"
      /\ ui' = [ui EXCEPT !.zones = @ \ {z}]
      /\ draw' = [draw EXCEPT !.features = @ \ {z}]
  BY DEF DeleteZone, Draws
<1>2. ui \in UiRecord /\ draw \in DrawRecord
  BY DEF EditorInv, ShapeOK
<1>3. /\ ui' \in UiRecord /\ ui'.step = ui.step /\ ui'.editing = ui.editing
      /\ ui'.zoning = ui.zoning /\ ui'.at = ui.at /\ ui'.zones = ui.zones \ {z}
  BY <1>1, <1>2 DEF UiRecord
<1>4. /\ draw' \in DrawRecord /\ draw'.heard = draw.heard /\ draw'.ready = draw.ready
      /\ draw'.features = draw.features \ {z} /\ draw'.mode = draw.mode
  BY <1>1, <1>2 DEF DrawRecord
<1>5. SketchOK'
  BY <1>1, <1>3, <1>4 DEF EditorInv, SketchOK, Refs
<1> QED
  BY <1>1, <1>3, <1>4, <1>5, SketchKeeps

LEMMA RedoStepHolds == ASSUME EditorInv, NEW p \in Parts, RedoStep(p) PROVE EditorInv'
<1> DEFINE at == [ui.at EXCEPT ![p] = 0]
           u == [ui EXCEPT !.at = at]
           d == [draw EXCEPT !.features = @ \ {ui.at[p]}]
<1>1. /\ UNCHANGED <<shelf, open, list, net, history>>
      /\ ui.step \notin {"idle", p} /\ ui.at[p] # 0 /\ draw.ready
      /\ SetStep(u, d, p)
  BY DEF RedoStep, Draws, MayRedo
<1>2. ui \in UiRecord /\ draw \in DrawRecord
  BY DEF EditorInv, ShapeOK
<1>3. at \in [Parts -> 0 .. MaxFeatures] /\ at[p] = 0 /\ \A r \in Parts \ {p} : at[r] = ui.at[r]
  BY <1>2, BoundAssumption DEF UiRecord
<1> HIDE DEF at
<1>4. /\ u \in UiRecord /\ u.at = at /\ u.zones = ui.zones /\ u.zoning = ui.zoning
      /\ u.editing = ui.editing
  BY <1>2, <1>3 DEF UiRecord
<1>5. /\ d \in DrawRecord /\ d.ready = draw.ready
      /\ d.features = draw.features \ {ui.at[p]}
  BY <1>2 DEF DrawRecord
<1> HIDE DEF u, d
<1>6. p \in Steps /\ p # "idle"
  BY DEF Steps, Parts
<1>7. /\ ui' \in UiRecord /\ draw' \in DrawRecord
      /\ ui'.step = p /\ ui'.editing = u.editing
      /\ ui'.at = u.at /\ ui'.zones = u.zones
      /\ draw'.ready = d.ready /\ draw'.features = d.features
      /\ draw'.heard /\ draw'.mode = StepMode(p)
  BY <1>1, <1>2, <1>4, <1>5, <1>6, SetStepShape
<1>8. draw.features \subseteq Refs(ui) \cup ui.zones
  BY <1>1 DEF EditorInv, SketchOK
<1>9. draw'.features \subseteq Refs(ui') \cup ui'.zones
  BY <1>3, <1>4, <1>5, <1>7, <1>8 DEF Refs
<1>10. SketchOK'
  BY <1>1, <1>5, <1>7, <1>9 DEF SketchOK, StepMode, Parts
<1> QED
  BY <1>1, <1>4, <1>6, <1>7, <1>10, SketchKeeps

\* handleFinish: what was just drawn or dragged is tracked, and what it replaces is gone.
LEMMA HandleFinishKeeps ==
  ASSUME EditorInv, UNCHANGED <<shelf, open, list, net, history>>,
         NEW f \in Features, NEW drawn \in DrawRecord, draw.ready,
         drawn.ready = draw.ready, drawn.heard = draw.heard, drawn.mode = draw.mode,
         drawn.features \subseteq draw.features \cup {f},
         \/ drawn = draw
         \/ draw.heard => (IsPolygon(f) /\ ui.zoning)
                            \/ ui.step \in IF IsPolygon(f) THEN {"corridor"} ELSE {"start", "end"},
         HandleFinish(f, drawn)
  PROVE  EditorInv'
<1> DEFINE step == ui.step
           zone == IsPolygon(f) /\ ui.zoning
           places == IF IsPolygon(f) THEN step = "corridor" ELSE step \in {"start", "end"}
           at == [ui.at EXCEPT ![step] = f]
           v == [ui EXCEPT !.zoning = FALSE, !.zones = @ \cup {f}]
           z == [drawn EXCEPT !.mode = "select"]
           u == [ui EXCEPT !.at = at]
           d == [drawn EXCEPT !.features = @ \ {ui.at[step]}]
<1>2. (CASE drawn.heard /\ zone -> ui' = v /\ draw' = z
        [] drawn.heard /\ ~zone /\ places -> SetStep(u, d, NextStep(step, at))
        [] OTHER -> draw' = drawn /\ UNCHANGED ui)
  BY DEF HandleFinish
<1>3. ui \in UiRecord /\ draw \in DrawRecord /\ ui.zoning \in BOOLEAN
  BY DEF EditorInv, ShapeOK, UiRecord
<1>4. drawn = draw \/ (draw.heard => zone \/ places)
  OBVIOUS
<1> HIDE DEF zone, places
<1>6. CASE ~draw.heard \/ (~zone /\ ~places)
  <2>1. draw' = drawn /\ ui' = ui
    BY <1>2, <1>6
  <2>2. SketchOK'
    BY <1>4, <1>6, <2>1 DEF EditorInv, SketchOK, Refs
  <2> QED
    BY <1>3, <2>1, <2>2, SketchKeeps
<1>7. CASE draw.heard /\ zone
  <2>1. ui' = v /\ draw' = z
    BY <1>2, <1>7
  <2>2. /\ z \in DrawRecord /\ z.ready = drawn.ready /\ z.heard = drawn.heard
        /\ z.mode = "select" /\ z.features = drawn.features
    BY DEF DrawRecord
  <2>3. /\ v \in UiRecord /\ v.step = ui.step /\ v.editing = ui.editing /\ v.at = ui.at
        /\ v.zones = ui.zones \cup {f}
    BY <1>3 DEF UiRecord
  <2> HIDE DEF v, z
  <2>4. SketchOK'
    BY <1>7, <2>1, <2>2, <2>3 DEF EditorInv, SketchOK, Refs
  <2> QED
    BY <2>1, <2>2, <2>3, <2>4, SketchKeeps
<1>8. CASE draw.heard /\ ~zone /\ places
  <2>1. places /\ step \in Parts
    BY <1>8 DEF Parts, places
  <2>2. SetStep(u, d, NextStep(step, at))
    BY <1>2, <1>8
  <2>3. /\ at \in [Parts -> 0 .. MaxFeatures] /\ at[step] = f
        /\ \A p \in Parts \ {step} : at[p] = ui.at[p]
    <3>1. f \in 0 .. MaxFeatures
      BY BoundAssumption DEF Features
    <3> QED
      BY <1>3, <2>1, <3>1 DEF UiRecord
  <2>4. NextStep(step, at) \in {"end", "corridor", "review"} \ {step}
    BY <2>1 DEF NextStep, Parts, places
  <2> DEFINE next == NextStep(step, at)
  <2> HIDE DEF at, next
  <2>5. u \in UiRecord /\ u.at = at /\ u.zones = ui.zones /\ u.editing = ui.editing
    BY <1>3, <2>3 DEF UiRecord
  <2>6. /\ d \in DrawRecord /\ d.ready = draw.ready
        /\ d.features \subseteq (draw.features \cup {f}) \ {ui.at[step]}
    BY DEF DrawRecord
  <2> HIDE DEF u, d
  <2>7. /\ ui' \in UiRecord /\ draw' \in DrawRecord
        /\ ui'.step = next /\ ui'.editing = ui.editing
        /\ ui'.at = at /\ ui'.zones = ui.zones
        /\ draw'.ready /\ draw'.features = d.features
        /\ draw'.heard /\ draw'.mode = StepMode(next)
    <3>1. next \in Steps
      BY <2>4 DEF next, Steps, Parts
    <3>2. SetStep(u, d, next) /\ next # ui.step
      BY <2>2, <2>4 DEF next
    <3>3. d.ready
      BY <2>6
    <3> QED
      BY <1>3, <2>5, <2>6, <3>1, <3>2, <3>3, SetStepShape
  <2>8. draw.features \subseteq Refs(ui) \cup ui.zones
    BY <1>8 DEF EditorInv, SketchOK
  <2>9. f # 0
    BY DEF Features
  <2>10. draw'.features \subseteq Refs(ui') \cup ui'.zones
    <3> SUFFICES ASSUME NEW x \in draw'.features, x \notin ui.zones
                 PROVE  \E p \in Parts : x = at[p] /\ x # 0
      BY <2>7 DEF Refs
    <3>1. CASE x = f
      BY <2>1, <2>3, <2>9, <3>1
    <3>2. CASE x # f
      <4>1. x \in Refs(ui) /\ x # ui.at[step]
        BY <2>6, <2>7, <2>8, <3>2
      <4>2. PICK p \in Parts : x = ui.at[p] /\ x # 0
        BY <4>1 DEF Refs
      <4> QED
        BY <2>3, <4>1, <4>2
    <3> QED
      BY <3>1, <3>2
  <2>11. SketchOK'
    BY <2>4, <2>7, <2>10 DEF SketchOK, StepMode, Parts, next
  <2> QED
    BY <2>4, <2>7, <2>11, SketchKeeps DEF next
<1> QED
  BY <1>6, <1>7, <1>8 DEF zone, places

\* What Terra Draw finishes is of the mode it is in, and of the step when it is no zone.
LEMMA FinishFeatureKeeps == ASSUME EditorInv, FinishFeature PROVE EditorInv'
<1> DEFINE f == FreshFeature
           drawn == [draw EXCEPT !.features = @ \cup {f}]
<1>1. /\ UNCHANGED <<shelf, open, list, net, history>>
      /\ draw.ready /\ draw.mode # "select" /\ CanDraw /\ HandleFinish(f, drawn)
  BY DEF FinishFeature, Draws
<1>2. f \in Features /\ IsPolygon(f) = (draw.mode = "polygon")
  <2>1. FreshFeature \in Free
    BY <1>1 DEF FreshFeature, CanDraw
  <2> QED
    BY <2>1 DEF Free
<1> HIDE DEF f
<1>3. draw \in DrawRecord
  BY DEF EditorInv, ShapeOK
<1>4. /\ drawn \in DrawRecord /\ drawn.ready = draw.ready /\ drawn.heard = draw.heard
      /\ drawn.mode = draw.mode /\ drawn.features = draw.features \cup {f}
  BY <1>2, <1>3 DEF DrawRecord
<1> HIDE DEF drawn
<1>5. draw.heard => (IsPolygon(f) /\ ui.zoning)
                       \/ ui.step \in IF IsPolygon(f) THEN {"corridor"} ELSE {"start", "end"}
  BY <1>1, <1>2, <1>3 DEF EditorInv, SketchOK, DrawRecord
<1> QED
  BY <1>1, <1>2, <1>4, <1>5, HandleFinishKeeps

LEMMA DragFeatureKeeps ==
  ASSUME EditorInv, NEW f \in Features, DragFeature(f)
  PROVE  EditorInv'
<1>1. /\ UNCHANGED <<shelf, open, list, net, history>> /\ draw.ready /\ HandleFinish(f, draw)
      /\ draw \in DrawRecord
  BY DEF DragFeature, Draws, EditorInv, ShapeOK
<1> QED
  BY <1>1, HandleFinishKeeps

-----------------------------------------------------------------------------
(* A drawing begun, ended or put away                                      *)

\* With nothing drawn and nothing under way for it, saves are right.
LEMMA FreshThis ==
  ASSUME made' = {}, \A q \in net' : ~q.this, ui'.step = "idle" => ui'.editing = 0,
         ui'.editing # 0 => \E r \in list.rounds' : r.number = ui'.editing
  PROVE  ThisOK'
BY DEF ThisOK, StoredThis

\* The requests are the same ones.
LEMMA SameNet ==
  ASSUME EditorInv, net' = Anew(net), UNCHANGED <<rows, born, open, list, stale>>
  PROVE  net' \subseteq Request /\ NetOK' /\ ListOK' /\ \A q \in net' : ~q.this
<1>1. /\ net' \subseteq Request
      /\ \A x \in net' : ~x.this /\ \E q \in net : Same(x, q)
      /\ \A q \in net : \E x \in net' : Same(x, q)
  BY AnewShape DEF EditorInv, ShapeOK
<1>2. NetOK'
  BY <1>1 DEF EditorInv, NetOK, Same
<1>3. ListOK'
  <2> SUFFICES ASSUME open # 0, ~stale, \A q \in net' : ~Awaits(q)
               PROVE  /\ \A q \in net' : q.op = "get" => Right(q)'
                      /\ list.map = 0 \/ ListRight' \/ \E q \in net' : Right(q)'
    BY DEF ListOK, Awaits
  <2>1. \A q \in net : ~Awaits(q)
    BY <1>1 DEF Awaits, Same
  <2>2. /\ \A q \in net : q.op = "get" => Right(q)
        /\ list.map = 0 \/ ListRight \/ \E q \in net : Right(q)
    BY <2>1 DEF EditorInv, ListOK
  <2>3. \A x, q : Same(x, q) /\ Right(q) => Right(x)'
    BY DEF Same, Right, RoundsOf
  <2>4. ListRight' = ListRight
    BY DEF ListRight, RoundsOf
  <2>5. \A q \in net' : q.op = "get" => Right(q)'
    BY <1>1, <2>2, <2>3 DEF Same
  <2>6. (\E q \in net : Right(q)) => \E q \in net' : Right(q)'
    BY <1>1, <2>3
  <2> QED
    BY <2>2, <2>4, <2>5, <2>6
<1> QED
  BY <1>1, <1>2, <1>3

\* A cleared drawing that goes to a step is tracked.
LEMMA SketchCleared ==
  ASSUME ShapeOK, SketchOK,
         NEW u, u \in UiRecord, u.at = Cleared(ui).at, u.zones = Cleared(ui).zones,
         NEW step \in {"start", "idle"}, step = "start" => ui.step = "idle",
         SetStep(u, Blank(draw), step)
  PROVE  /\ SketchOK' /\ ui' \in UiRecord /\ draw' \in DrawRecord
         /\ ui'.step = step /\ ui'.editing = u.editing
<1> DEFINE d == Blank(draw)
<1>1. ui \in UiRecord /\ draw \in DrawRecord
  BY DEF ShapeOK
<1>2. /\ d \in DrawRecord /\ d.ready = draw.ready /\ d.heard = draw.heard /\ d.mode = draw.mode
      /\ d.features = {}
  BY <1>1 DEF Blank, DrawRecord
<1>3. step \in Steps
  BY DEF Steps, Parts
<1> HIDE DEF d
<1>4. /\ ui' \in UiRecord /\ draw' \in DrawRecord
      /\ ui'.step = step /\ ui'.editing = u.editing
      /\ ui'.at = u.at /\ ui'.zones = u.zones
      /\ draw'.ready = d.ready /\ draw'.features = d.features
      /\ d.ready /\ step # ui.step => draw'.heard /\ draw'.mode = StepMode(step)
      /\ ~(d.ready /\ step # ui.step) => draw'.heard = d.heard /\ draw'.mode = d.mode
  BY <1>1, <1>2, <1>3, SetStepShape DEF d
<1>5. CASE draw.ready /\ step # ui.step
  <2>1. draw'.heard /\ draw'.mode = (IF step = "start" THEN "point" ELSE "select")
    BY <1>2, <1>4, <1>5 DEF StepMode
  <2> QED
    BY <1>2, <1>4, <1>5, <2>1 DEF SketchOK
<1>6. CASE draw.ready /\ step = ui.step
  <2>1. step = "idle" /\ draw'.heard = draw.heard /\ draw'.mode = draw.mode /\ draw'.ready
    BY <1>2, <1>4, <1>6
  <2>2. (\A p \in Parts : ui'.at[p] = 0) /\ ui'.zones = {}
    BY <1>1, <1>4, <1>6, ClearedShape
  <2>3. draw.heard => draw.mode \notin {"point", "polygon"}
    BY <1>6, <2>1 DEF SketchOK
  <2> QED
    BY <1>2, <1>4, <2>1, <2>2, <2>3 DEF SketchOK
<1>7. CASE ~draw.ready
  <2>1. ~draw.heard /\ Cleared(ui) = ui
    BY <1>1, <1>7, ClearedShape DEF SketchOK
  <2>2. ~draw'.heard
    BY <1>2, <1>4, <1>7, <2>1
  <2> QED
    BY <1>4, <2>1, <2>2 DEF SketchOK
<1> QED
  BY <1>4, <1>5, <1>6, <1>7

\* What Cancelled leaves.
LEMMA EditingShape ==
  ASSUME ui \in UiRecord, NEW n \in 0 .. MaxRounds
  PROVE  LET u == [Cleared(ui) EXCEPT !.editing = n]
         IN /\ u \in UiRecord /\ u.editing = n /\ u.at = Cleared(ui).at
            /\ u.zones = Cleared(ui).zones /\ u.saving = ui.saving
<1> DEFINE c == Cleared(ui)
<1>1. c \in UiRecord /\ c.saving = ui.saving
  BY ClearedShape
<1> HIDE DEF c
<1>2. LET u == [c EXCEPT !.editing = n]
      IN /\ u \in UiRecord /\ u.editing = n /\ u.at = c.at
         /\ u.zones = c.zones /\ u.saving = ui.saving
  BY <1>1 DEF UiRecord
<1> QED
  BY <1>2 DEF c

LEMMA NewRoundKeeps == ASSUME EditorInv, StartNewRound \/ CancelEditing PROVE EditorInv'
<1> DEFINE u == [Cleared(ui) EXCEPT !.editing = 0]
<1>1. PICK step \in {"start", "idle"} :
        SetStep(u, Blank(draw), step) /\ (step = "start" => ui.step = "idle")
  BY DEF StartNewRound, CancelEditing, Cancelled
<1>2. /\ UNCHANGED <<maps, rows, born, open, list, stale>> /\ net' = Anew(net) /\ made' = {}
      /\ refreshed' = FALSE
  BY DEF StartNewRound, CancelEditing, Rounds, NewDrawing, shelf
<1>3. /\ u \in UiRecord /\ u.editing = 0 /\ u.at = Cleared(ui).at /\ u.zones = Cleared(ui).zones
  BY EditingShape, BoundAssumption DEF EditorInv, ShapeOK
<1> HIDE DEF u
<1>4. /\ SketchOK' /\ ui' \in UiRecord /\ draw' \in DrawRecord /\ ui'.editing = 0
  BY <1>1, <1>3, SketchCleared DEF EditorInv
<1>5. net' \subseteq Request /\ NetOK' /\ ListOK' /\ \A q \in net' : ~q.this
  BY <1>2, SameNet
<1>6. refreshed' \in BOOLEAN
  BY <1>2
<1>7. ShapeOK' /\ RowsOK'
  BY <1>2, <1>4, <1>5, <1>6 DEF EditorInv, ShapeOK, RowsOK
<1>8. ThisOK'
  BY <1>2, <1>4, <1>5, FreshThis
<1> QED
  BY <1>4, <1>5, <1>7, <1>8 DEF EditorInv

\* Edit, of a round in the list.
LEMMA EditRoundKeeps == ASSUME EditorInv, NEW r, EditRound(r) PROVE EditorInv'
<1> DEFINE u == [Cleared(ui) EXCEPT !.editing = r.number]
<1>1. /\ r \in list.rounds /\ ui.step = "idle" /\ LoadRound(u)
      /\ UNCHANGED <<maps, rows, born, open, list, stale>> /\ net' = Anew(net) /\ made' = {}
      /\ refreshed' = FALSE
  BY DEF EditRound, Offered, Rounds, NewDrawing, shelf
<1>2. ui \in UiRecord /\ draw \in DrawRecord /\ r \in Row
  BY <1>1 DEF EditorInv, ShapeOK, ListRecord
<1>3. r.number \in 0 .. MaxRounds
  BY <1>2 DEF Row, Ids
<1>4. u \in UiRecord /\ u.editing = r.number /\ u.at = Cleared(ui).at /\ u.zones = Cleared(ui).zones
  BY <1>2, <1>3, EditingShape
<1>5. "review" \in Steps
  BY DEF Steps
<1> HIDE DEF u
<1>6. SketchOK' /\ ui' \in UiRecord /\ draw' \in DrawRecord /\ ui'.step = "review" /\ ui'.editing = r.number
  <2>1. CASE draw.ready
    <3>1. PICK zones \in {{}, {4}} :
            SetStep([u EXCEPT !.at = [p \in Parts |-> OwnId(p)], !.zones = zones],
                    [draw EXCEPT !.features = 1 .. 3 \cup zones], "review")
      BY <1>1, <2>1 DEF LoadRound
    <3> DEFINE at == [p \in Parts |-> OwnId(p)]
               a == [u EXCEPT !.at = at]
               v == [a EXCEPT !.zones = zones]
               features == 1 .. 3 \cup zones
               d == [draw EXCEPT !.features = features]
    <3>2. at \in [Parts -> 0 .. MaxFeatures] /\ at["start"] = 1 /\ at["end"] = 3 /\ at["corridor"] = 2
      BY BoundAssumption DEF OwnId, Parts
    <3>3. features \in SUBSET Features /\ zones \in SUBSET Features
      BY BoundAssumption DEF Features
    <3>4. SetStep(v, d, "review")
      BY <1>4, <3>1 DEF UiRecord
    <3> HIDE DEF at, features
    <3>5. a \in UiRecord /\ a.at = at /\ a.editing = u.editing
      BY <1>4, <3>2 DEF UiRecord
    <3> HIDE DEF a
    <3>6. v \in UiRecord /\ v.at = at /\ v.zones = zones /\ v.editing = u.editing
      BY <3>3, <3>5 DEF UiRecord
    <3>7. d \in DrawRecord /\ d.ready = draw.ready /\ d.features = features
      BY <1>2, <3>3 DEF DrawRecord
    <3> HIDE DEF v, d
    <3>8. /\ ui' \in UiRecord /\ draw' \in DrawRecord
          /\ ui'.step = "review" /\ ui'.editing = u.editing
          /\ ui'.at = at /\ ui'.zones = zones
          /\ draw'.ready = d.ready /\ draw'.features = features
          /\ draw'.heard /\ draw'.mode = StepMode("review")
      BY <1>1, <1>2, <1>5, <2>1, <3>4, <3>6, <3>7, SetStepShape
    <3>9. features \subseteq Refs(ui') \cup zones
      <4>1. \A x \in features : x \in zones \/ x = at["start"] \/ x = at["end"] \/ x = at["corridor"]
        BY <3>2 DEF features
      <4>2. at["start"] \in Refs(ui') /\ at["end"] \in Refs(ui') /\ at["corridor"] \in Refs(ui')
        BY <3>2, <3>8 DEF Refs, Parts
      <4> QED
        BY <4>1, <4>2
    <3>10. draw'.mode = "select"
      BY <3>8 DEF StepMode
    <3> QED
      BY <1>4, <2>1, <3>7, <3>8, <3>9, <3>10 DEF SketchOK
  <2>2. CASE ~draw.ready
    <3>1. SetStep(u, draw, "review")
      BY <1>1, <2>2 DEF LoadRound
    <3>2. Cleared(ui) = ui /\ ~draw.heard
      BY <1>2, <2>2, ClearedShape DEF EditorInv, SketchOK
    <3>3. /\ ui' \in UiRecord /\ draw' \in DrawRecord
          /\ ui'.step = "review" /\ ui'.editing = u.editing
          /\ ui'.at = ui.at /\ ui'.zones = ui.zones /\ draw'.heard = draw.heard
      BY <1>2, <1>4, <1>5, <2>2, <3>1, <3>2, SetStepShape
    <3> QED
      BY <1>4, <3>2, <3>3 DEF EditorInv, SketchOK
  <2> QED
    BY <2>1, <2>2
<1>7. net' \subseteq Request /\ NetOK' /\ ListOK' /\ \A q \in net' : ~q.this
  BY <1>1, SameNet
<1>8. refreshed' \in BOOLEAN
  BY <1>1
<1>9. ShapeOK' /\ RowsOK'
  BY <1>1, <1>6, <1>7, <1>8 DEF EditorInv, ShapeOK, RowsOK
<1>10. ThisOK'
  BY <1>1, <1>6, <1>7, FreshThis
<1> QED
  BY <1>6, <1>7, <1>9, <1>10 DEF EditorInv

-----------------------------------------------------------------------------
(* The editor comes and goes                                               *)

\* A fresh editor, which may have asked for its map.
LEMMA FreshKeeps ==
  ASSUME EditorInv, UNCHANGED shelf, open' \in 0 .. MaxMaps,
         list' = NoList, ui' = FreshUi, draw' = NoDraw, stale' = FALSE, NewDrawing,
         \/ open' = 0 /\ net' = Left(net)
         \/ open' \in Maps /\ net' = Left(net) \cup {Ask("get", open', 0, 0, FALSE)}
  PROVE  EditorInv'
<1> USE DEF shelf
<1>1. /\ ui' \in UiRecord /\ ui'.step = "idle" /\ ui'.editing = 0 /\ ui'.zones = {}
      /\ \A p \in Parts : ui'.at[p] = 0
  BY BoundAssumption DEF FreshUi, UiRecord, Steps
<1>2. draw' \in DrawRecord /\ ~draw'.heard
  BY DEF NoDraw, DrawRecord
<1>3. list' \in ListRecord /\ list'.rounds = {} /\ list'.map = 0
  BY BoundAssumption DEF NoList, ListRecord
<1>4. /\ Left(net) \subseteq Request
      /\ \A x \in Left(net) :
           /\ ~x.this /\ ~x.live /\ x.at = "sent" /\ x.op # "get"
           /\ \E q \in net : /\ x.op = q.op /\ x.map = q.map /\ x.id = q.id /\ x.at = q.at
                             /\ x.number = q.number /\ x.ok = q.ok /\ x.rounds = q.rounds
  BY LeftShape DEF EditorInv, ShapeOK
<1>5. PICK g : /\ net' = Left(net) \/ net' = Left(net) \cup {g}
               /\ open' = 0 \/ net' = Left(net) \cup {g}
               /\ g \in Request /\ g.op = "get" /\ g.at = "sent" /\ g.ok /\ g.live /\ ~g.this
               /\ g.rounds = {}
  <2>1. ASSUME NEW m \in Maps
        PROVE  LET g == Ask("get", m, 0, 0, FALSE)
               IN /\ g \in Request /\ g.op = "get" /\ g.at = "sent" /\ g.ok /\ g.live /\ ~g.this
                  /\ g.rounds = {}
    BY <2>1, GetShape
  <2>2. 1 \in Maps
    BY BoundAssumption DEF Maps
  <2> QED
    BY <2>1, <2>2
<1>6. stale' \in BOOLEAN /\ refreshed' \in BOOLEAN /\ made' = {}
  BY DEF NewDrawing
<1>7. ShapeOK'
  BY <1>1, <1>2, <1>3, <1>4, <1>5, <1>6 DEF EditorInv, ShapeOK
<1>8. RowsOK'
  BY DEF EditorInv, RowsOK
<1>9. SketchOK'
  BY <1>1, <1>2 DEF SketchOK
<1>10. NetOK'
  <2>1. Counted({}, born)
    BY FS_EmptySet DEF Counted, EditorInv, ShapeOK
  <2>2. ASSUME NEW x \in Left(net)
        PROVE  /\ Counted(x.rounds, born)
               /\ x.op = "create" => x.number \in 1 .. born + 1 \cup Ids
               /\ x.op = "update" => x.id \in Ids
               /\ x.ok
    BY <1>4 DEF EditorInv, NetOK
  <2>3. Counted(list'.rounds, born')
    BY <1>3, <2>1
  <2>4. \A x \in net' : x \in Left(net) \/ x = g
    BY <1>5
  <2> QED
    BY <1>4, <1>5, <2>1, <2>2, <2>3, <2>4 DEF NetOK
<1>11. ListOK'
  BY <1>5 DEF ListOK, Awaits
<1>12. ThisOK'
  BY <1>1, <1>4, <1>5, <1>6, FreshThis
<1> QED
  BY <1>7, <1>8, <1>9, <1>10, <1>11, <1>12 DEF EditorInv

\* Another map's address.
LEMMA SwitchMapKeeps ==
  ASSUME EditorInv, UNCHANGED shelf, NEW m \in Maps, SwitchMap(m)
  PROVE  EditorInv'
<1> USE DEF shelf
<1> DEFINE g == Ask("get", m, 0, 0, FALSE)
<1>1. /\ g \in Request /\ g.op = "get" /\ g.at = "sent" /\ g.ok /\ g.live /\ ~g.this
      /\ g.rounds = {}
  BY GetShape
<1>2. /\ open' = m /\ net' = net \cup {g} /\ stale' = TRUE /\ refreshed' = TRUE
      /\ UNCHANGED <<list, ui, draw, made>>
  BY DEF SwitchMap
<1> HIDE DEF g
<1>3. stale' \in BOOLEAN /\ refreshed' \in BOOLEAN /\ stale' /\ refreshed'
  BY <1>2
<1>4. ShapeOK'
  BY <1>1, <1>2, <1>3 DEF EditorInv, ShapeOK, Maps
<1>5. RowsOK' /\ SketchOK'
  BY <1>2 DEF EditorInv, RowsOK, SketchOK
<1>6. NetOK'
  <2>1. Counted({}, born)
    BY FS_EmptySet DEF Counted, EditorInv, ShapeOK
  <2> QED
    BY <1>1, <1>2, <2>1 DEF EditorInv, NetOK
<1>7. ListOK'
  BY <1>3 DEF ListOK
<1>8. ThisOK'
  BY <1>1, <1>2, <1>3 DEF EditorInv, ThisOK
<1> QED
  BY <1>4, <1>5, <1>6, <1>7, <1>8 DEF EditorInv

-----------------------------------------------------------------------------
(* Asking                                                                  *)

\* Rounds with ids of their own are no more than have been stored.
LEMMA RowsCounted ==
  ASSUME ShapeOK, RowsOK, NEW S, S \subseteq rows
  PROVE  Counted(S, born)
<1> DEFINE f == [r \in S |-> r.id]
<1>1. f \in [S -> 1 .. born] /\ \A r, s \in S : f[r] = f[s] => r = s
  BY DEF RowsOK
<1> HIDE DEF f
<1>2. f \in Injection(S, 1 .. born)
  BY <1>1 DEF Injection, IsInjective
<1>3. born \in Nat
  BY BoundAssumption DEF ShapeOK
<1>4. IsFiniteSet(1 .. born) /\ Cardinality(1 .. born) = born
  BY <1>3, FS_Interval
<1>5. IsFiniteSet(S) /\ Cardinality(S) <= born
  BY <1>2, <1>4, FS_Injection
<1>6. Cardinality(S) \in Nat
  BY <1>5, FS_CardinalityType
<1> QED
  BY <1>3, <1>5, <1>6 DEF Counted

\* What was counted stays so.
LEMMA CountedMore ==
  ASSUME NEW S, NEW m \in Nat, NEW n \in Nat, m <= n, Counted(S, m)
  PROVE  Counted(S, n)
BY DEF Counted

LEMMA RangeMore ==
  ASSUME NEW m \in Nat, NEW n \in Nat, m <= n
  PROVE  1 .. m \subseteq 1 .. n /\ 1 .. m + 1 \subseteq 1 .. n + 1
OBVIOUS

\* Only whether a save is under way changes.
OnlySaving ==
  /\ ui' \in UiRecord /\ ui'.step = ui.step /\ ui'.editing = ui.editing /\ ui'.at = ui.at
  /\ ui'.zones = ui.zones /\ ui'.zoning = ui.zoning

\* A request is sent, perhaps in place of one that was answered.
LEMMA AddKeeps ==
  ASSUME EditorInv, UNCHANGED <<shelf, open, list, draw, history>>, OnlySaving,
         NEW ns, ns \subseteq net, NEW g, net' = ns \cup {g},
         g \in Request, g.at = "sent", g.ok, g.live, g.rounds = {},
         g.op = "create" => g.number \in 1 .. born + 1 \cup Ids,
         g.op = "update" => g.id \in Ids,
         g.this => ui.step # "idle" /\ (~refreshed => SavesThis(g)),
         ns = net \/ Awaits(g)
  PROVE  EditorInv'
<1> USE DEF shelf, history
<1>1. ShapeOK'
  BY DEF EditorInv, ShapeOK, OnlySaving
<1>2. RowsOK'
  BY DEF EditorInv, RowsOK
<1>3. SketchOK'
  BY DEF EditorInv, SketchOK, OnlySaving, Refs
<1>4. NetOK'
  <2>1. Counted({}, born)
    BY RowsCounted DEF EditorInv
  <2> QED
    BY <2>1 DEF EditorInv, NetOK
<1>5. ListOK'
  <2>1. CASE Awaits(g)
    BY <2>1 DEF ListOK, Awaits
  <2>2. CASE ns = net /\ ~Awaits(g)
    <3>1. g.op # "get"
      BY <2>2 DEF Awaits
    <3> QED
      BY <2>2, <3>1 DEF EditorInv, ListOK, Awaits, Right, ListRight, RoundsOf
  <2> QED
    BY <2>1, <2>2
<1>6. Edited' = Edited /\ NextNumber' = NextNumber
  BY DEF Edited, NextNumber, OnlySaving
<1>7. \A q : SavesThis(q)' <=> SavesThis(q)
  BY <1>6 DEF SavesThis, OnlySaving
<1>8. StoredThis' <=> StoredThis
  BY <1>6 DEF StoredThis, OnlySaving
<1>9. ThisOK'
  BY <1>7, <1>8 DEF EditorInv, ThisOK, OnlySaving
<1> QED
  BY <1>1, <1>2, <1>3, <1>4, <1>5, <1>9 DEF EditorInv

\* Save Round: the number is the next of the list, or the round edited is in it.
LEMMA SaveRoundKeeps == ASSUME EditorInv, SaveRound PROVE EditorInv'
<1> DEFINE existing == {r \in list.rounds : r.number = ui.editing}
<1>1. /\ UNCHANGED <<shelf, open, list, draw, history>> /\ ui.step # "idle" /\ open # 0
      /\ ui' = [ui EXCEPT !.saving = TRUE]
  BY DEF SaveRound, MaySave, Shown
<1>2. /\ ui \in UiRecord /\ list \in ListRecord /\ born \in Nat /\ born <= MaxRounds
      /\ Cardinality(list.rounds) \in 0 .. born /\ open \in Maps
  BY <1>1, BoundAssumption DEF EditorInv, ShapeOK, NetOK, Counted, Maps
<1>3. OnlySaving
  BY <1>1, <1>2 DEF UiRecord, OnlySaving
<1>4. Edited = (CHOOSE r \in existing : TRUE).id
  BY DEF Edited
<1>5. existing # {} => Edited \in Ids /\ list.rounds # {}
  <2> SUFFICES ASSUME existing # {} PROVE Edited \in Ids /\ list.rounds # {}
    OBVIOUS
  <2>1. (CHOOSE r \in existing : TRUE) \in existing
    OBVIOUS
  <2>2. (CHOOSE r \in existing : TRUE) \in Row
    BY <1>2, <2>1 DEF ListRecord
  <2> QED
    BY <1>4, <2>2 DEF Row
<1>6. PICK g :
        /\ net' = net \cup {g}
        /\ g = CASE ui.editing = 0 -> Ask("create", open, 0, NextNumber, TRUE)
                 [] ui.editing # 0 /\ existing # {} -> Ask("update", open, Edited, ui.editing, TRUE)
                 [] ui.editing # 0 /\ list.rounds = {} -> Ask("create", open, 0, ui.editing, TRUE)
                 [] OTHER -> Ask("get", open, 0, 0, TRUE)
  BY <1>4 DEF SaveRound, NextNumber
<1>7. /\ 0 \in 0 .. MaxRounds /\ ui.editing \in 0 .. MaxRounds + 1 /\ 0 \in 0 .. MaxRounds + 1
      /\ NextNumber \in 0 .. MaxRounds + 1 /\ NextNumber \in 1 .. born + 1
      /\ existing # {} => Edited \in 0 .. MaxRounds
      /\ "create" \in Ops /\ "update" \in Ops /\ "get" \in Ops
  BY <1>2, <1>5, BoundAssumption DEF NextNumber, UiRecord, Ids, Ops
<1> HIDE DEF existing
<1>8. /\ g \in Request /\ g.at = "sent" /\ g.ok /\ g.live /\ g.rounds = {}
      /\ g.op = "create" => \/ g.number = NextNumber /\ g.map = open /\ ui.editing = 0
                            \/ g.number = ui.editing /\ existing = {} /\ ui.editing \in Ids
      /\ g.op = "update" => g.id = Edited /\ existing # {} /\ ui.editing # 0
      /\ g.op = "get" => existing = {} /\ ui.editing # 0
  <2>1. CASE ui.editing = 0
    <3>1. g = Ask("create", open, 0, NextNumber, TRUE)
      BY <1>6, <2>1
    <3> QED
      BY <1>2, <1>7, <2>1, <3>1 DEF Ask, Request
  <2>2. CASE ui.editing # 0 /\ existing # {}
    <3>1. g = Ask("update", open, Edited, ui.editing, TRUE)
      BY <1>5, <1>6, <2>2
    <3> QED
      BY <1>2, <1>7, <2>2, <3>1 DEF Ask, Request
  <2>3. CASE ui.editing # 0 /\ existing = {} /\ list.rounds = {}
    <3>1. g = Ask("create", open, 0, ui.editing, TRUE) /\ ui.editing \in Ids
      BY <1>2, <1>6, <2>3, BoundAssumption DEF UiRecord, Ids
    <3> QED
      BY <1>2, <1>7, <2>3, <3>1 DEF Ask, Request
  <2>4. CASE ui.editing # 0 /\ existing = {} /\ list.rounds # {}
    <3>1. g = Ask("get", open, 0, 0, TRUE)
      BY <1>6, <2>4
    <3> QED
      BY <1>2, <1>7, <2>4, <3>1 DEF Ask, Request
  <2> QED
    BY <2>1, <2>2, <2>3, <2>4
<1>9. ~refreshed => (ui.editing # 0 => existing # {})
  BY DEF EditorInv, ThisOK, existing
<1>10. ~refreshed => SavesThis(g)
  BY <1>6, <1>8, <1>9 DEF SavesThis, Ask
<1> QED
  BY <1>1, <1>3, <1>5, <1>6, <1>7, <1>8, <1>10, AddKeeps

\* Delete, of a round in the list.
LEMMA DeleteRoundKeeps == ASSUME EditorInv, NEW r, DeleteRound(r) PROVE EditorInv'
<1> DEFINE g == Ask("delete", open, r.id, 0, FALSE)
<1>1. /\ UNCHANGED <<shelf, open, list, ui, draw, history>> /\ open # 0 /\ r \in list.rounds
      /\ net' = net \cup {g}
  BY DEF DeleteRound, Offered, Shown
<1>2. r \in Row /\ open \in Maps /\ ui \in UiRecord
  BY <1>1 DEF EditorInv, ShapeOK, ListRecord, Maps
<1>3. r.id \in 0 .. MaxRounds /\ 0 \in 0 .. MaxRounds + 1 /\ "delete" \in Ops
  BY <1>2, BoundAssumption DEF Row, Ids, Ops
<1>4. /\ g \in Request /\ g.at = "sent" /\ g.ok /\ g.live /\ g.rounds = {} /\ g.op = "delete"
      /\ ~g.this
  BY <1>2, <1>3 DEF Ask, Request
<1>5. OnlySaving
  BY <1>1, <1>2 DEF OnlySaving
<1> HIDE DEF g
<1> QED
  BY <1>1, <1>4, <1>5, AddKeeps

-----------------------------------------------------------------------------
(* What happens on the server                                              *)

\* Rounds come and go that are not the drawing's.
LEMMA ElsewhereKeeps ==
  ASSUME EditorInv, UNCHANGED <<open, list, ui, draw, net, refreshed, made>>,
         maps' \subseteq Maps, rows' \subseteq Row, born' \in 0 .. MaxRounds, born <= born',
         stale' \in BOOLEAN, RowsOK', \A r \in rows' : r \in rows \/ r.id = born + 1,
         ~stale' => ~stale /\ RoundsOf(open)' = RoundsOf(open)
  PROVE  EditorInv'
<1>1. born \in Nat /\ born' \in Nat
  BY BoundAssumption DEF EditorInv, ShapeOK
<1>2. made' \subseteq 1 .. born /\ 1 .. born \subseteq 1 .. born'
  BY <1>1, RangeMore DEF EditorInv, ShapeOK
<1>3. ShapeOK'
  BY <1>2 DEF EditorInv, ShapeOK
<1>4. SketchOK'
  BY DEF EditorInv, SketchOK, Refs
<1>5. NetOK'
  <2>1. \A S : Counted(S, born) => Counted(S, born')
    BY <1>1, CountedMore
  <2>2. 1 .. born + 1 \subseteq 1 .. born' + 1
    BY <1>1, RangeMore
  <2> QED
    BY <2>1, <2>2 DEF EditorInv, NetOK
<1>6. ListOK'
  BY DEF EditorInv, ListOK, Awaits, Right, ListRight
<1>7. Edited' = Edited /\ NextNumber' = NextNumber
  BY DEF Edited, NextNumber
<1>8. \A q : SavesThis(q)' <=> SavesThis(q)
  BY <1>7 DEF SavesThis
<1>9. born + 1 \notin made
  BY <1>1, <1>2
<1>10. StoredThis => StoredThis'
  BY <1>7, <1>9 DEF StoredThis
<1>11. ThisOK'
  BY <1>8, <1>10 DEF EditorInv, ThisOK
<1> QED
  BY <1>3, <1>4, <1>5, <1>6, <1>11 DEF EditorInv

\* A round is added with an id of its own and a number that is free.
LEMMA RowAdded ==
  ASSUME ShapeOK, RowsOK, born < MaxRounds, NEW m \in Maps, NEW n \in Ids,
         ~\E r \in RoundsOf(m) : r.number = n,
         born' = born + 1, rows' = rows \cup {[id |-> born', map |-> m, number |-> n]}
  PROVE  /\ born' \in 1 .. MaxRounds /\ born <= born' /\ rows' \subseteq Row /\ RowsOK'
         /\ \A r \in rows' : r \in rows \/ r.id = born + 1
<1> DEFINE new == [id |-> born', map |-> m, number |-> n]
<1>1. born \in Nat /\ born' \in 1 .. MaxRounds /\ born <= born'
  BY BoundAssumption DEF ShapeOK
<1>2. new \in Row /\ new.id = born' /\ new.map = m /\ new.number = n
  BY <1>1 DEF Row, Ids
<1> HIDE DEF new
<1>3. rows' = rows \cup {new}
  BY DEF new
<1>4. \A r \in rows : r.id \in 1 .. born /\ r.id # new.id /\ r.id \in 1 .. born'
  BY <1>1, <1>2 DEF RowsOK
<1>5. \A r \in rows : ~(r.map = new.map /\ r.number = new.number)
  BY <1>2 DEF RoundsOf
<1>6. RowsOK'
  BY <1>1, <1>2, <1>3, <1>4, <1>5 DEF RowsOK
<1>7. rows' \subseteq Row
  BY <1>2, <1>3 DEF ShapeOK
<1> QED
  BY <1>1, <1>2, <1>3, <1>6, <1>7

\* Rounds are taken away.
LEMMA RowsRemoved ==
  ASSUME RowsOK, rows' \subseteq rows, born' = born
  PROVE  RowsOK'
BY DEF RowsOK

LEMMA OthersCreateKeeps == ASSUME EditorInv, NEW n \in Ids, OthersCreate(n) PROVE EditorInv'
<1>1. /\ open \in maps /\ born < MaxRounds /\ ~\E r \in RoundsOf(open) : r.number = n
      /\ born' = born + 1 /\ rows' = rows \cup {[id |-> born', map |-> open, number |-> n]}
      /\ stale' = TRUE /\ UNCHANGED <<maps, open, list, ui, draw, net, refreshed, made>>
  BY DEF OthersCreate, editor
<1>2. open \in Maps
  BY <1>1 DEF EditorInv, ShapeOK
<1>3. /\ born' \in 1 .. MaxRounds /\ born <= born' /\ rows' \subseteq Row /\ RowsOK'
      /\ \A r \in rows' : r \in rows \/ r.id = born + 1
  BY <1>1, <1>2, RowAdded DEF EditorInv
<1>4. stale' /\ stale' \in BOOLEAN /\ born' \in 0 .. MaxRounds /\ maps' \subseteq Maps
  BY <1>1, <1>3 DEF EditorInv, ShapeOK
<1> QED
  BY <1>1, <1>3, <1>4, ElsewhereKeeps

LEMMA OthersDeleteKeeps == ASSUME EditorInv, NEW r, OthersDelete(r) PROVE EditorInv'
<1>1. /\ rows' \subseteq rows /\ born' = born
      /\ stale' = TRUE /\ UNCHANGED <<maps, open, list, ui, draw, net, refreshed, made>>
  BY DEF OthersDelete, editor
<1>2. RowsOK'
  BY <1>1, RowsRemoved DEF EditorInv
<1>3. born <= born' /\ born' \in 0 .. MaxRounds
  BY <1>1, BoundAssumption DEF EditorInv, ShapeOK
<1>4. stale' /\ stale' \in BOOLEAN /\ maps' \subseteq Maps /\ rows' \subseteq Row
  BY <1>1 DEF EditorInv, ShapeOK
<1>5. \A s \in rows' : s \in rows \/ s.id = born + 1
  BY <1>1
<1> QED
  BY <1>1, <1>2, <1>3, <1>4, <1>5, ElsewhereKeeps

\* What waits for the server, or is answered, is of no use yet for the list.
Unheard(q, ns) ==
  /\ \A x \in ns : x \in net \ {q} \/ (x.op = q.op /\ ~x.ok /\ x.at = "back")
  /\ net \ {q} \subseteq ns

\* A request that changes no rounds leaves the list as right as it was.
LEMMA UnheardList ==
  ASSUME EditorInv, UNCHANGED <<rows, open, list>>, ~stale' => ~stale,
         NEW q \in net, ~Awaits(q), ~Right(q), q.op # "get" \/ ~q.ok, Unheard(q, net')
  PROVE  ListOK'
<1> SUFFICES ASSUME open # 0, ~stale', \A x \in net' : ~Awaits(x)
             PROVE  /\ \A x \in net' : x.op = "get" => Right(x)
                    /\ list.map = 0 \/ ListRight \/ \E x \in net' : Right(x)
  BY DEF ListOK, Awaits, Right, ListRight, RoundsOf
<1>1. \A x \in net : ~Awaits(x)
  BY DEF Unheard
<1>2. /\ \A x \in net : x.op = "get" => Right(x)
      /\ list.map = 0 \/ ListRight \/ \E x \in net : Right(x)
  BY <1>1 DEF EditorInv, ListOK
<1>3. q.op # "get"
  BY <1>2
<1> QED
  BY <1>2, <1>3 DEF Unheard

\* An answer says what was asked, on behalf of the same drawing, to the editor that asked.
AnswerTo(q, a) ==
  /\ a \in Request /\ a.at = "back" /\ a.live
  /\ a.op = q.op /\ a.map = q.map /\ a.id = q.id /\ a.number = q.number /\ a.this = q.this

LEMMA AnswerShape ==
  ASSUME NEW q \in Request, q.live, NEW x \in Request, x.live, x.op = q.op, x.map = q.map,
         x.id = q.id, x.number = q.number, x.this = q.this
  PROVE  LET a == [x EXCEPT !.at = "back"]
         IN AnswerTo(q, a) /\ a.ok = x.ok /\ a.rounds = x.rounds
BY DEF AnswerTo, Request

\* A request that is done with is answered, if the editor that asked is there.
LEMMA AnsweredNet ==
  ASSUME NEW q \in Request, q.ok, Answer(q, q)
  PROVE  \/ ~q.live /\ net' = net \ {q}
         \/ \E a : /\ net' = (net \ {q}) \cup {a}
                   /\ AnswerTo(q, a) /\ a.ok /\ a.rounds = q.rounds
<1>1. CASE q.live
  <2> DEFINE a == [q EXCEPT !.at = "back"]
  <2>1. AnswerTo(q, a) /\ a.ok = q.ok /\ a.rounds = q.rounds
    BY <1>1, AnswerShape
  <2>2. net' = (net \ {q}) \cup {a}
    BY <1>1 DEF Answer
  <2> QED
    BY <2>1, <2>2
<1>2. CASE ~q.live
  BY <1>2 DEF Answer
<1> QED
  BY <1>1, <1>2

\* A refused one is answered for a save only.
LEMMA RefusedNet ==
  ASSUME NEW q \in Request, Refuse(q)
  PROVE  \/ net' = net \ {q}
         \/ \E a : /\ net' = (net \ {q}) \cup {a} /\ q.live
                   /\ AnswerTo(q, a) /\ ~a.ok /\ a.rounds = q.rounds
<1>1. CASE q.save /\ q.live
  <2> DEFINE x == [q EXCEPT !.ok = FALSE]
             a == [x EXCEPT !.at = "back"]
  <2>1. /\ x \in Request /\ x.live /\ x.op = q.op /\ x.map = q.map /\ x.id = q.id
        /\ x.number = q.number /\ x.this = q.this /\ ~x.ok /\ x.rounds = q.rounds
    BY <1>1 DEF Request
  <2>2. net' = (net \ {q}) \cup {a}
    BY <1>1 DEF Refuse, Answer
  <2> HIDE DEF x
  <2>3. AnswerTo(q, a) /\ a.ok = x.ok /\ a.rounds = x.rounds
    BY <1>1, <2>1, AnswerShape
  <2> QED
    BY <1>1, <2>1, <2>2, <2>3
<1>2. CASE ~(q.save /\ q.live)
  BY <1>2 DEF Refuse, Answer
<1> QED
  BY <1>1, <1>2

\* A request is done with: what it stored of the drawing on display is remembered.
LEMMA ServedKeeps ==
  ASSUME EditorInv, UNCHANGED <<maps, open, list, ui, draw, refreshed>>,
         NEW q \in net, net \ {q} \subseteq net',
         \A a \in net' \ (net \ {q}) :
           /\ AnswerTo(q, a) /\ Counted(a.rounds, born)
           /\ a.this /\ ~refreshed /\ a.op # "get" /\ a.ok => made' # {},
         rows' \subseteq Row, born' \in 0 .. MaxRounds, born <= born', RowsOK',
         made \subseteq made', made' \subseteq 1 .. born', ~q.this => made' = made,
         ~refreshed => StoredThis', stale' \in BOOLEAN, ListOK'
  PROVE  EditorInv'
<1> DEFINE Answers(a) == /\ AnswerTo(q, a) /\ Counted(a.rounds, born)
                         /\ a.this /\ ~refreshed /\ a.op # "get" /\ a.ok => made' # {}
<1>0. \A a \in net' : a \in net \/ Answers(a)
  OBVIOUS
<1>1. ShapeOK'
  <2>1. net' \subseteq Request
    BY <1>0 DEF EditorInv, ShapeOK, AnswerTo
  <2> QED
    BY <2>1 DEF EditorInv, ShapeOK
<1>2. SketchOK'
  BY DEF EditorInv, SketchOK, Refs
<1>3. NetOK'
  <2>1. born \in Nat /\ born' \in Nat
    BY BoundAssumption DEF EditorInv, ShapeOK
  <2>2. \A S : Counted(S, born) => Counted(S, born')
    BY <2>1, CountedMore
  <2>3. 1 .. born + 1 \subseteq 1 .. born' + 1
    BY <2>1, RangeMore
  <2> QED
    BY <1>0, <2>2, <2>3 DEF EditorInv, NetOK, AnswerTo
<1>4. Edited' = Edited /\ NextNumber' = NextNumber
  BY DEF Edited, NextNumber
<1>5. \A x \in net : SavesThis(x) => SavesThis(x)'
  BY <1>4 DEF SavesThis
<1>6. \A a : Answers(a) /\ SavesThis(q) /\ a.this /\ ~refreshed => SavesThis(a)'
  BY <1>4 DEF SavesThis, AnswerTo
<1>7. ThisOK'
  BY <1>0, <1>5, <1>6 DEF EditorInv, ThisOK, AnswerTo
<1> QED
  BY <1>1, <1>2, <1>3, <1>7 DEF EditorInv

\* A refused request stored nothing.
LEMMA RefusedKeeps ==
  ASSUME EditorInv, UNCHANGED <<maps, rows, born, open, list, ui, draw, refreshed, made>>,
         NEW q \in net, Refuse(q), stale' \in BOOLEAN, ~stale' => ~stale,
         stale' \/ (~Awaits(q) /\ q.op # "get")
  PROVE  EditorInv'
<1>1. q \in Request /\ Counted(q.rounds, born)
  BY DEF EditorInv, ShapeOK, NetOK
<1>2. /\ net \ {q} \subseteq net'
      /\ \A a \in net' \ (net \ {q}) : AnswerTo(q, a) /\ ~a.ok /\ Counted(a.rounds, born)
  BY <1>1, RefusedNet
<1>3. ListOK'
  <2>1. CASE stale'
    BY <2>1 DEF ListOK
  <2>2. CASE ~stale'
    <3>1. Unheard(q, net') /\ ~Right(q)
      BY <1>2, <2>2 DEF Unheard, AnswerTo, Right
    <3> QED
      BY <2>2, <3>1, UnheardList
  <2> QED
    BY <2>1, <2>2
<1>4. born \in Nat /\ made \subseteq 1 .. born /\ born \in 0 .. MaxRounds /\ rows \subseteq Row
  BY BoundAssumption DEF EditorInv, ShapeOK
<1>5. born <= born' /\ made' \subseteq 1 .. born' /\ born' \in 0 .. MaxRounds /\ rows' \subseteq Row
  BY <1>4
<1>6. RowsOK'
  BY DEF EditorInv, RowsOK
<1>7. made' = made /\ made \subseteq made'
  OBVIOUS
<1>8. Edited' = Edited /\ NextNumber' = NextNumber
  BY DEF Edited, NextNumber
<1>9. ~refreshed => StoredThis'
  BY <1>8 DEF EditorInv, ThisOK, StoredThis
<1> QED
  BY <1>2, <1>3, <1>5, <1>6, <1>7, <1>9, ServedKeeps

LEMMA FailKeeps == ASSUME EditorInv, NEW q \in net, Fail(q) PROVE EditorInv'
<1>1. /\ UNCHANGED <<maps, rows, born, open, list, ui, draw, refreshed, made>>
      /\ Refuse(q) /\ stale' = (stale \/ q.live)
  BY DEF Fail, shelf
<1>2. stale' \in BOOLEAN /\ (~stale' => ~stale) /\ (stale' \/ ~q.live)
  BY <1>1 DEF EditorInv, ShapeOK, Request
<1>3. ~q.live => q.op # "get" /\ q.at # "back"
  BY DEF EditorInv, NetOK
<1>4. stale' \/ (~Awaits(q) /\ q.op # "get")
  BY <1>2, <1>3 DEF Awaits
<1> QED
  BY <1>1, <1>2, <1>4, RefusedKeeps

\* GetMap: what it reads is right, unless something else is under way.
LEMMA ServeGetKeeps ==
  ASSUME EditorInv, NEW q \in net, q.at = "sent", ServeGet(q),
         UNCHANGED <<open, list, ui, draw, refreshed>>
  PROVE  EditorInv'
<1>1. UNCHANGED <<maps, rows, born, made>> /\ q.op = "get"
  BY DEF ServeGet, shelf
<1>2. q \in Request /\ q.ok /\ q.live /\ born \in Nat
  BY <1>1, BoundAssumption DEF EditorInv, ShapeOK, NetOK
<1>3. CASE q.map \in maps
  <2> DEFINE x == [q EXCEPT !.rounds = RoundsOf(q.map)]
  <2>1. Answer(q, x) /\ stale' = (Live(net) # {q} \/ q.map # open)
    BY <1>3 DEF ServeGet
  <2>2. RoundsOf(q.map) \in SUBSET Row /\ RoundsOf(q.map) \subseteq rows
    BY DEF RoundsOf, EditorInv, ShapeOK
  <2>3. /\ x \in Request /\ x.live /\ x.op = q.op /\ x.map = q.map /\ x.id = q.id
        /\ x.number = q.number /\ x.this = q.this /\ x.ok /\ x.rounds = RoundsOf(q.map)
    BY <1>2, <2>2 DEF Request
  <2>4. net' = (net \ {q}) \cup {[x EXCEPT !.at = "back"]}
    BY <1>2, <2>1 DEF Answer
  <2> HIDE DEF x
  <2>5. PICK a : /\ net' = (net \ {q}) \cup {a}
                 /\ AnswerTo(q, a) /\ a.ok /\ a.rounds = RoundsOf(q.map)
    BY <1>2, <2>3, <2>4, AnswerShape
  <2>6. Counted(a.rounds, born)
    BY <2>2, <2>5, RowsCounted DEF EditorInv
  <2>7. ListOK'
    <3> SUFFICES ASSUME open # 0, ~stale'
                 PROVE  (\A y \in net' : y.op = "get" => Right(y)') /\ \E y \in net' : Right(y)'
      BY DEF ListOK
    <3>1. Live(net) = {q} /\ q.map = open
      BY <2>1
    <3>2. Right(a)'
      BY <1>1, <2>5, <3>1 DEF AnswerTo, Right, RoundsOf
    <3>3. \A y \in net \ {q} : y.op # "get"
      BY <3>1 DEF Live, EditorInv, NetOK
    <3> QED
      BY <2>5, <3>2, <3>3
  <2>8. stale' \in BOOLEAN /\ made' = made /\ made \subseteq made'
    BY <1>1, <2>1
  <2>9. /\ born <= born' /\ made' \subseteq 1 .. born' /\ born' \in 0 .. MaxRounds /\ rows' \subseteq Row
    BY <1>1, <1>2 DEF EditorInv, ShapeOK
  <2>10. RowsOK'
    BY <1>1 DEF EditorInv, RowsOK
  <2>11. Edited' = Edited /\ NextNumber' = NextNumber
    BY DEF Edited, NextNumber
  <2>12. ~refreshed => StoredThis'
    BY <1>1, <2>11 DEF EditorInv, ThisOK, StoredThis
  <2>13. \A y \in net' \ (net \ {q}) : AnswerTo(q, y) /\ Counted(y.rounds, born) /\ y.op = "get"
    BY <1>1, <2>5, <2>6 DEF AnswerTo
  <2> QED
    BY <1>1, <2>5, <2>7, <2>8, <2>9, <2>10, <2>12, <2>13, ServedKeeps
<1>4. CASE q.map \notin maps
  <2>1. Refuse(q) /\ stale' = TRUE
    BY <1>4 DEF ServeGet
  <2>2. stale' /\ stale' \in BOOLEAN
    BY <2>1
  <2> QED
    BY <1>1, <2>1, <2>2, RefusedKeeps
<1> QED
  BY <1>3, <1>4

\* A change that was made is answered, and asks for the list to be read again; an editor
\* that is gone is told nothing.
LEMMA DoneList ==
  ASSUME NEW q \in Request, q.op # "get", q.ok, Answer(q, q), ~q.live => stale' \/ ListOK'
  PROVE  ListOK'
<1>1. CASE q.live
  <2>1. PICK a : net' = (net \ {q}) \cup {a} /\ AnswerTo(q, a) /\ a.ok
    BY <1>1, AnsweredNet
  <2>2. a \in net' /\ a.op # "get" /\ a.at = "back" /\ a.ok
    BY <2>1 DEF AnswerTo
  <2> QED
    BY <2>2 DEF ListOK, Awaits
<1>2. CASE ~q.live
  BY <1>2 DEF ListOK
<1> QED
  BY <1>1, <1>2

LEMMA DoneNet ==
  ASSUME NEW q \in Request, q.ok, Answer(q, q), Counted(q.rounds, born)
  PROVE  /\ net \ {q} \subseteq net'
         /\ \A a \in net' \ (net \ {q}) : AnswerTo(q, a) /\ Counted(a.rounds, born)
BY AnsweredNet

\* CreateRound: a round stored from the drawing has the number a save of it would use.
LEMMA ServeCreateKeeps ==
  ASSUME EditorInv, NEW q \in net, q.at = "sent", ServeCreate(q),
         UNCHANGED <<open, list, ui, draw, refreshed>>
  PROVE  EditorInv'
<1>1. q.op = "create" /\ stale' = (stale \/ ~q.live) /\ maps' = maps
  BY DEF ServeCreate
<1>2. /\ q \in Request /\ q.ok /\ Counted(q.rounds, born) /\ q.number \in 1 .. born + 1 \cup Ids
      /\ born \in Nat /\ made \subseteq 1 .. born /\ stale \in BOOLEAN
  BY <1>1, BoundAssumption DEF EditorInv, ShapeOK, NetOK
<1>3. stale' \in BOOLEAN /\ (~stale' => ~stale) /\ (~q.live => stale')
  BY <1>1, <1>2
<1>4. CASE q.map \in maps /\ ~\E r \in RoundsOf(q.map) : r.number = q.number
  <2> DEFINE new == [id |-> born', map |-> q.map, number |-> q.number]
  <2>1. /\ born < MaxRounds /\ born' = born + 1 /\ Answer(q, q)
        /\ rows' = rows \cup {new}
        /\ made' = IF q.this THEN made \cup {born'} ELSE made
    BY <1>4 DEF ServeCreate
  <2>2. q.map \in Maps /\ q.number \in Ids
    <3>1. MaxRounds \in Nat /\ born + 1 <= MaxRounds
      BY <1>2, <2>1, BoundAssumption
    <3>2. q.number \in 1 .. MaxRounds
      BY <1>2, <3>1 DEF Ids
    <3> QED
      BY <1>4, <3>2 DEF EditorInv, ShapeOK, Ids
  <2>3. /\ born' \in 1 .. MaxRounds /\ born <= born' /\ rows' \subseteq Row /\ RowsOK'
        /\ \A r \in rows' : r \in rows \/ r.id = born + 1
    BY <1>4, <2>1, <2>2, RowAdded DEF EditorInv
  <2>4. /\ net \ {q} \subseteq net'
        /\ \A a \in net' \ (net \ {q}) : AnswerTo(q, a) /\ Counted(a.rounds, born)
    BY <1>2, <2>1, DoneNet
  <2>5. \A a \in net' \ (net \ {q}) : a.this /\ a.op # "get" /\ a.ok => made' # {}
    BY <2>1, <2>4 DEF AnswerTo
  <2>6. ListOK'
    BY <1>1, <1>2, <1>3, <2>1, DoneList
  <2>7. made \subseteq made' /\ (~q.this => made' = made)
    BY <2>1
  <2>8. made' \subseteq 1 .. born' /\ born' \in 0 .. MaxRounds
    <3>1. 1 .. born \subseteq 1 .. born' /\ born' \in 1 .. born'
      BY <1>2, <2>1, RangeMore
    <3> QED
      BY <1>2, <2>1, <2>3, <3>1
  <2>9. Edited' = Edited /\ NextNumber' = NextNumber
    BY DEF Edited, NextNumber
  <2>10. ASSUME ~refreshed PROVE StoredThis'
    <3>1. StoredThis
      BY <2>10 DEF EditorInv, ThisOK
    <3>2. \A r \in rows : r.id # born'
      BY <1>2, <2>1 DEF EditorInv, RowsOK
    <3>3. born' \notin made
      BY <1>2, <2>1
    <3>4. new.id = born' /\ new.map = q.map /\ new.number = q.number
      OBVIOUS
    <3> HIDE DEF new
    <3>5. CASE q.this
      <4>1. ui.editing = 0 /\ q.map = open /\ q.number = NextNumber
        BY <1>1, <2>10, <3>5 DEF EditorInv, ThisOK, SavesThis
      <4>2. \A r \in rows' : r.id \in made' => r = new \/ (r \in rows /\ r.id \in made)
        BY <2>1, <3>2, <3>5
      <4> QED
        BY <2>9, <3>1, <3>4, <4>1, <4>2 DEF StoredThis
    <3>6. CASE ~q.this
      <4>1. \A r \in rows' : r.id \in made' => r \in rows /\ r.id \in made
        BY <2>1, <3>3, <3>4, <3>6
      <4> QED
        BY <2>1, <2>9, <3>1, <3>6, <4>1 DEF StoredThis
    <3> QED
      BY <3>5, <3>6
  <2> QED
    BY <1>1, <1>3, <2>3, <2>4, <2>5, <2>6, <2>7, <2>8, <2>10, ServedKeeps
<1>5. CASE ~(q.map \in maps /\ ~\E r \in RoundsOf(q.map) : r.number = q.number)
  <2>1. Refuse(q) /\ UNCHANGED <<rows, born, made>>
    BY <1>5 DEF ServeCreate
  <2>2. ~Awaits(q)
    BY <1>1 DEF Awaits
  <2> QED
    BY <1>1, <1>3, <2>1, <2>2, RefusedKeeps
<1> QED
  BY <1>4, <1>5

\* UpdateRound: the round that is edited.
LEMMA ServeUpdateKeeps ==
  ASSUME EditorInv, NEW q \in net, q.at = "sent", ServeUpdate(q),
         UNCHANGED <<open, list, ui, draw, refreshed>>
  PROVE  EditorInv'
<1>1. q.op = "update" /\ UNCHANGED <<maps, rows, born, stale>>
  BY DEF ServeUpdate, shelf
<1>2. /\ q \in Request /\ q.ok /\ Counted(q.rounds, born)
      /\ born \in Nat /\ born \in 0 .. MaxRounds /\ made \subseteq 1 .. born /\ rows \subseteq Row
      /\ stale \in BOOLEAN
  BY <1>1, BoundAssumption DEF EditorInv, ShapeOK, NetOK
<1>3. ~Awaits(q) /\ ~Right(q)
  BY <1>1 DEF Awaits, Right
<1>4. CASE \E r \in rows : r.id = q.id
  <2>1. Answer(q, q) /\ made' = IF q.this THEN made \cup {q.id} ELSE made
    BY <1>4 DEF ServeUpdate
  <2>2. q.id \in 1 .. born
    BY <1>4 DEF EditorInv, RowsOK
  <2>3. /\ net \ {q} \subseteq net'
        /\ \A a \in net' \ (net \ {q}) : AnswerTo(q, a) /\ Counted(a.rounds, born)
    BY <1>2, <2>1, DoneNet
  <2>4. \A a \in net' \ (net \ {q}) : a.this /\ a.op # "get" /\ a.ok => made' # {}
    BY <2>1, <2>3 DEF AnswerTo
  <2>5. ListOK'
    <3>1. CASE q.live
      BY <1>1, <1>2, <2>1, <3>1, DoneList
    <3>2. CASE ~q.live
      <4>1. Unheard(q, net')
        BY <1>2, <2>1, <3>2, AnsweredNet DEF Unheard, Answer
      <4> QED
        BY <1>1, <1>3, <4>1, UnheardList
    <3> QED
      BY <3>1, <3>2
  <2>6. /\ born <= born' /\ born' \in 0 .. MaxRounds
        /\ rows' \subseteq Row /\ stale' \in BOOLEAN
    BY <1>1, <1>2
  <2>10. made \subseteq made' /\ (~q.this => made' = made) /\ made' \subseteq 1 .. born'
    BY <1>1, <1>2, <2>1, <2>2
  <2>7. RowsOK'
    BY <1>1 DEF EditorInv, RowsOK
  <2>8. Edited' = Edited /\ NextNumber' = NextNumber
    BY DEF Edited, NextNumber
  <2>9. ASSUME ~refreshed PROVE StoredThis'
    <3>1. StoredThis /\ (q.this => ui.editing # 0 /\ q.id = Edited)
      BY <1>1, <2>9 DEF EditorInv, ThisOK, SavesThis
    <3> QED
      BY <1>1, <2>1, <2>8, <3>1 DEF StoredThis
  <2> QED
    BY <1>1, <2>3, <2>4, <2>5, <2>6, <2>7, <2>9, <2>10, ServedKeeps
<1>5. CASE ~\E r \in rows : r.id = q.id
  <2>1. Refuse(q) /\ UNCHANGED made
    BY <1>5 DEF ServeUpdate
  <2>2. stale' \in BOOLEAN /\ (~stale' => ~stale)
    BY <1>1, <1>2
  <2> QED
    BY <1>1, <1>3, <2>1, <2>2, RefusedKeeps
<1> QED
  BY <1>4, <1>5

\* DeleteRound: no save of a drawing asks for it.
LEMMA ServeDeleteKeeps ==
  ASSUME EditorInv, NEW q \in net, q.at = "sent", ServeDelete(q),
         UNCHANGED <<open, list, ui, draw, refreshed>>
  PROVE  EditorInv'
<1>1. /\ q.op = "delete" /\ stale' = (stale \/ ~q.live) /\ UNCHANGED <<maps, born, made>>
      /\ rows' = {r \in rows : r.id # q.id}
  BY DEF ServeDelete
<1>2. /\ q \in Request /\ q.ok /\ Counted(q.rounds, born)
      /\ born \in Nat /\ born \in 0 .. MaxRounds /\ made \subseteq 1 .. born /\ rows \subseteq Row
      /\ stale \in BOOLEAN
  BY <1>1, BoundAssumption DEF EditorInv, ShapeOK, NetOK
<1>3. stale' \in BOOLEAN /\ (~stale' => ~stale) /\ (~q.live => stale')
  BY <1>1, <1>2
<1>4. CASE \E r \in rows : r.id = q.id
  <2>1. Answer(q, q)
    BY <1>4 DEF ServeDelete
  <2>2. /\ net \ {q} \subseteq net'
        /\ \A a \in net' \ (net \ {q}) : AnswerTo(q, a) /\ Counted(a.rounds, born)
    BY <1>2, <2>1, DoneNet
  <2>3. ListOK'
    BY <1>1, <1>2, <1>3, <2>1, DoneList
  <2>4. /\ born <= born' /\ born' \in 0 .. MaxRounds /\ rows' \subseteq Row
        /\ made \subseteq made' /\ made' = made /\ made' \subseteq 1 .. born'
    BY <1>1, <1>2
  <2>5. RowsOK'
    BY <1>1, RowsRemoved DEF EditorInv
  <2>6. Edited' = Edited /\ NextNumber' = NextNumber
    BY DEF Edited, NextNumber
  <2>7. ~refreshed => StoredThis'
    BY <1>1, <2>6 DEF EditorInv, ThisOK, StoredThis
  <2>8. \A a \in net' \ (net \ {q}) : a.this => refreshed
    BY <1>1, <2>2 DEF AnswerTo, EditorInv, ThisOK, SavesThis
  <2> QED
    BY <1>1, <1>3, <2>2, <2>3, <2>4, <2>5, <2>7, <2>8, ServedKeeps
<1>5. CASE ~\E r \in rows : r.id = q.id
  <2>1. Refuse(q) /\ rows' = rows
    BY <1>1, <1>5 DEF ServeDelete
  <2>2. ~Awaits(q)
    BY <1>1 DEF Awaits
  <2> QED
    BY <1>1, <1>3, <2>1, <2>2, RefusedKeeps
<1> QED
  BY <1>4, <1>5

LEMMA ServeKeeps == ASSUME EditorInv, NEW q \in net, Serve(q) PROVE EditorInv'
<1>1. q.at = "sent" /\ UNCHANGED <<open, list, ui, draw, refreshed>>
  BY DEF Serve
<1>2. ServeGet(q) \/ ServeCreate(q) \/ ServeUpdate(q) \/ ServeDelete(q)
  BY DEF Serve
<1>3. CASE ServeGet(q)
  BY <1>1, <1>3, ServeGetKeeps
<1>4. CASE ServeCreate(q)
  BY <1>1, <1>4, ServeCreateKeeps
<1>5. CASE ServeUpdate(q)
  BY <1>1, <1>5, ServeUpdateKeeps
<1>6. CASE ServeDelete(q)
  BY <1>1, <1>6, ServeDeleteKeeps
<1> QED
  BY <1>2, <1>3, <1>4, <1>5, <1>6

-----------------------------------------------------------------------------
(* What becomes of answers                                                 *)

\* The requests that are left when an answer is taken.
LEMMA RestNet ==
  ASSUME EditorInv, NEW q \in net, net' \in {net \ {q}, Anew(net \ {q})}
  PROVE  /\ net' \subseteq Request
         /\ \A x \in net' : \E y \in net \ {q} : Same(x, y)
         /\ \A y \in net \ {q} : \E x \in net' : Same(x, y)
<1>1. net \ {q} \subseteq Request
  BY DEF EditorInv, ShapeOK
<1>2. CASE net' = net \ {q}
  BY <1>1, <1>2 DEF Same
<1>3. CASE net' = Anew(net \ {q})
  BY <1>1, <1>3, AnewShape
<1> QED
  BY <1>2, <1>3

\* The map is read: the list is right if nothing that makes it wrong is under way.
LEMMA ReadKeeps ==
  ASSUME EditorInv, NEW q \in net, net' \in {net \ {q}, Anew(net \ {q})},
         q.at = "back", q.op = "get", UNCHANGED <<rows, born, open, stale>>,
         list' = [map |-> q.map, rounds |-> q.rounds]
  PROVE  NetOK' /\ ListOK' /\ list' \in ListRecord
<1>1. /\ net' \subseteq Request
      /\ \A x \in net' : \E y \in net \ {q} : Same(x, y)
      /\ \A y \in net \ {q} : \E x \in net' : Same(x, y)
  BY RestNet
<1>2. q \in Request /\ Counted(q.rounds, born)
  BY DEF EditorInv, ShapeOK, NetOK
<1>3. list' \in ListRecord /\ list'.rounds = q.rounds /\ list'.map = q.map
  BY <1>2 DEF Request, ListRecord, Maps
<1>4. NetOK'
  BY <1>1, <1>2, <1>3 DEF EditorInv, NetOK, Same
<1>5. ListOK'
  <2> SUFFICES ASSUME open # 0, ~stale, \A x \in net' : ~Awaits(x)
               PROVE  (\A x \in net' : x.op = "get" => Right(x)') /\ ListRight'
    BY DEF ListOK, Awaits
  <2>1. \A x \in net : ~Awaits(x)
    BY <1>1 DEF Awaits, Same
  <2>2. \A x \in net : x.op = "get" => Right(x)
    BY <2>1 DEF EditorInv, ListOK
  <2>3. ListRight'
    BY <2>2 DEF Right, ListRight, RoundsOf
  <2>4. \A x, y : Same(x, y) /\ Right(y) => Right(x)'
    BY DEF Same, Right, RoundsOf
  <2> QED
    BY <1>1, <2>2, <2>3, <2>4 DEF Same
<1> QED
  BY <1>3, <1>4, <1>5

LEMMA ApplyGetKeeps ==
  ASSUME EditorInv, NEW q \in net, q.at = "back", ApplyGet(q), UNCHANGED <<shelf, open, stale>>
  PROVE  EditorInv'
<1> USE DEF shelf
<1>1. q.op = "get" /\ list' = [map |-> q.map, rounds |-> q.rounds]
  BY DEF ApplyGet
<1>2. net' \in {net \ {q}, Anew(net \ {q})}
  BY DEF ApplyGet
<1>3. NetOK' /\ ListOK' /\ list' \in ListRecord
  BY <1>1, <1>2, ReadKeeps
<1>4. net' \subseteq Request
  BY <1>2, RestNet
<1>5. RowsOK'
  BY DEF EditorInv, RowsOK
<1>6. CASE q.save
  <2> DEFINE u == [Cancelled(ui) EXCEPT !.saving = FALSE]
  <2>1. SetStep(u, Blank(draw), "idle") /\ net' = Anew(net \ {q}) /\ made' = {} /\ refreshed' = FALSE
    BY <1>6 DEF ApplyGet, NewDrawing
  <2>2. /\ Cancelled(ui) \in UiRecord /\ Cancelled(ui).editing = 0
        /\ Cancelled(ui).at = Cleared(ui).at /\ Cancelled(ui).zones = Cleared(ui).zones
    BY EditingShape, BoundAssumption DEF EditorInv, ShapeOK, Cancelled
  <2>3. u \in UiRecord /\ u.editing = 0 /\ u.at = Cleared(ui).at /\ u.zones = Cleared(ui).zones
    BY <2>2 DEF UiRecord
  <2> HIDE DEF u
  <2>4. SketchOK' /\ ui' \in UiRecord /\ draw' \in DrawRecord /\ ui'.editing = 0
    BY <2>1, <2>3, SketchCleared DEF EditorInv
  <2>5. refreshed' \in BOOLEAN
    BY <2>1
  <2>6. ShapeOK'
    BY <1>3, <1>4, <2>1, <2>4, <2>5 DEF EditorInv, ShapeOK
  <2>7. \A x \in net' : ~x.this
    <3>1. net \ {q} \subseteq Request
      BY DEF EditorInv, ShapeOK
    <3> QED
      BY <2>1, <3>1, AnewShape
  <2>8. ThisOK'
    BY <2>1, <2>4, <2>7, FreshThis
  <2> QED
    BY <1>3, <1>5, <2>4, <2>6, <2>8 DEF EditorInv
<1>7. CASE ~q.save
  <2>1. /\ net' = net \ {q} /\ refreshed' = (refreshed \/ ui.step # "idle")
        /\ UNCHANGED <<ui, draw, made>>
    BY <1>7 DEF ApplyGet
  <2>2. refreshed' \in BOOLEAN /\ (~refreshed' => ~refreshed /\ ui.step = "idle")
    BY <2>1 DEF EditorInv, ShapeOK
  <2>3. ShapeOK'
    BY <1>3, <1>4, <2>1, <2>2 DEF EditorInv, ShapeOK
  <2>4. SketchOK'
    BY <2>1 DEF EditorInv, SketchOK, Refs
  <2>5. ThisOK'
    BY <2>1, <2>2 DEF EditorInv, ThisOK, StoredThis
  <2> QED
    BY <1>3, <1>5, <2>3, <2>4, <2>5 DEF EditorInv
<1> QED
  BY <1>6, <1>7

\* The change is made: the reload goes on for the same drawing.
LEMMA ApplyDoneKeeps ==
  ASSUME EditorInv, NEW q \in net, q.at = "back", ApplyDone(q), UNCHANGED <<shelf, open, stale>>
  PROVE  EditorInv'
<1> DEFINE g == ThenGet(q)
           ns == net \ {q}
<1>1. /\ q.op # "get" /\ q.ok /\ net' = ns \cup {g}
      /\ UNCHANGED <<shelf, open, list, ui, draw, history>>
  BY DEF ApplyDone, history
<1>2. q \in Request /\ ui \in UiRecord
  BY DEF EditorInv, ShapeOK
<1>3. /\ q.map \in Maps /\ q.id \in 0 .. MaxRounds /\ q.save \in BOOLEAN /\ q.this \in BOOLEAN
      /\ "get" \in Ops /\ 0 \in 0 .. MaxRounds + 1
  BY <1>2, BoundAssumption DEF Request, Ops
<1>4. /\ g \in Request /\ g.at = "sent" /\ g.ok /\ g.live /\ g.rounds = {} /\ g.op = "get"
      /\ g.this = q.this
  BY <1>3 DEF ThenGet, Ask, Request
<1>5. OnlySaving
  BY <1>1, <1>2 DEF OnlySaving
<1>6. ns \subseteq net /\ Awaits(g)
  BY <1>4 DEF Awaits
<1> HIDE DEF g, ns
<1>7. g.this => ui.step # "idle" /\ (~refreshed => SavesThis(g))
  BY <1>1, <1>4 DEF EditorInv, ThisOK, SavesThis
<1> QED
  BY <1>1, <1>4, <1>5, <1>6, <1>7, AddKeeps

\* saveRound's catch.
LEMMA ApplyFailureKeeps ==
  ASSUME EditorInv, NEW q \in net, q.at = "back", ApplyFailure(q), UNCHANGED <<shelf, open, stale>>
  PROVE  EditorInv'
<1> USE DEF shelf
<1>1. /\ ~q.ok /\ ui' = [ui EXCEPT !.saving = FALSE] /\ net' = net \ {q}
      /\ UNCHANGED <<list, draw, refreshed, made>>
  BY DEF ApplyFailure
<1>2. ui \in UiRecord
  BY DEF EditorInv, ShapeOK
<1>3. OnlySaving
  BY <1>1, <1>2 DEF UiRecord, OnlySaving
<1>4. ShapeOK'
  BY <1>1, <1>3 DEF EditorInv, ShapeOK, OnlySaving
<1>5. RowsOK'
  BY DEF EditorInv, RowsOK
<1>6. SketchOK'
  BY <1>1, <1>3 DEF EditorInv, SketchOK, OnlySaving, Refs
<1>7. NetOK'
  BY <1>1 DEF EditorInv, NetOK
<1>8. ~Awaits(q) /\ ~Right(q) /\ Unheard(q, net')
  BY <1>1 DEF Awaits, Right, Unheard
<1>9. ListOK'
  BY <1>1, <1>8, UnheardList
<1>10. Edited' = Edited /\ NextNumber' = NextNumber
  BY <1>1, <1>3 DEF Edited, NextNumber, OnlySaving
<1>11. \A x : SavesThis(x)' <=> SavesThis(x)
  BY <1>1, <1>3, <1>10 DEF SavesThis, OnlySaving
<1>12. StoredThis' <=> StoredThis
  BY <1>1, <1>3, <1>10 DEF StoredThis, OnlySaving
<1>13. ThisOK'
  BY <1>1, <1>3, <1>11, <1>12 DEF EditorInv, ThisOK, OnlySaving
<1> QED
  BY <1>4, <1>5, <1>6, <1>7, <1>9, <1>13 DEF EditorInv

LEMMA ApplyKeeps == ASSUME EditorInv, NEW q \in net, Apply(q) PROVE EditorInv'
<1>1. q.at = "back" /\ UNCHANGED <<shelf, open, stale>>
  BY DEF Apply
<1>2. ApplyGet(q) \/ ApplyDone(q) \/ ApplyFailure(q)
  BY DEF Apply
<1>3. CASE ApplyGet(q)
  BY <1>1, <1>3, ApplyGetKeeps
<1>4. CASE ApplyDone(q)
  BY <1>1, <1>4, ApplyDoneKeeps
<1>5. CASE ApplyFailure(q)
  BY <1>1, <1>5, ApplyFailureKeeps
<1> QED
  BY <1>2, <1>3, <1>4, <1>5

-----------------------------------------------------------------------------
(* The editor's steps                                                      *)

LEMMA EditorInitHolds == ASSUME EditorInit PROVE EditorInv
<1> USE DEF EditorInit
<1>1. /\ ui \in UiRecord /\ ui.step = "idle" /\ ui.editing = 0 /\ ui.zones = {}
      /\ \A p \in Parts : ui.at[p] = 0
  BY BoundAssumption DEF FreshUi, UiRecord, Steps
<1>2. draw \in DrawRecord /\ ~draw.heard
  BY DEF NoDraw, DrawRecord
<1>3. list \in ListRecord /\ list.rounds = {}
  BY BoundAssumption DEF NoList, ListRecord
<1>4. stale \in BOOLEAN /\ refreshed \in BOOLEAN
  OBVIOUS
<1>11. maps \subseteq Maps
  BY BoundAssumption DEF Maps
<1>5. ShapeOK
  BY <1>1, <1>2, <1>3, <1>4, <1>11, BoundAssumption DEF ShapeOK
<1>6. RowsOK
  BY DEF RowsOK
<1>7. SketchOK
  BY <1>1, <1>2 DEF SketchOK
<1>8. NetOK
  <2>1. Counted({}, born)
    BY FS_EmptySet DEF Counted
  <2> QED
    BY <1>3, <2>1 DEF NetOK
<1>9. ListOK
  BY DEF ListOK
<1>10. ThisOK
  BY <1>1 DEF ThisOK, StoredThis
<1> QED
  BY <1>5, <1>6, <1>7, <1>8, <1>9, <1>10 DEF EditorInv

LEMMA EditorStep == ASSUME EditorInv, EditorNext PROVE EditorInv'
<1>1. CASE InitDraw
  BY <1>1, InitDrawKeeps
<1>2. CASE FinishFeature
  BY <1>2, FinishFeatureKeeps
<1>3. CASE DrawZone
  BY <1>3, DrawZoneKeeps
<1>4. ASSUME NEW p \in Parts, RedoStep(p) PROVE EditorInv'
  BY <1>4, RedoStepHolds
<1>5. ASSUME NEW f \in Features, DragFeature(f) \/ DeleteZone(f) PROVE EditorInv'
  BY <1>5, DragFeatureKeeps, DeleteZoneKeeps
<1>6. CASE StartNewRound \/ CancelEditing
  BY <1>6, NewRoundKeeps
<1>7. CASE SaveRound
  BY <1>7, SaveRoundKeeps
<1>8. ASSUME NEW r \in list.rounds, EditRound(r) PROVE EditorInv'
  BY <1>8, EditRoundKeeps
<1>9. ASSUME NEW r \in list.rounds, DeleteRound(r) PROVE EditorInv'
  BY <1>9, DeleteRoundKeeps
<1>10. ASSUME NEW q \in net, Serve(q) PROVE EditorInv'
  BY <1>10, ServeKeeps
<1>11. ASSUME NEW q \in net, Fail(q) PROVE EditorInv'
  BY <1>11, FailKeeps
<1>12. ASSUME NEW q \in net, Apply(q) PROVE EditorInv'
  BY <1>12, ApplyKeeps
<1>13. ASSUME NEW n \in Ids, OthersCreate(n) PROVE EditorInv'
  BY <1>13, OthersCreateKeeps
<1>14. ASSUME NEW r \in rows, OthersDelete(r) PROVE EditorInv'
  BY <1>14, OthersDeleteKeeps
<1> QED
  BY <1>1, <1>2, <1>3, <1>4, <1>5, <1>6, <1>7, <1>8, <1>9, <1>10, <1>11, <1>12, <1>13, <1>14
     DEF EditorNext

\* A step that leaves the rounds and the editor alone.
LEMMA EditorRests ==
  ASSUME EditorInv, UNCHANGED <<maps, rows, born, editor, stale, history>>
  PROVE  EditorInv'
<1> USE DEF editor, history
<1>1. ShapeOK'
  BY DEF EditorInv, ShapeOK
<1>2. RowsOK' /\ NetOK'
  BY DEF EditorInv, RowsOK, NetOK
<1>3. SketchOK'
  BY DEF EditorInv, SketchOK, Refs
<1>4. ListOK'
  BY DEF EditorInv, ListOK, Awaits, Right, ListRight, RoundsOf
<1>5. Edited' = Edited /\ NextNumber' = NextNumber
  BY DEF Edited, NextNumber
<1>6. ThisOK'
  BY <1>5 DEF EditorInv, ThisOK, SavesThis, StoredThis
<1> QED
  BY <1>1, <1>2, <1>3, <1>4, <1>6 DEF EditorInv

-----------------------------------------------------------------------------
(* Saving                                                                  *)

\* On behalf of saveRound, and heard by it.
Saves(q) == q.live /\ q.save

\* One request saves for as long as the editor is saving, and it is the only one whose
\* failure anybody hears of.
SavesOK ==
  /\ ui.saving => \E q \in net : Saves(q)
  /\ (\E q \in net : Saves(q)) => ui.saving
  /\ \A p, q \in net : Saves(p) /\ Saves(q) => p = q
  /\ \A q \in net : q.ok \/ q.save

\* A step that neither starts nor answers a save.
LEMMA SavesRest ==
  ASSUME SavesOK, ui'.saving = ui.saving,
         \A x : x \in net' /\ Saves(x) <=> x \in net /\ Saves(x),
         \A x \in net' : x.ok \/ x.save
  PROVE  SavesOK'
BY DEF SavesOK, Saves

\* A request goes on as another, and saves as before.
LEMMA SavesPassed ==
  ASSUME SavesOK, ui'.saving = ui.saving, NEW q \in net, NEW a,
         net' = (net \ {q}) \cup {a}, Saves(a) <=> Saves(q), a.ok \/ a.save
  PROVE  SavesOK'
<1>1. ui.saving => \E x \in net' : Saves(x)
  <2> SUFFICES ASSUME ui.saving PROVE \E x \in net' : Saves(x)
    OBVIOUS
  <2>1. PICK x \in net : Saves(x)
    BY DEF SavesOK
  <2>2. CASE x = q
    BY <2>1, <2>2
  <2>3. CASE x # q
    BY <2>1, <2>3
  <2> QED
    BY <2>2, <2>3
<1>2. (\E x \in net' : Saves(x)) => ui.saving
  BY DEF SavesOK
<1>3. \A x, y \in net' : Saves(x) /\ Saves(y) => x = y
  BY DEF SavesOK
<1>4. \A x \in net' : x.ok \/ x.save
  BY DEF SavesOK
<1> QED
  BY <1>1, <1>2, <1>3, <1>4 DEF SavesOK, Saves

\* A new drawing is begun while an old one may be under way.
LEMMA SavesAnew ==
  ASSUME EditorInv, SavesOK, ui'.saving = ui.saving, net' = Anew(net)
  PROVE  SavesOK'
<1> DEFINE F(q) == [q EXCEPT !.this = FALSE]
<1>1. ASSUME NEW q \in net
      PROVE  (Saves(F(q)) <=> Saves(q)) /\ F(q).ok = q.ok /\ F(q).save = q.save
  BY DEF EditorInv, ShapeOK, Request, Saves
<1>2. \A q \in net : F(q) \in net'
  BY DEF Anew
<1>3. \A x \in net' : \E q \in net : x = F(q)
  BY DEF Anew
<1> HIDE DEF F
<1>4. \A x, y \in net' : Saves(x) /\ Saves(y) => x = y
  BY <1>1, <1>3 DEF SavesOK
<1>5. \A x \in net' : x.ok \/ x.save
  BY <1>1, <1>3 DEF SavesOK
<1>6. ui.saving => \E x \in net' : Saves(x)
  BY <1>1, <1>2 DEF SavesOK
<1>7. (\E x \in net' : Saves(x)) => ui.saving
  BY <1>1, <1>3 DEF SavesOK
<1> QED
  BY <1>4, <1>5, <1>6, <1>7 DEF SavesOK, Saves

\* The save is over.
LEMMA SavesEnd ==
  ASSUME EditorInv, SavesOK, NEW q \in net, Saves(q), ~ui'.saving,
         net' \in {net \ {q}, Anew(net \ {q})}
  PROVE  SavesOK'
<1>1. \A x \in net' : \E y \in net \ {q} : Same(x, y)
  BY RestNet
<1>2. \A x \in net' : ~Saves(x) /\ (x.ok \/ x.save)
  BY <1>1 DEF SavesOK, Saves, Same
<1> QED
  BY <1>2 DEF SavesOK, Saves

\* The editor is left or entered: nobody hears of what it asked for.
LEMMA SavesGone ==
  ASSUME EditorInv, SavesOK, ui' = FreshUi, NEW g, ~g.save, g.ok,
         net' \in {Left(net), Left(net) \cup {g}}
  PROVE  SavesOK'
<1>1. \A x \in Left(net) : ~x.live
  BY LeftShape DEF EditorInv, ShapeOK
<1>2. ASSUME NEW x \in Left(net) PROVE x.ok \/ x.save
  <2>1. PICK q \in net : x = [q EXCEPT !.live = FALSE, !.this = FALSE]
    BY <1>2 DEF Left
  <2>2. x.ok = q.ok /\ x.save = q.save
    BY <2>1 DEF EditorInv, ShapeOK, Request
  <2> QED
    BY <2>2 DEF SavesOK
<1>3. \A x \in net' : ~Saves(x) /\ (x.ok \/ x.save)
  BY <1>1, <1>2 DEF Saves
<1>4. ~ui'.saving
  BY DEF FreshUi
<1> QED
  BY <1>3, <1>4 DEF SavesOK, Saves

\* Another map's address.
LEMMA SavesSwitch ==
  ASSUME EditorInv, SavesOK, NEW m \in Maps, SwitchMap(m)
  PROVE  SavesOK'
<1> DEFINE g == Ask("get", m, 0, 0, FALSE)
<1>1. net' = net \cup {g} /\ ui' = ui
  BY DEF SwitchMap
<1>2. g.ok /\ ~g.save
  BY DEF Ask
<1> HIDE DEF g
<1>3. \A x \in net' : x.ok \/ x.save
  BY <1>1, <1>2 DEF SavesOK
<1> QED
  BY <1>1, <1>2, <1>3, SavesRest DEF Saves

-----------------------------------------------------------------------------

\* The steps of the drawing.
LEMMA SavesDrawn ==
  ASSUME EditorInv, SavesOK, NEW p \in Parts, NEW z,
         InitDraw \/ DrawZone \/ FinishFeature \/ DragFeature(z) \/ RedoStep(p) \/ DeleteZone(z)
  PROVE  SavesOK'
<1>1. ui \in UiRecord
  BY DEF EditorInv, ShapeOK
<1>2. net' = net
  BY DEF InitDraw, DrawZone, FinishFeature, DragFeature, RedoStep, DeleteZone, Draws
<1>3. ui'.saving = ui.saving
  <2>1. CASE InitDraw \/ DrawZone \/ DeleteZone(z)
    BY <1>1, <2>1 DEF InitDraw, DrawZone, DeleteZone, UiRecord
  <2>2. CASE RedoStep(p)
    <3>1. ui' = [[ui EXCEPT !.at[p] = 0] EXCEPT !.step = p]
      BY <2>2 DEF RedoStep, SetStep
    <3> QED
      BY <1>1, <3>1 DEF UiRecord
  <2>3. ASSUME NEW f, NEW d, HandleFinish(f, d) PROVE ui'.saving = ui.saving
    <3> DEFINE at == [ui.at EXCEPT ![ui.step] = f]
               n == NextStep(ui.step, at)
    <3>1. \/ ui' = ui
          \/ ui' = [ui EXCEPT !.zoning = FALSE, !.zones = @ \cup {f}]
          \/ ui' = [[ui EXCEPT !.at = at] EXCEPT !.step = n]
      BY <2>3 DEF HandleFinish, SetStep
    <3> HIDE DEF at, n
    <3> QED
      BY <1>1, <3>1 DEF UiRecord
  <2>4. CASE FinishFeature \/ DragFeature(z)
    BY <2>3, <2>4 DEF FinishFeature, DragFeature
  <2> QED
    BY <2>1, <2>2, <2>4
<1> QED
  BY <1>2, <1>3, SavesRest DEF SavesOK

\* A drawing is begun or cancelled.
LEMMA SavesNewRound ==
  ASSUME EditorInv, SavesOK, StartNewRound \/ CancelEditing
  PROVE  SavesOK'
<1> DEFINE u == [Cleared(ui) EXCEPT !.editing = 0]
<1>1. u \in UiRecord /\ u.saving = ui.saving
  BY EditingShape, BoundAssumption DEF EditorInv, ShapeOK
<1> HIDE DEF u
<1>2. ui' = [u EXCEPT !.step = "start"] \/ ui' = [u EXCEPT !.step = "idle"]
  BY DEF StartNewRound, CancelEditing, Cancelled, SetStep, u
<1>3. ui'.saving = ui.saving
  BY <1>1, <1>2 DEF UiRecord
<1>4. net' = Anew(net)
  BY DEF StartNewRound, CancelEditing
<1> QED
  BY <1>3, <1>4, SavesAnew

\* A round is loaded into the editor.
LEMMA SavesEditRound ==
  ASSUME EditorInv, SavesOK, NEW r \in list.rounds, EditRound(r)
  PROVE  SavesOK'
<1> DEFINE u == [Cleared(ui) EXCEPT !.editing = r.number]
<1>1. ui \in UiRecord /\ r.number \in 0 .. MaxRounds
  BY BoundAssumption DEF EditorInv, ShapeOK, ListRecord, Row, Ids
<1>2. u \in UiRecord /\ u.saving = ui.saving
  BY <1>1, EditingShape
<1> HIDE DEF u
<1>3. LoadRound(u)
  BY DEF EditRound, u
<1>4. \/ ui' = [u EXCEPT !.step = "review"]
      \/ \E at, zones : ui' = [[u EXCEPT !.at = at, !.zones = zones] EXCEPT !.step = "review"]
  BY <1>3 DEF LoadRound, SetStep
<1>5. ui'.saving = ui.saving
  BY <1>2, <1>4 DEF UiRecord
<1>6. net' = Anew(net)
  BY DEF EditRound
<1> QED
  BY <1>5, <1>6, SavesAnew

\* Save, which is not offered while the editor is saving, and Delete.
LEMMA SavesAsked ==
  ASSUME EditorInv, SavesOK, NEW r, SaveRound \/ DeleteRound(r)
  PROVE  SavesOK'
<1>1. ui \in UiRecord
  BY DEF EditorInv, ShapeOK
<1>2. CASE SaveRound
  <2>1. /\ ~ui.saving /\ ui' = [ui EXCEPT !.saving = TRUE]
        /\ \E op, m, id, n : net' = net \cup {Ask(op, m, id, n, TRUE)}
    <3> DEFINE existing == {s \in list.rounds : s.number = ui.editing}
               id == (CHOOSE s \in existing : TRUE).id
    <3>1. \/ net' = net \cup {Ask("create", open, 0, Cardinality(list.rounds) + 1, TRUE)}
          \/ net' = net \cup {Ask("update", open, id, ui.editing, TRUE)}
          \/ net' = net \cup {Ask("create", open, 0, ui.editing, TRUE)}
          \/ net' = net \cup {Ask("get", open, 0, 0, TRUE)}
      BY <1>2 DEF SaveRound
    <3> HIDE DEF id
    <3> QED
      BY <1>2, <3>1 DEF SaveRound, MaySave
  <2>2. PICK op, m, id, n : net' = net \cup {Ask(op, m, id, n, TRUE)}
    BY <2>1
  <2> DEFINE a == Ask(op, m, id, n, TRUE)
  <2>3. Saves(a) /\ a.ok
    BY DEF Ask, Saves
  <2>4. ui'.saving
    BY <1>1, <2>1 DEF UiRecord
  <2>5. net' = net \cup {a}
    BY <2>2
  <2> HIDE DEF a
  <2>6. \A q \in net : ~Saves(q)
    BY <2>1 DEF SavesOK
  <2> QED
    BY <2>3, <2>4, <2>5, <2>6 DEF SavesOK, Saves
<1>3. CASE DeleteRound(r)
  <2> DEFINE a == Ask("delete", open, r.id, 0, FALSE)
  <2>1. net' = net \cup {a} /\ ui' = ui
    BY <1>3 DEF DeleteRound
  <2>2. a.ok /\ ~a.save
    BY DEF Ask
  <2> HIDE DEF a
  <2>3. \A x \in net' : x.ok \/ x.save
    BY <2>1, <2>2 DEF SavesOK
  <2> QED
    BY <2>1, <2>2, <2>3, SavesRest DEF Saves
<1> QED
  BY <1>2, <1>3

\* An answer to a request saves as the request did.
LEMMA SavesAnswered ==
  ASSUME EditorInv, SavesOK, NEW q \in net, NEW a \in Request, Answer(q, a),
         a.save = q.save, a.live = q.live, a.ok \/ a.save, ui' = ui
  PROVE  SavesOK'
<1> DEFINE b == [a EXCEPT !.at = "back"]
<1>1. b.save = a.save /\ b.live = a.live /\ b.ok = a.ok
  BY DEF Request
<1>2. CASE q.live
  <2>1. net' = (net \ {q}) \cup {b}
    BY <1>2 DEF Answer
  <2> HIDE DEF b
  <2> QED
    BY <1>1, <2>1, SavesPassed DEF Saves
<1>3. CASE ~q.live
  <2>1. net' = net \ {q}
    BY <1>3 DEF Answer
  <2>2. \A x \in net' : x.ok \/ x.save
    BY <2>1 DEF SavesOK
  <2> QED
    BY <1>3, <2>1, <2>2, SavesRest DEF Saves
<1> QED
  BY <1>2, <1>3

LEMMA SavesRefused ==
  ASSUME EditorInv, SavesOK, NEW q \in net, Refuse(q), ui' = ui
  PROVE  SavesOK'
<1>1. CASE q.save
  <2> DEFINE a == [q EXCEPT !.ok = FALSE]
  <2>1. a \in Request /\ a.save = q.save /\ a.live = q.live
    BY DEF EditorInv, ShapeOK, Request
  <2>2. Answer(q, a)
    BY <1>1 DEF Refuse
  <2> HIDE DEF a
  <2> QED
    BY <1>1, <2>1, <2>2, SavesAnswered
<1>2. CASE ~q.save
  <2>1. net' = net \ {q}
    BY <1>2 DEF Refuse
  <2>2. \A x \in net' : x.ok \/ x.save
    BY <2>1 DEF SavesOK
  <2> QED
    BY <1>2, <2>1, <2>2, SavesRest DEF Saves
<1> QED
  BY <1>1, <1>2

\* The server acts on a request, or the request or its answer is lost.
LEMMA SavesServed ==
  ASSUME EditorInv, SavesOK, NEW q \in net, Serve(q) \/ Fail(q)
  PROVE  SavesOK'
<1>1. ui' = ui /\ q \in Request /\ rows \subseteq Row
  BY DEF Serve, Fail, EditorInv, ShapeOK
<1>2. CASE Refuse(q)
  BY <1>1, <1>2, SavesRefused
<1>3. CASE q.ok /\ Answer(q, q)
  BY <1>1, <1>3, SavesAnswered
<1>4. CASE q.ok /\ Answer(q, [q EXCEPT !.rounds = RoundsOf(q.map)])
  <2> DEFINE a == [q EXCEPT !.rounds = RoundsOf(q.map)]
  <2>1. a \in Request /\ a.save = q.save /\ a.live = q.live /\ a.ok = q.ok
    BY <1>1 DEF Request, RoundsOf
  <2> HIDE DEF a
  <2> QED
    BY <1>1, <1>4, <2>1, SavesAnswered DEF a
<1>5. CASE Serve(q)
  <2>1. q.ok
    BY <1>5 DEF Serve, EditorInv, NetOK
  <2>2. CASE ServeGet(q)
    BY <1>2, <1>4, <2>1, <2>2 DEF ServeGet
  <2>3. CASE ServeCreate(q)
    BY <1>2, <1>3, <2>1, <2>3 DEF ServeCreate
  <2>4. CASE ServeUpdate(q)
    BY <1>2, <1>3, <2>1, <2>4 DEF ServeUpdate
  <2>5. CASE ServeDelete(q)
    BY <1>2, <1>3, <2>1, <2>5 DEF ServeDelete
  <2> QED
    BY <1>5, <2>2, <2>3, <2>4, <2>5 DEF Serve
<1>6. CASE Fail(q)
  BY <1>2, <1>6 DEF Fail
<1> QED
  BY <1>5, <1>6

\* The editor hears of the end of a request.
LEMMA SavesApplied ==
  ASSUME EditorInv, SavesOK, NEW q \in net, Apply(q)
  PROVE  SavesOK'
<1>1. q \in Request /\ q.live /\ ui \in UiRecord
  BY DEF Apply, EditorInv, ShapeOK, NetOK
<1>2. CASE ApplyGet(q) /\ q.save
  <2> DEFINE c == Cancelled(ui)
             u == [c EXCEPT !.saving = FALSE]
  <2>1. SetStep(u, Blank(draw), "idle") /\ net' = Anew(net \ {q})
    BY <1>2 DEF ApplyGet
  <2>2. c \in UiRecord
    BY <1>1, EditingShape, BoundAssumption DEF Cancelled
  <2> HIDE DEF c
  <2>3. u \in UiRecord /\ ~u.saving
    BY <2>2 DEF UiRecord
  <2>4. ui' = [u EXCEPT !.step = "idle"]
    BY <2>1 DEF SetStep
  <2> HIDE DEF u
  <2>5. ~ui'.saving
    BY <2>3, <2>4 DEF UiRecord
  <2> QED
    BY <1>1, <1>2, <2>1, <2>5, SavesEnd DEF Saves
<1>3. CASE ApplyGet(q) /\ ~q.save
  <2>1. net' = net \ {q} /\ ui' = ui
    BY <1>3 DEF ApplyGet
  <2>2. \A x \in net' : x.ok \/ x.save
    BY <2>1 DEF SavesOK
  <2> QED
    BY <1>3, <2>1, <2>2, SavesRest DEF Saves
<1>4. CASE ApplyDone(q)
  <2> DEFINE g == ThenGet(q)
  <2>1. g.live /\ g.ok /\ g.save = q.save
    BY DEF ThenGet, Ask
  <2>2. net' = (net \ {q}) \cup {g} /\ ui' = ui
    BY <1>4 DEF ApplyDone
  <2> HIDE DEF g
  <2> QED
    BY <1>1, <2>1, <2>2, SavesPassed DEF Saves
<1>5. CASE ApplyFailure(q)
  <2>1. ~q.ok /\ net' = net \ {q} /\ ui' = [ui EXCEPT !.saving = FALSE]
    BY <1>5 DEF ApplyFailure
  <2>2. Saves(q)
    BY <1>1, <2>1 DEF SavesOK, Saves
  <2>3. ~ui'.saving
    BY <1>1, <2>1 DEF UiRecord
  <2> QED
    BY <2>1, <2>2, <2>3, SavesEnd
<1> QED
  BY <1>2, <1>3, <1>4, <1>5 DEF Apply

LEMMA SavesStep == ASSUME EditorInv, SavesOK, EditorNext PROVE SavesOK'
<1>0. "start" \in Parts
  BY DEF Parts
<1>1. ASSUME NEW p \in Parts, NEW z,
             InitDraw \/ DrawZone \/ FinishFeature \/ DragFeature(z) \/ RedoStep(p) \/ DeleteZone(z)
      PROVE  SavesOK'
  BY <1>1, SavesDrawn
<1>2. CASE StartNewRound \/ CancelEditing
  BY <1>2, SavesNewRound
<1>3. ASSUME NEW r \in list.rounds, EditRound(r) PROVE SavesOK'
  BY <1>3, SavesEditRound
<1>4. ASSUME NEW r, SaveRound \/ DeleteRound(r) PROVE SavesOK'
  BY <1>4, SavesAsked
<1>5. ASSUME NEW q \in net, Serve(q) \/ Fail(q) \/ Apply(q) PROVE SavesOK'
  BY <1>5, SavesServed, SavesApplied
<1>6. ASSUME NEW x, OthersCreate(x) \/ OthersDelete(x) PROVE SavesOK'
  <2>1. net' = net /\ ui' = ui
    BY <1>6 DEF OthersCreate, OthersDelete, editor
  <2> QED
    BY <2>1, SavesRest DEF SavesOK
<1> QED
  BY <1>0, <1>1, <1>2, <1>3, <1>4, <1>5, <1>6 DEF EditorNext
=============================================================================
