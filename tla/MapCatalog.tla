----------------------------- MODULE MapCatalog -----------------------------
(***************************************************************************)
(* The guide's pages around the editor: GuideDashboard.tsx with its list   *)
(* of maps, ImportLabeler.tsx and the files of importGeo.ts it labels, and *)
(* the maps that handler/guide.go keeps.  The editor is MapEditor's; a     *)
(* handler goes on after its page is left, and may navigate.               *)
(***************************************************************************)
EXTENDS MapEditor, Sequences

Kinds == {"Point", "LineString", "Polygon", "MultiPoint", "MultiLineString", "MultiPolygon"}
Labels == {"start", "end", "corridor", "no-go"}

\* A file is what parseFile makes of it: the geometry types of its features.
ASSUME FileAssumption == \A l \in Limits : l.files \subseteq Seq(Kinds \cup {"other"})

VARIABLES
  minted,  \* server: map ids given out
  used,    \* server: maps with a session
  page,    \* "guide", "editor", "import", or "away" from them all
  shown,   \* the dashboard's maps, and whether they have loaded
  form,    \* the importer: the features of the file, their labels, and saving
  calls,   \* requests of these pages, sent or answered
  reading, \* the file that parseFile reads, <<>> for none
  behind,  \* history: the dashboard may not show the maps there are
  owed     \* history: imported maps still without the round they were made for

pages == <<minted, used, page, shown, form, calls, reading, behind, owed>>
vars == <<limit, maps, rows, born, open, list, ui, draw, net, events, stale, refreshed, made,
          minted, used, page, shown, form, calls, reading, behind, owed>>

-----------------------------------------------------------------------------
(* Records                                                                 *)

Hidden == [loaded |-> FALSE, maps |-> {}]
NoForm == [kinds |-> <<>>, labels |-> <<>>, saving |-> FALSE]

CallOps == {"list", "createMap", "deleteMap", "importMap", "importRound"}
\* seen: the maps a handler saw when it was pressed, or that the server lists.
\* placed: the round to import has a start and an end, and they differ.
Call == [op : CallOps, map : 0 .. MaxMaps, at : {"sent", "back"}, ok : BOOLEAN,
         seen : SUBSET Maps, placed : BOOLEAN, live : BOOLEAN]

Ring(op, m) == [op |-> op, map |-> m, at |-> "sent", ok |-> TRUE, seen |-> {},
                placed |-> FALSE, live |-> TRUE]
CanCall(op) == Cardinality(calls) < limit.calls /\ ~\E c \in calls : c.op = op /\ c.map = 0
Current == {c \in calls : c.live}

\* What goes on without its page: what the server is to do, and what navigates after it.
Abandoned(cs) ==
  {[c EXCEPT !.live = FALSE] :
     c \in {d \in cs : d.op \notin {"list", "deleteMap"} \/ (d.op = "deleteMap" /\ d.at = "sent")}}

Init ==
  /\ EditorInit
  /\ minted = 1 /\ used = {}
  /\ page = "away" /\ shown = Hidden /\ form = NoForm /\ calls = {}
  /\ reading = <<>>
  /\ behind = FALSE /\ owed = {}

-----------------------------------------------------------------------------
(* From page to page                                                       *)

\* GuideDashboard mounts: its maps are asked for.
ToGuide(cs) ==
  /\ page' = "guide"
  /\ shown' = Hidden /\ form' = NoForm
  /\ calls' = Abandoned(cs) \cup {Ring("list", 0)}
  /\ behind' = FALSE

\* To a map's editor, mounted afresh unless another map's is on the page.
ToEditor(m, cs) ==
  /\ page' = "editor"
  /\ shown' = Hidden /\ form' = NoForm
  /\ calls' = Abandoned(cs)
  /\ behind' = FALSE
  /\ IF page = "editor" /\ m # open THEN SwitchMap(m)
     ELSE IF page = "editor" THEN UNCHANGED <<editor, history>> ELSE Mount(m)

Stays == UNCHANGED <<editor, history>>

\* The dashboard's link on other screens, or Back from the importer.
OpenGuide ==
  /\ page \in {"away", "import"}
  /\ ToGuide(calls) /\ Stays
  /\ UNCHANGED <<shelf, events, minted, used, owed>>

\* Home and Host, on the dashboard.
LeaveGuide ==
  /\ page = "guide" /\ shown.loaded
  /\ page' = "away" /\ shown' = Hidden /\ calls' = Abandoned(calls) /\ behind' = FALSE
  /\ Stays
  /\ UNCHANGED <<shelf, events, minted, used, form, owed>>

\* Edit, on the dashboard, of a map that may be gone.
EditMap(m) ==
  /\ page = "guide" /\ shown.loaded /\ m \in shown.maps
  /\ ToEditor(m, calls)
  /\ UNCHANGED <<shelf, events, minted, used, owed>>

\* Back, in the editor while nothing is edited.
LeaveEditor ==
  /\ page = "editor" /\ Shown /\ ui.step = "idle"
  /\ Unmount
  /\ ToGuide(calls)
  /\ UNCHANGED <<shelf, events, minted, used, owed>>

-----------------------------------------------------------------------------
(* The dashboard                                                           *)

Presses == UNCHANGED <<shelf, editor, events, history, minted, used, page, form, owed>>

\* handleCreate.  Bound: one is asked for at a time.
HandleCreateMap ==
  /\ page = "guide" /\ shown.loaded
  /\ CanCall("createMap")
  /\ calls' = calls \cup {[Ring("createMap", 0) EXCEPT !.seen = shown.maps]}
  /\ Presses /\ UNCHANGED <<shown, behind>>

\* Mutant of HandleDeleteMap: the map is taken off the list before the server agrees.
HandleDeleteMapAtOnce(m) ==
  /\ page = "guide" /\ shown.loaded /\ m \in shown.maps
  /\ CanCall("deleteMap")
  /\ calls' = calls \cup {[Ring("deleteMap", m) EXCEPT !.seen = shown.maps]}
  /\ shown' = [shown EXCEPT !.maps = @ \ {m}]
  /\ behind' = (behind \/ Current # {})
  /\ Presses

\* handleDelete, which remembers the list as it is now.
HandleDeleteMap(m) ==
  /\ page = "guide" /\ shown.loaded /\ m \in shown.maps
  /\ CanCall("deleteMap")
  /\ calls' = calls \cup {[Ring("deleteMap", m) EXCEPT !.seen = shown.maps]}
  /\ behind' = (behind \/ Current # {})
  /\ Presses /\ UNCHANGED shown

\* handleImport, up to parseFile.  Bound: one file is read at a time.
HandleImport(f) ==
  /\ page = "guide" /\ shown.loaded /\ reading = <<>>
  /\ reading' = f
  /\ Presses /\ UNCHANGED <<shown, calls, behind>>

Usable == {i \in DOMAIN reading : reading[i] \in Kinds}
ToImporter(labels) ==
  /\ page' = "import"
  /\ form' = [kinds |-> [i \in Usable |-> reading[i]], labels |-> labels, saving |-> FALSE]
  /\ shown' = Hidden /\ calls' = Abandoned(calls) /\ behind' = FALSE
  /\ IF page = "editor" THEN Unmount ELSE Stays

\* Mutant of FileParsed: the features of other kinds get their labels too.
FileParsedLabels ==
  /\ reading # <<>> /\ reading' = <<>>
  /\ Usable # {}
  /\ ToImporter([i \in DOMAIN reading |-> "none"])
  /\ UNCHANGED <<shelf, events, minted, used, owed>>

\* parseFile throws, or finds nothing of use.
FileRefused ==
  /\ reading # <<>> /\ reading' = <<>>
  /\ Presses /\ UNCHANGED <<shown, calls, behind>>

\* parseFile is done: the features of kinds it knows go to the importer, each named here
\* by its place in the file, wherever the guide is by now.
FileParsed ==
  /\ reading # <<>> /\ reading' = <<>>
  /\ Usable # {}
  /\ ToImporter([i \in Usable |-> "none"])
  /\ UNCHANGED <<shelf, events, minted, used, owed>>

-----------------------------------------------------------------------------
(* The importer                                                            *)

\* setLabel: a second press of the same button takes the label off.
SetLabel(i, l) ==
  /\ page = "import" /\ i \in DOMAIN form.kinds
  /\ form' = [form EXCEPT !.labels[i] = IF @ = l THEN "none" ELSE l]
  /\ UNCHANGED <<shelf, editor, events, history, minted, used, page, shown, calls, behind, owed>>

Labelled(l) == {i \in DOMAIN form.labels : form.labels[i] = l}
CanSave == \A l \in {"start", "end", "corridor"} : Cardinality(Labelled(l)) = 1
KindOf(l) == form.kinds[CHOOSE i \in Labelled(l) : TRUE]

\* A start or an end is found for every kind but the multiple ones, which are put at
\* [0, 0].
HasPlace(l) == KindOf(l) \in {"Point", "LineString", "Polygon"}

\* A line is given a width, and may become several polygons; the corridor must be one.
CorridorMayDo == KindOf("corridor") \in {"Polygon", "LineString", "MultiLineString"}

\* Mutant of HandleSave: the corridor is looked at after the map was made.
HandleSaveAnyCorridor ==
  /\ page = "import" /\ CanSave /\ ~form.saving
  /\ CanCall("importMap")
  /\ \E placed \in {FALSE, HasPlace("start") /\ HasPlace("end")} :
       calls' = calls \cup {[Ring("importMap", 0) EXCEPT !.placed = placed,
                                                         !.ok = CorridorMayDo]}
  /\ form' = [form EXCEPT !.saving = TRUE]
  /\ UNCHANGED <<shelf, editor, events, history, minted, used, page, shown, behind, owed>>

\* handleSave, up to createMap: a corridor that will not do ends it before that.
HandleSave ==
  /\ page = "import" /\ CanSave /\ ~form.saving
  /\ CorridorMayDo
  /\ CanCall("importMap")
  /\ \E placed \in {FALSE, HasPlace("start") /\ HasPlace("end")} :
       calls' = calls \cup {[Ring("importMap", 0) EXCEPT !.placed = placed]}
  /\ form' = [form EXCEPT !.saving = TRUE]
  /\ UNCHANGED <<shelf, editor, events, history, minted, used, page, shown, behind, owed>>

-----------------------------------------------------------------------------
(* The server                                                              *)

Reply(c, a) == calls' = (calls \ {c}) \cup {[a EXCEPT !.at = "back"]}
\* Only the page that asked does anything about a failure, and the dashboard only about
\* that of its list.
Deny(c) == IF c.live /\ c.op \in {"list", "importMap", "importRound"}
           THEN Reply(c, [c EXCEPT !.ok = FALSE]) ELSE calls' = calls \ {c}

ServeList(c) ==
  /\ c.op = "list"
  /\ Reply(c, [c EXCEPT !.seen = maps])
  /\ behind' = FALSE
  /\ UNCHANGED <<shelf, minted, stale, owed>>

\* CreateMap.
ServeCreateMap(c) ==
  /\ c.op \in {"createMap", "importMap"}
  /\ minted < MaxMaps
  /\ minted' = minted + 1
  /\ maps' = maps \cup {minted'}
  /\ owed' = IF c.op = "importMap" THEN owed \cup {minted'} ELSE owed
  /\ behind' = (behind \/ ~c.live)
  /\ Reply(c, [c EXCEPT !.map = minted'])
  /\ UNCHANGED <<limit, rows, born, stale>>

\* DeleteMap takes the rounds along, and fails when a session is played on the map.
ServeDeleteMap(c) ==
  /\ c.op = "deleteMap"
  /\ IF c.map \in maps /\ c.map \notin used
     THEN /\ maps' = maps \ {c.map}
          /\ rows' = rows \ RoundsOf(c.map)
          /\ IF c.live THEN Reply(c, c) ELSE calls' = calls \ {c}
     ELSE Deny(c) /\ UNCHANGED <<maps, rows>>
  /\ behind' = (behind \/ ~c.live)
  /\ stale' = (stale \/ open = c.map)
  /\ UNCHANGED <<limit, born, minted, owed>>

\* CreateRound, of the round to import: refused without two places, or when the map has
\* a round already.
ServeImportRound(c) ==
  /\ c.op = "importRound"
  /\ owed' = owed \ {c.map}
  /\ IF c.map \in maps /\ c.placed /\ RoundsOf(c.map) = {}
     THEN /\ born < MaxRounds
          /\ born' = born + 1
          /\ rows' = rows \cup {[id |-> born', map |-> c.map, number |-> 1]}
          /\ stale' = (stale \/ open = c.map)
          /\ Reply(c, c)
     ELSE Deny(c) /\ UNCHANGED <<rows, born, stale>>
  /\ UNCHANGED <<limit, maps, minted, behind>>

ServeCall(c) ==
  /\ c.at = "sent"
  /\ ServeList(c) \/ ServeCreateMap(c) \/ ServeDeleteMap(c) \/ ServeImportRound(c)
  /\ UNCHANGED <<editor, events, refreshed, made, used, page, shown, form>>

\* A request fails before the server acts on it, or its answer is lost afterwards.
FailCall(c) ==
  /\ c.at = "sent" \/ c.ok
  /\ events < limit.events
  /\ events' = events + 1
  /\ Deny(c)
  /\ behind' = (behind \/ c.live)
  /\ owed' = owed \ {c.map}
  /\ UNCHANGED <<shelf, editor, history, minted, used, page, shown, form>>

\* Elsewhere a session is made on a map, or a map is deleted.
MapUsed(m) ==
  /\ events < limit.events /\ events' = events + 1
  /\ used' = used \cup {m}
  /\ UNCHANGED <<shelf, editor, history, minted, page, shown, form, calls, behind, owed>>

OthersDeleteMap(m) ==
  /\ m \notin used
  /\ events < limit.events /\ events' = events + 1
  /\ maps' = maps \ {m}
  /\ rows' = rows \ RoundsOf(m)
  /\ stale' = TRUE /\ behind' = TRUE
  /\ UNCHANGED <<limit, born, editor, refreshed, made, minted, used, page, shown, form, calls, owed>>

-----------------------------------------------------------------------------
(* Answers                                                                 *)

RestOf(c) == calls \ {c}
Remains == UNCHANGED <<editor, history, page, behind>>

ApplyList(c) ==
  /\ c.op = "list"
  /\ shown' = [loaded |-> TRUE, maps |-> IF c.ok THEN c.seen ELSE {}]
  /\ calls' = RestOf(c)
  /\ Remains /\ UNCHANGED form

\* navigate to the new map, wherever the guide is by now.
ApplyCreateMap(c) ==
  /\ c.op = "createMap"
  /\ ToEditor(c.map, RestOf(c))

\* setMaps, from the list as it was when Delete was pressed.
ApplyDeleteMap(c) ==
  /\ c.op = "deleteMap"
  /\ shown' = [shown EXCEPT !.maps = c.seen \ {c.map}]
  /\ calls' = RestOf(c)
  /\ Remains /\ UNCHANGED form

\* handleSave has its map, and asks for the round.
ApplyImportMap(c) ==
  /\ c.op = "importMap" /\ c.ok
  /\ calls' = RestOf(c) \cup {[c EXCEPT !.op = "importRound", !.at = "sent"]}
  /\ Remains /\ UNCHANGED <<shown, form>>

ApplyImportRound(c) ==
  /\ c.op = "importRound" /\ c.ok
  /\ ToEditor(c.map, RestOf(c))

\* Mutant of ApplyImportFailure: Save is offered again only if it was the map that failed.
ApplyMapFailure(c) ==
  /\ c.op \in {"importMap", "importRound"} /\ ~c.ok
  /\ form' = IF c.live /\ c.op = "importMap" THEN [form EXCEPT !.saving = FALSE] ELSE form
  /\ calls' = RestOf(c)
  /\ Remains /\ UNCHANGED shown

\* handleSave's catch: Save is offered again, if the importer it was pressed in is shown.
ApplyImportFailure(c) ==
  /\ c.op \in {"importMap", "importRound"} /\ ~c.ok
  /\ form' = IF c.live THEN [form EXCEPT !.saving = FALSE] ELSE form
  /\ calls' = RestOf(c)
  /\ Remains /\ UNCHANGED shown

ApplyCall(c) ==
  /\ c.at = "back"
  /\ \/ ApplyList(c) \/ ApplyCreateMap(c) \/ ApplyDeleteMap(c)
     \/ ApplyImportMap(c) \/ ApplyImportRound(c) \/ ApplyImportFailure(c)
  /\ UNCHANGED <<shelf, events, minted, used, owed>>

-----------------------------------------------------------------------------

PagesNext ==
  \/ OpenGuide \/ LeaveGuide \/ LeaveEditor
  \/ \E m \in shown.maps : EditMap(m) \/ HandleDeleteMap(m)
  \/ HandleCreateMap \/ HandleSave
  \/ \E i \in DOMAIN form.kinds, l \in Labels : SetLabel(i, l)
  \/ \E c \in calls : ServeCall(c) \/ FailCall(c) \/ ApplyCall(c)
  \/ \E m \in maps : MapUsed(m) \/ OthersDeleteMap(m)

FilesNext == (\E f \in limit.files : HandleImport(f)) \/ FileParsed \/ FileRefused

Next ==
  \/ PagesNext /\ UNCHANGED reading
  \/ FilesNext
  \/ EditorNext /\ UNCHANGED pages

Spec == Init /\ [][Next]_vars

-----------------------------------------------------------------------------
(* Properties                                                              *)

\* The state is well formed, the editor's part as EditorTypeOK says.
TypeOK ==
  /\ EditorTypeOK
  /\ minted \in 0 .. MaxMaps /\ used \subseteq Maps
  /\ page \in {"guide", "editor", "import", "away"}
  /\ (page = "editor") = (open # 0)
  /\ shown \in [loaded : BOOLEAN, maps : SUBSET Maps]
  /\ form.kinds \in [DOMAIN form.kinds -> Kinds] /\ form.saving \in BOOLEAN
  /\ form.labels \in [DOMAIN form.kinds -> Labels \cup {"none"}]
  /\ calls \subseteq Call
  /\ reading \in limit.files \cup {<<>>}
  /\ behind \in BOOLEAN /\ owed \subseteq Maps

\* When nothing of the dashboard's is on its way it shows the maps there are, unless a
\* request failed, one was asked for while another was on its way, or a map was changed
\* from elsewhere.
DashboardShows ==
  (page = "guide" /\ shown.loaded /\ ~behind /\ Current = {}) => shown.maps = maps

\* An imported map gets its round though the guide walks away between the two requests;
\* it stays empty only when a request or its answer was lost, the labels gave the round no
\* start or end, or the server refused what was labelled: a start on the end, a corridor
\* that is none, or a round on a map that another tab has given one.
ImportWhole ==
  \A m \in owed \cap maps :
    \E c \in calls : c.map = m /\ (c.op = "importMap" \/ (c.op = "importRound" /\ c.at = "sent"))

\* The importer is saving just as long as a request of its own is under way: Save cannot
\* be pressed to import a map twice, and a failure of either request, a lost answer or one
\* to an importer that was left before never leaves it disabled or offers it too early.
SavingIsImporting ==
  form.saving <=> \E c \in Current : c.op \in {"importMap", "importRound"}

-----------------------------------------------------------------------------
(* What the code promises and does not keep                                *)

\* GuideDashboard.tsx:36 takes a deleted map off the list it saw when Delete was pressed:
\* the answer to one delete brings back the map of another.
DeletedStaysOff ==
  [][(shown.loaded /\ shown'.loaded) => shown'.maps \subseteq shown.maps]_vars

\* ImportLabeler.tsx:292, `?? [0, 0]`: a start on a multiple feature is sent to the server as
\* the one place it refuses, after the map has been made; each try leaves a map behind.
ImportHasPlaces == \A c \in calls : (c.op = "importRound" /\ c.at = "back") => c.ok

=============================================================================
