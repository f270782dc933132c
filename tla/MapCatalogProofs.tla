-------------------------- MODULE MapCatalogProofs ---------------------------
(***************************************************************************)
(* The guide's pages for any number of maps, rounds, requests and events:  *)
(* the dashboard shows the maps there are, an imported map gets its round, *)
(* and the editor's drawing, list and saves are right whatever page it is  *)
(* entered from, left for or changed behind.                               *)
(***************************************************************************)
EXTENDS MapCatalog, MapEditorProofs

\* The maps given out, the dashboard and the requests are well formed.
KnownOK ==
  /\ limit \in Limits
  /\ minted \in 1 .. MaxMaps
  /\ maps \subseteq 1 .. minted /\ owed \subseteq 1 .. minted
  /\ page \in {"guide", "editor", "import", "away"}
  /\ shown \in [loaded : BOOLEAN, maps : SUBSET Maps]
  /\ calls \subseteq Call
  /\ behind \in BOOLEAN

OfGuide == {"createMap", "deleteMap"}
OfImport == {"importMap", "importRound"}

\* A request that still matters to its page finds that page shown, and its list comes first.
CallsOK ==
  \A c \in calls :
    /\ c.at = "sent" => c.ok /\ (c.op = "importMap" => c.map = 0)
    /\ c.op = "list" => c.live /\ page = "guide" /\ ~shown.loaded
    /\ c.op = "deleteMap" /\ c.at = "back" => c.live
    /\ c.live /\ c.op \in OfGuide => page = "guide" /\ shown.loaded
    /\ c.live /\ c.op \in OfImport => page = "import"

\* While the list is asked for, nothing else is, and what it brings is right.
ListingOK ==
  \A c \in calls : c.op = "list" =>
    /\ \A d \in calls : d.live => d = c
    /\ c.at = "back" /\ ~behind => c.ok /\ c.seen = maps

Deletes(c) == c \in calls /\ c.live /\ c.op = "deleteMap"
Created(c) == c \in calls /\ c.live /\ c.op = "createMap" /\ c.at = "back"

\* The dashboard shows the maps there are, or those there were before its one delete.
DashboardOK ==
  (page = "guide" /\ shown.loaded /\ ~behind /\ ~\E c : Created(c)) =>
    /\ (\A c : ~Deletes(c)) => shown.maps = maps
    /\ \A c : Deletes(c) =>
         /\ c.seen = shown.maps
         /\ maps = IF c.at = "sent" THEN c.seen ELSE c.seen \ {c.map}
         /\ \A d : Deletes(d) => d = c

\* A map that is owed a round has the request that is to bring it.
Brings(c, m) ==
  c.map = m /\ c.ok /\ (c.op = "importMap" \/ (c.op = "importRound" /\ c.at = "sent"))
OwedOK == \A m \in owed : \E c \in calls : Brings(c, m)

CatalogInv == KnownOK /\ CallsOK /\ ListingOK /\ DashboardOK /\ OwedOK

-----------------------------------------------------------------------------

\* No step of the editor's changes a map or what is known of the pages.
LEMMA EditorKeepsMaps == EditorNext => maps' = maps /\ limit' = limit
<1> USE DEF shelf, Draws, Rounds
<1>1. ASSUME NEW q, Serve(q)
      PROVE  maps' = maps /\ limit' = limit
  BY <1>1 DEF Serve, ServeGet, ServeCreate, ServeUpdate, ServeDelete
<1>2. ASSUME NEW q, Fail(q) \/ Apply(q)
      PROVE  maps' = maps /\ limit' = limit
  BY <1>2 DEF Fail, Apply
<1>3. ASSUME NEW r, EditRound(r) \/ DeleteRound(r) \/ OthersCreate(r) \/ OthersDelete(r)
      PROVE  maps' = maps /\ limit' = limit
  BY <1>3 DEF EditRound, DeleteRound, OthersCreate, OthersDelete
<1>4. ASSUME NEW p, RedoStep(p) \/ DeleteZone(p) \/ DragFeature(p)
      PROVE  maps' = maps /\ limit' = limit
  BY <1>4 DEF RedoStep, DeleteZone, DragFeature
<1>5. ASSUME InitDraw \/ FinishFeature \/ DrawZone \/ StartNewRound \/ CancelEditing \/ SaveRound
      PROVE  maps' = maps /\ limit' = limit
  BY <1>5 DEF InitDraw, FinishFeature, DrawZone, StartNewRound, CancelEditing, SaveRound
<1> QED
  BY <1>1, <1>2, <1>3, <1>4, <1>5 DEF EditorNext

\* What goes on without its page is what was asked, but for the page.
LEMMA AbandonedShape ==
  ASSUME NEW cs, cs \subseteq Call
  PROVE  /\ Abandoned(cs) \subseteq Call
         /\ \A x \in Abandoned(cs) :
              /\ ~x.live /\ x.op # "list" /\ ~(x.op = "deleteMap" /\ x.at = "back")
              /\ \E c \in cs : x.op = c.op /\ x.map = c.map /\ x.at = c.at /\ x.ok = c.ok
         /\ \A c \in cs : c.op \in OfImport =>
              \E x \in Abandoned(cs) : x.op = c.op /\ x.map = c.map /\ x.at = c.at /\ x.ok = c.ok
<1>1. ASSUME NEW c \in cs
      PROVE  LET x == [c EXCEPT !.live = FALSE]
             IN x \in Call /\ ~x.live /\ x.op = c.op /\ x.map = c.map /\ x.at = c.at /\ x.ok = c.ok
  BY <1>1 DEF Call
<1> QED
  BY <1>1 DEF Abandoned, OfImport

\* A new request is a request.
LEMMA RingShape ==
  ASSUME NEW op \in CallOps, NEW m \in 0 .. MaxMaps
  PROVE  /\ Ring(op, m) \in Call
         /\ Ring(op, m).op = op /\ Ring(op, m).map = m /\ Ring(op, m).at = "sent"
         /\ Ring(op, m).live /\ Ring(op, m).ok
  BY DEF Ring, Call

\* One map, and nothing asked.
LEMMA CatalogInit == Init => CatalogInv
<1> SUFFICES ASSUME Init PROVE CatalogInv
  OBVIOUS
<1>1. /\ limit \in Limits /\ maps = {1} /\ minted = 1 /\ page = "away" /\ shown = Hidden
      /\ calls = {} /\ owed = {} /\ behind = FALSE
  BY DEF Init, EditorInit
<1>2. behind \in BOOLEAN
  BY <1>1
<1>3. shown \in [loaded : BOOLEAN, maps : SUBSET Maps]
  BY <1>1 DEF Hidden
<1>4. minted \in 1 .. MaxMaps
  BY <1>1, BoundAssumption
<1>5. KnownOK
  BY <1>1, <1>2, <1>3, <1>4 DEF KnownOK
<1> QED
  BY <1>1, <1>5 DEF CatalogInv, CallsOK, ListingOK, DashboardOK, OwedOK, Deletes, Created

\* The owed rounds are brought by requests of cs.
Covered(cs) == \A m \in owed : \E c \in cs : Brings(c, m)

\* What is owed is still brought by what goes on.
LEMMA AbandonedCovers ==
  ASSUME NEW cs, cs \subseteq Call, Covered(cs), owed' = owed,
         Abandoned(cs) \subseteq calls'
  PROVE  OwedOK'
<1> SUFFICES ASSUME NEW m \in owed PROVE \E c \in calls' : Brings(c, m)
  BY DEF OwedOK, Brings
<1>1. PICK c \in cs : Brings(c, m)
  BY DEF Covered
<1> QED
  BY <1>1, AbandonedShape DEF Brings, OfImport

Still == limit' = limit /\ maps' = maps /\ minted' = minted /\ owed' = owed

\* The dashboard is entered.
LEMMA ToGuideKeeps ==
  ASSUME NEW cs, CatalogInv, cs \subseteq calls, Covered(cs), ToGuide(cs), Still
  PROVE  CatalogInv'
<1> DEFINE l == Ring("list", 0)
<1>1. /\ l \in Call /\ l.op = "list" /\ l.at = "sent" /\ l.live /\ l.ok
  BY RingShape, BoundAssumption DEF CallOps
<1>2. cs \subseteq Call
  BY DEF CatalogInv, KnownOK
<1>3. /\ calls' = Abandoned(cs) \cup {l} /\ page' = "guide" /\ shown' = Hidden /\ behind' = FALSE
  BY DEF ToGuide
<1> HIDE DEF l
<1>4. KnownOK'
  BY <1>1, <1>2, <1>3, AbandonedShape DEF CatalogInv, KnownOK, Still, Hidden
<1>5. \A c \in calls' : c = l \/ (~c.live /\ c.op # "list" /\ ~(c.op = "deleteMap" /\ c.at = "back"))
  BY <1>2, <1>3, AbandonedShape
<1>6. \A c \in calls' : c.at = "sent" => c.ok /\ (c.op = "importMap" => c.map = 0)
  BY <1>1, <1>2, <1>3, AbandonedShape DEF CatalogInv, CallsOK
<1>7. CallsOK' /\ ListingOK'
  BY <1>1, <1>3, <1>5, <1>6 DEF CallsOK, ListingOK, Hidden, OfGuide, OfImport
<1>8. DashboardOK'
  BY <1>3 DEF DashboardOK, Hidden
<1>9. OwedOK'
  BY <1>2, <1>3, AbandonedCovers DEF Still
<1> QED
  BY <1>4, <1>7, <1>8, <1>9 DEF CatalogInv

\* Another page is entered.
LEMMA LeavesKeeps ==
  ASSUME NEW cs, CatalogInv, cs \subseteq calls, Covered(cs), Still,
         page' \in {"editor", "import", "away"}, shown' = Hidden,
         calls' = Abandoned(cs), behind' = FALSE
  PROVE  CatalogInv'
<1>2. cs \subseteq Call
  BY DEF CatalogInv, KnownOK
<1>4. KnownOK'
  BY <1>2, AbandonedShape DEF CatalogInv, KnownOK, Still, Hidden
<1>5. \A c \in calls' : ~c.live /\ c.op # "list" /\ ~(c.op = "deleteMap" /\ c.at = "back")
  BY <1>2, AbandonedShape
<1>6. \A c \in calls' : c.at = "sent" => c.ok /\ (c.op = "importMap" => c.map = 0)
  BY <1>2, AbandonedShape DEF CatalogInv, CallsOK
<1>7. CallsOK' /\ ListingOK'
  BY <1>5, <1>6 DEF CallsOK, ListingOK
<1>8. DashboardOK'
  BY DEF DashboardOK
<1>9. OwedOK'
  BY <1>2, AbandonedCovers DEF Still
<1> QED
  BY <1>4, <1>7, <1>8, <1>9 DEF CatalogInv

\* All that is asked covers what is owed, and so does the rest when what is taken away
\* brings nothing.
LEMMA RestCovers ==
  ASSUME CatalogInv
  PROVE  /\ Covered(calls)
         /\ \A c : ~(\E m : Brings(c, m)) => Covered(calls \ {c})
BY DEF CatalogInv, OwedOK, Covered

\* Going from page to page.
LEMMA PagesKeep ==
  ASSUME CatalogInv,
         \/ OpenGuide \/ LeaveGuide \/ LeaveEditor
         \/ \E m \in shown.maps : EditMap(m)
         \/ FileParsed
  PROVE  CatalogInv'
<1> USE DEF shelf
<1>0. Covered(calls)
  BY RestCovers
<1>1. ASSUME OpenGuide \/ LeaveEditor
      PROVE  CatalogInv'
  BY <1>0, <1>1, ToGuideKeeps DEF OpenGuide, LeaveEditor, Still
<1>2. ASSUME LeaveGuide
      PROVE  CatalogInv'
  BY <1>0, <1>2, LeavesKeeps DEF LeaveGuide, Still
<1>3. ASSUME NEW m, EditMap(m)
      PROVE  CatalogInv'
  BY <1>0, <1>3, LeavesKeeps DEF EditMap, ToEditor, Still
<1>4. ASSUME FileParsed
      PROVE  CatalogInv'
  BY <1>0, <1>4, LeavesKeeps DEF FileParsed, ToImporter, Still
<1> QED
  BY <1>1, <1>2, <1>3, <1>4

\* Calls that are only added to still bring what is owed.
LEMMA AddedCovers ==
  ASSUME OwedOK, calls \subseteq calls', owed' = owed
  PROVE  OwedOK'
BY DEF OwedOK, Brings

\* Create, on the dashboard.
LEMMA HandleCreateMapKeeps == ASSUME CatalogInv, HandleCreateMap PROVE CatalogInv'
<1> DEFINE r == Ring("createMap", 0)
           n == [r EXCEPT !.seen = shown.maps]
<1> USE DEF shelf
<1>1. r \in Call /\ r.op = "createMap" /\ r.at = "sent" /\ r.ok
  BY RingShape, BoundAssumption DEF CallOps
<1> HIDE DEF r
<1>2. n \in Call /\ n.op = "createMap" /\ n.at = "sent" /\ n.ok
  BY <1>1 DEF Call, CatalogInv, KnownOK
<1>3. calls' = calls \cup {n}
  BY DEF HandleCreateMap, r
<1> HIDE DEF n
<1>4. /\ page = "guide" /\ shown.loaded
      /\ UNCHANGED <<limit, maps, minted, page, shown, behind, owed>>
  BY DEF HandleCreateMap, Presses
<1>5. KnownOK'
  BY <1>2, <1>3, <1>4 DEF CatalogInv, KnownOK
<1>6. CallsOK' /\ ListingOK'
  BY <1>2, <1>3, <1>4 DEF CatalogInv, CallsOK, ListingOK, OfGuide, OfImport
<1>7. DashboardOK'
  BY <1>2, <1>3, <1>4 DEF CatalogInv, DashboardOK, Deletes, Created
<1>8. OwedOK'
  BY <1>3, <1>4, AddedCovers DEF CatalogInv
<1> QED
  BY <1>5, <1>6, <1>7, <1>8 DEF CatalogInv

\* Delete, on the dashboard: what it remembers of the list is right while it is alone.
LEMMA HandleDeleteMapKeeps ==
  ASSUME CatalogInv, NEW m \in shown.maps, HandleDeleteMap(m) PROVE CatalogInv'
<1> DEFINE r == Ring("deleteMap", m)
           n == [r EXCEPT !.seen = shown.maps]
<1> USE DEF shelf
<1>1. r \in Call /\ r.op = "deleteMap" /\ r.at = "sent" /\ r.ok
  <2>1. m \in 0 .. MaxMaps
    BY BoundAssumption DEF CatalogInv, KnownOK, Maps
  <2> QED
    BY <2>1, RingShape DEF CallOps
<1> HIDE DEF r
<1>2. n \in Call /\ n.op = "deleteMap" /\ n.at = "sent" /\ n.ok /\ n.seen = shown.maps
  BY <1>1 DEF Call, CatalogInv, KnownOK
<1>3. calls' = calls \cup {n}
  BY DEF HandleDeleteMap, r
<1> HIDE DEF n
<1>4. /\ page = "guide" /\ shown.loaded
      /\ UNCHANGED <<limit, maps, minted, page, shown, owed>>
      /\ behind' = (behind \/ Current # {})
  BY DEF HandleDeleteMap, Presses
<1>5. KnownOK'
  BY <1>2, <1>3, <1>4 DEF CatalogInv, KnownOK
<1>6. CallsOK' /\ ListingOK'
  BY <1>2, <1>3, <1>4 DEF CatalogInv, CallsOK, ListingOK, OfGuide, OfImport
<1>7. DashboardOK'
  <2> SUFFICES ASSUME ~behind', ~\E c : Created(c)' PROVE DashboardOK'
    BY DEF DashboardOK
  <2>1. ~behind /\ \A c \in calls : ~c.live
    BY <1>4 DEF Current
  <2>2. shown.maps = maps
    BY <1>4, <2>1 DEF CatalogInv, DashboardOK, Deletes, Created
  <2>3. \A c : Deletes(c)' => c = n
    BY <1>3, <2>1 DEF Deletes
  <2> QED
    BY <1>2, <1>3, <1>4, <2>2, <2>3 DEF DashboardOK, Deletes
<1>8. OwedOK'
  BY <1>3, <1>4, AddedCovers DEF CatalogInv
<1> QED
  BY <1>5, <1>6, <1>7, <1>8 DEF CatalogInv

\* Save, in the importer.
LEMMA HandleSaveKeeps == ASSUME CatalogInv, HandleSave PROVE CatalogInv'
<1> DEFINE r == Ring("importMap", 0)
<1> USE DEF shelf
<1>1. r \in Call /\ r.op = "importMap" /\ r.at = "sent" /\ r.ok /\ r.map = 0 /\ r.live
  BY RingShape, BoundAssumption DEF CallOps
<1>2. PICK placed \in BOOLEAN : calls' = calls \cup {[r EXCEPT !.placed = placed]}
  <2>1. (HasPlace("start") /\ HasPlace("end")) \in BOOLEAN
    BY DEF HasPlace
  <2> QED
    BY <2>1 DEF HandleSave
<1> DEFINE n == [r EXCEPT !.placed = placed]
<1> HIDE DEF r
<1>3. n \in Call /\ n.op = "importMap" /\ n.map = 0 /\ n.at = "sent" /\ n.ok
  BY <1>1 DEF Call
<1>4. calls' = calls \cup {n}
  BY <1>2
<1> HIDE DEF n
<1>5. /\ page = "import"
      /\ UNCHANGED <<limit, maps, minted, page, shown, behind, owed>>
  BY DEF HandleSave
<1>6. KnownOK'
  BY <1>3, <1>4, <1>5 DEF CatalogInv, KnownOK
<1>7. CallsOK' /\ ListingOK'
  BY <1>3, <1>4, <1>5 DEF CatalogInv, CallsOK, ListingOK, OfGuide, OfImport
<1>8. DashboardOK'
  BY <1>5 DEF DashboardOK
<1>9. OwedOK'
  BY <1>4, <1>5, AddedCovers DEF CatalogInv
<1> QED
  BY <1>6, <1>7, <1>8, <1>9 DEF CatalogInv

\* What the invariant reads stays, or only the maps change and the dashboard is told to be behind.
LEMMA OthersKeep ==
  ASSUME CatalogInv, UNCHANGED <<limit, minted, page, shown, calls, owed>>,
         \/ UNCHANGED <<maps, behind>>
         \/ maps' \subseteq maps /\ behind' = TRUE
  PROVE  CatalogInv'
<1>1. KnownOK'
  BY DEF CatalogInv, KnownOK
<1>2. CallsOK' /\ ListingOK'
  BY DEF CatalogInv, CallsOK, ListingOK
<1>3. DashboardOK'
  BY DEF CatalogInv, DashboardOK, Deletes, Created
<1>4. OwedOK'
  BY DEF CatalogInv, OwedOK, Brings
<1> QED
  BY <1>1, <1>2, <1>3, <1>4 DEF CatalogInv

\* What a reply or a refusal does to the requests.
LEMMA ReplyShape ==
  ASSUME NEW c, c \in Call, NEW a, a \in Call, Reply(c, a)
  PROVE  \E b \in Call : /\ calls' = (calls \ {c}) \cup {b}
                         /\ b.at = "back" /\ b.op = a.op /\ b.map = a.map /\ b.ok = a.ok
                         /\ b.seen = a.seen /\ b.live = a.live
<1> DEFINE b == [a EXCEPT !.at = "back"]
<1>1. calls' = (calls \ {c}) \cup {b}
  BY DEF Reply
<1>2. /\ b \in Call /\ b.at = "back" /\ b.op = a.op /\ b.map = a.map /\ b.ok = a.ok
      /\ b.seen = a.seen /\ b.live = a.live
  BY DEF Call
<1> HIDE DEF b
<1> QED
  BY <1>1, <1>2

LEMMA DenyShape ==
  ASSUME NEW c, c \in Call, Deny(c)
  PROVE  \/ /\ calls' = calls \ {c}
            /\ ~(c.live /\ c.op \in {"list", "importMap", "importRound"})
         \/ \E b \in Call : /\ calls' = (calls \ {c}) \cup {b}
                            /\ b.at = "back" /\ b.op = c.op /\ b.map = c.map /\ ~b.ok
                            /\ b.live = c.live
                            /\ c.live /\ c.op \in {"list", "importMap", "importRound"}
<1>1. CASE c.live /\ c.op \in {"list", "importMap", "importRound"}
  <2> DEFINE a == [c EXCEPT !.ok = FALSE]
  <2>1. a \in Call /\ a.op = c.op /\ a.map = c.map /\ a.live = c.live /\ ~a.ok
    BY DEF Call
  <2>2. Reply(c, a)
    BY <1>1 DEF Deny
  <2> HIDE DEF a
  <2>3. PICK b \in Call : /\ calls' = (calls \ {c}) \cup {b}
                          /\ b.at = "back" /\ b.op = a.op /\ b.map = a.map /\ b.ok = a.ok
                          /\ b.live = a.live
    BY <2>1, <2>2, ReplyShape
  <2> QED
    BY <1>1, <2>1, <2>3
<1>2. CASE ~(c.live /\ c.op \in {"list", "importMap", "importRound"})
  BY <1>2 DEF Deny
<1> QED
  BY <1>1, <1>2

\* The maps are read for the dashboard.
LEMMA ServeListKeeps ==
  ASSUME CatalogInv, NEW c \in calls, c.at = "sent", ServeList(c),
         UNCHANGED <<page, shown>>
  PROVE  CatalogInv'
<1> USE DEF shelf
<1> DEFINE a == [c EXCEPT !.seen = maps]
<1>1. /\ a \in Call /\ a.op = "list" /\ a.map = c.map /\ a.ok = c.ok /\ a.seen = maps
      /\ a.live = c.live
  <2>1. maps \in SUBSET Maps
    BY BoundAssumption DEF CatalogInv, KnownOK, Maps
  <2>2. c \in Call /\ c.op = "list"
    BY DEF ServeList, CatalogInv, KnownOK
  <2> QED
    BY <2>1, <2>2 DEF Call
<1>2. Reply(c, a) /\ ~behind' /\ behind' \in BOOLEAN
      /\ UNCHANGED <<limit, maps, minted, page, shown, owed>>
  BY DEF ServeList
<1> HIDE DEF a
<1>3. PICK b \in Call : /\ calls' = (calls \ {c}) \cup {b}
                        /\ b.at = "back" /\ b.op = "list" /\ b.map = c.map /\ b.ok = c.ok
                        /\ b.seen = maps /\ b.live = c.live
  BY <1>1, <1>2, ReplyShape DEF CatalogInv, KnownOK
<1>4. c.op = "list" /\ c.live /\ page = "guide" /\ ~shown.loaded /\ \A d \in calls : d.live => d = c
  BY DEF ServeList, CatalogInv, CallsOK, ListingOK
<1>5. KnownOK'
  BY <1>2, <1>3 DEF CatalogInv, KnownOK
<1>6. CallsOK'
  BY <1>2, <1>3, <1>4 DEF CatalogInv, CallsOK, OfGuide, OfImport
<1>7. c.ok
  BY DEF CatalogInv, CallsOK
<1>8. ListingOK'
  BY <1>2, <1>3, <1>4, <1>7 DEF CatalogInv, ListingOK
<1>9. DashboardOK'
  BY <1>2, <1>4 DEF DashboardOK
<1>10. OwedOK'
  BY <1>2, <1>3, <1>4 DEF CatalogInv, OwedOK, Brings
<1> QED
  BY <1>5, <1>6, <1>8, <1>9, <1>10 DEF CatalogInv

\* A map is made: the dashboard that asked for it goes to it before anything else.
LEMMA ServeCreateMapKeeps ==
  ASSUME CatalogInv, NEW c \in calls, c.at = "sent", ServeCreateMap(c),
         UNCHANGED <<page, shown>>
  PROVE  CatalogInv'
<1> USE DEF shelf
<1> DEFINE a == [c EXCEPT !.map = minted']
<1>1. minted' = minted + 1 /\ minted' \in 1 .. MaxMaps /\ minted \in Nat
  BY BoundAssumption DEF ServeCreateMap, CatalogInv, KnownOK
<1>2. /\ a \in Call /\ a.op = c.op /\ a.map = minted' /\ a.ok = c.ok /\ a.live = c.live
  BY <1>1 DEF Call, CatalogInv, KnownOK
<1>3. /\ Reply(c, a) /\ c.op \in {"createMap", "importMap"} /\ maps' = maps \cup {minted'}
      /\ behind' = (behind \/ ~c.live)
      /\ owed' = (IF c.op = "importMap" THEN owed \cup {minted'} ELSE owed)
      /\ UNCHANGED <<limit, page, shown>>
  BY DEF ServeCreateMap
<1> HIDE DEF a
<1>4. PICK b \in Call : /\ calls' = (calls \ {c}) \cup {b}
                        /\ b.at = "back" /\ b.op = c.op /\ b.map = minted' /\ b.ok = c.ok
                        /\ b.live = c.live
  BY <1>2, <1>3, ReplyShape DEF CatalogInv, KnownOK
<1>5. c.ok /\ (c.op = "importMap" => c.map = 0) /\ (c.op = "importMap" /\ c.live => page = "import")
  BY DEF CatalogInv, CallsOK, OfImport
<1>6. KnownOK'
  BY <1>1, <1>3, <1>4 DEF CatalogInv, KnownOK
<1>7. CallsOK'
  BY <1>3, <1>4 DEF CatalogInv, CallsOK, OfGuide, OfImport
<1>8. ListingOK'
  BY <1>3, <1>4 DEF CatalogInv, ListingOK, CallsOK, OfGuide, OfImport
<1>9. DashboardOK'
  <2> SUFFICES ASSUME page = "guide", ~behind', ~\E d : Created(d)' PROVE DashboardOK'
    BY <1>3 DEF DashboardOK
  <2>1. c.live /\ c.op = "createMap"
    BY <1>3, <1>5
  <2>2. Created(b)'
    BY <1>3, <1>4, <2>1 DEF Created
  <2> QED
    BY <2>2
<1>10. OwedOK'
  <2> SUFFICES ASSUME NEW m \in owed' PROVE \E d \in calls' : Brings(d, m)
    BY DEF OwedOK, Brings
  <2>1. CASE c.op = "importMap" /\ m = minted'
    BY <1>4, <1>5, <2>1 DEF Brings
  <2>2. CASE m \in owed
    <3>1. PICK d \in calls : Brings(d, m)
      BY <2>2 DEF CatalogInv, OwedOK
    <3>2. d # c
      BY <1>3, <1>5, <2>2, <3>1 DEF Brings, CatalogInv, KnownOK
    <3> QED
      BY <1>4, <3>1, <3>2
  <2> QED
    BY <1>3, <2>1, <2>2
<1> QED
  BY <1>6, <1>7, <1>8, <1>9, <1>10 DEF CatalogInv

\* Requests that are only taken away, or answered as they were, where nothing is owed to them.
LEMMA RefusedOwed ==
  ASSUME OwedOK, NEW c, NEW b,
         calls' = calls \ {c} \/ calls' = (calls \ {c}) \cup {b},
         \A m \in owed' : m \in owed /\ m # c.map
  PROVE  OwedOK'
<1> SUFFICES ASSUME NEW m \in owed' PROVE \E d \in calls' : Brings(d, m)
  BY DEF OwedOK, Brings
<1>1. PICK d \in calls : Brings(d, m)
  BY DEF OwedOK
<1> QED
  BY <1>1 DEF Brings

\* What brings nothing may be taken away or answered.
LEMMA IdleOwed ==
  ASSUME OwedOK, NEW c, NEW b, c.op \notin OfImport,
         calls' = calls \ {c} \/ calls' = (calls \ {c}) \cup {b},
         owed' = owed
  PROVE  OwedOK'
<1> SUFFICES ASSUME NEW m \in owed PROVE \E d \in calls' : Brings(d, m)
  BY DEF OwedOK, Brings
<1>1. PICK d \in calls : Brings(d, m)
  BY DEF OwedOK
<1> QED
  BY <1>1 DEF Brings, OfImport

\* A map is deleted, or is not.
LEMMA ServeDeleteMapKeeps ==
  ASSUME CatalogInv, NEW c \in calls, c.at = "sent", ServeDeleteMap(c),
         UNCHANGED <<page, shown>>
  PROVE  CatalogInv'
<1> USE DEF shelf
<1>1. /\ c.op = "deleteMap" /\ behind' = (behind \/ ~c.live)
      /\ UNCHANGED <<limit, minted, owed, page, shown>>
  BY DEF ServeDeleteMap
<1>2. PICK b : \/ /\ calls' = (calls \ {c}) \cup {b} /\ c.live /\ maps' = maps \ {c.map}
                  /\ b \in Call /\ b.at = "back" /\ b.op = c.op /\ b.map = c.map /\ b.ok = c.ok
                  /\ b.seen = c.seen /\ b.live = c.live
               \/ calls' = calls \ {c} /\ (maps' = maps \ {c.map} \/ maps' = maps)
                  /\ (c.live => maps' = maps)
  <2>1. CASE c.map \in maps /\ c.map \notin used /\ c.live
    BY <2>1, ReplyShape DEF ServeDeleteMap, CatalogInv, KnownOK
  <2>2. CASE c.map \in maps /\ c.map \notin used /\ ~c.live
    BY <2>2 DEF ServeDeleteMap
  <2>3. CASE ~(c.map \in maps /\ c.map \notin used)
    BY <2>3, <1>1 DEF ServeDeleteMap, Deny
  <2> QED
    BY <2>1, <2>2, <2>3
<1>3. c.live => page = "guide" /\ shown.loaded
  BY <1>1 DEF CatalogInv, CallsOK, OfGuide
<1>4. KnownOK'
  BY <1>1, <1>2 DEF CatalogInv, KnownOK
<1>5. CallsOK'
  BY <1>1, <1>2 DEF CatalogInv, CallsOK, OfGuide, OfImport
<1>6. ListingOK'
  BY <1>1, <1>2, <1>3 DEF CatalogInv, ListingOK, CallsOK
<1>7. DashboardOK'
  <2> SUFFICES ASSUME page = "guide", shown.loaded, ~behind', ~\E d : Created(d)'
               PROVE  /\ (\A d : ~Deletes(d)') => shown.maps = maps'
                      /\ \A d : Deletes(d)' =>
                           /\ d.seen = shown.maps
                           /\ maps' = IF d.at = "sent" THEN d.seen ELSE d.seen \ {d.map}
                           /\ \A e : Deletes(e)' => e = d
    BY <1>1 DEF DashboardOK
  <2>1. c.live /\ ~behind /\ Deletes(c)
    BY <1>1 DEF Deletes
  <2>2. ~\E d : Created(d)
    BY <1>1, <1>2 DEF Created
  <2>3. /\ c.seen = shown.maps /\ maps = c.seen /\ \A d : Deletes(d) => d = c
    BY <2>1, <2>2 DEF CatalogInv, DashboardOK
  <2>4. \A d : Deletes(d)' => d = b /\ calls' = (calls \ {c}) \cup {b}
    BY <1>2, <2>3 DEF Deletes
  <2>5. CASE calls' = calls \ {c}
    BY <1>2, <2>1, <2>3, <2>5 DEF Deletes
  <2>6. CASE calls' # calls \ {c}
    <3>1. Deletes(b)'
      BY <1>1, <1>2, <2>6 DEF Deletes
    <3> QED
      BY <1>2, <2>3, <2>4, <2>6, <3>1
  <2> QED
    BY <2>5, <2>6
<1>8. OwedOK'
  BY <1>1, <1>2, IdleOwed DEF CatalogInv, OfImport
<1> QED
  BY <1>4, <1>5, <1>6, <1>7, <1>8 DEF CatalogInv

\* The round of an imported map is stored, or is refused.
LEMMA ServeImportRoundKeeps ==
  ASSUME CatalogInv, NEW c \in calls, c.at = "sent", ServeImportRound(c),
         UNCHANGED <<page, shown>>
  PROVE  CatalogInv'
<1> USE DEF shelf
<1>1. /\ c.op = "importRound" /\ owed' = owed \ {c.map}
      /\ UNCHANGED <<limit, maps, minted, behind, page, shown>>
  BY DEF ServeImportRound
<1>2. PICK b : \/ calls' = calls \ {c}
               \/ /\ calls' = (calls \ {c}) \cup {b}
                  /\ b \in Call /\ b.at = "back" /\ b.op = c.op /\ b.map = c.map
                  /\ b.live = c.live
  <2>1. CASE Reply(c, c)
    BY <2>1, ReplyShape DEF CatalogInv, KnownOK
  <2>2. CASE Deny(c)
    BY <2>2, DenyShape DEF CatalogInv, KnownOK
  <2> QED
    BY <2>1, <2>2 DEF ServeImportRound
<1>3. KnownOK'
  BY <1>1, <1>2 DEF CatalogInv, KnownOK
<1>4. CallsOK' /\ ListingOK'
  BY <1>1, <1>2 DEF CatalogInv, CallsOK, ListingOK, OfGuide, OfImport
<1>5. DashboardOK'
  BY <1>1, <1>2 DEF CatalogInv, DashboardOK, Deletes, Created
<1>6. OwedOK'
  BY <1>1, <1>2, RefusedOwed DEF CatalogInv
<1> QED
  BY <1>3, <1>4, <1>5, <1>6 DEF CatalogInv

\* A request of the pages fails, or its answer is lost.
LEMMA FailCallKeeps == ASSUME CatalogInv, NEW c \in calls, FailCall(c) PROVE CatalogInv'
<1> USE DEF shelf
<1>1. /\ behind' = (behind \/ c.live) /\ owed' = owed \ {c.map}
      /\ UNCHANGED <<limit, maps, minted, page, shown>>
  BY DEF FailCall
<1>2. PICK b : \/ calls' = calls \ {c}
               \/ /\ calls' = (calls \ {c}) \cup {b}
                  /\ b \in Call /\ b.at = "back" /\ b.op = c.op /\ b.map = c.map
                  /\ b.live = c.live /\ b.live /\ b.op # "deleteMap"
  BY DenyShape DEF FailCall, CatalogInv, KnownOK
<1>3. KnownOK'
  BY <1>1, <1>2 DEF CatalogInv, KnownOK
<1>4. CallsOK' /\ ListingOK'
  BY <1>1, <1>2 DEF CatalogInv, CallsOK, ListingOK, OfGuide, OfImport
<1>5. DashboardOK'
  BY <1>1, <1>2 DEF CatalogInv, DashboardOK, Deletes, Created
<1>6. OwedOK'
  BY <1>1, <1>2, RefusedOwed DEF CatalogInv
<1> QED
  BY <1>3, <1>4, <1>5, <1>6 DEF CatalogInv

\* The dashboard is given its list.
LEMMA ApplyListKeeps ==
  ASSUME CatalogInv, NEW c \in calls, c.at = "back", ApplyList(c),
         UNCHANGED <<limit, maps, minted, owed>>
  PROVE  CatalogInv'
<1>1. /\ c.op = "list" /\ calls' = calls \ {c} /\ page' = page /\ behind' = behind
      /\ shown' = [loaded |-> TRUE, maps |-> IF c.ok THEN c.seen ELSE {}]
  BY DEF ApplyList, RestOf, Remains
<1>2. page = "guide" /\ \A d \in calls : d.live => d = c
  BY <1>1 DEF CatalogInv, CallsOK, ListingOK
<1>3. shown' \in [loaded : BOOLEAN, maps : SUBSET Maps] /\ shown'.loaded
  BY <1>1 DEF CatalogInv, KnownOK, Call
<1>4. KnownOK'
  BY <1>1, <1>3 DEF CatalogInv, KnownOK
<1>5. CallsOK'
  BY <1>1, <1>2 DEF CatalogInv, CallsOK
<1>6. ListingOK'
  BY <1>1 DEF CatalogInv, ListingOK
<1>7. DashboardOK'
  <2>1. \A d : ~Deletes(d)'
    BY <1>1, <1>2 DEF Deletes
  <2>2. ~behind => c.ok /\ c.seen = maps
    BY <1>1 DEF CatalogInv, ListingOK
  <2>3. ~behind => shown'.maps = maps
    BY <1>1, <2>2
  <2> QED
    BY <1>1, <2>1, <2>3 DEF DashboardOK
<1>8. OwedOK'
  BY <1>1, IdleOwed DEF CatalogInv, OfImport
<1> QED
  BY <1>4, <1>5, <1>6, <1>7, <1>8 DEF CatalogInv

\* The map that was deleted is taken off the list.
LEMMA ApplyDeleteMapKeeps ==
  ASSUME CatalogInv, NEW c \in calls, c.at = "back", ApplyDeleteMap(c),
         UNCHANGED <<limit, maps, minted, owed>>
  PROVE  CatalogInv'
<1>1. /\ c.op = "deleteMap" /\ calls' = calls \ {c} /\ page' = page /\ behind' = behind
      /\ shown' = [shown EXCEPT !.maps = c.seen \ {c.map}]
  BY DEF ApplyDeleteMap, RestOf, Remains
<1>2. c.live /\ page = "guide" /\ shown.loaded
  BY <1>1 DEF CatalogInv, CallsOK, OfGuide
<1>3. /\ shown' \in [loaded : BOOLEAN, maps : SUBSET Maps] /\ shown'.loaded = shown.loaded
      /\ shown'.maps = c.seen \ {c.map}
  BY <1>1 DEF CatalogInv, KnownOK, Call
<1>4. KnownOK'
  BY <1>1, <1>3 DEF CatalogInv, KnownOK
<1>5. CallsOK' /\ ListingOK'
  BY <1>1, <1>3 DEF CatalogInv, CallsOK, ListingOK
<1>6. DashboardOK'
  <2> SUFFICES ASSUME ~behind, ~\E d : Created(d)'
               PROVE  shown'.maps = maps /\ \A d : ~Deletes(d)'
    BY <1>1 DEF DashboardOK
  <2>1. ~\E d : Created(d)
    BY <1>1 DEF Created
  <2>2. Deletes(c)
    BY <1>1, <1>2 DEF Deletes
  <2>3. maps = c.seen \ {c.map} /\ \A d : Deletes(d) => d = c
    BY <1>2, <2>1, <2>2 DEF CatalogInv, DashboardOK
  <2> QED
    BY <1>1, <1>3, <2>3 DEF Deletes
<1>7. OwedOK'
  BY <1>1, IdleOwed DEF CatalogInv, OfImport
<1> QED
  BY <1>4, <1>5, <1>6, <1>7 DEF CatalogInv

\* The map that was asked for is opened, or the map of an import with its round.
LEMMA ApplyOpensKeeps ==
  ASSUME CatalogInv, NEW c \in calls, c.at = "back",
         ApplyCreateMap(c) \/ ApplyImportRound(c),
         UNCHANGED <<limit, maps, minted, owed>>
  PROVE  CatalogInv'
<1>1. ToEditor(c.map, calls \ {c}) /\ c.op \in {"createMap", "importRound"}
  BY DEF ApplyCreateMap, ApplyImportRound, RestOf
<1>2. \A m : ~Brings(c, m)
  BY <1>1 DEF Brings
<1>3. Covered(calls \ {c})
  BY <1>2, RestCovers
<1> QED
  BY <1>1, <1>3, LeavesKeeps DEF ToEditor, Still

\* An import goes on to its round.
LEMMA ApplyImportMapKeeps ==
  ASSUME CatalogInv, NEW c \in calls, c.at = "back", ApplyImportMap(c),
         UNCHANGED <<limit, maps, minted, owed>>
  PROVE  CatalogInv'
<1> DEFINE a == [c EXCEPT !.op = "importRound"]
           b == [a EXCEPT !.at = "sent"]
<1>1. /\ c.op = "importMap" /\ c.ok /\ calls' = (calls \ {c}) \cup {b}
      /\ UNCHANGED <<page, behind, shown>>
  BY DEF ApplyImportMap, RestOf, Remains, Call, CatalogInv, KnownOK
<1>2. a \in Call /\ a.op = "importRound" /\ a.map = c.map /\ a.live = c.live /\ a.ok = c.ok
  BY DEF Call, CallOps, CatalogInv, KnownOK
<1> HIDE DEF a
<1>3. /\ b \in Call /\ b.op = "importRound" /\ b.map = c.map /\ b.live = c.live /\ b.ok = c.ok
      /\ b.at = "sent"
  BY <1>2 DEF Call
<1> HIDE DEF b
<1>4. KnownOK'
  BY <1>1, <1>3 DEF CatalogInv, KnownOK
<1>5. CallsOK' /\ ListingOK'
  BY <1>1, <1>3 DEF CatalogInv, CallsOK, ListingOK, OfGuide, OfImport
<1>6. DashboardOK'
  BY <1>1, <1>3 DEF CatalogInv, DashboardOK, Deletes, Created
<1>7. OwedOK'
  <2> SUFFICES ASSUME NEW m \in owed PROVE \E d \in calls' : Brings(d, m)
    BY DEF OwedOK, Brings
  <2>1. PICK d \in calls : Brings(d, m)
    BY DEF CatalogInv, OwedOK
  <2> QED
    BY <1>1, <1>3, <2>1 DEF Brings
<1> QED
  BY <1>4, <1>5, <1>6, <1>7 DEF CatalogInv

\* A failed import brings nothing any more.
LEMMA ApplyImportFailureKeeps ==
  ASSUME CatalogInv, NEW c \in calls, c.at = "back", ApplyImportFailure(c),
         UNCHANGED <<limit, maps, minted, owed>>
  PROVE  CatalogInv'
<1>1. /\ c.op \in OfImport /\ ~c.ok /\ calls' = calls \ {c} /\ UNCHANGED <<page, behind, shown>>
  BY DEF ApplyImportFailure, RestOf, Remains, OfImport
<1>2. KnownOK'
  BY <1>1 DEF CatalogInv, KnownOK
<1>3. CallsOK' /\ ListingOK'
  BY <1>1 DEF CatalogInv, CallsOK, ListingOK
<1>4. DashboardOK'
  BY <1>1 DEF CatalogInv, DashboardOK, Deletes, Created, OfImport
<1>5. OwedOK'
  BY <1>1 DEF CatalogInv, OwedOK, Brings
<1> QED
  BY <1>2, <1>3, <1>4, <1>5 DEF CatalogInv

-----------------------------------------------------------------------------

\* Every step keeps the invariant.
LEMMA CatalogStep == CatalogInv /\ [Next]_vars => CatalogInv'
<1> USE DEF shelf
<1> SUFFICES ASSUME CatalogInv, [Next]_vars PROVE CatalogInv'
  OBVIOUS
<1>1. ASSUME NEW c \in calls, ServeCall(c)
      PROVE  CatalogInv'
  BY <1>1, ServeListKeeps, ServeCreateMapKeeps, ServeDeleteMapKeeps, ServeImportRoundKeeps
     DEF ServeCall
<1>2. ASSUME NEW c \in calls, ApplyCall(c)
      PROVE  CatalogInv'
  BY <1>2, ApplyListKeeps, ApplyDeleteMapKeeps, ApplyOpensKeeps, ApplyImportMapKeeps,
     ApplyImportFailureKeeps DEF ApplyCall
<1>3. ASSUME NEW c \in calls, FailCall(c)
      PROVE  CatalogInv'
  BY <1>3, FailCallKeeps
<1>4. CASE HandleCreateMap \/ HandleSave \/ \E m \in shown.maps : HandleDeleteMap(m)
  BY <1>4, HandleCreateMapKeeps, HandleSaveKeeps, HandleDeleteMapKeeps
<1>5. CASE \/ OpenGuide \/ LeaveGuide \/ LeaveEditor
           \/ \E m \in shown.maps : EditMap(m)
           \/ FileParsed
  BY <1>5, PagesKeep
<1>6. CASE \/ \E i, l : SetLabel(i, l)
           \/ \E m : MapUsed(m) \/ OthersDeleteMap(m) \/ HandleImport(m)
           \/ FileRefused
  BY <1>6, OthersKeep DEF SetLabel, MapUsed, OthersDeleteMap, HandleImport, FileRefused, Presses
<1>7. CASE EditorNext /\ UNCHANGED pages
  BY <1>7, EditorKeepsMaps, OthersKeep DEF pages
<1>8. CASE UNCHANGED vars
  BY <1>8, OthersKeep DEF vars
<1> QED
  BY <1>1, <1>2, <1>3, <1>4, <1>5, <1>6, <1>7, <1>8 DEF Next, PagesNext, FilesNext

-----------------------------------------------------------------------------
(* The pages around the editor                                             *)

\* A call that leads to an editor, or to a round, has its map.
Leads(c) ==
  \/ c.op = "importRound"
  \/ c.at = "back" /\ c.op = "createMap"
  \/ c.at = "back" /\ c.op = "importMap" /\ c.ok
Mapped(c) == Leads(c) => c.map \in Maps
MappedOK == \A c \in calls : Mapped(c)

\* Calls that go on without their page, and new ones, which have no map to show yet.
LEMMA MappedLeaves ==
  ASSUME NEW cs, cs \subseteq Call, \A c \in cs : Mapped(c),
         calls' \in {Abandoned(cs), Abandoned(cs) \cup {Ring("list", 0)}}
  PROVE  MappedOK'
<1>1. Mapped(Ring("list", 0))
  BY DEF Mapped, Leads, Ring
<1>2. \A x \in Abandoned(cs) : Mapped(x)
  BY AbandonedShape DEF Mapped, Leads
<1> QED
  BY <1>1, <1>2 DEF MappedOK, Mapped, Leads

LEMMA MappedDenied ==
  ASSUME MappedOK, NEW c \in calls, c \in Call, Deny(c)
  PROVE  MappedOK'
BY DenyShape DEF MappedOK, Mapped, Leads

LEMMA MappedServed ==
  ASSUME CatalogInv, MappedOK, NEW c \in calls, ServeCall(c)
  PROVE  MappedOK'
<1>1. c \in Call /\ calls \subseteq Call /\ minted \in 1 .. MaxMaps /\ minted \in Nat
  BY BoundAssumption DEF CatalogInv, KnownOK
<1>2. CASE ServeList(c)
  <2> DEFINE a == [c EXCEPT !.seen = maps]
  <2>1. maps \in SUBSET Maps
    BY <1>1, BoundAssumption DEF CatalogInv, KnownOK, Maps
  <2>2. a \in Call /\ a.op = "list"
    BY <1>1, <1>2, <2>1 DEF ServeList, Call
  <2>3. Reply(c, a)
    BY <1>2 DEF ServeList
  <2> HIDE DEF a
  <2>4. PICK b \in Call : calls' = (calls \ {c}) \cup {b} /\ b.op = "list"
    BY <1>1, <2>2, <2>3, ReplyShape
  <2> QED
    BY <2>4 DEF MappedOK, Mapped, Leads
<1>3. CASE ServeCreateMap(c)
  <2>1. minted' \in Maps
    BY <1>1, <1>3, BoundAssumption DEF ServeCreateMap, Maps
  <2> DEFINE m == minted'
             a == [c EXCEPT !.map = m]
  <2>2. m \in Maps /\ m \in 0 .. MaxMaps
    BY <2>1, BoundAssumption DEF Maps
  <2>3. Reply(c, a)
    BY <1>3 DEF ServeCreateMap
  <2> HIDE DEF m
  <2>4. a \in Call /\ a.op = c.op /\ a.map = m
    BY <1>1, <2>2 DEF Call
  <2> HIDE DEF a
  <2>5. PICK b \in Call : calls' = (calls \ {c}) \cup {b} /\ b.op = c.op /\ b.map = m
    BY <1>1, <2>3, <2>4, ReplyShape
  <2> QED
    BY <2>2, <2>5 DEF MappedOK, Mapped, Leads
<1>4. CASE ServeDeleteMap(c)
  <2>1. c.op = "deleteMap" /\ (Reply(c, c) \/ calls' = calls \ {c} \/ Deny(c))
    BY <1>4 DEF ServeDeleteMap
  <2> QED
    BY <1>1, <2>1, ReplyShape, MappedDenied DEF MappedOK, Mapped, Leads
<1>5. CASE ServeImportRound(c)
  <2>1. c.op = "importRound" /\ (Reply(c, c) \/ Deny(c))
    BY <1>5 DEF ServeImportRound
  <2> QED
    BY <1>1, <2>1, ReplyShape, MappedDenied DEF MappedOK, Mapped, Leads
<1> QED
  BY <1>2, <1>3, <1>4, <1>5 DEF ServeCall

LEMMA MappedApplied ==
  ASSUME CatalogInv, MappedOK, NEW c \in calls, ApplyCall(c)
  PROVE  MappedOK'
<1>1. c \in Call /\ calls \ {c} \subseteq Call /\ c.at = "back" /\ \A d \in calls \ {c} : Mapped(d)
  BY DEF CatalogInv, KnownOK, ApplyCall, MappedOK
<1>2. CASE ApplyList(c) \/ ApplyDeleteMap(c) \/ ApplyImportFailure(c)
  BY <1>1, <1>2 DEF ApplyList, ApplyDeleteMap, ApplyImportFailure, RestOf, MappedOK, Mapped, Leads
<1>3. CASE ApplyCreateMap(c) \/ ApplyImportRound(c)
  BY <1>1, <1>3, MappedLeaves DEF ApplyCreateMap, ApplyImportRound, ToEditor, RestOf
<1>4. CASE ApplyImportMap(c)
  <2> DEFINE a == [c EXCEPT !.op = "importRound"]
             b == [a EXCEPT !.at = "sent"]
  <2>1. c.op = "importMap" /\ c.ok /\ calls' = (calls \ {c}) \cup {b}
    BY <1>1, <1>4 DEF ApplyImportMap, RestOf, Call
  <2>2. b.map = c.map
    BY <1>1 DEF Call
  <2>3. c.map \in Maps
    BY <1>1, <2>1 DEF MappedOK, Mapped, Leads
  <2> HIDE DEF b
  <2> QED
    BY <2>1, <2>2, <2>3 DEF MappedOK, Mapped, Leads
<1> QED
  BY <1>2, <1>3, <1>4 DEF ApplyCall

LEMMA MappedStep ==
  ASSUME CatalogInv, MappedOK, [Next]_vars
  PROVE  MappedOK'
<1>1. calls \subseteq Call /\ shown.maps \subseteq Maps /\ \A c \in calls : Mapped(c)
  BY DEF CatalogInv, KnownOK, MappedOK
<1>2. ASSUME NEW c \in calls, ServeCall(c) PROVE MappedOK'
  BY <1>2, MappedServed
<1>3. ASSUME NEW c \in calls, ApplyCall(c) PROVE MappedOK'
  BY <1>3, MappedApplied
<1>4. ASSUME NEW c \in calls, FailCall(c) PROVE MappedOK'
  BY <1>1, <1>4, MappedDenied DEF FailCall
<1>5. CASE HandleCreateMap
  <2> DEFINE r == Ring("createMap", 0)
             a == [r EXCEPT !.seen = shown.maps]
  <2>1. calls' = calls \cup {a}
    BY <1>5 DEF HandleCreateMap
  <2>2. a.op = "createMap" /\ a.at = "sent"
    BY DEF Ring
  <2> HIDE DEF a
  <2> QED
    BY <2>1, <2>2 DEF MappedOK, Mapped, Leads
<1>6. ASSUME NEW m \in shown.maps, HandleDeleteMap(m) PROVE MappedOK'
  <2> DEFINE r == Ring("deleteMap", m)
             a == [r EXCEPT !.seen = shown.maps]
  <2>1. calls' = calls \cup {a}
    BY <1>6 DEF HandleDeleteMap
  <2>2. a.op = "deleteMap"
    BY DEF Ring
  <2> HIDE DEF a
  <2> QED
    BY <2>1, <2>2 DEF MappedOK, Mapped, Leads
<1>7. CASE HandleSave
  <2>1. PICK placed : calls' = calls \cup {[Ring("importMap", 0) EXCEPT !.placed = placed]}
    BY <1>7 DEF HandleSave
  <2> DEFINE a == [Ring("importMap", 0) EXCEPT !.placed = placed]
  <2>2. a.op = "importMap" /\ a.at = "sent"
    BY DEF Ring
  <2> HIDE DEF a
  <2>3. calls' = calls \cup {a}
    BY <2>1 DEF a
  <2> QED
    BY <2>2, <2>3 DEF MappedOK, Mapped, Leads
<1>8. ASSUME OpenGuide \/ LeaveGuide \/ LeaveEditor PROVE MappedOK'
  BY <1>1, <1>8, MappedLeaves DEF OpenGuide, LeaveGuide, LeaveEditor, ToGuide
<1>9. ASSUME NEW m, EditMap(m) \/ FileParsed PROVE MappedOK'
  BY <1>1, <1>9, MappedLeaves DEF EditMap, ToEditor, FileParsed, ToImporter
<1>10. ASSUME calls' = calls PROVE MappedOK'
  BY <1>10 DEF MappedOK, Mapped, Leads
<1>11. ASSUME NEW i, NEW l, SetLabel(i, l) PROVE calls' = calls
  BY <1>11 DEF SetLabel
<1>12. ASSUME NEW m, MapUsed(m) \/ OthersDeleteMap(m) \/ HandleImport(m) \/ FileRefused
       PROVE  calls' = calls
  BY <1>12 DEF MapUsed, OthersDeleteMap, HandleImport, FileRefused
<1>13. ASSUME (EditorNext /\ UNCHANGED pages) \/ UNCHANGED vars PROVE calls' = calls
  BY <1>13 DEF pages, vars
<1> QED
  BY <1>2, <1>3, <1>4, <1>5, <1>6, <1>7, <1>8, <1>9, <1>10, <1>11, <1>12, <1>13
     DEF Next, PagesNext, FilesNext

\* To the editor of a map, from any page.
LEMMA ToEditorKeeps ==
  ASSUME EditorInv, NEW m \in Maps, NEW cs, ToEditor(m, cs), UNCHANGED shelf
  PROVE  EditorInv'
<1>1. CASE page = "editor" /\ m # open
  BY <1>1, SwitchMapKeeps DEF ToEditor
<1>2. CASE page = "editor" /\ m = open
  BY <1>2, EditorRests DEF ToEditor, shelf, history
<1>3. CASE page # "editor"
  <2>1. m \in 0 .. MaxMaps
    BY BoundAssumption DEF Maps
  <2>2. Mount(m)
    BY <1>3 DEF ToEditor
  <2> QED
    BY <2>1, <2>2, FreshKeeps DEF Mount
<1> QED
  BY <1>1, <1>2, <1>3

\* What the other pages have done on the server.
LEMMA ServeCallLeavesEditor ==
  ASSUME CatalogInv, MappedOK, EditorInv, NEW c \in calls, ServeCall(c)
  PROVE  EditorInv'
<1>1. /\ UNCHANGED <<open, list, ui, draw, net, refreshed, made>>
      /\ ServeList(c) \/ ServeCreateMap(c) \/ ServeDeleteMap(c) \/ ServeImportRound(c)
  BY DEF ServeCall, editor
<1>2. /\ maps \subseteq Maps /\ rows \subseteq Row /\ born \in 0 .. MaxRounds /\ born \in Nat
      /\ stale \in BOOLEAN /\ minted \in 1 .. MaxMaps /\ minted \in Nat
  BY BoundAssumption DEF EditorInv, ShapeOK, CatalogInv, KnownOK
<1>3. \A r \in rows : r \in rows \/ r.id = born + 1
  OBVIOUS
<1>4. CASE ServeList(c)
  BY <1>1, <1>4, EditorRests DEF ServeList, shelf, editor, history
<1>5. CASE ServeCreateMap(c)
  <2>1. UNCHANGED <<rows, born, stale>>
    BY <1>5 DEF ServeCreateMap
  <2>2. maps' \subseteq Maps
    BY <1>2, <1>5, BoundAssumption DEF ServeCreateMap, Maps
  <2>3. RowsOK' /\ RoundsOf(open)' = RoundsOf(open)
    BY <1>1, <2>1 DEF EditorInv, RowsOK, RoundsOf
  <2> QED
    BY <1>1, <1>2, <1>3, <2>1, <2>2, <2>3, ElsewhereKeeps
<1>6. CASE ServeDeleteMap(c)
  <2>1. /\ maps' \subseteq maps /\ rows' \in {rows, rows \ RoundsOf(c.map)} /\ born' = born
        /\ stale' = (stale \/ open = c.map)
    BY <1>6 DEF ServeDeleteMap
  <2>2. RowsOK'
    BY <2>1, RowsRemoved DEF EditorInv
  <2>3. stale' \in BOOLEAN /\ (~stale' => ~stale /\ open # c.map)
    BY <1>2, <2>1
  <2>4. ~stale' => RoundsOf(open)' = RoundsOf(open)
    BY <1>1, <2>1, <2>3 DEF RoundsOf
  <2>5. maps' \subseteq Maps /\ rows' \subseteq Row /\ born' \in 0 .. MaxRounds /\ born <= born'
    BY <1>2, <2>1
  <2>6. \A r \in rows' : r \in rows \/ r.id = born + 1
    BY <2>1
  <2> QED
    BY <1>1, <2>2, <2>3, <2>4, <2>5, <2>6, ElsewhereKeeps
<1>7. CASE ServeImportRound(c)
  <2>1. c.op = "importRound" /\ maps' = maps
    BY <1>7 DEF ServeImportRound
  <2>2. c.map \in Maps
    BY <2>1 DEF MappedOK, Mapped, Leads
  <2>3. CASE c.map \in maps /\ c.placed /\ RoundsOf(c.map) = {}
    <3>1. /\ born < MaxRounds /\ born' = born + 1
          /\ rows' = rows \cup {[id |-> born', map |-> c.map, number |-> 1]}
          /\ stale' = (stale \/ open = c.map)
      BY <1>7, <2>3 DEF ServeImportRound
    <3>2. 1 \in Ids
      BY <1>2, <3>1, BoundAssumption DEF Ids
    <3>3. /\ born' \in 1 .. MaxRounds /\ born <= born' /\ rows' \subseteq Row /\ RowsOK'
          /\ \A r \in rows' : r \in rows \/ r.id = born + 1
      BY <2>2, <2>3, <3>1, <3>2, RowAdded DEF EditorInv
    <3>4. stale' \in BOOLEAN /\ (~stale' => ~stale /\ open # c.map)
      BY <1>2, <3>1
    <3>5. ~stale' => RoundsOf(open)' = RoundsOf(open)
      BY <1>1, <3>1, <3>4 DEF RoundsOf
    <3>6. maps' \subseteq Maps /\ born' \in 0 .. MaxRounds
      BY <1>2, <2>1, <3>3
    <3> QED
      BY <1>1, <3>3, <3>4, <3>5, <3>6, ElsewhereKeeps
  <2>4. CASE ~(c.map \in maps /\ c.placed /\ RoundsOf(c.map) = {})
    <3>1. UNCHANGED <<rows, born, stale>>
      BY <1>7, <2>4 DEF ServeImportRound
    <3> QED
      BY <1>1, <2>1, <3>1, EditorRests DEF editor, history
  <2> QED
    BY <2>3, <2>4
<1> QED
  BY <1>1, <1>4, <1>5, <1>6, <1>7

LEMMA OthersDeleteMapKeeps ==
  ASSUME EditorInv, NEW m, OthersDeleteMap(m)
  PROVE  EditorInv'
<1>1. /\ maps' \subseteq maps /\ rows' \subseteq rows /\ born' = born /\ stale' = TRUE
      /\ UNCHANGED <<open, list, ui, draw, net, refreshed, made>>
  BY DEF OthersDeleteMap, editor
<1>2. RowsOK'
  BY <1>1, RowsRemoved DEF EditorInv
<1>3. born <= born' /\ born' \in 0 .. MaxRounds
  BY <1>1, BoundAssumption DEF EditorInv, ShapeOK
<1>4. stale' /\ stale' \in BOOLEAN /\ maps' \subseteq Maps /\ rows' \subseteq Row
  BY <1>1 DEF EditorInv, ShapeOK
<1>5. \A r \in rows' : r \in rows \/ r.id = born + 1
  BY <1>1
<1> QED
  BY <1>1, <1>2, <1>3, <1>4, <1>5, ElsewhereKeeps

\* No page, and nothing that is under way for one, disturbs the editor's invariant.
LEMMA PagesLeaveEditor ==
  ASSUME CatalogInv, MappedOK, EditorInv, PagesNext \/ FilesNext
  PROVE  EditorInv'
<1> DEFINE Rests == UNCHANGED <<maps, rows, born, editor, stale, history>>
<1>1. Rests => EditorInv'
  BY EditorRests
<1>2. ASSUME OpenGuide \/ LeaveGuide PROVE Rests
  BY <1>2 DEF OpenGuide, LeaveGuide, Stays, shelf, history
<1>3. ASSUME HandleCreateMap \/ HandleSave PROVE Rests
  BY <1>3 DEF HandleCreateMap, HandleSave, Presses, shelf, history
<1>4. ASSUME NEW m, HandleDeleteMap(m) \/ HandleImport(m) \/ FileRefused PROVE Rests
  BY <1>4 DEF HandleDeleteMap, HandleImport, FileRefused, Presses, shelf, history
<1>5. ASSUME NEW i, NEW l, SetLabel(i, l) PROVE Rests
  BY <1>5 DEF SetLabel, shelf, history
<1>6. ASSUME NEW m, FailCall(m) \/ MapUsed(m) PROVE Rests
  BY <1>6 DEF FailCall, MapUsed, shelf, history
<1>7. ASSUME Unmount, UNCHANGED shelf PROVE EditorInv'
  <2>1. /\ UNCHANGED shelf /\ open' = 0 /\ list' = NoList /\ ui' = FreshUi /\ draw' = NoDraw
        /\ stale' = FALSE /\ NewDrawing /\ net' = Left(net)
    BY <1>7 DEF Unmount
  <2>2. open' \in 0 .. MaxMaps
    BY <2>1, BoundAssumption
  <2> QED
    BY <2>1, <2>2, FreshKeeps
<1>12. CASE LeaveEditor
  BY <1>7, <1>12 DEF LeaveEditor
<1>13. CASE FileParsed
  <2>1. UNCHANGED shelf /\ (Unmount \/ Stays)
    BY <1>13 DEF FileParsed, ToImporter
  <2>2. CASE Stays
    BY <1>1, <2>1, <2>2 DEF Stays, shelf, history
  <2> QED
    BY <1>7, <2>1, <2>2
<1>8. ASSUME NEW m \in shown.maps, EditMap(m) PROVE EditorInv'
  <2>1. m \in Maps /\ ToEditor(m, calls) /\ UNCHANGED shelf
    BY <1>8 DEF CatalogInv, KnownOK, EditMap
  <2> QED
    BY <2>1, ToEditorKeeps
<1>9. ASSUME NEW c \in calls, ServeCall(c) PROVE EditorInv'
  BY <1>9, ServeCallLeavesEditor
<1>10. ASSUME NEW c \in calls, ApplyCall(c) PROVE EditorInv'
  <2>1. c.at = "back" /\ UNCHANGED shelf
    BY <1>10 DEF ApplyCall
  <2>2. CASE ApplyCreateMap(c) \/ ApplyImportRound(c)
    <3>1. c \in Call /\ ToEditor(c.map, RestOf(c))
      BY <2>2 DEF ApplyCreateMap, ApplyImportRound, CatalogInv, KnownOK
    <3>2. c.map \in Maps
      BY <2>1, <2>2 DEF ApplyCreateMap, ApplyImportRound, MappedOK, Mapped, Leads
    <3> QED
      BY <2>1, <3>1, <3>2, ToEditorKeeps
  <2>3. CASE ApplyList(c) \/ ApplyDeleteMap(c) \/ ApplyImportMap(c) \/ ApplyImportFailure(c)
    <3>1. Rests
      BY <2>1, <2>3 DEF ApplyList, ApplyDeleteMap, ApplyImportMap, ApplyImportFailure, Remains,
                       shelf, history
    <3> QED
      BY <1>1, <3>1
  <2> QED
    BY <1>10, <2>2, <2>3 DEF ApplyCall
<1>11. ASSUME NEW m, OthersDeleteMap(m) PROVE EditorInv'
  BY <1>11, OthersDeleteMapKeeps
<1> HIDE DEF Rests
<1> QED
  BY <1>1, <1>2, <1>3, <1>4, <1>5, <1>6, <1>8, <1>9, <1>10, <1>11, <1>12, <1>13
     DEF PagesNext, FilesNext

\* Requests belong to the page that is shown or go on without it, and each map that is
\* owed a round has a request that is to bring it.
THEOREM CatalogInvariant == Spec => []CatalogInv
<1>1. Init => CatalogInv
  BY CatalogInit
<1>2. CatalogInv /\ [Next]_vars => CatalogInv'
  BY CatalogStep
<1> QED
  BY <1>1, <1>2, PTL DEF Spec

\* The editor's drawing, list and requests keep their invariant with the pages around it.
THEOREM GuideInvariant == Spec => [](CatalogInv /\ MappedOK /\ EditorInv)
<1>1. Init => CatalogInv /\ MappedOK /\ EditorInv
  BY CatalogInit, EditorInitHolds DEF Init, MappedOK
<1>2. CatalogInv /\ MappedOK /\ EditorInv /\ [Next]_vars => (CatalogInv /\ MappedOK /\ EditorInv)'
  <2> SUFFICES ASSUME CatalogInv, MappedOK, EditorInv, [Next]_vars
               PROVE  CatalogInv' /\ MappedOK' /\ EditorInv'
    OBVIOUS
  <2>1. CatalogInv' /\ MappedOK'
    BY CatalogStep, MappedStep
  <2>2. CASE PagesNext \/ FilesNext
    BY <2>1, <2>2, PagesLeaveEditor
  <2>3. CASE EditorNext
    BY <2>1, <2>3, EditorStep
  <2>4. CASE UNCHANGED vars
    BY <2>1, <2>4, EditorRests DEF vars, editor, history
  <2> QED
    BY <2>2, <2>3, <2>4 DEF Next
<1> QED
  BY <1>1, <1>2, PTL DEF Spec

\* The dashboard shows the maps there are once nothing of its own is on its way, though
\* a delete is taken off the list as it was when pressed and other pages' requests go on.
THEOREM GuideDashboardShows == Spec => []DashboardShows
<1>1. CatalogInv => DashboardShows
  BY DEF CatalogInv, DashboardOK, DashboardShows, Current, Deletes, Created
<1> QED
  BY <1>1, CatalogInvariant, PTL

\* An imported map gets its round whatever page the guide goes to, unless a request is
\* lost or the round has no start or end.
THEOREM GuideImportWhole == Spec => []ImportWhole
<1>1. CatalogInv => ImportWhole
  BY DEF CatalogInv, OwedOK, Brings, ImportWhole
<1> QED
  BY <1>1, CatalogInvariant, PTL

\* Whatever is on the map is part of the round being edited, through redo, cancel, late
\* saves and zones begun in any step.
THEOREM EditorTracksAll == Spec => []NothingUntracked
<1>1. EditorInv => NothingUntracked
  BY DEF EditorInv, SketchOK, NothingUntracked
<1> QED
  BY <1>1, GuideInvariant, PTL

\* With nothing under way the editor's list is the rounds there are, unless another tab
\* changed them, a request failed or reloads overtook each other.
THEOREM EditorListShown == Spec => []ListShown
<1>1. ASSUME EditorInv PROVE ListShown
  <2> SUFFICES ASSUME open # 0, list.map # 0, ~stale, Live(net) = {} PROVE ListRight
    BY DEF ListShown, ListRight
  <2>1. \A q \in net : q.op # "get" /\ q.at # "back"
    BY <1>1 DEF EditorInv, NetOK, Live
  <2> QED
    BY <1>1, <2>1 DEF EditorInv, ListOK, Awaits, Right
<1> QED
  BY <1>1, GuideInvariant, PTL

\* However often a save is tried again, its drawing is stored as one round, unless the
\* list changes under it.
THEOREM EditorStoresOnce == Spec => []StoredOnce
<1>1. ASSUME EditorInv PROVE StoredOnce
  <2> DEFINE S == {r \in rows : r.id \in made}
  <2>1. CASE refreshed
    BY <2>1 DEF StoredOnce
  <2>2. CASE ~refreshed
    <3>1. \A r, s \in S : r = s
      BY <1>1, <2>2 DEF EditorInv, ThisOK, StoredThis, RowsOK
    <3>2. S = {} \/ \E r : S = {r}
      BY <3>1
    <3>3. Cardinality(S) = 0 \/ Cardinality(S) = 1
      BY <3>2, FS_EmptySet, FS_Singleton
    <3>4. Cardinality(S) <= 1
      BY <3>3
    <3> QED
      BY <3>4 DEF StoredOnce
  <2> QED
    BY <2>1, <2>2
<1> QED
  BY <1>1, GuideInvariant, PTL

\* A save that is reported done has stored the drawing it was pressed for.
THEOREM EditorSavesStored == Spec => SavedIsStored
<1>1. EditorInv /\ [Next]_vars =>
        [\A q \in net \ net' :
           (q.op = "get" /\ q.save /\ q.at = "back" /\ ui.saving /\ ~ui'.saving
              /\ q.this /\ ~refreshed) => made # {}]_editorVars
  BY DEF EditorInv, ThisOK, SavesThis
<1> QED
  BY <1>1, GuideInvariant, PTL DEF Spec, SavedIsStored


-----------------------------------------------------------------------------
(* The importer's form, and what is well formed                            *)

Imports(c) == c.live /\ c.op \in OfImport

\* Every feature of the form has its label, and the form is saving while its one import
\* is under way.
FormOK ==
  /\ form = [kinds |-> form.kinds, labels |-> form.labels, saving |-> form.saving]
  /\ form.kinds \in [DOMAIN form.kinds -> Kinds]
  /\ form.labels \in [DOMAIN form.kinds -> Labels \cup {"none"}]
  /\ form.saving \in BOOLEAN
  /\ form.saving <=> \E c \in calls : Imports(c)
  /\ \A c, d \in calls : Imports(c) /\ Imports(d) => c = d

PlacesOK ==
  /\ events \in 0 .. limit.events /\ used \subseteq Maps
  /\ page = "editor" <=> open # 0

\* What has no page any more imports nothing.
LEMMA NoneImports ==
  ASSUME NEW cs, cs \subseteq Call,
         calls' \in {Abandoned(cs), Abandoned(cs) \cup {Ring("list", 0)}}
  PROVE  \A c \in calls' : ~Imports(c)
<1>1. \A c \in Abandoned(cs) : ~c.live
  BY AbandonedShape
<1>2. Ring("list", 0).op = "list"
  BY DEF Ring
<1> QED
  BY <1>1, <1>2 DEF Imports, OfImport

LEMMA NoFormShape ==
  /\ NoForm.kinds \in [DOMAIN NoForm.kinds -> Kinds]
  /\ NoForm.labels \in [DOMAIN NoForm.kinds -> Labels \cup {"none"}]
  /\ NoForm.saving = FALSE
  /\ NoForm = [kinds |-> NoForm.kinds, labels |-> NoForm.labels, saving |-> NoForm.saving]
<1>1. NoForm.kinds = <<>> /\ NoForm.labels = <<>> /\ NoForm.saving = FALSE
  BY DEF NoForm
<1>2. <<>> \in [DOMAIN <<>> -> Kinds] /\ <<>> \in [DOMAIN <<>> -> Labels \cup {"none"}]
  OBVIOUS
<1> QED
  BY <1>1, <1>2 DEF NoForm

\* No page, or a fresh one, imports nothing.
LEMMA FreshForm ==
  ASSUME CatalogInv, form' = NoForm,
         NEW cs, cs \subseteq calls,
         calls' \in {Abandoned(cs), Abandoned(cs) \cup {Ring("list", 0)}}
  PROVE  FormOK'
<1>1. \A c \in calls' : ~Imports(c)
  BY NoneImports DEF CatalogInv, KnownOK
<1> QED
  BY <1>1, NoFormShape DEF FormOK

\* The form stays, and so does what imports.
LEMMA FormKept ==
  ASSUME FormOK, form' = form, NEW c, NEW b,
         \/ calls' = calls
         \/ calls' = calls \ {c} /\ ~Imports(c)
         \/ calls' = calls \cup {b} /\ ~Imports(b)
         \/ /\ c \in calls /\ calls' = (calls \ {c}) \cup {b}
            /\ b.live = c.live /\ (b.op = c.op \/ {b.op, c.op} = OfImport)
  PROVE  FormOK'
<1>1. (\E d \in calls : Imports(d)) <=> (\E d \in calls' : Imports(d))
  BY DEF Imports, OfImport
<1>2. \A d, e \in calls' : Imports(d) /\ Imports(e) => d = e
  BY DEF FormOK, Imports, OfImport
<1> QED
  BY <1>1, <1>2 DEF FormOK

\* A file's features come without labels.
LEMMA FileParsedForm == ASSUME CatalogInv, FileParsed PROVE FormOK'
<1> DEFINE ks == [i \in Usable |-> reading[i]]
           ls == [i \in Usable |-> "none"]
<1>1. form' = [kinds |-> ks, labels |-> ls, saving |-> FALSE] /\ calls' = Abandoned(calls)
  BY DEF FileParsed, ToImporter
<1>2. DOMAIN ks = Usable /\ ks \in [Usable -> Kinds] /\ ls \in [Usable -> Labels \cup {"none"}]
  BY DEF Usable
<1> HIDE DEF ks, ls
<1>3. \A c \in calls' : ~Imports(c)
  BY <1>1, NoneImports DEF CatalogInv, KnownOK
<1> QED
  BY <1>1, <1>2, <1>3 DEF FormOK

LEMMA SetLabelForm ==
  ASSUME FormOK, NEW i \in DOMAIN form.kinds, NEW l \in Labels, SetLabel(i, l)
  PROVE  FormOK'
<1> DEFINE new == IF form.labels[i] = l THEN "none" ELSE l
           ls == [form.labels EXCEPT ![i] = new]
<1>1. ls \in [DOMAIN form.kinds -> Labels \cup {"none"}]
  BY DEF FormOK
<1>2. form' = [kinds |-> form.kinds, labels |-> ls, saving |-> form.saving] /\ calls' = calls
  BY DEF SetLabel, FormOK
<1> HIDE DEF ls
<1> QED
  BY <1>1, <1>2 DEF FormOK

\* Save is pressed while nothing is imported.
LEMMA HandleSaveForm == ASSUME CatalogInv, FormOK, HandleSave PROVE FormOK'
<1>1. PICK placed : calls' = calls \cup {[Ring("importMap", 0) EXCEPT !.placed = placed]}
  BY DEF HandleSave
<1> DEFINE n == [Ring("importMap", 0) EXCEPT !.placed = placed]
<1>2. Imports(n)
  BY DEF Imports, Ring, OfImport
<1> HIDE DEF n
<1>3. calls' = calls \cup {n}
  BY <1>1 DEF n
<1>4. \A c \in calls : ~Imports(c)
  BY DEF HandleSave, FormOK
<1>5. form' = [kinds |-> form.kinds, labels |-> form.labels, saving |-> TRUE]
  BY DEF HandleSave, FormOK
<1> QED
  BY <1>2, <1>3, <1>4, <1>5 DEF FormOK

\* The one import fails, or one whose importer is gone.
LEMMA ApplyImportFailureForm ==
  ASSUME CatalogInv, FormOK, NEW c \in calls, ApplyImportFailure(c)
  PROVE  FormOK'
<1>1. calls' = calls \ {c} /\ c.op \in OfImport
  BY DEF ApplyImportFailure, RestOf, OfImport
<1>2. CASE c.live
  <2>1. form' = [kinds |-> form.kinds, labels |-> form.labels, saving |-> FALSE]
    BY <1>2 DEF ApplyImportFailure, FormOK
  <2>2. \A d \in calls' : ~Imports(d)
    BY <1>1, <1>2 DEF FormOK, Imports
  <2> QED
    BY <2>1, <2>2 DEF FormOK
<1>3. CASE ~c.live
  <2>1. form' = form /\ ~Imports(c)
    BY <1>3 DEF ApplyImportFailure, Imports
  <2> QED
    BY <1>1, <2>1, FormKept
<1> QED
  BY <1>2, <1>3

\* The server answers, or a request is lost.
LEMMA ServedForm ==
  ASSUME CatalogInv, FormOK, NEW c \in calls, ServeCall(c) \/ FailCall(c)
  PROVE  FormOK'
<1>1. form' = form /\ c \in Call
  BY DEF ServeCall, FailCall, CatalogInv, KnownOK
<1>2. ASSUME NEW a \in Call, Reply(c, a), a.op = c.op, a.live = c.live
      PROVE  FormOK'
  <2>1. PICK b \in Call : calls' = (calls \ {c}) \cup {b} /\ b.op = a.op /\ b.live = a.live
    BY <1>1, <1>2, ReplyShape
  <2> QED
    BY <1>1, <1>2, <2>1, FormKept
<1>3. ASSUME Deny(c)
      PROVE  FormOK'
  <2>1. CASE calls' = calls \ {c} /\ ~(c.live /\ c.op \in {"list", "importMap", "importRound"})
    BY <1>1, <2>1, FormKept DEF Imports, OfImport
  <2>2. CASE \E b \in Call : calls' = (calls \ {c}) \cup {b} /\ b.op = c.op /\ b.live = c.live
    BY <1>1, <2>2, FormKept
  <2> QED
    BY <1>1, <1>3, <2>1, <2>2, DenyShape
<1>4. CASE ServeList(c)
  <2> DEFINE a == [c EXCEPT !.seen = maps]
  <2>1. maps \in SUBSET Maps
    BY BoundAssumption DEF CatalogInv, KnownOK, Maps
  <2>2. a \in Call /\ a.op = c.op /\ a.live = c.live
    BY <1>1, <2>1 DEF Call
  <2>3. Reply(c, a)
    BY <1>4 DEF ServeList
  <2> QED
    BY <1>2, <2>2, <2>3
<1>5. CASE ServeCreateMap(c)
  <2> DEFINE a == [c EXCEPT !.map = minted']
  <2>1. minted' \in 0 .. MaxMaps
    BY <1>5, BoundAssumption DEF ServeCreateMap, CatalogInv, KnownOK
  <2>2. a \in Call /\ a.op = c.op /\ a.live = c.live
    BY <1>1, <2>1 DEF Call
  <2>3. Reply(c, a)
    BY <1>5 DEF ServeCreateMap
  <2> QED
    BY <1>2, <2>2, <2>3
<1>6. CASE ServeDeleteMap(c)
  <2>1. c.op = "deleteMap"
    BY <1>6 DEF ServeDeleteMap
  <2>2. Reply(c, c) \/ calls' = calls \ {c} \/ Deny(c)
    BY <1>6 DEF ServeDeleteMap
  <2> QED
    BY <1>1, <1>2, <1>3, <2>1, <2>2, FormKept DEF Imports, OfImport
<1>7. CASE ServeImportRound(c)
  <2>1. Reply(c, c) \/ Deny(c)
    BY <1>7 DEF ServeImportRound
  <2> QED
    BY <1>1, <1>2, <1>3, <2>1
<1>8. CASE FailCall(c)
  BY <1>3, <1>8 DEF FailCall
<1> QED
  BY <1>4, <1>5, <1>6, <1>7, <1>8 DEF ServeCall

\* The answers.
LEMMA AppliedForm ==
  ASSUME CatalogInv, FormOK, NEW c \in calls, ApplyCall(c)
  PROVE  FormOK'
<1>1. c \in Call /\ c.at = "back"
  BY DEF ApplyCall, CatalogInv, KnownOK
<1>2. CASE ApplyList(c) \/ ApplyDeleteMap(c)
  <2>1. form' = form /\ calls' = calls \ {c} /\ ~Imports(c)
    BY <1>2 DEF ApplyList, ApplyDeleteMap, RestOf, Imports, OfImport
  <2> QED
    BY <2>1, FormKept
<1>3. CASE ApplyCreateMap(c) \/ ApplyImportRound(c)
  <2>1. form' = NoForm /\ calls' = Abandoned(calls \ {c})
    BY <1>3 DEF ApplyCreateMap, ApplyImportRound, ToEditor, RestOf
  <2> QED
    BY <2>1, FreshForm
<1>4. CASE ApplyImportMap(c)
  <2> DEFINE a == [c EXCEPT !.op = "importRound"]
             b == [a EXCEPT !.at = "sent"]
  <2>1. c.op = "importMap" /\ form' = form /\ calls' = (calls \ {c}) \cup {b}
    BY <1>1, <1>4 DEF ApplyImportMap, RestOf, Call
  <2>2. b.live = c.live /\ b.op = "importRound"
    BY <1>1 DEF Call
  <2> HIDE DEF b
  <2>3. {b.op, c.op} = OfImport
    BY <2>1, <2>2 DEF OfImport
  <2> QED
    BY <2>1, <2>2, <2>3, FormKept
<1>5. CASE ApplyImportFailure(c)
  BY <1>5, ApplyImportFailureForm
<1> QED
  BY <1>2, <1>3, <1>4, <1>5 DEF ApplyCall

LEMMA FormStep ==
  ASSUME CatalogInv, FormOK, [Next]_vars
  PROVE  FormOK'
<1>1. ASSUME NEW c \in calls, ServeCall(c) \/ FailCall(c) \/ ApplyCall(c) PROVE FormOK'
  BY <1>1, ServedForm, AppliedForm
<1>2. CASE OpenGuide \/ LeaveEditor
  <2>1. form' = NoForm /\ calls' = Abandoned(calls) \cup {Ring("list", 0)}
    BY <1>2 DEF OpenGuide, LeaveEditor, ToGuide
  <2> QED
    BY <2>1, FreshForm
<1>3. CASE LeaveGuide
  <2>1. form' = form /\ calls' = Abandoned(calls) /\ page = "guide"
    BY <1>3 DEF LeaveGuide
  <2>2. \A c \in calls : ~Imports(c)
    BY <2>1 DEF CatalogInv, CallsOK, Imports, OfImport
  <2>3. \A c \in calls' : ~Imports(c)
    BY <2>1, NoneImports DEF CatalogInv, KnownOK
  <2> QED
    BY <2>1, <2>2, <2>3 DEF FormOK
<1>4. ASSUME NEW m, EditMap(m) PROVE FormOK'
  <2>1. form' = NoForm /\ calls' = Abandoned(calls)
    BY <1>4 DEF EditMap, ToEditor
  <2> QED
    BY <2>1, FreshForm
<1>5. CASE FileParsed
  BY <1>5, FileParsedForm
<1>6. CASE HandleCreateMap
  <2> DEFINE n == [Ring("createMap", 0) EXCEPT !.seen = shown.maps]
  <2>1. ~Imports(n)
    BY DEF Ring, Imports, OfImport
  <2> HIDE DEF n
  <2>2. form' = form /\ calls' = calls \cup {n}
    BY <1>6 DEF HandleCreateMap, Presses, n
  <2> QED
    BY <2>1, <2>2, FormKept
<1>7. ASSUME NEW m, HandleDeleteMap(m) PROVE FormOK'
  <2> DEFINE n == [Ring("deleteMap", m) EXCEPT !.seen = shown.maps]
  <2>1. ~Imports(n)
    BY DEF Ring, Imports, OfImport
  <2> HIDE DEF n
  <2>2. form' = form /\ calls' = calls \cup {n}
    BY <1>7 DEF HandleDeleteMap, Presses, n
  <2> QED
    BY <2>1, <2>2, FormKept
<1>8. CASE HandleSave
  BY <1>8, HandleSaveForm
<1>9. ASSUME NEW i \in DOMAIN form.kinds, NEW l \in Labels, SetLabel(i, l) PROVE FormOK'
  BY <1>9, SetLabelForm
<1>10. ASSUME form' = form, calls' = calls PROVE FormOK'
  BY <1>10, FormKept
<1>11. ASSUME NEW m, MapUsed(m) \/ OthersDeleteMap(m) \/ HandleImport(m) \/ FileRefused
       PROVE  form' = form /\ calls' = calls
  BY <1>11 DEF MapUsed, OthersDeleteMap, HandleImport, FileRefused, Presses
<1>12. ASSUME (EditorNext /\ UNCHANGED pages) \/ UNCHANGED vars
       PROVE  form' = form /\ calls' = calls
  BY <1>12 DEF pages, vars
<1> QED
  BY <1>1, <1>2, <1>3, <1>4, <1>5, <1>6, <1>7, <1>8, <1>9, <1>10, <1>11, <1>12
     DEF Next, PagesNext, FilesNext

\* The editor's own steps neither open nor close it, and count what they let go wrong.
LEMMA EditorKeepsOpen ==
  ASSUME limit \in Limits, events \in 0 .. limit.events, EditorNext
  PROVE  open' = open /\ limit' = limit /\ events' \in 0 .. limit.events
<1> USE DEF shelf, Draws, Rounds
<1>0. limit.events \in Nat
  BY BoundAssumption
<1>1. ASSUME NEW q, Serve(q)
      PROVE  open' = open /\ events' = events
  BY <1>1 DEF Serve, ServeGet, ServeCreate, ServeUpdate, ServeDelete
<1>2. ASSUME NEW q, Apply(q)
      PROVE  open' = open /\ events' = events
  BY <1>2 DEF Apply
<1>3. ASSUME NEW r, EditRound(r) \/ DeleteRound(r)
      PROVE  open' = open /\ events' = events
  BY <1>3 DEF EditRound, DeleteRound
<1>4. ASSUME NEW p, RedoStep(p) \/ DeleteZone(p) \/ DragFeature(p)
      PROVE  open' = open /\ events' = events
  BY <1>4 DEF RedoStep, DeleteZone, DragFeature
<1>5. ASSUME InitDraw \/ FinishFeature \/ StartNewRound \/ CancelEditing \/ SaveRound
      PROVE  open' = open /\ events' = events
  BY <1>5 DEF InitDraw, FinishFeature, StartNewRound, CancelEditing, SaveRound
<1>6. ASSUME NEW q, Fail(q) \/ OthersCreate(q) \/ OthersDelete(q)
      PROVE  open' = open /\ events < limit.events /\ events' = events + 1
  BY <1>6 DEF Fail, OthersCreate, OthersDelete, editor
<1>7. ASSUME DrawZone
      PROVE  open' = open /\ events < limit.events /\ events' = events + 1
  BY <1>7 DEF DrawZone
<1>8. open' = open /\ (events' = events \/ (events < limit.events /\ events' = events + 1))
  BY <1>1, <1>2, <1>3, <1>4, <1>5, <1>6, <1>7 DEF EditorNext
<1>9. events' \in 0 .. limit.events
  BY <1>0, <1>8
<1> QED
  BY <1>8, <1>9, EditorKeepsMaps

\* The editor's page is shown just as long as a map is open in it.
LEMMA PlacesStep ==
  ASSUME CatalogInv, MappedOK, PlacesOK, [Next]_vars
  PROVE  PlacesOK'
<1> USE DEF shelf, history
<1>0. /\ limit \in Limits /\ limit.events \in Nat /\ events \in 0 .. limit.events
      /\ used \subseteq Maps /\ maps \subseteq Maps /\ shown.maps \subseteq Maps
  BY BoundAssumption DEF CatalogInv, KnownOK, PlacesOK, Maps
<1> DEFINE Quiet == UNCHANGED <<limit, events, used>>
<1>1. ASSUME Quiet, page' = page, open' = open PROVE PlacesOK'
  BY <1>1 DEF PlacesOK
<1>2. ASSUME Quiet, page = "editor" <=> open # 0, page # "editor", page' # "editor", open' = open
      PROVE  PlacesOK'
  BY <1>2 DEF PlacesOK
<1>3. ASSUME NEW m \in Maps, NEW cs, ToEditor(m, cs), Quiet PROVE PlacesOK'
  <2>1. m # 0 /\ page' = "editor"
    BY <1>3 DEF ToEditor, Maps
  <2>2. open' # 0
    <3>1. CASE page = "editor" /\ m # open
      BY <1>3, <2>1, <3>1 DEF ToEditor, SwitchMap
    <3>2. CASE page = "editor" /\ m = open
      BY <1>3, <2>1, <3>2 DEF ToEditor, editor
    <3>3. CASE page # "editor"
      BY <1>3, <2>1, <3>3 DEF ToEditor, Mount
    <3> QED
      BY <3>1, <3>2, <3>3
  <2> QED
    BY <1>3, <2>1, <2>2 DEF PlacesOK
<1>4. CASE OpenGuide \/ LeaveGuide
  <2>1. Quiet /\ page # "editor" /\ page' # "editor" /\ open' = open
    BY <1>4 DEF OpenGuide, LeaveGuide, ToGuide, Stays, editor
  <2> QED
    BY <1>2, <2>1 DEF PlacesOK
<1>5. CASE FileParsed
  <2>1. Quiet /\ page' = "import" /\ open' = IF page = "editor" THEN 0 ELSE open
    BY <1>5 DEF FileParsed, ToImporter, Unmount, Stays, editor
  <2> QED
    BY <2>1 DEF PlacesOK
<1>6. CASE LeaveEditor
  <2>1. Quiet /\ page' = "guide" /\ open' = 0
    BY <1>6 DEF LeaveEditor, ToGuide, Unmount
  <2> QED
    BY <2>1 DEF PlacesOK
<1>7. ASSUME NEW m \in shown.maps, EditMap(m) PROVE PlacesOK'
  BY <1>0, <1>3, <1>7 DEF EditMap
<1>8. ASSUME NEW c \in calls, ApplyCall(c) PROVE PlacesOK'
  <2>1. c.at = "back" /\ Quiet
    BY <1>8 DEF ApplyCall
  <2>2. CASE ApplyCreateMap(c) \/ ApplyImportRound(c)
    <3>1. c.map \in Maps
      BY <2>1, <2>2 DEF ApplyCreateMap, ApplyImportRound, MappedOK, Mapped, Leads
    <3> QED
      BY <1>3, <2>1, <2>2, <3>1 DEF ApplyCreateMap, ApplyImportRound
  <2>3. CASE ApplyList(c) \/ ApplyDeleteMap(c) \/ ApplyImportMap(c) \/ ApplyImportFailure(c)
    <3>1. page' = page /\ open' = open
      BY <2>3 DEF ApplyList, ApplyDeleteMap, ApplyImportMap, ApplyImportFailure, Remains, editor
    <3> QED
      BY <1>1, <2>1, <3>1
  <2> QED
    BY <1>8, <2>2, <2>3 DEF ApplyCall
<1>9. ASSUME NEW c, ServeCall(c) PROVE PlacesOK'
  <2>1. UNCHANGED <<limit, events, used, page, open>>
    BY <1>9 DEF ServeCall, ServeList, ServeCreateMap, ServeDeleteMap, ServeImportRound, editor
  <2> QED
    BY <1>1, <2>1
<1>10. ASSUME NEW c, FailCall(c) \/ OthersDeleteMap(c) PROVE PlacesOK'
  <2>1. /\ UNCHANGED <<limit, used, page, open>>
        /\ events < limit.events /\ events' = events + 1
    BY <1>10 DEF FailCall, OthersDeleteMap, editor
  <2>2. events' \in 0 .. limit.events
    BY <1>0, <2>1
  <2> QED
    BY <2>1, <2>2 DEF PlacesOK
<1>11. ASSUME NEW m \in maps, MapUsed(m) PROVE PlacesOK'
  <2>1. /\ UNCHANGED <<limit, page, open>> /\ used' = used \cup {m}
        /\ events < limit.events /\ events' = events + 1
    BY <1>11 DEF MapUsed, editor
  <2>2. events' \in 0 .. limit.events
    BY <1>0, <2>1
  <2> QED
    BY <1>0, <2>1, <2>2 DEF PlacesOK
<1>12. ASSUME NEW x, NEW l,
              \/ HandleCreateMap \/ HandleSave \/ HandleDeleteMap(x) \/ SetLabel(x, l)
              \/ HandleImport(x) \/ FileRefused
       PROVE  PlacesOK'
  <2>1. UNCHANGED <<limit, events, used, page, open>>
    BY <1>12 DEF HandleCreateMap, HandleSave, HandleDeleteMap, SetLabel, HandleImport, FileRefused,
                 Presses, editor
  <2> QED
    BY <1>1, <2>1
<1>13. CASE EditorNext /\ UNCHANGED pages
  <2>1. open' = open /\ limit' = limit /\ events' \in 0 .. limit.events
    BY <1>0, <1>13, EditorKeepsOpen
  <2> QED
    BY <1>13, <2>1 DEF PlacesOK, pages
<1>14. CASE UNCHANGED vars
  BY <1>1, <1>14 DEF vars
<1> HIDE DEF Quiet
<1> QED
  BY <1>4, <1>5, <1>6, <1>7, <1>8, <1>9, <1>10, <1>11, <1>12, <1>13, <1>14
     DEF Next, PagesNext, FilesNext

\* A file that is read is one of those there are.
ReadingOK == reading \in limit.files \cup {<<>>}

LEMMA ReadingStep == ASSUME ReadingOK, [Next]_vars PROVE ReadingOK'
<1> USE DEF shelf
<1>1. limit' = limit
  <2>1. ASSUME NEW c, ServeCall(c) PROVE limit' = limit
    BY <2>1 DEF ServeCall, ServeList, ServeCreateMap, ServeDeleteMap, ServeImportRound
  <2>2. ASSUME NEW c, FailCall(c) \/ ApplyCall(c) \/ MapUsed(c) \/ OthersDeleteMap(c)
        PROVE  limit' = limit
    BY <2>2 DEF FailCall, ApplyCall, MapUsed, OthersDeleteMap
  <2>3. CASE OpenGuide \/ LeaveGuide \/ LeaveEditor \/ \E m : EditMap(m)
    BY <2>3 DEF OpenGuide, LeaveGuide, LeaveEditor, EditMap
  <2>4. CASE HandleCreateMap \/ HandleSave \/ \E m : HandleDeleteMap(m)
    BY <2>4 DEF HandleCreateMap, HandleSave, HandleDeleteMap, Presses
  <2>5. CASE \E i, l : SetLabel(i, l)
    BY <2>5 DEF SetLabel
  <2>6. CASE FilesNext
    BY <2>6 DEF FilesNext, HandleImport, FileParsed, FileRefused, Presses
  <2>7. CASE EditorNext \/ UNCHANGED vars
    BY <2>7, EditorKeepsMaps DEF vars
  <2> QED
    BY <2>1, <2>2, <2>3, <2>4, <2>5, <2>6, <2>7 DEF Next, PagesNext
<1>2. reading' \in limit.files \cup {<<>>}
  BY DEF ReadingOK, Next, FilesNext, HandleImport, FileParsed, FileRefused, pages, vars
<1> QED
  BY <1>1, <1>2 DEF ReadingOK

LEMMA FormInit == Init => FormOK /\ PlacesOK
<1> SUFFICES ASSUME Init PROVE FormOK /\ PlacesOK
  OBVIOUS
<1>1. /\ limit \in Limits /\ events = 0 /\ used = {} /\ page = "away" /\ open = 0
      /\ form = NoForm /\ calls = {}
  BY DEF Init, EditorInit
<1>2. 0 \in 0 .. limit.events
  BY <1>1, BoundAssumption
<1> QED
  BY <1>1, <1>2, NoFormShape DEF FormOK, PlacesOK

\* The form of the importer agrees with its requests, and the editor's page with what is
\* open in it.
THEOREM FormInvariant == Spec => [](FormOK /\ PlacesOK)
<1>1. Init => FormOK /\ PlacesOK
  BY FormInit
<1>2. (CatalogInv /\ MappedOK /\ EditorInv) /\ (FormOK /\ PlacesOK) /\ [Next]_vars
        => (FormOK /\ PlacesOK)'
  BY FormStep, PlacesStep
<1> QED
  BY <1>1, <1>2, GuideInvariant, PTL DEF Spec

\* The importer is saving just as long as its one import is under way, whichever request
\* fails, whatever answer is lost, and whatever an importer left before hears of late.
THEOREM GuideSavingIsImporting == Spec => []SavingIsImporting
<1>1. FormOK => SavingIsImporting
  BY DEF FormOK, Imports, OfImport, Current, SavingIsImporting
<1> QED
  BY <1>1, FormInvariant, PTL

\* The state of the guide's pages and of the editor is well formed.
THEOREM CatalogTypeOK == Spec => []TypeOK
<1>1. ASSUME CatalogInv, EditorInv, FormOK, PlacesOK, ReadingOK PROVE TypeOK
  <2>1. 1 .. minted \subseteq Maps /\ minted \in 0 .. MaxMaps
    BY <1>1, BoundAssumption DEF CatalogInv, KnownOK, Maps
  <2>2. made \subseteq Ids
    BY <1>1, BoundAssumption DEF EditorInv, ShapeOK, Ids
  <2>3. EditorTypeOK
    BY <1>1, <2>2
       DEF EditorInv, ShapeOK, ListRecord, UiRecord, DrawRecord, CatalogInv, KnownOK, PlacesOK,
           EditorTypeOK
  <2>4. (page = "editor") = (open # 0)
    BY <1>1 DEF PlacesOK
  <2>5. /\ form.kinds \in [DOMAIN form.kinds -> Kinds] /\ form.saving \in BOOLEAN
        /\ form.labels \in [DOMAIN form.kinds -> Labels \cup {"none"}]
    BY <1>1 DEF FormOK
  <2>6. owed \subseteq Maps
    BY <1>1, <2>1 DEF CatalogInv, KnownOK
  <2> QED
    BY <1>1, <2>1, <2>3, <2>4, <2>5, <2>6 DEF CatalogInv, KnownOK, PlacesOK, ReadingOK, TypeOK
<1>2. Init => ReadingOK
  BY DEF Init, ReadingOK
<1>3. ReadingOK /\ [Next]_vars => ReadingOK'
  BY ReadingStep
<1> QED
  BY <1>1, <1>2, <1>3, GuideInvariant, FormInvariant, PTL DEF Spec

-----------------------------------------------------------------------------
(* Saving                                                                  *)

\* To the editor, from it or from the importer.
LEMMA SavesEntered ==
  ASSUME EditorInv, SavesOK, NEW m \in Maps, NEW cs, ToEditor(m, cs)
  PROVE  SavesOK'
<1>1. CASE page = "editor" /\ m # open
  BY <1>1, SavesSwitch DEF ToEditor
<1>2. CASE page = "editor" /\ m = open
  <2>1. ui' = ui /\ net' = net
    BY <1>2 DEF ToEditor, editor
  <2> QED
    BY <2>1, SavesRest DEF SavesOK
<1>3. CASE page # "editor"
  <2> DEFINE g == Ask("get", m, 0, 0, FALSE)
  <2>1. net' = Left(net) \cup {g} /\ ui' = FreshUi
    BY <1>3 DEF ToEditor, Mount
  <2>2. g.ok /\ ~g.save
    BY DEF Ask
  <2> HIDE DEF g
  <2> QED
    BY <2>1, <2>2, SavesGone
<1> QED
  BY <1>1, <1>2, <1>3

\* The pages' own steps.
LEMMA SavesPages ==
  ASSUME CatalogInv, MappedOK, EditorInv, SavesOK, PagesNext \/ FilesNext
  PROVE  SavesOK'
<1>0. maps \subseteq Maps /\ shown.maps \subseteq Maps
  BY BoundAssumption DEF CatalogInv, KnownOK, Maps
<1>1. ASSUME UNCHANGED editor PROVE SavesOK'
  BY <1>1, SavesRest DEF editor, SavesOK
<1>3. ASSUME Unmount PROVE SavesOK'
  <2>1. ui' = FreshUi /\ net' = Left(net)
    BY <1>3 DEF Unmount
  <2> DEFINE g == [save |-> FALSE, ok |-> TRUE]
  <2>2. g.ok /\ ~g.save
    OBVIOUS
  <2> HIDE DEF g
  <2> QED
    BY <2>1, <2>2, SavesGone
<1>2. CASE OpenGuide \/ LeaveGuide \/ HandleCreateMap \/ HandleSave \/ FileRefused
  BY <1>1, <1>2
     DEF OpenGuide, LeaveGuide, HandleCreateMap, HandleSave, FileRefused, Presses, Stays
<1>9. CASE LeaveEditor \/ FileParsed
  BY <1>1, <1>3, <1>9 DEF LeaveEditor, FileParsed, ToImporter, Stays
<1>4. ASSUME NEW m \in shown.maps, EditMap(m) PROVE SavesOK'
  BY <1>0, <1>4, SavesEntered DEF EditMap
<1>5. ASSUME NEW x, NEW l, HandleDeleteMap(x) \/ HandleImport(x) \/ SetLabel(x, l)
      PROVE  SavesOK'
  BY <1>1, <1>5 DEF HandleDeleteMap, HandleImport, SetLabel, Presses, Stays
<1>6. ASSUME NEW c \in calls, ServeCall(c) \/ FailCall(c) PROVE SavesOK'
  BY <1>1, <1>6 DEF ServeCall, FailCall
<1>7. ASSUME NEW c \in calls, ApplyCall(c) PROVE SavesOK'
  <2>1. CASE ApplyCreateMap(c) \/ ApplyImportRound(c)
    <3>1. c.map \in Maps
      BY <1>7, <2>1
         DEF ApplyCall, ApplyCreateMap, ApplyImportRound, MappedOK, Mapped, Leads
    <3> QED
      BY <2>1, <3>1, SavesEntered DEF ApplyCreateMap, ApplyImportRound
  <2>2. CASE ApplyList(c) \/ ApplyDeleteMap(c) \/ ApplyImportMap(c) \/ ApplyImportFailure(c)
    BY <1>1, <2>2 DEF ApplyList, ApplyDeleteMap, ApplyImportMap, ApplyImportFailure, Remains
  <2> QED
    BY <1>7, <2>1, <2>2 DEF ApplyCall
<1>8. ASSUME NEW m, MapUsed(m) \/ OthersDeleteMap(m) PROVE SavesOK'
  BY <1>1, <1>8 DEF MapUsed, OthersDeleteMap
<1> QED
  BY <1>2, <1>4, <1>5, <1>6, <1>7, <1>8, <1>9 DEF PagesNext, FilesNext

\* The editor is saving just as long as its one save is under way, whatever is cancelled,
\* refused or lost meanwhile, and whatever map or page the guide goes to.
THEOREM EditorSavingIsUnderWay == Spec => []SavingIsUnderWay
<1>1. Init => SavesOK
  <2> SUFFICES ASSUME Init PROVE SavesOK
    OBVIOUS
  <2>1. net = {} /\ ~ui.saving
    BY DEF Init, EditorInit, FreshUi
  <2> QED
    BY <2>1 DEF SavesOK
<1>2. (CatalogInv /\ MappedOK /\ EditorInv) /\ SavesOK /\ [Next]_vars => SavesOK'
  <2> SUFFICES ASSUME CatalogInv, MappedOK, EditorInv, SavesOK, [Next]_vars
               PROVE  SavesOK'
    OBVIOUS
  <2>1. CASE UNCHANGED vars
    BY <2>1, SavesRest DEF vars, SavesOK
  <2> QED
    BY <2>1, SavesStep, SavesPages DEF Next
<1>3. SavesOK => SavingIsUnderWay
  BY DEF SavesOK, Saves, Live, SavingIsUnderWay
<1> QED
  BY <1>1, <1>2, <1>3, GuideInvariant, PTL DEF Spec
=============================================================================
