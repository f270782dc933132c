---------------------------- MODULE MCMapCatalog ----------------------------
(***************************************************************************)
(* Small instances of MapCatalog.                                          *)
(***************************************************************************)
EXTENDS MapCatalog

\* A file that can be imported, and one whose start has no place.
SomeFiles == {<<"Point", "Point", "LineString">>, <<"MultiPoint", "other", "Point", "MultiLineString">>}

Limit(r, c, e, fs) == [requests |-> r, calls |-> c, events |-> e, files |-> fs]

\* The editor with something going wrong or another tab at work; with two requests in
\* flight; left and entered while a request is; the dashboard and the importer with
\* something going wrong; and the importer left while it saves, and entered again.
SmallLimits ==
  {Limit(1, 0, 1, {}), Limit(2, 0, 0, {}), Limit(1, 1, 0, {}), Limit(0, 1, 1, SomeFiles),
   Limit(0, 2, 0, SomeFiles)}

=============================================================================
