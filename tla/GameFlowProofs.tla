--------------------------- MODULE GameFlowProofs ---------------------------
(***************************************************************************)
(* What holds of GameFlow for every number of sessions, rounds, teams,     *)
(* players, hosts and faults.                                              *)
(***************************************************************************)
EXTENDS GameFlow, TLAPS

\* A request with nothing read is well formed.
LEMMA BlankType == Blank \in LocType
BY BoundAssumption DEF Blank, LocType, Phases

\* Moving a request to a label with well-formed data keeps requests well formed.
LEMMA GotoType ==
  ASSUME TypeOK, NEW p \in Procs, NEW label \in Labels, NEW data \in LocType,
         Goto(p, label, data)
  PROVE  pc' \in [Procs -> Labels] /\ loc' \in [Procs -> LocType]
BY DEF TypeOK, Goto

\* Answering a request keeps requests well formed.
LEMMA ReturnType ==
  ASSUME TypeOK, NEW p \in Procs, Return(p)
  PROVE  pc' \in [Procs -> Labels] /\ loc' \in [Procs -> LocType]
BY BlankType DEF TypeOK, Return, Labels

\* Every process serves a session.
LEMMA AtType ==
  ASSUME TypeOK, NEW p \in Procs
  PROVE  At(p) \in Sessions
BY SessionAssumption DEF TypeOK, Procs, At

\* Every host serves a session.
LEMMA HostType == \A h \in Hosts : h \in Procs /\ SessionOf[h] \in Sessions
BY SessionAssumption DEF Procs

\* The phases and rounds the handlers write are among those of a row.
LEMMA RowValues ==
  /\ Rounds \subseteq 0 .. NumRounds
  /\ NumRounds \in 0 .. NumRounds
  /\ {"playing", "scoring", "finished"} \subseteq Phases
BY BoundAssumption DEF Rounds, Phases

\* Writing a phase, or a phase and a round, keeps a row well formed.
LEMMA RowUpdate ==
  ASSUME NEW row \in RowType, NEW ph \in Phases, NEW r \in 0 .. NumRounds
  PROVE  /\ [row EXCEPT !.phase = ph] \in RowType
         /\ [row EXCEPT !.phase = ph, !.round = r] \in RowType
BY DEF RowType

\* A broadcast of a phase, or of scores, keeps the screen well formed.
LEMMA ScreenUpdate ==
  ASSUME NEW screen \in ScreenType, NEW ph \in Phases, NEW sc \in SUBSET Teams
  PROVE  /\ [screen EXCEPT !.phase = ph] \in ScreenType
         /\ [screen EXCEPT !.scores = sc] \in ScreenType
BY DEF ScreenType

\* Counting an end keeps the counters naturals.
LEMMA CountUpdate ==
  ASSUME NEW count \in [Rounds -> Nat], NEW r
  PROVE  [count EXCEPT ![r] = @ + 1] \in [Rounds -> Nat]
<1>1. CASE r \in Rounds
  BY <1>1
<1>2. CASE r \notin Rounds
  BY <1>2
<1> QED
  BY <1>1, <1>2

\* Putting a round into play keeps the history well formed.
LEMMA PlayType ==
  ASSUME TypeOK, NEW h \in Hosts, NEW r \in Rounds, PutsIntoPlay(h, r)
  PROVE  /\ reached' \in [Sessions -> 0 .. NumRounds]
         /\ outrun' \subseteq Hosts
         /\ carried' \subseteq Sessions
         /\ flips' \in [Sessions -> [Rounds -> Nat]]
<1> DEFINE s == SessionOf[h]
<1>1. s \in Sessions /\ r \in 0 .. NumRounds /\ reached[s] \in 0 .. NumRounds
  BY HostType, RowValues DEF TypeOK
<1>2. reached' \in [Sessions -> 0 .. NumRounds]
  BY <1>1 DEF TypeOK, PutsIntoPlay
<1>3. outrun' \subseteq Hosts /\ carried' \subseteq Sessions
  BY <1>1 DEF TypeOK, PutsIntoPlay, Overtakes
<1>4. [flips[s] EXCEPT ![r] = 0] \in [Rounds -> Nat]
  BY <1>1 DEF TypeOK
<1>5. flips' = [flips EXCEPT ![s] = [flips[s] EXCEPT ![r] = 0]]
  BY DEF PutsIntoPlay
<1>6. flips' \in [Sessions -> [Rounds -> Nat]]
  BY <1>1, <1>4, <1>5 DEF TypeOK
<1> QED
  BY <1>2, <1>3, <1>6

\* The teams a submission waits for are teams.
LEMMA RosterType ==
  ASSUME TypeOK, NEW s
  PROVE  RosterOf(s) \subseteq Teams
BY DEF TypeOK, RosterOf

\* The invariant both type correctness and route uniqueness rest on.
TypeInv == TypeOK /\ InFlightOK

\* The rows the server starts with.
LEMMA TypeInit == Init => TypeInv
<1> SUFFICES ASSUME Init PROVE TypeInv
  OBVIOUS
<1>1. (CHOOSE s \in Sessions : TRUE) \in Sessions
  BY SessionAssumption
<1>2. \A s \in Sessions : FirstRow(s) \in RowType
  BY BoundAssumption DEF FirstRow, RowType, Phases
<1>3. session \in [Sessions -> RowType] /\ sweep \in [ids: SUBSET Sessions, at: Sessions]
  BY <1>1, <1>2 DEF Init
<1>4. wire \in [Sessions -> ScreenType]
  BY <1>2 DEF Init, ScreenType, RowType
<1>5. pc \in [Procs -> Labels] /\ loc \in [Procs -> LocType]
  BY BlankType DEF Init, Labels
<1>6. flips \in [Sessions -> [Rounds -> Nat]]
  BY DEF Init
<1>9. reached \in [Sessions -> 0 .. NumRounds]
  BY <1>2 DEF Init, RowType
<1>7. TypeOK
  BY <1>3, <1>4, <1>5, <1>6, <1>9, TeamAssumption, BoundAssumption DEF Init, TypeOK
<1>8. InFlightOK
  BY DEF Init, InFlightOK
<1> QED
  BY <1>7, <1>8 DEF TypeInv

\* Every step keeps the rows, requests and broadcasts well formed.
LEMMA TypeStep == TypeInv /\ [Next]_vars => TypeInv'
<1> SUFFICES ASSUME TypeInv, [Next]_vars PROVE TypeInv'
  OBVIOUS
<1> USE DEF TypeInv
<1>n. ASSUME NEW p \in Procs, NEW label \in Labels, NEW data \in LocType, Goto(p, label, data),
             UNCHANGED sweep,
             label \in {"roster", "check", "insert"} =>
               data.target \in Rounds /\ data.team \in Teams,
             label = "tally" => Kind[At(p)] = "multi",
             label = "flip" => Kind[At(p)] # "demo",
             label = "announce" => data.round \in Rounds
      PROVE  InFlightOK'
  <2>1. \A q \in Procs : At(q)' = At(q)
    BY <1>n DEF At
  <2> QED
    BY <1>n, <2>1 DEF InFlightOK, Goto, TypeOK
<1>r. ASSUME NEW p \in Procs, Return(p), UNCHANGED sweep
      PROVE  InFlightOK'
  <2>1. \A q \in Procs : At(q)' = At(q)
    BY <1>r DEF At
  <2> QED
    BY <1>r, <2>1 DEF InFlightOK, Return, TypeOK
<1>u. ASSUME UNCHANGED <<pc, loc, sweep>>
      PROVE  InFlightOK'
  <2>1. \A q \in Procs : At(q)' = At(q)
    BY <1>u DEF At
  <2> QED
    BY <1>u, <2>1 DEF InFlightOK
<1> USE BoundAssumption, ProcAssumption DEF Labels, history
<1>1. ASSUME NEW p \in Players, NEW r \in Rounds, SubmitRoute(p, r)
      PROVE  TypeInv'
  <2> DEFINE row == session[SessionOf[p]]
             data == [Blank EXCEPT !.phase = row.phase, !.round = row.round,
                                   !.target = r, !.team = teamOf[p]]
  <2>1. row \in RowType /\ teamOf[p] \in Teams
    BY <1>1, SessionAssumption DEF TypeOK, SubmitRoute
  <2>2. data \in LocType /\ data.target = r /\ data.team = teamOf[p]
    BY <2>1, BlankType, RowValues DEF Blank, LocType, RowType
  <2>3. Goto(p, "roster", data) /\ p \in Procs
    BY <1>1 DEF SubmitRoute, Procs
  <2>4. TypeOK'
    BY <1>1, <2>2, <2>3, GotoType DEF TypeOK, SubmitRoute
  <2> HIDE DEF data
  <2>5. InFlightOK'
    BY <1>1, <1>n, <2>1, <2>2, <2>3 DEF SubmitRoute
  <2> QED
    BY <2>4, <2>5
<1>2. ASSUME NEW p \in Players, ReadRoster(p)
      PROVE  TypeInv'
  <2> DEFINE data == [loc[p] EXCEPT !.roster = RosterOf(SessionOf[p])]
  <2>1. p \in Procs /\ loc[p] \in LocType
    BY DEF Procs, TypeOK
  <2>2. data \in LocType /\ data.target = loc[p].target /\ data.team = loc[p].team
    BY <2>1, RosterType DEF LocType
  <2>3. Goto(p, "check", data)
    BY <1>2 DEF ReadRoster
  <2>4. TypeOK'
    BY <1>2, <2>1, <2>2, <2>3, GotoType DEF TypeOK, ReadRoster
  <2> HIDE DEF data
  <2>5. InFlightOK'
    BY <1>2, <1>n, <2>1, <2>2, <2>3 DEF ReadRoster, InFlightOK
  <2> QED
    BY <2>4, <2>5
<1>3. ASSUME NEW p \in Players, CheckDuplicate(p)
      PROVE  TypeInv'
  <2>1. p \in Procs /\ loc[p] \in LocType
    BY DEF Procs, TypeOK
  <2>2. CASE Goto(p, "insert", loc[p])
    <3>1. TypeOK'
      BY <1>3, <2>1, <2>2, GotoType DEF TypeOK, CheckDuplicate
    <3>2. InFlightOK'
      BY <1>3, <1>n, <2>1, <2>2 DEF CheckDuplicate, InFlightOK
    <3> QED
      BY <3>1, <3>2
  <2>3. CASE Return(p)
    BY <1>3, <1>r, <2>1, <2>3, ReturnType DEF TypeOK, CheckDuplicate
  <2> QED
    BY <1>3, <2>2, <2>3 DEF CheckDuplicate
<1>4. ASSUME NEW p \in Players, CreateTeamRoute(p)
      PROVE  TypeInv'
  <2> DEFINE toScores == [Blank EXCEPT !.round = loc[p].round]
             toTally == [Blank EXCEPT !.target = loc[p].target, !.roster = loc[p].roster]
  <2>1. p \in Procs /\ loc[p] \in LocType /\ loc[p].target \in Rounds /\ loc[p].team \in Teams
    BY <1>4 DEF Procs, TypeOK, InFlightOK, CreateTeamRoute
  <2>2. toScores \in LocType /\ toTally \in LocType
    BY <2>1, BlankType DEF LocType, Blank
  <2>3. routes' \subseteq [round: Rounds, team: Teams, by: Players]
    BY <1>4, <2>1 DEF TypeOK, CreateTeamRoute
  <2>4. CASE Return(p)
    BY <1>4, <1>r, <2>1, <2>3, <2>4, ReturnType DEF TypeOK, CreateTeamRoute
  <2>5. CASE Goto(p, "scores", toScores)
    <3>1. TypeOK'
      BY <1>4, <2>1, <2>2, <2>3, <2>5, GotoType DEF TypeOK, CreateTeamRoute
    <3> HIDE DEF toScores
    <3>2. InFlightOK'
      BY <1>4, <1>n, <2>1, <2>2, <2>5 DEF CreateTeamRoute
    <3> QED
      BY <3>1, <3>2
  <2>6. CASE Goto(p, "tally", toTally) /\ ~IsSolo(SessionOf[p])
    <3>1. TypeOK'
      BY <1>4, <2>1, <2>2, <2>3, <2>6, GotoType DEF TypeOK, CreateTeamRoute
    <3>2. Kind[At(p)] = "multi"
      BY <2>6 DEF At, IsSolo, Procs
    <3> HIDE DEF toTally
    <3>3. InFlightOK'
      BY <1>4, <1>n, <2>1, <2>2, <2>6, <3>2 DEF CreateTeamRoute
    <3> QED
      BY <3>1, <3>3
  <2> QED
    BY <1>4, <2>4, <2>5, <2>6 DEF CreateTeamRoute
<1>5. ASSUME NEW p \in Players, TallyTeams(p)
      PROVE  TypeInv'
  <2>1. p \in Procs
    BY DEF Procs
  <2>2. CASE Return(p)
    BY <1>5, <1>r, <2>1, <2>2, ReturnType DEF TypeOK, TallyTeams
  <2>3. CASE Goto(p, "flip", Blank)
    <3>1. Kind[At(p)] # "demo"
      BY <1>5, <2>1 DEF InFlightOK, TallyTeams
    <3> QED
      BY <1>5, <1>n, <2>1, <2>3, <3>1, BlankType, GotoType DEF TypeOK, TallyTeams
  <2> QED
    BY <1>5, <2>2, <2>3 DEF TallyTeams
<1>6. ASSUME NEW p \in Procs, EndRoundIfPlaying(p)
      PROVE  TypeInv'
  <2>1. At(p) \in Sessions
    BY AtType
  <2>2. session' \in [Sessions -> RowType] /\ flips' \in [Sessions -> [Rounds -> Nat]]
    <3> DEFINE s == At(p)
    <3>1. CASE session[s].phase = "playing"
      <4>1. [session[s] EXCEPT !.phase = "scoring"] \in RowType
        BY <2>1, RowValues, RowUpdate DEF TypeOK
      <4>2. session' \in [Sessions -> RowType]
        BY <1>6, <2>1, <3>1, <4>1 DEF TypeOK, EndRoundIfPlaying
      <4>3. [flips[s] EXCEPT ![session[s].round] = @ + 1] \in [Rounds -> Nat]
        BY <2>1, CountUpdate DEF TypeOK
      <4>4. flips' = [flips EXCEPT ![s] = [flips[s] EXCEPT ![session[s].round] = @ + 1]]
        BY <1>6, <3>1 DEF EndRoundIfPlaying
      <4> QED
        BY <2>1, <4>2, <4>3, <4>4 DEF TypeOK
    <3>2. CASE session[s].phase # "playing"
      BY <1>6, <3>2 DEF TypeOK, EndRoundIfPlaying
    <3> QED
      BY <3>1, <3>2
  <2>3. CASE Return(p)
    BY <1>6, <1>r, <2>2, <2>3, ReturnType DEF TypeOK, EndRoundIfPlaying
  <2>4. CASE Goto(p, "reload", Blank)
    BY <1>6, <1>n, <2>2, <2>4, BlankType, GotoType DEF TypeOK, EndRoundIfPlaying
  <2> QED
    BY <1>6, <2>3, <2>4 DEF EndRoundIfPlaying
<1>7. ASSUME NEW p \in Procs, ReloadSession(p)
      PROVE  TypeInv'
  <2> DEFINE data == [Blank EXCEPT !.round = session[At(p)].round]
  <2>1. data \in LocType
    BY AtType, BlankType DEF TypeOK, RowType, LocType, Blank
  <2> HIDE DEF data
  <2>2. Goto(p, "reveal", data)
    BY <1>7 DEF ReloadSession, data
  <2> QED
    BY <1>7, <1>n, <2>1, <2>2, GotoType DEF TypeOK, ReloadSession
<1>8. ASSUME NEW p \in Procs, RevealScoring(p)
      PROVE  TypeInv'
  <2>1. wire' \in [Sessions -> ScreenType]
    <3>1. [wire[At(p)] EXCEPT !.phase = "scoring"] \in ScreenType
      BY AtType, RowValues, ScreenUpdate DEF TypeOK
    <3> QED
      BY <1>8, <3>1, AtType DEF TypeOK, RevealScoring
  <2>2. loc[p] \in LocType
    BY DEF TypeOK
  <2> QED
    BY <1>8, <1>n, <2>1, <2>2, GotoType DEF TypeOK, RevealScoring
<1>9. ASSUME NEW p \in Procs, ReadScores(p)
      PROVE  TypeInv'
  <2> DEFINE data == [Blank EXCEPT !.tally = {rt.team : rt \in RoutesOf(loc[p].round)}]
  <2>1. data \in LocType
    BY BlankType DEF TypeOK, RoutesOf, LocType, Blank
  <2> HIDE DEF data
  <2>2. Goto(p, "publish", data) \/ Return(p)
    BY <1>9 DEF ReadScores, data
  <2> QED
    BY <1>9, <1>n, <1>r, <2>1, <2>2, GotoType, ReturnType DEF TypeOK, ReadScores
<1>10. ASSUME NEW p \in Procs, PublishScores(p)
       PROVE  TypeInv'
  <2>1. loc[p].tally \subseteq Teams
    BY DEF TypeOK, LocType
  <2>2. wire' \in [Sessions -> ScreenType]
    <3>1. [wire[At(p)] EXCEPT !.scores = loc[p].tally] \in ScreenType
      BY <2>1, AtType, RowValues, ScreenUpdate DEF TypeOK
    <3> QED
      BY <1>10, <3>1, AtType DEF TypeOK, PublishScores
  <2> QED
    BY <1>10, <1>r, <2>2, ReturnType DEF TypeOK, PublishScores
<1>11. ASSUME NEW h \in Hosts, StartGame(h)
       PROVE  TypeInv'
  <2> DEFINE row == session[SessionOf[h]]
             data == [Blank EXCEPT !.phase = row.phase, !.round = row.round]
  <2>1. data \in LocType /\ h \in Procs
    BY SessionAssumption, BlankType DEF TypeOK, RowType, LocType, Blank, Procs
  <2> HIDE DEF data
  <2>2. Goto(h, "start", data)
    BY <1>11 DEF StartGame, data
  <2> QED
    BY <1>11, <1>n, <2>1, <2>2, GotoType DEF TypeOK, StartGame
<1>12. ASSUME NEW h \in Hosts, StartRound(h)
       PROVE  TypeInv'
  <2> DEFINE data == [Blank EXCEPT !.round = loc[h].round + 1]
  <2>1. h \in Procs /\ SessionOf[h] \in Sessions /\ loc[h].round + 1 \in Rounds
    BY <1>12, SessionAssumption DEF TypeOK, LocType, Procs, StartRound, Rounds
  <2>2. data \in LocType /\ data.round \in Rounds
    BY <2>1, BlankType DEF LocType, Blank, Rounds
  <2>3. session' \in [Sessions -> RowType]
    BY <1>12, <2>1 DEF TypeOK, RowType, Phases, StartRound, Rounds
  <2> HIDE DEF data
  <2>4. Goto(h, "announce", data)
    BY <1>12 DEF StartRound, data
  <2>5. PutsIntoPlay(h, loc[h].round + 1)
    BY <1>12 DEF StartRound
  <2>6. TypeOK'
    BY <1>12, <2>1, <2>2, <2>3, <2>4, <2>5, PlayType, GotoType DEF TypeOK, StartRound
  <2> QED
    BY <1>12, <1>n, <2>1, <2>2, <2>4, <2>6 DEF StartRound
<1>13. ASSUME NEW h \in Hosts, AnnounceRound(h)
       PROVE  TypeInv'
  <2>1. h \in Procs /\ loc[h].round \in Rounds
    BY <1>13 DEF Procs, InFlightOK, AnnounceRound
  <2>2. wire' \in [Sessions -> ScreenType]
    <3>1. [phase |-> "playing", round |-> loc[h].round, scores |-> {}] \in ScreenType
      BY <2>1, RowValues DEF ScreenType
    <3> QED
      BY <1>13, <3>1 DEF TypeOK, AnnounceRound
  <2> QED
    BY <1>13, <1>r, <2>1, <2>2, ReturnType DEF TypeOK, AnnounceRound
<1>14. ASSUME NEW h \in Hosts, FinishGame(h)
       PROVE  TypeInv'
  <2>1. h \in Procs
    BY DEF Procs
  <2>2. session' \in [Sessions -> RowType]
    <3>1. [session[SessionOf[h]] EXCEPT !.phase = "finished", !.round = NumRounds] \in RowType
      BY HostType, RowValues, RowUpdate DEF TypeOK
    <3> QED
      BY <1>14, <3>1, HostType DEF TypeOK, FinishGame, Finished
  <2> QED
    BY <1>14, <1>n, <2>1, <2>2, BlankType, GotoType DEF TypeOK, FinishGame, Overtakes
<1>15. ASSUME NEW h \in Hosts, AnnounceFinish(h)
       PROVE  TypeInv'
  <2>1. h \in Procs
    BY DEF Procs
  <2>2. wire' \in [Sessions -> ScreenType]
    <3>1. [wire[SessionOf[h]] EXCEPT !.phase = "finished"] \in ScreenType
      BY HostType, RowValues, ScreenUpdate DEF TypeOK
    <3> QED
      BY <1>15, <3>1, HostType DEF TypeOK, AnnounceFinish
  <2> QED
    BY <1>15, <1>r, <2>1, <2>2, ReturnType DEF TypeOK, AnnounceFinish
<1>16. ASSUME NEW h \in Hosts, EndRound(h)
       PROVE  TypeInv'
  <2>1. h \in Procs /\ Kind[At(h)] # "demo"
    BY <1>16 DEF Procs, At, EndRound
  <2> QED
    BY <1>16, <1>n, <2>1, BlankType, GotoType DEF TypeOK, EndRound
<1>17. ASSUME NEW h \in Hosts, DemoNextRound(h)
       PROVE  TypeInv'
  <2> DEFINE data == [Blank EXCEPT !.round = session[SessionOf[h]].round]
  <2>1. data \in LocType /\ h \in Procs
    BY SessionAssumption, BlankType DEF TypeOK, RowType, LocType, Blank, Procs
  <2> HIDE DEF data
  <2>2. Goto(h, "demoNext", data)
    BY <1>17 DEF DemoNextRound, data
  <2> QED
    BY <1>17, <1>n, <2>1, <2>2, GotoType DEF TypeOK, DemoNextRound
<1>18. ASSUME NEW h \in Hosts, AdvanceDemo(h)
       PROVE  TypeInv'
  <2>1. h \in Procs /\ loc[h].round \in 0 .. NumRounds
    BY DEF Procs, TypeOK, LocType
  <2>2. session' \in [Sessions -> RowType]
    <3> DEFINE row == session[SessionOf[h]]
    <3>1. row \in RowType /\ SessionOf[h] \in Sessions
      BY HostType DEF TypeOK
    <3>2. CASE loc[h].round < NumRounds
      <4>1. loc[h].round + 1 \in 0 .. NumRounds
        BY <2>1, <3>2
      <4>2. [row EXCEPT !.phase = "playing", !.round = loc[h].round + 1] \in RowType
        BY <3>1, <4>1, RowValues, RowUpdate
      <4> QED
        BY <1>18, <3>1, <3>2, <4>2 DEF TypeOK, AdvanceDemo
    <3>3. CASE ~(loc[h].round < NumRounds)
      <4>1. [row EXCEPT !.phase = "finished", !.round = NumRounds] \in RowType
        BY <3>1, RowValues, RowUpdate
      <4> QED
        BY <1>18, <3>1, <3>3, <4>1 DEF TypeOK, AdvanceDemo, Finished
    <3> QED
      BY <3>2, <3>3
  <2>3. /\ reached' \in [Sessions -> 0 .. NumRounds]
        /\ outrun' \subseteq Hosts
        /\ carried' \subseteq Sessions
        /\ flips' \in [Sessions -> [Rounds -> Nat]]
    <3>1. CASE loc[h].round < NumRounds
      <4>1. loc[h].round + 1 \in Rounds
        BY <2>1, <3>1 DEF Rounds
      <4> QED
        BY <1>18, <3>1, <4>1, PlayType DEF AdvanceDemo
    <3>2. CASE ~(loc[h].round < NumRounds)
      BY <1>18, <3>2 DEF TypeOK, AdvanceDemo, Overtakes
    <3> QED
      BY <3>1, <3>2
  <2> QED
    BY <1>18, <1>r, <2>1, <2>2, <2>3, ReturnType DEF TypeOK, AdvanceDemo
<1>19. ASSUME TickerQuery
       PROVE  TypeInv'
  <2>1. sweep' \in [ids: SUBSET Sessions, at: Sessions] /\ sweep'.at = sweep.at
    BY <1>19 DEF TypeOK, TickerQuery, ExpiredPlayingSessions
  <2>2. \A s \in sweep'.ids : Kind[s] = "multi"
    BY <1>19 DEF TypeOK, TickerQuery, ExpiredPlayingSessions, IsSolo
  <2>3. \A q \in Procs : At(q)' = At(q)
    BY <1>19, <2>1 DEF At, TickerQuery
  <2> QED
    BY <1>19, <2>1, <2>2, <2>3 DEF TypeOK, InFlightOK, TickerQuery
<1>20. ASSUME NEW s \in Sessions, TickerNext(s)
       PROVE  TypeInv'
  <2>1. Ticker \in Procs /\ Kind[s] = "multi"
    BY <1>20 DEF Procs, InFlightOK, TickerNext
  <2>2. sweep' \in [ids: SUBSET Sessions, at: Sessions] /\ sweep'.at = s /\ sweep'.ids \subseteq sweep.ids
    BY <1>20 DEF TypeOK, TickerNext
  <2>3. TypeOK'
    BY <1>20, <2>1, <2>2, BlankType, GotoType DEF TypeOK, TickerNext
  <2>4. \A q \in Procs : q # Ticker => At(q)' = At(q) /\ pc'[q] = pc[q] /\ loc'[q] = loc[q]
    BY <1>20 DEF At, TickerNext, Goto, TypeOK
  <2>5. At(Ticker)' = s /\ pc'[Ticker] = "flip"
    BY <1>20, <2>1, <2>2 DEF At, TickerNext, Goto, TypeOK
  <2>6. InFlightOK'
    BY <2>1, <2>2, <2>4, <2>5 DEF InFlightOK
  <2> QED
    BY <2>3, <2>6
<1>21. ASSUME NEW s \in Sessions, Expire(s)
       PROVE  TypeInv'
  <2>1. session' \in [Sessions -> RowType]
    <3>1. [session[s] EXCEPT !.endsAt = "past"] \in RowType
      BY DEF TypeOK, RowType
    <3> QED
      BY <1>21, <3>1 DEF TypeOK, Expire
  <2> QED
    BY <1>21, <1>u, <2>1 DEF TypeOK, Expire
<1>22. ASSUME Moderate
       PROVE  TypeInv'
  <2>1. ASSUME NEW p \in Players, KickPlayer(p)
        PROVE  TypeInv'
    BY <2>1, <1>u DEF TypeOK, KickPlayer
  <2>2. ASSUME NEW rt \in routes, ClearRoute(rt)
        PROVE  TypeInv'
    BY <2>2, <1>u DEF TypeOK, ClearRoute
  <2>3. ASSUME NEW p \in Players, NEW t \in Teams, JoinTeam(p, t)
        PROVE  TypeInv'
    BY <2>3, <1>u DEF TypeOK, JoinTeam
  <2> QED
    BY <1>22, <2>1, <2>2, <2>3 DEF Moderate
<1>23. ASSUME Fault
       PROVE  TypeInv'
  <2>1. ASSUME NEW p \in Procs, StoreError(p)
        PROVE  TypeInv'
    BY <2>1, <1>r, ReturnType DEF TypeOK, StoreError
  <2>2. ASSUME Crash
        PROVE  TypeInv'
    <3>1. pc' \in [Procs -> Labels] /\ loc' \in [Procs -> LocType]
      BY <2>2, BlankType DEF Crash
    <3>2. sweep' \in [ids: SUBSET Sessions, at: Sessions] /\ sweep'.ids = {}
      BY <2>2 DEF TypeOK, Crash
    <3>3. TypeOK'
      BY <2>2, <3>1, <3>2 DEF TypeOK, Crash
    <3>4. \A q \in Procs : pc'[q] = "idle"
      BY <2>2 DEF Crash
    <3>5. InFlightOK'
      BY <3>2, <3>4 DEF InFlightOK
    <3> QED
      BY <3>3, <3>5
  <2> QED
    BY <1>23, <2>1, <2>2 DEF Fault
<1>24. ASSUME Signal
       PROVE  TypeInv'
  BY <1>24, <1>u DEF TypeOK, Signal
<1>25. ASSUME UNCHANGED vars
       PROVE  TypeInv'
  BY <1>25, <1>u DEF TypeOK, vars
<1> QED
  BY <1>1, <1>2, <1>3, <1>4, <1>5, <1>6, <1>7, <1>8, <1>9, <1>10, <1>11, <1>12, <1>13,
     <1>14, <1>15, <1>16, <1>17, <1>18, <1>19, <1>20, <1>21, <1>22, <1>23, <1>24, <1>25
  DEF Next, Play, SubmitStep, EndRoundStep, HostStep, TickerStep

\* The rows, the requests in flight and the broadcasts are always well formed.
THEOREM TypeCorrect == Spec => []TypeOK
<1>1. Init => TypeInv
  BY TypeInit
<1>2. TypeInv /\ [Next]_vars => TypeInv'
  BY TypeStep
<1>3. TypeInv => TypeOK
  BY DEF TypeInv
<1> QED
  BY <1>1, <1>2, <1>3, PTL DEF Spec

-----------------------------------------------------------------------------
(* One route per team                                                      *)

\* Whatever two requests of one team have in flight, the table keeps one route.
THEOREM RoutesUnique == Spec => []OneRoutePerTeam
<1>1. Init => OneRoutePerTeam
  BY DEF Init, OneRoutePerTeam
<1>2. OneRoutePerTeam /\ [Next]_vars => OneRoutePerTeam'
  <2> SUFFICES ASSUME OneRoutePerTeam, [Next]_vars PROVE OneRoutePerTeam'
    OBVIOUS
  <2>1. ASSUME routes' \subseteq routes
        PROVE  OneRoutePerTeam'
    BY <2>1 DEF OneRoutePerTeam
  <2>2. ASSUME NEW p \in Players, CreateTeamRoute(p)
        PROVE  OneRoutePerTeam'
    <3> DEFINE new == [round |-> loc[p].target, team |-> loc[p].team, by |-> p]
    <3>1. CASE HasRoute(loc[p].team, loc[p].target)
      BY <2>1, <2>2, <3>1 DEF CreateTeamRoute
    <3>2. CASE ~HasRoute(loc[p].team, loc[p].target)
      <4>1. routes' = routes \cup {new}
        BY <2>2, <3>2 DEF CreateTeamRoute
      <4>2. \A rt \in routes : ~(rt.round = new.round /\ rt.team = new.team)
        BY <3>2 DEF HasRoute
      <4> QED
        BY <4>1, <4>2 DEF OneRoutePerTeam
    <3> QED
      BY <3>1, <3>2
  <2>3. ASSUME NEW rt \in routes, ClearRoute(rt)
        PROVE  OneRoutePerTeam'
    BY <2>1, <2>3 DEF ClearRoute
  <2>4. ASSUME NEW p \in Players,
               \/ \E r \in Rounds : SubmitRoute(p, r)
               \/ ReadRoster(p) \/ CheckDuplicate(p) \/ TallyTeams(p)
               \/ KickPlayer(p) \/ \E t \in Teams : JoinTeam(p, t)
        PROVE  OneRoutePerTeam'
    BY <2>1, <2>4
    DEF SubmitRoute, ReadRoster, CheckDuplicate, TallyTeams, KickPlayer, JoinTeam
  <2>5. ASSUME NEW p \in Procs, EndRoundStep(p) \/ StoreError(p)
        PROVE  OneRoutePerTeam'
    BY <2>1, <2>5 DEF EndRoundStep, EndRoundIfPlaying, ReloadSession, RevealScoring,
                      ReadScores, PublishScores, StoreError
  <2>6. ASSUME NEW h \in Hosts, StartGame(h) \/ EndRound(h) \/ DemoNextRound(h) \/ HostStep(h)
        PROVE  OneRoutePerTeam'
    BY <2>1, <2>6 DEF StartGame, EndRound, DemoNextRound, HostStep, StartRound, AnnounceRound,
                      FinishGame, AnnounceFinish, AdvanceDemo
  <2>7. CASE TickerStep \/ (\E s \in Sessions : Expire(s)) \/ Crash \/ Signal \/ UNCHANGED vars
    BY <2>1, <2>7 DEF TickerStep, TickerQuery, TickerNext, Expire, Crash, Signal, vars
  <2> QED
    BY <2>2, <2>3, <2>4, <2>5, <2>6, <2>7 DEF Next, Play, SubmitStep, Moderate, Fault
<1> QED
  BY <1>1, <1>2, PTL DEF Spec

-----------------------------------------------------------------------------
(* Rounds end once, in order                                               *)

\* The inductive invariant of the round life cycle.
LifeInv == TypeInv /\ HostFresh /\ EndsInOrder /\ RoundEndsOnce

\* The session rows keep their phase and round.
RowsStay ==
  \A s \in Sessions :
    session'[s].phase = session[s].phase /\ session'[s].round = session[s].round

\* A step that does not take a host to one of its writes leaves what the others read,
\* and an outrun host stays outrun.
HostsStay ==
  \A h \in Hosts :
    pc'[h] \in Starting =>
      pc'[h] = pc[h] /\ loc'[h] = loc[h] /\ (h \in outrun => h \in outrun')

\* A request that moves on disturbs no other request.
LEMMA GotoStays ==
  ASSUME TypeOK, NEW p \in Procs, NEW label, NEW data, Goto(p, label, data),
         label \notin Starting, UNCHANGED outrun
  PROVE  HostsStay
BY HostType DEF TypeOK, Goto, HostsStay

\* A request that is answered disturbs no other request.
LEMMA ReturnStays ==
  ASSUME TypeOK, NEW p \in Procs, Return(p), outrun \ {p} \subseteq outrun'
  PROVE  HostsStay
BY HostType DEF TypeOK, Return, HostsStay, Starting

\* A step that keeps the rows and what the hosts read keeps the invariant.
LEMMA CalmStep ==
  ASSUME LifeInv, RowsStay, HostsStay, UNCHANGED <<flips, reached>>
  PROVE  (HostFresh /\ EndsInOrder /\ RoundEndsOnce)'
<1>1. HostFresh'
  BY HostType DEF LifeInv, HostFresh, RowsStay, HostsStay
<1>2. EndsInOrder'
  BY DEF LifeInv, EndsInOrder, RowsStay
<1>3. RoundEndsOnce'
  BY DEF LifeInv, RoundEndsOnce
<1> QED
  BY <1>1, <1>2, <1>3

\* In the abstraction it is a stutter.
LEMMA CalmLife ==
  ASSUME RowsStay, UNCHANGED reached
  PROVE  UNCHANGED Protocol!life
BY DEF RowsStay, Protocol!life

\* A write of one row, seen through the refinement mapping.
LEMMA LifeUpdate ==
  ASSUME TypeOK, NEW s \in Sessions, NEW row, session' = [session EXCEPT ![s] = row]
  PROVE  /\ [t \in Sessions |-> session'[t].phase]
              = [[t \in Sessions |-> session[t].phase] EXCEPT ![s] = row.phase]
         /\ [t \in Sessions |-> session'[t].round]
              = [[t \in Sessions |-> session[t].round] EXCEPT ![s] = row.round]
BY DEF TypeOK

\* Sessions are created in a phase their life may begin with.
LEMMA LifeInit == Init => LifeInv /\ Protocol!Init
<1> SUFFICES ASSUME Init PROVE LifeInv /\ Protocol!Init
  OBVIOUS
<1>1. TypeInv
  BY TypeInit
<1>2. HostFresh
  BY HostType DEF Init, HostFresh, Starting
<1>3. \A s \in Sessions : /\ session[s].round \in {0, 1} /\ session[s].phase \in {"waiting", "playing"}
                          /\ reached[s] = session[s].round
  BY DEF Init, FirstRow
<1>4. \A s \in Sessions : session[s].phase = "playing" => session[s].round = 1
  BY DEF Init, FirstRow
<1>5. EndsInOrder
  BY <1>3, <1>4, BoundAssumption DEF Init, EndsInOrder, Rounds
<1>6. RoundEndsOnce
  BY DEF Init, RoundEndsOnce
<1>7. Protocol!Init
  BY DEF Init, FirstRow, Protocol!Init
<1> QED
  BY <1>1, <1>2, <1>5, <1>6, <1>7 DEF LifeInv

\* endRound's write ends the round of its session and no other.
LEMMA EndStep ==
  ASSUME LifeInv, NEW p \in Procs, EndRoundIfPlaying(p)
  PROVE  (HostFresh /\ EndsInOrder /\ RoundEndsOnce)' /\ [Protocol!Next]_(Protocol!life)
<1> USE DEF LifeInv, TypeInv
<1>0. PICK s \in Sessions : s = At(p)
  BY AtType
<1> DEFINE row == [session[s] EXCEPT !.phase = "scoring"]
<1>1. s \in Sessions /\ session[s] \in RowType /\ UNCHANGED <<reached, outrun>>
  BY DEF TypeOK, EndRoundIfPlaying, history
<1>2. HostsStay
  BY <1>1, GotoStays, ReturnStays DEF EndRoundIfPlaying, Starting
<1>3. CASE session[s].phase # "playing"
  <2>1. RowsStay /\ UNCHANGED flips
    BY <1>0, <1>3 DEF EndRoundIfPlaying, RowsStay
  <2> QED
    BY <1>1, <1>2, <2>1, CalmStep, CalmLife
<1>4. CASE session[s].phase = "playing"
  <2>1. session' = [session EXCEPT ![s] = row] /\ session[s].round \in Rounds
    BY <1>0, <1>1, <1>4 DEF EndRoundIfPlaying, EndsInOrder
  <2>2. row.phase = "scoring" /\ row.round = session[s].round
    BY <1>1 DEF RowType
  <2>3. flips' = [flips EXCEPT ![s][session[s].round] = @ + 1]
    BY <1>0, <1>4 DEF EndRoundIfPlaying
  <2>4. session'[s] = row /\ \A t \in Sessions : t # s => session'[t] = session[t]
    BY <1>1, <2>1 DEF TypeOK
  <2>5. flips[s][session[s].round] = 0
    BY <1>1, <1>4 DEF EndsInOrder
  <2>6. flips'[s][session[s].round] = 1
    BY <1>1, <2>1, <2>3, <2>5 DEF TypeOK
  <2>7. \A t \in Sessions : \A r \in Rounds :
          ~(t = s /\ r = session[s].round) => flips'[t][r] = flips[t][r]
    BY <1>1, <2>3 DEF TypeOK
  <2> HIDE DEF row
  <2>8. HostFresh'
    <3>1. SUFFICES ASSUME NEW g \in Hosts, pc'[g] \in Starting
          PROVE  /\ loc'[g].round <= reached[SessionOf[g]]
                 /\ pc'[g] = "demoNext" <=> Kind[SessionOf[g]] = "demo"
                 /\ g \notin outrun =>
                      /\ loc'[g].round = session'[SessionOf[g]].round
                      /\ pc'[g] = "start" =>
                           \/ session'[SessionOf[g]].phase \in {"waiting", "scoring"}
                           \/ session'[SessionOf[g]].phase = "playing" /\ Kind[SessionOf[g]] = "solo"
      BY <1>1 DEF HostFresh
    <3>2. pc'[g] = pc[g] /\ loc'[g] = loc[g] /\ SessionOf[g] \in Sessions
      BY <1>2, <3>1, HostType DEF HostsStay
    <3>3. /\ session'[SessionOf[g]].round = session[SessionOf[g]].round
          /\ session'[SessionOf[g]].phase \in {session[SessionOf[g]].phase, "scoring"}
      BY <2>2, <2>4, <3>2
    <3> QED
      BY <3>1, <3>2, <3>3 DEF HostFresh
  <2>9. EndsInOrder'
    <3>1. SUFFICES ASSUME NEW t \in Sessions
          PROVE  /\ session'[t].round <= reached[t]
                 /\ session'[t].phase = "playing" =>
                      session'[t].round \in Rounds /\ flips'[t][session'[t].round] = 0
                 /\ session'[t].phase = "finished" => session'[t].round = NumRounds
      BY <1>1 DEF EndsInOrder
    <3>2. CASE t = s
      BY <2>2, <2>4, <3>2 DEF EndsInOrder
    <3>3. CASE t # s
      BY <2>4, <2>7, <3>3 DEF EndsInOrder
    <3> QED
      BY <3>2, <3>3
  <2>10. RoundEndsOnce'
    BY <2>6, <2>7 DEF RoundEndsOnce
  <2>11. Protocol!End(s)
    <3>1. Kind[s] # "demo"
      BY <1>0 DEF InFlightOK, EndRoundIfPlaying
    <3>2. UNCHANGED [t \in Sessions |-> session[t].round]
      BY <2>2, <2>4
    <3>3. [t \in Sessions |-> session'[t].phase]
            = [[t \in Sessions |-> session[t].phase] EXCEPT ![s] = "scoring"]
      BY <1>1, <2>2, <2>4
    <3> QED
      BY <1>1, <1>4, <3>1, <3>2, <3>3 DEF Protocol!End
  <2>12. Protocol!Next
    BY <1>1, <2>11 DEF Protocol!Next
  <2> QED
    BY <2>8, <2>9, <2>10, <2>12
<1> QED
  BY <1>3, <1>4

\* What a start may write: the round after the one it read, or the end of the game if
\* that was the last.
Plays(h, row) ==
  /\ row.phase = "playing" /\ row.round \in Rounds /\ row.round = loc[h].round + 1
  /\ PutsIntoPlay(h, row.round)
Finishes(h, row) ==
  /\ row.phase = "finished" /\ row.round = NumRounds /\ loc[h].round = NumRounds
  /\ Overtakes(h)
  /\ UNCHANGED <<flips, reached, carried>>
Writes(h) ==
  /\ pc[h] \in Starting /\ pc'[h] \notin Starting
  /\ \A q \in Procs : q # h => pc'[q] = pc[q] /\ loc'[q] = loc[q]
  /\ \E row \in RowType : /\ session' = [session EXCEPT ![SessionOf[h]] = row]
                          /\ Plays(h, row) \/ Finishes(h, row)

\* It is what StartGame and DemoNextRound write.
LEMMA HostWrites ==
  ASSUME TypeOK, NEW h \in Hosts, StartRound(h) \/ FinishGame(h) \/ AdvanceDemo(h)
  PROVE  Writes(h)
<1> DEFINE s == SessionOf[h]
<1>1. h \in Procs /\ s \in Sessions /\ session[s] \in RowType /\ loc[h].round \in 0 .. NumRounds
  BY HostType DEF TypeOK, LocType
<1>2. /\ pc[h] \in Starting /\ pc'[h] \notin Starting
      /\ \A q \in Procs : q # h => pc'[q] = pc[q] /\ loc'[q] = loc[q]
  BY <1>1 DEF StartRound, FinishGame, AdvanceDemo, Starting, Goto, Return, TypeOK
<1>3. CASE loc[h].round < NumRounds
  <2>1. loc[h].round + 1 \in Rounds /\ loc[h].round + 1 \in 0 .. NumRounds /\ ~FinishGame(h)
    BY <1>1, <1>3, BoundAssumption DEF Rounds, FinishGame
  <2>2. PICK row \in RowType : /\ session' = [session EXCEPT ![s] = row]
                               /\ row.phase = "playing" /\ row.round = loc[h].round + 1
    <3>1. CASE StartRound(h)
      <4> DEFINE row == [phase |-> "playing", round |-> loc[h].round + 1, endsAt |-> "future"]
      <4>1. row \in RowType /\ row.phase = "playing" /\ row.round = loc[h].round + 1
        BY <2>1, RowValues DEF RowType
      <4> QED
        BY <3>1, <4>1 DEF StartRound
    <3>2. CASE AdvanceDemo(h)
      <4> DEFINE row == [session[s] EXCEPT !.phase = "playing", !.round = loc[h].round + 1]
      <4>1. row \in RowType /\ row.phase = "playing" /\ row.round = loc[h].round + 1
        BY <1>1, <2>1, RowValues, RowUpdate DEF RowType
      <4> QED
        BY <1>3, <3>2, <4>1 DEF AdvanceDemo
    <3> QED
      BY <2>1, <3>1, <3>2
  <2>3. PutsIntoPlay(h, loc[h].round + 1)
    BY <1>3, <2>1 DEF StartRound, AdvanceDemo
  <2> QED
    BY <1>2, <2>1, <2>2, <2>3 DEF Writes, Plays
<1>4. CASE ~(loc[h].round < NumRounds)
  <2> DEFINE row == [session[s] EXCEPT !.phase = "finished", !.round = NumRounds]
  <2>1. row \in RowType /\ row.phase = "finished" /\ row.round = NumRounds
    BY <1>1, RowValues, RowUpdate DEF RowType
  <2>2. loc[h].round = NumRounds /\ ~StartRound(h)
    BY <1>1, <1>4, BoundAssumption DEF StartRound
  <2>3. session' = [session EXCEPT ![s] = row] /\ Overtakes(h) /\ UNCHANGED <<flips, reached, carried>>
    BY <1>4, <2>2 DEF FinishGame, AdvanceDemo, Finished
  <2> HIDE DEF row
  <2> QED
    BY <1>2, <2>1, <2>2, <2>3 DEF Writes, Finishes
<1> QED
  BY <1>3, <1>4

\* The write of a start leaves every other start of its session outrun, and the round
\* it puts into play has not ended.
LEMMA WriteKeeps ==
  ASSUME LifeInv, NEW h \in Hosts, Writes(h)
  PROVE  (HostFresh /\ EndsInOrder /\ RoundEndsOnce)'
<1> USE DEF LifeInv, TypeInv
<1> DEFINE s == SessionOf[h]
<1>1. PICK row \in RowType : /\ session' = [session EXCEPT ![s] = row]
                             /\ Plays(h, row) \/ Finishes(h, row)
  BY DEF Writes
<1>2. s \in Sessions /\ row.round \in 0 .. NumRounds
  BY HostType DEF RowType
<1>3. session'[s] = row /\ \A t \in Sessions : t # s => session'[t] = session[t]
  BY <1>1, <1>2 DEF TypeOK
<1>4. \A t \in Sessions : reached[t] \in Nat /\ reached'[t] \in Nat /\ reached[t] <= reached'[t]
  BY <1>1, <1>2 DEF Plays, Finishes, PutsIntoPlay, TypeOK
<1>5. row.round <= reached'[s]
  <2>1. CASE Plays(h, row)
    BY <1>2, <2>1 DEF Plays, PutsIntoPlay, TypeOK
  <2>2. CASE Finishes(h, row)
    BY <1>2, <2>2 DEF Finishes, HostFresh, Writes
  <2> QED
    BY <1>1, <2>1, <2>2
<1>6. Overtakes(h)
  BY <1>1 DEF Plays, Finishes, PutsIntoPlay
<1>7. HostFresh'
  <2>1. SUFFICES ASSUME NEW g \in Hosts, pc'[g] \in Starting
        PROVE  /\ loc'[g].round <= reached'[SessionOf[g]]
               /\ pc'[g] = "demoNext" <=> Kind[SessionOf[g]] = "demo"
               /\ g \notin outrun' =>
                    /\ loc'[g].round = session'[SessionOf[g]].round
                    /\ pc'[g] = "start" =>
                         \/ session'[SessionOf[g]].phase \in {"waiting", "scoring"}
                         \/ session'[SessionOf[g]].phase = "playing" /\ Kind[SessionOf[g]] = "solo"
    BY DEF HostFresh
  <2>2. g # h /\ pc'[g] = pc[g] /\ loc'[g] = loc[g] /\ SessionOf[g] \in Sessions
    BY <2>1, HostType DEF Writes
  <2>3. loc[g].round \in Nat
    BY <2>2, HostType DEF TypeOK, LocType
  <2>4. loc'[g].round <= reached'[SessionOf[g]] /\ (pc'[g] = "demoNext" <=> Kind[SessionOf[g]] = "demo")
    BY <1>4, <2>1, <2>2, <2>3 DEF HostFresh
  <2>5. CASE SessionOf[g] = s
    BY <1>6, <2>1, <2>2, <2>4, <2>5 DEF Overtakes
  <2>6. CASE SessionOf[g] # s
    <3>1. g \notin outrun' => g \notin outrun
      BY <1>6, <2>2 DEF Overtakes
    <3> QED
      BY <1>3, <2>1, <2>2, <2>4, <2>6, <3>1 DEF HostFresh
  <2> QED
    BY <2>5, <2>6
<1>8. /\ \A t \in Sessions, r \in Rounds : flips'[t][r] \in {0, flips[t][r]}
      /\ \A t \in Sessions : t # s => flips'[t] = flips[t]
      /\ row.phase = "playing" => row.round \in Rounds /\ flips'[s][row.round] = 0
      /\ row.phase # "playing" => row.phase = "finished" /\ row.round = NumRounds
  <2>1. CASE Plays(h, row)
    <3>1. flips' = [flips EXCEPT ![s][row.round] = 0]
      BY <2>1 DEF Plays, PutsIntoPlay
    <3> QED
      BY <1>2, <2>1, <3>1 DEF Plays, TypeOK
  <2>2. CASE Finishes(h, row)
    BY <2>2 DEF Finishes
  <2> QED
    BY <1>1, <2>1, <2>2
<1>9. EndsInOrder'
  <2>1. SUFFICES ASSUME NEW t \in Sessions
        PROVE  /\ session'[t].round <= reached'[t]
               /\ session'[t].phase = "playing" =>
                    session'[t].round \in Rounds /\ flips'[t][session'[t].round] = 0
               /\ session'[t].phase = "finished" => session'[t].round = NumRounds
    BY DEF EndsInOrder
  <2>2. CASE t = s
    BY <1>3, <1>5, <1>8, <2>2
  <2>3. CASE t # s
    <3>1. session[t].round \in Nat
      BY DEF TypeOK, RowType
    <3> QED
      BY <1>3, <1>4, <1>8, <2>3, <3>1 DEF EndsInOrder
  <2> QED
    BY <2>2, <2>3
<1>10. RoundEndsOnce'
  BY <1>8 DEF RoundEndsOnce
<1> QED
  BY <1>7, <1>9, <1>10

\* The write is a step of RoundProtocol, or changes nothing it sees.
LEMMA WriteLife ==
  ASSUME LifeInv, NEW h \in Hosts, Writes(h)
  PROVE  [Protocol!Next]_(Protocol!life)
<1> USE DEF LifeInv, TypeInv
<1> DEFINE s == SessionOf[h]
           phase == [t \in Sessions |-> session[t].phase]
           round == [t \in Sessions |-> session[t].round]
<1>1. PICK row \in RowType : /\ session' = [session EXCEPT ![s] = row]
                             /\ Plays(h, row) \/ Finishes(h, row)
  BY DEF Writes
<1>2. /\ s \in Sessions /\ session[s] \in RowType
      /\ loc[h].round \in Nat /\ reached[s] \in 0 .. NumRounds /\ pc[h] \in Starting
  BY HostType DEF TypeOK, LocType, Writes
<1>3. phase' = [phase EXCEPT ![s] = row.phase] /\ round' = [round EXCEPT ![s] = row.round]
  BY <1>1, <1>2, LifeUpdate
<1>4. Plays(h, row) => Protocol!Play(s, row.round)
  BY <1>3 DEF Plays, PutsIntoPlay, Protocol!Play
<1>5. Finishes(h, row) => Protocol!Over(s)
  BY <1>3 DEF Finishes, Protocol!Over
<1>6. CASE h \in outrun
  <2>1. s \in Outrun
    BY <1>6 DEF Outrun
  <2>2. loc[h].round <= reached[s]
    BY <1>2 DEF HostFresh
  <2>3. CASE Plays(h, row)
    <3>1. row.round \in 1 .. NumRounds /\ row.round <= reached[s] + 1
      BY <1>2, <2>2, <2>3 DEF Plays, Rounds
    <3> QED
      BY <1>2, <1>4, <2>1, <2>3, <3>1 DEF Protocol!Repeat, Protocol!Next
  <2>4. CASE Finishes(h, row)
    <3>1. reached[s] = NumRounds
      BY <1>2, <2>2, <2>4, BoundAssumption DEF Finishes
    <3> QED
      BY <1>2, <1>5, <2>1, <2>4, <3>1 DEF Protocol!Repeat, Protocol!Next
  <2> QED
    BY <1>1, <2>3, <2>4
<1>7. CASE h \notin outrun /\ session[s].phase = "finished"
  <2>1. session[s].round = NumRounds /\ loc[h].round = NumRounds
    BY <1>2, <1>7 DEF HostFresh, EndsInOrder
  <2>2. Finishes(h, row)
    BY <1>1, <2>1, BoundAssumption DEF Plays, Rounds
  <2>3. row.phase = phase[s] /\ row.round = round[s] /\ UNCHANGED reached
    BY <1>2, <1>7, <2>1, <2>2 DEF Finishes
  <2>4. phase' = phase /\ round' = round
    BY <1>2, <1>3, <2>3
  <2> QED
    BY <2>3, <2>4 DEF Protocol!life
<1>8. CASE h \notin outrun /\ session[s].phase # "finished"
  <2>1. loc[h].round = session[s].round
    BY <1>2, <1>8 DEF HostFresh
  <2>2. Protocol!MayAdvance(s)
    <3>1. session[s].phase \in {"waiting", "scoring"} \/ (session[s].phase = "playing" /\ Kind[s] # "multi")
      BY <1>2, <1>8, SessionAssumption DEF HostFresh, RowType, Phases, Starting
    <3> QED
      BY <1>2, <3>1 DEF Protocol!MayAdvance
  <2>3. CASE Plays(h, row)
    <3>1. session[s].round < NumRounds /\ row.round = session[s].round + 1
      BY <1>2, <2>1, <2>3, BoundAssumption DEF Plays, Rounds
    <3>2. /\ phase' = [phase EXCEPT ![s] = "playing"]
          /\ round' = [round EXCEPT ![s] = session[s].round + 1]
          /\ LET r == session[s].round + 1 IN
               reached' = [reached EXCEPT ![s] = IF r > @ THEN r ELSE @]
      BY <1>3, <2>3, <3>1 DEF Plays, PutsIntoPlay
    <3>3. Protocol!Begin(s)
      BY <1>2, <2>2, <3>1, <3>2 DEF Protocol!Begin, Protocol!Play
    <3> QED
      BY <1>2, <3>3 DEF Protocol!Next
  <2>4. CASE Finishes(h, row)
    <3>1. session[s].round = NumRounds
      BY <2>1, <2>4 DEF Finishes
    <3>2. Protocol!Finish(s)
      BY <1>2, <1>5, <2>2, <2>4, <3>1 DEF Protocol!Finish
    <3> QED
      BY <1>2, <3>2 DEF Protocol!Next
  <2> QED
    BY <1>1, <2>3, <2>4
<1> QED
  BY <1>6, <1>7, <1>8

\* Every step keeps the life cycle and is a step of RoundProtocol or invisible to it.
LEMMA LifeStep ==
  ASSUME LifeInv, [Next]_vars
  PROVE  LifeInv' /\ [Protocol!Next]_(Protocol!life)
<1> DEFINE Goal == (HostFresh /\ EndsInOrder /\ RoundEndsOnce)' /\ [Protocol!Next]_(Protocol!life)
<1> USE DEF TypeInv, LifeInv, history, Starting
<1>t. TypeInv'
  BY TypeStep
<1>c. ASSUME RowsStay, HostsStay, UNCHANGED <<flips, reached>>
      PROVE  Goal
  BY <1>c, CalmStep, CalmLife
<1>1. ASSUME NEW p \in Players, NEW r \in Rounds, SubmitRoute(p, r)
      PROVE  Goal
  <2>1. p \in Procs /\ HostsStay
    BY <1>1, GotoStays DEF Procs, SubmitRoute
  <2> QED
    BY <1>1, <1>c, <2>1 DEF SubmitRoute, RowsStay
<1>2. ASSUME NEW p \in Players, SubmitStep(p)
      PROVE  Goal
  <2>1. p \in Procs
    BY DEF Procs
  <2>2. HostsStay
    BY <1>2, <2>1, GotoStays, ReturnStays
    DEF SubmitStep, ReadRoster, CheckDuplicate, CreateTeamRoute, TallyTeams
  <2>3. RowsStay /\ UNCHANGED <<flips, reached>>
    BY <1>2 DEF SubmitStep, ReadRoster, CheckDuplicate, CreateTeamRoute, TallyTeams, RowsStay
  <2> QED
    BY <1>c, <2>2, <2>3
<1>3. ASSUME NEW p \in Procs, EndRoundStep(p)
      PROVE  Goal
  <2>1. CASE EndRoundIfPlaying(p)
    BY <2>1, EndStep
  <2>2. CASE ReloadSession(p) \/ RevealScoring(p) \/ ReadScores(p) \/ PublishScores(p)
    <3>1. HostsStay
      BY <2>2, GotoStays, ReturnStays DEF ReloadSession, RevealScoring, ReadScores, PublishScores
    <3>2. RowsStay /\ UNCHANGED <<flips, reached>>
      BY <2>2 DEF ReloadSession, RevealScoring, ReadScores, PublishScores, RowsStay
    <3> QED
      BY <1>c, <3>1, <3>2
  <2> QED
    BY <1>3, <2>1, <2>2 DEF EndRoundStep
<1>4. ASSUME NEW h \in Hosts, StartGame(h) \/ DemoNextRound(h)
      PROVE  Goal
  <2>1. h \in Procs /\ SessionOf[h] \in Sessions
    BY HostType
  <2>2. \A g \in Hosts : g # h => pc'[g] = pc[g] /\ loc'[g] = loc[g]
    BY <1>4, <2>1, HostType DEF StartGame, DemoNextRound, Goto, TypeOK
  <2>3. loc'[h].round = session[SessionOf[h]].round /\ UNCHANGED <<session, flips, reached, outrun>>
    BY <1>4, <2>1 DEF StartGame, DemoNextRound, Goto, TypeOK, Blank
  <2>4. \/ pc'[h] = "demoNext" /\ Kind[SessionOf[h]] = "demo"
        \/ /\ pc'[h] = "start" /\ Kind[SessionOf[h]] # "demo"
           /\ \/ session[SessionOf[h]].phase \in {"waiting", "scoring"}
              \/ session[SessionOf[h]].phase = "playing" /\ Kind[SessionOf[h]] = "solo"
    BY <1>4, <2>1, SessionAssumption DEF StartGame, DemoNextRound, Goto, TypeOK, IsSolo
  <2>5. session[SessionOf[h]].round <= reached[SessionOf[h]]
    BY <2>1 DEF EndsInOrder
  <2>6. HostFresh'
    BY <2>2, <2>3, <2>4, <2>5 DEF HostFresh
  <2>7. EndsInOrder' /\ RoundEndsOnce'
    BY <2>3 DEF EndsInOrder, RoundEndsOnce
  <2>8. RowsStay
    BY <2>3 DEF RowsStay
  <2> QED
    BY <2>3, <2>6, <2>7, <2>8, CalmLife
<1>5. ASSUME NEW h \in Hosts, EndRound(h) \/ AnnounceRound(h) \/ AnnounceFinish(h)
      PROVE  Goal
  <2>1. HostsStay
    BY <1>5, HostType, GotoStays, ReturnStays DEF EndRound, AnnounceRound, AnnounceFinish
  <2>2. RowsStay /\ UNCHANGED <<flips, reached>>
    BY <1>5 DEF EndRound, AnnounceRound, AnnounceFinish, RowsStay
  <2> QED
    BY <1>c, <2>1, <2>2
<1>6. ASSUME NEW h \in Hosts, StartRound(h) \/ FinishGame(h) \/ AdvanceDemo(h)
      PROVE  Goal
  BY <1>6, HostWrites, WriteKeeps, WriteLife
<1>9. ASSUME TickerStep
      PROVE  Goal
  <2>1. Ticker \in Procs
    BY DEF Procs
  <2>2. HostsStay
    BY <1>9, <2>1, GotoStays DEF TickerStep, TickerQuery, TickerNext, HostsStay
  <2>3. RowsStay /\ UNCHANGED <<flips, reached>>
    BY <1>9 DEF TickerStep, TickerQuery, TickerNext, RowsStay
  <2> QED
    BY <1>c, <2>2, <2>3
<1>10. ASSUME NEW s \in Sessions, Expire(s)
       PROVE  Goal
  <2>1. HostsStay /\ UNCHANGED <<flips, reached>>
    BY <1>10 DEF Expire, HostsStay
  <2>2. RowsStay
    BY <1>10 DEF Expire, RowsStay, TypeOK, RowType
  <2> QED
    BY <1>c, <2>1, <2>2
<1>11. ASSUME Moderate \/ Signal \/ UNCHANGED vars
       PROVE  Goal
  <2>1. HostsStay /\ RowsStay /\ UNCHANGED <<flips, reached>>
    BY <1>11 DEF Moderate, KickPlayer, ClearRoute, JoinTeam, Signal, vars, HostsStay, RowsStay
  <2> QED
    BY <1>c, <2>1
<1>12. ASSUME Fault
       PROVE  Goal
  <2>1. HostsStay
    BY <1>12, ReturnStays, HostType DEF Fault, Crash, StoreError, HostsStay
  <2>2. RowsStay /\ UNCHANGED <<flips, reached>>
    BY <1>12 DEF Fault, Crash, StoreError, RowsStay
  <2> QED
    BY <1>c, <2>1, <2>2
<1>13. Goal
  BY <1>1, <1>2, <1>3, <1>4, <1>5, <1>6, <1>9, <1>10, <1>11, <1>12
  DEF Next, Play, HostStep
<1> QED
  BY <1>t, <1>13

\* Whatever is in flight, crashes or is moderated, and however many starts of a session
\* overlap, no round is ended and revealed twice for one start.
THEOREM RoundsEndOnce == Spec => []RoundEndsOnce
<1>1. Init => LifeInv
  BY LifeInit
<1>2. LifeInv /\ [Next]_vars => LifeInv'
  BY LifeStep
<1>3. LifeInv => RoundEndsOnce
  BY DEF LifeInv
<1> QED
  BY <1>1, <1>2, <1>3, PTL DEF Spec

\* The handlers, cut at their database calls, implement RoundProtocol, with any number
\* of requests of each guide in flight.
THEOREM RoundsFollowProtocol == Spec => ImplementsProtocol
<1>1. Init => LifeInv /\ Protocol!Init
  BY LifeInit
<1>2. LifeInv /\ [Next]_vars => LifeInv' /\ [Protocol!Next]_(Protocol!life)
  BY LifeStep
<1> QED
  BY <1>1, <1>2, PTL DEF Spec, ImplementsProtocol, Protocol!Spec

\* Nothing but a start that another start of the session has outrun puts a finished
\* game back into play: not the ticker, not a late submission, not EndRound.
THEOREM FinishedStaysFinished == Spec => FinishedStays
<1> DEFINE Kept == \A s \in Sessions : session[s].phase = "finished" /\ s \notin Outrun
                                         => session'[s].phase = "finished"
<1>1. Init => LifeInv
  BY LifeInit
<1>2. LifeInv /\ [Next]_vars => LifeInv' /\ [Protocol!Next]_(Protocol!life)
  BY LifeStep
<1>3. ASSUME [Protocol!Next]_(Protocol!life), NEW s \in Sessions, session[s].phase = "finished",
             s \notin Outrun
      PROVE  session'[s].phase = "finished"
  <2> DEFINE p == [t \in Sessions |-> session[t].phase]
  <2>1. p[s] = "finished" /\ p'[s] = session'[s].phase
    BY <1>3
  <2>2. CASE UNCHANGED Protocol!life
    BY <2>1, <2>2 DEF Protocol!life
  <2>3. ASSUME NEW t \in Sessions,
               Protocol!Begin(t) \/ Protocol!End(t) \/ Protocol!Finish(t) \/ Protocol!Repeat(t)
        PROVE  p'[s] = "finished"
    <3>1. s # t \/ Protocol!Finish(t)
      BY <1>3, <2>1, <2>3
      DEF Protocol!Begin, Protocol!End, Protocol!Finish, Protocol!Repeat, Protocol!MayAdvance
    <3>2. \E x : p' = [p EXCEPT ![t] = x] /\ (Protocol!Finish(t) => x = "finished")
      BY <2>3 DEF Protocol!Begin, Protocol!End, Protocol!Finish, Protocol!Repeat, Protocol!Play,
                  Protocol!Over
    <3> QED
      BY <1>3, <2>1, <3>1, <3>2
  <2> QED
    BY <1>3, <2>1, <2>2, <2>3 DEF Protocol!Next
<1>4. LifeInv /\ [Next]_vars => [Kept]_vars
  BY <1>2, <1>3
<1> QED
  BY <1>1, <1>4, <1>2, PTL DEF Spec, FinishedStays

-----------------------------------------------------------------------------
(* The last submission ends the round                                      *)

\* Every team with players has a route for the round that is being played, and the
\* session had submitted none for it when it was put into play.
Complete(s) ==
  /\ Kind[s] = "multi"
  /\ session[s].phase = "playing"
  /\ s \notin carried
  /\ RosterOf(s) # {}
  /\ \A t \in RosterOf(s) : HasRoute(t, session[s].round)

\* A submission that will still end, or still count, the round being played.
Due(p) ==
  \/ pc[p] = "flip"
  \/ pc[p] = "tally" /\ loc[p].target = session[SessionOf[p]].round

\* What a player's request carries is still of use when it inserts: the players have
\* not changed, and if it is for the round being played, it was loaded with it.
PlayerOK(p) ==
  LET row == session[SessionOf[p]] IN
  /\ teamOf[p] # NoTeam => SessionOf[teamOf[p]] = SessionOf[p]
  /\ pc[p] \in {"check", "insert", "tally"} => loc[p].roster = RosterOf(SessionOf[p])
  /\ pc[p] \in {"roster", "check", "insert"} =>
       /\ SessionOf[loc[p].team] = SessionOf[p]
       /\ loc[p].target = row.round /\ row.phase = "playing" /\ SessionOf[p] \notin carried
            => loc[p].phase = "playing"

\* A complete round has a submission that will end it.
EndsEarly == \A s \in Sessions : Complete(s) => \E p \in Players : SessionOf[p] = s /\ Due(p)

EarlyInv == (\A p \in Players : PlayerOK(p)) /\ EndsEarly

\* A round that is played after a step was played before it, or is put into play by it
\* and carried if there is a submission for it.
RowsAge ==
  \A s \in Sessions :
    \/ session'[s].phase # "playing"
    \/ SubmittedFor(s, session'[s].round) => s \in carried'
    \/ /\ session'[s].phase = session[s].phase /\ session'[s].round = session[s].round
       /\ s \in carried => s \in carried'

\* A request of p, if any, stays where it is.
Still(p) == pc'[p] = pc[p] /\ loc'[p] = loc[p]

\* Every player plays in a session.
LEMMA PlayerType == \A p \in Players : p \in Procs /\ SessionOf[p] \in Sessions
BY SessionAssumption DEF Procs

\* A request that moves on, or is answered, leaves the others where they are.
LEMMA OthersStill ==
  ASSUME TypeOK, NEW p \in Procs,
         Return(p) \/ \E label, data : Goto(p, label, data)
  PROVE  \A q \in Players : q # p => Still(q)
BY PlayerType DEF TypeOK, Return, Goto, Still

\* What is read of the players depends on the players alone.
LEMMA RosterStays ==
  ASSUME UNCHANGED <<teamOf, present>>
  PROVE  \A s \in Sessions : RosterOf(s)' = RosterOf(s)
BY DEF RosterOf

\* A team with players is one of its session's.
LEMMA RosterOwn ==
  ASSUME TypeOK, \A p \in Players : PlayerOK(p), NEW s \in Sessions, NEW t \in RosterOf(s)
  PROVE  SessionOf[t] = s
BY DEF TypeOK, RosterOf, PlayerOK

\* A request that stays where it is carries what it carried.
LEMMA StillOK ==
  ASSUME TypeOK, RowsAge, NEW p \in Players, PlayerOK(p), Still(p),
         UNCHANGED <<teamOf, present>>
  PROVE  PlayerOK(p)'
<1>1. SessionOf[p] \in Sessions /\ p \in Procs
  BY PlayerType
<1>2. teamOf'[p] # NoTeam => SessionOf[teamOf'[p]] = SessionOf[p]
  BY DEF PlayerOK
<1>3. pc'[p] \in {"check", "insert", "tally"} => loc'[p].roster = RosterOf(SessionOf[p])'
  <2>1. RosterOf(SessionOf[p])' = RosterOf(SessionOf[p])
    BY <1>1, RosterStays
  <2> QED
    BY <2>1 DEF PlayerOK, Still
<1>4. ASSUME pc'[p] \in {"roster", "check", "insert"},
             loc'[p].target = session'[SessionOf[p]].round,
             session'[SessionOf[p]].phase = "playing", SessionOf[p] \notin carried'
      PROVE  loc'[p].phase = "playing"
  <2>1. SubmittedFor(SessionOf[p], session'[SessionOf[p]].round)
    BY <1>4 DEF SubmittedFor, Still
  <2>2. /\ session'[SessionOf[p]].phase = session[SessionOf[p]].phase
        /\ session'[SessionOf[p]].round = session[SessionOf[p]].round
        /\ SessionOf[p] \notin carried
    BY <1>1, <1>4, <2>1 DEF RowsAge
  <2> QED
    BY <1>4, <2>2 DEF PlayerOK, Still
<1>5. pc'[p] \in {"roster", "check", "insert"} => SessionOf[loc'[p].team] = SessionOf[p]
  BY DEF PlayerOK, Still
<1> QED
  BY <1>2, <1>3, <1>4, <1>5 DEF PlayerOK

\* A step that stores no route completes no round; if it leaves a complete round
\* being played, it leaves a submission that ends it.
LEMMA EndsKept ==
  ASSUME TypeOK, EarlyInv, RowsAge, UNCHANGED <<routes, teamOf, present>>,
         \A p \in Players :
           Due(p) /\ Complete(SessionOf[p]) /\ Complete(SessionOf[p])' /\ UNCHANGED session[SessionOf[p]].round
             => Due(p)'
  PROVE  EndsEarly'
<1> USE DEF EarlyInv
<1>1. SUFFICES ASSUME NEW s \in Sessions, Complete(s)'
      PROVE  \E p \in Players : SessionOf[p] = s /\ Due(p)'
  BY DEF EndsEarly
<1>2. RosterOf(s)' = RosterOf(s)
  BY RosterStays
<1>3. SubmittedFor(s, session'[s].round)
  <2>1. PICK t \in RosterOf(s) : TRUE
    BY <1>1, <1>2 DEF Complete
  <2>2. SessionOf[t] = s
    BY <2>1, RosterOwn
  <2>3. PICK rt \in routes : rt.round = session'[s].round /\ rt.team = t
    BY <1>1, <1>2, <2>1 DEF Complete, HasRoute
  <2> QED
    BY <2>2, <2>3 DEF SubmittedFor
<1>4. /\ session'[s].phase = session[s].phase /\ session'[s].round = session[s].round
      /\ s \notin carried
  BY <1>1, <1>3 DEF RowsAge, Complete
<1>5. Complete(s)
  BY <1>1, <1>2, <1>4 DEF Complete, HasRoute
<1>6. PICK p \in Players : SessionOf[p] = s /\ Due(p)
  BY <1>5 DEF EndsEarly
<1> QED
  BY <1>1, <1>4, <1>5, <1>6

\* A step that leaves the players' requests and rows alone.
LEMMA PlayersRest ==
  ASSUME TypeOK, EarlyInv, RowsAge, UNCHANGED <<routes, teamOf, present>>,
         \A p \in Players : Still(p)
  PROVE  EarlyInv'
<1>1. \A p \in Players : PlayerOK(p)'
  BY StillOK DEF EarlyInv
<1>2. \A p \in Players : Due(p) /\ UNCHANGED session[SessionOf[p]].round => Due(p)'
  BY DEF Due, Still
<1>3. EndsEarly'
  BY <1>2, EndsKept
<1> QED
  BY <1>1, <1>3 DEF EarlyInv

\* A player's request that moves on without storing a route disturbs no other.
LEMMA PlayerMoves ==
  ASSUME TypeOK, EarlyInv, UNCHANGED <<session, routes, teamOf, present, carried>>,
         NEW p \in Players, PlayerOK(p)',
         \A q \in Players : q # p => Still(q),
         Due(p) /\ Complete(SessionOf[p]) => Due(p)'
  PROVE  EarlyInv'
<1>1. RowsAge
  BY DEF RowsAge
<1>2. \A q \in Players : PlayerOK(q)'
  BY <1>1, StillOK DEF EarlyInv
<1>3. \A q \in Players : Due(q) /\ Complete(SessionOf[q]) => Due(q)'
  BY DEF Due, Still
<1>4. EndsEarly'
  BY <1>1, <1>3, EndsKept
<1> QED
  BY <1>2, <1>4 DEF EarlyInv

\* The steps of SubmitRoute that store nothing.
LEMMA SubmitMoves ==
  ASSUME TypeInv, EarlyInv, NEW p \in Players,
         \/ \E r \in Rounds : SubmitRoute(p, r)
         \/ ReadRoster(p) \/ CheckDuplicate(p) \/ TallyTeams(p)
  PROVE  EarlyInv'
<1> USE DEF TypeInv
<1>1. p \in Procs /\ SessionOf[p] \in Sessions /\ PlayerOK(p)
  BY PlayerType DEF EarlyInv
<1>2. UNCHANGED <<session, routes, teamOf, present, carried>>
  BY DEF SubmitRoute, ReadRoster, CheckDuplicate, TallyTeams, history
<1>3. \A q \in Players : q # p => Still(q)
  <2>1. Return(p) \/ \E label, data : Goto(p, label, data)
    BY DEF SubmitRoute, ReadRoster, CheckDuplicate, TallyTeams
  <2> QED
    BY <1>1, <2>1, OthersStill
<1>4. RosterOf(SessionOf[p])' = RosterOf(SessionOf[p])
  BY <1>1, <1>2, RosterStays
<1>5. ASSUME NEW r \in Rounds, SubmitRoute(p, r)
      PROVE  EarlyInv'
  <2>1. pc[p] = "idle" /\ pc'[p] = "roster"
    BY <1>1, <1>5 DEF SubmitRoute, Goto, TypeOK
  <2>2. /\ loc'[p].team = teamOf[p]
        /\ loc'[p].target = r
        /\ loc'[p].phase = session[SessionOf[p]].phase
    BY <1>1, <1>5 DEF SubmitRoute, Goto, TypeOK, Blank
  <2>3. session[SessionOf[p]].phase \in {"playing", "scoring"} /\ SessionOf[teamOf[p]] = SessionOf[p]
    BY <1>5 DEF SubmitRoute
  <2>4. PlayerOK(p)'
    BY <1>1, <1>2, <2>1, <2>2, <2>3 DEF PlayerOK
  <2> QED
    BY <1>2, <1>3, <2>1, <2>4, PlayerMoves DEF Due
<1>6. ASSUME ReadRoster(p)
      PROVE  EarlyInv'
  <2>1. pc[p] = "roster" /\ pc'[p] = "check"
    BY <1>1, <1>6 DEF ReadRoster, Goto, TypeOK
  <2>2. /\ loc'[p].team = loc[p].team
        /\ loc'[p].target = loc[p].target
        /\ loc'[p].phase = loc[p].phase
        /\ loc'[p].roster = RosterOf(SessionOf[p])
    BY <1>1, <1>6 DEF ReadRoster, Goto, TypeOK, LocType
  <2>3. PlayerOK(p)'
    BY <1>1, <1>2, <1>4, <2>1, <2>2 DEF PlayerOK
  <2> QED
    BY <1>2, <1>3, <2>1, <2>3, PlayerMoves DEF Due
<1>7. ASSUME CheckDuplicate(p)
      PROVE  EarlyInv'
  <2>1. pc[p] = "check"
    BY <1>7 DEF CheckDuplicate
  <2>2. \/ pc'[p] = "idle"
        \/ pc'[p] = "insert" /\ loc'[p] = loc[p]
    BY <1>1, <1>7 DEF CheckDuplicate, Goto, Return, TypeOK
  <2>3. PlayerOK(p)'
    BY <1>1, <1>2, <1>4, <2>1, <2>2 DEF PlayerOK
  <2> QED
    BY <1>2, <1>3, <2>1, <2>3, PlayerMoves DEF Due
<1>8. ASSUME TallyTeams(p)
      PROVE  EarlyInv'
  <2>1. pc[p] = "tally" /\ pc'[p] \in {"flip", "idle"}
    BY <1>1, <1>8 DEF TallyTeams, Goto, Return, TypeOK
  <2>2. PlayerOK(p)'
    BY <1>1, <1>2, <2>1 DEF PlayerOK
  <2>3. ASSUME Due(p), Complete(SessionOf[p])
        PROVE  Due(p)'
    <3>1. loc[p].target = session[SessionOf[p]].round /\ loc[p].roster = RosterOf(SessionOf[p])
      BY <1>1, <2>1, <2>3 DEF Due, PlayerOK
    <3>2. AllTeamsSubmitted(loc[p].roster, RoutesOf(loc[p].target))
      BY <2>3, <3>1 DEF Complete, HasRoute, AllTeamsSubmitted, RoutesOf
    <3>3. pc'[p] = "flip"
      BY <1>1, <1>8, <3>2 DEF TallyTeams, Goto, TypeOK
    <3> QED
      BY <3>3 DEF Due
  <2> QED
    BY <1>2, <1>3, <2>2, <2>3, PlayerMoves
<1> QED
  BY <1>5, <1>6, <1>7, <1>8

\* A submission that stores the route that completes the round being played goes on
\* to count it, with the players and the round that make it complete.
LEMMA InsertCounts ==
  ASSUME TypeInv, EarlyInv, NEW p \in Players, CreateTeamRoute(p)
  PROVE  EarlyInv'
<1> USE DEF TypeInv
<1> DEFINE s == SessionOf[p]
<1>1. p \in Procs /\ s \in Sessions /\ PlayerOK(p) /\ pc[p] = "insert"
  BY PlayerType DEF EarlyInv, CreateTeamRoute
<1>2. UNCHANGED <<session, teamOf, present, carried>>
  BY DEF CreateTeamRoute, history
<1>3. \A q \in Players : q # p => Still(q)
  <2>1. Return(p) \/ \E label, data : Goto(p, label, data)
    BY DEF CreateTeamRoute
  <2> QED
    BY <1>1, <2>1, OthersStill
<1>4. pc'[p] \in {"idle", "scores", "tally"}
  BY <1>1 DEF CreateTeamRoute, Goto, Return, TypeOK
<1>5. SessionOf[loc[p].team] = s /\ loc[p].roster = RosterOf(s)
  BY <1>1 DEF PlayerOK
<1>6. RosterOf(s)' = RosterOf(s)
  BY <1>1, <1>2, RosterStays
<1>7. pc'[p] = "tally" => loc'[p].target = loc[p].target /\ loc'[p].roster = loc[p].roster
  <2>1. \/ Return(p)
        \/ Goto(p, "scores", [Blank EXCEPT !.round = loc[p].round])
        \/ Goto(p, "tally", [Blank EXCEPT !.target = loc[p].target, !.roster = loc[p].roster])
    BY DEF CreateTeamRoute
  <2>2. CASE Return(p) \/ Goto(p, "scores", [Blank EXCEPT !.round = loc[p].round])
    BY <1>1, <2>2 DEF Return, Goto, TypeOK
  <2>3. CASE Goto(p, "tally", [Blank EXCEPT !.target = loc[p].target, !.roster = loc[p].roster])
    BY <1>1, <2>3 DEF Goto, TypeOK, Blank
  <2> QED
    BY <2>1, <2>2, <2>3
<1>8. PlayerOK(p)'
  BY <1>1, <1>2, <1>4, <1>5, <1>6, <1>7 DEF PlayerOK
<1>9. RowsAge
  BY <1>2 DEF RowsAge
<1>10. \A q \in Players : PlayerOK(q)'
  BY <1>2, <1>3, <1>8, <1>9, StillOK DEF EarlyInv
<1>11. CASE UNCHANGED routes
  <2>1. \A q \in Players : Due(q) => Due(q)'
    BY <1>1, <1>2, <1>3 DEF Due, Still
  <2> QED
    BY <1>2, <1>9, <1>10, <1>11, <2>1, EndsKept DEF EarlyInv
<1>12. CASE ~UNCHANGED routes
  <2> DEFINE new == [round |-> loc[p].target, team |-> loc[p].team, by |-> p]
  <2>1. routes' = routes \cup {new}
    BY <1>12 DEF CreateTeamRoute
  <2>3. ASSUME NEW z \in Sessions, Complete(z)'
        PROVE  \E q \in Players : SessionOf[q] = z /\ Due(q)'
    <3>1. RosterOf(z)' = RosterOf(z)
      BY <1>2, RosterStays
    <3>2. CASE Complete(z)
      <4>1. PICK q \in Players : SessionOf[q] = z /\ Due(q)
        BY <3>2 DEF EarlyInv, EndsEarly
      <4>2. q # p
        BY <1>1, <4>1 DEF Due
      <4> QED
        BY <1>2, <1>3, <4>1, <4>2 DEF Due, Still
    <3>3. CASE ~Complete(z)
      <4>1. PICK t \in RosterOf(z) : ~HasRoute(t, session[z].round)
        BY <1>2, <2>3, <3>1, <3>3 DEF Complete
      <4>2. HasRoute(t, session[z].round)'
        BY <1>2, <2>3, <3>1, <4>1 DEF Complete
      <4>3. loc[p].team = t /\ loc[p].target = session[z].round
        BY <1>2, <2>1, <4>1, <4>2 DEF HasRoute
      <4>4. SessionOf[t] = z
        BY <4>1, RosterOwn DEF EarlyInv
      <4>5. z = s
        BY <1>5, <4>3, <4>4
      <4>6. loc[p].phase # "scoring"
        <5>1. session[s].phase = "playing" /\ s \notin carried
          BY <1>2, <2>3, <4>5 DEF Complete
        <5> QED
          BY <1>1, <4>3, <4>5, <5>1 DEF PlayerOK
      <4>7. ~IsSolo(s)
        BY <2>3, <4>5 DEF Complete, IsSolo
      <4>8. pc'[p] = "tally"
        BY <1>1, <1>12, <4>6, <4>7 DEF CreateTeamRoute, Goto, TypeOK
      <4> QED
        BY <1>2, <1>7, <4>3, <4>5, <4>8 DEF Due
    <3> QED
      BY <3>2, <3>3
  <2> QED
    BY <1>10, <2>3 DEF EarlyInv, EndsEarly
<1> QED
  BY <1>11, <1>12

\* endRound's write ends the round: nothing is left to do for it.
LEMMA EndSettles ==
  ASSUME TypeInv, EarlyInv, NEW p \in Procs, EndRoundStep(p)
  PROVE  EarlyInv'
<1> USE DEF TypeInv
<1>1. UNCHANGED <<routes, teamOf, present, carried>>
  BY DEF EndRoundStep, EndRoundIfPlaying, ReloadSession, RevealScoring, ReadScores, PublishScores,
         history
<1>2. \A q \in Players : q # p => Still(q)
  <2>1. Return(p) \/ \E label, data : Goto(p, label, data)
    BY DEF EndRoundStep, EndRoundIfPlaying, ReloadSession, RevealScoring, ReadScores, PublishScores
  <2> QED
    BY <2>1, OthersStill
<1>3. pc[p] \in {"flip", "reload", "reveal", "scores", "publish"}
  BY DEF EndRoundStep, EndRoundIfPlaying, ReloadSession, RevealScoring, ReadScores, PublishScores
<1>4. pc'[p] \in {"reload", "reveal", "scores", "publish", "idle"}
  BY DEF EndRoundStep, EndRoundIfPlaying, ReloadSession, RevealScoring, ReadScores, PublishScores,
         Goto, Return, TypeOK
<1>5. PICK z \in Sessions : z = At(p)
  BY AtType
<1>6. CASE pc[p] = "flip" /\ session[z].phase = "playing"
  <2>1. session' = [session EXCEPT ![z].phase = "scoring"]
    BY <1>5, <1>6 DEF EndRoundStep, EndRoundIfPlaying, ReloadSession, RevealScoring, ReadScores,
                      PublishScores
  <2>2. /\ session'[z].phase = "scoring" /\ session'[z].round = session[z].round
        /\ \A s \in Sessions : s # z => session'[s] = session[s]
    BY <2>1 DEF TypeOK, RowType
  <2>3. RowsAge
    BY <1>1, <2>2 DEF RowsAge
  <2>4. \A q \in Players : PlayerOK(q)'
    <3>1. ASSUME NEW q \in Players, q = p
          PROVE  PlayerOK(q)'
      BY <1>1, <1>4, <3>1 DEF EarlyInv, PlayerOK
    <3> QED
      BY <1>1, <1>2, <2>3, <3>1, StillOK DEF EarlyInv
  <2>5. ASSUME NEW q \in Players, Due(q), Complete(SessionOf[q])', UNCHANGED session[SessionOf[q]].round
        PROVE  Due(q)'
    <3>1. q # p
      BY <1>5, <2>2, <2>5, ProcAssumption DEF Complete, At
    <3> QED
      BY <1>2, <2>5, <3>1 DEF Due, Still
  <2>6. EndsEarly'
    BY <1>1, <2>3, <2>5, EndsKept
  <2> QED
    BY <2>4, <2>6 DEF EarlyInv
<1>7. CASE ~(pc[p] = "flip" /\ session[z].phase = "playing")
  <2>1. UNCHANGED session
    BY <1>5, <1>7 DEF EndRoundStep, EndRoundIfPlaying, ReloadSession, RevealScoring, ReadScores,
                      PublishScores
  <2>2. CASE p \in Players
    <3>1. PlayerOK(p)'
      BY <1>1, <1>4, <2>2 DEF EarlyInv, PlayerOK
    <3>2. ~(Due(p) /\ Complete(SessionOf[p]))
      BY <1>3, <1>5, <1>7, <2>2, ProcAssumption DEF Due, Complete, At
    <3> QED
      BY <1>1, <1>2, <2>1, <2>2, <3>1, <3>2, PlayerMoves
  <2>3. CASE p \notin Players
    <3>1. RowsAge
      BY <1>1, <2>1 DEF RowsAge
    <3> QED
      BY <1>1, <1>2, <2>3, <3>1, PlayersRest
  <2> QED
    BY <2>2, <2>3
<1> QED
  BY <1>6, <1>7

\* A host's steps: what it puts into play is carried if there is a submission for it.
LEMMA HostsAge ==
  ASSUME TypeInv, EarlyInv, NEW h \in Hosts,
         StartGame(h) \/ EndRound(h) \/ DemoNextRound(h) \/ HostStep(h)
  PROVE  EarlyInv'
<1> USE DEF TypeInv
<1> DEFINE s == SessionOf[h]
<1>1. h \in Procs /\ s \in Sessions /\ h \notin Players
  BY HostType, ProcAssumption
<1>2. UNCHANGED <<routes, teamOf, present>>
  BY DEF StartGame, EndRound, DemoNextRound, HostStep, StartRound, AnnounceRound, FinishGame,
         AnnounceFinish, AdvanceDemo
<1>3. \A q \in Players : Still(q)
  <2>1. Return(h) \/ \E label, data : Goto(h, label, data)
    BY DEF StartGame, EndRound, DemoNextRound, HostStep, StartRound, AnnounceRound, FinishGame,
           AnnounceFinish, AdvanceDemo
  <2> QED
    BY <1>1, <2>1, OthersStill
<1>4. RowsAge
  <2>1. CASE StartGame(h) \/ EndRound(h) \/ DemoNextRound(h) \/ AnnounceRound(h) \/ AnnounceFinish(h)
    BY <2>1 DEF StartGame, EndRound, DemoNextRound, AnnounceRound, AnnounceFinish, RowsAge, history
  <2>2. CASE StartRound(h) \/ FinishGame(h) \/ AdvanceDemo(h)
    <3>1. PICK row \in RowType : /\ session' = [session EXCEPT ![s] = row]
                                 /\ Plays(h, row) \/ Finishes(h, row)
      BY <2>2, HostWrites DEF Writes
    <3>2. session'[s] = row /\ \A z \in Sessions : z # s => session'[z] = session[z]
      BY <1>1, <3>1 DEF TypeOK
    <3>3. \A z \in Sessions : z # s => (z \in carried' <=> z \in carried)
      BY <3>1 DEF Plays, Finishes, PutsIntoPlay
    <3>4. row.phase = "playing" => (SubmittedFor(s, row.round) => s \in carried')
      BY <3>1 DEF Plays, Finishes, PutsIntoPlay
    <3> QED
      BY <3>2, <3>3, <3>4 DEF RowsAge
  <2> QED
    BY <2>1, <2>2 DEF HostStep
<1> QED
  BY <1>2, <1>3, <1>4, PlayersRest

\* Nothing is in flight and no route is stored.
LEMMA EarlyInit == Init => EarlyInv
<1> SUFFICES ASSUME Init PROVE EarlyInv
  OBVIOUS
<1>1. \A p \in Players : PlayerOK(p)
  BY PlayerType, TeamAssumption DEF Init, PlayerOK
<1>2. EndsEarly
  BY DEF Init, EndsEarly, Complete, HasRoute
<1> QED
  BY <1>1, <1>2 DEF EarlyInv

\* No step of a game without moderation and failures forgets a complete round.
LEMMA EarlyStep ==
  ASSUME TypeInv, EarlyInv, [Play]_vars
  PROVE  EarlyInv'
<1>1. ASSUME NEW p \in Players, (\E r \in Rounds : SubmitRoute(p, r)) \/ SubmitStep(p)
      PROVE  EarlyInv'
  BY <1>1, SubmitMoves, InsertCounts DEF SubmitStep
<1>2. CASE TickerStep \/ (\E s \in Sessions : Expire(s)) \/ UNCHANGED vars
  <2>1. UNCHANGED <<routes, teamOf, present, carried>>
    BY <1>2 DEF TickerStep, TickerQuery, TickerNext, Expire, vars, history
  <2>2. \A q \in Players : Still(q)
    BY <1>2, OthersStill, ProcAssumption
    DEF TickerStep, TickerQuery, TickerNext, Expire, vars, Still, TypeInv, Procs
  <2>3. RowsStay
    <3>1. ASSUME NEW s \in Sessions, Expire(s)
          PROVE  RowsStay
      BY <3>1 DEF Expire, RowsStay, TypeInv, TypeOK, RowType
    <3>2. CASE TickerStep \/ UNCHANGED vars
      BY <3>2 DEF TickerStep, TickerQuery, TickerNext, vars, RowsStay
    <3> QED
      BY <1>2, <3>1, <3>2
  <2>4. RowsAge
    BY <2>1, <2>3 DEF RowsStay, RowsAge
  <2> QED
    BY <2>1, <2>2, <2>4, PlayersRest DEF TypeInv
<1> QED
  BY <1>1, <1>2, EndSettles, HostsAge DEF Play

\* When nothing is in flight, no submission is: the round is not complete.
LEMMA EarlyMeans == EarlyInv => EarlyEndNotMissed
<1> SUFFICES ASSUME EarlyInv, NEW s \in Sessions,
                    Kind[s] = "multi", session[s].phase = "playing", Quiet(s), s \notin carried,
                    NEW p \in present, SessionOf[p] = s, teamOf[p] # NoTeam,
                    \A q \in present : SessionOf[q] = s /\ teamOf[q] # NoTeam
                                         => HasRoute(teamOf[q], session[s].round)
             PROVE  FALSE
  BY DEF EarlyEndNotMissed
<1>1. Complete(s)
  BY DEF Complete, RosterOf
<1>2. PICK q \in Players : SessionOf[q] = s /\ Due(q)
  BY <1>1 DEF EarlyInv, EndsEarly
<1>3. q \in Procs /\ At(q) = s
  BY <1>2, ProcAssumption DEF Procs, At
<1> QED
  BY <1>2, <1>3 DEF Quiet, Due

\* However many submissions land together, and whenever guides and the ticker act, the
\* last one ends the round: none that is complete is left to its deadline, unless some
\* of its submissions were there before it was put into play.
THEOREM LastSubmissionEnds == PlaySpec => []EarlyEndNotMissed
<1>1. Init => TypeInv /\ EarlyInv
  BY TypeInit, EarlyInit
<1>2. TypeInv /\ EarlyInv /\ [Play]_vars => TypeInv' /\ EarlyInv'
  BY TypeStep, EarlyStep DEF Next
<1> QED
  BY <1>1, <1>2, EarlyMeans, PTL DEF PlaySpec

=============================================================================
