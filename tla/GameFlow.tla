------------------------------ MODULE GameFlow ------------------------------
(***************************************************************************)
(* The round life cycle of a sluff session: the HTTP handlers of           *)
(* handler/game.go and handler/guide_admin.go, the round ticker, and the   *)
(* rows of store/sqlite.go they share.                                     *)
(*                                                                         *)
(* Every handler is cut at its database calls: net/http runs each request  *)
(* in a goroutine of its own and no handler opens a transaction: SQLite    *)
(* makes each statement atomic, and nothing more.  What a handler read     *)
(* earlier (loc) may be stale when it writes.                              *)
(***************************************************************************)
EXTENDS Naturals, FiniteSets

CONSTANTS Sessions,   \* sessions, all playing the same map
          Kind,       \* [Sessions -> {"multi", "solo", "demo"}]
          NumRounds,  \* number of rounds of the map
          Teams,      \* team rows (fixed here; module Lobby creates them)
          Players,    \* player rows, each with the browser that posts for it
          Hosts,      \* streams of host requests: the guide's, or a demo browser's
          SessionOf,  \* the session of each team, player and host stream
          FirstTeam,  \* the team each player chose in the lobby, or NoTeam
          Ticker,     \* the goroutine of RunRoundTicker
          NoTeam,     \* a player's empty team_id
          MaxFaults   \* bound on crashes and store errors

Procs == Players \cup Hosts \cup {Ticker}
Rounds == 1 .. NumRounds
Phases == {"waiting", "playing", "scoring", "finished"}

ASSUME SessionAssumption ==
  /\ Sessions # {}
  /\ Kind \in [Sessions -> {"multi", "solo", "demo"}]
  /\ SessionOf \in [Teams \cup Players \cup Hosts -> Sessions]
ASSUME BoundAssumption == NumRounds \in Nat \ {0} /\ MaxFaults \in Nat
ASSUME ProcAssumption ==
  /\ Players \cap Hosts = {}
  /\ Ticker \notin Players \cup Hosts
ASSUME TeamAssumption ==
  /\ NoTeam \notin Teams
  /\ FirstTeam \in [Players -> Teams \cup {NoTeam}]
  /\ \A p \in Players : FirstTeam[p] # NoTeam => SessionOf[FirstTeam[p]] = SessionOf[p]

VARIABLES
  session,   \* sessions row: phase, current_round, round_ends_at against the clock
  routes,    \* team_routes rows: round, team, and the player whose request wrote it
  teamOf,    \* players.team_id, kept by the browser when its row is deleted
  present,   \* players that still have a row
  pc,        \* where each request (or the ticker) stands; "idle" is none in flight
  loc,       \* what the request in flight has read so far
  sweep,     \* the ticker's ids: those still to end, and the one being ended
  wire,      \* the screen of a client that receives every broadcast
  flips,     \* history: how often each round ended since it was last put into play
  reached,   \* history: the highest round the session has had
  outrun,    \* history: hosts whose row was written by another start since they read it
  carried,   \* history: sessions whose round was played with a submission of it at hand
  tickerUp,  \* FALSE once the ticker has seen its context cancelled
  faults     \* crashes and store errors so far

vars == <<session, routes, teamOf, present, pc, loc, sweep, wire, flips, reached, outrun,
          carried, tickerUp, faults>>

history == <<reached, outrun, carried>>

At(p) == IF p = Ticker THEN sweep.at ELSE SessionOf[p]
TeamsIn(s) == {t \in Teams : SessionOf[t] = s}
IsSolo(s) == Kind[s] # "multi"

\* Slip: withPlayers built without the p.TeamID != "" test.
RosterWithUnassigned(s) == {teamOf[p] : p \in {q \in present : SessionOf[q] = s}}

\* Teams a stored player row of the session belongs to (withPlayers).
RosterOf(s) ==
  {teamOf[p] : p \in {q \in present : SessionOf[q] = s /\ teamOf[q] # NoTeam}}

\* GetRoutesByRound selects by round_id alone, whatever the session.
RoutesOf(r) == {rt \in routes : rt.round = r}

AllTeamsSubmitted(roster, rts) ==
  /\ roster # {}
  /\ \A t \in roster : \E rt \in rts : rt.team = t

Blank == [phase |-> "waiting", round |-> 0, target |-> 0, team |-> NoTeam,
          roster |-> {}, tally |-> {}]

\* The request of p is answered.
Return(p) ==
  /\ pc' = [pc EXCEPT ![p] = "idle"]
  /\ loc' = [loc EXCEPT ![p] = Blank]

Goto(p, label, data) ==
  /\ pc' = [pc EXCEPT ![p] = label]
  /\ loc' = [loc EXCEPT ![p] = data]

\* A demo session is created playing its first round, with no deadline.
FirstRow(s) ==
  IF Kind[s] = "demo"
  THEN [phase |-> "playing", round |-> 1, endsAt |-> "null"]
  ELSE [phase |-> "waiting", round |-> 0, endsAt |-> "null"]

Init ==
  /\ session = [s \in Sessions |-> FirstRow(s)]
  /\ routes = {}
  /\ teamOf = FirstTeam
  /\ present = Players
  /\ pc = [p \in Procs |-> "idle"]
  /\ loc = [p \in Procs |-> Blank]
  /\ sweep = [ids |-> {}, at |-> CHOOSE s \in Sessions : TRUE]
  /\ wire = [s \in Sessions |->
               [phase |-> FirstRow(s).phase, round |-> FirstRow(s).round, scores |-> {}]]
  /\ flips = [s \in Sessions |-> [r \in Rounds |-> 0]]
  /\ reached = [s \in Sessions |-> FirstRow(s).round]
  /\ outrun = {}
  /\ carried = {}
  /\ tickerUp = TRUE
  /\ faults = 0

-----------------------------------------------------------------------------
(* SubmitRoute                                                             *)

\* GetSession reads the sessions row; the request may name any round of the map, and
\* a team that the session has.
SubmitRoute(p, r) ==
  LET row == session[SessionOf[p]] IN
  /\ pc[p] = "idle"
  /\ teamOf[p] # NoTeam /\ SessionOf[teamOf[p]] = SessionOf[p]
  /\ row.phase \in {"playing", "scoring"}
  /\ Goto(p, "roster", [Blank EXCEPT !.phase = row.phase, !.round = row.round,
                                    !.target = r, !.team = teamOf[p]])
  /\ UNCHANGED <<session, routes, teamOf, present, sweep, wire, flips, history, tickerUp, faults>>

\* GetSession's last query, GetPlayersBySession.
ReadRoster(p) ==
  /\ pc[p] = "roster"
  /\ Goto(p, "check", [loc[p] EXCEPT !.roster = RosterOf(SessionOf[p])])
  /\ UNCHANGED <<session, routes, teamOf, present, sweep, wire, flips, history, tickerUp, faults>>

HasRoute(t, r) == \E rt \in routes : rt.round = r /\ rt.team = t

\* GetTeamRoute answers 409 on a duplicate; ScoreRoute answers 400 on a bad path.
CheckDuplicate(p) ==
  /\ pc[p] = "check"
  /\ \/ ~HasRoute(loc[p].team, loc[p].target) /\ Goto(p, "insert", loc[p])
     \/ Return(p)
  /\ UNCHANGED <<session, routes, teamOf, present, sweep, wire, flips, history, tickerUp, faults>>

\* Slip: a schema without UNIQUE(round_id, team_id), the read before it trusted.
CreateRouteUnguarded(p) ==
  /\ pc[p] = "insert"
  /\ routes' = routes \cup {[round |-> loc[p].target, team |-> loc[p].team, by |-> p]}
  /\ Return(p)
  /\ UNCHANGED <<session, teamOf, present, sweep, wire, flips, history, tickerUp, faults>>

\* CreateTeamRoute under UNIQUE(round_id, team_id); then the branch on the phase
\* the request loaded, with the team_submitted broadcast of the playing one.
CreateTeamRoute(p) ==
  /\ pc[p] = "insert"
  /\ IF HasRoute(loc[p].team, loc[p].target)
     THEN Return(p) /\ UNCHANGED routes
     ELSE /\ routes' = routes \cup {[round |-> loc[p].target, team |-> loc[p].team, by |-> p]}
          /\ IF IsSolo(SessionOf[p]) THEN Return(p)
             ELSE IF loc[p].phase = "scoring"
                  THEN Goto(p, "scores", [Blank EXCEPT !.round = loc[p].round])
                  ELSE Goto(p, "tally", [Blank EXCEPT !.target = loc[p].target,
                                                      !.roster = loc[p].roster])
  /\ UNCHANGED <<session, teamOf, present, sweep, wire, flips, history, tickerUp, faults>>

\* GetRoutesByRound of the submitted round, and allTeamsSubmitted.
TallyTeams(p) ==
  /\ pc[p] = "tally"
  /\ IF AllTeamsSubmitted(loc[p].roster, RoutesOf(loc[p].target))
     THEN Goto(p, "flip", Blank)
     ELSE Return(p)
  /\ UNCHANGED <<session, routes, teamOf, present, sweep, wire, flips, history, tickerUp, faults>>

-----------------------------------------------------------------------------
(* endRound and broadcastScores, shared by SubmitRoute, EndRound and the ticker *)

\* Slip: the UPDATE without its AND phase = 'playing'.
EndRoundAlways(p) ==
  LET s == At(p) IN
  /\ pc[p] = "flip"
  /\ session' = [session EXCEPT ![s].phase = "scoring"]
  /\ flips' = [flips EXCEPT ![s] = [r \in Rounds |-> @[r] + IF r = session[s].round THEN 1 ELSE 0]]
  /\ Goto(p, "reload", Blank)
  /\ UNCHANGED <<routes, teamOf, present, sweep, wire, history, tickerUp, faults>>

\* EndRoundIfPlaying: one conditional UPDATE; the caller that did not flip stops.
EndRoundIfPlaying(p) ==
  LET s == At(p) IN
  /\ pc[p] = "flip"
  /\ IF session[s].phase = "playing"
     THEN /\ session' = [session EXCEPT ![s].phase = "scoring"]
          /\ flips' = [flips EXCEPT ![s][session[s].round] = @ + 1]
          /\ Goto(p, "reload", Blank)
     ELSE Return(p) /\ UNCHANGED <<session, flips>>
  /\ UNCHANGED <<routes, teamOf, present, sweep, wire, history, tickerUp, faults>>

\* endRound reads the row again for the number of the round to announce.
ReloadSession(p) ==
  /\ pc[p] = "reload"
  /\ Goto(p, "reveal", [Blank EXCEPT !.round = session[At(p)].round])
  /\ UNCHANGED <<session, routes, teamOf, present, sweep, wire, flips, history, tickerUp, faults>>

\* The round_end and game_state(scoring) broadcasts.
RevealScoring(p) ==
  /\ pc[p] = "reveal"
  /\ wire' = [wire EXCEPT ![At(p)].phase = "scoring"]
  /\ Goto(p, "scores", loc[p])
  /\ UNCHANGED <<session, routes, teamOf, present, sweep, flips, history, tickerUp, faults>>

\* broadcastScores reads the routes of the round the handler loaded.
ReadScores(p) ==
  /\ pc[p] = "scores"
  /\ IF loc[p].round \in Rounds
     THEN Goto(p, "publish",
               [Blank EXCEPT !.tally = {rt.team : rt \in RoutesOf(loc[p].round)}])
     ELSE Return(p)
  /\ UNCHANGED <<session, routes, teamOf, present, sweep, wire, flips, history, tickerUp, faults>>

\* The scores broadcast replaces what the clients show.
PublishScores(p) ==
  /\ pc[p] = "publish"
  /\ wire' = [wire EXCEPT ![At(p)].scores = loc[p].tally]
  /\ Return(p)
  /\ UNCHANGED <<session, routes, teamOf, present, sweep, flips, history, tickerUp, faults>>

-----------------------------------------------------------------------------
(* StartGame, EndRound and DemoNextRound                                   *)

\* Slip: StartGame without its check of the phase.
StartGameAnyPhase(h) ==
  /\ pc[h] = "idle"
  /\ Kind[SessionOf[h]] # "demo"
  /\ Goto(h, "start", [Blank EXCEPT !.round = session[SessionOf[h]].round])
  /\ UNCHANGED <<session, routes, teamOf, present, sweep, wire, flips, history, tickerUp, faults>>

\* StartGame loads the session and leaves on a phase it may not advance from or
\* on too few teams.
StartGame(h) ==
  LET s == SessionOf[h]
      row == session[s] IN
  /\ pc[h] = "idle"
  /\ Kind[s] # "demo"
  /\ row.phase \in {"waiting", "scoring"} \cup (IF IsSolo(s) THEN {"playing"} ELSE {})
  /\ Cardinality(TeamsIn(s)) >= (IF IsSolo(s) THEN 1 ELSE 2)
  /\ Goto(h, "start", [Blank EXCEPT !.phase = row.phase, !.round = row.round])
  /\ UNCHANGED <<session, routes, teamOf, present, sweep, wire, flips, history, tickerUp, faults>>

Starting == {"start", "demoNext"}

\* History of a write by start h: the other starts of its session that are in flight
\* have read a row that is no more.
Overtakes(h) ==
  outrun' = (outrun \ {h})
              \cup {g \in Hosts \ {h} : SessionOf[g] = SessionOf[h] /\ pc[g] \in Starting}

\* A team of the session has submitted for round r, or has a request that may store it.
SubmittedFor(s, r) ==
  \/ \E rt \in routes : SessionOf[rt.team] = s /\ rt.round = r
  \/ \E p \in Players : /\ SessionOf[p] = s
                        /\ pc[p] \in {"roster", "check", "insert"} /\ loc[p].target = r

\* History of a write by start h that puts round r into play.
PutsIntoPlay(h, r) ==
  LET s == SessionOf[h] IN
  /\ Overtakes(h)
  /\ reached' = [reached EXCEPT ![s] = IF r > @ THEN r ELSE @]
  /\ flips' = [flips EXCEPT ![s][r] = 0]
  /\ carried' = IF SubmittedFor(s, r) THEN carried \cup {s} ELSE carried \ {s}

\* Slip: StartGame without the nextRound > len(rounds) branch.
StartRoundPastLast(h) ==
  /\ pc[h] = "start"
  /\ session' = [session EXCEPT ![SessionOf[h]] =
                   [phase |-> "playing", round |-> loc[h].round + 1, endsAt |-> "future"]]
  /\ Return(h)
  /\ UNCHANGED <<routes, teamOf, present, sweep, wire, flips, history, tickerUp, faults>>

\* Slip: StartGame through UpdateSession, which records no deadline.
StartRoundNoDeadline(h) ==
  /\ pc[h] = "start"
  /\ loc[h].round < NumRounds
  /\ session' = [session EXCEPT ![SessionOf[h]].phase = "playing",
                                ![SessionOf[h]].round = loc[h].round + 1]
  /\ PutsIntoPlay(h, loc[h].round + 1)
  /\ Goto(h, "announce", [Blank EXCEPT !.round = loc[h].round + 1])
  /\ UNCHANGED <<routes, teamOf, present, sweep, wire, tickerUp, faults>>

\* StartRound of the round after the loaded one, with a new deadline.
StartRound(h) ==
  /\ pc[h] = "start"
  /\ loc[h].round < NumRounds
  /\ session' = [session EXCEPT ![SessionOf[h]] =
                   [phase |-> "playing", round |-> loc[h].round + 1, endsAt |-> "future"]]
  /\ PutsIntoPlay(h, loc[h].round + 1)
  /\ Goto(h, "announce", [Blank EXCEPT !.round = loc[h].round + 1])
  /\ UNCHANGED <<routes, teamOf, present, sweep, wire, tickerUp, faults>>

\* The round_start and game_state(playing) broadcasts; round_start clears scores.
AnnounceRound(h) ==
  /\ pc[h] = "announce"
  /\ wire' = [wire EXCEPT ![SessionOf[h]] =
                [phase |-> "playing", round |-> loc[h].round, scores |-> {}]]
  /\ Return(h)
  /\ UNCHANGED <<session, routes, teamOf, present, sweep, flips, history, tickerUp, faults>>

\* UpdateSession writes phase and round and leaves round_ends_at as it was.
Finished(s) ==
  session' = [session EXCEPT ![s] = [@ EXCEPT !.phase = "finished", !.round = NumRounds]]

FinishGame(h) ==
  /\ pc[h] = "start"
  /\ loc[h].round >= NumRounds
  /\ Finished(SessionOf[h])
  /\ Overtakes(h)
  /\ Goto(h, "over", Blank)
  /\ UNCHANGED <<routes, teamOf, present, sweep, wire, flips, reached, carried, tickerUp, faults>>

\* The game_state(finished) broadcast.
AnnounceFinish(h) ==
  /\ pc[h] = "over"
  /\ wire' = [wire EXCEPT ![SessionOf[h]].phase = "finished"]
  /\ Return(h)
  /\ UNCHANGED <<session, routes, teamOf, present, sweep, flips, history, tickerUp, faults>>

\* EndRound loads the session to check its owner and calls endRound.
EndRound(h) ==
  /\ pc[h] = "idle"
  /\ Kind[SessionOf[h]] # "demo"
  /\ Goto(h, "flip", Blank)
  /\ UNCHANGED <<session, routes, teamOf, present, sweep, wire, flips, history, tickerUp, faults>>

\* DemoNextRound looks at no phase.
DemoNextRound(h) ==
  /\ pc[h] = "idle"
  /\ Kind[SessionOf[h]] = "demo"
  /\ Goto(h, "demoNext", [Blank EXCEPT !.round = session[SessionOf[h]].round])
  /\ UNCHANGED <<session, routes, teamOf, present, sweep, wire, flips, history, tickerUp, faults>>

\* Slip: the demo counts on past the last round.
AdvanceDemoPastLast(h) ==
  /\ pc[h] = "demoNext"
  /\ session' = [session EXCEPT ![SessionOf[h]].phase = "playing",
                                ![SessionOf[h]].round = loc[h].round + 1]
  /\ Return(h)
  /\ UNCHANGED <<routes, teamOf, present, sweep, wire, flips, history, tickerUp, faults>>

\* UpdateSession of the demo; nothing is broadcast, the browser reads the answer.
AdvanceDemo(h) ==
  /\ pc[h] = "demoNext"
  /\ IF loc[h].round < NumRounds
     THEN /\ session' = [session EXCEPT ![SessionOf[h]] =
                          [@ EXCEPT !.phase = "playing", !.round = loc[h].round + 1]]
          /\ PutsIntoPlay(h, loc[h].round + 1)
     ELSE Finished(SessionOf[h]) /\ Overtakes(h) /\ UNCHANGED <<flips, reached, carried>>
  /\ Return(h)
  /\ UNCHANGED <<routes, teamOf, present, sweep, wire, tickerUp, faults>>

-----------------------------------------------------------------------------
(* The clock and RunRoundTicker                                            *)

\* The clock passes round_ends_at.
Expire(s) ==
  /\ session[s].endsAt = "future"
  /\ session' = [session EXCEPT ![s].endsAt = "past"]
  /\ UNCHANGED <<routes, teamOf, present, pc, loc, sweep, wire, flips, history, tickerUp, faults>>

ExpiredPlayingSessions ==
  {s \in Sessions : session[s].phase = "playing" /\ ~IsSolo(s) /\ session[s].endsAt = "past"}

\* A tick: the query that lists the sessions to end.
TickerQuery ==
  /\ tickerUp
  /\ pc[Ticker] = "idle"
  /\ sweep.ids = {}
  /\ ExpiredPlayingSessions # {}
  /\ sweep' = [sweep EXCEPT !.ids = ExpiredPlayingSessions]
  /\ UNCHANGED <<session, routes, teamOf, present, pc, loc, wire, flips, history, tickerUp, faults>>

\* The loop takes the next id of the list it read and calls endRound.
TickerNext(s) ==
  /\ pc[Ticker] = "idle"
  /\ s \in sweep.ids
  /\ sweep' = [ids |-> sweep.ids \ {s}, at |-> s]
  /\ Goto(Ticker, "flip", Blank)
  /\ UNCHANGED <<session, routes, teamOf, present, wire, flips, history, tickerUp, faults>>

-----------------------------------------------------------------------------
(* Moderation and team changes during a game                               *)

\* KickPlayer deletes the row; the browser keeps its socket and its team.
KickPlayer(p) ==
  /\ p \in present
  /\ Kind[SessionOf[p]] # "demo"
  /\ present' = present \ {p}
  /\ UNCHANGED <<session, routes, teamOf, pc, loc, sweep, wire, flips, history, tickerUp, faults>>

\* ClearRoute deletes a team's route of a round.
ClearRoute(rt) ==
  /\ Kind[SessionOf[rt.team]] # "demo"
  /\ routes' = routes \ {rt}
  /\ UNCHANGED <<session, teamOf, present, pc, loc, sweep, wire, flips, history, tickerUp, faults>>

\* JoinTeam checks no phase, and of the team no more than that its row exists.
JoinTeam(p, t) ==
  /\ p \in present
  /\ t # teamOf[p]
  /\ teamOf' = [teamOf EXCEPT ![p] = t]
  /\ UNCHANGED <<session, routes, present, pc, loc, sweep, wire, flips, history, tickerUp, faults>>

-----------------------------------------------------------------------------
(* Faults                                                                  *)

StoreSteps == {"roster", "check", "insert", "tally", "flip", "reload", "scores",
               "start", "demoNext"}

\* A database call fails: every handler answers an error or returns in silence.
StoreError(p) ==
  /\ faults < MaxFaults
  /\ pc[p] \in StoreSteps
  /\ Return(p)
  /\ outrun' = outrun \ {p}
  /\ faults' = faults + 1
  /\ UNCHANGED <<session, routes, teamOf, present, sweep, wire, flips, reached, carried, tickerUp>>

\* The process dies and is started again: requests in flight and the ticker's ids
\* are lost, the rows stay, and main starts a new ticker.
Crash ==
  /\ faults < MaxFaults
  /\ pc' = [p \in Procs |-> "idle"]
  /\ loc' = [p \in Procs |-> Blank]
  /\ sweep' = [sweep EXCEPT !.ids = {}]
  /\ tickerUp' = TRUE
  /\ outrun' = {}
  /\ faults' = faults + 1
  /\ UNCHANGED <<session, routes, teamOf, present, wire, flips, reached, carried>>

\* SIGINT or SIGTERM cancels the context: the ticker returns and nothing else does,
\* since Start serves until ListenAndServe fails.
Signal ==
  /\ tickerUp
  /\ tickerUp' = FALSE
  /\ UNCHANGED <<session, routes, teamOf, present, pc, loc, sweep, wire, flips, history, faults>>

-----------------------------------------------------------------------------
(* Specifications                                                          *)

\* The steps of a request in flight, or of the ticker's endRound.
EndRoundStep(p) ==
  EndRoundIfPlaying(p) \/ ReloadSession(p) \/ RevealScoring(p) \/ ReadScores(p) \/ PublishScores(p)

SubmitStep(p) == ReadRoster(p) \/ CheckDuplicate(p) \/ CreateTeamRoute(p) \/ TallyTeams(p)

HostStep(h) == StartRound(h) \/ AnnounceRound(h) \/ FinishGame(h) \/ AnnounceFinish(h) \/ AdvanceDemo(h)

TickerStep == TickerQuery \/ \E s \in Sessions : TickerNext(s)

Play ==
  \/ \E p \in Players, r \in Rounds : SubmitRoute(p, r)
  \/ \E p \in Players : SubmitStep(p)
  \/ \E p \in Procs : EndRoundStep(p)
  \/ \E h \in Hosts : StartGame(h) \/ EndRound(h) \/ DemoNextRound(h) \/ HostStep(h)
  \/ TickerStep
  \/ \E s \in Sessions : Expire(s)

Moderate ==
  \/ \E p \in Players : KickPlayer(p)
  \/ \E rt \in routes : ClearRoute(rt)
  \/ \E p \in Players, t \in Teams : JoinTeam(p, t)

Fault == Crash \/ \E p \in Procs : StoreError(p)

Next == Play \/ Moderate \/ Fault \/ Signal

\* Everything may happen.
Spec == Init /\ [][Next]_vars

\* Nobody moderates and nothing fails.
PlaySpec == Init /\ [][Play]_vars

\* A goroutine that can run does run, and the clock moves on.  Requests are never
\* owed: only those in flight, the ticker and the deadline are fair.
Fairness ==
  /\ \A p \in Procs : WF_vars(SubmitStep(p) \/ EndRoundStep(p))
  /\ \A h \in Hosts : WF_vars(HostStep(h))
  /\ WF_vars(TickerStep)
  /\ \A s \in Sessions : WF_vars(Expire(s))

\* Nobody moderates, but the server fails and is told to stop.
FaultSpec == Init /\ [][Play \/ Fault \/ Signal]_vars

\* Fair, with everything but the signal: the server stays up between faults.
FairSpec == Init /\ [][Play \/ Moderate \/ Fault]_vars /\ Fairness

\* Fair, with the signal.
FairSignalSpec == Init /\ [][Play \/ Signal]_vars /\ Fairness

-----------------------------------------------------------------------------
(* What the handlers promise                                               *)

RowType == [phase: Phases, round: 0 .. NumRounds, endsAt: {"null", "future", "past"}]
ScreenType == [phase: Phases, round: 0 .. NumRounds, scores: SUBSET Teams]
LocType ==
  [phase: Phases, round: 0 .. NumRounds, target: 0 .. NumRounds,
   team: Teams \cup {NoTeam}, roster: SUBSET Teams, tally: SUBSET Teams]
Labels == {"idle", "roster", "check", "insert", "tally", "flip", "reload", "reveal",
           "scores", "publish", "start", "announce", "over", "demoNext"}

\* The shape of the rows, of the requests in flight and of what was broadcast: no
\* handler leaves current_round outside the map's rounds.
TypeOK ==
  /\ session \in [Sessions -> RowType]
  /\ routes \subseteq [round: Rounds, team: Teams, by: Players]
  /\ teamOf \in [Players -> Teams \cup {NoTeam}]
  /\ present \subseteq Players
  /\ pc \in [Procs -> Labels]
  /\ loc \in [Procs -> LocType]
  /\ sweep \in [ids: SUBSET Sessions, at: Sessions]
  /\ wire \in [Sessions -> ScreenType]
  /\ flips \in [Sessions -> [Rounds -> Nat]]
  /\ reached \in [Sessions -> 0 .. NumRounds]
  /\ outrun \subseteq Hosts
  /\ carried \subseteq Sessions
  /\ tickerUp \in BOOLEAN
  /\ faults \in 0 .. MaxFaults

\* The ticker, the guide and the last submission may all call endRound for the same
\* round: it is ended, and revealed, at most once each time a start puts it into play.
RoundEndsOnce == \A s \in Sessions, r \in Rounds : flips[s][r] <= 1

\* What a request carries from step to step: it submits for a real round and team,
\* and no demo session is ever on its way to a scoring phase.
InFlightOK ==
  /\ \A p \in Procs :
       /\ pc[p] \in {"roster", "check", "insert"} => loc[p].target \in Rounds /\ loc[p].team \in Teams
       /\ pc[p] = "tally" => Kind[At(p)] = "multi"
       /\ pc[p] = "flip" => Kind[At(p)] # "demo"
       /\ pc[p] = "announce" => loc[p].round \in Rounds
  /\ \A s \in sweep.ids : Kind[s] = "multi"

\* What a host read is still true when it writes, unless another start of the session
\* wrote in between; even then it starts no round beyond the next one.
HostFresh ==
  \A h \in Hosts : pc[h] \in Starting =>
    LET row == session[SessionOf[h]] IN
    /\ loc[h].round <= reached[SessionOf[h]]
    /\ pc[h] = "demoNext" <=> Kind[SessionOf[h]] = "demo"
    /\ h \notin outrun =>
         /\ loc[h].round = row.round
         /\ pc[h] = "start" =>
              \/ row.phase \in {"waiting", "scoring"}
              \/ row.phase = "playing" /\ Kind[SessionOf[h]] = "solo"

\* A round that is being played has not ended since it was put into play.
EndsInOrder ==
  \A s \in Sessions :
    /\ session[s].round <= reached[s]
    /\ session[s].phase = "playing" => session[s].round \in Rounds /\ flips[s][session[s].round] = 0
    /\ session[s].phase = "finished" => session[s].round = NumRounds

\* Two teammates who both pass the duplicate check leave one route.
OneRoutePerTeam ==
  \A a, b \in routes : a.round = b.round /\ a.team = b.team => a = b

\* Sessions with a start in flight that another start has outrun.
Outrun == {SessionOf[h] : h \in outrun}

\* The rows go through the life cycle of RoundProtocol whatever is in flight.
Protocol == INSTANCE RoundProtocol WITH
  phase <- [s \in Sessions |-> session[s].phase],
  round <- [s \in Sessions |-> session[s].round],
  late <- Outrun
ImplementsProtocol == Protocol!Spec

Quiet(s) == \A p \in Procs : At(p) = s => pc[p] = "idle"

\* When nothing is in flight, a round still being played lacks the route of some
\* player's team: submissions landing together never all miss the early end.  Not so of
\* a round that was submitted for before it was put into play (again).
EarlyEndNotMissed ==
  \A s \in Sessions :
    LET teamed == {p \in present : SessionOf[p] = s /\ teamOf[p] # NoTeam} IN
    Kind[s] = "multi" /\ session[s].phase = "playing" /\ Quiet(s) /\ teamed # {} /\ s \notin carried
      => \E p \in teamed : ~HasRoute(teamOf[p], session[s].round)

\* Only a start outrun by another one puts a finished game back into play.
FinishedStays ==
  [][\A s \in Sessions : session[s].phase = "finished" /\ s \notin Outrun
       => session'[s].phase = "finished"]_vars

\* The deadline ends every multiplayer round that nobody ends before, across
\* crashes, failed queries and moderation.
EveryRoundEnds ==
  \A s \in Sessions :
    Kind[s] = "multi" /\ session[s].phase = "playing" ~> session[s].phase # "playing"

-----------------------------------------------------------------------------
(* What comments and tests of the code say, and the code does not do       *)

Flips(p) == pc[p] = "flip" /\ pc'[p] = "reload"

\* game.go:326, "ends multiplayer rounds whose deadline has passed": the ticker
\* ends no round before its deadline.
TickerEndsOverdueOnly ==
  [][Flips(Ticker) => session[sweep.at].endsAt = "past"]_vars

\* game.go:207, "then end the round early once every team with players has
\* submitted": a submission ends the round only when they have, for that round.
EarlyEndJustified ==
  [][\A p \in Players : Flips(p) =>
       \A q \in present : SessionOf[q] = SessionOf[p] /\ teamOf[q] # NoTeam
         => HasRoute(teamOf[q], session[SessionOf[p]].round)]_vars

\* handler_session_test.go:482, "Further starts on a finished game should fail".
FinishedIsFinal ==
  [][\A s \in Sessions : session[s].phase = "finished" => session'[s].phase = "finished"]_vars

\* game.go:204, "stream updated scores as each (auto-)submission lands": when all
\* has landed, the last scores sent are those of the round.
LastScoresComplete ==
  \A s \in Sessions :
    Kind[s] = "multi" /\ session[s].phase = "scoring" /\ Quiet(s)
      => wire[s].scores = {rt.team : rt \in RoutesOf(session[s].round)}

\* game.go:118, "Only valid during PhasePlaying".
OnlyPlayingSubmits ==
  [][\A p \in Players : pc[p] = "insert" /\ routes' # routes
       => session[SessionOf[p]].phase = "playing"]_vars

\* game.go:371, "the per-team score breakdown for the session's current round".
ScoresAreOwnSession == \A s \in Sessions : wire[s].scores \subseteq TeamsIn(s)

\* game.go:348, "transitions a playing session to scoring and reveals the scores":
\* when nothing is in flight, a session in scoring shows its clients so.
ScoringShown ==
  \A s \in Sessions :
    Kind[s] = "multi" /\ session[s].phase = "scoring" /\ Quiet(s) => wire[s].phase = "scoring"

\* game.go:78, "Notify connected players the game is over so they leave the
\* 'waiting for guide' state".
FinishReachesPlayers ==
  \A s \in Sessions :
    Kind[s] = "multi" /\ session[s].phase = "finished" /\ Quiet(s) => wire[s].phase = "finished"

=============================================================================
