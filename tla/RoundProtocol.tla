---------------------------- MODULE RoundProtocol ----------------------------
(***************************************************************************)
(* What the server promises about the life of a session's rounds, with no  *)
(* requests, goroutines or database in sight: rounds are played in order,  *)
(* one at a time, a multiplayer round ends before the next one begins, and *)
(* a finished game stays finished.  StartGame and DemoNextRound write what *)
(* they read several statements before, so the promise has an exception:   *)
(* a start that another start has outrun may take the game back, to any    *)
(* round it has had or the next one, but never past that.  GameFlow, the   *)
(* handlers of game.go at the granularity of their database calls,         *)
(* implements it.                                                          *)
(***************************************************************************)
EXTENDS Naturals

CONSTANTS Sessions,   \* the sessions of the server
          Kind,       \* "multi", "solo" or "demo" for each session
          NumRounds   \* the rounds of the map every session plays

VARIABLES phase,      \* model.GamePhase of each session
          round,      \* current_round of each session
          reached,    \* the highest round each session has had
          late        \* input: sessions with a start in flight that another has outrun

life == <<phase, round, reached>>

Phases == {"waiting", "playing", "scoring", "finished"}

\* A demo session is created in its first round; the others wait in a lobby.
Init ==
  /\ phase = [s \in Sessions |-> IF Kind[s] = "demo" THEN "playing" ELSE "waiting"]
  /\ round = [s \in Sessions |-> IF Kind[s] = "demo" THEN 1 ELSE 0]
  /\ reached = round

\* The phases a round may follow: a solo player moves on without a scoring phase.
MayAdvance(s) ==
  \/ phase[s] \in {"waiting", "scoring"}
  \/ Kind[s] # "multi" /\ phase[s] = "playing"

\* Round r of s is put into play.
Play(s, r) ==
  /\ phase' = [phase EXCEPT ![s] = "playing"]
  /\ round' = [round EXCEPT ![s] = r]
  /\ reached' = [reached EXCEPT ![s] = IF r > @ THEN r ELSE @]

Begin(s) ==
  /\ MayAdvance(s)
  /\ round[s] < NumRounds
  /\ Play(s, round[s] + 1)

\* A demo session has no scoring phase.
End(s) ==
  /\ Kind[s] # "demo"
  /\ phase[s] = "playing"
  /\ phase' = [phase EXCEPT ![s] = "scoring"]
  /\ UNCHANGED <<round, reached>>

\* The game is over; current_round is the last round.
Over(s) ==
  /\ phase' = [phase EXCEPT ![s] = "finished"]
  /\ round' = [round EXCEPT ![s] = NumRounds]
  /\ UNCHANGED reached

Finish(s) ==
  /\ MayAdvance(s)
  /\ round[s] = NumRounds
  /\ Over(s)

\* The write of a start that read the row before another start wrote it.
Repeat(s) ==
  /\ s \in late
  /\ \/ \E r \in 1 .. NumRounds : r <= reached[s] + 1 /\ Play(s, r)
     \/ reached[s] = NumRounds /\ Over(s)

Next == \E s \in Sessions : Begin(s) \/ End(s) \/ Finish(s) \/ Repeat(s)

Spec == Init /\ [][Next]_life

=============================================================================
