------------------------------ MODULE HubProofs -----------------------------
(***************************************************************************)
(* The hub is safe for any number of connections, players, broadcasters    *)
(* and any buffer: it sends on no closed channel and keeps no dead client. *)
(***************************************************************************)
EXTENDS Hub, TLAPS

\* A slot holds an open client of its own player.
SlotsOK ==
  \A p \in Players : rooms[p] # NoConn => PlayerID[rooms[p]] = p /\ ~closed[rooms[p]]

\* The clients a broadcast has left are in their slots as long as it holds the lock.
CastsOK ==
  \A x \in Casters :
    /\ cast[x].at # "send" => cast[x].left = {}
    /\ \A c \in cast[x].left : rooms[PlayerID[c]] = c

\* Run holds a client it can still add, or one whose reader has stopped.
RunOK ==
  /\ run.at = "select" <=> run.client = NoConn
  /\ run.at = "register" =>
       handler[run.client] \in {"spawn", "returned"} /\ reader[run.client] \in {"none", "read", "unregister"}
  /\ run.at = "unregister" => reader[run.client] = "done"

\* A pump runs only after Register returned, and a channel is closed only for a
\* reader that has unregistered.
PumpsOK ==
  \A c \in Conns :
    /\ handler[c] # "returned" => reader[c] = "none"
    /\ closed[c] => reader[c] = "done"

HubInv == TypeOK /\ SlotsOK /\ CastsOK /\ RunOK /\ PumpsOK /\ NoGhost

-----------------------------------------------------------------------------

\* The empty hub.
LEMMA HubInit == Init => HubInv
BY ConnAssumption, CallerAssumption, BufferAssumption
   DEF Init, HubInv, TypeOK, SlotsOK, CastsOK, RunOK, PumpsOK, NoGhost, Selecting, NoCast

\* Every step keeps the shape of the state.
LEMMA TypeStep == HubInv /\ [Next]_vars => TypeOK'
<1> SUFFICES ASSUME HubInv, [Next]_vars PROVE TypeOK'
  OBVIOUS
<1> USE ConnAssumption, CallerAssumption, BufferAssumption DEF HubInv, TypeOK
<1>1. ASSUME NEW c \in Conns, Open(c) \/ SpawnPumps(c) \/ CancelContext(c) PROVE TypeOK'
  <2>1. CASE Open(c)
    BY <1>1, <2>1 DEF Open
  <2>2. CASE SpawnPumps(c)
    BY <1>1, <2>2 DEF SpawnPumps
  <2>3. CASE CancelContext(c)
    BY <1>1, <2>3 DEF CancelContext
  <2> QED
    BY <1>1, <2>1, <2>2, <2>3
<1>2. ASSUME NEW c \in Conns, ReceiveRegister(c) \/ ReceiveUnregister(c) PROVE TypeOK'
  BY <1>2 DEF ReceiveRegister, ReceiveUnregister
<1>3. CASE AddClient \/ EvictClient
  <2>1. run.client \in Conns /\ run' = Selecting
    BY <1>3 DEF AddClient, EvictClient, RunOK
  <2>2. Selecting \in [at: {"select", "register", "unregister"}, client: Conns \cup {NoConn}]
    BY DEF Selecting
  <2>3. CASE AddClient
    BY <2>1, <2>2, <2>3 DEF AddClient, pumps
  <2>4. CASE EvictClient
    <3>1. UNCHANGED <<handler, reader, writer, link, ctxDone, queued, cast>>
      BY <2>4 DEF EvictClient, pumps
    <3>2. rooms' \in [Players -> Conns \cup {NoConn}]
      BY <2>1, <2>4 DEF EvictClient
    <3>3. closed' = closed \/ closed' = [closed EXCEPT ![run.client] = TRUE]
      BY <2>4 DEF EvictClient
    <3>4. closed' \in [Conns -> BOOLEAN]
      BY <2>1, <3>3
    <3> QED
      BY <2>1, <2>2, <3>1, <3>2, <3>4
  <2> QED
    BY <1>3, <2>3, <2>4
<1>4. ASSUME NEW x \in Casters, CastStep(x) PROVE TypeOK'
  <2>1. CASE RLock(x)
    <3>1. Targets(x) \in SUBSET Conns
      BY DEF Targets
    <3> QED
      BY <1>4, <2>1, <3>1 DEF RLock, pumps
  <2>2. CASE RUnlock(x)
    BY <1>4, <2>2 DEF RUnlock, NoCast, pumps
  <2>3. ASSUME NEW c \in Conns, SendOrSkip(x, c) PROVE TypeOK'
    BY <1>4, <2>3 DEF SendOrSkip, pumps
  <2> QED
    BY <1>4, <2>1, <2>2, <2>3 DEF CastStep
<1>5. ASSUME NEW x \in Casters, BroadcastToSession(x) \/ BroadcastToTeam(x) PROVE TypeOK'
  BY <1>5 DEF BroadcastToSession, BroadcastToTeam, pumps
<1>6. ASSUME NEW c \in Conns, ReadFails(c) PROVE TypeOK'
  BY <1>6 DEF ReadFails
<1>7. ASSUME NEW c \in Conns, WritePump(c) PROVE TypeOK'
  BY <1>7 DEF WritePump, TakeMessage, WriteSucceeds, WriteFails, PingFails, WritePumpTold,
              WritePumpReturns
<1>8. ASSUME NEW c \in Conns, PeerCloses(c) \/ PeerVanishes(c) PROVE TypeOK'
  BY <1>8 DEF PeerCloses, PeerVanishes
<1>9. CASE UNCHANGED vars
  BY <1>9 DEF vars
<1> QED
  BY <1>1, <1>2, <1>3, <1>4, <1>5, <1>6, <1>7, <1>8, <1>9 DEF Next, RunStep, Casters

\* Steps that touch neither slots, channels, Run, handlers nor readers keep the rest.
LEMMA Aside ==
  ASSUME HubInv, TypeOK', UNCHANGED <<handler, reader, closed, rooms, run, cast>>
  PROVE  HubInv'
BY DEF HubInv, SlotsOK, CastsOK, RunOK, PumpsOK, NoGhost

\* Every step keeps the slots, the broadcasts, Run and the pumps together.
LEMMA HubStep == HubInv /\ [Next]_vars => HubInv'
<1> SUFFICES ASSUME HubInv, [Next]_vars PROVE HubInv'
  OBVIOUS
<1>0. TypeOK'
  BY TypeStep
<1> USE ConnAssumption, CallerAssumption DEF HubInv, SlotsOK, CastsOK, RunOK, PumpsOK, NoGhost
<1>1. ASSUME NEW c \in Conns, Open(c) PROVE HubInv'
  BY <1>0, <1>1 DEF Open, TypeOK
<1>2. ASSUME NEW c \in Conns, SpawnPumps(c) PROVE HubInv'
  BY <1>0, <1>2 DEF SpawnPumps, TypeOK
<1>3. ASSUME NEW c \in Conns, ReceiveRegister(c) PROVE HubInv'
  BY <1>0, <1>3 DEF ReceiveRegister, Selecting, TypeOK
<1>4. ASSUME NEW c \in Conns, ReceiveUnregister(c) PROVE HubInv'
  BY <1>0, <1>4 DEF ReceiveUnregister, Selecting, TypeOK
<1>5. CASE AddClient
  <2>1. run.client \in Conns /\ reader[run.client] \in {"none", "read", "unregister"}
    BY <1>5 DEF AddClient, TypeOK
  <2>2. \A x \in Casters : cast[x].left = {}
    BY <1>5 DEF AddClient, NoReaders
  <2> QED
    BY <1>0, <1>5, <2>1, <2>2 DEF AddClient, Selecting, pumps, TypeOK
<1>6. CASE EvictClient
  <2>1. run.client \in Conns /\ reader[run.client] = "done"
    BY <1>6 DEF EvictClient, TypeOK
  <2>2. \A x \in Casters : cast[x].left = {}
    BY <1>6 DEF EvictClient, NoReaders
  <2> QED
    BY <1>0, <1>6, <2>1, <2>2 DEF EvictClient, Selecting, pumps, TypeOK
<1>7. ASSUME NEW x \in Casters, CastStep(x) PROVE HubInv'
  <2>1. CASE RLock(x)
    <3>1. \A c \in Targets(x) : rooms[PlayerID[c]] = c
      BY DEF Targets
    <3>2. cast' = [cast EXCEPT ![x] = [at |-> "send", left |-> Targets(x)]]
      BY <2>1 DEF RLock
    <3>3. UNCHANGED <<handler, reader, closed, rooms, run>>
      BY <2>1 DEF RLock, pumps
    <3>4. CastsOK'
      BY <1>7, <3>1, <3>2, <3>3 DEF TypeOK
    <3> QED
      BY <1>0, <3>3, <3>4
  <2>2. CASE RUnlock(x)
    BY <1>0, <1>7, <2>2 DEF RUnlock, NoCast, pumps, TypeOK
  <2>3. ASSUME NEW c \in Conns, SendOrSkip(x, c) PROVE HubInv'
    BY <1>0, <1>7, <2>3 DEF SendOrSkip, pumps, TypeOK
  <2> QED
    BY <1>7, <2>1, <2>2, <2>3 DEF CastStep
<1>8. ASSUME NEW x \in Casters, BroadcastToSession(x) \/ BroadcastToTeam(x) PROVE HubInv'
  <2>1. UNCHANGED <<handler, reader, closed, rooms, run>>
    BY <1>8 DEF BroadcastToSession, BroadcastToTeam, pumps
  <2>2. cast[x].left = {} /\ cast' = [cast EXCEPT ![x].at = "rlock"]
    BY <1>8 DEF BroadcastToSession, BroadcastToTeam, NoCast
  <2>3. CastsOK'
    BY <1>8, <2>1, <2>2 DEF TypeOK
  <2> QED
    BY <1>0, <2>1, <2>3
<1>9. ASSUME NEW c \in Conns, ReadFails(c) PROVE HubInv'
  BY <1>0, <1>9 DEF ReadFails, TypeOK
<1>10. ASSUME NEW c \in Conns,
              WritePump(c) \/ PeerCloses(c) \/ PeerVanishes(c) \/ CancelContext(c)
       PROVE  HubInv'
  <2>1. UNCHANGED <<handler, reader, closed, rooms, run, cast>>
    BY <1>10 DEF WritePump, TakeMessage, WriteSucceeds, WriteFails, PingFails, WritePumpTold,
                 WritePumpReturns, PeerCloses, PeerVanishes, CancelContext
  <2> QED
    BY <1>0, <2>1, Aside
<1>11. CASE UNCHANGED vars
  BY <1>0, <1>11, Aside DEF vars
<1> QED
  BY <1>1, <1>2, <1>3, <1>4, <1>5, <1>6, <1>7, <1>8, <1>9, <1>10, <1>11
     DEF Next, RunStep, Casters

\* The hub's state is well formed, and no send channel holds more than its buffer.
THEOREM HubTyped == Spec => []TypeOK
<1>1. HubInv => TypeOK
  BY DEF HubInv
<1> QED
  BY <1>1, HubInit, HubStep, PTL DEF Spec

\* No broadcast ever sends on a channel that Run has closed.
THEOREM NoPanic == Spec => []SendNeverPanics
<1>1. HubInv => SendNeverPanics
  <2> SUFFICES ASSUME HubInv, NEW x \in Casters, NEW c \in cast[x].left PROVE ~closed[c]
    BY DEF SendNeverPanics
  <2>1. c \in Conns /\ rooms[PlayerID[c]] = c
    BY DEF HubInv, TypeOK, CastsOK
  <2> QED
    BY <2>1, ConnAssumption DEF HubInv, SlotsOK
<1> QED
  BY <1>1, HubInit, HubStep, PTL DEF Spec

\* A client whose Unregister has been dealt with is in no slot, for ever.
THEOREM GhostsNeverReturn == Spec => []NoGhost
<1>1. HubInv => NoGhost
  BY DEF HubInv
<1> QED
  BY <1>1, HubInit, HubStep, PTL DEF Spec

=============================================================================
