-------------------------------- MODULE Hub ---------------------------------
(***************************************************************************)
(* The WebSocket side of one session: ws/hub.go, the two pumps of          *)
(* ws/client.go that serve each connection, and the handler/ws.go that     *)
(* creates them.  Goroutines meet at the hub's unbuffered register and     *)
(* unregister channels, at its RWMutex and at each client's buffered send  *)
(* channel.                                                                *)
(***************************************************************************)
EXTENDS Naturals, FiniteSets

CONSTANTS NumConns,  \* connections, numbered in the order they are opened
          Players,   \* players of the session
          PlayerID,  \* the player each connection is for
          TeamID,    \* the team each connection read from its player's row
          Callers,   \* goroutines that call BroadcastToSession
          Buffer,    \* capacity of a send channel, 256 in the code
          NoConn     \* no client in a player's slot

Conns == 1 .. NumConns
Casters == Callers \cup Conns

ASSUME ConnAssumption ==
  /\ NumConns \in Nat
  /\ PlayerID \in [Conns -> Players]
  /\ DOMAIN TeamID = Conns
  /\ NoConn \notin Conns
ASSUME CallerAssumption == Callers \cap Conns = {}
ASSUME BufferAssumption == Buffer \in Nat \ {0}

VARIABLES
  handler,  \* HandleWebSocket of each connection
  reader,   \* its ReadPump
  writer,   \* its WritePump
  link,     \* "up", "silent" when the peer is gone without a close, "shut"
  ctxDone,  \* the request's context is cancelled
  queued,   \* messages in the send channel
  closed,   \* the send channel is closed
  rooms,    \* the client registered for each player
  run,      \* Run: in its select, or holding a client and waiting for the lock
  cast      \* each broadcast: waiting for the read lock, or the clients it has left

vars == <<handler, reader, writer, link, ctxDone, queued, closed, rooms, run, cast>>
pumps == <<handler, reader, writer, link, ctxDone>>

Selecting == [at |-> "select", client |-> NoConn]
NoCast == [at |-> "idle", left |-> {}]

Init ==
  /\ handler = [c \in Conns |-> "none"]
  /\ reader = [c \in Conns |-> "none"]
  /\ writer = [c \in Conns |-> "none"]
  /\ link = [c \in Conns |-> "none"]
  /\ ctxDone = [c \in Conns |-> FALSE]
  /\ queued = [c \in Conns |-> 0]
  /\ closed = [c \in Conns |-> FALSE]
  /\ rooms = [p \in Players |-> NoConn]
  /\ run = Selecting
  /\ cast = [x \in Casters |-> NoCast]

-----------------------------------------------------------------------------
(* HandleWebSocket                                                         *)

\* Connections are opened in the order of their numbers.  The player's earlier one
\* may be lost, on its way out, or open in another tab.
Latest(c) == \A d \in Conns : d < c => link[d] # "none"

\* Slip: the pumps started before the client is registered.
OpenPumpsFirst(c) ==
  /\ handler[c] = "none"
  /\ Latest(c)
  /\ handler' = [handler EXCEPT ![c] = "register"]
  /\ link' = [link EXCEPT ![c] = "up"]
  /\ reader' = [reader EXCEPT ![c] = "read"]
  /\ writer' = [writer EXCEPT ![c] = "select"]
  /\ UNCHANGED <<ctxDone, queued, closed, rooms, run, cast>>

\* GetPlayer and Accept succeed, and the handler blocks in Register.
Open(c) ==
  /\ handler[c] = "none"
  /\ Latest(c)
  /\ handler' = [handler EXCEPT ![c] = "register"]
  /\ link' = [link EXCEPT ![c] = "up"]
  /\ UNCHANGED <<reader, writer, ctxDone, queued, closed, rooms, run, cast>>

\* Register has returned: the pumps start and the handler returns.
SpawnPumps(c) ==
  /\ handler[c] = "spawn"
  /\ handler' = [handler EXCEPT ![c] = "returned"]
  /\ reader' = [reader EXCEPT ![c] = "read"]
  /\ writer' = [writer EXCEPT ![c] = "select"]
  /\ UNCHANGED <<link, ctxDone, queued, closed, rooms, run, cast>>

\* net/http cancels a request's context when its handler returns.
CancelContext(c) ==
  /\ handler[c] = "returned"
  /\ ~ctxDone[c]
  /\ ctxDone' = [ctxDone EXCEPT ![c] = TRUE]
  /\ UNCHANGED <<handler, reader, writer, link, queued, closed, rooms, run, cast>>

-----------------------------------------------------------------------------
(* Hub.Run                                                                 *)

\* Run receives from a blocked Register and asks for the lock.
ReceiveRegister(c) ==
  /\ run = Selecting
  /\ handler[c] = "register"
  /\ handler' = [handler EXCEPT ![c] = "spawn"]
  /\ run' = [at |-> "register", client |-> c]
  /\ UNCHANGED <<reader, writer, link, ctxDone, queued, closed, rooms, cast>>

\* Run receives from a blocked Unregister and asks for the lock; the ReadPump
\* closes its connection, which is shut already, and is gone.
ReceiveUnregister(c) ==
  /\ run = Selecting
  /\ reader[c] = "unregister"
  /\ reader' = [reader EXCEPT ![c] = "done"]
  /\ run' = [at |-> "unregister", client |-> c]
  /\ UNCHANGED <<handler, writer, link, ctxDone, queued, closed, rooms, cast>>

\* Lock waits for the broadcasts that hold the read lock.
NoReaders == \A x \in Casters : cast[x].at # "send"

AddClient ==
  /\ run.at = "register"
  /\ NoReaders
  /\ rooms' = [rooms EXCEPT ![PlayerID[run.client]] = run.client]
  /\ run' = Selecting
  /\ UNCHANGED <<pumps, queued, closed, cast>>

\* Slip: the client removed and its channel closed without the lock.
EvictUnlocked ==
  /\ run.at = "unregister"
  /\ rooms' = [rooms EXCEPT ![PlayerID[run.client]] = IF @ = run.client THEN NoConn ELSE @]
  /\ closed' = [closed EXCEPT ![run.client] = @ \/ rooms[PlayerID[run.client]] = run.client]
  /\ run' = Selecting
  /\ UNCHANGED <<pumps, queued, cast>>

\* Only the client still in the player's slot is evicted, and its channel closed.
EvictClient ==
  /\ run.at = "unregister"
  /\ NoReaders
  /\ IF rooms[PlayerID[run.client]] = run.client
     THEN /\ rooms' = [rooms EXCEPT ![PlayerID[run.client]] = NoConn]
          /\ closed' = [closed EXCEPT ![run.client] = TRUE]
     ELSE UNCHANGED <<rooms, closed>>
  /\ run' = Selecting
  /\ UNCHANGED <<pumps, queued, cast>>

-----------------------------------------------------------------------------
(* Broadcasts                                                              *)

\* A handler or the ticker calls BroadcastToSession.
BroadcastToSession(b) ==
  /\ cast[b] = NoCast
  /\ cast' = [cast EXCEPT ![b].at = "rlock"]
  /\ UNCHANGED <<pumps, queued, closed, rooms, run>>

\* A ReadPump has read a cursor or a drawing and calls BroadcastToTeam.
BroadcastToTeam(c) ==
  /\ reader[c] = "read"
  /\ link[c] = "up"
  /\ cast[c] = NoCast
  /\ cast' = [cast EXCEPT ![c].at = "rlock"]
  /\ UNCHANGED <<pumps, queued, closed, rooms, run>>

Targets(x) ==
  {c \in Conns :
     /\ rooms[PlayerID[c]] = c
     /\ x \in Conns => TeamID[c] = TeamID[x] /\ PlayerID[c] # PlayerID[x]}

\* RLock is not granted while Run waits for the lock.
RLock(x) ==
  /\ cast[x].at = "rlock"
  /\ run = Selecting
  /\ cast' = [cast EXCEPT ![x] = [at |-> "send", left |-> Targets(x)]]
  /\ UNCHANGED <<pumps, queued, closed, rooms, run>>

\* Slip: no default case, the send waits for room in the channel.
SendBlocking(x, c) ==
  /\ c \in cast[x].left
  /\ queued[c] < Buffer
  /\ queued' = [queued EXCEPT ![c] = @ + 1]
  /\ cast' = [cast EXCEPT ![x].left = @ \ {c}]
  /\ UNCHANGED <<pumps, closed, rooms, run>>

\* Slip: a queue that grows instead of a full channel that is skipped.
SendUnbounded(x, c) ==
  /\ c \in cast[x].left
  /\ queued' = [queued EXCEPT ![c] = @ + 1]
  /\ cast' = [cast EXCEPT ![x].left = @ \ {c}]
  /\ UNCHANGED <<pumps, closed, rooms, run>>

\* A client whose channel is full is skipped.
SendOrSkip(x, c) ==
  /\ c \in cast[x].left
  /\ queued' = [queued EXCEPT ![c] = IF @ < Buffer THEN @ + 1 ELSE @]
  /\ cast' = [cast EXCEPT ![x].left = @ \ {c}]
  /\ UNCHANGED <<pumps, closed, rooms, run>>

RUnlock(x) ==
  /\ cast[x] = [at |-> "send", left |-> {}]
  /\ cast' = [cast EXCEPT ![x] = NoCast]
  /\ UNCHANGED <<pumps, queued, closed, rooms, run>>

-----------------------------------------------------------------------------
(* ReadPump                                                                *)

\* Read fails on a closed connection, and closes it when the context is cancelled.
ReadFails(c) ==
  /\ reader[c] = "read"
  /\ cast[c] = NoCast
  /\ link[c] = "shut" \/ ctxDone[c]
  /\ reader' = [reader EXCEPT ![c] = "unregister"]
  /\ link' = [link EXCEPT ![c] = "shut"]
  /\ UNCHANGED <<handler, writer, ctxDone, queued, closed, rooms, run, cast>>

-----------------------------------------------------------------------------
(* WritePump                                                               *)

TakeMessage(c) ==
  /\ writer[c] = "select"
  /\ queued[c] > 0
  /\ writer' = [writer EXCEPT ![c] = "write"]
  /\ queued' = [queued EXCEPT ![c] = @ - 1]
  /\ UNCHANGED <<handler, reader, link, ctxDone, closed, rooms, run, cast>>

\* A write to a peer that is gone still succeeds while TCP buffers it.
WriteSucceeds(c) ==
  /\ writer[c] = "write"
  /\ link[c] # "shut" /\ ~ctxDone[c]
  /\ writer' = [writer EXCEPT ![c] = "select"]
  /\ UNCHANGED <<handler, reader, link, ctxDone, queued, closed, rooms, run, cast>>

\* The pump returns from where it is, and its deferred function closes the connection.
WritePumpReturns(c, from) ==
  /\ writer[c] = from
  /\ writer' = [writer EXCEPT ![c] = "done"]
  /\ link' = [link EXCEPT ![c] = "shut"]
  /\ UNCHANGED <<handler, reader, ctxDone, queued, closed, rooms, run, cast>>

\* The connection is closed, the context cancelled, or writeWait runs out.
WriteFails(c) ==
  /\ link[c] # "up" \/ ctxDone[c]
  /\ WritePumpReturns(c, "write")

\* Slip: the result of the ping ignored.
PingIgnored(c) ==
  /\ link[c] # "up" /\ writer[c] = "select"
  /\ UNCHANGED vars

\* The ticker fires and no pong comes within writeWait.
PingFails(c) ==
  /\ link[c] # "up"
  /\ WritePumpReturns(c, "select")

\* The send channel is closed and drained, or the context is cancelled.
WritePumpTold(c) ==
  /\ (closed[c] /\ queued[c] = 0) \/ ctxDone[c]
  /\ WritePumpReturns(c, "select")

-----------------------------------------------------------------------------
(* The browser                                                             *)

\* The browser closes its socket.
PeerCloses(c) ==
  /\ link[c] = "up"
  /\ link' = [link EXCEPT ![c] = "shut"]
  /\ UNCHANGED <<handler, reader, writer, ctxDone, queued, closed, rooms, run, cast>>

\* The network is lost and no close arrives.
PeerVanishes(c) ==
  /\ link[c] = "up"
  /\ link' = [link EXCEPT ![c] = "silent"]
  /\ UNCHANGED <<handler, reader, writer, ctxDone, queued, closed, rooms, run, cast>>

-----------------------------------------------------------------------------
(* Specifications                                                          *)

RunStep ==
  \/ \E c \in Conns : ReceiveRegister(c) \/ ReceiveUnregister(c)
  \/ AddClient \/ EvictClient

CastStep(x) == RLock(x) \/ RUnlock(x) \/ \E c \in Conns : SendOrSkip(x, c)

WritePump(c) ==
  TakeMessage(c) \/ WriteSucceeds(c) \/ WriteFails(c) \/ PingFails(c) \/ WritePumpTold(c)

Next ==
  \/ \E c \in Conns : Open(c) \/ SpawnPumps(c) \/ CancelContext(c) \/ BroadcastToTeam(c)
  \/ RunStep
  \/ \E b \in Callers : BroadcastToSession(b)
  \/ \E x \in Casters : CastStep(x)
  \/ \E c \in Conns : ReadFails(c) \/ WritePump(c)
  \/ \E c \in Conns : PeerCloses(c) \/ PeerVanishes(c)

Spec == Init /\ [][Next]_vars

\* Every goroutine that can run does, and the ping ticker fires: select chooses at
\* random, so it takes the ticker in the end however many messages there are.
\* Nothing depends on browsers, on broadcasts being made or on contexts being
\* cancelled.
FairSpec ==
  /\ Spec
  /\ WF_vars(RunStep)
  /\ \A b \in Callers : WF_vars(CastStep(b))
  /\ \A c \in Conns :
       /\ WF_vars(SpawnPumps(c) \/ CastStep(c) \/ ReadFails(c))
       /\ WF_vars(WritePump(c))
       /\ SF_vars(PingFails(c))

-----------------------------------------------------------------------------
(* What the hub promises                                                   *)

\* The shape of the state: a send channel never holds more than its buffer.
TypeOK ==
  /\ handler \in [Conns -> {"none", "register", "spawn", "returned"}]
  /\ reader \in [Conns -> {"none", "read", "unregister", "done"}]
  /\ writer \in [Conns -> {"none", "select", "write", "done"}]
  /\ link \in [Conns -> {"none", "up", "silent", "shut"}]
  /\ ctxDone \in [Conns -> BOOLEAN]
  /\ queued \in [Conns -> 0 .. Buffer]
  /\ closed \in [Conns -> BOOLEAN]
  /\ rooms \in [Players -> Conns \cup {NoConn}]
  /\ run \in [at: {"select", "register", "unregister"}, client: Conns \cup {NoConn}]
  /\ cast \in [Casters -> [at: {"idle", "rlock", "send"}, left: SUBSET Conns]]

\* A broadcast never sends on a closed channel, which would panic the server: no
\* eviction falls between a broadcast's look at the room and its last send.
SendNeverPanics == \A x \in Casters : \A c \in cast[x].left : ~closed[c]

\* Once Run has dealt with a client's Unregister the client is in no slot and
\* never comes back to one, however often its player reconnects.
NoGhost ==
  \A c \in Conns :
    reader[c] = "done" /\ run.client # c => rooms[PlayerID[c]] # c

\* Register never blocks a handler for ever, however slow the other peers are.
RegisterReturns == \A c \in Conns : handler[c] = "register" ~> handler[c] = "returned"

\* A connection that the peer has left, with or without a close, loses both its
\* pumps and its slot.
DeadConnectionsGo ==
  \A c \in Conns :
    link[c] \in {"silent", "shut"}
      ~> reader[c] = "done" /\ writer[c] = "done" /\ rooms[PlayerID[c]] # c

-----------------------------------------------------------------------------
(* What comments of the code say, and the code does not do                 *)

\* hub.go:46, "If the player reconnected, a newer *Client occupies the slot": the
\* player's last connection, once registered, is the one broadcasts go to.
NewestListed ==
  \A c \in Conns :
    /\ handler[c] = "returned" /\ reader[c] = "read" /\ run.client # c
    /\ \A d \in Conns : d > c /\ PlayerID[d] = PlayerID[c] => handler[d] = "none"
    => rooms[PlayerID[c]] = c

\* client.go:45, "It runs as a long-lived goroutine started by the connection
\* handler": it stops when the peer closes or is lost, and not before.
LivesWithPeer ==
  [][\A c \in Conns : reader[c] = "read" /\ reader'[c] # "read" => link[c] # "up"]_vars

=============================================================================
