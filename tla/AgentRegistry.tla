--------------------------- MODULE AgentRegistry ---------------------------
(***************************************************************************)
(* The agent hub: the handshake on /agent-ws and the registry of live      *)
(* agent connections (server/src/agentHub.ts).  A socket stays in the model *)
(* from its accept to its close event; after close() has been called it is *)
(* "closing" and still delivers the frames that were on the wire.          *)
(***************************************************************************)
EXTENDS Naturals

CONSTANTS
  Node,         \* registered nodes (isKnownNode)
  NoNode,
  Socket,       \* server-side websockets, each used once
  NoSocket,
  PongPeriods   \* the pong timeout, in watchdog periods (30 s / 10 s = 3)

ASSUME NoNodeAssumption == NoNode \notin Node
ASSUME NoSocketAssumption == NoSocket \notin Socket
ASSUME PongPeriodsAssumption == PongPeriods \in Nat

VARIABLES
  ready,         \* readyState of each socket
  auth,          \* the per-socket closure: the node that said hello, or NoNode
  connections,   \* Map node -> the registered socket, or NoSocket
  silence        \* watchdog periods since lastSeen of the node's connection

hubVars == <<ready, auth, connections, silence>>

Connected(n) == connections[n] # NoSocket

\* send() writes only to a registered socket that is still open.
Writable(n) == Connected(n) /\ ready[connections[n]] = "open"

\* socket.close(): the close event comes later.
Closing(S) == [s \in Socket |-> IF s \in S /\ ready[s] = "open" THEN "closing" ELSE ready[s]]

Accept(s) ==
  /\ ready[s] = "unused"
  /\ ready' = [ready EXCEPT ![s] = "open"]
  /\ UNCHANGED <<auth, connections, silence>>

\* A frame that is no JSON, before or after the hello; or a first frame that is no
\* hello, or one with a wrong token, an unknown node, another protocol or a version
\* below the floor.
Refuse(s) ==
  /\ ready[s] = "open"
  /\ ready' = Closing({s})
  /\ UNCHANGED <<auth, connections, silence>>

\* Fault: the replaced socket is forgotten without being closed.
HelloKeepsOld(s, n) ==
  /\ ready[s] = "open" /\ auth[s] = NoNode
  /\ auth' = [auth EXCEPT ![s] = n]
  /\ connections' = [connections EXCEPT ![n] = s]
  /\ silence' = [silence EXCEPT ![n] = 0]
  /\ UNCHANGED ready

\* A valid hello: register() closes the connection it replaces.
Hello(s, n) ==
  /\ ready[s] = "open" /\ auth[s] = NoNode
  /\ auth' = [auth EXCEPT ![s] = n]
  /\ ready' = Closing({connections[n]} \ {s})
  /\ connections' = [connections EXCEPT ![n] = s]
  /\ silence' = [silence EXCEPT ![n] = 0]

\* A validated frame of an authenticated socket touches the node's current
\* connection, which need not be the socket it came from.
Frame(s) ==
  /\ ready[s] \in {"open", "closing"} /\ auth[s] # NoNode
  /\ silence' = [silence EXCEPT ![auth[s]] = 0]
  /\ UNCHANGED <<ready, auth, connections>>

\* Fault: unregister() does not compare sockets.
UnregisterAny(s) ==
  connections' = [n \in Node |-> IF n = auth[s] THEN NoSocket ELSE connections[n]]

Unregister(s) ==
  connections' = [n \in Node |->
                    IF n = auth[s] /\ connections[n] = s THEN NoSocket ELSE connections[n]]

\* The close event.
SocketClosed(s) ==
  /\ ready[s] \in {"open", "closing"}
  /\ ready' = [ready EXCEPT ![s] = "closed"]
  /\ Unregister(s)
  /\ UNCHANGED <<auth, silence>>

\* The error event unregisters at once; the close event follows it.
SocketError(s) ==
  /\ ready[s] \in {"open", "closing"}
  /\ ready' = Closing({s})
  /\ Unregister(s)
  /\ UNCHANGED <<auth, silence>>

\* One watchdog period passes (the count saturates past the timeout).
Elapse ==
  /\ \E n \in Node : silence[n] <= PongPeriods
  /\ silence' = [n \in Node |-> IF silence[n] <= PongPeriods THEN silence[n] + 1 ELSE silence[n]]
  /\ UNCHANGED <<ready, auth, connections>>

Silent == {n \in Node : Connected(n) /\ silence[n] > PongPeriods}

\* The watchdog sweep.
Sweep ==
  /\ Silent # {}
  /\ ready' = Closing({connections[n] : n \in Silent})
  /\ connections' = [n \in Node |-> IF n \in Silent THEN NoSocket ELSE connections[n]]
  /\ UNCHANGED <<auth, silence>>

----------------------------------------------------------------------------
HubInit ==
  /\ ready = [s \in Socket |-> "unused"]
  /\ auth = [s \in Socket |-> NoNode]
  /\ connections = [n \in Node |-> NoSocket]
  /\ silence = [n \in Node |-> 0]

HubNext ==
  \/ \E s \in Socket :
       Accept(s) \/ Refuse(s) \/ Frame(s) \/ SocketClosed(s) \/ SocketError(s)
  \/ \E s \in Socket, n \in Node : Hello(s, n)
  \/ Elapse
  \/ Sweep

HubSpec == HubInit /\ [][HubNext]_hubVars

----------------------------------------------------------------------------
(* Properties.                                                             *)

HubTypeOK ==
  /\ ready \in [Socket -> {"unused", "open", "closing", "closed"}]
  /\ auth \in [Socket -> Node \cup {NoNode}]
  /\ connections \in [Node -> Socket \cup {NoSocket}]
  /\ silence \in [Node -> 0 .. PongPeriods + 1]

\* An authenticated socket that is still open is its node's registered one, and
\* a registered socket belongs to its node and has not seen its close event:
\* no agent keeps talking on a socket the server can no longer reach it by, and
\* no send goes to another node.
OpenMeansCurrent ==
  /\ \A s \in Socket :
       (ready[s] = "open" /\ auth[s] # NoNode) => connections[auth[s]] = s
  /\ \A n \in Node :
       Connected(n) => /\ auth[connections[n]] = n
                       /\ ready[connections[n]] \in {"open", "closing"}

\* A node loses its connection only through its own socket: the late close or
\* error of a socket that was replaced never evicts the newer one.
EvictsOnlyItself ==
  [][\A n \in Node :
       (Connected(n) /\ ~Connected(n)') => ready'[connections[n]] # "open"]_hubVars
=============================================================================
