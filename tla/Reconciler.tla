----------------------------- MODULE Reconciler -----------------------------
(***************************************************************************)
(* Desired against actual runtime configuration of each node: the hub      *)
(* (AgentRegistry), the reconciler's tick and message hook                 *)
(* (server/src/reconciler.ts), the in-memory desired state it reads        *)
(* (server/src/desiredState.ts), and the agent's end of the link           *)
(* (agent/src/daemon.ts): one socket at a time, frames in order.           *)
(***************************************************************************)
EXTENDS AgentRegistry, Sequences

CONSTANTS
  Config,        \* runtime configurations, compared by value (JSON.stringify)
  NoConfig,
  Boot,          \* the configuration every node is registered with
  Edits,         \* a relation: Edits[c, d] when an operator may patch c into d
  MaxEdits,      \* bound on patches
  MaxRestarts    \* bound on server restarts

ASSUME NoConfigAssumption == NoConfig \notin Config /\ Boot \in Config
ASSUME EditsAssumption == Edits \in [Config \X Config -> BOOLEAN]
ASSUME BoundsAssumption == MaxEdits \in Nat /\ MaxRestarts \in Nat

VARIABLES
  desired,       \* DesiredStateStore: node -> configuration
  ticked,        \* whether the runtime entries exist (the first tick made them)
  lastSent,      \* NodeRuntime.lastSentConfig
  applying,      \* NodeRuntime.applyingSince # null
  everConnected, \* NodeRuntime.everConnected
  heard,         \* NodeRuntime.lastMetricsTs, by age
  state,         \* NodeRuntime.state
  wire,          \* per socket: configurations on their way to the agent
  dialer,        \* the agent that dialled each socket
  held,          \* the agent's end of the socket is open
  config,        \* the agent's this.config
  edits, restarts

recVars == <<desired, ticked, lastSent, applying, everConnected, heard, state>>
linkVars == <<wire, dialer, held, config>>
vars == <<hubVars, recVars, linkVars, edits, restarts>>

----------------------------------------------------------------------------
(* The agent's end.                                                        *)

\* Fault: a reconnect does not wait for the old socket's close.
DialAnother(n, s) ==
  /\ Accept(s)
  /\ dialer' = [dialer EXCEPT ![s] = n]
  /\ held' = [held EXCEPT ![s] = TRUE]
  /\ UNCHANGED <<recVars, wire, config, edits, restarts>>

\* dial(), first at start and then only from the close handler of the last one.
Dial(n, s) ==
  /\ \A t \in Socket : dialer[t] = n => ~held[t]
  /\ Accept(s)
  /\ dialer' = [dialer EXCEPT ![s] = n]
  /\ held' = [held EXCEPT ![s] = TRUE]
  /\ UNCHANGED <<recVars, wire, config, edits, restarts>>

\* The agent's close event, whichever side or network caused it: what was still
\* on its way is lost.
LinkLost(s) ==
  /\ held[s]
  /\ held' = [held EXCEPT ![s] = FALSE]
  /\ wire' = [wire EXCEPT ![s] = << >>]
  /\ UNCHANGED <<hubVars, recVars, dialer, config, edits, restarts>>

\* welcome and config-update both replace this.config.
AgentReceive(s) ==
  /\ held[s] /\ wire[s] # << >>
  /\ config' = [config EXCEPT ![dialer[s]] = Head(wire[s])]
  /\ wire' = [wire EXCEPT ![s] = Tail(@)]
  /\ UNCHANGED <<hubVars, recVars, dialer, held, edits, restarts>>

----------------------------------------------------------------------------
(* The server.                                                             *)

\* What the server writes to the sockets in S goes nowhere once the agent has
\* lost its end.
Written(S) == [s \in Socket |-> IF s \in S /\ held[s] THEN Append(wire[s], desired[dialer[s]])
                                ELSE wire[s]]

\* Fault: the welcome does not carry the node's configuration.
WelcomeBare(s) ==
  /\ Hello(s, dialer[s])
  /\ UNCHANGED <<recVars, linkVars, edits, restarts>>

\* The hello of a socket, and the welcome that answers it.
Welcome(s) ==
  /\ dialer[s] # NoNode
  /\ Hello(s, dialer[s])
  /\ wire' = Written({s})
  /\ UNCHANGED <<recVars, dialer, held, config, edits, restarts>>

\* observeMessage, from the hub's frame handler.
Message(s, metrics) ==
  /\ Frame(s)
  /\ LET n == auth[s] IN
       /\ everConnected' = [everConnected EXCEPT ![n] = @ \/ ticked]
       /\ heard' = [heard EXCEPT ![n] = IF ticked /\ metrics THEN "fresh" ELSE @]
       /\ applying' = [applying EXCEPT ![n] = @ /\ ~(ticked /\ metrics)]
  /\ UNCHANGED <<desired, ticked, lastSent, state, linkVars, edits, restarts>>

\* The last metrics grow older than the staleness limit.
MetricsAge(n) ==
  /\ heard[n] = "fresh"
  /\ heard' = [heard EXCEPT ![n] = "stale"]
  /\ UNCHANGED <<hubVars, desired, ticked, lastSent, applying, everConnected, state, linkVars,
                 edits, restarts>>

\* DesiredStateStore.patch; the reconciler sees it at its next tick.
Patch(n, c) ==
  /\ edits < MaxEdits /\ Edits[desired[n], c]
  /\ desired' = [desired EXCEPT ![n] = c]
  /\ edits' = edits + 1
  /\ UNCHANGED <<hubVars, ticked, lastSent, applying, everConnected, heard, state, linkVars,
                 restarts>>

Drift(n) == lastSent[n] # NoConfig /\ lastSent[n] # desired[n]

\* computeNodeState on the entry as the tick leaves it.
NodeState(n) ==
  CASE ~Connected(n)              -> IF everConnected'[n] THEN "offline" ELSE "provisioning"
    [] Connected(n) /\ applying'[n] -> "reconciling"
    [] Connected(n) /\ ~applying'[n] /\ lastSent'[n] # desired[n] -> "drifted"
    [] OTHER                      -> IF heard[n] = "fresh" THEN "consistent" ELSE "degraded"

\* tick(): what is pushed counts as sent whether or not send() could write it.
Tick ==
  LET pushed == {n \in Node : Connected(n) /\ (Drift(n) \/ lastSent[n] = NoConfig)} IN
  /\ wire' = Written({connections[n] : n \in {m \in pushed : Writable(m)}})
  /\ lastSent' = [n \in Node |-> IF n \in pushed THEN desired[n] ELSE lastSent[n]]
  /\ applying' = [n \in Node |-> applying[n] \/ (Connected(n) /\ Drift(n))]
  /\ everConnected' = [n \in Node |-> everConnected[n] \/ Connected(n)]
  /\ state' = [n \in Node |-> NodeState(n)]
  /\ ticked' = TRUE
  /\ UNCHANGED <<hubVars, desired, heard, dialer, held, config, edits, restarts>>

\* The close and error events, the refusals and the watchdog of the hub.
HubEvent ==
  /\ \/ \E s \in Socket : Refuse(s) \/ SocketClosed(s) \/ SocketError(s)
     \/ Elapse
     \/ Sweep
  /\ UNCHANGED <<recVars, linkVars, edits, restarts>>

\* The server process ends and starts again: every socket and every runtime
\* entry is gone, the desired state is loaded from its file.
ServerRestart ==
  /\ restarts < MaxRestarts
  /\ restarts' = restarts + 1
  /\ ready' = [s \in Socket |-> IF ready[s] = "unused" THEN "unused" ELSE "closed"]
  /\ auth' = auth
  /\ connections' = [n \in Node |-> NoSocket]
  /\ silence' = [n \in Node |-> 0]
  /\ ticked' = FALSE
  /\ lastSent' = [n \in Node |-> NoConfig]
  /\ applying' = [n \in Node |-> FALSE]
  /\ everConnected' = [n \in Node |-> FALSE]
  /\ heard' = [n \in Node |-> "never"]
  /\ state' = [n \in Node |-> "provisioning"]
  /\ UNCHANGED <<desired, linkVars, edits>>

----------------------------------------------------------------------------
Init ==
  /\ HubInit
  /\ desired = [n \in Node |-> Boot]
  /\ ticked = FALSE
  /\ lastSent = [n \in Node |-> NoConfig]
  /\ applying = [n \in Node |-> FALSE]
  /\ everConnected = [n \in Node |-> FALSE]
  /\ heard = [n \in Node |-> "never"]
  /\ state = [n \in Node |-> "provisioning"]
  /\ wire = [s \in Socket |-> << >>]
  /\ dialer = [s \in Socket |-> NoNode]
  /\ held = [s \in Socket |-> FALSE]
  /\ config = [n \in Node |-> NoConfig]
  /\ edits = 0 /\ restarts = 0

Next ==
  \/ \E n \in Node, s \in Socket : Dial(n, s)
  \/ \E s \in Socket : LinkLost(s) \/ AgentReceive(s) \/ Welcome(s)
  \/ \E s \in Socket, metrics \in BOOLEAN : Message(s, metrics)
  \/ \E n \in Node : MetricsAge(n)
  \/ \E n \in Node, c \in Config : Patch(n, c)
  \/ Tick
  \/ HubEvent
  \/ ServerRestart

Spec == Init /\ [][Next]_vars

\* setInterval fires the tick; an open link delivers what was written to it.
FairSpec ==
  /\ Spec
  /\ WF_vars(Tick)
  /\ \A s \in Socket : WF_vars(AgentReceive(s))

----------------------------------------------------------------------------
(* Properties.                                                             *)

TypeOK ==
  /\ HubTypeOK
  /\ desired \in [Node -> Config]
  /\ lastSent \in [Node -> Config \cup {NoConfig}]
  /\ ticked \in BOOLEAN
  /\ applying \in [Node -> BOOLEAN] /\ everConnected \in [Node -> BOOLEAN]
  /\ heard \in [Node -> {"never", "fresh", "stale"}]
  /\ \A n \in Node : (applying[n] \/ heard[n] # "never") => everConnected[n]
  /\ state \in [Node -> {"provisioning", "reconciling", "offline", "consistent", "degraded"}]
  /\ wire \in [Socket -> Seq(Config)]
  /\ dialer \in [Socket -> Node \cup {NoNode}] /\ held \in [Socket -> BOOLEAN]
  /\ config \in [Node -> Config \cup {NoConfig}]

\* The node's registered socket is open at both ends.
Linked(n) ==
  /\ Writable(n)
  /\ held[connections[n]]

\* A node that stays linked ends up running the desired configuration, however
\* its patches, reconnects, failed sends and server restarts interleaved with
\* the ticks ("Drift => config-update push", reconciler.ts:14).
Converges ==
  \A n \in Node : <>[]Linked(n) => <>[](config[n] = desired[n])

Transitive(R) == \A c, d, e \in Config : <<c, d>> \in R /\ <<d, e>> \in R => <<c, e>> \in R

\* One or more patches lead from the first to the second: the least transitive
\* relation that holds every patch.
Later ==
  {p \in Config \X Config :
     \A R \in SUBSET (Config \X Config) :
       Transitive(R) /\ (\A c, d \in Config : Edits[c, d] => <<c, d>> \in R) => p \in R}

\* No agent replaces a configuration by one it had already been moved on from:
\* neither a frame of an older link nor a late welcome rolls a patch back.
NeverOlder ==
  [][\A n \in Node :
       (config[n] # NoConfig /\ config'[n] # config[n])
         => <<config[n], config'[n]>> \in Later]_vars
=============================================================================
