-------------------------- MODULE ReconcilerProofs --------------------------
(***************************************************************************)
(* Proofs about the agent hub (AgentRegistry) and about the reconciler on  *)
(* top of it, for any nodes, sockets, configurations and patches.          *)
(* OpenMeansCurrent is inductive once one adds that a socket nobody has    *)
(* accepted carries no node.  That no agent goes back to an older          *)
(* configuration rests on an order along each link: what the agent runs,   *)
(* what is on its wire, oldest first, and what is desired.                 *)
(***************************************************************************)
EXTENDS Reconciler, SequenceTheorems, TLAPS

----------------------------------------------------------------------------
(* The hub.                                                                *)

FreshIsAnonymous == \A s \in Socket : ready[s] = "unused" => auth[s] = NoNode

HubInv == HubTypeOK /\ FreshIsAnonymous /\ OpenMeansCurrent

LEMMA HubInitInv == HubInit => HubInv
BY PongPeriodsAssumption, NoNodeAssumption
   DEF HubInit, HubInv, HubTypeOK, FreshIsAnonymous, OpenMeansCurrent, Connected

LEMMA ClosingFacts ==
  ASSUME HubTypeOK, NEW S
  PROVE  /\ Closing(S) \in [Socket -> {"unused", "open", "closing", "closed"}]
         /\ \A s \in Socket : Closing(S)[s] = IF s \in S /\ ready[s] = "open" THEN "closing" ELSE ready[s]
BY DEF HubTypeOK, Closing

\* One step per handler: the sockets that are open and authenticated afterwards
\* were so before, except the one that says hello.
LEMMA HubNextInv == HubInv /\ [HubNext]_hubVars => HubInv'
<1> SUFFICES ASSUME HubInv, [HubNext]_hubVars PROVE HubInv'
  OBVIOUS
<1> USE NoNodeAssumption, NoSocketAssumption, PongPeriodsAssumption
<1>t. HubTypeOK /\ FreshIsAnonymous /\ OpenMeansCurrent
  BY DEF HubInv
<1>1. ASSUME NEW s \in Socket, Accept(s) PROVE HubInv'
  BY <1>1, <1>t DEF Accept, HubInv, HubTypeOK, FreshIsAnonymous, OpenMeansCurrent, Connected
<1>2. ASSUME NEW s \in Socket, Refuse(s) PROVE HubInv'
  <2>1. /\ ready' = Closing({s}) /\ UNCHANGED <<auth, connections, silence>>
    BY <1>2 DEF Refuse
  <2> QED
    BY <2>1, <1>t, ClosingFacts
       DEF HubInv, HubTypeOK, FreshIsAnonymous, OpenMeansCurrent, Connected
<1>3. ASSUME NEW s \in Socket, Frame(s) PROVE HubInv'
  <2>1. silence' \in [Node -> 0 .. PongPeriods + 1]
    BY <1>3, <1>t DEF Frame, HubTypeOK
  <2> QED
    BY <1>3, <2>1, <1>t DEF Frame, HubInv, HubTypeOK, FreshIsAnonymous, OpenMeansCurrent, Connected
<1>4. ASSUME NEW s \in Socket, SocketClosed(s) PROVE HubInv'
  BY <1>4, <1>t
     DEF SocketClosed, Unregister, HubInv, HubTypeOK, FreshIsAnonymous, OpenMeansCurrent, Connected
<1>5. ASSUME NEW s \in Socket, SocketError(s) PROVE HubInv'
  <2>1. /\ ready' = Closing({s}) /\ Unregister(s) /\ UNCHANGED <<auth, silence>>
    BY <1>5 DEF SocketError
  <2> QED
    BY <2>1, <1>t, ClosingFacts
       DEF Unregister, HubInv, HubTypeOK, FreshIsAnonymous, OpenMeansCurrent, Connected
<1>6. ASSUME NEW s \in Socket, NEW n \in Node, Hello(s, n) PROVE HubInv'
  <2>1. /\ ready[s] = "open" /\ auth[s] = NoNode
        /\ auth' = [auth EXCEPT ![s] = n]
        /\ ready' = Closing({connections[n]} \ {s})
        /\ connections' = [connections EXCEPT ![n] = s]
        /\ silence' = [silence EXCEPT ![n] = 0]
    BY <1>6 DEF Hello
  <2>2. HubTypeOK'
    BY <2>1, <1>t, ClosingFacts DEF HubTypeOK
  <2>3. FreshIsAnonymous'
    BY <2>1, <1>t, ClosingFacts DEF HubTypeOK, FreshIsAnonymous
  <2>4. ASSUME NEW t \in Socket, ready'[t] = "open", auth'[t] # NoNode
        PROVE  connections'[auth'[t]] = t
    BY <2>1, <2>4, <1>t, ClosingFacts DEF HubTypeOK, OpenMeansCurrent
  <2>5. ASSUME NEW m \in Node, connections'[m] # NoSocket
        PROVE  auth'[connections'[m]] = m /\ ready'[connections'[m]] \in {"open", "closing"}
    BY <2>1, <2>5, <1>t, ClosingFacts DEF HubTypeOK, OpenMeansCurrent, Connected
  <2> QED
    BY <2>2, <2>3, <2>4, <2>5 DEF HubInv, OpenMeansCurrent, Connected
<1>7. CASE Elapse
  <2>1. silence' \in [Node -> 0 .. PongPeriods + 1]
    BY <1>7, <1>t DEF Elapse, HubTypeOK
  <2> QED
    BY <1>7, <2>1, <1>t DEF Elapse, HubInv, HubTypeOK, FreshIsAnonymous, OpenMeansCurrent, Connected
<1>8. CASE Sweep
  <2>1. /\ ready' = Closing({connections[n] : n \in Silent})
        /\ connections' = [n \in Node |-> IF n \in Silent THEN NoSocket ELSE connections[n]]
        /\ UNCHANGED <<auth, silence>>
    BY <1>8 DEF Sweep
  <2>2. HubTypeOK' /\ FreshIsAnonymous'
    BY <2>1, <1>t, ClosingFacts DEF HubTypeOK, FreshIsAnonymous
  <2>3. ASSUME NEW t \in Socket, ready'[t] = "open", auth'[t] # NoNode
        PROVE  connections'[auth'[t]] = t
    <3>1. ready[t] = "open" /\ t \notin {connections[n] : n \in Silent}
      BY <2>1, <2>3, <1>t, ClosingFacts DEF HubTypeOK
    <3>2. connections[auth[t]] = t /\ auth[t] \in Node
      BY <2>1, <2>3, <3>1, <1>t DEF HubTypeOK, OpenMeansCurrent
    <3>3. auth[t] \notin Silent
      BY <3>1, <3>2
    <3> QED
      BY <2>1, <3>2, <3>3
  <2>4. ASSUME NEW m \in Node, connections'[m] # NoSocket
        PROVE  auth'[connections'[m]] = m /\ ready'[connections'[m]] \in {"open", "closing"}
    <3>1. m \notin Silent /\ connections'[m] = connections[m]
      BY <2>1, <2>4, <1>t DEF HubTypeOK
    <3>2. auth[connections[m]] = m /\ ready[connections[m]] \in {"open", "closing"}
      BY <2>4, <3>1, <1>t DEF OpenMeansCurrent, Connected
    <3>3. connections[m] \in Socket
      BY <2>4, <3>1, <1>t DEF HubTypeOK
    <3> QED
      BY <2>1, <3>1, <3>2, <3>3, <1>t, ClosingFacts
  <2> QED
    BY <2>2, <2>3, <2>4 DEF HubInv, OpenMeansCurrent, Connected
<1>9. CASE UNCHANGED hubVars
  BY <1>9, <1>t DEF hubVars, HubInv, HubTypeOK, FreshIsAnonymous, OpenMeansCurrent, Connected
<1> QED
  BY <1>1, <1>2, <1>3, <1>4, <1>5, <1>6, <1>7, <1>8, <1>9 DEF HubNext

\* The hub's strengthened invariant.
THEOREM HubInvariance == HubSpec => []HubInv
BY HubInitInv, HubNextInv, PTL DEF HubSpec

\* An open authenticated socket is the registered one of its node.
THEOREM OneOpenSocketPerNode == HubSpec => []OpenMeansCurrent
<1>1. HubInv => OpenMeansCurrent
  BY DEF HubInv
<1> QED
  BY HubInvariance, <1>1, PTL

\* Only its own socket takes a connection away from a node.
LEMMA EvictionStep ==
  ASSUME HubInv, HubNext
  PROVE  \A n \in Node : (Connected(n) /\ ~Connected(n)') => ready'[connections[n]] # "open"
<1> SUFFICES ASSUME NEW n \in Node, Connected(n), ~Connected(n)'
             PROVE  ready'[connections[n]] # "open"
  OBVIOUS
<1> USE NoNodeAssumption, NoSocketAssumption
<1>t. HubTypeOK /\ connections[n] \in Socket
  BY DEF HubInv, HubTypeOK, Connected
<1>1. ASSUME NEW s \in Socket,
             Accept(s) \/ Refuse(s) \/ Frame(s) PROVE FALSE
  BY <1>1 DEF Accept, Refuse, Frame, Connected
<1>2. ASSUME NEW s \in Socket, NEW m \in Node, Hello(s, m) PROVE FALSE
  BY <1>2, <1>t DEF Hello, Connected, HubTypeOK
<1>3. ASSUME NEW s \in Socket, SocketClosed(s) PROVE ready'[connections[n]] # "open"
  BY <1>3, <1>t DEF SocketClosed, Unregister, Connected, HubTypeOK
<1>4. ASSUME NEW s \in Socket, SocketError(s) PROVE ready'[connections[n]] # "open"
  BY <1>4, <1>t, ClosingFacts DEF SocketError, Unregister, Connected
<1>5. CASE Elapse
  BY <1>5 DEF Elapse, Connected
<1>6. CASE Sweep
  BY <1>6, <1>t, ClosingFacts DEF Sweep, Connected
<1> QED
  BY <1>1, <1>2, <1>3, <1>4, <1>5, <1>6 DEF HubNext

\* A late close of a replaced socket never evicts the newer connection.
THEOREM StaleCloseIsHarmless == HubSpec => EvictsOnlyItself
<1> DEFINE Step == \A n \in Node :
              (Connected(n) /\ ~Connected(n)') => ready'[connections[n]] # "open"
<1>1. HubInv /\ [HubNext]_hubVars => [Step]_hubVars
  BY EvictionStep
<1> QED
  BY <1>1, HubInvariance, PTL DEF HubSpec, EvictsOnlyItself

----------------------------------------------------------------------------
(* Types of the reconciler.                                                *)

\* A restart of the server leaves no connection, so nothing that the hub
\* promises is lost.
LEMMA RestartHubInv == HubInv /\ ServerRestart => HubInv'
BY NoNodeAssumption, NoSocketAssumption, PongPeriodsAssumption
   DEF ServerRestart, HubInv, HubTypeOK, FreshIsAnonymous, OpenMeansCurrent, Connected

\* Every step is one of the hub's, leaves it alone, or is a restart.
LEMMA StepsOfTheHub ==
  ASSUME Next, TypeOK
  PROVE  HubNext \/ ServerRestart \/ UNCHANGED hubVars
<1>1. ASSUME NEW s \in Socket, Welcome(s) PROVE HubNext
  <2>1. dialer[s] \in Node /\ Hello(s, dialer[s])
    BY <1>1 DEF Welcome, TypeOK
  <2> QED
    BY <2>1 DEF HubNext
<1>2. ASSUME NEW n \in Node, NEW s \in Socket, Dial(n, s) PROVE HubNext
  BY <1>2 DEF Dial, HubNext
<1>3. ASSUME NEW s \in Socket, LinkLost(s) \/ AgentReceive(s) PROVE UNCHANGED hubVars
  BY <1>3 DEF LinkLost, AgentReceive
<1>4. ASSUME NEW s \in Socket, NEW metrics \in BOOLEAN, Message(s, metrics) PROVE HubNext
  BY <1>4 DEF Message, HubNext
<1>5. ASSUME NEW n \in Node, MetricsAge(n) PROVE UNCHANGED hubVars
  BY <1>5 DEF MetricsAge
<1>6. ASSUME NEW n \in Node, NEW c \in Config, Patch(n, c) PROVE UNCHANGED hubVars
  BY <1>6 DEF Patch
<1>7. CASE Tick
  BY <1>7 DEF Tick
<1>8. CASE HubEvent
  BY <1>8 DEF HubEvent, HubNext
<1> QED
  BY <1>1, <1>2, <1>3, <1>4, <1>5, <1>6, <1>7, <1>8 DEF Next

\* The registry's part of the types does not depend on the others.
RecTypeOK ==
  /\ desired \in [Node -> Config]
  /\ lastSent \in [Node -> Config \cup {NoConfig}]
  /\ ticked \in BOOLEAN
  /\ applying \in [Node -> BOOLEAN] /\ everConnected \in [Node -> BOOLEAN]
  /\ heard \in [Node -> {"never", "fresh", "stale"}]
  /\ \A n \in Node : (applying[n] \/ heard[n] # "never") => everConnected[n]
  /\ state \in [Node -> {"provisioning", "reconciling", "offline", "consistent", "degraded"}]

LinkTypeOK ==
  /\ wire \in [Socket -> Seq(Config)]
  /\ dialer \in [Socket -> Node \cup {NoNode}] /\ held \in [Socket -> BOOLEAN]
  /\ config \in [Node -> Config \cup {NoConfig}]

LEMMA TypeParts == TypeOK <=> HubTypeOK /\ RecTypeOK /\ LinkTypeOK
BY DEF TypeOK, RecTypeOK, LinkTypeOK

LEMMA WrittenFacts ==
  ASSUME LinkTypeOK, desired \in [Node -> Config], NEW S,
         \A s \in Socket : held[s] => dialer[s] \in Node
  PROVE  /\ Written(S) \in [Socket -> Seq(Config)]
         /\ \A s \in Socket :
              \/ Written(S)[s] = wire[s]
              \/ held[s] /\ Written(S)[s] = Append(wire[s], desired[dialer[s]])
BY DEF LinkTypeOK, Written

\* A tick leaves no connected node out of step with what was sent to it last, so
\* it never calls a node drifted.
LEMMA TickTypes ==
  ASSUME TypeOK, Tick
  PROVE  RecTypeOK'
<1>1. /\ desired \in [Node -> Config]
      /\ lastSent \in [Node -> Config \cup {NoConfig}]
      /\ applying \in [Node -> BOOLEAN] /\ everConnected \in [Node -> BOOLEAN]
      /\ heard \in [Node -> {"never", "fresh", "stale"}]
      /\ \A n \in Node : (applying[n] \/ heard[n] # "never") => everConnected[n]
  BY DEF TypeOK
<1> DEFINE pushed == {n \in Node : Connected(n) /\ (Drift(n) \/ lastSent[n] = NoConfig)}
<1>2. /\ lastSent' = [n \in Node |-> IF n \in pushed THEN desired[n] ELSE lastSent[n]]
      /\ applying' = [n \in Node |-> applying[n] \/ (Connected(n) /\ Drift(n))]
      /\ everConnected' = [n \in Node |-> everConnected[n] \/ Connected(n)]
      /\ state' = [n \in Node |-> NodeState(n)]
      /\ ticked' = TRUE /\ UNCHANGED <<desired, heard>>
  BY DEF Tick
<1>3. lastSent' \in [Node -> Config \cup {NoConfig}]
  BY <1>1, <1>2
<1>4. applying' \in [Node -> BOOLEAN] /\ everConnected' \in [Node -> BOOLEAN]
  BY <1>1, <1>2 DEF Connected, Drift
<1>5. \A n \in Node : (applying'[n] \/ heard[n] # "never") => everConnected'[n]
  BY <1>1, <1>2
<1>6. \A n \in Node : Connected(n) => lastSent'[n] = desired[n]
  BY <1>1, <1>2 DEF Drift
<1>7. \A n \in Node : NodeState(n) \in {"provisioning", "reconciling", "offline", "consistent", "degraded"}
  <2> TAKE n \in Node
  <2>1. CASE ~Connected(n)
    BY <2>1 DEF NodeState
  <2>2. CASE Connected(n) /\ applying'[n]
    BY <2>2 DEF NodeState
  <2>3. CASE Connected(n) /\ ~applying'[n]
    BY <2>3, <1>6 DEF NodeState
  <2> QED
    BY <2>1, <2>2, <2>3
<1> QED
  BY <1>1, <1>2, <1>3, <1>4, <1>5, <1>7 DEF RecTypeOK

----------------------------------------------------------------------------
(* The link.                                                               *)

\* c is d, or was left for d by one or more patches.
Upto(c, d) == c = d \/ <<c, d>> \in Later

LEMMA UptoFacts ==
  /\ \A c, d \in Config : Edits[c, d] => Upto(c, d)
  /\ \A c, d, e \in Config : Upto(c, d) /\ Upto(d, e) => Upto(c, e)
<1>1. \A c, d \in Config : Edits[c, d] => <<c, d>> \in Later
  BY DEF Later
<1>2. Transitive(Later)
  <2> SUFFICES ASSUME NEW c \in Config, NEW d \in Config, NEW e \in Config,
                      <<c, d>> \in Later, <<d, e>> \in Later
               PROVE  <<c, e>> \in Later
    BY DEF Transitive
  <2> SUFFICES ASSUME NEW R \in SUBSET (Config \X Config), Transitive(R),
                      \A x, y \in Config : Edits[x, y] => <<x, y>> \in R
               PROVE  <<c, e>> \in R
    BY DEF Later
  <2>1. <<c, d>> \in R /\ <<d, e>> \in R
    BY DEF Later
  <2> QED
    BY <2>1 DEF Transitive
<1> QED
  BY <1>1, <1>2 DEF Upto, Transitive

\* An agent holds one socket at a time, and one that is not held carries nothing.
OneLink ==
  /\ \A s \in Socket : held[s] => dialer[s] \in Node /\ ready[s] # "unused"
  /\ \A s \in Socket : ~held[s] => wire[s] = << >>
  /\ \A s, t \in Socket : held[s] /\ held[t] /\ dialer[s] = dialer[t] => s = t

\* What the agent runs, what is on its wire, oldest first, and what is desired.
InOrder ==
  /\ \A n \in Node : config[n] # NoConfig => Upto(config[n], desired[n])
  /\ \A s \in Socket : held[s] =>
       \A i \in 1 .. Len(wire[s]) :
         /\ Upto(wire[s][i], desired[dialer[s]])
         /\ config[dialer[s]] # NoConfig => Upto(config[dialer[s]], wire[s][i])
         /\ \A j \in i .. Len(wire[s]) : Upto(wire[s][i], wire[s][j])

LinkInv == TypeOK /\ OneLink /\ InOrder

\* What the server writes is what is desired now: it comes after all the rest.
LEMMA WrittenInv ==
  ASSUME LinkInv, NEW S, wire' = Written(S), HubTypeOK', RecTypeOK',
         \A s \in Socket : ready'[s] = "unused" => ready[s] = "unused",
         UNCHANGED <<desired, dialer, held, config>>
  PROVE  LinkInv'
<1> USE DEF LinkInv
<1>1. LinkTypeOK /\ desired \in [Node -> Config]
  BY TypeParts DEF TypeOK
<1>2. /\ Written(S) \in [Socket -> Seq(Config)]
      /\ \A s \in Socket :
           \/ Written(S)[s] = wire[s]
           \/ held[s] /\ Written(S)[s] = Append(wire[s], desired[dialer[s]])
  BY <1>1, WrittenFacts DEF OneLink
<1>3. TypeOK'
  BY <1>1, <1>2, TypeParts DEF TypeOK, HubTypeOK, RecTypeOK
<1>4. OneLink'
  BY <1>2 DEF OneLink
<1>5. ASSUME NEW s \in Socket, held[s]
      PROVE  \A i \in 1 .. Len(wire'[s]) :
               /\ Upto(wire'[s][i], desired[dialer[s]])
               /\ config[dialer[s]] # NoConfig => Upto(config[dialer[s]], wire'[s][i])
               /\ \A j \in i .. Len(wire'[s]) : Upto(wire'[s][i], wire'[s][j])
  <2> DEFINE q == wire[s]
             d == desired[dialer[s]]
  <2>1. q \in Seq(Config) /\ d \in Config /\ dialer[s] \in Node
    BY <1>1, <1>5 DEF LinkTypeOK, OneLink
  <2>2. /\ \A i \in 1 .. Len(q) :
             /\ Upto(q[i], d)
             /\ config[dialer[s]] # NoConfig => Upto(config[dialer[s]], q[i])
             /\ \A j \in i .. Len(q) : Upto(q[i], q[j])
        /\ config[dialer[s]] # NoConfig => Upto(config[dialer[s]], d)
    BY <1>5, <2>1 DEF InOrder
  <2>3. wire'[s] = q \/ wire'[s] = Append(q, d)
    BY <1>2
  <2>4. Upto(d, d)
    BY DEF Upto
  <2> HIDE DEF q, d
  <2>5. CASE wire'[s] = Append(q, d)
    <3>1. /\ Len(wire'[s]) = Len(q) + 1 /\ Len(q) \in Nat /\ wire'[s][Len(q) + 1] = d
          /\ \A i \in 1 .. Len(q) : wire'[s][i] = q[i]
      BY <2>1, <2>5, AppendProperties
    <3> SUFFICES ASSUME NEW i \in 1 .. Len(wire'[s])
                 PROVE  /\ Upto(wire'[s][i], d)
                        /\ config[dialer[s]] # NoConfig => Upto(config[dialer[s]], wire'[s][i])
                        /\ \A j \in i .. Len(wire'[s]) : Upto(wire'[s][i], wire'[s][j])
      BY DEF d
    <3>2. CASE i \in 1 .. Len(q)
      <4>1. wire'[s][i] = q[i] /\ Upto(q[i], d)
        BY <3>1, <3>2, <2>2
      <4>2. config[dialer[s]] # NoConfig => Upto(config[dialer[s]], q[i])
        BY <3>2, <2>2
      <4>3. ASSUME NEW j \in i .. Len(wire'[s]) PROVE Upto(q[i], wire'[s][j])
        <5>1. CASE j \in i .. Len(q)
          <6>1. wire'[s][j] = q[j]
            BY <3>1, <3>2, <5>1
          <6> QED
            BY <6>1, <3>2, <5>1, <2>2
        <5>2. CASE j = Len(q) + 1
          BY <3>1, <4>1, <5>2
        <5> QED
          BY <3>1, <3>2, <5>1, <5>2
      <4> QED
        BY <4>1, <4>2, <4>3
    <3>3. CASE i = Len(q) + 1
      <4>1. wire'[s][i] = d /\ \A j \in i .. Len(wire'[s]) : j = i
        BY <3>1, <3>3
      <4> QED
        BY <4>1, <2>2, <2>4
    <3> QED
      BY <3>1, <3>2, <3>3
  <2>6. CASE wire'[s] = q
    BY <2>2, <2>6 DEF d
  <2> QED
    BY <2>3, <2>5, <2>6
<1>6. InOrder'
  BY <1>5 DEF InOrder
<1> QED
  BY <1>3, <1>4, <1>6

\* Steps that leave the link and the desired state alone.
LEMMA LinkAlone ==
  ASSUME LinkInv, HubTypeOK', RecTypeOK', UNCHANGED <<desired, linkVars>>,
         \A s \in Socket : ready'[s] = "unused" => ready[s] = "unused"
  PROVE  LinkInv'
<1>1. TypeOK'
  BY TypeParts DEF LinkInv, TypeOK, HubTypeOK, RecTypeOK, linkVars
<1>2. OneLink' /\ InOrder'
  BY DEF LinkInv, OneLink, InOrder, linkVars
<1> QED
  BY <1>1, <1>2 DEF LinkInv

\* A patch moves what is desired past everything on the link.
LEMMA PatchInv ==
  ASSUME LinkInv, NEW n \in Node, NEW c \in Config, Patch(n, c)
  PROVE  LinkInv'
<1> USE DEF LinkInv
<1>1. /\ Edits[desired[n], c] /\ desired' = [desired EXCEPT ![n] = c]
      /\ UNCHANGED <<hubVars, ticked, lastSent, applying, everConnected, heard, state, linkVars>>
  BY DEF Patch
<1>2. desired \in [Node -> Config] /\ LinkTypeOK
  BY TypeParts DEF TypeOK
<1>3. \A m \in Node : desired'[m] \in Config /\ Upto(desired[m], desired'[m])
  <2>1. Upto(desired[n], c)
    BY <1>1, <1>2, UptoFacts
  <2>2. \A m \in Node : Upto(desired[m], desired[m])
    BY DEF Upto
  <2> QED
    BY <1>1, <1>2, <2>1, <2>2
<1>4. TypeOK'
  BY <1>1, <1>2 DEF TypeOK, HubTypeOK, hubVars, linkVars
<1>5. OneLink'
  BY <1>1 DEF OneLink, linkVars, hubVars
<1>6. ASSUME NEW m \in Node, config[m] # NoConfig PROVE Upto(config[m], desired'[m])
  <2>1. Upto(config[m], desired[m]) /\ config[m] \in Config /\ desired[m] \in Config
    BY <1>2, <1>6 DEF InOrder, LinkTypeOK
  <2> QED
    BY <1>3, <2>1, UptoFacts
<1>7. ASSUME NEW s \in Socket, held[s], NEW i \in 1 .. Len(wire[s])
      PROVE  Upto(wire[s][i], desired'[dialer[s]])
  <2>1. dialer[s] \in Node /\ wire[s][i] \in Config
    BY <1>2, <1>7 DEF OneLink, LinkTypeOK
  <2>2. Upto(wire[s][i], desired[dialer[s]]) /\ desired[dialer[s]] \in Config
    BY <1>2, <1>7, <2>1 DEF InOrder
  <2> QED
    BY <1>3, <2>1, <2>2, UptoFacts
<1>8. InOrder'
  <2>1. UNCHANGED <<wire, dialer, held, config>>
    BY <1>1 DEF linkVars
  <2> QED
    BY <2>1, <1>6, <1>7 DEF InOrder
<1> QED
  BY <1>4, <1>5, <1>8

\* The agent takes the oldest configuration of its wire, which is its own or later.
LEMMA AgentReceiveInv ==
  ASSUME LinkInv, NEW s \in Socket, AgentReceive(s)
  PROVE  /\ LinkInv'
         /\ \A n \in Node : (config[n] # NoConfig /\ config'[n] # config[n])
                               => <<config[n], config'[n]>> \in Later
<1> USE DEF LinkInv
<1> DEFINE q == wire[s]
           p == Tail(q)
           m == dialer[s]
<1>1. /\ held[s] /\ q # << >> /\ config' = [config EXCEPT ![m] = Head(q)]
      /\ wire' = [wire EXCEPT ![s] = p]
      /\ UNCHANGED <<hubVars, recVars, dialer, held>>
  BY DEF AgentReceive
<1>2. desired \in [Node -> Config] /\ LinkTypeOK /\ q \in Seq(Config) /\ m \in Node
  BY <1>1, TypeParts DEF TypeOK, OneLink
<1>3. /\ Head(q) = q[1] /\ q[1] \in Config /\ p \in Seq(Config)
      /\ Len(q) \in Nat \ {0} /\ Len(p) = Len(q) - 1
      /\ \A i \in 1 .. Len(p) : p[i] = q[i + 1] /\ i + 1 \in 1 .. Len(q)
  BY <1>1, <1>2
<1>4. /\ config'[m] = q[1] /\ wire'[s] = p
      /\ \A n \in Node : n # m => config'[n] = config[n]
      /\ \A t \in Socket : t # s => wire'[t] = wire[t]
  BY <1>1, <1>2, <1>3 DEF LinkTypeOK
<1>5. /\ \A i \in 1 .. Len(q) : Upto(q[i], desired[m]) /\ Upto(q[1], q[i])
      /\ config[m] # NoConfig => Upto(config[m], q[1])
      /\ \A i \in 1 .. Len(q) : \A j \in i .. Len(q) : Upto(q[i], q[j])
  <2>1. 1 \in 1 .. Len(q)
    BY <1>3
  <2> QED
    BY <1>1, <2>1 DEF InOrder
<1> HIDE DEF q, p
<1>6. TypeOK'
  <2>1. wire' \in [Socket -> Seq(Config)] /\ config' \in [Node -> Config \cup {NoConfig}]
    BY <1>1, <1>2, <1>3 DEF LinkTypeOK
  <2> QED
    BY <1>1, <2>1 DEF TypeOK, HubTypeOK, hubVars, recVars
<1>7. OneLink'
  BY <1>1, <1>4 DEF OneLink, hubVars
<1>8. \A n \in Node : config'[n] # NoConfig => Upto(config'[n], desired[n])
  <2>1. Upto(q[1], desired[m])
    BY <1>3, <1>5
  <2> QED
    BY <1>4, <2>1 DEF InOrder
<1>9. ASSUME NEW t \in Socket, held[t], NEW i \in 1 .. Len(wire'[t])
      PROVE  /\ Upto(wire'[t][i], desired[dialer[t]])
             /\ config'[dialer[t]] # NoConfig => Upto(config'[dialer[t]], wire'[t][i])
             /\ \A j \in i .. Len(wire'[t]) : Upto(wire'[t][i], wire'[t][j])
  <2>1. CASE t = s
    <3>1. i + 1 \in 1 .. Len(q) /\ wire'[t][i] = q[i + 1]
      BY <2>1, <1>3, <1>4, <1>9
    <3>2. Upto(q[i + 1], desired[m]) /\ Upto(q[1], q[i + 1])
      BY <3>1, <1>5
    <3>3. ASSUME NEW j \in i .. Len(wire'[t]) PROVE Upto(q[i + 1], wire'[t][j])
      <4>1. j + 1 \in (i + 1) .. Len(q) /\ wire'[t][j] = q[j + 1]
        BY <2>1, <3>3, <1>3, <1>4, <1>9
      <4> QED
        BY <3>1, <4>1, <1>5
    <3> QED
      BY <2>1, <3>1, <3>2, <3>3, <1>4
  <2>2. CASE t # s
    <3>1. dialer[t] # m /\ dialer[t] \in Node
      BY <2>2, <1>1, <1>9 DEF OneLink
    <3>2. wire'[t] = wire[t] /\ config'[dialer[t]] = config[dialer[t]]
      BY <2>2, <3>1, <1>4
    <3> QED
      BY <3>2, <1>9 DEF InOrder
  <2> QED
    BY <2>1, <2>2
<1>10. InOrder'
  <2>1. UNCHANGED <<dialer, held, desired>>
    BY <1>1 DEF recVars
  <2> QED
    BY <2>1, <1>8, <1>9 DEF InOrder
<1>11. ASSUME NEW n \in Node, config[n] # NoConfig, config'[n] # config[n]
       PROVE  <<config[n], config'[n]>> \in Later
  <2>1. n = m
    BY <1>4, <1>11
  <2> QED
    BY <2>1, <1>4, <1>5, <1>11 DEF Upto
<1> QED
  BY <1>6, <1>7, <1>10, <1>11

\* A new link is empty, a lost one is emptied.
LEMMA LinkChangesInv ==
  ASSUME LinkInv, HubTypeOK',
         \/ \E n \in Node, s \in Socket : Dial(n, s)
         \/ \E s \in Socket : LinkLost(s)
  PROVE  LinkInv'
<1> USE DEF LinkInv
<1>1. LinkTypeOK /\ RecTypeOK
  BY TypeParts
<1>2. ASSUME NEW n \in Node, NEW s \in Socket, Dial(n, s) PROVE LinkInv'
  <2>1. /\ \A t \in Socket : dialer[t] = n => ~held[t]
        /\ ready[s] = "unused" /\ ready' = [ready EXCEPT ![s] = "open"]
        /\ dialer' = [dialer EXCEPT ![s] = n] /\ held' = [held EXCEPT ![s] = TRUE]
        /\ UNCHANGED <<recVars, wire, config>>
    BY <1>2 DEF Dial, Accept
  <2>2. ready \in [Socket -> {"unused", "open", "closing", "closed"}]
    BY DEF TypeOK, HubTypeOK
  <2>3. ~held[s] /\ wire[s] = << >>
    BY <2>1 DEF OneLink
  <2>4. /\ \A t \in Socket : held'[t] <=> held[t] \/ t = s
        /\ \A t \in Socket : t # s => dialer'[t] = dialer[t] /\ ready'[t] = ready[t]
        /\ dialer'[s] = n /\ ready'[s] = "open"
    BY <1>1, <2>1, <2>2 DEF LinkTypeOK
  <2>5. TypeOK'
    <3>1. dialer' \in [Socket -> Node \cup {NoNode}] /\ held' \in [Socket -> BOOLEAN]
      BY <1>1, <2>1 DEF LinkTypeOK
    <3> QED
      BY <2>1, <3>1 DEF TypeOK, recVars
  <2>6. OneLink'
    <3>1. \A t \in Socket : held'[t] => dialer'[t] \in Node /\ ready'[t] # "unused"
      BY <2>4 DEF OneLink
    <3>2. \A t \in Socket : ~held'[t] => wire[t] = << >>
      BY <2>4 DEF OneLink
    <3>3. \A t, u \in Socket : held'[t] /\ held'[u] /\ dialer'[t] = dialer'[u] => t = u
      BY <2>1, <2>4 DEF OneLink
    <3> QED
      BY <2>1, <3>1, <3>2, <3>3 DEF OneLink
  <2>7. InOrder'
    <3>1. UNCHANGED <<desired, wire, config>> /\ Len(wire[s]) = 0
      BY <2>1, <2>3 DEF recVars
    <3>2. \A t \in Socket : held'[t] /\ wire[t] # << >> => held[t] /\ dialer'[t] = dialer[t]
      BY <2>3, <2>4
    <3>3. ASSUME NEW t \in Socket, held'[t], NEW i \in 1 .. Len(wire[t])
          PROVE  /\ Upto(wire[t][i], desired[dialer'[t]])
                 /\ config[dialer'[t]] # NoConfig => Upto(config[dialer'[t]], wire[t][i])
                 /\ \A j \in i .. Len(wire[t]) : Upto(wire[t][i], wire[t][j])
      <4>1. wire[t] # << >>
        BY <3>3
      <4> QED
        BY <3>2, <3>3, <4>1 DEF InOrder
    <3> QED
      BY <3>1, <3>3 DEF InOrder
  <2> QED
    BY <2>5, <2>6, <2>7
<1>3. ASSUME NEW s \in Socket, LinkLost(s) PROVE LinkInv'
  <2>1. /\ held[s] /\ held' = [held EXCEPT ![s] = FALSE] /\ wire' = [wire EXCEPT ![s] = << >>]
        /\ UNCHANGED <<hubVars, recVars, dialer, config>>
    BY <1>3 DEF LinkLost
  <2>2. /\ wire' \in [Socket -> Seq(Config)] /\ held' \in [Socket -> BOOLEAN]
        /\ ~held'[s] /\ wire'[s] = << >>
        /\ \A t \in Socket : t # s => held'[t] = held[t] /\ wire'[t] = wire[t]
    BY <1>1, <2>1 DEF LinkTypeOK
  <2>3. TypeOK'
    BY <2>1, <2>2 DEF TypeOK, recVars
  <2>4. OneLink'
    BY <2>1, <2>2 DEF OneLink, hubVars
  <2>5. InOrder'
    BY <2>1, <2>2 DEF InOrder, recVars
  <2> QED
    BY <2>3, <2>4, <2>5
<1> QED
  BY <1>2, <1>3

\* Steps of the reconciler that have no part in the link keep its types.
LEMMA RecTypes ==
  ASSUME TypeOK,
         \/ \E s \in Socket, metrics \in BOOLEAN : Message(s, metrics)
         \/ \E n \in Node : MetricsAge(n)
         \/ ServerRestart
  PROVE  RecTypeOK'
<1> USE DEF TypeOK, RecTypeOK
<1>1. ASSUME NEW s \in Socket, NEW metrics \in BOOLEAN, Message(s, metrics) PROVE RecTypeOK'
  <2> DEFINE n == auth[s]
  <2>1. /\ everConnected' = [everConnected EXCEPT ![n] = @ \/ ticked]
        /\ heard' = [heard EXCEPT ![n] = IF ticked /\ metrics THEN "fresh" ELSE @]
        /\ applying' = [applying EXCEPT ![n] = @ /\ ~(ticked /\ metrics)]
        /\ UNCHANGED <<desired, ticked, lastSent, state>>
    BY <1>1 DEF Message
  <2>2. /\ everConnected' \in [Node -> BOOLEAN] /\ heard' \in [Node -> {"never", "fresh", "stale"}]
        /\ applying' \in [Node -> BOOLEAN]
    BY <2>1
  <2>3. \A m \in Node : (applying'[m] \/ heard'[m] # "never") => everConnected'[m]
    <3> TAKE m \in Node
    <3>1. CASE m # n
      BY <2>1, <3>1
    <3>2. CASE m = n
      <4>1. /\ everConnected'[m] = (everConnected[m] \/ ticked)
            /\ heard'[m] = IF ticked /\ metrics THEN "fresh" ELSE heard[m]
            /\ applying'[m] = (applying[m] /\ ~(ticked /\ metrics))
        BY <2>1, <3>2
      <4>2. applying[m] \/ heard[m] # "never" => everConnected[m]
        OBVIOUS
      <4>3. everConnected'[m] <=> everConnected[m] \/ ticked
        BY <4>1
      <4>4. applying'[m] => applying[m]
        BY <4>1
      <4>5. heard'[m] # "never" => ticked \/ heard[m] # "never"
        BY <4>1
      <4> QED
        BY <4>2, <4>3, <4>4, <4>5
    <3> QED
      BY <3>1, <3>2
  <2> QED
    BY <2>1, <2>2, <2>3
<1>2. ASSUME NEW n \in Node, MetricsAge(n) PROVE RecTypeOK'
  BY <1>2 DEF MetricsAge
<1>3. CASE ServerRestart
  BY <1>3 DEF ServerRestart
<1> QED
  BY <1>1, <1>2, <1>3

\* No socket becomes unused again.
LEMMA UsedForGood ==
  ASSUME TypeOK, HubNext \/ ServerRestart \/ UNCHANGED hubVars
  PROVE  \A s \in Socket : ready'[s] = "unused" => ready[s] = "unused"
<1> SUFFICES ASSUME NEW t \in Socket, ready'[t] = "unused" PROVE ready[t] = "unused"
  OBVIOUS
<1>1. HubTypeOK
  BY DEF TypeOK
<1>2. ASSUME NEW s \in Socket,
             Accept(s) \/ Frame(s) \/ SocketClosed(s)
      PROVE  ready[t] = "unused"
  BY <1>1, <1>2 DEF HubTypeOK, Accept, Frame, SocketClosed
<1>3. ASSUME NEW S, ready' = Closing(S) PROVE ready[t] = "unused"
  BY <1>1, <1>3, ClosingFacts
<1> QED
  BY <1>2, <1>3 DEF HubNext, Refuse, SocketError, Hello, Elapse, Sweep, ServerRestart, hubVars

ReconcilerInv == HubInv /\ LinkInv

\* Every step keeps the hub's invariant and the order of the link, and no agent
\* leaves its configuration for an older one.
LEMMA NextReconcilerInv ==
  ASSUME ReconcilerInv, [Next]_vars
  PROVE  /\ ReconcilerInv'
         /\ \A n \in Node : (config[n] # NoConfig /\ config'[n] # config[n])
                               => <<config[n], config'[n]>> \in Later
<1> DEFINE Newer == \A n \in Node : (config[n] # NoConfig /\ config'[n] # config[n])
                                       => <<config[n], config'[n]>> \in Later
<1>t. HubInv /\ LinkInv /\ TypeOK /\ HubTypeOK /\ RecTypeOK /\ LinkTypeOK
  BY TypeParts DEF ReconcilerInv, LinkInv
<1>1. HubInv' /\ HubTypeOK' /\ \A s \in Socket : ready'[s] = "unused" => ready[s] = "unused"
  <2>1. HubNext \/ ServerRestart \/ UNCHANGED hubVars
    BY <1>t, StepsOfTheHub DEF vars
  <2>2. HubInv'
    BY <1>t, <2>1, HubNextInv, RestartHubInv
  <2>3. HubTypeOK'
    BY <2>2 DEF HubInv
  <2> QED
    BY <1>t, <2>1, <2>2, <2>3, UsedForGood
<1>2. ASSUME NEW n \in Node, NEW s \in Socket, Dial(n, s) PROVE LinkInv' /\ Newer
  <2>1. LinkInv'
    BY <1>t, <1>1, <1>2, LinkChangesInv
  <2> QED
    BY <1>2, <2>1 DEF Dial
<1>3. ASSUME NEW s \in Socket, LinkLost(s) PROVE LinkInv' /\ Newer
  <2>1. LinkInv'
    BY <1>t, <1>1, <1>3, LinkChangesInv
  <2> QED
    BY <1>3, <2>1 DEF LinkLost
<1>4. ASSUME NEW s \in Socket, AgentReceive(s) PROVE LinkInv' /\ Newer
  BY <1>t, <1>4, AgentReceiveInv
<1>5. ASSUME NEW s \in Socket, Welcome(s) PROVE LinkInv' /\ Newer
  <2>1. wire' = Written({s}) /\ UNCHANGED <<recVars, dialer, held, config>>
    BY <1>5 DEF Welcome
  <2>2. RecTypeOK' /\ desired' = desired
    BY <1>t, <2>1 DEF RecTypeOK, recVars
  <2>3. LinkInv'
    BY <1>t, <1>1, <2>1, <2>2, WrittenInv
  <2> QED
    BY <2>1, <2>3
<1>6. ASSUME Tick PROVE LinkInv' /\ Newer
  <2>1. PICK S : wire' = Written(S)
    BY <1>6 DEF Tick
  <2>2. UNCHANGED <<desired, dialer, held, config>>
    BY <1>6 DEF Tick
  <2>3. RecTypeOK'
    BY <1>t, <1>6, TickTypes
  <2>4. LinkInv'
    BY <1>t, <1>1, <2>1, <2>2, <2>3, WrittenInv
  <2> QED
    BY <2>2, <2>4
<1>7. ASSUME NEW n \in Node, NEW c \in Config, Patch(n, c) PROVE LinkInv' /\ Newer
  <2>1. LinkInv'
    BY <1>t, <1>7, PatchInv
  <2> QED
    BY <1>7, <2>1 DEF Patch, linkVars
<1>8. ASSUME UNCHANGED <<desired, linkVars>>, RecTypeOK' PROVE LinkInv' /\ Newer
  <2>1. LinkInv'
    BY <1>t, <1>1, <1>8, LinkAlone
  <2> QED
    BY <1>8, <2>1 DEF linkVars
<1>9. ASSUME \/ \E s \in Socket, metrics \in BOOLEAN : Message(s, metrics)
             \/ \E n \in Node : MetricsAge(n)
             \/ ServerRestart
      PROVE  LinkInv' /\ Newer
  <2>1. RecTypeOK'
    BY <1>t, <1>9, RecTypes
  <2>2. UNCHANGED <<desired, linkVars>>
    BY <1>9 DEF Message, MetricsAge, ServerRestart
  <2> QED
    BY <1>8, <2>1, <2>2
<1>10. ASSUME HubEvent \/ UNCHANGED vars PROVE LinkInv' /\ Newer
  <2>1. UNCHANGED recVars /\ UNCHANGED linkVars
    BY <1>10 DEF HubEvent, vars
  <2>2. RecTypeOK' /\ desired' = desired
    BY <1>t, <2>1 DEF RecTypeOK, recVars
  <2> QED
    BY <1>8, <2>1, <2>2
<1>11. LinkInv' /\ Newer
  <2> HIDE DEF Newer
  <2> QED
    BY <1>2, <1>3, <1>4, <1>5, <1>6, <1>7, <1>9, <1>10 DEF Next
<1> QED
  BY <1>1, <1>11 DEF ReconcilerInv

LEMMA InitReconcilerInv == Init => ReconcilerInv
<1> SUFFICES ASSUME Init PROVE ReconcilerInv
  OBVIOUS
<1>1. HubInv /\ HubTypeOK
  BY HubInitInv DEF Init, HubInv
<1>2. RecTypeOK
  BY NoConfigAssumption DEF Init, RecTypeOK
<1>3. LinkTypeOK
  BY DEF Init, LinkTypeOK
<1>4. OneLink
  BY DEF Init, OneLink
<1>5. InOrder
  BY DEF Init, InOrder
<1> QED
  BY <1>1, <1>2, <1>3, <1>4, <1>5, TypeParts DEF ReconcilerInv, LinkInv

----------------------------------------------------------------------------
(* Theorems about the reconciler.                                          *)

\* The hub's invariant and the order of the link hold across server restarts.
THEOREM ReconcilerInvariance == Spec => []ReconcilerInv
BY InitReconcilerInv, NextReconcilerInv, PTL DEF Spec

\* Types; among them that no tick ever calls a node drifted.
THEOREM ReconcilerTypes == Spec => []TypeOK
<1>1. ReconcilerInv => TypeOK
  BY DEF ReconcilerInv, LinkInv
<1> QED
  BY <1>1, ReconcilerInvariance, PTL

\* With reconnects, ticks and restarts too, an open authenticated socket is the
\* registered one of its node.
THEOREM OneOpenSocketAcrossRestarts == Spec => []OpenMeansCurrent
<1>1. ReconcilerInv => OpenMeansCurrent
  BY DEF ReconcilerInv, HubInv
<1> QED
  BY <1>1, ReconcilerInvariance, PTL

\* A node loses its connection only with its own socket or the whole server.
THEOREM StaleCloseNeverEvicts == Spec => EvictsOnlyItself
<1> DEFINE Step == \A n \in Node :
              (Connected(n) /\ ~Connected(n)') => ready'[connections[n]] # "open"
<1>1. ReconcilerInv /\ [Next]_vars => [Step]_hubVars
  <2> SUFFICES ASSUME ReconcilerInv, [Next]_vars PROVE [Step]_hubVars
    OBVIOUS
  <2>1. HubNext \/ ServerRestart \/ UNCHANGED hubVars
    BY StepsOfTheHub DEF ReconcilerInv, LinkInv, vars
  <2>2. CASE HubNext
    BY <2>2, EvictionStep DEF ReconcilerInv
  <2>3. CASE ServerRestart
    <3>1. ASSUME NEW n \in Node, Connected(n) PROVE ready'[connections[n]] # "open"
      BY <2>3, <3>1, NoSocketAssumption
         DEF ReconcilerInv, HubInv, HubTypeOK, Connected, ServerRestart
    <3> QED
      BY <3>1
  <2> QED
    BY <2>1, <2>2, <2>3
<1> QED
  BY <1>1, ReconcilerInvariance, PTL DEF Spec, EvictsOnlyItself

\* Whatever is lost, repeated or overtaken by a reconnect, no agent goes back from
\* a configuration to one it had been patched away from.
THEOREM NoAgentGoesBack == Spec => NeverOlder
<1>1. ReconcilerInv /\ [Next]_vars =>
        [\A n \in Node : (config[n] # NoConfig /\ config'[n] # config[n])
                            => <<config[n], config'[n]>> \in Later]_vars
  BY NextReconcilerInv
<1> QED
  BY <1>1, ReconcilerInvariance, PTL DEF Spec, NeverOlder
=============================================================================
