----------------------------- MODULE JobChannel -----------------------------
(***************************************************************************)
(* The job path end to end, for one node: the dashboard's jobs manager and *)
(* agent registry, the agent daemon (agent/src/daemon.ts) with its child   *)
(* processes, and the websockets between them.  A websocket is reliable    *)
(* and ordered until it breaks; what was on the wire then is lost from     *)
(* some point on, and nothing is replayed on the next one.  The agent and  *)
(* the dashboard may each be restarted at any time.                        *)
(***************************************************************************)
EXTENDS Naturals, Sequences, FiniteSets, SequencesExt

CONSTANTS
  node, NoNode,
  Kind, OrphanKind, ReqId, MaxJobsPerNode,
  Timed,         \* reqIds whose caller gives a timeout
  MaxSockets,    \* bound: connections the agent dials
  NoSocket,
  PongPeriods,
  MaxRestarts    \* bound: dashboard restarts

Node == {node}
Socket == 1 .. MaxSockets

ASSUME TimedAssumption == Timed \subseteq ReqId
ASSUME SocketAssumption == MaxSockets \in Nat /\ NoSocket \notin Socket
ASSUME ChannelNodeAssumption == NoNode \notin Node

VARIABLES
  jobs, byNode, timers, armed, issued, notified,   \* the jobs manager
  ready, auth, connections, silence,               \* the agent hub
  mine,       \* the agent's current websocket, or NoSocket
  procs,      \* agent: child process of each reqId
  streams,    \* agent: reqIds whose child's output pipes may still give data
  up, down,   \* frames on the wire of each socket, to and from the dashboard
  sentOn,     \* history: the socket a job-run was written to
  restarts    \* dashboard restarts so far

Jobs == INSTANCE JobsManager
Hub == INSTANCE AgentRegistry

jobVars == <<jobs, byNode, timers, armed, issued, notified>>
hubVars == <<ready, auth, connections, silence>>
agentVars == <<mine, procs, streams>>
wire == <<up, down>>
vars == <<jobVars, hubVars, agentVars, wire, sentOn, restarts>>

Hello == [type |-> "hello"]
JobRun(r) == [type |-> "job-run", req |-> r]
JobKill(r) == [type |-> "job-kill", req |-> r]
OutFrame(r) == [type |-> "job-out", req |-> r]
ExitFrame(r, ok) == [type |-> "job-exit", req |-> r, ok |-> ok]

OnWire(q, msg) == \E i \in 1 .. Len(q) : q[i] = msg

----------------------------------------------------------------------------
(* The agent.                                                              *)

\* ws.readyState === OPEN on the agent's side.
AgentOpen == mine # NoSocket

\* send(): a frame for a socket that is not open is dropped.
Emit(msg) ==
  up' = IF AgentOpen THEN [up EXCEPT ![mine] = Append(@, msg)] ELSE up

\* dial() and the open event, which says hello.
Dial(s) ==
  /\ ~AgentOpen
  /\ ready[s] = "unused" /\ \A t \in Socket : t < s => ready[t] # "unused"
  /\ Hub!Accept(s)
  /\ mine' = s
  /\ up' = [up EXCEPT ![s] = <<Hello>>]
  /\ UNCHANGED <<jobVars, procs, streams, down, sentOn, restarts>>

\* The connection breaks, or the dashboard has closed it: the agent's close
\* event.  Some suffix of what it had sent never arrives.
Break(lost) ==
  /\ mine' = NoSocket
  /\ up' = IF AgentOpen THEN [up EXCEPT ![mine] = SubSeq(@, 1, Len(@) - lost)] ELSE up
  /\ down' = IF AgentOpen THEN [down EXCEPT ![mine] = <<>>] ELSE down

ConnectionLost(lost) ==
  /\ AgentOpen
  /\ lost \in 0 .. Len(up[mine])
  /\ Break(lost)
  /\ UNCHANGED <<jobVars, hubVars, procs, streams, sentOn, restarts>>

\* systemd restarts the daemon; the children die with their unit, and the pipes
\* with the process that read them.
AgentRestart(lost) ==
  /\ lost \in (IF AgentOpen THEN 0 .. Len(up[mine]) ELSE {0})
  /\ \E r \in ReqId : procs[r] \in {"running", "killed"}
  /\ Break(lost)
  /\ procs' = [r \in ReqId |-> IF procs[r] \in {"running", "killed"} THEN "gone" ELSE procs[r]]
  /\ streams' = {}
  /\ UNCHANGED <<jobVars, hubVars, sentOn, restarts>>

\* handle(): job-run spawns, job-kill signals a child that is still there.
AgentReceive ==
  /\ AgentOpen /\ down[mine] # <<>>
  /\ LET msg == Head(down[mine]) IN
     /\ procs' = [procs EXCEPT ![msg.req] =
                 IF msg.type = "job-run" THEN "running"
                 ELSE IF @ = "running" THEN "killed" ELSE @]
     /\ streams' = IF msg.type = "job-run" THEN streams \cup {msg.req} ELSE streams
  /\ down' = [down EXCEPT ![mine] = Tail(@)]
  /\ UNCHANGED <<jobVars, hubVars, mine, up, sentOn, restarts>>

\* Output of a child: a data event of its pipes.  The exit frame goes out with
\* the child's "exit" event, which does not wait for the pipes to be drained, so
\* output may follow it, for as long as a grandchild holds the pipe.  Bound: it
\* is sent when nothing else of the agent is on the wire (earlier output would
\* have to wait behind those frames anyway).
ProcOut(r) ==
  /\ r \in streams
  /\ AgentOpen /\ up[mine] = <<>>
  /\ Emit(OutFrame(r))
  /\ UNCHANGED <<jobVars, hubVars, agentVars, down, sentOn, restarts>>

\* Fault: no exit frame for a child that was killed by signal.
ProcExitQuietKill(r, ok) ==
  /\ \/ procs[r] = "running"
     \/ procs[r] = "killed" /\ ~ok
  /\ procs' = [procs EXCEPT ![r] = IF ok THEN "ok" ELSE "bad"]
  /\ IF procs[r] = "killed" THEN UNCHANGED up ELSE Emit(ExitFrame(r, ok))
  /\ UNCHANGED <<jobVars, hubVars, mine, streams, down, sentOn, restarts>>

\* Fault: a null exit code (killed by signal) is sent as 0.
ProcExitNullIsZero(r, ok) ==
  /\ \/ procs[r] = "running"
     \/ procs[r] = "killed" /\ ~ok
  /\ procs' = [procs EXCEPT ![r] = IF ok THEN "ok" ELSE "bad"]
  /\ Emit(ExitFrame(r, ok \/ procs[r] = "killed"))
  /\ UNCHANGED <<jobVars, hubVars, mine, streams, down, sentOn, restarts>>

\* A child ends; one killed by signal, or that could not be spawned, not with 0.
ProcExit(r, ok) ==
  /\ \/ procs[r] = "running"
     \/ procs[r] = "killed" /\ ~ok
  /\ procs' = [procs EXCEPT ![r] = IF ok THEN "ok" ELSE "bad"]
  /\ Emit(ExitFrame(r, ok))
  /\ UNCHANGED <<jobVars, hubVars, mine, streams, down, sentOn, restarts>>

\* The agent's own timeout.
AgentTimeout(r) ==
  /\ r \in Timed
  /\ procs[r] = "running"
  /\ procs' = [procs EXCEPT ![r] = "killed"]
  /\ UNCHANGED <<jobVars, hubVars, mine, streams, wire, sentOn, restarts>>

----------------------------------------------------------------------------
(* The dashboard.                                                          *)

\* registry.send: written to the socket, or refused.
Write(msg) ==
  down' = IF Hub!Writable(node)
          THEN [down EXCEPT ![connections[node]] =
                  IF mine = connections[node] THEN Append(@, msg) ELSE @]
          ELSE down

\* dispatch(), past the not-connected refusal.
Dispatch(k, r) ==
  /\ Hub!Connected(node)
  /\ Jobs!Dispatch(node, k, r, r \in Timed, Hub!Writable(node))
  /\ Write(JobRun(r))
  /\ sentOn' = [sentOn EXCEPT ![r] = IF Hub!Writable(node) THEN connections[node] ELSE NoSocket]
  /\ UNCHANGED <<hubVars, agentVars, up, restarts>>

\* One frame arrives: the hub's message handler and, through onAgentMessage,
\* the jobs manager's observeMessage.
Receive(s) ==
  /\ ready[s] \in {"open", "closing"} /\ up[s] # <<>>
  /\ up' = [up EXCEPT ![s] = Tail(@)]
  /\ LET msg == Head(up[s]) IN
     \/ msg.type = "hello" /\ Hub!Hello(s, node) /\ UNCHANGED jobVars
     \/ msg.type = "job-exit" /\ Hub!Frame(s) /\ Jobs!JobExit(msg.req, msg.ok)
     \/ /\ msg.type = "job-out" /\ Hub!Frame(s)
        /\ IF msg.req \in DOMAIN jobs THEN UNCHANGED jobVars ELSE Jobs!JobOut(node, msg.req)
  /\ UNCHANGED <<agentVars, down, sentOn, restarts>>

\* The close or error event of a socket whose agent side is gone, after the
\* frames that still arrived.
Close(s) ==
  /\ mine # s /\ up[s] = <<>>
  /\ Hub!SocketClosed(s) \/ (ready[s] = "open" /\ Hub!SocketError(s))
  /\ UNCHANGED <<jobVars, agentVars, wire, sentOn, restarts>>

\* Fault: a timeout whose kill cannot be written leaves the job as it is.
TimerFiresOnlyIfKilled(r) ==
  /\ r \in armed
  /\ \/ /\ Hub!Writable(node) \/ ~Jobs!Running(r)
        /\ Jobs!TimerFires(r)
        /\ IF Jobs!Running(r) THEN Write(JobKill(r)) ELSE UNCHANGED down
     \/ /\ ~Hub!Writable(node) /\ Jobs!Running(r)
        /\ armed' = armed \ {r} /\ timers' = timers \ {r}
        /\ UNCHANGED <<jobs, byNode, issued, notified, down>>
  /\ UNCHANGED <<hubVars, agentVars, up, sentOn, restarts>>

TimerFires(r) ==
  /\ Jobs!TimerFires(r)
  /\ IF Jobs!Running(r) THEN Write(JobKill(r)) ELSE UNCHANGED down
  /\ UNCHANGED <<hubVars, agentVars, up, sentOn, restarts>>

\* POST /api/jobs/:reqId/cancel.  Bound: no second cancel of one reqId while the
\* first one's kill is on the wire (the child is already signalled by it).
Cancel(r) ==
  /\ AgentOpen => ~OnWire(down[mine], JobKill(r))
  /\ Jobs!Cancel(r)
  /\ Write(JobKill(r))
  /\ UNCHANGED <<hubVars, agentVars, up, sentOn, restarts>>

Elapse == Hub!Elapse /\ UNCHANGED <<jobVars, agentVars, wire, sentOn, restarts>>

\* The watchdog tick: sweep, then interrupt the jobs of every node that has an
\* active job and no connection.
Watchdog ==
  /\ Hub!Sweep \/ (Hub!Silent = {} /\ UNCHANGED hubVars)
  /\ IF ~Hub!Connected(node)' /\ \E r \in DOMAIN jobs : Jobs!Running(r)
     THEN Jobs!OnNodeDisconnected(node)
     ELSE UNCHANGED jobVars
  /\ UNCHANGED <<agentVars, wire, sentOn, restarts>>

\* The dashboard process is replaced: jobs and connections were in memory only.
ServerRestart ==
  /\ restarts < MaxRestarts
  /\ restarts' = restarts + 1
  /\ jobs' = [r \in {} |-> {}]
  /\ byNode' = [n \in Node |-> <<>>]
  /\ timers' = {} /\ armed' = {}
  /\ notified' = [r \in ReqId |-> 0]
  /\ ready' = [s \in Socket |-> IF ready[s] = "unused" THEN "unused" ELSE "closed"]
  /\ connections' = [n \in Node |-> NoSocket]
  /\ up' = [s \in Socket |-> <<>>]
  /\ down' = [s \in Socket |-> <<>>]
  /\ UNCHANGED <<issued, auth, silence, agentVars, sentOn>>

----------------------------------------------------------------------------
Init ==
  /\ Jobs!Init
  /\ Hub!HubInit
  /\ mine = NoSocket
  /\ procs = [r \in ReqId |-> "none"]
  /\ streams = {}
  /\ up = [s \in Socket |-> <<>>]
  /\ down = [s \in Socket |-> <<>>]
  /\ sentOn = [r \in ReqId |-> NoSocket]
  /\ restarts = 0

Next ==
  \/ \E s \in Socket : Dial(s) \/ Receive(s) \/ Close(s)
  \/ \E lost \in 0 .. 3 * Cardinality(ReqId) : ConnectionLost(lost) \/ AgentRestart(lost)
  \/ AgentReceive
  \/ \E r \in ReqId : ProcOut(r) \/ AgentTimeout(r) \/ TimerFires(r) \/ Cancel(r)
  \/ \E r \in ReqId, ok \in BOOLEAN : ProcExit(r, ok)
  \/ \E k \in Kind, r \in ReqId : Dispatch(k, r)
  \/ Elapse \/ Watchdog \/ ServerRestart

Spec == Init /\ [][Next]_vars

\* The dashboard's timers and intervals fire.
TimersFire == WF_vars(Watchdog) /\ \A r \in Timed : WF_vars(TimerFires(r))

TimerSpec == Spec /\ TimersFire

\* And a closed or broken socket is noticed, the agent redials, and frames on a
\* live connection arrive.  Nothing is assumed of operators, of how long a child
\* runs, or of the network staying up.
Fairness ==
  /\ TimersFire
  /\ \A s \in Socket : WF_vars(Receive(s)) /\ WF_vars(Close(s)) /\ WF_vars(Dial(s))
  /\ WF_vars(AgentReceive)

FairSpec == Spec /\ Fairness

----------------------------------------------------------------------------
(* Properties.                                                             *)

\* A job the dashboard reports as done really ended with exit code 0 on the
\* node -- across reconnects, late frames, orphans and restarts.
DoneIsTrue ==
  \A r \in DOMAIN jobs : jobs[r].state = "done" => procs[r] = "ok"

\* As long as the connection a job was sent on has not broken, a dispatched job
\* shown as running is accounted for: its job-run is on the way, its child lives,
\* or its exit frame is on the way back -- in spite of evictions, of output that
\* comes after the exit, and of what earlier connections left behind.  It is not
\* so of orphans: the late output of a job whose ended record has been evicted
\* makes a running orphan whose child and exit frame are both past.
RunningIsAccounted ==
  \A r \in DOMAIN jobs :
    (Jobs!Running(r) /\ jobs[r].kind # OrphanKind
       /\ AgentOpen /\ mine = sentOn[r] /\ ready[mine] = "open") =>
      \/ OnWire(down[mine], JobRun(r))
      \/ procs[r] \in {"running", "killed"}
      \/ \E ok \in BOOLEAN : OnWire(up[mine], ExitFrame(r, ok))

\* A reqId is spawned at most once, however often the agent reconnects.
SpawnsOnce ==
  [][\A r \in ReqId : procs[r] \notin {"none", "running"} => procs'[r] # "running"]_vars

\* A job with a timeout always comes to an end on the dashboard, whatever
\* happens to the agent, its socket or its frames.
TimedJobsEnd ==
  \A r \in Timed :
    (Jobs!Running(r) /\ jobs[r].kind # OrphanKind) ~> ~Jobs!Running(r)

\* A node that is gone for good leaves no job of its ring running: a job ends, or
\* the node comes back, or later output of other jobs shifts it out of the ring
\* (which puts a running job out of the watchdog's reach: only its timer, its
\* exit frame or an operator still ends it).
LostNodeJobsEnd ==
  \A r \in ReqId :
    (Jobs!Running(r) /\ r \in Jobs!Indexed(node) /\ ~Hub!Connected(node))
      ~> (~Jobs!Running(r) \/ r \notin Jobs!Indexed(node) \/ Hub!Connected(node))

\* The two ways in which the dashboard ends a job without the node's help: its
\* timer, and the watchdog once the node is gone.
JobsEnd == TimedJobsEnd /\ LostNodeJobsEnd

\* The class comment's "Node disconnect marks running jobs interrupted", as the
\* guarantee it is meant to give: a job whose agent connection broke does not
\* stay running for ever.
BrokenJobsEnd ==
  \A r \in ReqId :
    (Jobs!Running(r) /\ jobs[r].kind # OrphanKind /\ procs[r] \in {"ok", "bad", "gone"})
      ~> ~Jobs!Running(r)
=============================================================================
