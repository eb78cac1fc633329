---------------------------- MODULE AgentDaemon ----------------------------
(***************************************************************************)
(* The agent's link and its metric loop around the clock chain             *)
(* (agent/src/daemon.ts).  The handler of a welcome or config-update waits *)
(* for its clock task before it goes on; meanwhile the socket may close,   *)
(* another one be dialed and further frames arrive.  A configuration is    *)
(* known by the profile it brings.                                         *)
(***************************************************************************)
EXTENDS AgentClocks

VARIABLES
  link,          \* the daemon's socket: "down", "open", or "welcomed"
  state,         \* AgentDaemonState
  waiting,       \* handlers that await their task, in the chain's order
  loop           \* the configuration metricTimer was started with, or NoFrame

linkVars == <<link, state, waiting, loop>>
daemonVars == <<vars, linkVars>>

\* dial and its open event; the hello is answered by a welcome.
Dial ==
  /\ dialed /\ link = "down"
  /\ link' = "open" /\ state' = "connecting"
  /\ UNCHANGED <<vars, waiting, loop>>

\* The close event; the timer of scheduleReconnect dials again, until it succeeds.
\* Handlers that wait are not cancelled.
Closed ==
  /\ link # "down" /\ link' = "down" /\ state' = "backoff" /\ loop' = NoFrame
  /\ UNCHANGED <<vars, waiting>>

\* The first frame of a socket is its welcome.  On a rejected chain the handler
\* fails at once.
Handle(p) ==
  /\ link # "down" /\ Frame(p)
  /\ link' = "welcomed"
  /\ waiting' = IF broken THEN waiting
                ELSE Append(waiting, IF link = "open" THEN "welcome" ELSE "config-update")
  /\ UNCHANGED <<state, loop>>

\* Not the code: only a welcome starts the loop.
ResumeWelcome ==
  /\ waiting' = Tail(waiting)
  /\ IF Head(waiting) = "welcome" THEN state' = "online" /\ loop' = pushed
     ELSE UNCHANGED <<state, loop>>

\* The handler of the task that is over goes on, on whatever has become of its
\* socket: a welcome's sets the state, and both start the loop with the newest
\* configuration.
Resume ==
  /\ waiting' = Tail(waiting) /\ loop' = pushed
  /\ state' = IF Head(waiting) = "welcome" THEN "online" ELSE state

\* What a step of the chain means for the handlers.
Woken ==
  /\ UNCHANGED link
  /\ \/ broken' /\ waiting' = <<>> /\ UNCHANGED <<state, loop>>
     \/ ~broken' /\ chain' # chain /\ ~Booting /\ Resume
     \/ ~broken' /\ (chain' = chain \/ Booting) /\ UNCHANGED <<state, waiting, loop>>

ChainStep ==
  /\ SaveDesired \/ Skip \/ RecordApplied \/ \E gpuOk, cpuOk \in BOOLEAN : Apply(gpuOk, cpuOk)
  /\ Woken

DaemonRestart ==
  /\ \E node \in BOOLEAN : Restart(node)
  /\ link' = "down" /\ state' = "stopped" /\ waiting' = <<>> /\ loop' = NoFrame

DaemonInit == Init /\ link = "down" /\ state = "stopped" /\ waiting = <<>> /\ loop = NoFrame

DaemonNext ==
  \/ Dial \/ Closed
  \/ \E p \in Profile \cup {NoProfile} : Handle(p)
  \/ ChainStep
  \/ DaemonRestart

DaemonSpec == DaemonInit /\ [][DaemonNext]_daemonVars

\* The chain runs and the daemon redials; a link that comes again and again brings a
\* frame (an assumption about the network), and a command that is tried again and
\* again works in the end (an assumption about the node).
DaemonFairSpec ==
  /\ DaemonSpec
  /\ WF_daemonVars(ChainStep) /\ WF_daemonVars(Dial)
  /\ SF_daemonVars(Apply(TRUE, TRUE) /\ Woken)
  /\ SF_daemonVars(\E p \in Profile \cup {NoProfile} : Handle(p))

----------------------------------------------------------------------------
\* Once the clock tasks are done, a welcomed agent is online and reports with the
\* cadence of the last configuration it was sent, whatever closed, was dialed again
\* or arrived while handlers were waiting for their tasks (daemon.ts:163-178) --
\* but for a chain that a failed file write has rejected.
ReportsAsConfigured ==
  link = "welcomed" /\ ~broken /\ chain = <<>> => loop = pushed /\ state = "online"
=============================================================================
