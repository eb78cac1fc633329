-------------------------- MODULE JobChannelProofs --------------------------
(***************************************************************************)
(* Proofs about JobChannel for any reqIds, kinds, ring size and number of  *)
(* connections.  The invariant follows a reqId along its whole way: it is  *)
(* drawn once, its job-run is at most once on the agent's current socket   *)
(* and only before the child exists, and what a frame on the way back says *)
(* of the child is true when it arrives, however late that is.             *)
(***************************************************************************)
EXTENDS JobChannel, SequenceTheorems, TLAPS

UpFrame ==
  [type : {"hello"}] \cup [type : {"job-out"}, req : ReqId]
    \cup [type : {"job-exit"}, req : ReqId, ok : BOOLEAN]

DownFrame == [type : {"job-run", "job-kill"}, req : ReqId]

JobsTypeOK == DOMAIN jobs \subseteq ReqId /\ \A r \in DOMAIN jobs : jobs[r] \in Jobs!JobRecord

ChannelTypeOK ==
  /\ JobsTypeOK
  /\ issued \subseteq ReqId
  /\ ready \in [Socket -> {"unused", "open", "closing", "closed"}]
  /\ connections \in [Node -> Socket \cup {NoSocket}]
  /\ mine \in Socket \cup {NoSocket}
  /\ procs \in [ReqId -> {"none", "running", "killed", "ok", "bad", "gone"}]
  /\ streams \subseteq ReqId
  /\ up \in [Socket -> Seq(UpFrame)]
  /\ down \in [Socket -> Seq(DownFrame)]
  /\ sentOn \in [ReqId -> Socket \cup {NoSocket}]

\* Nothing waits for the agent on a socket it has left.
DownIsMine == \A s \in Socket : s # mine => down[s] = <<>>

\* A reqId is drawn before anything happens on the node in its name.
DrawnFirst == \A r \in ReqId : r \notin issued => procs[r] = "none" /\ r \notin streams

\* A job-run on the wire is the only one of its reqId and finds no child.
RunsAreFresh ==
  \A s \in Socket : \A i \in 1 .. Len(down[s]) :
    down[s][i].type = "job-run" =>
      /\ down[s][i].req \in issued
      /\ procs[down[s][i].req] = "none"
      /\ \A j \in 1 .. Len(down[s]) :
           (down[s][j].type = "job-run" /\ down[s][j].req = down[s][i].req) => j = i

\* An exit frame that says 0 is true, on whichever socket it still is.
ExitsAreTrue ==
  \A s \in Socket : \A i \in 1 .. Len(up[s]) :
    (up[s][i].type = "job-exit" /\ up[s][i].ok) => procs[up[s][i].req] = "ok"

\* A socket a job-run was written to is not dialled again.
SentOnIsUsed == \A r \in ReqId : sentOn[r] \in Socket => ready[sentOn[r]] # "unused"

\* Output names a reqId that was drawn, however late it comes and on whichever
\* socket: no orphan takes a reqId that a later dispatch could draw.
OutputIsIssued ==
  \A s \in Socket : \A i \in 1 .. Len(up[s]) :
    up[s][i].type = "job-out" => up[s][i].req \in issued

ChannelInv ==
  /\ ChannelTypeOK
  /\ DownIsMine
  /\ DrawnFirst
  /\ RunsAreFresh
  /\ ExitsAreTrue
  /\ SentOnIsUsed
  /\ OutputIsIssued
  /\ DoneIsTrue
  /\ RunningIsAccounted

----------------------------------------------------------------------------
(* The wire.                                                               *)

\* An exit frame names a reqId.
LEMMA UpNamesJob ==
  ASSUME NEW m \in UpFrame, m.type = "job-exit"
  PROVE  m.req \in ReqId
BY DEF UpFrame

\* A frame is written to a socket: it comes last on that socket's wire.
LEMMA WireAppend ==
  ASSUME NEW S, NEW w \in [Socket -> Seq(S)], NEW s \in Socket, NEW m \in S,
         NEW v, v = [w EXCEPT ![s] = Append(@, m)]
  PROVE  /\ v \in [Socket -> Seq(S)]
         /\ \A t \in Socket : t # s => v[t] = w[t]
         /\ Len(w[s]) \in Nat /\ Len(v[s]) = Len(w[s]) + 1
         /\ v[s][Len(w[s]) + 1] = m
         /\ \A i \in 1 .. Len(w[s]) : v[s][i] = w[s][i]
<1> DEFINE q == w[s]
<1>1. q \in Seq(S)
  OBVIOUS
<1>2. v[s] = Append(q, m)
  OBVIOUS
<1>3. /\ Append(q, m) \in Seq(S) /\ Len(Append(q, m)) = Len(q) + 1 /\ Len(q) \in Nat
      /\ Append(q, m)[Len(q) + 1] = m
      /\ \A i \in 1 .. Len(q) : Append(q, m)[i] = q[i]
  <2> HIDE DEF q
  <2> QED
    BY <1>1, AppendProperties
<1> QED
  BY <1>2, <1>3

\* The first frame of a socket is read: every other one is one place nearer.
LEMMA WireTail ==
  ASSUME NEW S, NEW w \in [Socket -> Seq(S)], NEW s \in Socket, w[s] # <<>>,
         NEW v, v = [w EXCEPT ![s] = Tail(@)]
  PROVE  /\ v \in [Socket -> Seq(S)]
         /\ \A t \in Socket : t # s => v[t] = w[t]
         /\ Len(w[s]) \in Nat \ {0} /\ Len(v[s]) = Len(w[s]) - 1
         /\ Head(w[s]) = w[s][1] /\ w[s][1] \in S
         /\ \A i \in 1 .. Len(v[s]) : v[s][i] = w[s][i + 1]
<1> DEFINE q == w[s]
<1>1. q \in Seq(S) /\ q # <<>>
  OBVIOUS
<1>2. v[s] = Tail(q)
  OBVIOUS
<1>3. /\ Tail(q) \in Seq(S) /\ Len(Tail(q)) = Len(q) - 1 /\ Len(q) \in Nat \ {0}
      /\ Head(q) = q[1] /\ q[1] \in S
      /\ \A i \in 1 .. Len(q) - 1 : Tail(q)[i] = q[i + 1]
  <2> HIDE DEF q
  <2> QED
    BY <1>1
<1> QED
  BY <1>2, <1>3

\* The wire breaks: a prefix of what was on it remains.
LEMMA WireCut ==
  ASSUME NEW S, NEW w \in [Socket -> Seq(S)], NEW s \in Socket, NEW n \in 0 .. Len(w[s]),
         NEW v, v = [w EXCEPT ![s] = SubSeq(@, 1, Len(@) - n)]
  PROVE  /\ v \in [Socket -> Seq(S)]
         /\ \A t \in Socket : t # s => v[t] = w[t]
         /\ Len(w[s]) \in Nat /\ Len(v[s]) = Len(w[s]) - n
         /\ \A i \in 1 .. Len(v[s]) : v[s][i] = w[s][i]
<1> DEFINE q == w[s]
<1>1. q \in Seq(S) /\ n \in 0 .. Len(q)
  OBVIOUS
<1>2. v[s] = SubSeq(q, 1, Len(q) - n)
  OBVIOUS
<1>3. /\ SubSeq(q, 1, Len(q) - n) \in Seq(S) /\ Len(SubSeq(q, 1, Len(q) - n)) = Len(q) - n
      /\ Len(q) \in Nat
      /\ \A i \in 1 .. Len(q) - n : SubSeq(q, 1, Len(q) - n)[i] = q[i]
  <2> HIDE DEF q
  <2> QED
    BY <1>1
<1> QED
  BY <1>2, <1>3

----------------------------------------------------------------------------
(* What the parts of a step may do.                                        *)

\* No record is added, none becomes running or done, and each keeps its kind.
Settles ==
  /\ JobsTypeOK'
  /\ DOMAIN jobs' \subseteq DOMAIN jobs
  /\ \A r \in DOMAIN jobs' : jobs'[r].kind = jobs[r].kind
  /\ \A r \in DOMAIN jobs' : jobs'[r].state \in {"running", "done"} => jobs'[r].state = jobs[r].state

\* A record is added, others only deleted.
Adds(k, r, st) ==
  /\ JobsTypeOK'
  /\ DOMAIN jobs' \subseteq DOMAIN jobs \cup {r}
  /\ r \in DOMAIN jobs' /\ jobs'[r].state = st /\ jobs'[r].kind = k
  /\ \A x \in DOMAIN jobs' : x # r => jobs'[x] = jobs[x]

LEMMA AddRecordAdds ==
  ASSUME JobsTypeOK, NEW k \in Kind \cup {OrphanKind}, NEW r \in ReqId,
         NEW st \in {"running", "failed"}, Jobs!AddRecord(node, k, r, st)
  PROVE  Adds(k, r, st) /\ issued' = issued \cup {r}
BY DEF Jobs!AddRecord, Jobs!PutRecord, Jobs!Restrict, Adds, JobsTypeOK, Jobs!JobRecord,
       Jobs!Finished, Node

LEMMA FinishSettles ==
  ASSUME JobsTypeOK, NEW S, NEW st \in {"done", "failed", "interrupted"}, Jobs!Finish(S, st)
  PROVE  /\ JobsTypeOK'
         /\ DOMAIN jobs' = DOMAIN jobs
         /\ \A r \in DOMAIN jobs : r \in S => jobs'[r].state = st
         /\ \A r \in DOMAIN jobs : r \notin S => jobs'[r] = jobs[r]
         /\ \A r \in DOMAIN jobs : jobs'[r].kind = jobs[r].kind
         /\ st # "done" => Settles
<1>1. jobs' = [r \in DOMAIN jobs |-> IF r \in S THEN [jobs[r] EXCEPT !.state = st] ELSE jobs[r]]
  BY DEF Jobs!Finish
<1>2. ASSUME NEW r \in DOMAIN jobs
      PROVE  /\ [jobs[r] EXCEPT !.state = st] \in Jobs!JobRecord
             /\ [jobs[r] EXCEPT !.state = st].state = st
             /\ [jobs[r] EXCEPT !.state = st].kind = jobs[r].kind
  BY DEF JobsTypeOK, Jobs!JobRecord, Jobs!Finished
<1> QED
  BY <1>1, <1>2 DEF JobsTypeOK, Settles

\* The handlers of the jobs manager that end jobs, and those that leave it alone.
LEMMA EndingsSettle ==
  ASSUME JobsTypeOK, NEW r,
         \/ Jobs!TimerFires(r) \/ Jobs!Cancel(r) \/ Jobs!OnNodeDisconnected(node)
         \/ UNCHANGED jobVars
  PROVE  Settles /\ issued' = issued
<1>1. CASE Jobs!TimerFires(r)
  BY <1>1, FinishSettles DEF Jobs!TimerFires, Settles, JobsTypeOK
<1>2. CASE Jobs!Cancel(r)
  BY <1>2, FinishSettles DEF Jobs!Cancel
<1>3. CASE Jobs!OnNodeDisconnected(node)
  BY <1>3, FinishSettles DEF Jobs!OnNodeDisconnected
<1>4. CASE UNCHANGED jobVars
  BY <1>4 DEF jobVars, Settles, JobsTypeOK
<1> QED
  BY <1>1, <1>2, <1>3, <1>4

\* The hub keeps its types, opens no socket but the one it accepts, and never
\* makes a used socket unused.
HubStep ==
  /\ ready' \in [Socket -> {"unused", "open", "closing", "closed"}]
  /\ connections' \in [Node -> Socket \cup {NoSocket}]
  /\ \A s \in Socket : ready[s] # "unused" =>
       ready'[s] # "unused" /\ (ready'[s] = "open" => ready[s] = "open")

LEMMA HubSteps ==
  ASSUME ChannelTypeOK, NEW s \in Socket,
         \/ Hub!Accept(s) \/ Hub!Hello(s, node) \/ Hub!Frame(s) \/ Hub!SocketClosed(s)
         \/ Hub!SocketError(s) \/ Hub!Elapse \/ Hub!Sweep \/ UNCHANGED hubVars
  PROVE  HubStep
<1> USE DEF ChannelTypeOK, HubStep
<1>1. CASE Hub!Accept(s)
  BY <1>1 DEF Hub!Accept
<1>2. CASE Hub!Hello(s, node)
  BY <1>2 DEF Hub!Hello, Hub!Closing, Node
<1>3. CASE Hub!Frame(s)
  BY <1>3 DEF Hub!Frame
<1>4. CASE Hub!SocketClosed(s)
  BY <1>4 DEF Hub!SocketClosed, Hub!Unregister
<1>5. CASE Hub!SocketError(s)
  BY <1>5 DEF Hub!SocketError, Hub!Unregister, Hub!Closing
<1>6. CASE Hub!Elapse
  BY <1>6 DEF Hub!Elapse
<1>7. CASE Hub!Sweep
  BY <1>7 DEF Hub!Sweep, Hub!Closing
<1>8. CASE UNCHANGED hubVars
  BY <1>8 DEF hubVars
<1> QED
  BY <1>1, <1>2, <1>3, <1>4, <1>5, <1>6, <1>7, <1>8

LEMMA InitChannelInv == Init => ChannelInv
<1> SUFFICES ASSUME Init PROVE ChannelInv
  OBVIOUS
<1> USE SocketAssumption DEF Init, Jobs!Init, Hub!HubInit
<1>1. ChannelTypeOK
  BY DEF ChannelTypeOK, JobsTypeOK
<1>2. \A s \in Socket : up[s] = <<>> /\ down[s] = <<>>
  OBVIOUS
<1>3. DownIsMine /\ DrawnFirst /\ RunsAreFresh /\ ExitsAreTrue /\ SentOnIsUsed /\ OutputIsIssued
  BY <1>2 DEF DownIsMine, DrawnFirst, RunsAreFresh, ExitsAreTrue, SentOnIsUsed, OutputIsIssued
<1>4. DoneIsTrue /\ RunningIsAccounted
  BY DEF DoneIsTrue, RunningIsAccounted, Jobs!Running
<1> QED
  BY <1>1, <1>3, <1>4 DEF ChannelInv

----------------------------------------------------------------------------
(* One lemma per kind of step.                                             *)

\* Steps of the dashboard that send nothing but kills and end jobs: cancel,
\* timers, the watchdog, close events.
LEMMA QuietInv ==
  ASSUME ChannelInv, HubStep, Settles, issued' = issued,
         UNCHANGED <<mine, procs, streams, up, sentOn>>,
         \/ down' = down
         \/ mine \in Socket /\ \E r \in ReqId : down' = [down EXCEPT ![mine] = Append(@, JobKill(r))]
  PROVE  ChannelInv'
<1> USE DEF ChannelInv
<1>0. /\ down' \in [Socket -> Seq(DownFrame)]
      /\ \A s \in Socket : s # mine => down'[s] = down[s]
      /\ down' = down
           \/ /\ mine \in Socket
              /\ Len(down[mine]) \in Nat /\ Len(down'[mine]) = Len(down[mine]) + 1
              /\ \A i \in 1 .. Len(down[mine]) : down'[mine][i] = down[mine][i]
              /\ down'[mine][Len(down[mine]) + 1].type # "job-run"
  <2>1. CASE down' = down
    BY <2>1 DEF ChannelTypeOK
  <2>2. ASSUME mine \in Socket, NEW r \in ReqId, down' = [down EXCEPT ![mine] = Append(@, JobKill(r))]
        PROVE  /\ down' \in [Socket -> Seq(DownFrame)]
               /\ \A s \in Socket : s # mine => down'[s] = down[s]
               /\ Len(down[mine]) \in Nat /\ Len(down'[mine]) = Len(down[mine]) + 1
               /\ \A i \in 1 .. Len(down[mine]) : down'[mine][i] = down[mine][i]
               /\ down'[mine][Len(down[mine]) + 1].type # "job-run"
    <3>1. JobKill(r) \in DownFrame /\ JobKill(r).type # "job-run"
      BY DEF JobKill, DownFrame
    <3>2. down \in [Socket -> Seq(DownFrame)]
      BY DEF ChannelTypeOK
    <3> QED
      BY <2>2, <3>1, <3>2, WireAppend
  <2> QED
    BY <2>1, <2>2
<1>1. ChannelTypeOK'
  <2> QED
    BY <1>0 DEF ChannelTypeOK, HubStep, Settles
<1>2. \A s \in Socket : \A i \in 1 .. Len(down'[s]) :
        \/ i \in 1 .. Len(down[s]) /\ down'[s][i] = down[s][i]
        \/ s = mine /\ down'[s][i].type # "job-run"
  BY <1>0
<1>3. \A s \in Socket : \A i \in 1 .. Len(down[s]) :
        i \in 1 .. Len(down'[s]) /\ down'[s][i] = down[s][i]
  BY <1>0
<1>4. DownIsMine'
  BY <1>0 DEF DownIsMine
<1>5. RunsAreFresh'
  <2> SUFFICES ASSUME NEW s \in Socket, NEW i \in 1 .. Len(down'[s]), down'[s][i].type = "job-run"
               PROVE  /\ down'[s][i].req \in issued
                      /\ procs[down'[s][i].req] = "none"
                      /\ \A j \in 1 .. Len(down'[s]) :
                           (down'[s][j].type = "job-run" /\ down'[s][j].req = down'[s][i].req) => j = i
    BY DEF RunsAreFresh
  <2> QED
    BY <1>2 DEF RunsAreFresh
<1>6. DrawnFirst' /\ ExitsAreTrue' /\ OutputIsIssued'
  BY DEF DrawnFirst, ExitsAreTrue, OutputIsIssued
<1>7. SentOnIsUsed'
  BY DEF SentOnIsUsed, HubStep
<1>8. DoneIsTrue'
  BY DEF DoneIsTrue, Settles
<1>9. RunningIsAccounted'
  <2> SUFFICES ASSUME NEW r \in DOMAIN jobs', Jobs!Running(r)', jobs'[r].kind # OrphanKind,
                      mine # NoSocket, mine = sentOn[r], ready'[mine] = "open"
               PROVE  \/ OnWire(down'[mine], JobRun(r))
                      \/ procs[r] \in {"running", "killed"}
                      \/ \E ok \in BOOLEAN : OnWire(up[mine], ExitFrame(r, ok))
    BY DEF RunningIsAccounted, AgentOpen
  <2>1. mine \in Socket /\ r \in ReqId
    BY DEF ChannelTypeOK, Settles, JobsTypeOK
  <2>2. Jobs!Running(r) /\ jobs[r].kind # OrphanKind /\ ready[mine] = "open"
    BY <2>1 DEF Jobs!Running, Settles, HubStep, SentOnIsUsed
  <2>3. \/ OnWire(down[mine], JobRun(r))
        \/ procs[r] \in {"running", "killed"}
        \/ \E ok \in BOOLEAN : OnWire(up[mine], ExitFrame(r, ok))
    BY <2>2 DEF RunningIsAccounted, AgentOpen, Settles
  <2> QED
    BY <2>1, <2>3, <1>3 DEF OnWire
<1> QED
  BY <1>1, <1>4, <1>5, <1>6, <1>7, <1>8, <1>9

\* dispatch(): the reqId is fresh, so is the job-run, and the job is accounted
\* for by its job-run when that was written to the agent's current socket.
LEMMA DispatchInv ==
  ASSUME ChannelInv, NEW k \in Kind, NEW r \in ReqId, Dispatch(k, r)
  PROVE  ChannelInv'
<1> USE DEF ChannelInv
<1> DEFINE c == connections[node]
           written == Hub!Writable(node)
           st == IF written THEN "running" ELSE "failed"
<1>1. r \notin issued /\ Adds(k, r, st) /\ issued' = issued \cup {r}
  <2>1. r \notin issued /\ Jobs!AddRecord(node, k, r, st)
    BY DEF Dispatch, Jobs!Dispatch
  <2> QED
    BY <2>1, AddRecordAdds DEF ChannelTypeOK
<1>2. /\ UNCHANGED <<ready, connections, mine, procs, streams, up>>
      /\ sentOn' = [sentOn EXCEPT ![r] = IF written THEN c ELSE NoSocket]
      /\ down' = IF written
                 THEN [down EXCEPT ![c] = IF mine = c THEN Append(@, JobRun(r)) ELSE @]
                 ELSE down
  BY DEF Dispatch, Write, hubVars, agentVars
<1>3. written => c \in Socket /\ ready[c] = "open"
  BY DEF Hub!Writable, Hub!Connected, ChannelTypeOK, Node
<1>4. procs[r] = "none" /\ JobRun(r) \in DownFrame
  BY <1>1 DEF DrawnFirst, JobRun, DownFrame
<1>5. /\ down' \in [Socket -> Seq(DownFrame)]
      /\ \A s \in Socket : s # mine => down'[s] = down[s]
      /\ \/ down' = down /\ ~(written /\ mine = c)
         \/ /\ written /\ mine = c
            /\ Len(down[mine]) \in Nat /\ Len(down'[mine]) = Len(down[mine]) + 1
            /\ \A i \in 1 .. Len(down[mine]) : down'[mine][i] = down[mine][i]
            /\ down'[mine][Len(down[mine]) + 1] = JobRun(r)
  <2>1. CASE written /\ mine = c
    <3>1. down' = [down EXCEPT ![mine] = Append(@, JobRun(r))] /\ mine \in Socket
      BY <2>1, <1>2, <1>3
    <3>2. down \in [Socket -> Seq(DownFrame)]
      BY DEF ChannelTypeOK
    <3> QED
      BY <2>1, <3>1, <3>2, <1>4, WireAppend
  <2>2. CASE ~(written /\ mine = c)
    BY <2>2, <1>2 DEF ChannelTypeOK
  <2> QED
    BY <2>1, <2>2
<1> HIDE DEF written, st
<1>6. ChannelTypeOK'
  BY <1>1, <1>2, <1>3, <1>5 DEF ChannelTypeOK, Adds
<1>7. DownIsMine' /\ DrawnFirst' /\ ExitsAreTrue'
  BY <1>1, <1>2, <1>5 DEF DownIsMine, DrawnFirst, ExitsAreTrue
<1>8. RunsAreFresh'
  <2>1. ASSUME NEW s \in Socket, NEW i \in 1 .. Len(down'[s]), down'[s][i].type = "job-run"
        PROVE  \/ i \in 1 .. Len(down[s]) /\ down'[s][i] = down[s][i] /\ down[s][i].req # r
               \/ s = mine /\ written /\ mine = c /\ i = Len(down[s]) + 1 /\ down'[s][i].req = r
    <3>1. ASSUME i \in 1 .. Len(down[s]), down'[s][i] = down[s][i] PROVE down[s][i].req # r
      BY <2>1, <3>1, <1>1 DEF RunsAreFresh
    <3> QED
      BY <2>1, <3>1, <1>5 DEF JobRun
  <2> SUFFICES ASSUME NEW s \in Socket, NEW i \in 1 .. Len(down'[s]), down'[s][i].type = "job-run"
               PROVE  /\ down'[s][i].req \in issued'
                      /\ procs[down'[s][i].req] = "none"
                      /\ \A j \in 1 .. Len(down'[s]) :
                           (down'[s][j].type = "job-run" /\ down'[s][j].req = down'[s][i].req) => j = i
    <3>1. procs' = procs
      BY <1>2
    <3> QED
      BY <3>1 DEF RunsAreFresh
  <2> QED
    BY <2>1, <1>1, <1>4 DEF RunsAreFresh
<1>9. SentOnIsUsed'
  BY <1>2, <1>3, SocketAssumption DEF SentOnIsUsed, ChannelTypeOK
<1>10. OutputIsIssued'
  BY <1>1, <1>2 DEF OutputIsIssued
<1>11. DoneIsTrue'
  BY <1>1, <1>2 DEF DoneIsTrue, Adds, st
<1>12. RunningIsAccounted'
  <2> SUFFICES ASSUME NEW q \in DOMAIN jobs', Jobs!Running(q)', jobs'[q].kind # OrphanKind,
                      mine # NoSocket, mine = sentOn'[q], ready[mine] = "open"
               PROVE  \/ OnWire(down'[mine], JobRun(q))
                      \/ procs[q] \in {"running", "killed"}
                      \/ \E ok \in BOOLEAN : OnWire(up[mine], ExitFrame(q, ok))
    BY <1>2 DEF RunningIsAccounted, AgentOpen
  <2>1. CASE q = r
    <3>1. written /\ mine = c
      BY <2>1, <1>1, <1>2 DEF Jobs!Running, Adds, st, ChannelTypeOK
    <3>2. Len(down[mine]) + 1 \in 1 .. Len(down'[mine])
          /\ down'[mine][Len(down[mine]) + 1] = JobRun(q)
      BY <2>1, <3>1, <1>5
    <3> QED
      BY <3>2 DEF OnWire
  <2>2. CASE q # r
    <3>1. /\ q \in DOMAIN jobs /\ Jobs!Running(q) /\ jobs[q].kind # OrphanKind
          /\ mine = sentOn[q] /\ mine \in Socket
      BY <2>2, <1>1, <1>2 DEF Jobs!Running, Adds, ChannelTypeOK
    <3>2. \/ OnWire(down[mine], JobRun(q))
          \/ procs[q] \in {"running", "killed"}
          \/ \E ok \in BOOLEAN : OnWire(up[mine], ExitFrame(q, ok))
      BY <3>1 DEF RunningIsAccounted, AgentOpen
    <3> QED
      BY <3>1, <3>2, <1>5 DEF OnWire
  <2> QED
    BY <2>1, <2>2
<1> QED
  BY <1>6, <1>7, <1>8, <1>9, <1>10, <1>11, <1>12

\* The agent takes a frame: a job-run is where its child begins.
LEMMA AgentReceiveInv ==
  ASSUME ChannelInv, AgentReceive
  PROVE  /\ ChannelInv'
         /\ \A r \in ReqId : procs[r] \notin {"none", "running"} => procs'[r] # "running"
<1> USE DEF ChannelInv
<1> DEFINE msg == Head(down[mine])
           r == msg.req
<1>1. /\ mine \in Socket /\ down[mine] # <<>>
      /\ down' = [down EXCEPT ![mine] = Tail(@)]
      /\ procs' = [procs EXCEPT ![r] = IF msg.type = "job-run" THEN "running"
                                       ELSE IF @ = "running" THEN "killed" ELSE @]
      /\ streams' = IF msg.type = "job-run" THEN streams \cup {r} ELSE streams
      /\ UNCHANGED <<jobs, issued, ready, connections, mine, up, sentOn>>
  BY DEF AgentReceive, AgentOpen, ChannelTypeOK, jobVars, hubVars
<1>2. /\ down' \in [Socket -> Seq(DownFrame)]
      /\ \A s \in Socket : s # mine => down'[s] = down[s]
      /\ Len(down[mine]) \in Nat \ {0} /\ Len(down'[mine]) = Len(down[mine]) - 1
      /\ msg = down[mine][1] /\ msg \in DownFrame
      /\ \A i \in 1 .. Len(down'[mine]) : down'[mine][i] = down[mine][i + 1]
  <2>1. down \in [Socket -> Seq(DownFrame)]
    BY DEF ChannelTypeOK
  <2> QED
    BY <1>1, <2>1, WireTail
<1>3. r \in ReqId /\ msg.type \in {"job-run", "job-kill"}
  BY <1>2 DEF DownFrame
<1>4. msg.type = "job-run" =>
        /\ r \in issued /\ procs[r] = "none"
        /\ \A j \in 2 .. Len(down[mine]) :
             down[mine][j].type = "job-run" => down[mine][j].req # r
  BY <1>1, <1>2 DEF RunsAreFresh
<1> HIDE DEF msg, r
<1>5. \A q \in ReqId :
        \/ procs'[q] = procs[q]
        \/ q = r /\ procs[q] = "none" /\ procs'[q] = "running" /\ r \in issued
             /\ msg.type = "job-run"
        \/ q = r /\ procs[q] = "running" /\ procs'[q] = "killed"
  BY <1>1, <1>3, <1>4 DEF ChannelTypeOK
<1>6. ChannelTypeOK'
  BY <1>1, <1>2, <1>3 DEF ChannelTypeOK, JobsTypeOK
<1>7. DownIsMine' /\ DrawnFirst'
  BY <1>1, <1>2, <1>4, <1>5 DEF DownIsMine, DrawnFirst
<1>8. RunsAreFresh'
  <2> SUFFICES ASSUME NEW s \in Socket, NEW i \in 1 .. Len(down'[s]), down'[s][i].type = "job-run"
               PROVE  /\ down'[s][i].req \in issued
                      /\ procs'[down'[s][i].req] = "none"
                      /\ \A j \in 1 .. Len(down'[s]) :
                           (down'[s][j].type = "job-run" /\ down'[s][j].req = down'[s][i].req) => j = i
    BY <1>1 DEF RunsAreFresh
  <2>1. s = mine
    BY <1>2 DEF DownIsMine
  <2>2. i + 1 \in 2 .. Len(down[mine]) /\ down'[s][i] = down[mine][i + 1]
    BY <2>1, <1>2
  <2>3. /\ down[mine][i + 1].req \in issued /\ procs[down[mine][i + 1].req] = "none"
        /\ \A j \in 1 .. Len(down[mine]) :
             (down[mine][j].type = "job-run" /\ down[mine][j].req = down[mine][i + 1].req)
               => j = i + 1
    BY <2>2, <1>1 DEF RunsAreFresh
  <2>4. procs'[down[mine][i + 1].req] = "none"
    <3>1. down[mine][i + 1].req \in ReqId
      BY <2>3 DEF ChannelTypeOK
    <3> QED
      BY <3>1, <2>2, <2>3, <1>4, <1>5
  <2>5. ASSUME NEW j \in 1 .. Len(down'[s]), down'[s][j].type = "job-run",
               down'[s][j].req = down'[s][i].req
        PROVE  j = i
    <3>1. j + 1 \in 1 .. Len(down[mine]) /\ down'[s][j] = down[mine][j + 1]
      BY <2>1, <1>2
    <3>2. j + 1 = i + 1
      BY <2>2, <2>3, <2>5, <3>1
    <3> QED
      BY <3>2
  <2> QED
    BY <2>2, <2>3, <2>4, <2>5
<1>9. ExitsAreTrue'
  <2>1. ASSUME NEW s \in Socket, NEW i \in 1 .. Len(up[s]), up[s][i].type = "job-exit", up[s][i].ok
        PROVE  procs'[up[s][i].req] = "ok"
    <3>1. procs[up[s][i].req] = "ok"
      BY <2>1 DEF ExitsAreTrue
    <3>2. up[s] \in Seq(UpFrame)
      BY <2>1 DEF ChannelTypeOK
    <3>3. up[s][i] \in UpFrame
      BY <2>1, <3>2
    <3>4. up[s][i].req \in ReqId
      BY <2>1, <3>3, UpNamesJob
    <3> QED
      BY <3>4, <3>1, <1>5
  <2> QED
    BY <2>1, <1>1 DEF ExitsAreTrue
<1>10. SentOnIsUsed'
  BY <1>1 DEF SentOnIsUsed
<1>11. OutputIsIssued'
  BY <1>1 DEF OutputIsIssued
<1>12. DoneIsTrue'
  BY <1>1, <1>5 DEF DoneIsTrue, ChannelTypeOK, JobsTypeOK
<1>13. RunningIsAccounted'
  <2> SUFFICES ASSUME NEW q \in DOMAIN jobs, Jobs!Running(q), jobs[q].kind # OrphanKind,
                      mine # NoSocket, mine = sentOn[q], ready[mine] = "open"
               PROVE  \/ OnWire(down'[mine], JobRun(q))
                      \/ procs'[q] \in {"running", "killed"}
                      \/ \E ok \in BOOLEAN : OnWire(up[mine], ExitFrame(q, ok))
    BY <1>1 DEF RunningIsAccounted, AgentOpen, Jobs!Running
  <2>1. q \in ReqId
    BY DEF ChannelTypeOK, JobsTypeOK
  <2>2. CASE OnWire(down[mine], JobRun(q))
    <3>1. PICK i \in 1 .. Len(down[mine]) : down[mine][i] = JobRun(q)
      BY <2>2 DEF OnWire
    <3>2. CASE i = 1
      <4>1. procs'[q] = "running"
        BY <3>1, <3>2, <1>1, <1>2, <2>1 DEF msg, r, JobRun, ChannelTypeOK
      <4> QED
        BY <4>1
    <3>3. CASE i # 1
      <4>1. i - 1 \in 1 .. Len(down'[mine]) /\ down'[mine][i - 1] = JobRun(q)
        BY <3>1, <3>3, <1>2
      <4> QED
        BY <4>1 DEF OnWire
    <3> QED
      BY <3>2, <3>3
  <2>3. CASE procs[q] \in {"running", "killed"}
    BY <2>1, <2>3, <1>5
  <2> QED
    BY <2>2, <2>3 DEF RunningIsAccounted, AgentOpen
<1> QED
  BY <1>5, <1>6, <1>7, <1>8, <1>9, <1>10, <1>11, <1>12, <1>13

\* Output, of a child that lives or is long gone: it says nothing of the child.
LEMMA OutInv ==
  ASSUME ChannelInv, NEW r \in ReqId, ProcOut(r)
  PROVE  ChannelInv'
<1> USE DEF ChannelInv
<1>1. /\ mine \in Socket /\ r \in issued
      /\ up' = [up EXCEPT ![mine] = Append(@, OutFrame(r))]
      /\ UNCHANGED <<jobs, issued, ready, connections, mine, procs, streams, down, sentOn>>
  BY DEF ProcOut, Emit, AgentOpen, ChannelTypeOK, DrawnFirst, jobVars, hubVars, agentVars
<1>2. /\ up' \in [Socket -> Seq(UpFrame)]
      /\ \A s \in Socket : s # mine => up'[s] = up[s]
      /\ Len(up[mine]) \in Nat /\ Len(up'[mine]) = Len(up[mine]) + 1
      /\ \A i \in 1 .. Len(up[mine]) : up'[mine][i] = up[mine][i]
      /\ up'[mine][Len(up[mine]) + 1] = OutFrame(r)
  <2>1. up \in [Socket -> Seq(UpFrame)] /\ OutFrame(r) \in UpFrame
    BY DEF ChannelTypeOK, OutFrame, UpFrame
  <2> QED
    BY <1>1, <2>1, WireAppend
<1>3. ASSUME NEW s \in Socket, NEW i \in 1 .. Len(up'[s])
      PROVE  \/ i \in 1 .. Len(up[s]) /\ up'[s][i] = up[s][i]
             \/ up'[s][i].type = "job-out" /\ up'[s][i].req = r
  BY <1>2 DEF OutFrame
<1>4. ChannelTypeOK'
  BY <1>1, <1>2 DEF ChannelTypeOK, JobsTypeOK
<1>5. DownIsMine' /\ DrawnFirst' /\ RunsAreFresh' /\ SentOnIsUsed' /\ DoneIsTrue'
  BY <1>1 DEF DownIsMine, DrawnFirst, RunsAreFresh, SentOnIsUsed, DoneIsTrue
<1>6. ExitsAreTrue'
  <2> SUFFICES ASSUME NEW s \in Socket, NEW i \in 1 .. Len(up'[s]),
                      up'[s][i].type = "job-exit", up'[s][i].ok
               PROVE  procs[up'[s][i].req] = "ok"
    BY <1>1 DEF ExitsAreTrue
  <2> QED
    BY <1>3 DEF ExitsAreTrue
<1>7. OutputIsIssued'
  BY <1>1, <1>3 DEF OutputIsIssued
<1>8. RunningIsAccounted'
  <2>1. ASSUME NEW q, NEW ok, OnWire(up[mine], ExitFrame(q, ok))
        PROVE  OnWire(up'[mine], ExitFrame(q, ok))
    BY <2>1, <1>2 DEF OnWire
  <2> QED
    BY <1>1, <2>1 DEF RunningIsAccounted, AgentOpen, Jobs!Running
<1> QED
  BY <1>4, <1>5, <1>6, <1>7, <1>8

\* Steps of a child: its end, and the agent's timeout.  Only its own entry of
\* procs moves, from alive to killed or over; an exit frame says how it ended.
LEMMA ChildInv ==
  ASSUME ChannelInv, NEW r \in ReqId, procs[r] \in {"running", "killed"},
         NEW p \in {"running", "killed", "ok", "bad"}, procs' = [procs EXCEPT ![r] = p],
         NEW m \in UpFrame, m = ExitFrame(r, p = "ok"),
         \/ up' = up /\ (AgentOpen => p \in {"running", "killed"})
         \/ AgentOpen /\ up' = [up EXCEPT ![mine] = Append(@, m)],
         UNCHANGED <<jobs, issued, ready, connections, mine, streams, down, sentOn>>
  PROVE  ChannelInv'
<1> USE DEF ChannelInv
<1>1. /\ up' \in [Socket -> Seq(UpFrame)]
      /\ \A s \in Socket : s # mine => up'[s] = up[s]
      /\ \/ up' = up /\ (AgentOpen => p \in {"running", "killed"})
         \/ /\ mine \in Socket
            /\ Len(up[mine]) \in Nat /\ Len(up'[mine]) = Len(up[mine]) + 1
            /\ \A i \in 1 .. Len(up[mine]) : up'[mine][i] = up[mine][i]
            /\ up'[mine][Len(up[mine]) + 1] = m
  <2>1. up \in [Socket -> Seq(UpFrame)]
    BY DEF ChannelTypeOK
  <2>2. CASE up' = up /\ (AgentOpen => p \in {"running", "killed"})
    BY <2>1, <2>2
  <2>3. CASE AgentOpen /\ up' = [up EXCEPT ![mine] = Append(@, m)]
    <3>1. mine \in Socket
      BY <2>3 DEF AgentOpen, ChannelTypeOK
    <3> QED
      BY <2>1, <2>3, <3>1, WireAppend
  <2> QED
    BY <2>2, <2>3
<1>2. r \in issued
  BY DEF DrawnFirst
<1>3. \A s \in Socket : \A i \in 1 .. Len(up[s]) :
        i \in 1 .. Len(up'[s]) /\ up'[s][i] = up[s][i]
  BY <1>1
<1>4. ASSUME NEW s \in Socket, NEW i \in 1 .. Len(up'[s])
      PROVE  \/ i \in 1 .. Len(up[s]) /\ up'[s][i] = up[s][i]
             \/ s = mine /\ mine \in Socket /\ i = Len(up[s]) + 1 /\ up'[s][i] = m
  BY <1>1
<1>5. \A q \in ReqId : procs'[q] = IF q = r THEN p ELSE procs[q]
  BY DEF ChannelTypeOK
<1>6. ChannelTypeOK'
  BY <1>1 DEF ChannelTypeOK, JobsTypeOK
<1>7. DownIsMine' /\ DrawnFirst' /\ SentOnIsUsed'
  BY <1>2, <1>5 DEF DownIsMine, DrawnFirst, SentOnIsUsed
<1>8. RunsAreFresh'
  <2>1. ASSUME NEW s \in Socket, NEW i \in 1 .. Len(down[s]), down[s][i].type = "job-run"
        PROVE  procs'[down[s][i].req] = "none"
    <3>1. procs[down[s][i].req] = "none" /\ down[s][i].req \in ReqId
      BY <2>1 DEF RunsAreFresh, ChannelTypeOK, DownFrame
    <3> QED
      BY <3>1, <1>5
  <2> QED
    BY <2>1 DEF RunsAreFresh
<1>9. ExitsAreTrue'
  <2> SUFFICES ASSUME NEW s \in Socket, NEW i \in 1 .. Len(up'[s]),
                      up'[s][i].type = "job-exit", up'[s][i].ok
               PROVE  procs'[up'[s][i].req] = "ok"
    BY DEF ExitsAreTrue
  <2>1. CASE i \in 1 .. Len(up[s]) /\ up'[s][i] = up[s][i]
    <3>1. procs[up[s][i].req] = "ok"
      BY <2>1 DEF ExitsAreTrue
    <3>2. up[s] \in Seq(UpFrame)
      BY <2>1 DEF ChannelTypeOK
    <3>3. up[s][i] \in UpFrame
      BY <2>1, <3>2
    <3>4. up[s][i].req \in ReqId
      BY <2>1, <3>3, UpNamesJob
    <3> QED
      BY <3>4, <2>1, <3>1, <1>5
  <2>2. CASE up'[s][i] = m
    <3>1. m.req = r /\ m.ok = (p = "ok")
      BY DEF ExitFrame
    <3>2. p = "ok"
      BY <2>2, <3>1
    <3> QED
      BY <2>2, <3>1, <3>2, <1>5
  <2> QED
    BY <1>4, <2>1, <2>2
<1>10. \A q \in ReqId : procs[q] \in {"running", "killed"} =>
         \/ procs'[q] \in {"running", "killed"}
         \/ AgentOpen => /\ up'[mine][Len(up[mine]) + 1] = ExitFrame(q, p = "ok")
                         /\ Len(up[mine]) + 1 \in 1 .. Len(up'[mine])
  <2> SUFFICES ASSUME p \notin {"running", "killed"}, AgentOpen
               PROVE  /\ up'[mine][Len(up[mine]) + 1] = ExitFrame(r, p = "ok")
                      /\ Len(up[mine]) + 1 \in 1 .. Len(up'[mine])
    BY <1>5
  <2> QED
    BY <1>1
<1>11. OutputIsIssued'
  <2>1. m.type # "job-out"
    BY DEF ExitFrame
  <2> QED
    BY <1>4, <2>1 DEF OutputIsIssued
<1>12. DoneIsTrue'
  BY <1>5 DEF DoneIsTrue, ChannelTypeOK, JobsTypeOK
<1>13. RunningIsAccounted'
  <2> SUFFICES ASSUME NEW q \in DOMAIN jobs, Jobs!Running(q), jobs[q].kind # OrphanKind,
                      mine # NoSocket, mine = sentOn[q], ready[mine] = "open"
               PROVE  \/ OnWire(down[mine], JobRun(q))
                      \/ procs'[q] \in {"running", "killed"}
                      \/ \E ok \in BOOLEAN : OnWire(up'[mine], ExitFrame(q, ok))
    BY DEF RunningIsAccounted, AgentOpen, Jobs!Running
  <2>1. q \in ReqId /\ mine \in Socket
    BY DEF ChannelTypeOK, JobsTypeOK
  <2>2. CASE procs[q] \in {"running", "killed"}
    BY <2>1, <2>2, <1>10 DEF OnWire, AgentOpen
  <2>3. ASSUME NEW ok \in BOOLEAN, OnWire(up[mine], ExitFrame(q, ok))
        PROVE  OnWire(up'[mine], ExitFrame(q, ok))
    BY <2>1, <2>3, <1>3 DEF OnWire
  <2> QED
    BY <2>2, <2>3 DEF RunningIsAccounted, AgentOpen
<1> QED
  BY <1>6, <1>7, <1>8, <1>9, <1>11, <1>12, <1>13

\* The three steps of a child.
LEMMA ChildSteps ==
  ASSUME ChannelInv, NEW r \in ReqId,
         ProcOut(r) \/ AgentTimeout(r) \/ \E ok \in BOOLEAN : ProcExit(r, ok)
  PROVE  /\ ChannelInv'
         /\ \A q \in ReqId : procs[q] \notin {"none", "running"} => procs'[q] # "running"
<1>1. procs \in [ReqId -> {"none", "running", "killed", "ok", "bad", "gone"}]
  BY DEF ChannelInv, ChannelTypeOK
<1>2. CASE ProcOut(r)
  BY <1>1, <1>2, OutInv DEF ProcOut, agentVars
<1>3. CASE AgentTimeout(r)
  <2>1. /\ procs[r] = "running" /\ procs' = [procs EXCEPT ![r] = "killed"] /\ up' = up
        /\ UNCHANGED <<jobs, issued, ready, connections, mine, streams, down, sentOn>>
    BY <1>3 DEF AgentTimeout, jobVars, hubVars, wire
  <2>2. ExitFrame(r, "killed" = "ok") \in UpFrame
    BY DEF ExitFrame, UpFrame
  <2>3. ChannelInv'
    BY <2>1, <2>2, ChildInv
  <2> QED
    BY <1>1, <2>1, <2>3
<1>4. ASSUME NEW ok \in BOOLEAN, ProcExit(r, ok)
      PROVE  /\ ChannelInv'
             /\ \A q \in ReqId : procs[q] \notin {"none", "running"} => procs'[q] # "running"
  <2> DEFINE p == IF ok THEN "ok" ELSE "bad"
  <2>1. /\ procs[r] \in {"running", "killed"} /\ procs' = [procs EXCEPT ![r] = p]
        /\ IF AgentOpen THEN up' = [up EXCEPT ![mine] = Append(@, ExitFrame(r, ok))] ELSE up' = up
        /\ UNCHANGED <<jobs, issued, ready, connections, mine, streams, down, sentOn>>
    BY <1>4 DEF ProcExit, Emit, jobVars, hubVars
  <2>2. /\ ExitFrame(r, ok) \in UpFrame /\ ExitFrame(r, ok) = ExitFrame(r, p = "ok")
        /\ p \in {"running", "killed", "ok", "bad"}
    <3>1. (p = "ok") = ok
      OBVIOUS
    <3> QED
      BY <3>1 DEF ExitFrame, UpFrame
  <2>3. ChannelInv'
    <3> HIDE DEF p
    <3> QED
      BY <2>1, <2>2, ChildInv
  <2> QED
    BY <1>1, <2>1, <2>3
<1> QED
  BY <1>2, <1>3, <1>4

\* The connection breaks, with or without the children.  Whatever is lost, what
\* still arrives is a part of what was on the wire.
LEMMA BreakInv ==
  ASSUME ChannelInv, NEW lost, lost \in (IF AgentOpen THEN 0 .. Len(up[mine]) ELSE {0}),
         Break(lost),
         \/ procs' = procs
         \/ procs' = [r \in ReqId |-> IF procs[r] \in {"running", "killed"} THEN "gone"
                                      ELSE procs[r]],
         streams' \in {streams, {}},
         UNCHANGED <<jobs, issued, ready, connections, sentOn>>
  PROVE  ChannelInv'
<1> USE SocketAssumption DEF ChannelInv
<1>1. /\ up' \in [Socket -> Seq(UpFrame)]
      /\ \A s \in Socket : \A i \in 1 .. Len(up'[s]) :
           i \in 1 .. Len(up[s]) /\ up'[s][i] = up[s][i]
      /\ \A s \in Socket : s # mine => up'[s] = up[s]
  <2>1. up \in [Socket -> Seq(UpFrame)]
    BY DEF ChannelTypeOK
  <2>2. CASE AgentOpen
    <3>1. mine \in Socket /\ up' = [up EXCEPT ![mine] = SubSeq(@, 1, Len(@) - lost)]
      BY <2>2 DEF AgentOpen, Break, ChannelTypeOK
    <3>2. /\ up' \in [Socket -> Seq(UpFrame)]
          /\ \A t \in Socket : t # mine => up'[t] = up[t]
          /\ Len(up[mine]) \in Nat /\ Len(up'[mine]) = Len(up[mine]) - lost
          /\ \A i \in 1 .. Len(up'[mine]) : up'[mine][i] = up[mine][i]
      BY <2>1, <2>2, <3>1, WireCut
    <3> QED
      BY <2>2, <3>2
  <2>3. CASE ~AgentOpen
    BY <2>1, <2>3 DEF Break
  <2> QED
    BY <2>2, <2>3
<1>2. mine' = NoSocket /\ \A s \in Socket : down'[s] = <<>>
  BY DEF Break, AgentOpen, DownIsMine, ChannelTypeOK
<1>3. down' \in [Socket -> Seq(DownFrame)]
  BY DEF Break, AgentOpen, ChannelTypeOK
<1>4. /\ procs' \in [ReqId -> {"none", "running", "killed", "ok", "bad", "gone"}]
      /\ \A r \in ReqId : procs[r] \in {"none", "ok"} => procs'[r] = procs[r]
  BY DEF ChannelTypeOK
<1>5. ChannelTypeOK'
  BY <1>1, <1>2, <1>3, <1>4 DEF ChannelTypeOK, JobsTypeOK
<1>6. DownIsMine' /\ RunsAreFresh'
  BY <1>2 DEF DownIsMine, RunsAreFresh
<1>7. DrawnFirst' /\ SentOnIsUsed'
  BY <1>4 DEF DrawnFirst, SentOnIsUsed
<1>8. ExitsAreTrue'
  <2> SUFFICES ASSUME NEW s \in Socket, NEW i \in 1 .. Len(up'[s]),
                      up'[s][i].type = "job-exit", up'[s][i].ok
               PROVE  procs'[up'[s][i].req] = "ok"
    BY DEF ExitsAreTrue
  <2>1. procs[up'[s][i].req] = "ok" /\ up'[s][i].req \in ReqId
    BY <1>1 DEF ExitsAreTrue, UpFrame
  <2> QED
    BY <2>1, <1>4
<1>9. OutputIsIssued'
  BY <1>1 DEF OutputIsIssued
<1>10. DoneIsTrue'
  BY <1>4 DEF DoneIsTrue, ChannelTypeOK, JobsTypeOK
<1>11. RunningIsAccounted'
  BY <1>2 DEF RunningIsAccounted, AgentOpen
<1> QED
  BY <1>5, <1>6, <1>7, <1>8, <1>9, <1>10, <1>11

\* A new connection: nothing was ever sent on it.
LEMMA DialInv ==
  ASSUME ChannelInv, NEW s \in Socket, Dial(s)
  PROVE  ChannelInv'
<1> USE SocketAssumption DEF ChannelInv
<1>1. /\ ~AgentOpen /\ ready[s] = "unused" /\ mine' = s
      /\ up' = [up EXCEPT ![s] = <<Hello>>]
      /\ UNCHANGED <<jobs, issued, procs, streams, down, sentOn>>
      /\ Hub!Accept(s)
  BY DEF Dial, jobVars
<1>2. HubStep
  BY <1>1, HubSteps
<1>3. up' \in [Socket -> Seq(UpFrame)] /\ \A t \in Socket : t # s => up'[t] = up[t]
  BY <1>1 DEF ChannelTypeOK, Hello, UpFrame
<1>4. up'[s] = <<Hello>> /\ Hello.type = "hello"
  BY <1>1 DEF ChannelTypeOK, Hello
<1>5. \A t \in Socket : down[t] = <<>>
  BY <1>1 DEF DownIsMine, AgentOpen
<1>6. \A t \in Socket : \A i \in 1 .. Len(up'[t]) : up'[t][i].type # "hello" => t # s /\ up'[t] = up[t]
  BY <1>3, <1>4
<1>7. ChannelTypeOK'
  BY <1>1, <1>2, <1>3 DEF ChannelTypeOK, JobsTypeOK, HubStep
<1>8. DownIsMine' /\ RunsAreFresh' /\ DrawnFirst'
  BY <1>1, <1>5 DEF DownIsMine, RunsAreFresh, DrawnFirst
<1>9. ExitsAreTrue'
  BY <1>1, <1>6 DEF ExitsAreTrue
<1>10. SentOnIsUsed'
  BY <1>1, <1>2 DEF SentOnIsUsed, HubStep
<1>11. \A r \in ReqId : sentOn[r] # s
  BY <1>1 DEF SentOnIsUsed
<1>12. OutputIsIssued'
  BY <1>1, <1>6 DEF OutputIsIssued
<1>13. DoneIsTrue'
  BY <1>1 DEF DoneIsTrue
<1>14. RunningIsAccounted'
  BY <1>1, <1>11 DEF RunningIsAccounted, ChannelTypeOK, JobsTypeOK
<1> QED
  BY <1>7, <1>8, <1>9, <1>10, <1>12, <1>13, <1>14

\* The dashboard restarts: no record, no registered socket, nothing on the wire.
LEMMA ServerRestartInv ==
  ASSUME ChannelInv, ServerRestart
  PROVE  ChannelInv'
<1> USE DEF ChannelInv
<1>1. /\ DOMAIN jobs' = {}
      /\ \A s \in Socket : up'[s] = <<>> /\ down'[s] = <<>>
      /\ UNCHANGED <<issued, mine, procs, streams, sentOn>>
      /\ \A s \in Socket : ready'[s] = IF ready[s] = "unused" THEN "unused" ELSE "closed"
  BY DEF ServerRestart, agentVars
<1>2. ChannelTypeOK'
  BY DEF ChannelTypeOK, ServerRestart, JobsTypeOK, agentVars
<1>3. DownIsMine' /\ DrawnFirst' /\ RunsAreFresh' /\ ExitsAreTrue' /\ OutputIsIssued'
  BY <1>1 DEF DownIsMine, DrawnFirst, RunsAreFresh, ExitsAreTrue, OutputIsIssued
<1>4. SentOnIsUsed'
  BY <1>1 DEF SentOnIsUsed
<1>5. DoneIsTrue' /\ RunningIsAccounted'
  BY <1>1 DEF DoneIsTrue, RunningIsAccounted
<1> QED
  BY <1>2, <1>3, <1>4, <1>5

\* What the manager makes of a frame: a job is done only by an exit frame that
\* says so, and runs afterwards only if it ran and this was not its exit, or as
\* an orphan.
LEMMA FrameFacts ==
  ASSUME ChannelInv, NEW s \in Socket, Receive(s), NEW msg, msg = up[s][1]
  PROVE  /\ JobsTypeOK' /\ issued' = issued /\ HubStep
         /\ \A x \in DOMAIN jobs' : jobs'[x].state = "done" =>
              \/ x \in DOMAIN jobs /\ jobs[x].state = "done"
              \/ msg.type = "job-exit" /\ msg.req = x /\ msg.ok
         /\ \A x \in DOMAIN jobs' : jobs'[x].state = "running" =>
              \/ /\ x \in DOMAIN jobs /\ jobs[x].state = "running"
                 /\ jobs'[x].kind = jobs[x].kind
                 /\ ~(msg.type = "job-exit" /\ msg.req = x)
              \/ jobs'[x].kind = OrphanKind
<1> DEFINE Goal ==
         /\ JobsTypeOK' /\ issued' = issued /\ HubStep
         /\ \A x \in DOMAIN jobs' : jobs'[x].state = "done" =>
              \/ x \in DOMAIN jobs /\ jobs[x].state = "done"
              \/ msg.type = "job-exit" /\ msg.req = x /\ msg.ok
         /\ \A x \in DOMAIN jobs' : jobs'[x].state = "running" =>
              \/ /\ x \in DOMAIN jobs /\ jobs[x].state = "running"
                 /\ jobs'[x].kind = jobs[x].kind
                 /\ ~(msg.type = "job-exit" /\ msg.req = x)
              \/ jobs'[x].kind = OrphanKind
<1>1. /\ up[s] # <<>> /\ up[s] \in Seq(UpFrame) /\ JobsTypeOK /\ ChannelTypeOK
  BY DEF ChannelInv, ChannelTypeOK, Receive
<1>2. msg = Head(up[s]) /\ msg \in UpFrame /\ 1 \in 1 .. Len(up[s])
  BY <1>1
<1>3. CASE msg.type = "hello" /\ Hub!Hello(s, node) /\ UNCHANGED jobVars
  <2>1. HubStep
    BY <1>1, <1>3, HubSteps
  <2> QED
    BY <1>1, <1>3, <2>1 DEF jobVars, JobsTypeOK
<1>4. CASE msg.type = "job-exit" /\ Hub!Frame(s) /\ Jobs!JobExit(msg.req, msg.ok)
  <2>1. HubStep
    BY <1>1, <1>4, HubSteps
  <2>2. /\ issued' = issued /\ msg.ok \in BOOLEAN
        /\ \/ Jobs!Running(msg.req) /\ Jobs!Finish({msg.req}, IF msg.ok THEN "done" ELSE "failed")
           \/ ~Jobs!Running(msg.req) /\ jobs' = jobs
    BY <1>2, <1>4 DEF Jobs!JobExit, UpFrame
  <2>3. CASE Jobs!Running(msg.req) /\ Jobs!Finish({msg.req}, IF msg.ok THEN "done" ELSE "failed")
    <3>1. CASE msg.ok
      <4>1. Jobs!Finish({msg.req}, "done")
        BY <2>3, <3>1
      <4>2. /\ JobsTypeOK' /\ DOMAIN jobs' = DOMAIN jobs
            /\ \A r \in DOMAIN jobs : r = msg.req => jobs'[r].state = "done"
            /\ \A r \in DOMAIN jobs : r # msg.req => jobs'[r] = jobs[r]
        BY <1>1, <4>1, FinishSettles
      <4> QED
        BY <1>4, <2>1, <2>2, <3>1, <4>2
    <3>2. CASE ~msg.ok
      <4>1. Jobs!Finish({msg.req}, "failed")
        BY <2>3, <3>2
      <4>2. /\ JobsTypeOK' /\ DOMAIN jobs' = DOMAIN jobs
            /\ \A r \in DOMAIN jobs : r = msg.req => jobs'[r].state = "failed"
            /\ \A r \in DOMAIN jobs : r # msg.req => jobs'[r] = jobs[r]
        BY <1>1, <4>1, FinishSettles
      <4> QED
        BY <1>4, <2>1, <2>2, <3>2, <4>2
    <3> QED
      BY <3>1, <3>2
  <2>4. CASE ~Jobs!Running(msg.req) /\ jobs' = jobs
    BY <1>1, <1>4, <2>1, <2>2, <2>4 DEF Jobs!Running, JobsTypeOK
  <2> QED
    BY <2>2, <2>3, <2>4
<1>5. CASE /\ msg.type = "job-out" /\ Hub!Frame(s)
           /\ IF msg.req \in DOMAIN jobs THEN UNCHANGED jobVars ELSE Jobs!JobOut(node, msg.req)
  <2>1. HubStep
    BY <1>1, <1>5, HubSteps
  <2>2. CASE UNCHANGED jobVars
    BY <1>1, <1>5, <2>1, <2>2 DEF jobVars, JobsTypeOK
  <2>3. CASE Jobs!JobOut(node, msg.req)
    <3>1. Jobs!AddRecord(node, OrphanKind, msg.req, "running") /\ msg.req \in ReqId
      BY <1>2, <1>5, <2>3 DEF Jobs!JobOut, UpFrame
    <3>2. Adds(OrphanKind, msg.req, "running") /\ issued' = issued \cup {msg.req}
      BY <1>1, <3>1, AddRecordAdds
    <3>3. msg.req \in issued
      BY <1>2, <1>5 DEF ChannelInv, OutputIsIssued
    <3> QED
      BY <1>5, <2>1, <3>2, <3>3 DEF Adds
  <2> QED
    BY <1>5, <2>2, <2>3
<1>6. \/ msg.type = "hello" /\ Hub!Hello(s, node) /\ UNCHANGED jobVars
      \/ msg.type = "job-exit" /\ Hub!Frame(s) /\ Jobs!JobExit(msg.req, msg.ok)
      \/ /\ msg.type = "job-out" /\ Hub!Frame(s)
         /\ IF msg.req \in DOMAIN jobs THEN UNCHANGED jobVars ELSE Jobs!JobOut(node, msg.req)
  BY <1>2 DEF Receive
<1>7. Goal
  BY <1>3, <1>4, <1>5, <1>6
<1> QED
  BY <1>7

\* A frame arrives at the dashboard.
LEMMA ReceiveInv ==
  ASSUME ChannelInv, NEW s \in Socket, Receive(s)
  PROVE  ChannelInv'
<1> USE DEF ChannelInv
<1> DEFINE msg == up[s][1]
<1>1. /\ up[s] # <<>> /\ up' = [up EXCEPT ![s] = Tail(@)]
      /\ UNCHANGED <<mine, procs, streams, down, sentOn>>
  BY DEF Receive, agentVars
<1>2. /\ up' \in [Socket -> Seq(UpFrame)]
      /\ \A t \in Socket : t # s => up'[t] = up[t]
      /\ Len(up[s]) \in Nat \ {0} /\ Len(up'[s]) = Len(up[s]) - 1
      /\ msg \in UpFrame
      /\ \A i \in 1 .. Len(up'[s]) : up'[s][i] = up[s][i + 1]
  <2>1. up \in [Socket -> Seq(UpFrame)]
    BY DEF ChannelTypeOK
  <2> QED
    BY <1>1, <2>1, WireTail
<1>3. /\ JobsTypeOK' /\ issued' = issued /\ HubStep
      /\ \A x \in DOMAIN jobs' : jobs'[x].state = "done" =>
           \/ x \in DOMAIN jobs /\ jobs[x].state = "done"
           \/ msg.type = "job-exit" /\ msg.req = x /\ msg.ok
      /\ \A x \in DOMAIN jobs' : jobs'[x].state = "running" =>
           \/ /\ x \in DOMAIN jobs /\ jobs[x].state = "running"
              /\ jobs'[x].kind = jobs[x].kind
              /\ ~(msg.type = "job-exit" /\ msg.req = x)
           \/ jobs'[x].kind = OrphanKind
  BY FrameFacts
<1>4. \A t \in Socket : \A i \in 1 .. Len(up'[t]) :
        \E j \in 1 .. Len(up[t]) : j = (IF t = s THEN i + 1 ELSE i) /\ up'[t][i] = up[t][j]
  BY <1>2
<1>5. ChannelTypeOK'
  BY <1>1, <1>2, <1>3 DEF ChannelTypeOK, HubStep
<1>6. DownIsMine' /\ DrawnFirst' /\ RunsAreFresh'
  BY <1>1, <1>3 DEF DownIsMine, DrawnFirst, RunsAreFresh
<1>7. ExitsAreTrue'
  <2> SUFFICES ASSUME NEW t \in Socket, NEW i \in 1 .. Len(up'[t]),
                      up'[t][i].type = "job-exit", up'[t][i].ok
               PROVE  procs'[up'[t][i].req] = "ok"
    BY DEF ExitsAreTrue
  <2>1. PICK j \in 1 .. Len(up[t]) : up'[t][i] = up[t][j]
    BY <1>4
  <2> QED
    BY <1>1, <2>1 DEF ExitsAreTrue
<1>8. SentOnIsUsed'
  BY <1>1, <1>3 DEF SentOnIsUsed, HubStep
<1>9. OutputIsIssued'
  <2> SUFFICES ASSUME NEW t \in Socket, NEW i \in 1 .. Len(up'[t]), up'[t][i].type = "job-out"
               PROVE  up'[t][i].req \in issued
    BY <1>3 DEF OutputIsIssued
  <2>1. PICK j \in 1 .. Len(up[t]) : up'[t][i] = up[t][j]
    BY <1>4
  <2> QED
    BY <2>1 DEF OutputIsIssued
<1>10. DoneIsTrue'
  <2> SUFFICES ASSUME NEW x \in DOMAIN jobs', jobs'[x].state = "done" PROVE procs[x] = "ok"
    BY <1>1 DEF DoneIsTrue
  <2>1. CASE msg.type = "job-exit" /\ msg.req = x /\ msg.ok
    BY <2>1, <1>2 DEF ExitsAreTrue
  <2> QED
    BY <2>1, <1>3 DEF DoneIsTrue
<1>11. RunningIsAccounted'
  <2> SUFFICES ASSUME NEW q \in DOMAIN jobs', Jobs!Running(q)', jobs'[q].kind # OrphanKind,
                      mine # NoSocket, mine = sentOn[q], ready'[mine] = "open"
               PROVE  \/ OnWire(down[mine], JobRun(q))
                      \/ procs[q] \in {"running", "killed"}
                      \/ \E ok \in BOOLEAN : OnWire(up'[mine], ExitFrame(q, ok))
    BY <1>1 DEF RunningIsAccounted, AgentOpen
  <2>1. mine \in Socket /\ q \in ReqId /\ ready[mine] = "open" /\ jobs'[q].state = "running"
    BY <1>3 DEF ChannelTypeOK, JobsTypeOK, HubStep, SentOnIsUsed, Jobs!Running
  <2>2. /\ q \in DOMAIN jobs /\ jobs[q].state = "running" /\ jobs[q].kind # OrphanKind
        /\ ~(msg.type = "job-exit" /\ msg.req = q)
    BY <2>1, <1>3
  <2>3. ASSUME NEW ok \in BOOLEAN, OnWire(up[mine], ExitFrame(q, ok))
        PROVE  OnWire(up'[mine], ExitFrame(q, ok))
    <3>1. PICK i \in 1 .. Len(up[mine]) : up[mine][i] = ExitFrame(q, ok)
      BY <2>3 DEF OnWire
    <3>2. mine = s => i # 1
      BY <3>1, <2>2 DEF ExitFrame
    <3>3. CASE mine = s
      <4>1. i - 1 \in 1 .. Len(up'[mine]) /\ up'[mine][i - 1] = up[mine][i]
        BY <1>2, <3>1, <3>2, <3>3
      <4> QED
        BY <3>1, <4>1 DEF OnWire
    <3>4. CASE mine # s
      BY <1>2, <2>1, <3>1, <3>4 DEF OnWire
    <3> QED
      BY <3>3, <3>4
  <2>4. \/ OnWire(down[mine], JobRun(q))
        \/ procs[q] \in {"running", "killed"}
        \/ \E ok \in BOOLEAN : OnWire(up[mine], ExitFrame(q, ok))
    BY <2>1, <2>2 DEF RunningIsAccounted, AgentOpen, Jobs!Running
  <2> QED
    BY <2>3, <2>4
<1> QED
  BY <1>5, <1>6, <1>7, <1>8, <1>9, <1>10, <1>11

\* A kill goes to the agent's current socket, or nowhere.
LEMMA KillWritten ==
  ASSUME ChannelInv, NEW r \in ReqId, Write(JobKill(r))
  PROVE  \/ down' = down
         \/ mine \in Socket /\ \E q \in ReqId : down' = [down EXCEPT ![mine] = Append(@, JobKill(q))]
<1> DEFINE c == connections[node]
<1>1. down \in [Socket -> Seq(DownFrame)]
  BY DEF ChannelInv, ChannelTypeOK
<1>2. CASE ~Hub!Writable(node)
  BY <1>2 DEF Write
<1>3. CASE Hub!Writable(node)
  <2>1. down' = [down EXCEPT ![c] = IF mine = c THEN Append(@, JobKill(r)) ELSE @]
    BY <1>3 DEF Write
  <2>2. c \in Socket
    BY <1>3 DEF Hub!Writable, Hub!Connected, ChannelInv, ChannelTypeOK, Node
  <2>3. CASE mine = c
    BY <2>1, <2>2, <2>3
  <2>4. CASE mine # c
    BY <1>1, <2>1, <2>4
  <2> QED
    BY <2>3, <2>4
<1> QED
  BY <1>2, <1>3

\* The dashboard's steps that end jobs or only change connections.
LEMMA QuietSteps ==
  ASSUME ChannelInv,
         \/ \E s \in Socket : Close(s)
         \/ \E r \in ReqId : TimerFires(r) \/ Cancel(r)
         \/ Elapse \/ Watchdog \/ UNCHANGED vars
  PROVE  ChannelInv' /\ procs' = procs
<1>1. ChannelTypeOK /\ JobsTypeOK
  BY DEF ChannelInv, ChannelTypeOK
<1>2. ASSUME NEW s \in Socket, Close(s) PROVE ChannelInv' /\ procs' = procs
  <2>1. UNCHANGED <<jobVars, mine, procs, streams, up, down, sentOn>>
    BY <1>2 DEF Close, agentVars, wire
  <2>2. HubStep
    BY <1>1, <1>2, HubSteps DEF Close
  <2>3. Settles /\ issued' = issued
    BY <1>1, <2>1, EndingsSettle
  <2> QED
    BY <2>1, <2>2, <2>3, QuietInv
<1>3. ASSUME HubStep PROVE UNCHANGED <<jobVars, mine, procs, streams, up, down, sentOn>> => ChannelInv'
  <2> SUFFICES ASSUME UNCHANGED <<jobVars, mine, procs, streams, up, down, sentOn>> PROVE ChannelInv'
    OBVIOUS
  <2>1. Settles /\ issued' = issued
    BY <1>1, EndingsSettle
  <2> QED
    BY <1>3, <2>1, QuietInv
<1>4. ASSUME UNCHANGED hubVars PROVE HubStep
  BY <1>1, <1>4 DEF ChannelTypeOK, HubStep, hubVars
<1>5. ASSUME NEW r \in ReqId, TimerFires(r) \/ Cancel(r) PROVE ChannelInv' /\ procs' = procs
  <2>1. /\ Jobs!TimerFires(r) \/ Jobs!Cancel(r)
        /\ Write(JobKill(r)) \/ down' = down
        /\ UNCHANGED <<hubVars, mine, procs, streams, up, sentOn>>
    BY <1>5 DEF TimerFires, Cancel, agentVars
  <2>2. Settles /\ issued' = issued
    BY <1>1, <2>1, EndingsSettle
  <2>3. HubStep
    BY <1>4, <2>1
  <2>4. \/ down' = down
        \/ mine \in Socket /\ \E q \in ReqId : down' = [down EXCEPT ![mine] = Append(@, JobKill(q))]
    BY <2>1, KillWritten
  <2> QED
    BY <2>1, <2>2, <2>3, <2>4, QuietInv
<1>6. CASE Elapse
  <2>1. Hub!Elapse /\ UNCHANGED <<jobVars, mine, procs, streams, up, down, sentOn>>
    BY <1>6 DEF Elapse, agentVars, wire
  <2>2. ready' = ready /\ connections' = connections
    BY <2>1 DEF Hub!Elapse
  <2>3. HubStep
    BY <1>1, <2>2 DEF ChannelTypeOK, HubStep
  <2> QED
    BY <1>3, <2>1, <2>3
<1>7. CASE Watchdog
  <2>1. /\ Hub!Sweep \/ UNCHANGED hubVars
        /\ Jobs!OnNodeDisconnected(node) \/ UNCHANGED jobVars
        /\ UNCHANGED <<mine, procs, streams, up, down, sentOn>>
    BY <1>7 DEF Watchdog, agentVars, wire
  <2>2. Settles /\ issued' = issued
    BY <1>1, <2>1, EndingsSettle
  <2>3. CASE UNCHANGED hubVars
    BY <1>4, <2>1, <2>2, <2>3, QuietInv
  <2>4. CASE Hub!Sweep
    <3>1. HubStep
      BY <1>1, <2>4 DEF Hub!Sweep, Hub!Closing, ChannelTypeOK, HubStep
    <3> QED
      BY <2>1, <2>2, <3>1, QuietInv
  <2> QED
    BY <2>1, <2>3, <2>4
<1>8. CASE UNCHANGED vars
  BY <1>3, <1>4, <1>8 DEF vars, agentVars, wire
<1> QED
  BY <1>2, <1>5, <1>6, <1>7, <1>8

\* Every step keeps the invariant, and none starts a child a second time.
LEMMA NextChannelInv ==
  ASSUME ChannelInv, [Next]_vars
  PROVE  /\ ChannelInv'
         /\ \A r \in ReqId : procs[r] \notin {"none", "running"} => procs'[r] # "running"
<1>1. ASSUME NEW s \in Socket, Dial(s) PROVE ChannelInv' /\ procs' = procs
  BY <1>1, DialInv DEF Dial
<1>2. ASSUME NEW s \in Socket, Receive(s) PROVE ChannelInv' /\ procs' = procs
  BY <1>2, ReceiveInv DEF Receive, agentVars
<1>3. ASSUME NEW lost, ConnectionLost(lost) PROVE ChannelInv' /\ procs' = procs
  <2>1. /\ lost \in (IF AgentOpen THEN 0 .. Len(up[mine]) ELSE {0}) /\ Break(lost)
        /\ UNCHANGED <<jobs, issued, ready, connections, sentOn, procs, streams>>
    BY <1>3 DEF ConnectionLost, jobVars, hubVars
  <2> QED
    BY <2>1, BreakInv
<1>4. ASSUME NEW lost, AgentRestart(lost)
      PROVE  ChannelInv' /\ \A r \in ReqId : procs'[r] = "running" => FALSE
  <2>1. /\ lost \in (IF AgentOpen THEN 0 .. Len(up[mine]) ELSE {0}) /\ Break(lost)
        /\ procs' = [r \in ReqId |-> IF procs[r] \in {"running", "killed"} THEN "gone" ELSE procs[r]]
        /\ streams' = {}
        /\ UNCHANGED <<jobs, issued, ready, connections, sentOn>>
    BY <1>4 DEF AgentRestart, jobVars, hubVars
  <2> QED
    BY <2>1, BreakInv
<1>5. ASSUME NEW k \in Kind, NEW r \in ReqId, Dispatch(k, r) PROVE ChannelInv' /\ procs' = procs
  BY <1>5, DispatchInv DEF Dispatch, agentVars
<1>6. CASE ServerRestart
  BY <1>6, ServerRestartInv DEF ServerRestart, agentVars
<1>7. CASE \/ \E s \in Socket : Close(s)
           \/ \E r \in ReqId : TimerFires(r) \/ Cancel(r)
           \/ Elapse \/ Watchdog \/ UNCHANGED vars
  BY <1>7, QuietSteps
<1>8. CASE AgentReceive
  BY <1>8, AgentReceiveInv
<1>9. ASSUME NEW r \in ReqId, ProcOut(r) \/ AgentTimeout(r) \/ \E ok \in BOOLEAN : ProcExit(r, ok)
      PROVE  /\ ChannelInv'
             /\ \A q \in ReqId : procs[q] \notin {"none", "running"} => procs'[q] # "running"
  BY <1>9, ChildSteps
<1> QED
  BY <1>1, <1>2, <1>3, <1>4, <1>5, <1>6, <1>7, <1>8, <1>9 DEF Next

----------------------------------------------------------------------------
(* Theorems.                                                               *)

\* The strengthened invariant of the whole job path.
THEOREM ChannelInvariance == Spec => []ChannelInv
BY InitChannelInv, NextChannelInv, PTL DEF Spec

\* Whatever breaks, restarts or arrives late, a job the dashboard calls done
\* ended with exit code 0 on its node.
THEOREM DoneMeansDone == Spec => []DoneIsTrue
<1>1. ChannelInv => DoneIsTrue
  BY DEF ChannelInv
<1> QED
  BY ChannelInvariance, <1>1, PTL

\* While its connection holds, a dispatched job shown as running has its job-run,
\* its child or its exit frame somewhere on the path: it cannot be lost in
\* between, however much late output of ended jobs makes orphans meanwhile.
THEOREM RunningIsSomewhere == Spec => []RunningIsAccounted
<1>1. ChannelInv => RunningIsAccounted
  BY DEF ChannelInv
<1> QED
  BY ChannelInvariance, <1>1, PTL

\* No reqId ever starts a second child.
THEOREM OneChildPerReqId == Spec => SpawnsOnce
<1>1. ChannelInv /\ [Next]_vars =>
        [\A r \in ReqId : procs[r] \notin {"none", "running"} => procs'[r] # "running"]_vars
  BY NextChannelInv
<1> QED
  BY <1>1, ChannelInvariance, PTL DEF Spec, SpawnsOnce

----------------------------------------------------------------------------
(* The parts in the whole.                                                 *)

\* Between dashboard restarts the jobs manager and the agent hub do, on the job
\* path, only what JobsManager and AgentRegistry say of them on their own.
PartsAsSpecified ==
  /\ [][Jobs!Next \/ ServerRestart]_jobVars
  /\ [][Hub!HubNext \/ ServerRestart]_hubVars

\* What arrives names a reqId, so it is a frame JobsManager's environment has.
LEMMA ReceiveIsAPart ==
  ASSUME ChannelInv, NEW s \in Socket, Receive(s)
  PROVE  /\ Jobs!Next \/ UNCHANGED jobVars
         /\ Hub!HubNext
<1> DEFINE msg == Head(up[s])
<1>1. msg \in UpFrame
  <2>1. up[s] \in Seq(UpFrame) /\ up[s] # <<>>
    BY DEF ChannelInv, ChannelTypeOK, Receive
  <2> QED
    BY <2>1
<1>2. node \in Node
  BY DEF Node
<1>3. \/ msg.type = "hello" /\ Hub!Hello(s, node) /\ UNCHANGED jobVars
      \/ msg.type = "job-exit" /\ Hub!Frame(s) /\ Jobs!JobExit(msg.req, msg.ok)
      \/ /\ msg.type = "job-out" /\ Hub!Frame(s)
         /\ UNCHANGED jobVars \/ Jobs!JobOut(node, msg.req)
  BY DEF Receive
<1>4. msg.type = "job-exit" => msg.req \in ReqId /\ msg.ok \in BOOLEAN
  BY <1>1 DEF UpFrame
<1>5. msg.type = "job-out" => msg.req \in ReqId
  BY <1>1 DEF UpFrame
<1> HIDE DEF msg
<1>6. Hub!HubNext
  BY <1>2, <1>3 DEF Hub!HubNext
<1>7. Jobs!Next \/ UNCHANGED jobVars
  BY <1>2, <1>3, <1>4, <1>5 DEF Jobs!Next
<1> QED
  BY <1>6, <1>7

LEMMA StepsAreParts ==
  ASSUME ChannelInv, Next, ~ServerRestart
  PROVE  /\ Jobs!Next \/ UNCHANGED jobVars
         /\ Hub!HubNext \/ UNCHANGED hubVars
<1>0. node \in Node
  BY DEF Node
<1>1. ASSUME NEW s \in Socket, Dial(s) \/ Close(s)
      PROVE  UNCHANGED jobVars /\ Hub!HubNext
  BY <1>1 DEF Dial, Close, Hub!HubNext
<1>2. ASSUME NEW s \in Socket, Receive(s)
      PROVE  (Jobs!Next \/ UNCHANGED jobVars) /\ Hub!HubNext
  BY <1>2, ReceiveIsAPart
<1>3. CASE \/ \E lost \in 0 .. 3 * Cardinality(ReqId) : ConnectionLost(lost) \/ AgentRestart(lost)
           \/ AgentReceive
           \/ \E r \in ReqId : ProcOut(r) \/ AgentTimeout(r)
           \/ \E r \in ReqId, ok \in BOOLEAN : ProcExit(r, ok)
  BY <1>3 DEF ConnectionLost, AgentRestart, AgentReceive, ProcOut, AgentTimeout, ProcExit
<1>4. ASSUME NEW r \in ReqId, TimerFires(r) \/ Cancel(r)
      PROVE  Jobs!Next /\ UNCHANGED hubVars
  BY <1>4 DEF TimerFires, Cancel, Jobs!Next
<1>5. ASSUME NEW k \in Kind, NEW r \in ReqId, Dispatch(k, r)
      PROVE  Jobs!Next /\ UNCHANGED hubVars
  <2>1. (r \in Timed) \in BOOLEAN /\ Hub!Writable(node) \in BOOLEAN
    BY DEF Hub!Writable
  <2>2. Jobs!Dispatch(node, k, r, r \in Timed, Hub!Writable(node)) /\ UNCHANGED hubVars
    BY <1>5 DEF Dispatch
  <2>3. \E timed, sent \in BOOLEAN : Jobs!Dispatch(node, k, r, timed, sent)
    BY <2>1, <2>2
  <2> QED
    BY <1>0, <2>2, <2>3 DEF Jobs!Next
<1>6. CASE Elapse
  BY <1>6 DEF Elapse, Hub!HubNext
<1>7. CASE Watchdog
  BY <1>0, <1>7 DEF Watchdog, Hub!HubNext, Jobs!Next
<1> QED
  BY <1>1, <1>2, <1>3, <1>4, <1>5, <1>6, <1>7 DEF Next

\* On the whole path the two parts are driven only as their own modules allow:
\* nothing the agent or the wire can do takes them outside.
THEOREM PathDrivesItsParts == Spec => PartsAsSpecified
<1>1. ChannelInv /\ [Next]_vars => [Jobs!Next \/ ServerRestart]_jobVars
  BY StepsAreParts DEF vars
<1>2. ChannelInv /\ [Next]_vars => [Hub!HubNext \/ ServerRestart]_hubVars
  BY StepsAreParts DEF vars
<1> QED
  BY <1>1, <1>2, ChannelInvariance, PTL DEF Spec, PartsAsSpecified
=============================================================================
