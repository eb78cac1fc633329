---------------------------- MODULE JobsManager ----------------------------
(***************************************************************************)
(* Server-side tracking of remote jobs (server/src/jobs/jobsManager.ts).   *)
(* The environment is open: any node may be connected or not, a socket     *)
(* write may be refused, and agents may report any reqId at any time, in   *)
(* particular one dispatched before the dashboard restarted.  Job output,  *)
(* clocks and argv are abstracted away.                                    *)
(***************************************************************************)
EXTENDS Naturals, Sequences, FiniteSets, Functions

CONSTANTS
  Node,            \* nodes with an agent
  Kind,            \* job kinds callers dispatch ("clock-apply", "modelctl", ...)
  OrphanKind,      \* the kind given to reports of unknown reqIds
  ReqId,           \* request ids
  MaxJobsPerNode   \* ring capacity (50 in the code)

ASSUME MaxJobsAssumption == MaxJobsPerNode \in Nat \ {0}
ASSUME OrphanKindAssumption == OrphanKind \notin Kind

VARIABLES
  jobs,       \* Map reqId -> record (partial function on ReqId)
  byNode,     \* Map node -> ring of reqIds, oldest first
  timers,     \* Map reqId -> timeout handle: the reqIds that have an entry
  armed,      \* those of them whose timeout has not fired or been cleared
  issued,     \* history: reqIds ever used; genReqId draws a fresh one
  notified    \* history: finish callbacks for the record now kept

jobVars == <<jobs, byNode, timers, armed, issued, notified>>

Finished == {"done", "failed", "interrupted"}
JobRecord == [node : Node, kind : Kind \cup {OrphanKind}, state : Finished \cup {"running"}]

Running(r) == r \in DOMAIN jobs /\ jobs[r].state = "running"

Indexed(n) == Range(byNode[n])

\* Fault: the newest entry of the ring is not looked at.
IsRunningButLast(n, k) ==
  \E i \in 1 .. Len(byNode[n]) - 1 : Running(byNode[n][i]) /\ jobs[byNode[n][i]].kind = k

IsRunning(n, k) == \E r \in Indexed(n) : Running(r) /\ jobs[r].kind = k

----------------------------------------------------------------------------
(* Helpers of the handlers.                                                *)

PutRecord(m, r, rec) == [x \in DOMAIN m \cup {r} |-> IF x = r THEN rec ELSE m[x]]

Overfull(n) == Len(byNode[n]) = MaxJobsPerNode

\* The ring never holds more than its capacity, so one push shifts at most one.
PushIndex(n, r) ==
  byNode' = [byNode EXCEPT ![n] = IF Overfull(n) THEN Append(Tail(@), r) ELSE Append(@, r)]

\* The records the push deletes: a shifted reqId whose job is not running.
Evicted(n) ==
  IF Overfull(n) /\ ~Running(Head(byNode[n])) THEN {Head(byNode[n])} ELSE {}

\* jobs.set(reqId, record) followed by pushNodeIndex(node, reqId).
AddRecord(n, k, r, st) ==
  LET kept == Restrict(jobs, DOMAIN jobs \ Evicted(n)) IN
  /\ jobs' = PutRecord(kept, r, [node |-> n, kind |-> k, state |-> st])
  /\ PushIndex(n, r)
  /\ issued' = issued \cup {r}

\* A set of running records ends in state st; each listener call is counted.
Finish(S, st) ==
  /\ jobs' = [r \in DOMAIN jobs |-> IF r \in S THEN [jobs[r] EXCEPT !.state = st] ELSE jobs[r]]
  /\ notified' = [r \in ReqId |-> IF r \in S THEN notified[r] + 1 ELSE notified[r]]

\* notified' after the records E are deleted and r is (re)created with n calls.
Recount(E, r, n) ==
  notified' = [x \in ReqId |-> IF x = r THEN n ELSE IF x \in E THEN 0 ELSE notified[x]]

----------------------------------------------------------------------------
(* Handlers.                                                               *)

\* Fault: reqIds are only unique among the records kept (a counter that starts
\* again with the process).
DispatchReusedId(n, k, r, timed, sent) ==
  /\ ~IsRunning(n, k)
  /\ r \notin DOMAIN jobs
  /\ AddRecord(n, k, r, IF sent THEN "running" ELSE "failed")
  /\ Recount(Evicted(n), r, IF sent THEN 0 ELSE 1)
  /\ timers' = IF sent /\ timed THEN timers \cup {r} ELSE timers
  /\ armed' = IF sent /\ timed THEN armed \cup {r} ELSE armed

\* Fault: a refused write is reported to the listeners by the caller as well.
DispatchTellsTwice(n, k, r, timed, sent) ==
  /\ ~IsRunning(n, k)
  /\ r \notin issued
  /\ AddRecord(n, k, r, IF sent THEN "running" ELSE "failed")
  /\ Recount(Evicted(n), r, IF sent THEN 0 ELSE 2)
  /\ timers' = IF sent /\ timed THEN timers \cup {r} ELSE timers
  /\ armed' = IF sent /\ timed THEN armed \cup {r} ELSE armed

\* dispatch() past its two refusals (the node is not connected, a job of this
\* kind is running).  A refused socket write fails the job before the reqId is
\* returned, and arms no timer.
Dispatch(n, k, r, timed, sent) ==
  /\ ~IsRunning(n, k)
  /\ r \notin issued
  /\ AddRecord(n, k, r, IF sent THEN "running" ELSE "failed")
  /\ Recount(Evicted(n), r, IF sent THEN 0 ELSE 1)
  /\ timers' = IF sent /\ timed THEN timers \cup {r} ELSE timers
  /\ armed' = IF sent /\ timed THEN armed \cup {r} ELSE armed

\* Fault: the callback only sends the kill and leaves the rest to the exit frame.
TimerFiresWaits(r) ==
  /\ r \in armed
  /\ armed' = armed \ {r}
  /\ UNCHANGED <<jobs, byNode, timers, issued, notified>>

\* The server-side timeout.  When the job is over the callback returns early
\* and leaves its spent handle in the map.
TimerFires(r) ==
  /\ r \in armed
  /\ armed' = armed \ {r}
  /\ \/ /\ Running(r)
        /\ Finish({r}, "failed")
        /\ timers' = timers \ {r}
     \/ /\ ~Running(r)
        /\ UNCHANGED <<jobs, notified, timers>>
  /\ UNCHANGED <<byNode, issued>>

\* Fault: an orphan is recorded without looking whether the reqId is known.
JobOutUnchecked(n, r) ==
  /\ AddRecord(n, OrphanKind, r, "running")
  /\ Recount(Evicted(n), r, 0)
  /\ UNCHANGED <<timers, armed>>

\* job-out for an unknown reqId; output of a known job changes only its text.
JobOut(n, r) ==
  /\ r \notin DOMAIN jobs
  /\ AddRecord(n, OrphanKind, r, "running")
  /\ Recount(Evicted(n), r, 0)
  /\ UNCHANGED <<timers, armed>>

\* Fault: a late exit frame rewrites the outcome.
JobExitLateWins(r, ok) ==
  /\ timers' = timers \ {r}
  /\ armed' = armed \ {r}
  /\ Finish({r} \cap DOMAIN jobs, IF ok THEN "done" ELSE "failed")
  /\ UNCHANGED <<byNode, issued>>

\* job-exit: the timer goes in any case, the outcome only of a running job.
JobExit(r, ok) ==
  /\ timers' = timers \ {r}
  /\ armed' = armed \ {r}
  /\ \/ /\ Running(r)
        /\ Finish({r}, IF ok THEN "done" ELSE "failed")
     \/ /\ ~Running(r)
        /\ UNCHANGED <<jobs, notified>>
  /\ UNCHANGED <<byNode, issued>>

\* Only the jobs still in the node's ring are marked; their timers stay armed.
OnNodeDisconnected(n) ==
  /\ Finish({r \in Indexed(n) : Running(r)}, "interrupted")
  /\ UNCHANGED <<byNode, timers, armed, issued>>

\* Operator cancel: the agent is told to kill, the record fails at once.
Cancel(r) ==
  /\ Running(r)
  /\ Finish({r}, "failed")
  /\ timers' = timers \ {r}
  /\ armed' = armed \ {r}
  /\ UNCHANGED <<byNode, issued>>

----------------------------------------------------------------------------
Init ==
  /\ jobs = [r \in {} |-> {}]
  /\ byNode = [n \in Node |-> <<>>]
  /\ timers = {}
  /\ armed = {}
  /\ issued = {}
  /\ notified = [r \in ReqId |-> 0]

Next ==
  \/ \E n \in Node, k \in Kind, r \in ReqId, timed, sent \in BOOLEAN :
        Dispatch(n, k, r, timed, sent)
  \/ \E n \in Node, r \in ReqId : JobOut(n, r)
  \/ \E r \in ReqId, ok \in BOOLEAN : JobExit(r, ok)
  \/ \E r \in ReqId : TimerFires(r) \/ Cancel(r)
  \/ \E n \in Node : OnNodeDisconnected(n)

Spec == Init /\ [][Next]_jobVars

----------------------------------------------------------------------------
(* Properties.                                                             *)

\* Every variable keeps its shape (the maps of the JobsManager class).
TypeOK ==
  /\ DOMAIN jobs \subseteq ReqId
  /\ \A r \in DOMAIN jobs : jobs[r] \in JobRecord
  /\ byNode \in [Node -> Seq(ReqId)]
  /\ timers \subseteq ReqId
  /\ armed \subseteq timers
  /\ issued \subseteq ReqId
  /\ notified \in [ReqId -> Nat]

\* The ring and the record map agree: a ring never outgrows its capacity, holds
\* no reqId twice, and names only kept records of its own node -- so shifting an
\* entry out can never delete a record another ring still names.
IndexSound ==
  \A n \in Node :
    /\ Len(byNode[n]) <= MaxJobsPerNode
    /\ \A i \in 1 .. Len(byNode[n]) :
         /\ byNode[n][i] \in DOMAIN jobs
         /\ jobs[byNode[n][i]].node = n
    /\ \A i, j \in 1 .. Len(byNode[n]) : byNode[n][i] = byNode[n][j] => i = j

\* Among the jobs a node's ring still names, at most one of a dispatched kind is
\* running: what dispatch()'s conflict check really guarantees.
SingleFlightIndexed ==
  \A n \in Node : \A r, q \in Indexed(n) :
    (Running(r) /\ Running(q) /\ jobs[r].kind = jobs[q].kind /\ jobs[r].kind \in Kind)
      => r = q

\* A timeout that is still owed stays owed: a dispatched job that has a handle
\* and runs has one that will fire, whatever raced with it before.
LiveTimer ==
  \A r \in timers : (Running(r) /\ jobs[r].kind \in Kind) => r \in armed

\* Each kept record has announced its end exactly once, a running one never.
NotifiedOnce ==
  \A r \in ReqId :
    notified[r] = IF r \in DOMAIN jobs /\ ~Running(r) THEN 1 ELSE 0

\* The manager keeps the promise of JobLifecycle, whatever nodes, sockets, timers
\* and late frames do.
phaseOf == [r \in ReqId |-> IF r \in DOMAIN jobs THEN jobs[r].state ELSE "absent"]

Life == INSTANCE JobLifecycle WITH phase <- phaseOf, told <- notified

KeepsLifecycle == Life!LifeSpec
=============================================================================
