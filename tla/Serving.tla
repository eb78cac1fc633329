------------------------------ MODULE Serving ------------------------------
(***************************************************************************)
(* One router-managed model: its recipe's deployment record and the        *)
(* supervisor that runs recipe verbs as jobs (server/src/serving/          *)
(* deployments.ts), the on-demand manager with its idle sweep (server/src/ *)
(* gateway/onDemand.ts) and the gateway requests that route to it          *)
(* (server/src/gateway/gateway.ts and the /v1 and chat routes of app.ts).  *)
(* Of the jobs layer it uses what JobsManager guarantees: one tracked job  *)
(* per kind, which ends once.  The node's scripts and engine are external. *)
(***************************************************************************)
EXTENDS ServeState, FiniteSets

CONSTANTS
  Dep,           \* deployment ids, each used by one record
  NoDep,
  Request,       \* clients, each with at most one request under way
  Chat,          \* those that come by the chat route, which never touches
  MaxActs        \* bound on what the operator does beside making records:
                 \* verbs issued, records removed, the dashboard restarted

ASSUME DepAssumption == NoDep \notin Dep
ASSUME ChatAssumption == Chat \subseteq Request
ASSUME ActsAssumption == MaxActs \in Nat

Script == {"start", "stop", "restart"}
Verb == Script \cup {"probe"}

VARIABLES
  engine,        \* the recipe's engine on the node: "down", "warming" or "up"
  scripts,       \* recipe scripts running on the node
  job,           \* per verb: the deployment its tracked running job acts for, or NoDep
  seen,          \* what the running probe has read
  dep,           \* id of the recipe's deployment record, or NoDep
  retired,       \* ids of removed records
  desired, jobState, lastProbe, stale,   \* the record; stale: probe older than updatedAt
  last,          \* OnDemandManager.lastRequestAt: "never", "recent" or "idle"
  pc,            \* progress of each request
  acts

nodeVars == <<engine, scripts>>
recordVars == <<desired, jobState, lastProbe, stale>>
depVars == <<dep, retired>>
vars == <<nodeVars, job, seen, depVars, recordVars, last, pc, acts>>

----------------------------------------------------------------------------
(* Jobs.                                                                   *)

\* jobs.dispatch as its callers see it: "refused" for a node that is not
\* connected or a kind that is busy, "unsent" when the write failed after the
\* record was made (its end was announced before the caller knew the reqId).
Dispatch(v, d, outcome) ==
  \/ /\ outcome = "refused"
     /\ UNCHANGED <<job, seen, scripts>>
  \/ /\ outcome = "unsent" /\ job[v] = NoDep
     /\ UNCHANGED <<job, seen, scripts>>
  \/ /\ outcome = "sent" /\ job[v] = NoDep
     /\ job' = [job EXCEPT ![v] = d]
     /\ seen' = IF v = "probe" THEN NoProbe ELSE seen
     /\ scripts' = scripts \cup ({v} \cap Script)

Outcome == {"refused", "unsent", "sent"}

\* The auto-probe a finished start or stop asks for, beside the job's own end.
AutoProbe(v, probing) ==
  /\ probing => job["probe"] = NoDep
  /\ job' = [job EXCEPT ![v] = NoDep, !["probe"] = IF probing THEN job[v] ELSE @]
  /\ seen' = IF probing \/ v = "probe" THEN NoProbe ELSE seen

\* Fault: the record is looked up by recipe only, not by the action's id.
FinishedByRecipe(v, st, probing) ==
  IF v = "probe"
  THEN /\ lastProbe' = IF st = "done" THEN seen ELSE lastProbe
       /\ stale' = IF st = "done" THEN FALSE ELSE stale
       /\ AutoProbe(v, FALSE)
       /\ UNCHANGED <<desired, jobState>>
  ELSE /\ jobState' = st
       /\ desired' = IF st = "done" /\ v = "start" THEN "running"
                     ELSE IF st = "done" /\ v = "stop" THEN "stopped" ELSE desired
       /\ stale' = TRUE
       /\ AutoProbe(v, probing /\ st = "done" /\ v # "restart")
       /\ UNCHANGED lastProbe

\* The supervisor's onFinished for the end st of the tracked job of v.
OnFinished(v, st, probing) ==
  \/ /\ job[v] # dep
     /\ AutoProbe(v, FALSE)
     /\ UNCHANGED recordVars
  \/ /\ job[v] = dep /\ v = "probe"
     /\ lastProbe' = IF st = "done" THEN seen ELSE lastProbe
     /\ stale' = IF st = "done" THEN FALSE ELSE stale
     /\ AutoProbe(v, FALSE)
     /\ UNCHANGED <<desired, jobState>>
  \/ /\ job[v] = dep /\ v \in Script
     /\ jobState' = st
     /\ desired' = IF st = "done" /\ v = "start" THEN "running"
                   ELSE IF st = "done" /\ v = "stop" THEN "stopped" ELSE desired
     /\ stale' = TRUE
     /\ AutoProbe(v, probing /\ st = "done" /\ v # "restart")
     /\ UNCHANGED lastProbe

\* A script ends; if its job is still tracked the exit frame ends the job.
ScriptExit(v, ok, probing) ==
  /\ v \in scripts
  /\ scripts' = scripts \ {v}
  /\ engine' = IF v = "stop" /\ ok THEN "down" ELSE engine
  /\ \/ job[v] = NoDep /\ UNCHANGED <<job, seen, recordVars>>
     \/ job[v] # NoDep /\ OnFinished(v, IF ok THEN "done" ELSE "failed", probing)
  /\ UNCHANGED <<depVars, last, pc, acts>>

\* A tracked job ends before its script does: time-out, cancel (the kill may
\* come or not) or the node's disconnect.
JobEndsEarly(v, st, killed) ==
  /\ job[v] # NoDep /\ st \in {"failed", "interrupted"}
  /\ scripts' = IF killed THEN scripts \ {v} ELSE scripts
  /\ OnFinished(v, st, FALSE)
  /\ UNCHANGED <<engine, depVars, last, pc, acts>>

\* The running probe asks docker and the engine.
ProbeReads(error) ==
  /\ job["probe"] # NoDep /\ seen = NoProbe
  /\ seen' = IF error THEN "error"
             ELSE CASE engine = "down" -> "silent"
                    [] engine = "warming" -> "warming"
                    [] engine = "up" -> "serving"
  /\ UNCHANGED <<nodeVars, job, depVars, recordVars, last, pc, acts>>

ProbeExit ==
  /\ job["probe"] # NoDep /\ seen # NoProbe
  /\ OnFinished("probe", "done", FALSE)
  /\ UNCHANGED <<nodeVars, depVars, last, pc, acts>>

Act == acts < MaxActs /\ acts' = acts + 1

\* The engine follows the scripts, or stops by itself.
EngineMoves ==
  /\ \/ engine = "down" /\ scripts \cap {"start", "restart"} # {} /\ engine' = "warming"
     \/ engine = "warming" /\ engine' = "up"
     \/ engine # "down" /\ engine' = "down"
  /\ UNCHANGED <<scripts, job, seen, depVars, recordVars, last, pc, acts>>

----------------------------------------------------------------------------
(* Routes of the deployments page.                                         *)

\* POST of a recipe without a record.
Create(d) ==
  /\ dep = NoDep /\ d \notin retired
  /\ dep' = d
  /\ desired' = "stopped" /\ jobState' = NoJob /\ lastProbe' = NoProbe /\ stale' = TRUE
  /\ UNCHANGED <<nodeVars, job, seen, retired, last, pc, acts>>

\* POST for a recipe that has its record: only updatedAt moves.
Reuse ==
  /\ dep # NoDep
  /\ stale' = TRUE
  /\ UNCHANGED <<nodeVars, job, seen, depVars, desired, jobState, lastProbe, last, pc, acts>>

Remove ==
  /\ Act /\ dep # NoDep
  /\ retired' = retired \cup {dep} /\ dep' = NoDep
  /\ desired' = "stopped" /\ jobState' = NoJob /\ lastProbe' = NoProbe /\ stale' = TRUE
  /\ UNCHANGED <<nodeVars, job, seen, last, pc>>

OperatorVerb(v, outcome) ==
  /\ Act /\ dep # NoDep
  /\ Dispatch(v, dep, outcome)
  /\ UNCHANGED <<engine, depVars, recordVars, last, pc>>

----------------------------------------------------------------------------
(* Requests and the on-demand manager.                                     *)

\* targetState of the /v1 route: the record's jobId is never set, so the join
\* gets no job, and it gets no probeStale either.
RouteState == IF dep = NoDep THEN "undefined"
              ELSE JoinServeState(desired, FALSE, NoJob, lastProbe, FALSE)

\* stateOf of the deployments route, which does pass probeStale.
PageState == JoinServeState(desired, FALSE, NoJob, lastProbe, stale)

Down == HealthFromState(RouteState) = "down"

\* A request is routed; with its target down, ensureUp is awaited first.  It
\* answers "running" by the record alone, else it dispatches a start.
Arrive(q, outcome) ==
  /\ pc[q] = "idle"
  /\ \/ /\ ~Down /\ outcome = "refused"
        /\ pc' = [pc EXCEPT ![q] = "routed"]
        /\ UNCHANGED <<scripts, job, seen, last>>
     \/ /\ Down /\ desired = "running" /\ jobState = "done" /\ outcome = "refused"
        /\ pc' = [pc EXCEPT ![q] = "waiting"] /\ last' = "recent"
        /\ UNCHANGED <<scripts, job, seen>>
     \/ /\ Down /\ ~(desired = "running" /\ jobState = "done")
        /\ Dispatch("start", dep, outcome)
        /\ pc' = [pc EXCEPT ![q] = IF outcome = "refused" THEN "routed" ELSE "waiting"]
        /\ last' = IF outcome = "refused" THEN last ELSE "recent"
  /\ UNCHANGED <<engine, depVars, recordVars, acts>>

\* One turn of the warm-up loop finds the target usable.
Warmed(q) ==
  /\ pc[q] = "waiting" /\ ~Down
  /\ pc' = [pc EXCEPT ![q] = "routed"]
  /\ UNCHANGED <<nodeVars, job, seen, depVars, recordVars, last, acts>>

\* Fault: the loop is only left with a usable target.
NeverGivesUp(q) == Warmed(q)

\* The loop's deadline: the chain is tried as it was.
GivesUp(q) ==
  /\ pc[q] = "waiting"
  /\ pc' = [pc EXCEPT ![q] = "routed"]
  /\ UNCHANGED <<nodeVars, job, seen, depVars, recordVars, last, acts>>

Touch(q) == last' = IF q \in Chat THEN last ELSE "recent"

\* The upstream fetch connects, or the chain is exhausted (502).
Fetch(q) ==
  /\ pc[q] = "routed"
  /\ \/ engine = "up" /\ pc' = [pc EXCEPT ![q] = "streaming"] /\ UNCHANGED last
     \/ engine # "up" /\ pc' = [pc EXCEPT ![q] = "idle"] /\ Touch(q)
  /\ UNCHANGED <<nodeVars, job, seen, depVars, recordVars, acts>>

\* The response is complete, or breaks off.
Answer(q) ==
  /\ pc[q] = "streaming"
  /\ pc' = [pc EXCEPT ![q] = "idle"]
  /\ Touch(q)
  /\ UNCHANGED <<nodeVars, job, seen, depVars, recordVars, acts>>

\* /llm/node/:id/:port/*: straight to the engine's port, with no route, no warm-up
\* and no touch; without an engine it is answered 502 and nothing has changed.
PassThrough(q) ==
  /\ pc[q] = "idle" /\ engine = "up"
  /\ pc' = [pc EXCEPT ![q] = "passing"]
  /\ UNCHANGED <<nodeVars, job, seen, depVars, recordVars, last, acts>>

Passed(q) ==
  /\ pc[q] = "passing"
  /\ pc' = [pc EXCEPT ![q] = "idle"]
  /\ UNCHANGED <<nodeVars, job, seen, depVars, recordVars, last, acts>>

\* The idle time passes since the last touch, requests under way or not.
IdlePasses ==
  /\ last = "recent" /\ last' = "idle"
  /\ UNCHANGED <<nodeVars, job, seen, depVars, recordVars, pc, acts>>

\* Fault: a deployment whose last verb failed is left alone.
SweepSettledOnly(outcome) ==
  /\ last = "idle" /\ dep # NoDep /\ desired = "running" /\ jobState = "done"
  /\ Dispatch("stop", dep, outcome)
  /\ UNCHANGED <<engine, depVars, recordVars, last, pc, acts>>

\* sweepIdle.
Sweep(outcome) ==
  /\ last = "idle" /\ dep # NoDep /\ desired = "running"
  /\ Dispatch("stop", dep, outcome)
  /\ UNCHANGED <<engine, depVars, recordVars, last, pc, acts>>

\* The records come back from their file; jobs, requests and idle times do not.
ServerRestart ==
  /\ Act
  /\ job' = [v \in Verb |-> NoDep]
  /\ seen' = NoProbe
  /\ last' = "never"
  /\ pc' = [q \in Request |-> "idle"]
  /\ UNCHANGED <<nodeVars, depVars, recordVars>>

----------------------------------------------------------------------------
Init ==
  /\ engine = "down" /\ scripts = {}
  /\ job = [v \in Verb |-> NoDep] /\ seen = NoProbe
  /\ dep = NoDep /\ retired = {}
  /\ desired = "stopped" /\ jobState = NoJob /\ lastProbe = NoProbe /\ stale = TRUE
  /\ last = "never"
  /\ pc = [q \in Request |-> "idle"]
  /\ acts = 0

Next ==
  \/ \E v \in Script, ok, probing \in BOOLEAN : ScriptExit(v, ok, probing)
  \/ \E v \in Verb, st \in JobState, killed \in BOOLEAN : JobEndsEarly(v, st, killed)
  \/ \E error \in BOOLEAN : ProbeReads(error)
  \/ ProbeExit
  \/ EngineMoves
  \/ \E d \in Dep : Create(d)
  \/ Reuse
  \/ Remove
  \/ \E v \in Verb, outcome \in Outcome : OperatorVerb(v, outcome)
  \/ \E q \in Request, outcome \in Outcome : Arrive(q, outcome)
  \/ \E q \in Request : Warmed(q) \/ GivesUp(q) \/ Fetch(q) \/ Answer(q)
  \/ \E q \in Request : PassThrough(q) \/ Passed(q)
  \/ IdlePasses
  \/ \E outcome \in Outcome : Sweep(outcome)
  \/ ServerRestart

Spec == Init /\ [][Next]_vars

\* The request steps have timers of their own (poll, deadline, fetch abort), and so
\* have the idle time, the sweep and the jobs layer's 120 s for a stop.  That a stop
\* asked for again and again is dispatched at some time says that the node is not away
\* for good.  Nothing says that a stop succeeds.
FairSpec ==
  /\ Spec
  /\ \A q \in Request : WF_vars(GivesUp(q)) /\ WF_vars(Fetch(q)) /\ WF_vars(Answer(q)) /\ WF_vars(Passed(q))
  /\ WF_vars(IdlePasses)
  /\ SF_vars(Sweep("sent"))
  /\ WF_vars(JobEndsEarly("stop", "failed", TRUE))

\* The same with a node on which a stop that is repeated succeeds at last.
ObedientSpec ==
  /\ FairSpec
  /\ SF_vars(job["stop"] # NoDep /\ \E probing \in BOOLEAN : ScriptExit("stop", TRUE, probing))

----------------------------------------------------------------------------
(* Properties.                                                             *)

TypeOK ==
  /\ engine \in {"down", "warming", "up"} /\ scripts \subseteq Script
  /\ job \in [Verb -> Dep \cup {NoDep}]
  /\ seen \in {NoProbe, "silent", "warming", "serving", "error"}
  /\ dep \in Dep \cup {NoDep} /\ retired \subseteq Dep \ {dep}
  /\ desired \in Desired /\ jobState \in (JobState \ {"running"}) \cup {NoJob}
  /\ lastProbe \in ProbeClass \cup {NoProbe} /\ stale \in BOOLEAN
  /\ last \in {"never", "recent", "idle"}
  /\ pc \in [Request -> {"idle", "waiting", "routed", "streaming", "passing"}]

\* What a record says of itself comes from jobs started for it: the late end of a
\* verb or probe of a removed deployment never writes to the record that replaced
\* it, although both have the same recipe.
LateJobsStayWithTheirRecord ==
  [][(dep # NoDep /\ dep' = dep /\ <<desired, jobState, lastProbe>>' # <<desired, jobState, lastProbe>>)
       => \E v \in Verb : job[v] = dep /\ job'[v] # dep]_vars

\* Every request is answered: the warm-up wait of a router-managed model ends
\* even if its engine never comes up.
EveryRequestAnswered == \A q \in Request : pc[q] # "idle" ~> pc[q] = "idle"

Quiet == \A q \in Request : pc[q] = "idle"

\* The record says that the model runs, and its last use is known.  (A dashboard
\* restart forgets the last use.)
Owed == last # "never" /\ dep # NoDep /\ desired = "running"

StopAsked == dep # NoDep /\ job["stop"] # dep /\ job'["stop"] = dep

\* Once nobody asks for the model any more, a deployment whose record says it runs
\* is asked to stop again and again until the record no longer says so, whatever
\* stops failed, were lost or were cut off, and whatever removals and restarts of
\* the recipe came between.  It is about the asking; whether the engine goes down
\* is the node's, and see IdleEngineStops.
IdleStops == <>[]Quiet => (<>[]~Owed \/ []<><<StopAsked>>_vars)

\* "router-managed served models spin their recipe up on first request and stop after
\* an idle timeout" (onDemand.ts:2-4), said of the engine: with a node on which a
\* repeated stop succeeds, it is down in the end.  (The sweep goes by the record,
\* which a start that failed or timed out leaves at "stopped" with the engine up.)
IdleEngineStops == <>[]Quiet => <>[](last # "never" => engine = "down")

=============================================================================
