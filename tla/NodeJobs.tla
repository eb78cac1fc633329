------------------------------ MODULE NodeJobs ------------------------------
(***************************************************************************)
(* The job channel as the model inventory and the recipe probes see it:    *)
(* JobsManager.dispatch (server/src/jobs/jobsManager.ts, modelled in full  *)
(* in JobsManager.tla) and the onFinished callback.  A job's reqId is its  *)
(* place in jobs.                                                          *)
(***************************************************************************)
EXTENDS Naturals, Sequences, FiniteSets

CONSTANTS Node,            \* the configured nodes
          Thing,           \* what a job can read: the store, a model cache, a folder
          MaxGen,          \* bound on the changes of one thing
          MaxJobs          \* bound on the jobs dispatched

ASSUME NodeJobsConstants == MaxGen \in Nat /\ MaxJobs \in Nat

VARIABLES up,              \* nodes whose agent is connected
          jobs,            \* reqId -> [on, kind, of, since, over]
          gen              \* thing -> how often it has changed

jobVars == <<up, jobs, gen>>

Running(n, kind) ==
  \E r \in DOMAIN jobs : jobs[r].on = n /\ jobs[r].kind = kind /\ ~jobs[r].over

\* Not the code: a manager that lets jobs of one kind overlap on a node.
RefusalOverlaps(n, kind) == IF n \notin up THEN "not-connected" ELSE "none"

Refusal(n, kind) ==
  CASE n \notin up -> "not-connected"
    [] n \in up /\ Running(n, kind) -> "conflict"
    [] OTHER -> "none"

NextReq == Len(jobs) + 1

\* When the socket refuses the frame the job is failed, and its end announced,
\* before dispatch returns the reqId.
Dispatch(n, kind, thing, sent) ==
  /\ Refusal(n, kind) = "none" /\ Len(jobs) < MaxJobs
  /\ jobs' = Append(jobs, [on |-> n, kind |-> kind, of |-> thing,
                           since |-> gen[thing], over |-> ~sent])

\* A job ends once: by its exit frame, a kill, its timer or its node's loss.
JobOver(r) == r \in DOMAIN jobs /\ ~jobs[r].over /\ jobs' = [jobs EXCEPT ![r].over = TRUE]

\* What the job read is the thing as it was at some point of its run.
ReadBy(r) == jobs[r].since..gen[jobs[r].of]

Change(x) == gen[x] < MaxGen /\ gen' = [gen EXCEPT ![x] = @ + 1] /\ UNCHANGED <<up, jobs>>

NodeJobsInit == up = {} /\ jobs = <<>> /\ gen = [x \in Thing |-> 0]
=============================================================================
