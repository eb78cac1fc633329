----------------------------- MODULE ServeState -----------------------------
(***************************************************************************)
(* The observed state of a deployment, joined from what the dashboard      *)
(* knows of it (joinServeState, server/src/serving/deployments.ts), and    *)
(* the health grade the gateway routes by (server/src/gateway).            *)
(*                                                                         *)
(* A probe's output is reduced to the classes the join tells apart:        *)
(*   "silent"   no container of the recipe runs, nothing answers           *)
(*   "warming"  a container runs, the API does not answer yet              *)
(*   "keyed"    a container runs, /health answers 401                      *)
(*   "serving"  a container runs, /health answers 200 with our model       *)
(*   "foreign"  /health answers 200 with another model                     *)
(*   "error"    docker could not be asked                                  *)
(* An engine that answers while docker cannot be asked is counted with     *)
(* those that answer; the two differ only after a stop that the probe      *)
(* precedes ("unknown" or "stopping"), and the gateway routes to neither.  *)
(***************************************************************************)
EXTENDS Naturals

Desired == {"running", "stopped"}
ProbeClass == {"silent", "warming", "keyed", "serving", "foreign", "error"}
NoProbe == "none"
JobState == {"running", "done", "failed", "interrupted"}
NoJob == "none"

RankRunning(p) == p \in {"warming", "keyed", "serving"}

\* A probe older than the last finished verb does not count as the API answering.
ApiUp(desired, p, stale) ==
  p \in {"serving", "foreign"} /\ ~(desired = "stopped" /\ stale)

\* The first rule that applies, in the order of the code.
JoinServeState(desired, orphaned, job, p, stale) ==
  LET live == job = "running"
      up   == ApiUp(desired, p, stale) IN
  IF orphaned THEN "orphan"
  ELSE IF live /\ desired = "stopped" THEN "stopping"
  ELSE IF up THEN IF p = "foreign" THEN "foreign" ELSE "healthy"
  ELSE IF live THEN "starting"
  ELSE IF p = "keyed" THEN "healthy-keyed"
  ELSE IF p = "error" THEN "unknown"
  ELSE IF RankRunning(p) THEN IF desired = "stopped" THEN "stopping" ELSE "up"
  ELSE IF desired = "running" /\ job \in {"failed", "interrupted"} THEN "failed"
  ELSE "stopped"

\* healthFromState: a target without a deployment record has no state at all.
HealthFromState(state) ==
  CASE state \in {"healthy", "healthy-keyed"} -> "healthy"
    [] state \in {"starting", "up"}           -> "degraded"
    [] state = "undefined"                    -> "unknown"
    [] OTHER                                  -> "down"
=============================================================================
