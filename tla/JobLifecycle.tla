---------------------------- MODULE JobLifecycle ----------------------------
(***************************************************************************)
(* What a caller of the jobs manager is promised about one reqId: a record *)
(* is opened once, closes at most once, its closing is announced exactly   *)
(* once to the finish listeners, the outcome never changes afterwards, and *)
(* only a closed record may be forgotten.  Several records may move in one *)
(* step (a lost node closes all its running jobs together).                *)
(***************************************************************************)
EXTENDS Naturals

CONSTANT ReqId

VARIABLES
  phase,   \* [ReqId -> Phase]
  told     \* [ReqId -> Nat]  finish notifications of the record now kept

lifeVars == <<phase, told>>

Closed == {"done", "failed", "interrupted"}
Phase == Closed \cup {"absent", "running"}

LifeInit ==
  /\ phase = [r \in ReqId |-> "absent"]
  /\ told = [r \in ReqId |-> 0]

\* A dispatch or an orphan report opens the record; a dispatch whose socket
\* write is refused opens and closes it in one go.
Open(r) ==
  /\ phase[r] = "absent"
  /\ \/ phase'[r] = "running" /\ told'[r] = 0
     \/ phase'[r] = "failed" /\ told'[r] = 1

Close(r) ==
  /\ phase[r] = "running"
  /\ phase'[r] \in Closed
  /\ told[r] = 0 /\ told'[r] = 1

Forget(r) ==
  /\ phase[r] \in Closed
  /\ phase'[r] = "absent"
  /\ told'[r] = 0

Keep(r) == phase'[r] = phase[r] /\ told'[r] = told[r]

LifeNext ==
  \A r \in ReqId : Open(r) \/ Close(r) \/ Forget(r) \/ Keep(r)

LifeSpec == LifeInit /\ [][LifeNext]_lifeVars
=============================================================================
