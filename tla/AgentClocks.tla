---------------------------- MODULE AgentClocks ----------------------------
(***************************************************************************)
(* The agent's clock reconciliation (agent/src/reconcile.ts, the           *)
(* reconcileChain of agent/src/daemon.ts, the applier of agent/src/main.ts):*)
(* pushed profiles are queued on one promise chain; each is saved to the   *)
(* state file, applied by a helper script and recorded as applied.  The    *)
(* process may restart and the node may boot, which resets its clocks, at  *)
(* any point; every file write and every helper command may fail.          *)
(***************************************************************************)
EXTENDS Naturals, Sequences

CONSTANTS
  Profile,       \* profile ids the dashboard may push
  NoProfile,
  Cap, Open,     \* clock settings; Open is uncapped
  NoCaps,        \* no caps object came with the profile
  CapsOf,        \* caps pushed with each profile (NoCaps for an unknown id)
  MaxQueue,      \* bound on frames waiting in the chain
  MaxBoots,      \* bound on boots and agent restarts
  MaxWriteErrors \* bound on failed state-file writes

BootTask == "boot"
NoFrame == "no frame"

ASSUME ProfileAssumption ==
  /\ NoProfile \notin Profile /\ NoCaps \notin Cap /\ Open \in Cap
  /\ BootTask \notin Profile \cup {NoProfile} /\ NoFrame \notin Profile \cup {NoProfile}
ASSUME CapsAssumption == CapsOf \in [Profile -> Cap \cup {NoCaps}]
ASSUME ClockBounds == MaxQueue \in Nat \ {0} /\ MaxBoots \in Nat /\ MaxWriteErrors \in Nat

VARIABLES
  file,          \* AgentDesiredState: profile, caps and what was last applied
  gpu, cpu,      \* the node's clock settings
  chain,         \* tasks on reconcileChain: BootTask, or a pushed profile
  stage,         \* of the first one: "queued", "reconcile" or "record"
  broken,        \* the chain is rejected: no later task runs
  dialed,        \* the daemon has come past its boot task to dial()
  pushed,        \* profile of the last frame, or NoFrame
  reapplyFailed, \* the apply of some boot failed and none succeeded since
  boots, writeErrors

fileVars == <<file, gpu, cpu>>
taskVars == <<chain, stage, broken, dialed>>
vars == <<fileVars, taskVars, pushed, reapplyFailed, boots, writeErrors>>

None == [profile |-> NoProfile, caps |-> NoCaps]

Setting(caps) == IF caps = NoCaps THEN Open ELSE caps

\* config.clockCaps as it comes with the profile p.
Pushed(p) == IF p = NoProfile THEN NoCaps ELSE CapsOf[p]

Current == [profile |-> file.profile, caps |-> file.caps]

Booting == Head(chain) = BootTask

\* Fault: the boot path does not force the apply.
UpToDateAtBoot ==
  \/ file.profile = NoProfile /\ file.caps = NoCaps /\ file.applied.profile = NoProfile
  \/ Current = file.applied

\* Fault: an uncapped state counts as applied whatever was applied before.
UpToDateUncapped ==
  \/ file.profile = NoProfile /\ file.caps = NoCaps
  \/ ~Booting /\ Current = file.applied

\* reconcileClocks returns before the applier is called.
UpToDate ==
  \/ file.profile = NoProfile /\ file.caps = NoCaps /\ file.applied.profile = NoProfile
  \/ ~Booting /\ Current = file.applied

----------------------------------------------------------------------------
(* The chain.                                                              *)

\* The first task is over; the boot task's successor is dial().
TaskDone ==
  /\ chain' = Tail(chain) /\ stage' = "queued"
  /\ dialed' = (dialed \/ Booting)
  /\ UNCHANGED broken

\* A file write fails.  The boot task's rejection is caught after dial() was
\* skipped; any other rejects the chain for good.
WriteFails ==
  /\ writeErrors < MaxWriteErrors /\ writeErrors' = writeErrors + 1
  /\ stage' = "queued"
  /\ \/ Booting /\ chain' = Tail(chain) /\ UNCHANGED broken
     \/ ~Booting /\ chain' = << >> /\ broken' = TRUE
  /\ UNCHANGED dialed

\* Fault: a frame that finds an apply under way is left out.
FrameDropped(p) ==
  /\ dialed /\ Len(chain) < MaxQueue
  /\ pushed' = p
  /\ chain' = IF broken \/ chain # << >> THEN chain ELSE Append(chain, p)
  /\ UNCHANGED <<fileVars, stage, broken, dialed, reapplyFailed, boots, writeErrors>>

\* A welcome or config-update; on a rejected chain its task never runs.
Frame(p) ==
  /\ dialed /\ Len(chain) < MaxQueue
  /\ pushed' = p
  /\ chain' = IF broken THEN chain ELSE Append(chain, p)
  /\ UNCHANGED <<fileVars, stage, broken, dialed, reapplyFailed, boots, writeErrors>>

\* setDesiredProfile: a known profile brings its caps, an unknown one keeps the
\* caps the file had.
SaveDesired ==
  /\ chain # << >> /\ ~Booting /\ stage = "queued"
  /\ \/ LET p == Head(chain) IN
        /\ file' = [file EXCEPT
             !.profile = p,
             !.caps = IF Pushed(p) # NoCaps THEN Pushed(p) ELSE IF p # NoProfile THEN @ ELSE NoCaps]
        /\ stage' = "reconcile"
        /\ UNCHANGED <<chain, broken, dialed, writeErrors>>
     \/ WriteFails /\ UNCHANGED file
  /\ UNCHANGED <<gpu, cpu, pushed, reapplyFailed, boots>>

Reconciling == chain # << >> /\ (stage = "reconcile" \/ (stage = "queued" /\ Booting))

Skip ==
  /\ Reconciling /\ UpToDate
  /\ TaskDone
  /\ UNCHANGED <<fileVars, pushed, reapplyFailed, boots, writeErrors>>

\* The helper script runs a GPU and a CPU command; its exit status is that of
\* the second one.
Apply(gpuOk, cpuOk) ==
  /\ Reconciling /\ ~UpToDate
  /\ gpu' = IF gpuOk THEN Setting(file.caps) ELSE gpu
  /\ cpu' = IF cpuOk THEN Setting(file.caps) ELSE cpu
  /\ \/ cpuOk /\ stage' = "record" /\ reapplyFailed' = FALSE /\ UNCHANGED <<chain, broken, dialed>>
     \/ ~cpuOk /\ TaskDone /\ reapplyFailed' = (reapplyFailed \/ Booting)
  /\ UNCHANGED <<file, pushed, boots, writeErrors>>

RecordApplied ==
  /\ chain # << >> /\ stage = "record"
  /\ \/ file' = [file EXCEPT !.applied = Current] /\ TaskDone /\ UNCHANGED writeErrors
     \/ WriteFails /\ UNCHANGED file
  /\ UNCHANGED <<gpu, cpu, pushed, reapplyFailed, boots>>

\* The agent process starts again, after a crash or because the node booted.
Restart(node) ==
  /\ boots < MaxBoots /\ boots' = boots + 1
  /\ chain' = <<BootTask>> /\ stage' = "queued"
  /\ broken' = FALSE /\ dialed' = FALSE
  /\ pushed' = NoFrame
  /\ gpu' = IF node THEN Open ELSE gpu
  /\ cpu' = IF node THEN Open ELSE cpu
  /\ UNCHANGED <<file, reapplyFailed, writeErrors>>

----------------------------------------------------------------------------
Init ==
  /\ file = [profile |-> NoProfile, caps |-> NoCaps, applied |-> None]
  /\ gpu = Open /\ cpu = Open
  /\ chain = <<BootTask>> /\ stage = "queued"
  /\ broken = FALSE /\ dialed = FALSE
  /\ pushed = NoFrame /\ reapplyFailed = FALSE
  /\ boots = 0 /\ writeErrors = 0

Next ==
  \/ \E p \in Profile \cup {NoProfile} : Frame(p)
  \/ SaveDesired
  \/ Skip
  \/ \E gpuOk, cpuOk \in BOOLEAN : Apply(gpuOk, cpuOk)
  \/ RecordApplied
  \/ \E node \in BOOLEAN : Restart(node)

Spec == Init /\ [][Next]_vars

----------------------------------------------------------------------------
(* Properties.                                                             *)

TypeOK ==
  /\ file \in [profile : Profile \cup {NoProfile}, caps : Cap \cup {NoCaps},
               applied : [profile : Profile \cup {NoProfile}, caps : Cap \cup {NoCaps}]]
  /\ gpu \in Cap /\ cpu \in Cap
  /\ chain \in Seq(Profile \cup {NoProfile, BootTask})
  /\ stage \in {"queued", "reconcile", "record"} /\ (chain = << >> => stage = "queued")
  /\ broken \in BOOLEAN /\ dialed \in BOOLEAN /\ reapplyFailed \in BOOLEAN
  /\ pushed \in Profile \cup {NoProfile, NoFrame}

\* With nothing left to do, and the chain alive, the state file names the profile
\* of the last frame: an older frame never has the last word, whatever failed or
\* was queued in between.
LastFrameWins ==
  (dialed /\ ~broken /\ chain = << >> /\ pushed # NoFrame) => file.profile = pushed

\* With nothing left to do the CPU ceiling is the one recorded as applied, boots,
\* crashes between apply and record and failed commands included -- but for an
\* agent start whose re-apply failed and was not made good since.
CpuAsRecorded ==
  (dialed /\ ~broken /\ chain = << >> /\ ~reapplyFailed) => cpu = Setting(file.applied.caps)

\* While the dashboard keeps pushing one profile, it is recorded as applied in the
\* end: a failed apply is tried again with the next welcome.
RecordedInTheEnd ==
  \A p \in Profile \cup {NoProfile} :
    <>[](pushed = p /\ dialed /\ ~broken) => <>[](file.applied.profile = p)

=============================================================================
