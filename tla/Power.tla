------------------------------- MODULE Power -------------------------------
(***************************************************************************)
(* Who commands one node's clocks.  The thermal guard (power/thermal.ts,   *)
(* its hooks in index.ts) dispatches clock-apply jobs, and so may an       *)
(* operator (POST /api/nodes/:id/jobs), with caps of his own; the operator *)
(* (PUT /api/power/clocks) and the schedules (power/schedules.ts, the timer *)
(* in index.ts) write the desired profile, which reaches the agent in a    *)
(* frame and is applied unless it is the one last applied; and the agent   *)
(* re-applies its profile when it starts.  The agent is AgentClocks with   *)
(* its queue, file errors and the two clock domains left out: caps of an   *)
(* operator that name one domain only leave the node at any setting.       *)
(***************************************************************************)
EXTENDS Naturals

CONSTANTS
  Profile,        \* profile ids, known ones and ids a schedule may misspell
  Full, Quiet,    \* the default profile, and the one the guard derates to
  NoProfile,
  Cap, Open,      \* clock settings; Open is uncapped
  Partial,        \* caps that name one clock domain; no profile has such caps
  NoCaps,
  CapsOf,         \* caps of each profile (NoCaps for an unknown id)
  Scheduled,      \* profiles the node's schedule may name
  Hold,           \* recoverHoldMs, in timer steps
  MayFail,        \* whether a helper command may fail of itself
  MaxChanges,     \* bound on PUTs, window changes and jobs of the operator
  MaxFaults       \* bound on link losses, boots and dashboard restarts

ASSUME PowerProfiles ==
  /\ Full \in Profile /\ Quiet \in Profile /\ NoProfile \notin Profile
  /\ Open \in Cap /\ NoCaps \notin Cap /\ CapsOf \in [Profile -> Cap \cup {NoCaps}]
  /\ CapsOf[Full] = Open /\ CapsOf[Quiet] \in Cap \ {Open} /\ Scheduled \subseteq Profile
  /\ Partial \subseteq Cap \ {Open} /\ \A p \in Profile : CapsOf[p] \notin Partial
ASSUME PowerBounds ==
  Hold \in Nat /\ MayFail \in BOOLEAN /\ MaxChanges \in Nat /\ MaxFaults \in Nat

VARIABLES
  temp,     \* last GPU temperature in LiveState, in the classes the guard tells apart
  guard,    \* ThermalGuard's state of the node
  below,    \* time since belowSince, or NotBelow
  calm,     \* history: time since the guard last saw the node not cool
  manual,   \* ClockProfileStore's profile
  window,   \* profile of the schedule's active window, or NoProfile
  desired,  \* DesiredStateStore's clockProfileId
  online,   \* the agent is connected
  job,      \* caps of the running clock-apply job's record, or NoCaps
  timed,    \* that record has a timer
  procs,    \* caps that clock-apply processes on the node are about to set
  agent,    \* the agent's state file: profile, caps, last applied ones
  starting, \* the agent has not come past its boot task
  clock,    \* the node's clock setting
  excused,  \* history: the clock may not be what the dashboard shows (ClockExplained)
  changes, faults

guardVars == <<guard, below, calm>>
wishVars == <<manual, window, desired>>
jobVars == <<job, timed, procs>>
nodeVars == <<agent, starting, clock>>
bounds == <<changes, faults>>
vars == <<temp, guardVars, wishVars, online, jobVars, nodeVars, excused, bounds>>

NotBelow == Hold + 1
Known == {p \in Profile : CapsOf[p] # NoCaps}
Setting(caps) == IF caps = NoCaps THEN Open ELSE caps
Nothing == [profile |-> NoProfile, caps |-> NoCaps]
Current == [profile |-> agent.profile, caps |-> agent.caps]

----------------------------------------------------------------------------
(* The thermal guard and its hooks.                                        *)

\* jobArgv refuses caps that are both null; JobsManager.dispatch refuses an
\* offline node and a second running job of the kind.
Refused(caps) == caps = Open \/ ~online \/ job # NoCaps

Dispatch(caps, timer) == job' = caps /\ timed' = timer /\ procs' = procs \cup {caps}

\* A command of the guard has a timer of 30 s.
Command(caps) == IF Refused(caps) THEN UNCHANGED jobVars ELSE Dispatch(caps, TRUE)

\* Another command is still on its way to the clocks.
Overtaken == procs # {}

\* Fault: the desired profile is applied again.
DerateToManual ==
  /\ guard' = "derated" /\ below' = NotBelow
  /\ Command(CapsOf[manual])
  /\ excused' = (Refused(CapsOf[manual]) \/ Overtaken)

\* onDerate: the quiet caps, whatever profile is desired.
Derate ==
  /\ guard' = "derated" /\ below' = NotBelow
  /\ Command(CapsOf[Quiet])
  /\ excused' = (Refused(CapsOf[Quiet]) \/ Overtaken)

\* onRecover: the manual profile, which a schedule or a PUT on its way to the
\* agent may make another one than the agent's.
Recover ==
  /\ guard' = "nominal" /\ below' = NotBelow
  /\ Command(CapsOf[manual])
  /\ excused' = \/ Refused(CapsOf[manual]) \/ Overtaken
                 \/ ~(manual = desired /\ desired = agent.profile /\ agent.applied = Current)

Quietly == UNCHANGED <<jobVars, excused>>

\* Fault: a reading that breaks the hysteresis does not restart the hold.
CoolDownSticky ==
  \/ temp = "cool" /\ (below = Hold \/ (below = NotBelow /\ Hold = 0)) /\ Recover
  \/ temp = "cool" /\ below = NotBelow /\ Hold > 0 /\ below' = 0 /\ UNCHANGED guard /\ Quietly
  \/ temp = "cool" /\ below < Hold /\ UNCHANGED <<guard, below>> /\ Quietly
  \/ temp \in {"warm", "hot"} /\ UNCHANGED <<guard, below>> /\ Quietly

\* Fault: every cool reading begins the hold.
CoolDownRestarts ==
  \/ temp = "cool" /\ Hold = 0 /\ Recover
  \/ temp = "cool" /\ Hold > 0 /\ below' = 0 /\ UNCHANGED guard /\ Quietly
  \/ temp \in {"warm", "hot"} /\ below' = NotBelow /\ UNCHANGED guard /\ Quietly

\* A derated node's reading: count the time below the threshold, recover at the
\* end of the hold, begin again when the temperature is back.
CoolDown ==
  \/ temp = "cool" /\ (below = Hold \/ (below = NotBelow /\ Hold = 0)) /\ Recover
  \/ temp = "cool" /\ below = NotBelow /\ Hold > 0 /\ below' = 0 /\ UNCHANGED guard /\ Quietly
  \/ temp = "cool" /\ below < Hold /\ UNCHANGED <<guard, below>> /\ Quietly
  \/ temp \in {"warm", "hot"} /\ below' = NotBelow /\ UNCHANGED guard /\ Quietly

ThermalTick ==
  /\ temp # "none"
  /\ \/ guard = "nominal" /\ temp = "hot" /\ Derate
     \/ guard = "nominal" /\ temp # "hot" /\ UNCHANGED <<guard, below>> /\ Quietly
     \/ guard = "derated" /\ CoolDown
  /\ calm' = IF temp = "cool" THEN calm ELSE 0
  /\ UNCHANGED <<temp, wishVars, online, nodeVars, bounds>>

\* Time passes.  A guard's job is over after 30 s, the hold after five minutes.
Elapse ==
  /\ below = Hold - 1 /\ timed => job = NoCaps
  /\ below' = IF below < Hold THEN below + 1 ELSE below
  /\ calm' = IF calm < Hold THEN calm + 1 ELSE calm
  /\ UNCHANGED <<temp, guard, wishVars, online, jobVars, nodeVars, excused, bounds>>

\* A metrics frame; the last one is kept while the node is away.
Metrics(t) ==
  /\ online /\ ~starting /\ temp' = t
  /\ UNCHANGED <<guardVars, wishVars, online, jobVars, nodeVars, excused, bounds>>

----------------------------------------------------------------------------
(* The operator and the schedules.                                         *)

Put(p) ==
  /\ p \in Known /\ changes < MaxChanges /\ changes' = changes + 1
  /\ manual' = p /\ desired' = p
  /\ UNCHANGED <<temp, guardVars, window, online, jobVars, nodeVars, excused, faults>>

\* A clock-apply job with caps of the operator's choice, with a timeout or without;
\* what it sets is in no profile, so the dashboard does not show it.
OperatorApplies(c, timer) ==
  /\ changes < MaxChanges /\ changes' = changes + 1
  /\ ~Refused(c) /\ Dispatch(c, timer)
  /\ excused' = TRUE
  /\ UNCHANGED <<temp, guardVars, wishVars, online, nodeVars, faults>>

EndRecord == job' = NoCaps /\ timed' = FALSE

\* POST /api/jobs/:reqId/cancel: the record ends and its process is killed.
CancelJob ==
  /\ job # NoCaps /\ EndRecord
  /\ excused' = TRUE
  /\ UNCHANGED <<temp, guardVars, wishVars, online, procs, nodeVars, bounds>>

\* A window opens or closes, or the rules were edited.
WindowMoves(p) ==
  /\ p # window /\ changes < MaxChanges /\ changes' = changes + 1
  /\ window' = p
  /\ UNCHANGED <<temp, guardVars, manual, desired, online, jobVars, nodeVars, excused, faults>>

\* Fault: the end of a window leaves the desired profile as it is.
EffectiveOnlyInside == IF window # NoProfile THEN window ELSE desired

Effective == IF window # NoProfile THEN window ELSE manual

ScheduleTick ==
  /\ desired # Effective /\ desired' = Effective
  /\ UNCHANGED <<temp, guardVars, manual, window, online, jobVars, nodeVars, excused, bounds>>

----------------------------------------------------------------------------
(* The node.                                                               *)

\* The helper sets the agent's caps and they are recorded, or it fails.
Applies(to) ==
  \/ /\ clock' = Setting(to.caps)
     /\ agent' = [profile |-> to.profile, caps |-> to.caps, applied |-> to]
     /\ excused' = (Overtaken \/ guard = "derated")
  \/ /\ MayFail
     /\ agent' = [profile |-> to.profile, caps |-> to.caps, applied |-> agent.applied]
     /\ excused' = TRUE
     /\ UNCHANGED clock

\* The state setDesiredProfile saves: an unknown profile keeps the caps.
Told(p) ==
  [profile |-> p,
   caps |-> IF p = NoProfile THEN NoCaps ELSE IF CapsOf[p] # NoCaps THEN CapsOf[p] ELSE agent.caps]

UpToDate(to) == to = agent.applied \/ (to = Nothing /\ agent.applied.profile = NoProfile)

Heard ==
  LET to == Told(desired) IN
  \/ UpToDate(to) /\ agent' = [agent EXCEPT !.profile = to.profile, !.caps = to.caps]
                  /\ UNCHANGED <<clock, excused>>
  \/ ~UpToDate(to) /\ Applies(to)

\* The reconciler pushes a changed profile.
ConfigUpdate ==
  /\ online /\ ~starting /\ agent.profile # desired
  /\ Heard
  /\ UNCHANGED <<temp, guardVars, wishVars, online, jobVars, starting, bounds>>

\* The agent connects and its welcome carries the profile.
Connect ==
  /\ ~online /\ ~starting /\ online' = TRUE
  /\ Heard
  /\ UNCHANGED <<temp, guardVars, wishVars, jobVars, starting, bounds>>

\* The boot task: the agent's own profile, applied by force.
BootTask ==
  /\ starting /\ starting' = FALSE
  /\ \/ Current = Nothing /\ agent.applied.profile = NoProfile /\ UNCHANGED <<agent, clock, excused>>
     \/ ~(Current = Nothing /\ agent.applied.profile = NoProfile) /\ Applies(Current)
  /\ UNCHANGED <<temp, guardVars, wishVars, online, jobVars, bounds>>

\* A clock-apply process ends, by itself or killed after its record has ended.  Its
\* exit ends the job's record if it can be sent.
ProcExit(c, ok) ==
  /\ procs' = procs \ {c}
  /\ ok \/ MayFail \/ job # c
  /\ clock' \in IF ~ok THEN {clock} ELSE IF c \in Partial THEN Cap ELSE {c}
  /\ excused' = (excused \/ ~ok)
  /\ IF job = c /\ online THEN EndRecord ELSE UNCHANGED <<job, timed>>
  /\ UNCHANGED <<temp, guardVars, wishVars, online, agent, starting, bounds>>

\* The record ends before its process: the timer, or the watchdog of an offline node.
JobEndsEarly ==
  /\ job # NoCaps /\ (~online \/ (timed /\ (MayFail \/ job \notin procs)))
  /\ EndRecord
  /\ excused' = TRUE
  /\ UNCHANGED <<temp, guardVars, wishVars, online, procs, nodeVars, bounds>>

\* The connection breaks, and the job-run frame just sent may be lost with it.
Disconnect ==
  /\ online /\ faults < MaxFaults /\ faults' = faults + 1
  /\ online' = FALSE
  /\ \/ UNCHANGED <<procs, excused>>
     \/ job \in procs /\ procs' = procs \ {job} /\ excused' = TRUE
  /\ UNCHANGED <<temp, guardVars, wishVars, job, timed, nodeVars, changes>>

\* The agent starts anew, alone or because its node booted: its processes end,
\* and a boot resets the clocks.
AgentRestart(boot) ==
  /\ faults < MaxFaults /\ faults' = faults + 1
  /\ online' = FALSE /\ starting' = TRUE /\ procs' = {}
  /\ clock' = IF boot THEN Open ELSE clock
  /\ excused' = TRUE
  /\ UNCHANGED <<temp, guardVars, wishVars, job, timed, agent, changes>>

\* The guard, the profiles and the schedules are files; jobs and metrics are not.
ServerRestart ==
  /\ faults < MaxFaults /\ faults' = faults + 1
  /\ online' = FALSE /\ EndRecord /\ temp' = "none"
  /\ excused' = (excused \/ job # NoCaps)
  /\ UNCHANGED <<guardVars, wishVars, procs, nodeVars, changes>>

----------------------------------------------------------------------------
Init ==
  /\ temp = "none" /\ guard = "nominal" /\ below = NotBelow /\ calm = 0
  /\ manual = Full /\ window = NoProfile /\ desired = NoProfile
  /\ online = FALSE /\ job = NoCaps /\ timed = FALSE /\ procs = {}
  /\ agent = [profile |-> NoProfile, caps |-> NoCaps, applied |-> Nothing]
  /\ starting = TRUE /\ clock = Open
  /\ excused = FALSE /\ changes = 0 /\ faults = 0

Next ==
  \/ ThermalTick \/ Elapse \/ \E t \in {"hot", "warm", "cool", "none"} : Metrics(t)
  \/ \E p \in Profile : Put(p)
  \/ \E c \in Cap \ {Open}, timer \in BOOLEAN : OperatorApplies(c, timer)
  \/ CancelJob
  \/ \E p \in Scheduled \cup {NoProfile} : WindowMoves(p)
  \/ ScheduleTick
  \/ ConfigUpdate \/ Connect \/ BootTask
  \/ \E c \in procs, ok \in BOOLEAN : ProcExit(c, ok)
  \/ JobEndsEarly \/ Disconnect \/ \E boot \in BOOLEAN : AgentRestart(boot) \/ ServerRestart

Spec == Init /\ [][Next]_vars

\* The timers run, the agent starts, dials and reads, processes end.
FairSpec ==
  /\ Spec
  /\ WF_vars(ThermalTick) /\ WF_vars(Elapse) /\ WF_vars(ScheduleTick)
  /\ WF_vars(ConfigUpdate) /\ WF_vars(Connect) /\ WF_vars(BootTask)
  /\ WF_vars(JobEndsEarly)
  /\ WF_vars(\E c \in procs, ok \in BOOLEAN : ProcExit(c, ok))

----------------------------------------------------------------------------
(* Properties.                                                             *)

TypeOK ==
  /\ temp \in {"hot", "warm", "cool", "none"} /\ guard \in {"nominal", "derated"}
  /\ below \in 0 .. NotBelow /\ calm \in 0 .. Hold /\ (guard = "nominal" => below = NotBelow)
  /\ manual \in Known /\ window \in Scheduled \cup {NoProfile}
  /\ desired \in Profile \cup {NoProfile}
  /\ online \in BOOLEAN /\ starting \in BOOLEAN /\ (online => ~starting)
  /\ job \in (Cap \ {Open}) \cup {NoCaps} /\ timed \in BOOLEAN /\ (job = NoCaps => ~timed) /\ procs \subseteq Cap \ {Open}
  /\ agent \in [profile : Profile \cup {NoProfile}, caps : Cap \cup {NoCaps},
                applied : [profile : Profile \cup {NoProfile}, caps : Cap \cup {NoCaps}]]
  /\ clock \in Cap /\ excused \in BOOLEAN

\* "Recovery only after the temperature stays below the recovery threshold for a
\* hold window" (thermal.ts:3): the guard lets go only when every reading it saw
\* for that long was cool, gaps in the readings and dashboard restarts included.
RecoversAfterHold ==
  [][(guard = "derated" /\ guard' = "nominal") => calm >= Hold]_vars

\* The clock is the quiet one under derate and the agent's own profile otherwise,
\* unless since the last command that set it one of the listed things happened: a
\* command refused, lost, failed, overtaken or cut short, caps that cannot be sent,
\* a manual profile that is not the agent's, a profile applied under derate, a
\* restart of the agent, a clock-apply job of the operator's, a cancelled job.
\* There is no other way for the dashboard to be wrong.
ClockExplained ==
  (~excused /\ procs = {}) =>
    clock = IF guard = "derated" THEN CapsOf[Quiet] ELSE Setting(agent.caps)

\* A node that cooled down is let go: a guard does not stay derated for ever.
LetsGo == <>[](temp = "cool") => <>[](guard = "nominal")

\* While a window is active its profile becomes the desired one, whatever was PUT
\* meanwhile, and after it the manual one does (schedules.ts:3).
DesiredFollows ==
  \A p \in Profile :
    <>[](window = p \/ (window = NoProfile /\ manual = p)) => <>[](desired = p)

=============================================================================
