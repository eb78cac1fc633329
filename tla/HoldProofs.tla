----------------------------- MODULE HoldProofs -----------------------------
(***************************************************************************)
(* Proofs about the two minute ticks that act only on what has held for a  *)
(* while: the alert engine and the thermal guard.                          *)
(* AlertEngine, for any rules, entities, hold time, mutes and restarts:    *)
(* a pair has no row or one, and a breach clock is always younger than the *)
(* last evaluation that found the pair clear.                              *)
(* Power, for any profiles, schedules, hold time and bounds: the guard's   *)
(* count never runs ahead of the time the node has been cool; and while    *)
(* the clock needs no excuse, the one process that may still be running    *)
(* sets what the guard or the agent's profile asks for.                    *)
(***************************************************************************)
EXTENDS AlertEngine, Power, SequenceTheorems, TLAPS

Slot == {<< >>} \cup {<<row>> : row \in Row}

ClockType ==
  /\ since \in [Pair -> 0 .. ForTicks \cup {NoBreach}]
  /\ clearFor \in [Pair -> 0 .. ForTicks + 1]

EnvType ==
  /\ rules \in [Rule -> {"absent", "off", "on"}]
  /\ listed \subseteq Entity /\ hot \subseteq Pair
  /\ restarts \in 0 .. MaxRestarts

ClockBehind == \A p \in Pair : since[p] # NoBreach => clearFor[p] > since[p]

EngineInv == EnvType /\ ClockType /\ open \in [Pair -> Slot] /\ ClockBehind

LEMMA SlotFacts ==
  ASSUME NEW s \in Slot
  PROVE  /\ s \in Seq(Row) /\ Len(s) <= 1
         /\ s # << >> => Len(s) = 1 /\ Last(s) \in Row /\ s = <<Last(s)>>
<1>1. CASE s = << >>
  BY <1>1
<1>2. CASE \E row \in Row : s = <<row>>
  <2>1. PICK row \in Row : s = <<row>>
    BY <1>2
  <2>2. Len(s) = 1 /\ s[1] = row /\ s \in Seq(Row)
    BY <2>1
  <2> QED
    BY <2>1, <2>2 DEF Last
<1> QED
  BY <1>1, <1>2 DEF Slot

LEMMA ShorterThanTwo ==
  ASSUME NEW p \in Pair, open[p] \in Slot
  PROVE  Older(p) = << >>
<1>1. Len(open[p]) \in 0 .. 1
  BY SlotFacts
<1>2. CASE Len(open[p]) = 0
  BY <1>2 DEF Older
<1>3. CASE Len(open[p]) = 1
  BY <1>3 DEF Older
<1> QED
  BY <1>1, <1>2, <1>3

LEMMA LessFacts == ASSUME NEW n \in 0 .. MaxMute PROVE Less(n) \in 0 .. MaxMute
BY AlertBounds DEF Less

\* The tick leaves a pair with one row at most.
LEMMA RowsFitSlot ==
  ASSUME NEW p \in Pair, open[p] \in Slot
  PROVE  /\ Rows(p) \in Slot
         /\ (open[p] = << >> /\ Rows(p) # << >>) => p \in Evaluated \cap hot /\ BreachSince(p) = ForTicks
<1>1. [state |-> "firing", muted |-> 0] \in Row
  BY AlertBounds DEF Row
<1>2. ASSUME open[p] # << >>
      PROVE  /\ Newest(p) \in Row /\ [Newest(p) EXCEPT !.state = "firing"] \in Row
  <2>1. Last(open[p]) \in Row
    BY <1>2, SlotFacts
  <2> QED
    BY <2>1, LessFacts DEF Newest, Row
<1>3. Older(p) = << >>
  BY ShorterThanTwo
<1>4. \A row \in Row : Append(Older(p), row) \in Slot
  BY <1>3 DEF Slot
<1>5. Breaching(p) \in Slot
  BY <1>1, <1>2, <1>4 DEF Breaching, Slot
<1> QED
  BY <1>1, <1>2, <1>3, <1>4, <1>5 DEF Rows, Breaching, Slot

\* The breach clock after a tick, and why it stays behind clearFor.
LEMMA ClockFacts ==
  ASSUME EngineInv, NEW p \in Pair
  PROVE  LET clearNow == IF p \in Evaluated \ hot THEN 0 ELSE UpTo(ForTicks + 1, clearFor[p]) IN
         /\ BreachSince(p) \in 0 .. ForTicks \cup {NoBreach}
         /\ clearNow \in 0 .. ForTicks + 1
         /\ BreachSince(p) # NoBreach => clearNow > BreachSince(p)
<1>1. /\ since[p] \in 0 .. ForTicks \cup {NoBreach} /\ clearFor[p] \in 0 .. ForTicks + 1
      /\ since[p] # NoBreach => clearFor[p] > since[p]
  BY DEF EngineInv, ClockType, ClockBehind
<1> QED
  BY <1>1, AlertBounds, NoBreachAssumption DEF BreachSince, UpTo

LEMMA EngineInit == AlertInit => EngineInv
BY AlertBounds, NoBreachAssumption
   DEF AlertInit, EngineInv, EnvType, ClockType, ClockBehind, Slot

LEMMA TickInv ==
  ASSUME EngineInv, Tick
  PROVE  EngineInv'
<1>1. EnvType'
  BY DEF EngineInv, EnvType, Tick, envVars
<1>2. open' \in [Pair -> Slot]
  BY RowsFitSlot DEF EngineInv, Tick
<1>4. ClockType' /\ ClockBehind'
  <2>1. \A p \in Pair :
          /\ since'[p] = BreachSince(p)
          /\ clearFor'[p] = IF p \in Evaluated \ hot THEN 0 ELSE UpTo(ForTicks + 1, clearFor[p])
    BY DEF Tick
  <2>2. \A p \in Pair :
          /\ since'[p] \in 0 .. ForTicks \cup {NoBreach}
          /\ clearFor'[p] \in 0 .. ForTicks + 1
          /\ since'[p] # NoBreach => clearFor'[p] > since'[p]
    BY <2>1, ClockFacts
  <2>3. since' \in [Pair -> 0 .. ForTicks \cup {NoBreach}] /\ clearFor' \in [Pair -> 0 .. ForTicks + 1]
    BY <2>2 DEF Tick
  <2> QED
    BY <2>2, <2>3 DEF ClockType, ClockBehind
<1> QED
  BY <1>1, <1>2, <1>4 DEF EngineInv

\* An operator changes or takes away a row of a pair, and adds none.
LEMMA RowEdits ==
  ASSUME NEW p \in Pair, open[p] \in Slot, NEW i \in DOMAIN open[p]
  PROVE  /\ [open[p] EXCEPT ![i].state = "acknowledged"] \in Slot
         /\ \A k \in 0 .. MaxMute : [open[p] EXCEPT ![i].muted = k] \in Slot
         /\ RemoveAt(open[p], i) = << >>
         /\ i = 1 /\ Len(open[p]) = 1
<1>1. PICK row \in Row : open[p] = <<row>>
  BY DEF Slot
<1>2. i = 1 /\ Len(open[p]) = 1
  BY <1>1
<1>3. \A x : [open[p] EXCEPT ![i] = x] = <<x>>
  BY <1>1, <1>2
<1>4. [row EXCEPT !.state = "acknowledged"] \in Row
  BY DEF Row
<1>5. \A k \in 0 .. MaxMute : [row EXCEPT !.muted = k] \in Row
  BY DEF Row
<1>6. RemoveAt(open[p], i) = << >>
  BY <1>1, <1>2 DEF RemoveAt
<1> QED
  BY <1>1, <1>2, <1>3, <1>4, <1>5, <1>6 DEF Slot

LEMMA NextInv == EngineInv /\ [AlertNext]_alertVars => EngineInv'
<1> SUFFICES ASSUME EngineInv, [AlertNext]_alertVars PROVE EngineInv'
  OBVIOUS
<1>t. /\ EnvType /\ ClockType /\ ClockBehind /\ open \in [Pair -> Slot]
  BY DEF EngineInv
<1>1. ASSUME Tick PROVE EngineInv'
  BY <1>1, TickInv
<1>2. ASSUME NEW p \in Pair, Measure(p) PROVE EngineInv'
  BY <1>2, <1>t DEF Measure, EngineInv, EnvType, ClockType, ClockBehind
<1>3. ASSUME NEW e \in Entity, Directory(e) PROVE EngineInv'
  BY <1>3, <1>t DEF Directory, EngineInv, EnvType, ClockType, ClockBehind
<1>4. ASSUME NEW r \in Rule, NEW st \in {"absent", "off", "on"}, SetRule(r, st) PROVE EngineInv'
  BY <1>4, <1>t DEF SetRule, EngineInv, EnvType, ClockType, ClockBehind
<1>5. ASSUME NEW p \in Pair, NEW i \in DOMAIN open[p], Acknowledge(p, i) PROVE EngineInv'
  <2>1. open' \in [Pair -> Slot]
    BY <1>5, <1>t, RowEdits DEF Acknowledge
  <2> QED
    BY <2>1, <1>5, <1>t DEF Acknowledge, EngineInv, EnvType, ClockType, ClockBehind, envVars
<1>6. ASSUME NEW p \in Pair, NEW i \in DOMAIN open[p], Resolve(p, i) PROVE EngineInv'
  <2>1. open' \in [Pair -> Slot]
    BY <1>6, <1>t, RowEdits DEF Resolve, Slot
  <2> QED
    BY <2>1, <1>6, <1>t, AlertBounds DEF Resolve, EngineInv, EnvType, ClockType, ClockBehind, envVars
<1>7. ASSUME NEW p \in Pair, NEW i \in DOMAIN open[p], NEW k \in 0 .. MaxMute, Mute(p, i, k)
      PROVE EngineInv'
  <2>1. open' \in [Pair -> Slot]
    BY <1>7, <1>t, RowEdits DEF Mute
  <2> QED
    BY <2>1, <1>7, <1>t DEF Mute, EngineInv, EnvType, ClockType, ClockBehind, envVars
<1>8. ASSUME AlertsRestart PROVE EngineInv'
  BY <1>8, <1>t, AlertBounds, NoBreachAssumption
     DEF AlertsRestart, EngineInv, EnvType, ClockType, ClockBehind, envVars
<1>9. ASSUME UNCHANGED alertVars PROVE EngineInv'
  BY <1>9, <1>t DEF alertVars, envVars, EngineInv, EnvType, ClockType, ClockBehind
<1> QED
  BY <1>1, <1>2, <1>3, <1>4, <1>5, <1>6, <1>7, <1>8, <1>9 DEF AlertNext, Routes

THEOREM EngineInvariance == AlertSpec => []EngineInv
BY EngineInit, NextInv, PTL DEF AlertSpec

LEMMA EngineInvImplies == EngineInv => AlertTypes /\ OneOpenAlert
<1> SUFFICES ASSUME EngineInv PROVE AlertTypes /\ OneOpenAlert
  OBVIOUS
<1>1. open \in [Pair -> Slot]
  BY DEF EngineInv
<1>2. open \in [Pair -> Seq(Row)] /\ \A p \in Pair : Len(open[p]) <= 1
  BY <1>1, SlotFacts
<1> QED
  BY <1>2 DEF EngineInv, EnvType, ClockType, AlertTypes, OneOpenAlert

\* Every variable of the engine, its stores and its environment keeps its shape.
THEOREM EngineTypeCorrect == AlertSpec => []AlertTypes
BY EngineInvariance, EngineInvImplies, PTL

\* A rule has at most one open alert on an entity, for any number of rules and
\* entities and any interleaving of ticks, operators and restarts.
THEOREM OneAlertPerPair == AlertSpec => []OneOpenAlert
BY EngineInvariance, EngineInvImplies, PTL

\* Only the tick inserts rows, and only where the breach clock has run out.
LEMMA FiresStep ==
  EngineInv /\ [AlertNext]_alertVars
    => [\A p \in Pair : Len(open'[p]) > Len(open[p]) => clearFor'[p] > ForTicks]_alertVars
<1> SUFFICES ASSUME EngineInv, AlertNext, NEW p \in Pair, Len(open'[p]) > Len(open[p])
             PROVE  clearFor'[p] > ForTicks
  BY DEF alertVars
<1>t. open \in [Pair -> Slot]
  BY DEF EngineInv
<1>1. CASE Tick
  <2>1. open'[p] = Rows(p) /\ Rows(p) \in Slot
    BY <1>1, <1>t, RowsFitSlot DEF Tick
  <2>2. open[p] = << >> /\ Rows(p) # << >>
    BY <2>1, <1>t, SlotFacts
  <2>3. BreachSince(p) = ForTicks
    BY <2>2, <1>t, RowsFitSlot
  <2>4. BreachSince(p) # NoBreach
    BY <2>3, AlertBounds, NoBreachAssumption
  <2>5. clearFor'[p] = IF p \in Evaluated \ hot THEN 0 ELSE UpTo(ForTicks + 1, clearFor[p])
    BY <1>1 DEF Tick
  <2> QED
    BY <2>3, <2>4, <2>5, ClockFacts
<1>2. ASSUME NEW q \in Pair, NEW i \in DOMAIN open[q],
             Acknowledge(q, i) \/ Resolve(q, i) \/ \E k \in 0 .. MaxMute : Mute(q, i, k)
      PROVE FALSE
  <2>1. open[q] \in Slot
    BY <1>t
  <2>2. Len(open[q]) = 1 /\ open'[q] \in Slot /\ (q # p => open'[p] = open[p])
    <3>1. CASE Acknowledge(q, i)
      BY <3>1, <1>t, <2>1, RowEdits DEF Acknowledge
    <3>2. CASE Resolve(q, i)
      BY <3>2, <1>t, <2>1, RowEdits DEF Resolve, Slot
    <3>3. ASSUME NEW k \in 0 .. MaxMute, Mute(q, i, k)
          PROVE  Len(open[q]) = 1 /\ open'[q] \in Slot /\ (q # p => open'[p] = open[p])
      BY <3>3, <1>t, <2>1, RowEdits DEF Mute
    <3> QED
      BY <1>2, <3>1, <3>2, <3>3
  <2>3. Len(open'[q]) <= 1
    BY <2>2, SlotFacts
  <2>4. q = p \/ Len(open'[p]) = Len(open[p])
    BY <2>2
  <2>5. Len(open[p]) \in Nat
    BY <1>t, SlotFacts
  <2> QED
    BY <2>2, <2>3, <2>4, <2>5
<1>3. CASE open' = open
  BY <1>3, <1>t, SlotFacts
<1> QED
  BY <1>1, <1>2, <1>3 DEF AlertNext, Routes, Measure, Directory, SetRule, AlertsRestart, envVars

\* An alert fires only after ForTicks ticks without an evaluation that found its
\* condition clear, whatever the hold time.
THEOREM HoldIsKept == AlertSpec => FiresOnlyAfterHold
BY EngineInvariance, FiresStep, PTL DEF AlertSpec, FiresOnlyAfterHold

----------------------------------------------------------------------------
(* The guard.                                                              *)

Wanted == IF guard = "derated" THEN CapsOf[Quiet] ELSE Setting(agent.caps)

CountBehind == below # NotBelow => below <= calm

\* The caps in the state file belong to its profile, and to some profile.
CapsKnown ==
  /\ agent.caps \notin Partial
  /\ agent.profile \in Known => agent.caps = CapsOf[agent.profile]
  /\ agent.profile = NoProfile => agent.caps = NoCaps
  /\ agent.applied.profile = NoProfile => agent.applied.caps = NoCaps

\* Without an excuse, what runs is wanted, and so is what was applied.
OnCourse ==
  ~excused =>
    /\ \A c \in procs : c = Wanted
    /\ procs = {} => clock = Wanted
    /\ guard = "nominal" => Setting(agent.applied.caps) = Setting(agent.caps)

PowerInv == TypeOK /\ CountBehind /\ CapsKnown /\ OnCourse

Told0 == [profile : Profile \cup {NoProfile}, caps : Cap \cup {NoCaps}]

LEMMA PowerInit == Init => PowerInv
<1> SUFFICES ASSUME Init PROVE PowerInv
  OBVIOUS
<1>1. agent = [profile |-> NoProfile, caps |-> NoCaps, applied |-> Nothing] /\ agent.applied = Nothing
  BY DEF Init
<1>2. /\ Nothing \in [profile : Profile \cup {NoProfile}, caps : Cap \cup {NoCaps}]
      /\ Nothing.caps = NoCaps /\ agent.caps = NoCaps /\ agent.profile = NoProfile
  BY <1>1 DEF Nothing
<1>3. CapsKnown /\ OnCourse
  BY <1>1, <1>2, PowerProfiles DEF Init, CapsKnown, OnCourse, Wanted, Known, Setting
<1>4. Full \in Known
  BY PowerProfiles DEF Known
<1>5. TypeOK /\ CountBehind
  <2>1. agent \in [profile : Profile \cup {NoProfile}, caps : Cap \cup {NoCaps},
                   applied : [profile : Profile \cup {NoProfile}, caps : Cap \cup {NoCaps}]]
    BY <1>1, <1>2
  <2>2. below \in 0 .. NotBelow /\ calm \in 0 .. Hold /\ below = NotBelow
    BY PowerBounds DEF Init, NotBelow
  <2> QED
    BY <1>4, <2>1, <2>2, PowerProfiles DEF Init, TypeOK, CountBehind
<1> QED
  BY <1>3, <1>5 DEF PowerInv

\* What the agent is told is a state whose caps belong to its profile.
LEMMA ToldFacts ==
  ASSUME PowerInv, NEW p \in Profile \cup {NoProfile}
  PROVE  /\ Told(p) \in Told0 /\ Told(p).profile = p
         /\ p \in Known => Told(p).caps = CapsOf[p]
         /\ p = NoProfile => Told(p).caps = NoCaps
         /\ Told(p).caps \notin Partial
BY PowerProfiles DEF PowerInv, TypeOK, CapsKnown, Told, Told0, Known

\* An apply, with no change of guard or processes beside it.
LEMMA AppliesKeeps ==
  ASSUME PowerInv, NEW to \in Told0, Applies(to), UNCHANGED <<guard, procs>>,
         to.profile \in Known => to.caps = CapsOf[to.profile],
         to.profile = NoProfile => to.caps = NoCaps, to.caps \notin Partial
  PROVE  /\ agent' \in [profile : Profile \cup {NoProfile}, caps : Cap \cup {NoCaps}, applied : Told0]
         /\ clock' \in Cap /\ excused' \in BOOLEAN
         /\ CapsKnown' /\ OnCourse'
<1>t. /\ agent \in [profile : Profile \cup {NoProfile}, caps : Cap \cup {NoCaps}, applied : Told0]
      /\ clock \in Cap /\ excused \in BOOLEAN /\ guard \in {"nominal", "derated"}
  BY DEF PowerInv, TypeOK, Told0
<1>1. CASE /\ clock' = Setting(to.caps)
           /\ agent' = [profile |-> to.profile, caps |-> to.caps, applied |-> to]
           /\ excused' = (Overtaken \/ guard = "derated")
  <2>1. agent'.profile = to.profile /\ agent'.caps = to.caps /\ agent'.applied = to
    BY <1>1
  <2>2. CapsKnown'
    BY <2>1 DEF CapsKnown, Known
  <2>3. OnCourse'
    BY <1>1, <2>1, <1>t DEF OnCourse, Wanted, Overtaken
  <2> QED
    BY <1>1, <2>2, <2>3, PowerProfiles DEF Told0, Setting, Overtaken
<1>2. CASE /\ agent' = [profile |-> to.profile, caps |-> to.caps, applied |-> agent.applied]
           /\ excused' = TRUE /\ UNCHANGED clock
  BY <1>2, <1>t DEF CapsKnown, OnCourse, Known, Told0, PowerInv
<1> QED
  BY <1>1, <1>2 DEF Applies

LEMMA HeardKeeps ==
  ASSUME PowerInv, Heard, UNCHANGED <<guard, procs>>
  PROVE  /\ agent' \in [profile : Profile \cup {NoProfile}, caps : Cap \cup {NoCaps}, applied : Told0]
         /\ clock' \in Cap /\ excused' \in BOOLEAN
         /\ CapsKnown' /\ OnCourse'
<1> DEFINE to == Told(desired)
<1>t. /\ agent \in [profile : Profile \cup {NoProfile}, caps : Cap \cup {NoCaps}, applied : Told0]
      /\ clock \in Cap /\ excused \in BOOLEAN /\ guard \in {"nominal", "derated"}
      /\ desired \in Profile \cup {NoProfile}
  BY DEF PowerInv, TypeOK, Told0
<1>f. /\ to \in Told0
      /\ to.profile \in Known => to.caps = CapsOf[to.profile]
      /\ to.profile = NoProfile => to.caps = NoCaps
      /\ to.caps \notin Partial
  BY <1>t, ToldFacts
<1>1. CASE UpToDate(to) /\ agent' = [agent EXCEPT !.profile = to.profile, !.caps = to.caps]
           /\ UNCHANGED <<clock, excused>>
  <2>1. agent'.profile = to.profile /\ agent'.caps = to.caps /\ agent'.applied = agent.applied
    BY <1>1, <1>t
  <2>2. CapsKnown'
    BY <2>1, <1>f DEF CapsKnown, PowerInv, Known
  <2>3. to.caps = agent.applied.caps
    BY <1>1 DEF UpToDate, PowerInv, CapsKnown, Nothing
  <2>4. guard = "nominal" /\ ~excused => Wanted' = Wanted
    BY <1>1, <2>1, <2>3 DEF PowerInv, OnCourse, Wanted
  <2>5. guard = "derated" => Wanted' = Wanted
    BY DEF Wanted
  <2>6. OnCourse'
    BY <1>1, <2>1, <2>3, <2>4, <2>5, <1>t DEF PowerInv, OnCourse
  <2>7. agent' \in [profile : Profile \cup {NoProfile}, caps : Cap \cup {NoCaps}, applied : Told0]
    BY <1>1, <1>t, <1>f DEF Told0
  <2> QED
    BY <1>1, <1>t, <2>2, <2>6, <2>7
<1>2. CASE ~UpToDate(to) /\ Applies(to)
  BY <1>2, <1>f, AppliesKeeps
<1> QED
  BY <1>1, <1>2 DEF Heard

----------------------------------------------------------------------------
(* The steps.                                                              *)

JobType ==
  /\ job \in (Cap \ {Open}) \cup {NoCaps} /\ timed \in BOOLEAN /\ (job = NoCaps => ~timed)
  /\ procs \subseteq Cap \ {Open}

LEMMA CommandType ==
  ASSUME TypeOK, NEW caps \in Cap, Command(caps)
  PROVE  JobType'
<1>1. CASE Refused(caps)
  BY <1>1 DEF Command, JobType, TypeOK, jobVars
<1>2. CASE ~Refused(caps)
  <2>1. job' = caps /\ timed' = TRUE /\ procs' = procs \cup {caps} /\ caps # Open
    BY <1>2 DEF Command, Dispatch, Refused
  <2>2. caps # NoCaps
    BY PowerProfiles
  <2> QED
    BY <2>1, <2>2 DEF JobType, TypeOK
<1> QED
  BY <1>1, <1>2

LEMMA EndRecordType ==
  ASSUME EndRecord
  PROVE  job' \in (Cap \ {Open}) \cup {NoCaps} /\ timed' \in BOOLEAN /\ (job' = NoCaps => ~timed')
BY DEF EndRecord

LEMMA DerateKeeps ==
  ASSUME PowerInv, guard = "nominal", Derate, UNCHANGED <<temp, wishVars, online, nodeVars>>,
         calm' \in 0 .. Hold
  PROVE  PowerInv'
<1>1. CapsOf[Quiet] \in Cap \ {Open}
  BY PowerProfiles
<1>2. TypeOK'
  <2>1. JobType' /\ excused' \in BOOLEAN
    BY <1>1, CommandType DEF PowerInv, Derate, Refused, Overtaken
  <2> QED
    BY <2>1, PowerBounds DEF PowerInv, TypeOK, JobType, Derate, NotBelow, wishVars, nodeVars
<1>3. OnCourse'
  <2>1. SUFFICES ASSUME ~excused' PROVE OnCourse'
    BY DEF OnCourse
  <2>2. ~Refused(CapsOf[Quiet]) /\ procs = {}
    BY <2>1 DEF Derate, Overtaken
  <2>3. procs' = {CapsOf[Quiet]} /\ guard' = "derated" /\ Wanted' = CapsOf[Quiet]
    BY <2>2 DEF Derate, Command, Dispatch, Wanted
  <2> QED
    BY <2>3 DEF OnCourse
<1>4. CapsKnown' /\ CountBehind'
  BY DEF PowerInv, CapsKnown, CountBehind, Derate, nodeVars
<1> QED
  BY <1>2, <1>3, <1>4 DEF PowerInv

LEMMA RecoverKeeps ==
  ASSUME PowerInv, guard = "derated", Recover, UNCHANGED <<temp, wishVars, online, nodeVars>>,
         calm' \in 0 .. Hold
  PROVE  PowerInv'
<1>1. manual \in Known /\ CapsOf[manual] \in Cap
  BY PowerProfiles DEF PowerInv, TypeOK, Known
<1>2. TypeOK'
  <2>1. JobType' /\ excused' \in BOOLEAN
    BY <1>1, CommandType DEF PowerInv, Recover, Refused, Overtaken
  <2> QED
    BY <2>1, PowerBounds DEF PowerInv, TypeOK, JobType, Recover, NotBelow, wishVars, nodeVars
<1>3. OnCourse'
  <2>1. SUFFICES ASSUME ~excused' PROVE OnCourse'
    BY DEF OnCourse
  <2>2. /\ ~Refused(CapsOf[manual]) /\ procs = {} /\ manual = desired
        /\ desired = agent.profile /\ agent.applied = Current
    BY <2>1 DEF Recover, Overtaken
  <2>3. agent.caps = CapsOf[manual] /\ agent.applied.caps = agent.caps
    BY <1>1, <2>2 DEF PowerInv, CapsKnown, Current
  <2>4. Wanted' = CapsOf[manual]
    BY <1>1, <2>3, PowerProfiles DEF Wanted, Recover, Setting, nodeVars
  <2>5. procs' = {CapsOf[manual]}
    BY <2>2 DEF Recover, Command, Dispatch
  <2> QED
    BY <2>3, <2>4, <2>5 DEF OnCourse, nodeVars
<1>4. CapsKnown' /\ CountBehind'
  BY DEF PowerInv, CapsKnown, CountBehind, Recover, nodeVars
<1> QED
  BY <1>2, <1>3, <1>4 DEF PowerInv

LEMMA ThermalTickKeeps ==
  ASSUME PowerInv, ThermalTick
  PROVE  PowerInv'
<1>t. calm \in 0 .. Hold /\ below \in 0 .. NotBelow /\ Hold \in Nat /\ calm' \in 0 .. Hold
  BY PowerBounds DEF PowerInv, TypeOK, ThermalTick
<1>1. CASE guard = "nominal" /\ Derate
  BY <1>1, <1>t, DerateKeeps DEF ThermalTick
<1>2. CASE guard = "derated" /\ Recover
  BY <1>2, <1>t, RecoverKeeps DEF ThermalTick
<1>3. CASE UNCHANGED guard /\ Quietly
  <2>1. guard = "nominal" => below' = NotBelow
    BY <1>3 DEF ThermalTick, CoolDown, Derate, Recover, PowerInv, TypeOK
  <2>2. \/ below' = below /\ calm' = calm
        \/ below' \in {0, NotBelow}
    BY <1>3, <2>1 DEF ThermalTick, CoolDown, Derate, Recover
  <2>3. CountBehind'
    BY <2>1, <2>2, <1>t DEF CountBehind, PowerInv, TypeOK, NotBelow
  <2>4. TypeOK'
    BY <1>3, <1>t, <2>1, <2>2 DEF PowerInv, TypeOK, ThermalTick, Quietly, NotBelow, wishVars, nodeVars, jobVars, bounds
  <2>5. OnCourse' /\ CapsKnown'
    BY <1>3 DEF PowerInv, OnCourse, CapsKnown, Wanted, ThermalTick, Quietly, nodeVars, jobVars
  <2> QED
    BY <2>3, <2>4, <2>5 DEF PowerInv
<1> QED
  BY <1>1, <1>2, <1>3 DEF ThermalTick, CoolDown

LEMMA ElapseKeeps ==
  ASSUME PowerInv, Elapse
  PROVE  PowerInv'
<1>1. CountBehind' /\ TypeOK'
  BY PowerBounds DEF PowerInv, CountBehind, TypeOK, Elapse, NotBelow, wishVars, nodeVars, jobVars, bounds
<1>2. OnCourse' /\ CapsKnown'
  BY DEF PowerInv, OnCourse, CapsKnown, Wanted, Elapse, nodeVars, jobVars
<1> QED
  BY <1>1, <1>2 DEF PowerInv

\* Readings, the operator, the schedules and the link leave clocks, processes and
\* guard alone.
LEMMA OthersKeep ==
  ASSUME PowerInv,
         \/ \E t \in {"hot", "warm", "cool", "none"} : Metrics(t)
         \/ \E p \in Profile : Put(p)
         \/ \E p \in Scheduled \cup {NoProfile} : WindowMoves(p)
         \/ ScheduleTick
  PROVE  PowerInv'
<1>1. UNCHANGED <<guardVars, online, jobVars, nodeVars, excused>>
  BY DEF Metrics, Put, WindowMoves, ScheduleTick
<1>2. TypeOK'
  BY <1>1, PowerProfiles
     DEF PowerInv, TypeOK, Metrics, Put, WindowMoves, ScheduleTick, Effective, Known,
         guardVars, jobVars, nodeVars, wishVars
<1>3. CountBehind' /\ OnCourse' /\ CapsKnown'
  BY <1>1 DEF PowerInv, CountBehind, OnCourse, CapsKnown, Wanted, guardVars, jobVars, nodeVars
<1> QED
  BY <1>2, <1>3 DEF PowerInv

LEMMA FramesKeep ==
  ASSUME PowerInv, ConfigUpdate \/ Connect
  PROVE  PowerInv'
<1>1. UNCHANGED <<temp, guardVars, wishVars, jobVars, starting>> /\ Heard
      /\ online' \in BOOLEAN /\ ~starting
  BY DEF ConfigUpdate, Connect, PowerInv, TypeOK
<1>2. UNCHANGED <<guard, procs>>
  BY <1>1 DEF guardVars, jobVars
<1>3. /\ agent' \in [profile : Profile \cup {NoProfile}, caps : Cap \cup {NoCaps}, applied : Told0]
      /\ clock' \in Cap /\ excused' \in BOOLEAN /\ CapsKnown' /\ OnCourse'
  BY <1>1, <1>2, HeardKeeps
<1>4. TypeOK' /\ CountBehind'
  BY <1>1, <1>3 DEF PowerInv, TypeOK, CountBehind, Told0, guardVars, wishVars, jobVars
<1> QED
  BY <1>3, <1>4 DEF PowerInv

LEMMA BootTaskKeeps ==
  ASSUME PowerInv, BootTask
  PROVE  PowerInv'
<1>1. UNCHANGED <<temp, guardVars, wishVars, online, jobVars>> /\ starting' = FALSE /\ UNCHANGED <<guard, procs>>
  BY DEF BootTask, guardVars, jobVars
<1>2. CASE UNCHANGED <<agent, clock, excused>>
  <2>u. agent' = agent /\ clock' = clock /\ excused' = excused
    BY <1>2
  <2>1. TypeOK' /\ CountBehind'
    <3>1. /\ temp' = temp /\ guard' = guard /\ below' = below /\ calm' = calm
          /\ manual' = manual /\ window' = window /\ desired' = desired
          /\ online' = online /\ job' = job /\ timed' = timed /\ procs' = procs /\ starting' = FALSE
      BY <1>1 DEF guardVars, wishVars, jobVars
    <3>2. TypeOK /\ CountBehind
      BY DEF PowerInv
    <3>3. CountBehind'
      BY <3>1, <3>2 DEF CountBehind, NotBelow
    <3>4. NotBelow' = NotBelow /\ Known' = Known
      BY DEF NotBelow, Known
    <3>5. starting' \in BOOLEAN /\ online' \in BOOLEAN /\ (online' => ~starting')
      BY <3>1, <3>2, Zenon DEF TypeOK
    <3>6. TypeOK'
      BY <2>u, <3>1, <3>2, <3>4, <3>5 DEF TypeOK
    <3> QED
      BY <3>3, <3>6
  <2>2. OnCourse' /\ CapsKnown'
    BY <1>1, <1>2 DEF PowerInv, OnCourse, CapsKnown, Wanted, guardVars, jobVars
  <2> QED
    BY <2>1, <2>2 DEF PowerInv
<1>3. CASE Applies(Current)
  <2>1. /\ Current \in Told0
        /\ Current.profile \in Known => Current.caps = CapsOf[Current.profile]
        /\ Current.profile = NoProfile => Current.caps = NoCaps
        /\ Current.caps \notin Partial
    BY DEF PowerInv, TypeOK, CapsKnown, Current, Told0
  <2>2. /\ agent' \in [profile : Profile \cup {NoProfile}, caps : Cap \cup {NoCaps}, applied : Told0]
        /\ clock' \in Cap /\ excused' \in BOOLEAN /\ CapsKnown' /\ OnCourse'
    BY <1>1, <1>3, <2>1, AppliesKeeps
  <2>3. TypeOK' /\ CountBehind'
    BY <1>1, <2>2 DEF PowerInv, TypeOK, CountBehind, Told0, guardVars, wishVars, jobVars
  <2> QED
    BY <2>2, <2>3 DEF PowerInv
<1> QED
  BY <1>2, <1>3 DEF BootTask

\* What the guard or the agent's profile asks for names both domains.
LEMMA WantedWhole ==
  ASSUME PowerInv
  PROVE  Wanted \notin Partial
BY PowerProfiles DEF PowerInv, CapsKnown, Wanted, Setting, Known

\* A job of the operator's and a cancelled one are excused.
LEMMA OperatorKeeps ==
  ASSUME PowerInv,
         \/ \E c \in Cap \ {Open}, timer \in BOOLEAN : OperatorApplies(c, timer)
         \/ CancelJob
  PROVE  PowerInv'
<1>1. UNCHANGED <<temp, guardVars, wishVars, online, nodeVars>> /\ excused' = TRUE
  BY DEF OperatorApplies, CancelJob
<1>2. /\ job' \in (Cap \ {Open}) \cup {NoCaps} /\ timed' \in BOOLEAN /\ (job' = NoCaps => ~timed')
      /\ procs' \subseteq Cap \ {Open}
  BY PowerProfiles DEF PowerInv, TypeOK, OperatorApplies, CancelJob, Dispatch, EndRecord
<1>3. TypeOK'
  BY <1>1, <1>2 DEF PowerInv, TypeOK, guardVars, wishVars, nodeVars
<1>4. OnCourse' /\ CountBehind' /\ CapsKnown'
  BY <1>1 DEF PowerInv, OnCourse, CountBehind, CapsKnown, guardVars, nodeVars
<1> QED
  BY <1>3, <1>4 DEF PowerInv

LEMMA ProcExitKeeps ==
  ASSUME PowerInv, NEW c \in procs, NEW ok \in BOOLEAN, ProcExit(c, ok)
  PROVE  PowerInv'
<1>1. c \in Cap \ {Open} /\ clock' \in Cap
  BY DEF PowerInv, TypeOK, ProcExit
<1>2. TypeOK' /\ CountBehind' /\ CapsKnown'
  <2>1. job' \in (Cap \ {Open}) \cup {NoCaps} /\ timed' \in BOOLEAN /\ (job' = NoCaps => ~timed')
    <3>1. CASE EndRecord
      BY <3>1, EndRecordType
    <3>2. CASE UNCHANGED <<job, timed>>
      BY <3>2 DEF PowerInv, TypeOK
    <3> QED
      BY <3>1, <3>2 DEF ProcExit
  <2>2. procs' \subseteq Cap \ {Open} /\ excused' \in BOOLEAN
    BY DEF PowerInv, TypeOK, ProcExit
  <2>3. UNCHANGED <<temp, guardVars, wishVars, online, agent, starting>>
    BY DEF ProcExit
  <2>4. TypeOK'
    BY <1>1, <2>1, <2>2, <2>3 DEF PowerInv, TypeOK, guardVars, wishVars
  <2> QED
    BY <2>3, <2>4 DEF PowerInv, CountBehind, CapsKnown, guardVars
<1>3. OnCourse'
  <2>1. SUFFICES ASSUME ~excused' PROVE OnCourse'
    BY DEF OnCourse
  <2>2. ~excused /\ ok /\ c = Wanted
    BY <2>1 DEF ProcExit, PowerInv, OnCourse
  <2>3. Wanted' = Wanted /\ c \notin Partial
    BY <2>2, <1>1, WantedWhole DEF ProcExit, Wanted, guardVars
  <2> QED
    BY <2>2, <2>3 DEF PowerInv, OnCourse, ProcExit, guardVars
<1> QED
  BY <1>2, <1>3 DEF PowerInv

LEMMA FaultsKeep ==
  ASSUME PowerInv, JobEndsEarly \/ Disconnect \/ (\E boot \in BOOLEAN : AgentRestart(boot)) \/ ServerRestart
  PROVE  PowerInv'
<1>1. UNCHANGED <<guardVars, wishVars, agent>>
  BY DEF JobEndsEarly, Disconnect, AgentRestart, ServerRestart, nodeVars
<1>2. ~excused' => ~excused /\ procs' = procs /\ clock' = clock
  <2>1. CASE JobEndsEarly
    BY <2>1 DEF JobEndsEarly
  <2>2. CASE Disconnect
    BY <2>2 DEF Disconnect, nodeVars
  <2>3. CASE \E boot \in BOOLEAN : AgentRestart(boot)
    BY <2>3 DEF AgentRestart
  <2>4. CASE ServerRestart
    BY <2>4 DEF ServerRestart, nodeVars
  <2> QED
    BY <2>1, <2>2, <2>3, <2>4
<1>3. /\ clock' \in Cap /\ excused' \in BOOLEAN /\ procs' \subseteq Cap \ {Open}
      /\ job' \in (Cap \ {Open}) \cup {NoCaps} /\ timed' \in BOOLEAN /\ (job' = NoCaps => ~timed')
      /\ online' \in BOOLEAN /\ starting' \in BOOLEAN /\ (online' => ~starting') /\ temp' \in {"hot", "warm", "cool", "none"}
  <2>1. CASE JobEndsEarly
    BY <2>1, EndRecordType DEF JobEndsEarly, PowerInv, TypeOK, nodeVars
  <2>2. CASE Disconnect
    BY <2>2 DEF Disconnect, PowerInv, TypeOK, nodeVars
  <2>3. CASE \E boot \in BOOLEAN : AgentRestart(boot)
    <3>1. /\ online' = FALSE /\ starting' = TRUE /\ procs' = {} /\ excused' = TRUE
          /\ job' = job /\ timed' = timed /\ temp' = temp /\ clock' \in {Open, clock}
      BY <2>3 DEF AgentRestart
    <3> QED
      BY <3>1, PowerProfiles DEF PowerInv, TypeOK
  <2>4. CASE ServerRestart
    <3>1. EndRecord /\ online' = FALSE /\ temp' = "none" /\ procs' = procs /\ clock' = clock /\ starting' = starting
      BY <2>4 DEF ServerRestart, nodeVars
    <3>2. excused' \in BOOLEAN
      BY <2>4, Zenon DEF ServerRestart
    <3> QED
      BY <3>1, <3>2, EndRecordType DEF PowerInv, TypeOK
  <2> QED
    BY <2>1, <2>2, <2>3, <2>4
<1>4. TypeOK'
  BY <1>1, <1>3 DEF PowerInv, TypeOK, guardVars, wishVars
<1>5. OnCourse' /\ CountBehind' /\ CapsKnown'
  <2>1. Wanted' = Wanted /\ agent' = agent /\ guard' = guard
    BY <1>1 DEF Wanted, guardVars
  <2>2. OnCourse'
    BY <1>2, <2>1 DEF PowerInv, OnCourse
  <2> QED
    BY <1>1, <2>1, <2>2 DEF PowerInv, CountBehind, CapsKnown, guardVars
<1> QED
  BY <1>4, <1>5 DEF PowerInv

\* The inductive invariant.
THEOREM PowerInvariance == Spec => []PowerInv
<1>1. Init => PowerInv
  BY PowerInit
<1>2. PowerInv /\ [Next]_vars => PowerInv'
  <2> SUFFICES ASSUME PowerInv, [Next]_vars PROVE PowerInv'
    OBVIOUS
  <2>1. CASE UNCHANGED vars
    BY <2>1 DEF PowerInv, TypeOK, CountBehind, CapsKnown, OnCourse, Wanted,
                vars, guardVars, wishVars, jobVars, nodeVars
  <2>2. CASE Next
    BY <2>2, ThermalTickKeeps, ElapseKeeps, OthersKeep, OperatorKeeps, FramesKeep, BootTaskKeeps, ProcExitKeeps, FaultsKeep DEF Next
  <2> QED
    BY <2>1, <2>2
<1> QED
  BY <1>1, <1>2, PTL DEF Spec

\* Type correctness of guard, profiles, jobs and the node.
THEOREM PowerTypeCorrect == Spec => []TypeOK
<1>1. PowerInv => TypeOK
  BY DEF PowerInv
<1> QED
  BY <1>1, PowerInvariance, PTL

\* A wrong clock always has one of the listed reasons.
THEOREM ClockIsExplained == Spec => []ClockExplained
<1>1. PowerInv => ClockExplained
  BY DEF PowerInv, OnCourse, ClockExplained, Wanted
<1> QED
  BY <1>1, PowerInvariance, PTL

\* The guard lets go only when it has seen nothing but cool readings for the hold.
THEOREM RecoveryIsHeld == Spec => RecoversAfterHold
<1>1. PowerInv /\ [Next]_vars => [(guard = "derated" /\ guard' = "nominal") => calm >= Hold]_vars
  <2> SUFFICES ASSUME PowerInv, Next, guard = "derated", guard' = "nominal" PROVE calm >= Hold
    BY DEF vars
  <2>1. ThermalTick /\ CoolDown /\ Recover
    BY DEF Next, ThermalTick, Elapse, Metrics, Put, WindowMoves, ScheduleTick, ConfigUpdate, Connect, BootTask,
           OperatorApplies, CancelJob, ProcExit, JobEndsEarly, Disconnect, AgentRestart, ServerRestart, Derate, CoolDown, guardVars
  <2>2. below = Hold \/ Hold = 0
    BY <2>1 DEF CoolDown, Recover
  <2> QED
    BY <2>2, PowerBounds DEF PowerInv, TypeOK, CountBehind, NotBelow
<1> QED
  BY <1>1, PowerInvariance, PTL DEF Spec, RecoversAfterHold
=============================================================================
