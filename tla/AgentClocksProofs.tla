------------------------- MODULE AgentClocksProofs -------------------------
(***************************************************************************)
(* Proofs about AgentClocks for any profiles, caps, queue and number of    *)
(* boots and failed writes.  Two facts carry everything: the last task of  *)
(* a living chain is the last frame, and at every stage the CPU's ceiling  *)
(* is one of the two the state file knows of, or the one of a boot.  Around *)
(* it, AgentDaemon's handlers wait in step with the tasks of the chain.    *)
(***************************************************************************)
EXTENDS AgentDaemon, SequenceTheorems, TLAPS

Pushable == Profile \cup {NoProfile}
Wish == [profile : Pushable, caps : Cap \cup {NoCaps}]

FileType ==
  /\ file \in [profile : Pushable, caps : Cap \cup {NoCaps}, applied : Wish]
  /\ gpu \in Cap /\ cpu \in Cap

\* Frames come after the boot task, which is alone.
ChainType ==
  /\ stage \in {"queued", "reconcile", "record"}
  /\ chain = << >> => stage = "queued"
  /\ dialed \in BOOLEAN /\ broken \in BOOLEAN /\ reapplyFailed \in BOOLEAN
  /\ pushed \in Pushable \cup {NoFrame}
  /\ dialed => chain \in Seq(Pushable)
  /\ ~dialed => chain \in {<<BootTask>>, << >>} /\ pushed = NoFrame /\ stage # "reconcile"
  /\ broken => chain = << >> /\ dialed

\* An uncapped state is recorded without caps.
Uncapped ==
  /\ file.profile = NoProfile => file.caps = NoCaps
  /\ file.applied.profile = NoProfile => file.applied.caps = NoCaps

\* The last frame is the last task, or the file's.
LastTask ==
  /\ dialed /\ chain # << >> => pushed = chain[Len(chain)]
  /\ dialed /\ stage # "queued" => file.profile = Head(chain)
  /\ LastFrameWins

\* Where the CPU's ceiling comes from.
Ceiling ==
  /\ stage = "record" => cpu = Setting(file.caps)
  /\ ~reapplyFailed => cpu \in {Open, Setting(file.applied.caps), Setting(file.caps)}
  /\ ~reapplyFailed /\ dialed /\ ~broken /\ stage # "record" => cpu = Setting(file.applied.caps)

ClocksInv == FileType /\ ChainType /\ Uncapped /\ LastTask /\ Ceiling

LEMMA SettingFacts == ASSUME NEW c \in Cap \cup {NoCaps} PROVE Setting(c) \in Cap
BY ProfileAssumption DEF Setting

LEMMA PushedFacts ==
  ASSUME NEW p \in Pushable
  PROVE  Pushed(p) \in Cap \cup {NoCaps} /\ (p = NoProfile => Pushed(p) = NoCaps)
BY CapsAssumption DEF Pushed, Pushable

\* What is left when the first task is over.
LEMMA TailFacts ==
  ASSUME ChainType, chain # << >>, dialed
  PROVE  /\ Tail(chain) \in Seq(Pushable) /\ Head(chain) \in Pushable /\ ~Booting
         /\ Tail(chain) # << >> => Tail(chain)[Len(Tail(chain))] = chain[Len(chain)]
         /\ Tail(chain) = << >> => chain[Len(chain)] = Head(chain)
<1>1. chain \in Seq(Pushable) /\ Len(chain) \in Nat \ {0}
  BY DEF ChainType
<1>2. Tail(chain) \in Seq(Pushable) /\ Len(Tail(chain)) = Len(chain) - 1 /\ Head(chain) \in Pushable
  BY <1>1
<1>3. \A i \in 1 .. Len(Tail(chain)) : Tail(chain)[i] = chain[i + 1]
  BY <1>1
<1>4. Tail(chain) # << >> => Tail(chain)[Len(Tail(chain))] = chain[Len(chain)]
  BY <1>1, <1>2, <1>3
<1>5. Tail(chain) = << >> => chain[Len(chain)] = Head(chain)
  <2> SUFFICES ASSUME Tail(chain) = << >> PROVE chain[Len(chain)] = Head(chain)
    OBVIOUS
  <2>1. Len(Tail(chain)) = 0
    BY Zenon, EmptySeq DEF Pushable
  <2>2. Len(chain) - 1 = 0
    BY <1>2, <2>1
  <2>3. Len(chain) = 1
    BY <1>1, <2>2
  <2> QED
    BY <1>1, <2>3
<1> QED
  BY <1>2, <1>4, <1>5, ProfileAssumption DEF Booting, Pushable

LEMMA BootFacts ==
  ASSUME ChainType, chain # << >>, ~dialed
  PROVE  Booting /\ Tail(chain) = << >> /\ ~broken /\ pushed = NoFrame
<1>1. chain = <<BootTask>> /\ ~broken /\ pushed = NoFrame
  BY DEF ChainType
<1>2. Head(<<BootTask>>) = BootTask /\ Tail(<<BootTask>>) = << >>
  OBVIOUS
<1> QED
  BY <1>1, <1>2 DEF Booting

LEMMA ClocksInit == Init => ClocksInv
<1> SUFFICES ASSUME Init PROVE ClocksInv
  OBVIOUS
<1>1. FileType
  BY ProfileAssumption DEF Init, FileType, Pushable, Wish, None
<1>2. Uncapped /\ LastTask /\ Ceiling
  BY DEF Init, Uncapped, LastTask, LastFrameWins, Ceiling, None, Setting
<1>3. chain # << >> /\ ChainType
  BY DEF Init, ChainType
<1> QED
  BY <1>1, <1>2, <1>3 DEF ClocksInv

LEMMA FrameInv ==
  ASSUME ClocksInv, NEW p \in Pushable, Frame(p)
  PROVE  ClocksInv'
<1>1. dialed /\ pushed' = p /\ chain' = (IF broken THEN chain ELSE Append(chain, p))
      /\ UNCHANGED <<file, gpu, cpu, stage, broken, dialed, reapplyFailed>>
  BY DEF Frame, fileVars
<1>2. chain \in Seq(Pushable)
  BY <1>1 DEF ClocksInv, ChainType
<1>3. /\ Append(chain, p) \in Seq(Pushable) /\ Append(chain, p) # << >>
      /\ Append(chain, p)[Len(Append(chain, p))] = p
      /\ chain # << >> => Head(Append(chain, p)) = Head(chain)
  <2>1. /\ Append(chain, p) \in Seq(Pushable) /\ Len(Append(chain, p)) = Len(chain) + 1
        /\ Append(chain, p)[Len(chain) + 1] = p /\ Len(chain) \in Nat
    BY <1>2
  <2>2. Append(chain, p) # << >>
    BY <2>1
  <2>3. chain # << >> => Head(Append(chain, p)) = Head(chain)
    BY <1>2, <2>1
  <2> QED
    BY <2>1, <2>2, <2>3
<1>4. FileType' /\ Uncapped' /\ Ceiling'
  BY <1>1 DEF ClocksInv, FileType, Uncapped, Ceiling
<1>5. ChainType'
  BY <1>1, <1>3 DEF ClocksInv, ChainType
<1>6. LastTask'
  BY <1>1, <1>3 DEF ClocksInv, ChainType, LastTask, LastFrameWins
<1> QED
  BY <1>4, <1>5, <1>6 DEF ClocksInv

\* A failed write of the state file.
LEMMA WriteFailsInv ==
  ASSUME ClocksInv, chain # << >>, WriteFails,
         UNCHANGED <<file, gpu, cpu, pushed, reapplyFailed>>
  PROVE  ClocksInv'
<1>1. stage' = "queued" /\ dialed' = dialed /\ chain' = << >>
      /\ broken' = (dialed \/ broken)
  BY TailFacts, BootFacts DEF ClocksInv, ChainType, WriteFails
<1>2. FileType' /\ Uncapped' /\ ChainType'
  BY <1>1 DEF ClocksInv, FileType, Uncapped, ChainType
<1>3. LastTask' /\ Ceiling'
  BY <1>1 DEF ClocksInv, ChainType, LastTask, LastFrameWins, Ceiling
<1> QED
  BY <1>2, <1>3 DEF ClocksInv

LEMMA SaveDesiredInv ==
  ASSUME ClocksInv, SaveDesired
  PROVE  ClocksInv'
<1>1. chain # << >> /\ ~Booting /\ stage = "queued"
      /\ UNCHANGED <<gpu, cpu, pushed, reapplyFailed>>
  BY DEF SaveDesired
<1>2. dialed /\ ~broken
  BY <1>1, BootFacts DEF ClocksInv, ChainType
<1>3. CASE WriteFails /\ UNCHANGED file
  BY <1>1, <1>3, WriteFailsInv
<1>4. CASE /\ stage' = "reconcile" /\ UNCHANGED <<chain, broken, dialed, writeErrors>>
           /\ file' = [file EXCEPT
                !.profile = Head(chain),
                !.caps = IF Pushed(Head(chain)) # NoCaps THEN Pushed(Head(chain))
                         ELSE IF Head(chain) # NoProfile THEN @ ELSE NoCaps]
  <2>1. Head(chain) \in Pushable
    BY <1>1, <1>2, TailFacts DEF ClocksInv
  <2>2. Pushed(Head(chain)) \in Cap \cup {NoCaps}
        /\ (Head(chain) = NoProfile => Pushed(Head(chain)) = NoCaps)
    BY <2>1, PushedFacts
  <2>3. FileType' /\ Uncapped'
    BY <1>1, <1>4, <2>1, <2>2 DEF ClocksInv, FileType, Uncapped, Wish
  <2>4. ChainType'
    BY <1>1, <1>2, <1>4 DEF ClocksInv, ChainType
  <2>5. file'.profile = Head(chain) /\ file'.applied = file.applied
    BY <1>4 DEF ClocksInv, FileType
  <2>6. LastTask'
    BY <1>1, <1>2, <1>4, <2>5 DEF ClocksInv, LastTask, LastFrameWins
  <2>7. Ceiling'
    BY <1>1, <1>2, <1>4, <2>5 DEF ClocksInv, Ceiling, Setting
  <2> QED
    BY <2>3, <2>4, <2>6, <2>7 DEF ClocksInv
<1> QED
  BY <1>3, <1>4 DEF SaveDesired

\* The first task is over, with the ceiling as the file records it.
LEMMA TaskDoneInv ==
  ASSUME ClocksInv, chain # << >>, TaskDone, pushed' = pushed,
         FileType', Uncapped', file'.profile = file.profile, reapplyFailed' \in BOOLEAN,
         dialed => file.profile = Head(chain),
         ~reapplyFailed' => cpu' = Setting(file'.applied.caps)
  PROVE  ClocksInv'
<1>1. chain' = Tail(chain) /\ stage' = "queued" /\ broken' = broken
      /\ dialed' = (dialed \/ Booting)
  BY DEF TaskDone
<1>2. ~broken /\ dialed'
  BY <1>1, BootFacts DEF ClocksInv, ChainType
<1>3. CASE dialed
  <2>1. /\ Tail(chain) \in Seq(Pushable) /\ Head(chain) \in Pushable
        /\ Tail(chain) # << >> => Tail(chain)[Len(Tail(chain))] = chain[Len(chain)]
        /\ Tail(chain) = << >> => chain[Len(chain)] = Head(chain)
    BY <1>3, TailFacts DEF ClocksInv
  <2>2. ChainType'
    BY <1>1, <1>2, <1>3, <2>1 DEF ClocksInv, ChainType
  <2>3. LastTask'
    BY <1>1, <1>2, <1>3, <2>1 DEF ClocksInv, LastTask, LastFrameWins
  <2> QED
    BY <1>1, <1>2, <2>2, <2>3 DEF ClocksInv, Ceiling
<1>4. CASE ~dialed
  <2>1. Tail(chain) = << >> /\ pushed = NoFrame
    BY <1>4, BootFacts DEF ClocksInv
  <2>2. ChainType' /\ LastTask'
    <3>1. chain' = << >> /\ << >> \in Seq(Pushable) /\ pushed' = NoFrame
      BY <1>1, <2>1
    <3>2. pushed' \in Pushable \cup {NoFrame} /\ dialed' \in BOOLEAN /\ broken' \in BOOLEAN
      BY <1>1, <3>1 DEF ClocksInv, ChainType, Booting
    <3>3. ChainType'
      BY <1>1, <1>2, <3>1, <3>2 DEF ChainType
    <3>4. LastTask'
      BY <1>1, <3>1 DEF LastTask, LastFrameWins
    <3> QED
      BY <3>3, <3>4
  <2> QED
    BY <1>1, <1>2, <2>2 DEF ClocksInv, Ceiling
<1> QED
  BY <1>3, <1>4 DEF ClocksInv, ChainType

\* Whoever is at work on a frame has saved it.
LEMMA WorkingFacts ==
  ASSUME ClocksInv, chain # << >>, Reconciling \/ stage = "record"
  PROVE  /\ dialed => file.profile = Head(chain) /\ stage # "queued" /\ ~Booting
         /\ ~dialed => Booting
         /\ ~broken
<1>1. dialed => ~Booting
  BY TailFacts DEF ClocksInv
<1> QED
  BY <1>1, BootFacts DEF ClocksInv, ChainType, LastTask, Reconciling

LEMMA SkipInv ==
  ASSUME ClocksInv, Skip
  PROVE  ClocksInv'
<1>1. chain # << >> /\ Reconciling /\ UpToDate /\ TaskDone
      /\ UNCHANGED <<file, gpu, cpu, pushed, reapplyFailed>>
  BY DEF Skip, Reconciling, fileVars
<1>2. FileType' /\ Uncapped' /\ reapplyFailed' \in BOOLEAN
  BY <1>1 DEF ClocksInv, FileType, Uncapped, ChainType
<1>3. ~reapplyFailed => cpu = Setting(file.applied.caps)
  <2>1. CASE dialed
    BY <1>1, <2>1, WorkingFacts DEF ClocksInv, Ceiling, Reconciling, ChainType
  <2>2. CASE ~dialed
    <3>1. file.caps = NoCaps /\ file.applied.caps = NoCaps
      BY <1>1, <2>2, BootFacts DEF ClocksInv, Uncapped, UpToDate
    <3> QED
      BY <3>1 DEF ClocksInv, Ceiling, Setting
  <2> QED
    BY <2>1, <2>2
<1> QED
  BY <1>1, <1>2, <1>3, WorkingFacts, TaskDoneInv

LEMMA ApplyInv ==
  ASSUME ClocksInv, NEW gpuOk \in BOOLEAN, NEW cpuOk \in BOOLEAN, Apply(gpuOk, cpuOk)
  PROVE  ClocksInv'
<1>1. /\ chain # << >> /\ Reconciling
      /\ gpu' = (IF gpuOk THEN Setting(file.caps) ELSE gpu)
      /\ cpu' = (IF cpuOk THEN Setting(file.caps) ELSE cpu)
      /\ UNCHANGED <<file, pushed>>
  BY DEF Apply, Reconciling
<1>2. FileType' /\ Uncapped'
  BY <1>1, SettingFacts DEF ClocksInv, FileType, Uncapped
<1>3. CASE cpuOk /\ stage' = "record" /\ reapplyFailed' = FALSE /\ UNCHANGED <<chain, broken, dialed>>
  <2>1. ChainType'
    BY <1>1, <1>3 DEF ClocksInv, ChainType
  <2>2. LastTask'
    BY <1>1, <1>3, WorkingFacts DEF ClocksInv, LastTask, LastFrameWins
  <2>3. Ceiling'
    BY <1>1, <1>3 DEF Ceiling
  <2> QED
    BY <1>2, <2>1, <2>2, <2>3 DEF ClocksInv
<1>4. CASE ~cpuOk /\ TaskDone /\ reapplyFailed' = (reapplyFailed \/ Booting)
  <2>1. ~reapplyFailed' => dialed /\ cpu' = Setting(file'.applied.caps)
    BY <1>1, <1>4, WorkingFacts DEF ClocksInv, ChainType, Ceiling, Reconciling
  <2>2. reapplyFailed' \in BOOLEAN
    BY <1>4 DEF ClocksInv, ChainType, Booting
  <2>3. dialed => file.profile = Head(chain)
    BY <1>1, WorkingFacts
  <2>4. /\ FileType' /\ Uncapped' /\ file'.profile = file.profile /\ pushed' = pushed /\ TaskDone
    BY <1>1, <1>2, <1>4
  <2> QED
    BY <1>1, <2>1, <2>2, <2>3, <2>4, TaskDoneInv
<1> QED
  BY <1>3, <1>4 DEF Apply

LEMMA RecordAppliedInv ==
  ASSUME ClocksInv, RecordApplied
  PROVE  ClocksInv'
<1>1. chain # << >> /\ stage = "record" /\ UNCHANGED <<gpu, cpu, pushed, reapplyFailed>>
  BY DEF RecordApplied
<1>2. CASE WriteFails /\ UNCHANGED file
  BY <1>1, <1>2, WriteFailsInv
<1>3. CASE file' = [file EXCEPT !.applied = Current] /\ TaskDone
  <2>1. /\ file'.profile = file.profile /\ file'.caps = file.caps
        /\ file'.applied = [profile |-> file.profile, caps |-> file.caps]
    BY <1>3 DEF ClocksInv, FileType, Current
  <2>2. FileType'
    BY <1>1, <1>3 DEF ClocksInv, FileType, Current, Wish
  <2>3. Uncapped'
    BY <2>1 DEF ClocksInv, Uncapped
  <2>4. cpu' = Setting(file'.applied.caps)
    BY <1>1, <2>1 DEF ClocksInv, Ceiling, Setting
  <2>5. reapplyFailed' \in BOOLEAN
    BY <1>1 DEF ClocksInv, ChainType
  <2> QED
    BY <1>1, <1>3, <2>1, <2>2, <2>3, <2>4, <2>5, WorkingFacts, TaskDoneInv
<1> QED
  BY <1>2, <1>3 DEF RecordApplied

LEMMA RestartInv ==
  ASSUME ClocksInv, NEW node \in BOOLEAN, Restart(node)
  PROVE  ClocksInv'
<1>1. /\ chain' = <<BootTask>> /\ stage' = "queued" /\ broken' = FALSE /\ dialed' = FALSE
      /\ pushed' = NoFrame /\ UNCHANGED <<file, reapplyFailed>>
      /\ gpu' = (IF node THEN Open ELSE gpu) /\ cpu' = (IF node THEN Open ELSE cpu)
  BY DEF Restart
<1>2. FileType' /\ Uncapped' /\ ChainType' /\ LastTask'
  BY <1>1, ProfileAssumption
     DEF ClocksInv, FileType, Uncapped, ChainType, LastTask, LastFrameWins
<1>3. Ceiling'
  BY <1>1 DEF ClocksInv, ChainType, Ceiling, Setting
<1> QED
  BY <1>2, <1>3 DEF ClocksInv

THEOREM ClocksInvariance == Spec => []ClocksInv
<1>1. ClocksInv /\ [Next]_vars => ClocksInv'
  <2> SUFFICES ASSUME ClocksInv, [Next]_vars
               PROVE  ClocksInv'
    OBVIOUS
  <2>1. ASSUME NEW p \in Profile \cup {NoProfile}, Frame(p) PROVE ClocksInv'
    BY <2>1, FrameInv DEF Pushable
  <2>2. CASE UNCHANGED vars
    BY <2>2 DEF vars, fileVars, taskVars, ClocksInv, FileType, ChainType, Uncapped, LastTask,
                LastFrameWins, Ceiling, Setting
  <2> QED
    BY <2>1, <2>2, SaveDesiredInv, SkipInv, ApplyInv, RecordAppliedInv, RestartInv DEF Next
<1> QED
  BY ClocksInit, <1>1, PTL DEF Spec

\* An older frame never has the last word (the chain of daemon.ts, state file).
THEOREM NewestProfileWins == Spec => []LastFrameWins
<1>1. ClocksInv => LastFrameWins
  BY DEF ClocksInv, LastTask
<1> QED
  BY <1>1, ClocksInvariance, PTL

\* What the state file records as applied is what the CPU runs with.
THEOREM RecordIsTrue == Spec => []CpuAsRecorded
<1>1. ClocksInv => CpuAsRecorded
  BY DEF ClocksInv, ChainType, Ceiling, CpuAsRecorded
<1> QED
  BY <1>1, ClocksInvariance, PTL

----------------------------------------------------------------------------
(* The link and the metric loop.                                           *)

Kind == {"welcome", "config-update"}

\* The handlers wait in step with the tasks of a living chain.
InStep ==
  /\ waiting \in Seq(Kind)
  /\ link \in {"down", "open", "welcomed"} /\ (link # "down" => dialed)
  /\ ~dialed => waiting = <<>>
  /\ dialed /\ ~broken => Len(waiting) = Len(chain)

\* What a welcomed agent lacks, a handler that waits is to bring.
Owed ==
  link = "welcomed" /\ ~broken =>
    /\ waiting = <<>> => loop = pushed
    /\ state = "online" \/ \E i \in DOMAIN waiting : waiting[i] = "welcome"

DaemonInv == InStep /\ Owed

\* Every step of the daemon is one of its clock chain, or none.
THEOREM DaemonRunsTheClocks == DaemonSpec => Spec
<1>1. DaemonInit => Init
  BY DEF DaemonInit
<1>2. [DaemonNext]_daemonVars => [Next]_vars
  <2> SUFFICES ASSUME [DaemonNext]_daemonVars PROVE [Next]_vars
    OBVIOUS
  <2>1. CASE Dial \/ Closed
    BY <2>1 DEF Dial, Closed
  <2>2. CASE \E p \in Profile \cup {NoProfile} : Handle(p)
    BY <2>2 DEF Handle, Next
  <2>3. CASE ChainStep
    BY <2>3 DEF ChainStep, Next
  <2>4. CASE DaemonRestart
    BY <2>4 DEF DaemonRestart, Next
  <2>5. CASE UNCHANGED daemonVars
    BY <2>5 DEF daemonVars
  <2> QED
    BY <2>1, <2>2, <2>3, <2>4, <2>5 DEF DaemonNext
<1> QED
  BY <1>1, <1>2, PTL DEF DaemonSpec, Spec

LEMMA HandleInv ==
  ASSUME ClocksInv, DaemonInv, NEW p \in Pushable, Handle(p)
  PROVE  DaemonInv'
<1>1. /\ dialed /\ pushed' = p /\ UNCHANGED <<dialed, broken>>
      /\ chain' = (IF broken THEN chain ELSE Append(chain, p))
      /\ link' = "welcomed" /\ UNCHANGED <<state, loop>>
  BY DEF Handle, Frame
<1> DEFINE kind == IF link = "open" THEN "welcome" ELSE "config-update"
<1>2. kind \in Kind /\ waiting \in Seq(Kind) /\ chain \in Seq(Pushable)
  BY <1>1 DEF DaemonInv, InStep, Kind, ClocksInv, ChainType
<1>3. CASE broken
  <2>1. waiting' = waiting
    BY <1>3 DEF Handle
  <2> QED
    BY <1>1, <1>3, <2>1 DEF DaemonInv, InStep, Owed
<1>4. CASE ~broken
  <2>1. waiting' = Append(waiting, kind)
    BY <1>4 DEF Handle
  <2>2. /\ waiting' \in Seq(Kind) /\ Len(waiting') = Len(waiting) + 1 /\ Len(chain') = Len(chain) + 1
        /\ DOMAIN waiting' = 1..(Len(waiting) + 1) /\ DOMAIN waiting = 1..Len(waiting)
        /\ Len(waiting) \in Nat
        /\ waiting'[Len(waiting) + 1] = kind
        /\ \A i \in 1..Len(waiting) : waiting'[i] = waiting[i]
    BY <1>1, <1>2, <1>4, <2>1
  <2>3. InStep'
    BY <1>1, <1>4, <2>2 DEF DaemonInv, InStep
  <2>4. waiting' # <<>>
    BY <2>2
  <2>5. state' = "online" \/ \E i \in DOMAIN waiting' : waiting'[i] = "welcome"
    <3>1. CASE link = "open"
      BY <2>2, <3>1
    <3>2. CASE link # "open"
      <4>1. link = "welcomed"
        BY <3>2 DEF Handle, DaemonInv, InStep
      <4>2. state = "online" \/ \E i \in DOMAIN waiting : waiting[i] = "welcome"
        BY <1>4, <4>1 DEF DaemonInv, Owed
      <4> QED
        BY <1>1, <2>2, <4>2
    <3> QED
      BY <3>1, <3>2
  <2> QED
    BY <2>3, <2>4, <2>5 DEF DaemonInv, Owed
<1> QED
  BY <1>3, <1>4

\* What a step of the chain leaves of it.
LEMMA ChainFacts ==
  ASSUME ClocksInv, ChainStep
  PROVE  /\ chain # <<>> /\ pushed' = pushed /\ ~broken
         /\ \/ chain' = chain /\ UNCHANGED <<dialed, broken>>
            \/ chain' = Tail(chain) /\ ~broken' /\ (~Booting => dialed' = dialed)
            \/ chain' = <<>> /\ broken' /\ dialed' = dialed
<1>1. chain # <<>> /\ pushed' = pushed
  BY DEF ChainStep, SaveDesired, Skip, Reconciling, Apply, RecordApplied
<1>2. ~broken /\ dialed \in BOOLEAN
  BY <1>1 DEF ClocksInv, ChainType
<1>3. \/ chain' = chain /\ UNCHANGED <<dialed, broken>>
      \/ TaskDone \/ WriteFails
  BY DEF ChainStep, SaveDesired, Skip, Apply, RecordApplied
<1>4. CASE TaskDone
  BY <1>1, <1>2, <1>4 DEF TaskDone
<1>5. CASE WriteFails
  BY <1>1, <1>2, <1>5 DEF WriteFails
<1> QED
  BY <1>1, <1>2, <1>3, <1>4, <1>5

LEMMA ChainStepInv ==
  ASSUME ClocksInv, ClocksInv', DaemonInv, ChainStep
  PROVE  DaemonInv'
<1>1. /\ chain # <<>> /\ pushed' = pushed /\ ~broken /\ link' = link
      /\ waiting \in Seq(Kind)
  BY ChainFacts DEF ChainStep, Woken, DaemonInv, InStep
<1>2. CASE broken'
  <2>1. waiting' = <<>> /\ dialed'
    BY <1>2 DEF ChainStep, Woken, ClocksInv, ChainType
  <2>2. <<>> \in Seq(Kind)
    OBVIOUS
  <2> QED
    BY <1>1, <1>2, <2>1, <2>2 DEF DaemonInv, InStep, Owed
<1>3. CASE ~broken' /\ chain' = chain
  <2>1. UNCHANGED <<state, waiting, loop>>
    BY <1>3 DEF ChainStep, Woken
  <2>2. dialed' = dialed
    BY <1>1, <1>3, TailFacts, ChainFacts DEF ClocksInv, ChainType
  <2> QED
    BY <1>1, <1>3, <2>1, <2>2 DEF DaemonInv, InStep, Owed
<1>4. CASE ~broken' /\ chain' # chain /\ Booting
  <2>1. UNCHANGED <<state, waiting, loop>>
    BY <1>4 DEF ChainStep, Woken
  <2>2. ~dialed /\ chain' = <<>>
    <3>1. chain' = Tail(chain)
      BY <1>4, ChainFacts
    <3>2. ~dialed /\ chain = <<BootTask>>
      BY <1>1, <1>4, TailFacts DEF ClocksInv, ChainType
    <3> QED
      BY <3>1, <3>2
  <2>3. waiting = <<>> /\ link = "down"
    BY <2>2 DEF DaemonInv, InStep
  <2> QED
    BY <1>1, <2>1, <2>2, <2>3 DEF DaemonInv, InStep, Owed
<1>5. CASE ~broken' /\ chain' # chain /\ ~Booting
  <2>1. chain' = Tail(chain) /\ dialed' = dialed
    BY <1>5, ChainFacts
  <2>2. Resume
    BY <1>5 DEF ChainStep, Woken
  <2>3. dialed /\ Len(waiting) = Len(chain) /\ chain \in Seq(Pushable)
    BY <1>1, <1>5, BootFacts DEF ClocksInv, ChainType, DaemonInv, InStep
  <2>4. /\ waiting' = Tail(waiting) /\ loop' = pushed
        /\ state' = IF Head(waiting) = "welcome" THEN "online" ELSE state
    BY <2>2 DEF Resume
  <2>5. /\ Len(chain) \in Nat \ {0} /\ Len(waiting') = Len(chain')
        /\ waiting' \in Seq(Kind) /\ DOMAIN waiting' = 1..(Len(waiting) - 1)
        /\ DOMAIN waiting = 1..Len(waiting) /\ Head(waiting) = waiting[1]
        /\ \A i \in 1..(Len(waiting) - 1) : waiting'[i] = waiting[i + 1]
    BY <1>1, <2>1, <2>3, <2>4
  <2>6. InStep'
    BY <1>1, <1>5, <2>1, <2>3, <2>5 DEF DaemonInv, InStep
  <2>7. ASSUME link = "welcomed"
        PROVE  state' = "online" \/ \E i \in DOMAIN waiting' : waiting'[i] = "welcome"
    <3>1. state = "online" \/ \E i \in DOMAIN waiting : waiting[i] = "welcome"
      BY <1>1, <2>7 DEF DaemonInv, Owed
    <3>2. CASE state = "online" \/ waiting[1] = "welcome"
      BY <2>4, <2>5, <3>2
    <3>3. ASSUME NEW i \in DOMAIN waiting, waiting[i] = "welcome", i # 1
          PROVE  i - 1 \in DOMAIN waiting' /\ waiting'[i - 1] = "welcome"
      BY <2>3, <2>5, <3>3
    <3> QED
      BY <3>1, <3>2, <3>3
  <2> QED
    BY <1>1, <2>4, <2>6, <2>7 DEF DaemonInv, Owed
<1> QED
  BY <1>2, <1>3, <1>4, <1>5

\* Once the clock tasks are done, a welcomed agent is online and its metric loop runs
\* as last configured, whatever came between (daemon.ts:163-178).
THEOREM LoopFollowsTheConfiguration == DaemonSpec => []ReportsAsConfigured
<1>1. DaemonInit => DaemonInv
  <2>1. <<>> \in Seq(Kind)
    OBVIOUS
  <2> QED
    BY <2>1 DEF DaemonInit, Init, DaemonInv, InStep, Owed
<1>2. ClocksInv /\ ClocksInv' /\ DaemonInv /\ [DaemonNext]_daemonVars => DaemonInv'
  <2> SUFFICES ASSUME ClocksInv, ClocksInv', DaemonInv, [DaemonNext]_daemonVars
               PROVE  DaemonInv'
    OBVIOUS
  <2>1. CASE Dial \/ Closed
    BY <2>1 DEF Dial, Closed, vars, taskVars, DaemonInv, InStep, Owed
  <2>2. CASE \E p \in Profile \cup {NoProfile} : Handle(p)
    BY <2>2, HandleInv DEF Pushable
  <2>3. CASE DaemonRestart
    <3>1. /\ dialed' = FALSE /\ link' = "down" /\ waiting' = <<>>
      BY <2>3 DEF DaemonRestart, Restart
    <3>2. <<>> \in Seq(Kind)
      OBVIOUS
    <3> QED
      BY <3>1, <3>2 DEF DaemonInv, InStep, Owed
  <2>4. CASE UNCHANGED daemonVars
    BY <2>4 DEF daemonVars, vars, taskVars, linkVars, DaemonInv, InStep, Owed
  <2> QED
    BY <2>1, <2>2, <2>3, <2>4, ChainStepInv DEF DaemonNext
<1>3. ClocksInv /\ DaemonInv => ReportsAsConfigured
  <2> SUFFICES ASSUME ClocksInv, DaemonInv, link = "welcomed", ~broken, chain = <<>>
               PROVE  loop = pushed /\ state = "online"
    BY DEF ReportsAsConfigured
  <2>1. Len(waiting) = 0 /\ waiting \in Seq(Kind)
    BY DEF DaemonInv, InStep
  <2>2. waiting = <<>>
    BY <2>1
  <2> QED
    BY <2>2 DEF DaemonInv, Owed
<1> QED
  BY <1>1, <1>2, <1>3, ClocksInvariance, DaemonRunsTheClocks, PTL DEF DaemonSpec
=============================================================================
