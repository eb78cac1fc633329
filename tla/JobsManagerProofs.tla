------------------------- MODULE JobsManagerProofs -------------------------
(***************************************************************************)
(* Proofs about JobsManager for any nodes, kinds, reqIds and ring size.    *)
(* Every property follows from one inductive invariant, IInv: the checked  *)
(* properties plus the fact that kept records and timer handles belong to  *)
(* reqIds already issued -- which is what makes a fresh reqId fresh.       *)
(***************************************************************************)
EXTENDS JobsManager, TLAPS

IssuedKnown == DOMAIN jobs \subseteq issued /\ timers \subseteq issued

IInv ==
  /\ TypeOK
  /\ IssuedKnown
  /\ IndexSound
  /\ SingleFlightIndexed
  /\ LiveTimer
  /\ NotifiedOnce

----------------------------------------------------------------------------
(* The ring.                                                               *)

\* What one push of the ring returns: the new entry is last, the others are
\* the old ones, all of them or all but the first.
LEMMA RingPush ==
  ASSUME NEW q \in Seq(ReqId), NEW r \in ReqId, Len(q) <= MaxJobsPerNode,
         NEW p, p = IF Len(q) = MaxJobsPerNode THEN Append(Tail(q), r) ELSE Append(q, r),
         NEW d, d = IF Len(q) = MaxJobsPerNode THEN 1 ELSE 0
  PROVE  /\ p \in Seq(ReqId)
         /\ Len(p) = Len(q) + 1 - d
         /\ Len(p) \in 1 .. MaxJobsPerNode
         /\ p[Len(p)] = r
         /\ \A i \in 1 .. Len(p) - 1 : i + d \in 1 .. Len(q) /\ p[i] = q[i + d]
<1>1. CASE Len(q) = MaxJobsPerNode
  <2>1. q # <<>>
    BY <1>1, MaxJobsAssumption
  <2>2. /\ Tail(q) \in Seq(ReqId) /\ Len(Tail(q)) = Len(q) - 1
        /\ \A i \in 1 .. Len(q) - 1 : Tail(q)[i] = q[i + 1]
    BY <2>1
  <2> QED
    BY <1>1, <2>2, MaxJobsAssumption
<1>2. CASE Len(q) # MaxJobsPerNode
  BY <1>2, MaxJobsAssumption
<1> QED
  BY <1>1, <1>2

\* The entry a push shifts out, if any, is a kept record of that node.
LEMMA EvictedFacts ==
  ASSUME IInv, NEW n \in Node
  PROVE  \A x \in Evicted(n) :
           /\ x \in DOMAIN jobs /\ ~Running(x) /\ jobs[x].node = n
           /\ x = byNode[n][1] /\ Len(byNode[n]) = MaxJobsPerNode
<1> SUFFICES ASSUME NEW x \in Evicted(n)
             PROVE  /\ x \in DOMAIN jobs /\ ~Running(x) /\ jobs[x].node = n
                    /\ x = byNode[n][1] /\ Len(byNode[n]) = MaxJobsPerNode
  OBVIOUS
<1>1. byNode[n] \in Seq(ReqId)
  BY DEF IInv, TypeOK
<1>2. Len(byNode[n]) = MaxJobsPerNode /\ x = Head(byNode[n]) /\ ~Running(x)
  BY DEF Evicted, Overfull
<1>3. 1 \in 1 .. Len(byNode[n]) /\ Head(byNode[n]) = byNode[n][1]
  BY <1>1, <1>2, MaxJobsAssumption
<1> QED
  BY <1>2, <1>3 DEF IInv, IndexSound
----------------------------------------------------------------------------
(* Adding a record.                                                        *)

\* jobs.set and pushNodeIndex together: what is kept, what is deleted, and that
\* records and rings still agree.
LEMMA AddRecordFacts ==
  ASSUME IInv, NEW n \in Node, NEW k \in Kind \cup {OrphanKind}, NEW r \in ReqId,
         r \notin DOMAIN jobs, NEW st \in Finished \cup {"running"},
         AddRecord(n, k, r, st)
  PROVE  /\ DOMAIN jobs' = (DOMAIN jobs \ Evicted(n)) \cup {r}
         /\ \A x \in DOMAIN jobs' :
              jobs'[x] = IF x = r THEN [node |-> n, kind |-> k, state |-> st] ELSE jobs[x]
         /\ byNode' \in [Node -> Seq(ReqId)]
         /\ IndexSound'
         /\ \A m \in Node : \A x \in Indexed(m)' :
              x \in Indexed(m) \/ (m = n /\ x = r)
<1> DEFINE q == byNode[n]
           p == byNode'[n]
           d == IF Len(q) = MaxJobsPerNode THEN 1 ELSE 0
<1>1. /\ byNode \in [Node -> Seq(ReqId)] /\ IndexSound /\ q \in Seq(ReqId)
      /\ Len(q) <= MaxJobsPerNode
  BY DEF IInv, TypeOK, IndexSound
<1>2. /\ DOMAIN jobs' = (DOMAIN jobs \ Evicted(n)) \cup {r}
      /\ \A x \in DOMAIN jobs' :
           jobs'[x] = IF x = r THEN [node |-> n, kind |-> k, state |-> st] ELSE jobs[x]
  <2>1. Evicted(n) \subseteq DOMAIN jobs
    BY EvictedFacts
  <2> QED
    BY <2>1 DEF AddRecord, PutRecord, Restrict
<1>3. /\ byNode' = [byNode EXCEPT ![n] = p]
      /\ p = IF Len(q) = MaxJobsPerNode THEN Append(Tail(q), r) ELSE Append(q, r)
  BY <1>1 DEF AddRecord, PushIndex, Overfull
<1>4. /\ p \in Seq(ReqId)
      /\ Len(p) = Len(q) + 1 - d
      /\ Len(p) \in 1 .. MaxJobsPerNode
      /\ p[Len(p)] = r
      /\ \A i \in 1 .. Len(p) - 1 : i + d \in 1 .. Len(q) /\ p[i] = q[i + d]
  <2> HIDE DEF p, q
  <2> QED
    BY <1>1, <1>3, RingPush
<1>p. Len(p) \in Nat /\ DOMAIN p = 1 .. Len(p)
  <2>1. p \in Seq(ReqId)
    BY <1>4
  <2> HIDE DEF p
  <2> QED
    BY <2>1
<1>5. byNode' \in [Node -> Seq(ReqId)]
  BY <1>1, <1>3, <1>4
<1>6. \A m \in Node : m # n => byNode'[m] = byNode[m]
  BY <1>1, <1>3
<1>7. \A i \in 1 .. Len(p) : p[i] = r \/ (\E j \in 1 .. Len(q) : p[i] = q[j] /\ j = i + d)
  <2> SUFFICES ASSUME NEW i \in 1 .. Len(p)
               PROVE  p[i] = r \/ (\E j \in 1 .. Len(q) : p[i] = q[j] /\ j = i + d)
    OBVIOUS
  <2>1. CASE i = Len(p)
    BY <2>1, <1>4
  <2>2. CASE i # Len(p)
    <3>1. i \in 1 .. Len(p) - 1
      BY <2>2, <1>4
    <3> QED
      BY <3>1, <1>4
  <2> QED
    BY <2>1, <2>2
<1>8. \A x \in DOMAIN jobs : jobs[x] \in JobRecord
  BY DEF IInv, TypeOK
<1>9. \A m \in Node : \A i \in 1 .. Len(byNode'[m]) :
        byNode'[m][i] \in DOMAIN jobs' /\ jobs'[byNode'[m][i]].node = m
  <2> SUFFICES ASSUME NEW m \in Node, NEW i \in 1 .. Len(byNode'[m])
               PROVE  byNode'[m][i] \in DOMAIN jobs' /\ jobs'[byNode'[m][i]].node = m
    OBVIOUS
  <2>1. CASE m # n
    <3>1. /\ byNode'[m][i] = byNode[m][i] /\ byNode[m][i] \in DOMAIN jobs
          /\ jobs[byNode[m][i]].node = m
      BY <2>1, <1>1, <1>6 DEF IndexSound
    <3>2. byNode[m][i] \notin Evicted(n)
      BY <2>1, <3>1, EvictedFacts
    <3>3. byNode[m][i] # r
      BY <3>1
    <3> QED
      BY <3>1, <3>2, <3>3, <1>2
  <2>2. CASE m = n
    <3>1. CASE p[i] = r
      BY <2>2, <3>1, <1>2
    <3>2. CASE \E j \in 1 .. Len(q) : p[i] = q[j] /\ j = i + d
      <4>1. PICK j \in 1 .. Len(q) : p[i] = q[j] /\ j = i + d
        BY <3>2
      <4>2. q[j] \in DOMAIN jobs /\ jobs[q[j]].node = n
        BY <1>1 DEF IndexSound
      <4>3. q[j] \notin Evicted(n)
        <5> SUFFICES ASSUME q[j] \in Evicted(n) PROVE FALSE
          OBVIOUS
        <5>1. q[j] = q[1] /\ Len(q) = MaxJobsPerNode
          BY EvictedFacts
        <5>2. j = i + 1 /\ 1 \in 1 .. Len(q)
          BY <4>1, <5>1, MaxJobsAssumption
        <5>3. j = 1
          BY <5>1, <5>2, <1>1 DEF IndexSound
        <5>4. i \in Nat /\ i >= 1
          BY <2>2, <1>4
        <5> QED
          BY <5>2, <5>3, <5>4
      <4> QED
        BY <2>2, <4>1, <4>2, <4>3, <1>2
    <3> QED
      BY <2>2, <3>1, <3>2, <1>7
  <2> QED
    BY <2>1, <2>2
<1>10. \A m \in Node : Len(byNode'[m]) <= MaxJobsPerNode
  <2>1. Len(p) <= MaxJobsPerNode
    BY <1>4, MaxJobsAssumption
  <2>2. \A m \in Node : m # n => Len(byNode'[m]) <= MaxJobsPerNode
    BY <1>1, <1>6 DEF IndexSound
  <2> QED
    BY <2>1, <2>2
<1>11. \A m \in Node : \A i, j \in 1 .. Len(byNode'[m]) :
         byNode'[m][i] = byNode'[m][j] => i = j
  <2> SUFFICES ASSUME NEW m \in Node, NEW i \in 1 .. Len(byNode'[m]),
                      NEW j \in 1 .. Len(byNode'[m]), byNode'[m][i] = byNode'[m][j]
               PROVE  i = j
    OBVIOUS
  <2>1. CASE m # n
    BY <2>1, <1>1, <1>6 DEF IndexSound
  <2>2. CASE m = n
    <3>1. \A a \in 1 .. Len(q) : q[a] # r
      BY <1>1 DEF IndexSound
    <3>2. \A a \in 1 .. Len(p) : p[a] = r => a = Len(p)
      <4> SUFFICES ASSUME NEW a \in 1 .. Len(p), p[a] = r, a # Len(p) PROVE FALSE
        OBVIOUS
      <4>1. a \in 1 .. Len(p) - 1
        BY <1>p
      <4> QED
        BY <4>1, <1>4, <3>1
    <3>3. CASE p[i] = r
      BY <2>2, <3>2, <3>3
    <3>4. CASE p[i] # r
      <4>1. PICK a \in 1 .. Len(q) : p[i] = q[a] /\ a = i + d
        BY <2>2, <3>4, <1>7
      <4>2. PICK b \in 1 .. Len(q) : p[j] = q[b] /\ b = j + d
        BY <2>2, <3>4, <1>7
      <4>3. a = b
        BY <2>2, <4>1, <4>2, <1>1 DEF IndexSound
      <4>4. i \in Nat /\ j \in Nat /\ d \in Nat
        BY <2>2, <1>4
      <4> HIDE DEF d
      <4> QED
        BY <4>1, <4>2, <4>3, <4>4
    <3> QED
      BY <3>3, <3>4
  <2> QED
    BY <2>1, <2>2
<1>12. IndexSound'
  BY <1>9, <1>10, <1>11 DEF IndexSound
<1>13. \A m \in Node : \A x \in Indexed(m)' : x \in Indexed(m) \/ (m = n /\ x = r)
  <2> SUFFICES ASSUME NEW m \in Node, NEW x \in Indexed(m)'
               PROVE  x \in Indexed(m) \/ (m = n /\ x = r)
    OBVIOUS
  <2>1. CASE m # n
    BY <2>1, <1>6 DEF Indexed
  <2>2. CASE m = n
    <3>1. PICK i \in DOMAIN p : x = p[i]
      BY <2>2 DEF Indexed, Range
    <3>a. i \in 1 .. Len(p)
      BY <1>p
    <3>2. CASE p[i] = r
      BY <2>2, <3>1, <3>2
    <3>3. CASE \E j \in 1 .. Len(q) : p[i] = q[j] /\ j = i + d
      BY <2>2, <3>1, <3>3, <1>1 DEF Indexed, Range
    <3> QED
      BY <3>1, <3>a, <3>2, <3>3, <1>7
  <2> QED
    BY <2>1, <2>2
<1> QED
  BY <1>2, <1>5, <1>12, <1>13
----------------------------------------------------------------------------
(* The two ways a handler changes records: adding one, and ending some.    *)

\* Adding a record keeps the record map, the counts and the single flight of
\* the rings right, and moves each reqId as JobLifecycle allows.
LEMMA AddStep ==
  ASSUME IInv, NEW n \in Node, NEW k \in Kind \cup {OrphanKind}, NEW r \in ReqId,
         r \notin DOMAIN jobs, NEW st \in {"running", "failed"},
         k = OrphanKind \/ ~IsRunning(n, k),
         AddRecord(n, k, r, st),
         Recount(Evicted(n), r, IF st = "running" THEN 0 ELSE 1)
  PROVE  /\ DOMAIN jobs' \subseteq ReqId
         /\ \A x \in DOMAIN jobs' : jobs'[x] \in JobRecord
         /\ notified' \in [ReqId -> Nat]
         /\ byNode' \in [Node -> Seq(ReqId)]
         /\ issued' = issued \cup {r} /\ DOMAIN jobs' \subseteq issued'
         /\ \A x \in DOMAIN jobs' : x # r => x \in DOMAIN jobs /\ jobs'[x] = jobs[x]
         /\ r \in DOMAIN jobs' /\ jobs'[r].kind = k
         /\ IndexSound' /\ SingleFlightIndexed' /\ NotifiedOnce'
         /\ Life!LifeNext
<1>1. /\ DOMAIN jobs' = (DOMAIN jobs \ Evicted(n)) \cup {r}
      /\ \A x \in DOMAIN jobs' :
           jobs'[x] = IF x = r THEN [node |-> n, kind |-> k, state |-> st] ELSE jobs[x]
      /\ byNode' \in [Node -> Seq(ReqId)]
      /\ IndexSound'
      /\ \A m \in Node : \A x \in Indexed(m)' : x \in Indexed(m) \/ (m = n /\ x = r)
  <2>1. st \in Finished \cup {"running"}
    BY DEF Finished
  <2> QED
    BY <2>1, AddRecordFacts
<1>2. \A x \in Evicted(n) : x \in DOMAIN jobs /\ ~Running(x)
  BY EvictedFacts
<1>3. /\ DOMAIN jobs \subseteq ReqId /\ \A x \in DOMAIN jobs : jobs[x] \in JobRecord
      /\ notified \in [ReqId -> Nat] /\ DOMAIN jobs \subseteq issued /\ issued \subseteq ReqId
      /\ NotifiedOnce /\ SingleFlightIndexed
  BY DEF IInv, TypeOK, IssuedKnown
<1>4. /\ DOMAIN jobs' \subseteq ReqId
      /\ \A x \in DOMAIN jobs' : x # r => x \in DOMAIN jobs /\ jobs'[x] = jobs[x]
      /\ r \in DOMAIN jobs' /\ jobs'[r] = [node |-> n, kind |-> k, state |-> st]
  BY <1>1, <1>3
<1>5. \A x \in DOMAIN jobs' : jobs'[x] \in JobRecord
  <2>1. [node |-> n, kind |-> k, state |-> st] \in JobRecord
    BY DEF JobRecord, Finished
  <2> QED
    BY <1>3, <1>4, <2>1
<1>6. /\ notified' \in [ReqId -> Nat]
      /\ \A x \in ReqId : notified'[x] = IF x = r THEN IF st = "running" THEN 0 ELSE 1
                                        ELSE IF x \in Evicted(n) THEN 0 ELSE notified[x]
  BY <1>3 DEF Recount
<1>7. issued' = issued \cup {r} /\ DOMAIN jobs' \subseteq issued'
  BY <1>1, <1>3 DEF AddRecord
<1>8. \A x \in ReqId : x # r => (Running(x)' <=> Running(x))
  BY <1>1, <1>2, <1>4 DEF Running
<1>9. SingleFlightIndexed'
  <2> SUFFICES ASSUME NEW m \in Node, NEW a \in Indexed(m)', NEW b \in Indexed(m)',
                      Running(a)', Running(b)',
                      jobs'[a].kind = jobs'[b].kind, jobs'[a].kind \in Kind
               PROVE  a = b
    BY DEF SingleFlightIndexed
  <2>1. a \in DOMAIN jobs' /\ b \in DOMAIN jobs'
    BY DEF Running
  <2>2. CASE a # r /\ b # r
    <3>1. a \in Indexed(m) /\ b \in Indexed(m)
      BY <2>2, <1>1
    <3>2. Running(a) /\ Running(b) /\ jobs'[a] = jobs[a] /\ jobs'[b] = jobs[b]
      BY <2>1, <2>2, <1>4, <1>8
    <3> QED
      BY <3>1, <3>2, <1>3 DEF SingleFlightIndexed
  <2>3. ASSUME NEW c \in Indexed(m)', c # r, Running(c)', r \in Indexed(m)', jobs'[c].kind = k,
               k \in Kind
        PROVE  FALSE
    <3>1. c \in DOMAIN jobs' /\ c \in Indexed(m) /\ c \in ReqId
      BY <2>3, <1>1, <1>4 DEF Running
    <3>2. Running(c) /\ jobs[c].kind = k
      BY <3>1, <2>3, <1>4, <1>8
    <3>3. m = n
      <4>1. PICK i \in DOMAIN byNode'[m] : r = byNode'[m][i]
        BY <2>3 DEF Indexed, Range
      <4>2. byNode'[m] \in Seq(ReqId)
        BY <1>1
      <4>3. i \in 1 .. Len(byNode'[m])
        BY <4>1, <4>2
      <4>4. jobs'[r].node = m
        BY <1>1, <4>1, <4>3 DEF IndexSound
      <4> QED
        BY <4>4, <1>4
    <3>4. IsRunning(n, k)
      BY <3>1, <3>2, <3>3 DEF IsRunning
    <3> QED
      BY <3>4, <2>3, OrphanKindAssumption
  <2>4. CASE a = r /\ b # r
    BY <2>3, <2>4, <1>4
  <2>5. CASE a # r /\ b = r
    BY <2>3, <2>5, <1>4
  <2> QED
    BY <2>2, <2>4, <2>5
<1>10. NotifiedOnce'
  <2> SUFFICES ASSUME NEW x \in ReqId
               PROVE  notified'[x] = IF x \in DOMAIN jobs' /\ ~Running(x)' THEN 1 ELSE 0
    BY DEF NotifiedOnce
  <2>1. CASE x = r
    BY <2>1, <1>4, <1>6 DEF Running
  <2>2. CASE x # r /\ x \in Evicted(n)
    BY <2>2, <1>1, <1>6
  <2>3. CASE x # r /\ x \notin Evicted(n)
    <3>1. x \in DOMAIN jobs' <=> x \in DOMAIN jobs
      BY <2>3, <1>1
    <3> QED
      BY <2>3, <3>1, <1>3, <1>6, <1>8 DEF NotifiedOnce
  <2> QED
    BY <2>1, <2>2, <2>3
<1>11. Life!LifeNext
  <2> SUFFICES ASSUME NEW x \in ReqId
               PROVE  Life!Open(x) \/ Life!Close(x) \/ Life!Forget(x) \/ Life!Keep(x)
    BY DEF Life!LifeNext
  <2>1. /\ phaseOf[x] = (IF x \in DOMAIN jobs THEN jobs[x].state ELSE "absent")
        /\ phaseOf'[x] = (IF x \in DOMAIN jobs' THEN jobs'[x].state ELSE "absent")
    BY DEF phaseOf
  <2>2. CASE x = r
    <3>1. Life!Open(x)
      BY <2>1, <2>2, <1>4, <1>6 DEF Life!Open
    <3> QED
      BY <3>1
  <2>3. CASE x # r /\ x \in Evicted(n)
    <3>1. jobs[x].state \in Finished
      BY <2>3, <1>2, <1>3 DEF Running, JobRecord
    <3>2. Life!Forget(x)
      BY <2>1, <2>3, <3>1, <1>1, <1>2, <1>6 DEF Life!Forget, Life!Closed, Finished
    <3> QED
      BY <3>2
  <2>4. CASE x # r /\ x \notin Evicted(n)
    <3>1. Life!Keep(x)
      BY <2>1, <2>4, <1>1, <1>6 DEF Life!Keep
    <3> QED
      BY <3>1
  <2> QED
    BY <2>2, <2>3, <2>4
<1> QED
  BY <1>1, <1>4, <1>5, <1>6, <1>7, <1>9, <1>10, <1>11

\* Ending running records keeps everything but the timers' part of IInv.
LEMMA FinishStep ==
  ASSUME IInv, NEW S \in SUBSET ReqId, \A x \in S : Running(x), NEW st \in Finished,
         Finish(S, st), UNCHANGED <<byNode, issued>>
  PROVE  /\ DOMAIN jobs' = DOMAIN jobs
         /\ \A x \in DOMAIN jobs' : jobs'[x] \in JobRecord
         /\ notified' \in [ReqId -> Nat]
         /\ \A x \in DOMAIN jobs : Running(x)' <=> Running(x) /\ x \notin S
         /\ \A x \in DOMAIN jobs : jobs'[x].kind = jobs[x].kind /\ jobs'[x].node = jobs[x].node
         /\ IndexSound' /\ SingleFlightIndexed' /\ NotifiedOnce'
         /\ Life!LifeNext
<1>1. /\ DOMAIN jobs \subseteq ReqId /\ \A x \in DOMAIN jobs : jobs[x] \in JobRecord
      /\ notified \in [ReqId -> Nat] /\ byNode \in [Node -> Seq(ReqId)]
      /\ NotifiedOnce /\ SingleFlightIndexed /\ IndexSound
  BY DEF IInv, TypeOK
<1>2. /\ DOMAIN jobs' = DOMAIN jobs
      /\ \A x \in DOMAIN jobs :
           jobs'[x] = IF x \in S THEN [jobs[x] EXCEPT !.state = st] ELSE jobs[x]
      /\ notified' \in [ReqId -> Nat]
      /\ \A x \in ReqId : notified'[x] = IF x \in S THEN notified[x] + 1 ELSE notified[x]
  BY <1>1 DEF Finish
<1>3. \A x \in DOMAIN jobs :
        /\ jobs'[x] \in JobRecord
        /\ jobs'[x].kind = jobs[x].kind /\ jobs'[x].node = jobs[x].node
        /\ jobs'[x].state = IF x \in S THEN st ELSE jobs[x].state
  BY <1>1, <1>2 DEF JobRecord
<1>4. \A x \in DOMAIN jobs : Running(x)' <=> Running(x) /\ x \notin S
  BY <1>2, <1>3 DEF Running, Finished
<1>5. IndexSound'
  BY <1>1, <1>2, <1>3 DEF IndexSound
<1>6. SingleFlightIndexed'
  <2>1. \A m \in Node : Indexed(m)' = Indexed(m)
    BY DEF Indexed
  <2>2. \A x : Running(x)' => Running(x) /\ x \in DOMAIN jobs
    BY <1>2, <1>4 DEF Running
  <2> QED
    BY <1>1, <1>3, <2>1, <2>2 DEF SingleFlightIndexed
<1>7. NotifiedOnce'
  <2> SUFFICES ASSUME NEW x \in ReqId
               PROVE  notified'[x] = IF x \in DOMAIN jobs' /\ ~Running(x)' THEN 1 ELSE 0
    BY DEF NotifiedOnce
  <2>1. notified[x] = IF x \in DOMAIN jobs /\ ~Running(x) THEN 1 ELSE 0
    BY <1>1 DEF NotifiedOnce
  <2>2. CASE x \in S
    <3>1. Running(x) /\ x \in DOMAIN jobs
      BY <2>2 DEF Running
    <3> QED
      BY <2>1, <2>2, <3>1, <1>2, <1>4
  <2>3. CASE x \notin S /\ x \in DOMAIN jobs
    BY <2>1, <2>3, <1>2, <1>4
  <2>4. CASE x \notin S /\ x \notin DOMAIN jobs
    BY <2>1, <2>4, <1>2
  <2> QED
    BY <2>2, <2>3, <2>4
<1>8. Life!LifeNext
  <2> SUFFICES ASSUME NEW x \in ReqId
               PROVE  Life!Open(x) \/ Life!Close(x) \/ Life!Forget(x) \/ Life!Keep(x)
    BY DEF Life!LifeNext
  <2>1. /\ phaseOf[x] = (IF x \in DOMAIN jobs THEN jobs[x].state ELSE "absent")
        /\ phaseOf'[x] = (IF x \in DOMAIN jobs' THEN jobs'[x].state ELSE "absent")
    BY DEF phaseOf
  <2>2. CASE x \in S
    <3>1. x \in DOMAIN jobs /\ jobs[x].state = "running" /\ notified[x] = 0
      BY <2>2, <1>1 DEF Running, NotifiedOnce
    <3>2. Life!Close(x)
      BY <2>1, <2>2, <3>1, <1>2, <1>3 DEF Life!Close, Life!Closed, Finished
    <3> QED
      BY <3>2
  <2>3. CASE x \notin S
    <3>1. Life!Keep(x)
      BY <2>1, <2>3, <1>2 DEF Life!Keep
    <3> QED
      BY <3>1
  <2> QED
    BY <2>2, <2>3
<1> QED
  BY <1>2, <1>3, <1>4, <1>5, <1>6, <1>7, <1>8

----------------------------------------------------------------------------
(* Init and Next.                                                          *)

LEMMA InitInv == Init => IInv
<1> SUFFICES ASSUME Init PROVE IInv
  OBVIOUS
<1>1. TypeOK
  BY DEF Init, TypeOK
<1>2. IndexSound
  BY MaxJobsAssumption DEF Init, IndexSound
<1>3. SingleFlightIndexed /\ LiveTimer /\ NotifiedOnce /\ IssuedKnown
  BY DEF Init, SingleFlightIndexed, LiveTimer, NotifiedOnce, IssuedKnown, Running
<1> QED
  BY <1>1, <1>2, <1>3 DEF IInv

\* A record added by dispatch: a timer is armed only for the new reqId, which
\* has no handle yet.
LEMMA DispatchInv ==
  ASSUME IInv, NEW n \in Node, NEW k \in Kind, NEW r \in ReqId,
         NEW timed \in BOOLEAN, NEW sent \in BOOLEAN, Dispatch(n, k, r, timed, sent)
  PROVE  IInv' /\ Life!LifeNext
<1> DEFINE st == IF sent THEN "running" ELSE "failed"
<1>1. r \notin DOMAIN jobs /\ r \notin timers /\ armed \subseteq timers /\ timers \subseteq issued
  BY DEF Dispatch, IInv, IssuedKnown, TypeOK
<1>2. /\ AddRecord(n, k, r, st)
      /\ Recount(Evicted(n), r, IF st = "running" THEN 0 ELSE 1)
      /\ ~IsRunning(n, k)
  BY DEF Dispatch
<1>3. /\ DOMAIN jobs' \subseteq ReqId
      /\ \A x \in DOMAIN jobs' : jobs'[x] \in JobRecord
      /\ notified' \in [ReqId -> Nat]
      /\ byNode' \in [Node -> Seq(ReqId)]
      /\ issued' = issued \cup {r} /\ DOMAIN jobs' \subseteq issued'
      /\ \A x \in DOMAIN jobs' : x # r => x \in DOMAIN jobs /\ jobs'[x] = jobs[x]
      /\ IndexSound' /\ SingleFlightIndexed' /\ NotifiedOnce'
      /\ Life!LifeNext
  <2>1. st \in {"running", "failed"} /\ k \in Kind \cup {OrphanKind}
    OBVIOUS
  <2> HIDE DEF st
  <2> QED
    BY <2>1, <1>1, <1>2, AddStep
<1>4. \/ timers' = timers /\ armed' = armed
      \/ timers' = timers \cup {r} /\ armed' = armed \cup {r}
  BY DEF Dispatch
<1>5. issued \subseteq ReqId /\ LiveTimer
  BY DEF IInv, TypeOK
<1>6. TypeOK'
  BY <1>1, <1>3, <1>4, <1>5 DEF TypeOK
<1>7. LiveTimer'
  BY <1>1, <1>3, <1>4, <1>5 DEF LiveTimer, Running
<1>8. IssuedKnown'
  BY <1>1, <1>3, <1>4 DEF IssuedKnown
<1> QED
  BY <1>3, <1>6, <1>7, <1>8 DEF IInv

LEMMA JobOutInv ==
  ASSUME IInv, NEW n \in Node, NEW r \in ReqId, JobOut(n, r)
  PROVE  IInv' /\ Life!LifeNext
<1>1. /\ DOMAIN jobs' \subseteq ReqId
      /\ \A x \in DOMAIN jobs' : jobs'[x] \in JobRecord
      /\ notified' \in [ReqId -> Nat]
      /\ byNode' \in [Node -> Seq(ReqId)]
      /\ issued' = issued \cup {r} /\ DOMAIN jobs' \subseteq issued'
      /\ \A x \in DOMAIN jobs' : x # r => x \in DOMAIN jobs /\ jobs'[x] = jobs[x]
      /\ r \in DOMAIN jobs' /\ jobs'[r].kind = OrphanKind
      /\ IndexSound' /\ SingleFlightIndexed' /\ NotifiedOnce'
      /\ Life!LifeNext
  BY AddStep DEF JobOut
<1>2. UNCHANGED <<timers, armed>>
  BY DEF JobOut
<1>3. TypeOK'
  BY <1>1, <1>2 DEF IInv, TypeOK
<1>4. LiveTimer'
  BY <1>1, <1>2, OrphanKindAssumption DEF IInv, LiveTimer, Running
<1>5. IssuedKnown'
  BY <1>1, <1>2 DEF IInv, IssuedKnown
<1> QED
  BY <1>1, <1>3, <1>4, <1>5 DEF IInv

\* Any handler that ends a set of running records and drops some handles, but
\* disarms only the handles it drops or those of jobs that are over.
LEMMA FinishInv ==
  ASSUME IInv, NEW S \in SUBSET ReqId, \A x \in S : Running(x), NEW st \in Finished,
         Finish(S, st), UNCHANGED <<byNode, issued>>,
         timers' \subseteq timers, armed' \subseteq timers', armed' \subseteq armed,
         \A x \in timers' : x \in armed => x \in armed' \/ x \in S \/ ~Running(x)
  PROVE  IInv' /\ Life!LifeNext
<1>1. /\ DOMAIN jobs' = DOMAIN jobs
      /\ \A x \in DOMAIN jobs' : jobs'[x] \in JobRecord
      /\ notified' \in [ReqId -> Nat]
      /\ \A x \in DOMAIN jobs : Running(x)' <=> Running(x) /\ x \notin S
      /\ \A x \in DOMAIN jobs : jobs'[x].kind = jobs[x].kind
      /\ IndexSound' /\ SingleFlightIndexed' /\ NotifiedOnce'
      /\ Life!LifeNext
  BY FinishStep
<1>2. TypeOK'
  BY <1>1 DEF IInv, TypeOK
<1>3. LiveTimer'
  <2>1. \A x : Running(x)' => x \in DOMAIN jobs
    BY <1>1 DEF Running
  <2> QED
    BY <1>1, <2>1 DEF IInv, LiveTimer
<1>4. IssuedKnown'
  BY <1>1 DEF IInv, IssuedKnown
<1> QED
  BY <1>1, <1>2, <1>3, <1>4 DEF IInv

\* A step that touches no record, ring or count, and disarms only handles of
\* jobs that are over.
LEMMA TimersOnlyInv ==
  ASSUME IInv, UNCHANGED <<jobs, byNode, issued, notified>>,
         timers' \subseteq timers, armed' \subseteq timers', armed' \subseteq armed,
         \A x \in timers' : x \in armed => x \in armed' \/ ~Running(x)
  PROVE  IInv' /\ Life!LifeNext
<1>1. TypeOK'
  BY DEF IInv, TypeOK
<1>2. IndexSound' /\ NotifiedOnce' /\ SingleFlightIndexed' /\ IssuedKnown'
  BY DEF IInv, IndexSound, NotifiedOnce, SingleFlightIndexed, IssuedKnown, Running, Indexed
<1>3. LiveTimer'
  BY DEF IInv, LiveTimer, Running
<1>4. Life!LifeNext
  BY DEF Life!LifeNext, Life!Keep, phaseOf
<1> QED
  BY <1>1, <1>2, <1>3, <1>4 DEF IInv

LEMMA NextInv == IInv /\ Next => IInv' /\ Life!LifeNext
<1> SUFFICES ASSUME IInv, Next PROVE IInv' /\ Life!LifeNext
  OBVIOUS
<1>t. armed \subseteq timers /\ DOMAIN jobs \subseteq ReqId
  BY DEF IInv, TypeOK
<1>1. ASSUME NEW n \in Node, NEW k \in Kind, NEW r \in ReqId,
             NEW timed \in BOOLEAN, NEW sent \in BOOLEAN, Dispatch(n, k, r, timed, sent)
      PROVE  IInv' /\ Life!LifeNext
  BY <1>1, DispatchInv
<1>2. ASSUME NEW n \in Node, NEW r \in ReqId, JobOut(n, r)
      PROVE  IInv' /\ Life!LifeNext
  BY <1>2, JobOutInv
<1>3. ASSUME NEW r \in ReqId, NEW ok \in BOOLEAN, JobExit(r, ok)
      PROVE  IInv' /\ Life!LifeNext
  <2>1. /\ timers' = timers \ {r} /\ armed' = armed \ {r}
        /\ UNCHANGED <<byNode, issued>>
    BY <1>3 DEF JobExit
  <2>2. CASE Running(r)
    <3>1. Finish({r}, IF ok THEN "done" ELSE "failed")
      BY <1>3, <2>2 DEF JobExit
    <3>2. (IF ok THEN "done" ELSE "failed") \in Finished
      BY DEF Finished
    <3> DEFINE S == {r}
    <3>3. S \in SUBSET ReqId /\ \A x \in S : Running(x)
      BY <2>2
    <3>4. \A x \in timers' : x \in armed => x \in armed'
      BY <2>1
    <3> QED
      BY <1>t, <2>1, <3>1, <3>2, <3>3, <3>4, FinishInv
  <2>3. CASE ~Running(r)
    <3>1. UNCHANGED <<jobs, notified>>
      BY <1>3, <2>3 DEF JobExit
    <3> QED
      BY <1>t, <2>1, <3>1, TimersOnlyInv
  <2> QED
    BY <2>2, <2>3
<1>4. ASSUME NEW r \in ReqId, TimerFires(r)
      PROVE  IInv' /\ Life!LifeNext
  <2>1. armed' = armed \ {r} /\ UNCHANGED <<byNode, issued>>
    BY <1>4 DEF TimerFires
  <2>2. CASE Running(r)
    <3>1. Finish({r}, "failed") /\ timers' = timers \ {r}
      BY <1>4, <2>2 DEF TimerFires
    <3>2. {r} \in SUBSET ReqId /\ "failed" \in Finished
      BY DEF Finished
    <3> QED
      BY <1>t, <2>1, <2>2, <3>1, <3>2, FinishInv
  <2>3. CASE ~Running(r)
    <3>1. UNCHANGED <<jobs, notified, timers>>
      BY <1>4, <2>3 DEF TimerFires
    <3> QED
      BY <1>t, <2>1, <2>3, <3>1, TimersOnlyInv
  <2> QED
    BY <2>2, <2>3
<1>5. ASSUME NEW r \in ReqId, Cancel(r)
      PROVE  IInv' /\ Life!LifeNext
  <2>1. /\ Running(r) /\ Finish({r}, "failed") /\ UNCHANGED <<byNode, issued>>
        /\ timers' = timers \ {r} /\ armed' = armed \ {r}
    BY <1>5 DEF Cancel
  <2>2. {r} \in SUBSET ReqId /\ "failed" \in Finished
    BY DEF Finished
  <2> QED
    BY <1>t, <2>1, <2>2, FinishInv
<1>6. ASSUME NEW n \in Node, OnNodeDisconnected(n)
      PROVE  IInv' /\ Life!LifeNext
  <2> DEFINE S == {r \in Indexed(n) : Running(r)}
  <2>1. Finish(S, "interrupted") /\ UNCHANGED <<byNode, timers, armed, issued>>
    BY <1>6 DEF OnNodeDisconnected
  <2>2. S \in SUBSET ReqId /\ \A x \in S : Running(x)
    BY <1>t DEF Running
  <2>3. "interrupted" \in Finished
    BY DEF Finished
  <2> HIDE DEF S
  <2> QED
    BY <1>t, <2>1, <2>2, <2>3, FinishInv
<1> QED
  BY <1>1, <1>2, <1>3, <1>4, <1>5, <1>6 DEF Next

LEMMA StutterInv == IInv /\ UNCHANGED jobVars => IInv' /\ UNCHANGED Life!lifeVars
<1> SUFFICES ASSUME IInv, UNCHANGED jobVars PROVE IInv' /\ UNCHANGED Life!lifeVars
  OBVIOUS
<1>1. IInv'
  BY DEF jobVars, IInv, TypeOK, IssuedKnown, IndexSound, SingleFlightIndexed, LiveTimer,
         NotifiedOnce, Running, Indexed
<1>2. UNCHANGED Life!lifeVars
  BY DEF jobVars, Life!lifeVars, phaseOf
<1> QED
  BY <1>1, <1>2

----------------------------------------------------------------------------
(* The theorems.                                                           *)

\* The strengthened invariant holds in every reachable state.
THEOREM Invariance == Spec => []IInv
<1>1. IInv /\ [Next]_jobVars => IInv'
  BY NextInv, StutterInv
<1> QED
  BY InitInv, <1>1, PTL DEF Spec

\* The maps of the jobs manager keep their types.
THEOREM TypeCorrect == Spec => []TypeOK
<1>1. IInv => TypeOK
  BY DEF IInv
<1> QED
  BY Invariance, <1>1, PTL

\* Rings and record map agree for any ring capacity: no eviction ever deletes a
\* record that a ring still names.
THEOREM RingsAgree == Spec => []IndexSound
<1>1. IInv => IndexSound
  BY DEF IInv
<1> QED
  BY Invariance, <1>1, PTL

\* One running job per node and kind among the jobs the rings still name.
THEOREM SingleFlightInRing == Spec => []SingleFlightIndexed
<1>1. IInv => SingleFlightIndexed
  BY DEF IInv
<1> QED
  BY Invariance, <1>1, PTL

\* A dispatched job that runs under a timeout still has it armed.
THEOREM TimeoutsStayArmed == Spec => []LiveTimer
<1>1. IInv => LiveTimer
  BY DEF IInv
<1> QED
  BY Invariance, <1>1, PTL

\* Every closed record has been announced exactly once.
THEOREM AnnouncedOnce == Spec => []NotifiedOnce
<1>1. IInv => NotifiedOnce
  BY DEF IInv
<1> QED
  BY Invariance, <1>1, PTL

\* The jobs manager implements the abstract life of a job.
THEOREM ImplementsLifecycle == Spec => KeepsLifecycle
<1>1. Init => Life!LifeInit
  BY DEF Init, Life!LifeInit, phaseOf
<1>2. IInv /\ [Next]_jobVars => [Life!LifeNext]_(Life!lifeVars)
  BY NextInv, StutterInv
<1> QED
  BY <1>1, <1>2, Invariance, PTL DEF Spec, KeepsLifecycle, Life!LifeSpec
=============================================================================
