--------------------------- MODULE RecordsProofs ---------------------------
(***************************************************************************)
(* Proofs about Records, for any files, edits and number of restarts: what *)
(* a caller was told is done is in its file.  It rests on what holds of a  *)
(* file outside doubt: at most one write of it is under way, and that one  *)
(* carries all the store has.  And what retention deletes is the oldest.   *)
(* Then about the metrics of Telemetry, for any frames, tables, bucket     *)
(* widths and clock: no stored sample is counted twice or missed by a row  *)
(* covering it, the averages are those of the samples up to the rounding   *)
(* of each merge, and a coarser row outlives the finer ones.  These are    *)
(* proved by induction over the samples, which rests on the least-number   *)
(* principle below.                                                        *)
(***************************************************************************)
EXTENDS Records, FiniteSetTheorems, SequenceTheorems, WellFoundedInduction, TLAPS

Write == [file : AsyncFile, edit : Edit, has : SUBSET Edit]

\* What every store holds, and what a write under way carries.
StoreType ==
  /\ mem \in [File -> SUBSET Edit]
  /\ disk \in [File -> [whole : BOOLEAN, has : SUBSET Edit]]
  /\ writes \subseteq Write
  /\ answered \in [File -> SUBSET Edit]
  /\ doubt \subseteq File
  /\ DOMAIN export \subseteq File /\ \A f \in DOMAIN export : export[f] \in SUBSET Edit

\* Nobody was told of an edit the store does not have.
Known ==
  /\ \A f \in File : answered[f] \subseteq mem[f]
  /\ \A w \in writes : w.edit \in w.has /\ w.has \subseteq mem[w.file]

\* A file outside doubt.
Settled(f) ==
  /\ disk[f].whole /\ answered[f] \subseteq disk[f].has
  /\ \A w \in writes : w.file = f => InFlight(f) = {w} /\ w.has = mem[f]

FilesInv == StoreType /\ Known /\ \A f \in File \ doubt : Settled(f)

fileState == <<fileVars, export>>

LEMMA FilesInit == Init => FilesInv
BY DEF Init, ConfigInit, FilesInv, StoreType, Known, Settled, Whole, Exported

LEMMA FilesStutter == ASSUME FilesInv, UNCHANGED fileState PROVE FilesInv'
BY DEF FilesInv, StoreType, Known, Settled, InFlight, fileState, fileVars

\* A store that writes in one step has no write under way.
LEMMA PersistFacts ==
  ASSUME StoreType, NEW f \in SyncFile, NEW content \in SUBSET Edit, Persist(f, content)
  PROVE  /\ disk' \in [File -> [whole : BOOLEAN, has : SUBSET Edit]] /\ doubt' \subseteq File
         /\ \A g \in File \ doubt' : g # f => g \notin doubt /\ disk'[g] = disk[g]
         /\ f \notin doubt' => disk'[f] = Whole(content)
         /\ \A w \in writes : w.file # f
<1>1. f \in File /\ \A w \in writes : w.file # f
  BY ConfigConstants DEF StoreType, Write, File
<1>2. CASE disk' = [disk EXCEPT ![f] = Whole(content)] /\ doubt' = doubt \ {f}
  BY <1>1, <1>2 DEF StoreType, Whole
<1>3. CASE disk' = disk /\ doubt' = doubt \cup {f}
  BY <1>1, <1>3 DEF StoreType
<1> QED
  BY <1>2, <1>3 DEF Persist

LEMMA SyncEditInv ==
  ASSUME FilesInv, NEW f \in File, NEW e \in Edit, SyncEdit(f, e)
  PROVE  FilesInv'
<1>1. /\ f \in SyncFile /\ mem' = [mem EXCEPT ![f] = mem[f] \cup {e}]
      /\ answered' = [answered EXCEPT ![f] = answered[f] \cup {e}]
      /\ UNCHANGED <<writes, export>> /\ Persist(f, mem'[f])
  BY DEF SyncEdit
<1>2. /\ mem' \in [File -> SUBSET Edit] /\ answered' \in [File -> SUBSET Edit]
      /\ mem'[f] = mem[f] \cup {e} /\ answered'[f] = answered[f] \cup {e}
      /\ \A g \in File : g # f => mem'[g] = mem[g] /\ answered'[g] = answered[g]
  BY <1>1 DEF FilesInv, StoreType
<1>3. /\ disk' \in [File -> [whole : BOOLEAN, has : SUBSET Edit]] /\ doubt' \subseteq File
      /\ \A g \in File \ doubt' : g # f => g \notin doubt /\ disk'[g] = disk[g]
      /\ f \notin doubt' => disk'[f] = Whole(mem'[f])
      /\ \A w \in writes : w.file # f
  BY <1>1, <1>2, PersistFacts DEF FilesInv
<1>4. StoreType'
  BY <1>1, <1>2, <1>3 DEF FilesInv, StoreType
<1>5. Known'
  BY <1>1, <1>2, <1>3 DEF FilesInv, Known
<1>6. ASSUME NEW g \in File \ doubt' PROVE Settled(g)'
  BY <1>1, <1>2, <1>3, <1>5 DEF FilesInv, Known, Settled, InFlight, Whole
<1> QED
  BY <1>4, <1>5, <1>6 DEF FilesInv

LEMMA RefreshInv ==
  ASSUME FilesInv, NEW f \in File, Refresh(f)
  PROVE  FilesInv'
<1>1. f \in SyncFile /\ Persist(f, mem[f]) /\ UNCHANGED <<mem, writes, answered, export>>
  BY DEF Refresh
<1>2. /\ disk' \in [File -> [whole : BOOLEAN, has : SUBSET Edit]] /\ doubt' \subseteq File
      /\ \A g \in File \ doubt' : g # f => g \notin doubt /\ disk'[g] = disk[g]
      /\ f \notin doubt' => disk'[f] = Whole(mem[f])
      /\ \A w \in writes : w.file # f
  BY <1>1, PersistFacts DEF FilesInv, StoreType
<1>3. StoreType' /\ Known'
  BY <1>1, <1>2 DEF FilesInv, StoreType, Known
<1>4. ASSUME NEW g \in File \ doubt' PROVE Settled(g)'
  BY <1>1, <1>2 DEF FilesInv, Known, Settled, InFlight, Whole
<1> QED
  BY <1>3, <1>4 DEF FilesInv

LEMMA AsyncEditInv ==
  ASSUME FilesInv, NEW f \in File, NEW e \in Edit, AsyncEdit(f, e)
  PROVE  FilesInv'
<1> DEFINE new == [file |-> f, edit |-> e, has |-> mem'[f]]
<1>1. /\ f \in AsyncFile /\ mem' = [mem EXCEPT ![f] = mem[f] \cup {e}]
      /\ writes' = writes \cup {new}
      /\ doubt' = (IF InFlight(f) = {} THEN doubt ELSE doubt \cup {f})
      /\ UNCHANGED <<disk, answered, export>>
  BY DEF AsyncEdit
<1>2. /\ mem' \in [File -> SUBSET Edit] /\ mem'[f] = mem[f] \cup {e}
      /\ \A g \in File : g # f => mem'[g] = mem[g]
  BY <1>1 DEF FilesInv, StoreType
<1>3. new \in Write /\ new.file = f /\ new.edit = e /\ new.has = mem'[f]
  BY <1>1, <1>2 DEF Write
<1>4. StoreType'
  BY <1>1, <1>2, <1>3 DEF FilesInv, StoreType
<1>5. Known'
  <2>1. \A g \in File : answered'[g] \subseteq mem'[g]
    BY <1>1, <1>2 DEF FilesInv, Known
  <2>2. ASSUME NEW w \in writes PROVE w.edit \in w.has /\ w.has \subseteq mem'[w.file]
    BY <1>2 DEF FilesInv, Known, StoreType, Write, File
  <2> QED
    BY <1>1, <1>2, <1>3, <2>1, <2>2 DEF Known
<1>6. ASSUME NEW g \in File \ doubt' PROVE Settled(g)'
  <2>1. g \notin doubt /\ (g = f => InFlight(f) = {})
    BY <1>1
  <2>2. disk'[g].whole /\ answered'[g] \subseteq disk'[g].has
    BY <1>1, <2>1 DEF FilesInv, Settled
  <2>3. ASSUME NEW w \in writes', w.file = g PROVE InFlight(g)' = {w} /\ w.has = mem'[g]
    <3>1. CASE g = f
      BY <1>1, <1>3, <2>1, <2>3, <3>1 DEF InFlight
    <3>2. CASE g # f
      <4>1. w \in writes /\ InFlight(g)' = InFlight(g)
        BY <1>1, <1>3, <2>3, <3>2 DEF InFlight
      <4> QED
        BY <1>2, <2>1, <2>3, <3>2, <4>1 DEF FilesInv, Settled
    <3> QED
      BY <3>1, <3>2
  <2> QED
    BY <2>2, <2>3 DEF Settled
<1> QED
  BY <1>4, <1>5, <1>6 DEF FilesInv

LEMMA RenameInv ==
  ASSUME FilesInv, NEW w \in writes, Rename(w)
  PROVE  FilesInv'
<1>1. /\ disk' = [disk EXCEPT ![w.file] = Whole(w.has)]
      /\ answered' = [answered EXCEPT ![w.file] = answered[w.file] \cup {w.edit}]
      /\ writes' = writes \ {w} /\ UNCHANGED <<mem, export>>
      /\ doubt' = IF w.has = mem[w.file] /\ InFlight(w.file) = {w} THEN doubt \ {w.file} ELSE doubt
  BY DEF Rename, Landed
<1>2. w \in Write /\ w.file \in File /\ w.edit \in w.has /\ w.has \subseteq mem[w.file]
  BY DEF FilesInv, StoreType, Known, Write, File
<1>3. StoreType'
  BY <1>1, <1>2 DEF FilesInv, StoreType, Write, Whole
<1>4. Known'
  BY <1>1, <1>2 DEF FilesInv, Known, StoreType
<1>5. ASSUME NEW g \in File \ doubt' PROVE Settled(g)'
  <2>1. CASE g # w.file
    <3>1. g \notin doubt /\ disk'[g] = disk[g] /\ answered'[g] = answered[g]
          /\ InFlight(g)' = InFlight(g)
      BY <1>1, <2>1 DEF FilesInv, StoreType, InFlight
    <3> QED
      BY <1>1, <2>1, <3>1 DEF FilesInv, Settled
  <2>2. CASE g = w.file
    <3>1. InFlight(g) = {w} /\ w.has = mem[g]
      BY <1>1, <2>2 DEF FilesInv, Settled
    <3>2. disk'[g] = Whole(w.has) /\ answered'[g] = answered[g] \cup {w.edit}
      BY <1>1, <1>2, <2>2 DEF FilesInv, StoreType
    <3>3. \A v \in writes' : v.file # g
      BY <1>1, <2>2, <3>1 DEF InFlight
    <3> QED
      BY <1>2, <3>1, <3>2, <3>3 DEF FilesInv, Known, Settled, Whole
  <2> QED
    BY <2>1, <2>2
<1> QED
  BY <1>3, <1>4, <1>5 DEF FilesInv

LEMMA WriteFailsInv ==
  ASSUME FilesInv, NEW w \in writes, WriteFails(w)
  PROVE  FilesInv'
<1>1. writes' = writes \ {w} /\ UNCHANGED <<mem, disk, answered, doubt, export>>
  BY DEF WriteFails
<1>2. StoreType' /\ Known'
  BY <1>1 DEF FilesInv, StoreType, Known
<1>3. ASSUME NEW g \in File \ doubt' PROVE Settled(g)'
  BY <1>1 DEF FilesInv, Settled, InFlight
<1> QED
  BY <1>2, <1>3 DEF FilesInv

LEMMA ExportInv == ASSUME FilesInv, Export PROVE FilesInv'
<1>1. export' = Collected /\ UNCHANGED <<mem, disk, writes, answered, doubt>>
  BY DEF Export, fileVars
<1>2. DOMAIN Collected \subseteq File /\ \A f \in DOMAIN Collected : Collected[f] \in SUBSET Edit
  BY DEF FilesInv, StoreType, Collected
<1> QED
  BY <1>1, <1>2 DEF FilesInv, StoreType, Known, Settled, InFlight

\* The files after an import, cut off or not.
LEMMA ImportedFacts ==
  ASSUME StoreType, NEW done \in SUBSET Exported, NEW half \in SUBSET Exported
  PROVE  /\ Imported(done, half) \in [File -> [whole : BOOLEAN, has : SUBSET Edit]]
         /\ \A f \in File \ (done \cup half) : Imported(done, half)[f] = disk[f]
BY DEF StoreType, Exported, Imported, Whole, Torn

LEMMA ImportInv ==
  ASSUME FilesInv, NEW files \in SUBSET File, Import(files)
  PROVE  FilesInv'
<1>1. /\ files \in SUBSET Exported /\ disk' = Imported(files, {}) /\ doubt' = doubt \cup files
      /\ UNCHANGED <<mem, writes, answered, export>>
  BY DEF Import
<1>2. /\ disk' \in [File -> [whole : BOOLEAN, has : SUBSET Edit]]
      /\ \A f \in File \ files : disk'[f] = disk[f]
  BY <1>1, ImportedFacts DEF FilesInv
<1>3. StoreType' /\ Known'
  BY <1>1, <1>2 DEF FilesInv, StoreType, Known
<1>4. ASSUME NEW g \in File \ doubt' PROVE Settled(g)'
  BY <1>1, <1>2 DEF FilesInv, Settled, InFlight
<1> QED
  BY <1>3, <1>4 DEF FilesInv

LEMMA LoadAllInv ==
  ASSUME FilesInv, NEW files \in [File -> [whole : BOOLEAN, has : SUBSET Edit]], LoadAll(files)
  PROVE  FilesInv'
<1>1. /\ disk' = files /\ mem' = [f \in File |-> Load(files[f])] /\ writes' = {}
      /\ answered' = [f \in File |-> answered[f] \cap mem'[f]]
      /\ doubt' = {f \in File : ~files[f].whole} /\ export' = export
  BY DEF LoadAll
<1>2. StoreType'
  BY <1>1 DEF FilesInv, StoreType, Load
<1>3. Known'
  BY <1>1 DEF Known
<1>4. ASSUME NEW g \in File \ doubt' PROVE Settled(g)'
  BY <1>1 DEF Settled, Load
<1> QED
  BY <1>2, <1>3, <1>4 DEF FilesInv

THEOREM FilesInvariance == Spec => []FilesInv
<1>1. FilesInv /\ [Next]_vars => FilesInv'
  <2> SUFFICES ASSUME FilesInv, [Next]_vars
               PROVE  FilesInv'
    OBVIOUS
  <2>1. CASE Files
    <3>1. CASE \E n \in Nat : Backup(n)
      BY <3>1, FilesStutter DEF Backup, fileState
    <3> QED
      BY <2>1, <3>1, SyncEditInv, AsyncEditInv, RefreshInv, RenameInv, WriteFailsInv, ExportInv,
         ImportInv, RecordsConstants DEF Files
  <2>2. CASE Telemetry \/ PruneTimer \/ Maintenance \/ UNCHANGED vars
    BY <2>2, FilesStutter DEF Telemetry, PruneTimer, Maintenance, vars, configVars, fileState
  <2>3. CASE Shutdown
    BY <2>3, LoadAllInv DEF Shutdown, FilesInv, StoreType
  <2>4. CASE Crash
    <3>1. PICK done \in SUBSET Exported, half \in SUBSET Exported : LoadAll(Imported(done, half))
      BY <2>4 DEF Crash
    <3> QED
      BY <3>1, ImportedFacts, LoadAllInv DEF FilesInv
  <2> QED
    BY <2>1, <2>2, <2>3, <2>4 DEF Next
<1> QED
  BY FilesInit, <1>1, PTL DEF Spec

\* What an operator was told is done is in the file, which is whole, unless it is
\* in doubt (the stores of config/, atomicWrite.ts and backup.ts).
THEOREM NothingAnsweredIsLost == Spec => []AnsweredIsStored
<1>1. FilesInv => AnsweredIsStored
  BY DEF FilesInv, Settled, AnsweredIsStored
<1> QED
  BY <1>1, FilesInvariance, PTL

----------------------------------------------------------------------------
(* Retention.                                                              *)

\* A trace is that of its request, whose time is past.
TracesInv ==
  /\ now \in Nat /\ requests \in Seq(Nat)
  /\ \A i \in 1 .. Len(requests) : requests[i] <= now
  /\ IsFiniteSet(traces)
  /\ \A t \in traces : t.of \in 1 .. Len(requests) /\ t.ts = requests[t.of]

BackupsInv ==
  /\ attempts \in Seq(BOOLEAN) /\ backups \subseteq 1 .. Len(attempts)
  /\ GoodBackupsKept

RetentionInv == TracesInv /\ NewestTracesKept /\ BackupsInv

\* Traces deleted by their age alone.
LEMMA YoungKept ==
  ASSUME TracesInv, NewestTracesKept, NEW age \in Nat,
         traces' = {t \in traces : t.ts >= now - age}, UNCHANGED <<now, requests>>
  PROVE  TracesInv' /\ NewestTracesKept'
<1>1. IsFiniteSet(traces') /\ Cardinality(traces') <= Cardinality(traces)
  BY FS_Subset DEF TracesInv
<1>2. Cardinality(traces') <= MaxTraces
  <2>1. Cardinality(traces) \in Nat /\ Cardinality(traces') \in Nat
    BY <1>1, FS_CardinalityType DEF TracesInv
  <2> QED
    BY <1>1, <2>1, TelemetryConstants DEF NewestTracesKept
<1>3. TracesInv'
  BY <1>1 DEF TracesInv
<1>4. ASSUME NEW i \in 1 .. Len(requests), NEW t \in traces', \A s \in traces' : s.of # i
      PROVE  requests[i] <= t.ts
  <2>1. requests[i] \in Nat /\ t.ts \in Nat /\ t \in traces /\ t.ts >= now - age
    BY DEF TracesInv
  <2>2. CASE \A s \in traces : s.of # i
    BY <2>1, <2>2 DEF NewestTracesKept
  <2>3. CASE \E s \in traces : s.of = i
    BY <1>4, <2>1, <2>3 DEF TracesInv
  <2> QED
    BY <2>2, <2>3
<1> QED
  BY <1>2, <1>3, <1>4 DEF NewestTracesKept

\* What Newest may choose.
LEMMA NewestFacts ==
  ASSUME NEW set, IsFiniteSet(set), NEW k \in Nat, NEW kept \in Newest(set, k)
  PROVE  /\ kept \subseteq set /\ IsFiniteSet(kept) /\ Cardinality(kept) <= k
         /\ \A a \in kept, b \in set \ kept : a.ts >= b.ts
<1>1. kept \subseteq set
  BY DEF Newest
<1>2. IsFiniteSet(kept)
  BY <1>1, FS_Subset
<1> QED
  BY <1>1, <1>2 DEF Newest

LEMMA TraceInv ==
  ASSUME TracesInv, NewestTracesKept, Trace
  PROVE  TracesInv' /\ NewestTracesKept'
<1> DEFINE nr == Len(requests) + 1
           new == [ts |-> now, of |-> nr]
           all == traces \cup {new}
           young == {t \in all : t.ts >= now - MaxTraceAge}
<1>1. requests' = Append(requests, now) /\ now' = now /\ traces' \in Newest(young, MaxTraces)
  BY DEF Trace
<1>2. /\ requests' \in Seq(Nat) /\ Len(requests') = nr /\ nr \in Nat /\ requests'[nr] = now
      /\ \A i \in 1 .. Len(requests) : requests'[i] = requests[i] /\ requests[i] \in Nat
      /\ 1 .. nr = (1 .. Len(requests)) \cup {nr}
  BY <1>1 DEF TracesInv
<1>3. IsFiniteSet(all)
  BY FS_AddElement DEF TracesInv
<1>4. IsFiniteSet(young)
  BY <1>3, FS_Subset
<1>5. /\ traces' \subseteq young /\ IsFiniteSet(traces') /\ Cardinality(traces') <= MaxTraces
      /\ \A a \in traces', b \in young \ traces' : a.ts >= b.ts
  BY <1>1, <1>4, NewestFacts, TelemetryConstants
<1>6. \A t \in all : t.of \in 1 .. nr /\ t.ts = requests'[t.of] /\ t.ts \in Nat /\ t.ts <= now
  <2>1. new.of = nr /\ new.ts = now /\ now \in Nat
    BY DEF TracesInv
  <2>2. \A t \in traces : t.of \in 1 .. Len(requests) /\ t.ts = requests[t.of] /\ requests[t.of] <= now
    BY DEF TracesInv
  <2> QED
    BY <1>2, <2>1, <2>2
<1>7. \A i \in 1 .. nr : requests'[i] <= now /\ requests'[i] \in Nat
  <2>1. now \in Nat /\ now <= now /\ \A i \in 1 .. Len(requests) : requests[i] <= now
    BY DEF TracesInv
  <2> HIDE DEF nr
  <2> QED
    BY <1>2, <2>1
<1>8. TracesInv'
  BY <1>1, <1>2, <1>5, <1>6, <1>7 DEF TracesInv
<1>9. ASSUME NEW i \in 1 .. nr, NEW t \in traces', \A s \in traces' : s.of # i
      PROVE  requests'[i] <= t.ts
  <2>1. t \in young /\ t \in all /\ t.ts \in Nat /\ now \in Nat
    BY <1>5, <1>6 DEF TracesInv
  <2>2. ASSUME NEW s \in all, s.of = i PROVE requests'[i] <= t.ts
    <3>1. s \notin traces' /\ s.ts = requests'[i] /\ s.ts \in Nat
      BY <1>6, <1>9, <2>2
    <3>2. CASE s \in young
      BY <1>5, <2>1, <3>1, <3>2
    <3>3. CASE s \notin young
      <4>1. MaxTraceAge \in Nat
        BY TelemetryConstants
      <4>2. s.ts < now - MaxTraceAge /\ now - MaxTraceAge <= t.ts
        BY <2>1, <2>2, <3>1, <3>3, <4>1
      <4> QED
        BY <2>1, <3>1, <4>1, <4>2
    <3> QED
      BY <3>2, <3>3
  <2>3. CASE \A s \in all : s.of # i
    <3>0. new \in all /\ new.of = nr
      OBVIOUS
    <3>1. i # nr /\ i \in 1 .. Len(requests)
      BY <1>2, <2>3, <3>0
    <3>2. requests'[i] = requests[i] /\ requests[i] <= now
      BY <1>2, <3>1 DEF TracesInv
    <3>3. CASE t \in traces
      BY <2>3, <3>1, <3>2, <3>3 DEF NewestTracesKept
    <3>4. CASE t = new
      BY <3>2, <3>4
    <3> QED
      BY <2>1, <3>3, <3>4
  <2> QED
    BY <2>2, <2>3
<1> QED
  BY <1>2, <1>5, <1>8, <1>9 DEF NewestTracesKept

LEMMA BackupInv ==
  ASSUME BackupsInv, NEW limit \in Nat, Backup(limit)
  PROVE  BackupsInv'
<1>1. PICK complete \in BOOLEAN : attempts' = Append(attempts, complete)
  BY DEF Backup
<1>2. backups' = backups \cup {Len(attempts) + 1}
  BY DEF Backup
<1>3. attempts' \in Seq(BOOLEAN) /\ Len(attempts') = Len(attempts) + 1 /\ Len(attempts) \in Nat
  BY <1>1 DEF BackupsInv
<1>4. ASSUME NEW n \in 1 .. Len(attempts'), n \notin backups'
      PROVE  Len(attempts') - n >= BackupsKeep
  <2>1. n \in 1 .. Len(attempts) /\ n \notin backups
    BY <1>2, <1>3, <1>4
  <2>2. Len(attempts) - n >= BackupsKeep
    BY <2>1 DEF BackupsInv, GoodBackupsKept
  <2> QED
    BY <1>3, <2>1, <2>2, ConfigConstants
<1>5. backups' \subseteq 1 .. Len(attempts')
  <2>1. \A m \in backups : m \in 1 .. Len(attempts)
    BY DEF BackupsInv
  <2>2. 1 .. Len(attempts) \subseteq 1 .. Len(attempts') /\ Len(attempts) + 1 \in 1 .. Len(attempts')
    BY <1>3
  <2> QED
    BY <1>2, <2>1, <2>2
<1> QED
  BY <1>3, <1>4, <1>5 DEF BackupsInv, GoodBackupsKept

LEMMA PruneBackupsInv ==
  ASSUME BackupsInv, PruneBackups
  PROVE  BackupsInv'
<1>1. backups' = KeptBackups(backups) /\ attempts' = attempts /\ Len(attempts) \in Nat
  BY DEF PruneBackups, BackupsInv
<1>2. ASSUME NEW n \in 1 .. Len(attempts), n \notin backups'
      PROVE  Len(attempts) - n >= BackupsKeep
  <2>1. CASE n \notin backups
    BY <2>1 DEF BackupsInv, GoodBackupsKept
  <2>2. CASE n \in backups
    <3> DEFINE newer == {m \in backups : m > n}
    <3>1. ~(Cardinality(newer) < BackupsKeep)
      BY <1>1, <1>2, <2>2 DEF KeptBackups
    <3>2. newer \subseteq (n + 1) .. Len(attempts)
      <4>1. \A m \in backups : m \in 1 .. Len(attempts)
        BY DEF BackupsInv
      <4>2. \A m \in 1 .. Len(attempts) : m > n => m \in (n + 1) .. Len(attempts)
        BY <1>1
      <4> QED
        BY <4>1, <4>2
    <3>3. /\ IsFiniteSet((n + 1) .. Len(attempts))
          /\ Cardinality((n + 1) .. Len(attempts)) = Len(attempts) - n
      BY <1>1, FS_Interval
    <3>4. Cardinality(newer) <= Len(attempts) - n /\ Cardinality(newer) \in Nat
      BY <3>2, <3>3, FS_Subset, FS_CardinalityType
    <3> QED
      BY <1>1, <3>1, <3>4, ConfigConstants
  <2> QED
    BY <2>1, <2>2
<1> QED
  BY <1>1, <1>2 DEF BackupsInv, GoodBackupsKept, KeptBackups

LEMMA TracesStutter ==
  ASSUME TracesInv, NewestTracesKept, UNCHANGED traceVars, now' \in Nat, now <= now'
  PROVE  TracesInv' /\ NewestTracesKept'
<1>1. TracesInv'
  BY DEF TracesInv, traceVars
<1> QED
  BY <1>1 DEF NewestTracesKept, traceVars

LEMMA BackupsStutter == ASSUME BackupsInv, UNCHANGED backupVars PROVE BackupsInv'
BY DEF BackupsInv, GoodBackupsKept, backupVars

LEMMA RetentionInit == Init => RetentionInv
<1> SUFFICES ASSUME Init PROVE RetentionInv
  OBVIOUS
<1>1. IsFiniteSet({}) /\ Cardinality({}) = 0
  BY FS_EmptySet
<1>2. TracesInv /\ NewestTracesKept
  BY <1>1, TelemetryConstants DEF Init, TelemetryInit, TracesInv, NewestTracesKept
<1>3. BackupsInv
  BY DEF Init, ConfigInit, BackupsInv, GoodBackupsKept
<1> QED
  BY <1>2, <1>3 DEF RetentionInv

THEOREM RetentionInvariance == Spec => []RetentionInv
<1>1. RetentionInv /\ [Next]_vars => RetentionInv'
  <2> SUFFICES ASSUME RetentionInv, [Next]_vars
               PROVE  RetentionInv'
    OBVIOUS
  <2>0. now \in Nat /\ now <= now
    BY DEF RetentionInv, TracesInv
  <2>1. CASE Telemetry
    <3>1. BackupsInv'
      BY <2>1, BackupsStutter DEF Telemetry, configVars, RetentionInv
    <3>2. CASE Metrics \/ Tick
      <4>1. UNCHANGED traceVars /\ now' \in Nat /\ now <= now'
        <5>1. CASE Tick
          BY <2>0, <5>1 DEF Tick
        <5>2. CASE Flush
          BY <2>0, <5>2 DEF Flush
        <5>3. ASSUME NEW m, NEW frame, Ingest(m, frame) PROVE UNCHANGED <<now, traceVars>>
          BY <5>3, Zenon DEF Ingest
        <5> QED
          BY <2>0, <3>2, <5>1, <5>2, <5>3 DEF Metrics
      <4> QED
        BY <3>1, <4>1, TracesStutter DEF RetentionInv
    <3>3. CASE Trace
      BY <3>1, <3>3, TraceInv DEF RetentionInv
    <3> QED
      BY <2>1, <3>2, <3>3 DEF Telemetry
  <2>2. CASE Files /\ UNCHANGED <<telemetryVars, restarts>>
    <3>1. TracesInv' /\ NewestTracesKept'
      BY <2>0, <2>2, TracesStutter DEF telemetryVars, RetentionInv
    <3>2. CASE Backup(MaxBackups)
      BY <3>1, <3>2, BackupInv, RecordsConstants DEF RetentionInv
    <3>3. CASE UNCHANGED backupVars
      BY <3>1, <3>3, BackupsStutter DEF RetentionInv
    <3> QED
      BY <2>2, <3>2, <3>3
         DEF Files, SyncEdit, AsyncEdit, Refresh, Rename, WriteFails, Export, Import
  <2>3. CASE PruneTimer \/ UNCHANGED vars
    <3>1. UNCHANGED <<now, traceVars, backupVars>>
      BY <2>3 DEF PruneTimer, vars, configVars, telemetryVars
    <3> QED
      BY <2>0, <3>1, TracesStutter, BackupsStutter DEF RetentionInv
  <2>4. CASE Maintenance
    <3>1. TracesInv' /\ NewestTracesKept'
      BY <2>4, YoungKept, RecordsConstants DEF Maintenance, PruneTraces, RetentionInv
    <3> QED
      BY <2>4, <3>1, PruneBackupsInv DEF Maintenance, RetentionInv
  <2>5. CASE Shutdown \/ Crash
    <3>1. UNCHANGED <<now, traceVars, backupVars>>
      BY <2>5 DEF Shutdown, Crash, LoadAll
    <3> QED
      BY <2>0, <3>1, TracesStutter, BackupsStutter DEF RetentionInv
  <2> QED
    BY <2>1, <2>2, <2>3, <2>4, <2>5 DEF Next
<1> QED
  BY RetentionInit, <1>1, PTL DEF Spec

\* Of traces and backups it is the oldest that are deleted, and of backups only those
\* with enough newer ones (tracesStore.ts, backup.ts).
THEOREM OldestAreDeleted == Spec => []RetentionKeepsNewest
<1>1. RetentionInv => RetentionKeepsNewest
  BY DEF RetentionInv, BackupsInv, RetentionKeepsNewest
<1> QED
  BY <1>1, RetentionInvariance, PTL
----------------------------------------------------------------------------
(* Induction and recursion over numbers.                                   *)

\* Every set of numbers has a least one.
LEMMA LeastNumber ==
  ASSUME NEW T \in SUBSET Nat, T # {}
  PROVE  \E x \in T : \A y \in T : x <= y
<1> DEFINE R == {ss \in Nat \X Nat : ss[1] < ss[2]}
<1>1. IsWellFoundedOn(R, Nat)
  BY NatLessThanWellFounded DEF OpToRel
<1>2. \A x, y \in Nat : y < x => <<y, x>> \in R
  OBVIOUS
<1> HIDE DEF R
<1>3. T \subseteq Nat
  OBVIOUS
<1>4. PICK x \in T : \A y \in T : ~(<<y, x>> \in R)
  BY <1>1, <1>3, WFMin
<1>5. ASSUME NEW y \in T PROVE x <= y
  <2>1. x \in Nat /\ y \in Nat /\ ~(y < x)
    BY <1>2, <1>3, <1>4
  <2> QED
    BY <2>1
<1> QED
  BY <1>5

\* Induction, over the set of the numbers of which something holds.
LEMMA Induction ==
  ASSUME NEW T, 0 \in T, \A n \in Nat : n \in T => n + 1 \in T
  PROVE  Nat \subseteq T
<1> DEFINE U == Nat \ T
<1>1. CASE U # {}
  <2>1. PICK x \in U : \A y \in U : x <= y
    BY <1>1, LeastNumber
  <2>2. x \in Nat /\ x # 0 /\ x - 1 \in Nat /\ (x - 1) + 1 = x
    BY <2>1
  <2> QED
    BY <2>1, <2>2
<1> QED
  BY <1>1

\* g follows step on 0..n.
Follows(g, n, V, base, step) ==
  g \in [0 .. n -> V] /\ g[0] = base /\ \A k \in 1 .. n : g[k] = step[<<k, g[k - 1]>>]

LEMMA FollowsUnique ==
  ASSUME NEW n \in Nat, NEW V, NEW base, NEW step, NEW g, NEW h,
         Follows(g, n, V, base, step), Follows(h, n, V, base, step)
  PROVE  g = h
<1> DEFINE T == {k \in Nat : k <= n => g[k] = h[k]}
<1>1. 0 \in T
  BY DEF Follows
<1>2. ASSUME NEW k \in Nat, k \in T PROVE k + 1 \in T
  <2>1. CASE k + 1 <= n
    <3>1. k + 1 \in 1 .. n /\ (k + 1) - 1 = k /\ k <= n
      BY <2>1
    <3>2. g[k] = h[k]
      BY <1>2, <3>1
    <3>3. g[k + 1] = step[<<k + 1, g[k]>>] /\ h[k + 1] = step[<<k + 1, h[k]>>]
      BY <3>1 DEF Follows
    <3> QED
      BY <3>2, <3>3
  <2> QED
    BY <2>1
<1>3. Nat \subseteq T
  <2> HIDE DEF T
  <2> QED
    BY <1>1, <1>2, Induction
<1>4. \A k \in 0 .. n : g[k] = h[k]
  BY <1>3
<1> QED
  BY <1>4 DEF Follows

LEMMA FollowsExists ==
  ASSUME NEW V, NEW base \in V, NEW step \in [Nat \X V -> V]
  PROVE  \A n \in Nat : \E g : Follows(g, n, V, base, step)
<1> DEFINE T == {n \in Nat : \E g : Follows(g, n, V, base, step)}
<1>1. 0 \in T
  <2>1. Follows([k \in 0 .. 0 |-> base], 0, V, base, step)
    BY DEF Follows
  <2> QED
    BY <2>1
<1>2. ASSUME NEW n \in Nat, n \in T PROVE n + 1 \in T
  <2>1. PICK g : Follows(g, n, V, base, step)
    BY <1>2
  <2> DEFINE h == [k \in 0 .. (n + 1) |-> IF k <= n THEN g[k] ELSE step[<<k, g[n]>>]]
  <2>2. g[n] \in V /\ step[<<n + 1, g[n]>>] \in V
    BY <2>1 DEF Follows
  <2>3. h \in [0 .. (n + 1) -> V]
    BY <2>1, <2>2 DEF Follows
  <2>4. \A k \in 1 .. (n + 1) : h[k] = step[<<k, h[k - 1]>>]
    <3> TAKE k \in 1 .. (n + 1)
    <3>1. CASE k <= n
      BY <2>1, <3>1 DEF Follows
    <3>2. CASE k = n + 1
      BY <3>2
    <3> QED
      BY <3>1, <3>2
  <2>5. Follows(h, n + 1, V, base, step)
    BY <2>1, <2>3, <2>4 DEF Follows
  <2> QED
    BY <2>5
<1>3. Nat \subseteq T
  <2> HIDE DEF T
  <2> QED
    BY <1>1, <1>2, Induction
<1> QED
  BY <1>3

FollowsAlways(g, V, base, step) ==
  g \in [Nat -> V] /\ g[0] = base /\ \A k \in Nat \ {0} : g[k] = step[<<k, g[k - 1]>>]

\* A function defined by recursion over the numbers exists.
LEMMA Recursion ==
  ASSUME NEW V, NEW base \in V, NEW step \in [Nat \X V -> V]
  PROVE  \E g : FollowsAlways(g, V, base, step)
<1> DEFINE part(n) == CHOOSE g : Follows(g, n, V, base, step)
           g == [n \in Nat |-> part(n)[n]]
<1>1. \A n \in Nat : Follows(part(n), n, V, base, step)
  BY FollowsExists
<1> HIDE DEF part
<1>2. g \in [Nat -> V]
  BY <1>1 DEF Follows
<1>3. g[0] = base
  BY <1>1 DEF Follows
<1>4. ASSUME NEW k \in Nat \ {0} PROVE g[k] = step[<<k, g[k - 1]>>]
  <2> DEFINE h == [i \in 0 .. (k - 1) |-> part(k)[i]]
  <2>1. k \in Nat /\ k - 1 \in Nat /\ k \in 1 .. k
    OBVIOUS
  <2>2. Follows(part(k), k, V, base, step)
    BY <1>1, <2>1
  <2>3. Follows(h, k - 1, V, base, step)
    BY <2>1, <2>2 DEF Follows
  <2>4. h = part(k - 1)
    <3> HIDE DEF h
    <3> QED
      BY <1>1, <2>1, <2>3, FollowsUnique
  <2>5. part(k)[k - 1] = g[k - 1]
    BY <2>1, <2>4
  <2> QED
    BY <2>1, <2>2, <2>5 DEF Follows
<1> QED
  BY <1>2, <1>3, <1>4 DEF FollowsAlways
----------------------------------------------------------------------------
LEMMA FractionFacts ==
  ASSUME NEW p \in Int, NEW q \in Nat \ {0}
  PROVE  /\ Fraction(p, q) \in Int \X (Nat \ {0})
         /\ Fraction(p, q)[1] * q = p * Fraction(p, q)[2]
<1> DEFINE D == {k \in 1 .. q : Divides(k, p) /\ Divides(k, q)}
           T == {j \in Nat : q - j \in D}
           best(k) == /\ Divides(k, p) /\ Divides(k, q)
                      /\ \A j \in (k + 1) .. q : ~(Divides(j, p) /\ Divides(j, q))
           d == CHOOSE k \in 1 .. q : best(k)
<1>1. 1 \in D
  BY DEF Divides
<1>2. \E k \in 1 .. q : best(k)
  <2>1. q - 1 \in T
    <3>1. q - 1 \in Nat /\ q - (q - 1) = 1
      OBVIOUS
    <3> QED
      BY <1>1, <3>1
  <2>2. PICK j \in T : \A i \in T : j <= i
    <3>1. T \in SUBSET Nat /\ T # {}
      BY <2>1
    <3> HIDE DEF T
    <3> QED
      BY <3>1, LeastNumber
  <2> DEFINE k == q - j
  <2>3. k \in 1 .. q /\ Divides(k, p) /\ Divides(k, q)
    BY <2>2
  <2>4. ASSUME NEW i \in (k + 1) .. q, Divides(i, p), Divides(i, q) PROVE FALSE
    <3>1. j \in Nat /\ i \in 1 .. q /\ i \in Int
      BY <2>2, <2>3
    <3>2. q - i \in Nat /\ q - (q - i) = i /\ i \in D
      BY <2>4, <3>1
    <3>3. q - i \in T
      BY <3>2
    <3>4. j <= q - i
      BY <2>2, <3>3
    <3> QED
      BY <3>1, <3>4
  <2> QED
    BY <2>3, <2>4
<1>3. d \in 1 .. q /\ Divides(d, p) /\ Divides(d, q)
  <2> HIDE DEF best
  <2>1. d \in 1 .. q /\ best(d)
    BY <1>2
  <2> QED
    BY <2>1 DEF best
<1>4. Fraction(p, q) = <<p \div d, q \div d>>
  BY DEF Fraction
<1> HIDE DEF d
<1>5. p = d * (p \div d) /\ q = d * (q \div d) /\ p \div d \in Int /\ q \div d \in Int
  BY <1>3 DEF Divides
<1>6. q \div d \in Nat \ {0}
  BY <1>3, <1>5
<1>7. (p \div d) * q = p * (q \div d)
  BY <1>3, <1>5
<1> QED
  BY <1>4, <1>5, <1>6, <1>7

LEMMA SumFacts ==
  ASSUME NEW f \in [Nat -> Int]
  PROVE  /\ \A n \in Nat : Sum(f, n) \in Int
         /\ Sum(f, 0) = 0
         /\ \A n \in Nat : Sum(f, n + 1) = Sum(f, n) + f[n + 1]
<1> DEFINE upto[k \in Nat] == IF k = 0 THEN 0 ELSE upto[k - 1] + f[k]
           step == [kv \in Nat \X Int |-> kv[2] + f[kv[1]]]
<1>1. step \in [Nat \X Int -> Int] /\ 0 \in Int
  OBVIOUS
<1>8. PICK g : FollowsAlways(g, Int, 0, step)
  <2> HIDE DEF step, upto
  <2>1. \E g : FollowsAlways(g, Int, 0, step)
    BY <1>1, Recursion
  <2> QED
    BY <2>1
<1>2. g = [k \in Nat |-> IF k = 0 THEN 0 ELSE g[k - 1] + f[k]]
  <2>1. ASSUME NEW k \in Nat \ {0} PROVE g[k] = g[k - 1] + f[k]
    <3>1. k - 1 \in Nat
      OBVIOUS
    <3> QED
      BY <1>8, <3>1 DEF FollowsAlways
  <2> QED
    BY <1>8, <2>1 DEF FollowsAlways
<1>3. upto = [k \in Nat |-> IF k = 0 THEN 0 ELSE upto[k - 1] + f[k]]
  BY <1>2
<1>4. \A n : Sum(f, n) = upto[n]
  BY DEF Sum
<1> HIDE DEF upto
<1>5. upto[0] = 0
  BY <1>3
<1>6. ASSUME NEW n \in Nat PROVE upto[n + 1] = upto[n] + f[n + 1]
  <2>1. n + 1 \in Nat /\ n + 1 # 0 /\ (n + 1) - 1 = n
    OBVIOUS
  <2> QED
    BY <1>3, <2>1
<1>7. ASSUME NEW n \in Nat PROVE upto[n] \in Int
  <2> DEFINE T == {k \in Nat : upto[k] \in Int}
  <2>1. 0 \in T
    BY <1>5
  <2>2. \A k \in Nat : k \in T => k + 1 \in T
    BY <1>6
  <2>3. Nat \subseteq T
    <3> HIDE DEF T
    <3> QED
      BY <2>1, <2>2, Induction
  <2> QED
    BY <2>3
<1> QED
  BY <1>4, <1>5, <1>6, <1>7

\* Sums of equal terms are equal.
LEMMA SumSame ==
  ASSUME NEW f \in [Nat -> Int], NEW g \in [Nat -> Int], NEW m \in Nat,
         \A k \in 1 .. m : f[k] = g[k]
  PROVE  Sum(f, m) = Sum(g, m)
<1> DEFINE T == {n \in Nat : n <= m => Sum(f, n) = Sum(g, n)}
<1>1. 0 \in T
  BY SumFacts
<1>2. ASSUME NEW n \in Nat, n \in T PROVE n + 1 \in T
  <2>1. CASE n + 1 <= m
    <3>1. n <= m /\ n + 1 \in 1 .. m
      BY <2>1
    <3>2. Sum(f, n) = Sum(g, n)
      BY <1>2, <3>1
    <3>3. Sum(f, n + 1) = Sum(f, n) + f[n + 1] /\ Sum(g, n + 1) = Sum(g, n) + g[n + 1]
      BY SumFacts
    <3> QED
      BY <3>1, <3>2, <3>3
  <2> QED
    BY <2>1
<1>3. Nat \subseteq T
  <2> HIDE DEF T
  <2> QED
    BY <1>1, <1>2, Induction
<1> QED
  BY <1>3

LEMMA SumPlus ==
  ASSUME NEW f \in [Nat -> Int], NEW g \in [Nat -> Int], NEW h \in [Nat -> Int],
         \A k \in Nat : h[k] = f[k] + g[k]
  PROVE  \A n \in Nat : Sum(h, n) = Sum(f, n) + Sum(g, n)
<1> DEFINE T == {n \in Nat : Sum(h, n) = Sum(f, n) + Sum(g, n)}
<1>1. 0 \in T
  BY SumFacts
<1>2. ASSUME NEW n \in Nat, n \in T PROVE n + 1 \in T
  <2>1. Sum(h, n) = Sum(f, n) + Sum(g, n)
    BY <1>2
  <2>2. /\ Sum(f, n + 1) = Sum(f, n) + f[n + 1] /\ Sum(g, n + 1) = Sum(g, n) + g[n + 1]
        /\ Sum(h, n + 1) = Sum(h, n) + h[n + 1]
        /\ Sum(f, n) \in Int /\ Sum(g, n) \in Int
    BY SumFacts
  <2>3. f[n + 1] \in Int /\ g[n + 1] \in Int /\ h[n + 1] = f[n + 1] + g[n + 1]
    OBVIOUS
  <2>4. Sum(h, n + 1) = Sum(f, n + 1) + Sum(g, n + 1)
    <3> HIDE DEF T
    <3> QED
      BY <2>1, <2>2, <2>3
  <2> QED
    BY <2>4
<1>3. Nat \subseteq T
  <2> HIDE DEF T
  <2> QED
    BY <1>1, <1>2, Induction
<1> QED
  BY <1>3

\* A sum with no more terms than zeros after the m-th.
LEMMA SumRest ==
  ASSUME NEW f \in [Nat -> Int], NEW m \in Nat, \A k \in Nat : k > m => f[k] = 0
  PROVE  \A n \in Nat : n >= m => Sum(f, n) = Sum(f, m)
<1> DEFINE T == {n \in Nat : n >= m => Sum(f, n) = Sum(f, m)}
<1>1. 0 \in T
  OBVIOUS
<1>2. ASSUME NEW n \in Nat, n \in T PROVE n + 1 \in T
  <2>1. CASE n >= m
    <3>1. Sum(f, n) = Sum(f, m) /\ f[n + 1] = 0
      BY <1>2, <2>1
    <3>2. Sum(f, n + 1) = Sum(f, n) + f[n + 1] /\ Sum(f, m) \in Int
      BY SumFacts
    <3> QED
      BY <3>1, <3>2
  <2>2. CASE n + 1 = m
    BY <2>2
  <2> QED
    BY <2>1, <2>2
<1>3. Nat \subseteq T
  <2> HIDE DEF T
  <2> QED
    BY <1>1, <1>2, Induction
<1> QED
  BY <1>3
----------------------------------------------------------------------------
Arrival == [minute : Nat, frame : Frames, in : SUBSET (Granularity \cup {"buffer"})]

LEMMA FramesOf ==
  ASSUME NEW a \in Seq(Arrival), NEW i \in 1 .. Len(a)
  PROVE  a[i].frame \in [DOMAIN a[i].frame -> Int]
<1>1. a[i] \in Arrival
  OBVIOUS
<1> QED
  BY <1>1, TelemetryConstants DEF Arrival

LEMMA SamplesType ==
  ASSUME NEW a \in Seq(Arrival), NEW of \in SUBSET (1 .. Len(a)), NEW l
  PROVE  Samples(a, l, of) \in [Nat -> Int]
BY FramesOf DEF Samples

LEMMA TotalType ==
  ASSUME NEW a \in Seq(Arrival), NEW of \in SUBSET (1 .. Len(a)), NEW l
  PROVE  Total(a, l, of) \in Int
<1>1. Len(a) \in Nat
  OBVIOUS
<1> QED
  BY <1>1, SamplesType, SumFacts DEF Total

LEMMA TotalPlus ==
  ASSUME NEW a \in Seq(Arrival), NEW A \in SUBSET (1 .. Len(a)), NEW B \in SUBSET (1 .. Len(a)),
         A \cap B = {}, NEW l
  PROVE  Total(a, l, A \cup B) = Total(a, l, A) + Total(a, l, B)
<1>1. /\ Samples(a, l, A) \in [Nat -> Int] /\ Samples(a, l, B) \in [Nat -> Int]
      /\ Samples(a, l, A \cup B) \in [Nat -> Int] /\ Len(a) \in Nat
  BY SamplesType
<1>2. \A k \in Nat : Samples(a, l, A \cup B)[k] = Samples(a, l, A)[k] + Samples(a, l, B)[k]
  <2> TAKE k \in Nat
  <2>1. CASE k \in A /\ k \notin B
    BY <1>1, <2>1 DEF Samples
  <2>2. CASE k \in B /\ k \notin A
    BY <1>1, <2>2 DEF Samples
  <2>3. CASE k \notin A \cup B
    BY <2>3 DEF Samples
  <2> QED
    BY <2>1, <2>2, <2>3
<1>3. \A n \in Nat : Sum(Samples(a, l, A \cup B), n) = Sum(Samples(a, l, A), n) + Sum(Samples(a, l, B), n)
  BY <1>1, <1>2, SumPlus
<1> QED
  BY <1>1, <1>3 DEF Total

\* The sum depends on nothing but the samples.
LEMMA TotalSame ==
  ASSUME NEW a \in Seq(Arrival), NEW c \in Seq(Arrival), NEW of \in SUBSET (1 .. Len(a)), NEW l,
         Len(a) <= Len(c), \A i \in 1 .. Len(a) : c[i].frame = a[i].frame
  PROVE  Total(c, l, of) = Total(a, l, of)
<1> DEFINE f == Samples(a, l, of)
           g == Samples(c, l, of)
<1>1. Len(a) \in Nat /\ Len(c) \in Nat /\ of \in SUBSET (1 .. Len(c))
  OBVIOUS
<1>2. f \in [Nat -> Int] /\ g \in [Nat -> Int]
  BY <1>1, SamplesType
<1>3. \A k \in 1 .. Len(a) : f[k] = g[k]
  BY DEF Samples
<1>4. \A k \in Nat : k > Len(a) => g[k] = 0
  BY <1>1 DEF Samples
<1> HIDE DEF f, g
<1>5. Sum(f, Len(a)) = Sum(g, Len(a))
  BY <1>1, <1>2, <1>3, SumSame
<1>6. Sum(g, Len(c)) = Sum(g, Len(a))
  BY <1>1, <1>2, <1>4, SumRest
<1> QED
  BY <1>5, <1>6 DEF Total, f, g

LEMMA TotalOne ==
  ASSUME NEW a \in Seq(Arrival), NEW i \in 1 .. Len(a), NEW l
  PROVE  Total(a, l, {i}) = IF l \in DOMAIN a[i].frame THEN a[i].frame[l] ELSE 0
<1> DEFINE f == Samples(a, l, {i})
           none == [k \in Nat |-> 0]
<1>1. /\ Len(a) \in Nat /\ i \in Nat /\ i - 1 \in Nat /\ (i - 1) + 1 = i /\ i <= Len(a)
      /\ f \in [Nat -> Int] /\ none \in [Nat -> Int]
  BY SamplesType
<1>2. f[i] = IF l \in DOMAIN a[i].frame THEN a[i].frame[l] ELSE 0
  BY <1>1 DEF Samples
<1>3. \A k \in Nat : k # i => f[k] = 0
  BY DEF Samples
<1>4. none[0] = 0 /\ \A k \in Nat : none[k] = 0
  OBVIOUS
<1> HIDE DEF f, none
<1>5. Sum(f, i - 1) = Sum(none, i - 1)
  BY <1>1, <1>3, <1>4, SumSame
<1>6. Sum(none, i - 1) = 0
  <2>1. 0 \in Nat /\ i - 1 >= 0
    BY <1>1
  <2>2. Sum(none, i - 1) = Sum(none, 0)
    BY <1>1, <1>4, <2>1, SumRest
  <2> QED
    BY <1>1, <2>2, SumFacts
<1>7. Sum(f, i) = Sum(f, i - 1) + f[i]
  BY <1>1, SumFacts
<1>8. Sum(f, Len(a)) = Sum(f, i)
  <2>1. \A k \in Nat : k > i => f[k] = 0
    BY <1>1, <1>3
  <2>2. \A n \in Nat : n >= i => Sum(f, n) = Sum(f, i)
    BY <1>1, <2>1, SumRest
  <2> QED
    BY <1>1, <2>2
<1>9. f[i] \in Int
  BY <1>1
<1> QED
  BY <1>2, <1>5, <1>6, <1>7, <1>8, <1>9 DEF Total, f
----------------------------------------------------------------------------
Leaf == UNION {DOMAIN f : f \in Frames}
Readings(V) == UNION {[L -> V] : L \in SUBSET Leaf}

Average == Int \X (Nat \ {0})
RowType == [n : Nat \ {0}, avg : Readings(Average), max : Readings(Int)]
AccType == [minute : Nat, n : Nat, sum : Readings(Int), max : Readings(Int)]

LEMMA ReadingsIn ==
  ASSUME NEW V, NEW f \in Readings(V)
  PROVE  DOMAIN f \in SUBSET Leaf /\ f \in [DOMAIN f -> V]
BY DEF Readings

LEMMA ReadingsOut ==
  ASSUME NEW V, NEW L \in SUBSET Leaf, NEW f \in [L -> V]
  PROVE  f \in Readings(V)
BY DEF Readings

LEMMA FrameReads ==
  ASSUME NEW f \in Frames
  PROVE  f \in Readings(Int)
<1>1. DOMAIN f \in SUBSET Leaf /\ f \in [DOMAIN f -> Int]
  BY TelemetryConstants DEF Leaf
<1> QED
  BY <1>1, ReadingsOut

LEMMA PeakFacts ==
  ASSUME NEW f \in Readings(Int), NEW g \in Readings(Int)
  PROVE  /\ Peak(f, g) \in Readings(Int) /\ DOMAIN Peak(f, g) = DOMAIN f \cup DOMAIN g
         /\ \A l \in DOMAIN f : f[l] <= Peak(f, g)[l]
         /\ \A l \in DOMAIN g : g[l] <= Peak(f, g)[l]
         /\ \A l \in DOMAIN Peak(f, g) : (l \in DOMAIN f /\ Peak(f, g)[l] = f[l]) \/ (l \in DOMAIN g /\ Peak(f, g)[l] = g[l])
<1>1. /\ DOMAIN f \in SUBSET Leaf /\ f \in [DOMAIN f -> Int]
      /\ DOMAIN g \in SUBSET Leaf /\ g \in [DOMAIN g -> Int]
  BY ReadingsIn
<1>2. DOMAIN Peak(f, g) = DOMAIN f \cup DOMAIN g
  BY DEF Peak
<1>3. ASSUME NEW l \in DOMAIN f \cup DOMAIN g
      PROVE  /\ Peak(f, g)[l] \in Int
             /\ l \in DOMAIN f => f[l] <= Peak(f, g)[l]
             /\ l \in DOMAIN g => g[l] <= Peak(f, g)[l]
             /\ \/ l \in DOMAIN f /\ Peak(f, g)[l] = f[l]
                \/ l \in DOMAIN g /\ Peak(f, g)[l] = g[l]
  <2>1. Peak(f, g)[l] = IF l \notin DOMAIN g \/ (l \in DOMAIN f /\ f[l] > g[l]) THEN f[l] ELSE g[l]
    BY <1>3 DEF Peak
  <2>2. l \in DOMAIN f => f[l] \in Int
    BY <1>1
  <2>3. l \in DOMAIN g => g[l] \in Int
    BY <1>1
  <2> QED
    BY <1>3, <2>1, <2>2, <2>3
<1>4. Peak(f, g) \in [DOMAIN f \cup DOMAIN g -> Int]
  BY <1>3 DEF Peak
<1>5. Peak(f, g) \in Readings(Int)
  BY <1>1, <1>4, ReadingsOut
<1>6. \A l \in DOMAIN f \cup DOMAIN g :
        /\ l \in DOMAIN f => f[l] <= Peak(f, g)[l]
        /\ l \in DOMAIN g => g[l] <= Peak(f, g)[l]
        /\ \/ l \in DOMAIN f /\ Peak(f, g)[l] = f[l]
           \/ l \in DOMAIN g /\ Peak(f, g)[l] = g[l]
  BY <1>3
<1> DEFINE p == Peak(f, g)
<1>7. /\ p \in Readings(Int) /\ DOMAIN p = DOMAIN f \cup DOMAIN g
      /\ \A l \in DOMAIN f \cup DOMAIN g :
           /\ l \in DOMAIN f => f[l] <= p[l]
           /\ l \in DOMAIN g => g[l] <= p[l]
           /\ \/ l \in DOMAIN f /\ p[l] = f[l]
              \/ l \in DOMAIN g /\ p[l] = g[l]
  BY <1>2, <1>5, <1>6
<1> HIDE DEF p
<1>8. /\ \A l \in DOMAIN f : f[l] <= p[l]
      /\ \A l \in DOMAIN g : g[l] <= p[l]
      /\ \A l \in DOMAIN p : (l \in DOMAIN f /\ p[l] = f[l]) \/ (l \in DOMAIN g /\ p[l] = g[l])
  BY <1>7
<1> QED
  BY <1>7, <1>8 DEF p

----------------------------------------------------------------------------
\* What a maximum, and an average over the count n, say of the frames of.
PeakOf(a, max, of) ==
  /\ \A l : l \in DOMAIN max <=> \E i \in of : l \in DOMAIN a[i].frame
  /\ \A l \in DOMAIN max, i \in of : l \in DOMAIN a[i].frame => a[i].frame[l] <= max[l]
  /\ \A l \in DOMAIN max : \E i \in of : l \in DOMAIN a[i].frame /\ a[i].frame[l] = max[l]

MeanOf(a, avg, n, of) ==
  \A l \in DOMAIN avg : (\A i \in of : l \in DOMAIN a[i].frame) =>
    NearMean(avg[l], n, Total(a, l, of))

Describes(a, row, of) ==
  /\ row \in RowType /\ row.n = Cardinality(of) /\ DOMAIN row.avg = DOMAIN row.max
  /\ PeakOf(a, row.max, of) /\ MeanOf(a, row.avg, row.n, of)

LEMMA PeakOfBoth ==
  ASSUME NEW a \in Seq(Arrival), NEW A \in SUBSET (1 .. Len(a)), NEW B \in SUBSET (1 .. Len(a)),
         NEW f \in Readings(Int), NEW g \in Readings(Int), PeakOf(a, f, A), PeakOf(a, g, B)
  PROVE  PeakOf(a, Peak(f, g), A \cup B)
<1> DEFINE p == Peak(f, g)
<1>1. /\ p \in Readings(Int) /\ DOMAIN p = DOMAIN f \cup DOMAIN g
      /\ \A l \in DOMAIN f : f[l] <= p[l]
      /\ \A l \in DOMAIN g : g[l] <= p[l]
      /\ \A l \in DOMAIN p : (l \in DOMAIN f /\ p[l] = f[l]) \/ (l \in DOMAIN g /\ p[l] = g[l])
  BY PeakFacts
<1>2. /\ p \in [DOMAIN p -> Int] /\ f \in [DOMAIN f -> Int] /\ g \in [DOMAIN g -> Int]
  BY <1>1, ReadingsIn
<1> HIDE DEF p
<1>3. \A l : l \in DOMAIN p <=> \E i \in A \cup B : l \in DOMAIN a[i].frame
  BY <1>1 DEF PeakOf
<1>4. ASSUME NEW l \in DOMAIN p, NEW i \in A \cup B, l \in DOMAIN a[i].frame
      PROVE  a[i].frame[l] <= p[l]
  <2>1. a[i].frame[l] \in Int /\ p[l] \in Int
    <3>1. i \in 1 .. Len(a)
      OBVIOUS
    <3> QED
      BY <1>2, <1>4, <3>1, FramesOf
  <2>2. CASE i \in A
    <3>1. l \in DOMAIN f
      BY <1>4, <2>2 DEF PeakOf
    <3>2. a[i].frame[l] <= f[l] /\ f[l] <= p[l] /\ f[l] \in Int
      BY <1>1, <1>2, <1>4, <2>2, <3>1 DEF PeakOf
    <3> QED
      BY <2>1, <3>2
  <2>3. CASE i \in B
    <3>1. l \in DOMAIN g
      BY <1>4, <2>3 DEF PeakOf
    <3>2. a[i].frame[l] <= g[l] /\ g[l] <= p[l] /\ g[l] \in Int
      BY <1>1, <1>2, <1>4, <2>3, <3>1 DEF PeakOf
    <3> QED
      BY <2>1, <3>2
  <2> QED
    BY <2>2, <2>3
<1>5. ASSUME NEW l \in DOMAIN p
      PROVE  \E i \in A \cup B : l \in DOMAIN a[i].frame /\ a[i].frame[l] = p[l]
  BY <1>1 DEF PeakOf
<1> QED
  BY <1>3, <1>4, <1>5 DEF PeakOf, p

\* Rounding moves a fraction by at most half a grain.
LEMMA RoundedFacts ==
  ASSUME NEW x \in Average
  PROVE  /\ Rounded(x) \in Average /\ Rounded(x)[2] = Grain
         /\ 2 * x[2] * Rounded(x)[1] <= 2 * Grain * x[1] + x[2]
         /\ 2 * Grain * x[1] - x[2] <= 2 * x[2] * Rounded(x)[1]
<1> DEFINE q == 2 * x[2]
           p == 2 * Grain * x[1] + x[2]
           r == p \div q
<1>1. x[1] \in Int /\ x[2] \in Nat \ {0} /\ Grain \in Nat \ {0}
  BY TelemetryConstants DEF Average
<1>2. 2 * Grain * x[1] \in Int
  BY <1>1
<1>3. p \in Int /\ q \in Nat \ {0}
  BY <1>1, <1>2
<1>4. Rounded(x) = <<r, Grain>>
  BY DEF Rounded
<1>5. r \in Int /\ q * r <= p /\ p < q * r + q
  <2> HIDE DEF p, q
  <2> QED
    BY <1>3
<1>6. q * r <= p /\ p - 2 * x[2] <= q * r
  <2>1. q * r \in Int
    BY <1>3, <1>5
  <2> QED
    BY <1>3, <1>5, <2>1
<1> HIDE DEF r
<1>7. Rounded(x)[1] = r /\ Rounded(x)[2] = Grain /\ Rounded(x) \in Int \X (Nat \ {0})
  BY <1>1, <1>4, <1>5
<1>8. p - 2 * x[2] = 2 * Grain * x[1] - x[2]
  BY <1>1, <1>2
<1> QED
  BY <1>6, <1>7, <1>8 DEF Average

\* Two averages weighed by their counts are an average of the frames of both.
LEMMA WeighType ==
  ASSUME NEW x \in Average, NEW y \in Average, NEW n \in Nat \ {0}, NEW k \in Nat \ {0}
  PROVE  Weigh(x, n, y, k) \in Average
<1>1. x[1] \in Int /\ x[2] \in Nat \ {0} /\ y[1] \in Int /\ y[2] \in Nat \ {0}
  BY DEF Average
<1>2. x[1] * n * y[2] + y[1] * k * x[2] \in Int
  BY <1>1
<1>3. x[2] * y[2] \in Nat \ {0} /\ n + k \in Nat \ {0}
  BY <1>1
<1>4. x[2] * y[2] * (n + k) \in Nat \ {0}
  BY <1>3
<1> QED
  BY <1>2, <1>4 DEF Weigh, Average

\* The allowances of both parts and half a grain more are within that of the whole.
LEMMA DriftPlus ==
  ASSUME NEW n \in Nat \ {0}, NEW k \in Nat \ {0}
  PROVE  /\ Drift(n) \in Nat /\ Drift(k) \in Nat /\ Drift(n + k) \in Nat
         /\ Drift(n) + Drift(k) + 2 * (n + k) <= Drift(n + k)
<1>1. \A m \in Nat \ {0} : Drift(m) \in Nat /\ Drift(m) = m * m + m - 2
  BY DEF Drift
<1>2. n * k \in Int /\ n * n \in Int /\ k * k \in Int
  OBVIOUS
<1>3. (n + k) * (n + k) = n * n + 2 * (n * k) + k * k
  OBVIOUS
<1>4. n + k <= n * k + 1
  <2>1. (n - 1) * (k - 1) >= 0
    OBVIOUS
  <2>2. (n - 1) * (k - 1) = n * k - n - k + 1
    OBVIOUS
  <2> QED
    BY <1>2, <2>1, <2>2
<1>5. n + k \in Nat \ {0}
  OBVIOUS
<1>6. Drift(n) = n * n + n - 2 /\ Drift(k) = k * k + k - 2
  BY <1>1
<1>7. Drift(n + k) = n * n + 2 * (n * k) + k * k + (n + k) - 2
  BY <1>1, <1>3, <1>5
<1>8. Drift(n) \in Nat /\ Drift(k) \in Nat /\ Drift(n + k) \in Nat
  BY <1>1, <1>5
<1> QED
  BY <1>2, <1>4, <1>6, <1>7, <1>8

\* The rounded weighed average of two parts is as near to the mean of both as a row's.
LEMMA WeighFacts ==
  ASSUME NEW x \in Average, NEW y \in Average, NEW n \in Nat \ {0}, NEW k \in Nat \ {0},
         NEW s \in Int, NEW t \in Int, NearMean(x, n, s), NearMean(y, k, t)
  PROVE  NearMean(Rounded(Weigh(x, n, y, k)), n + k, s + t)
<1> DEFINE w == Weigh(x, n, y, k)
           r == Rounded(w)[1]
           d == x[2] * y[2]
           m == n + k
           ex == 4 * Grain * (x[1] * n - s * x[2])
           ey == 4 * Grain * (y[1] * k - t * y[2])
           dx == Drift(n)
           dy == Drift(k)
<1>1. /\ x[1] \in Int /\ x[2] \in Nat \ {0} /\ y[1] \in Int /\ y[2] \in Nat \ {0}
      /\ Grain \in Nat \ {0}
  BY TelemetryConstants DEF Average
<1>2. /\ x[1] * n - s * x[2] \in Int /\ y[1] * k - t * y[2] \in Int
      /\ d \in Nat \ {0} /\ m \in Nat \ {0}
  BY <1>1
<1>3. ex \in Int /\ ey \in Int
  BY <1>1, <1>2
<1>4. dx \in Nat /\ dy \in Nat /\ Drift(m) \in Nat /\ dx + dy + 2 * m <= Drift(m)
  BY DriftPlus
<1>5. -(dx * x[2]) <= ex /\ ex <= dx * x[2] /\ -(dy * y[2]) <= ey /\ ey <= dy * y[2]
  BY DEF NearMean
<1>6. w \in Average /\ w[1] = x[1] * n * y[2] + y[1] * k * x[2] /\ w[2] = d * m
  BY WeighType DEF Weigh
<1>7. /\ r \in Int /\ Rounded(w) \in Average /\ Rounded(w)[2] = Grain
      /\ 2 * w[2] * r <= 2 * Grain * w[1] + w[2]
      /\ 2 * Grain * w[1] - w[2] <= 2 * w[2] * r
  <2>1. Rounded(w)[1] \in Int
    BY <1>6, RoundedFacts DEF Average
  <2> QED
    BY <1>6, <2>1, RoundedFacts
\* How far the weighed average is off, over the common denominator.
<1>8. 4 * Grain * w[1] = ex * y[2] + ey * x[2] + 4 * Grain * ((s + t) * d)
  <2>1. x[1] * n * y[2] = (x[1] * n - s * x[2]) * y[2] + s * x[2] * y[2]
    BY <1>1
  <2>2. y[1] * k * x[2] = (y[1] * k - t * y[2]) * x[2] + t * x[2] * y[2]
    BY <1>1
  <2>3. s * x[2] * y[2] + t * x[2] * y[2] = (s + t) * d
    BY <1>1
  <2> DEFINE a == x[1] * n - s * x[2]
             b == y[1] * k - t * y[2]
             c == (s + t) * d
  <2>4. a \in Int /\ b \in Int /\ c \in Int
    BY <1>1, <1>2
  <2>5. w[1] = a * y[2] + b * x[2] + c
    <3>1. a * y[2] \in Int /\ b * x[2] \in Int /\ s * x[2] * y[2] \in Int /\ t * x[2] * y[2] \in Int
      BY <1>1, <2>4
    <3> HIDE DEF a, b, c, d
    <3> QED
      BY <1>6, <2>1, <2>2, <2>3, <2>4, <3>1 DEF a, b, c
  <2> HIDE DEF a, b, c, w, d
  <2>6. 4 * Grain * w[1] = (4 * Grain * a) * y[2] + (4 * Grain * b) * x[2] + 4 * Grain * c
    BY <1>1, <2>4, <2>5
  <2> QED
    BY <2>6 DEF a, b, c
<1>9. ex * y[2] <= dx * d /\ -(dx * d) <= ex * y[2] /\ ey * x[2] <= dy * d /\ -(dy * d) <= ey * x[2]
  <2>1. \A e, f \in Int, v \in Nat : e <= f => e * v <= f * v
    OBVIOUS
  <2>2. dx * x[2] \in Int /\ dy * y[2] \in Int /\ -(dx * x[2]) \in Int /\ -(dy * y[2]) \in Int
    BY <1>1, <1>4
  <2>3. /\ ex * y[2] <= (dx * x[2]) * y[2] /\ (-(dx * x[2])) * y[2] <= ex * y[2]
        /\ ey * x[2] <= (dy * y[2]) * x[2] /\ (-(dy * y[2])) * x[2] <= ey * x[2]
    BY <1>1, <1>3, <1>5, <2>1, <2>2
  <2> HIDE DEF ex, ey, dx, dy
  <2>4. (dx * x[2]) * y[2] = dx * d /\ (dy * y[2]) * x[2] = dy * d
    BY <1>1, <1>4
  <2>5. (-(dx * x[2])) * y[2] = -(dx * d) /\ (-(dy * y[2])) * x[2] = -(dy * d)
    BY <1>1, <1>4
  <2> QED
    BY <2>3, <2>4, <2>5
<1> DEFINE over == 4 * m * r - 4 * (Grain * (s + t))
<1>10. Grain * (s + t) \in Int /\ over \in Int /\ m * r \in Int
  <2> HIDE DEF r, w, m
  <2>1. m * r \in Int /\ 4 * m * r \in Int
    BY <1>2, <1>7
  <2>2. Grain * (s + t) \in Int
    BY <1>1
  <2> QED
    BY <2>1, <2>2
<1>11. over * d <= (dx + dy + 2 * m) * d /\ (-(dx + dy + 2 * m)) * d <= over * d
  <2> HIDE DEF w, r, ex, ey, dx, dy
  <2>1. d * m \in Int /\ dx * d \in Int /\ dy * d \in Int /\ ex * y[2] \in Int /\ ey * x[2] \in Int
        /\ Grain * w[1] \in Int /\ d * m * r \in Int /\ (s + t) * d \in Int /\ Grain * ((s + t) * d) \in Int
    <3>1. w[1] \in Int
      BY <1>6 DEF Average
    <3> HIDE DEF d, m
    <3> QED
      BY <1>1, <1>2, <1>3, <1>4, <1>7, <3>1
  <2>2. 4 * (d * m * r) <= 4 * (Grain * w[1]) + 2 * (d * m) /\ 4 * (Grain * w[1]) - 2 * (d * m) <= 4 * (d * m * r)
    <3> DEFINE dm == d * m
    <3>1. w[2] = dm /\ dm \in Int /\ w[1] \in Int /\ dm * r \in Int
      BY <1>6, <2>1 DEF Average
    <3> HIDE DEF dm, d, m
    <3>2. 2 * (dm * r) <= 2 * (Grain * w[1]) + dm /\ 2 * (Grain * w[1]) - dm <= 2 * (dm * r)
      BY <1>1, <1>7, <3>1
    <3>3. 4 * (dm * r) <= 4 * (Grain * w[1]) + 2 * dm /\ 4 * (Grain * w[1]) - 2 * dm <= 4 * (dm * r)
      BY <2>1, <3>1, <3>2
    <3> QED
      BY <3>3 DEF dm
  <2>3. over * d = 4 * (d * m * r) - 4 * (Grain * ((s + t) * d))
    <3> HIDE DEF d, m
    <3> QED
      BY <1>1, <1>2, <1>7 DEF over
  <2>4. (dx + dy + 2 * m) * d = dx * d + dy * d + 2 * (d * m)
    <3> HIDE DEF d, m
    <3> QED
      BY <1>2, <1>4
  <2>5. (-(dx + dy + 2 * m)) * d = -(dx * d) - dy * d - 2 * (d * m)
    <3> HIDE DEF d, m
    <3> QED
      BY <1>2, <1>4
  <2>6. 4 * (Grain * w[1]) = ex * y[2] + ey * x[2] + 4 * (Grain * ((s + t) * d))
    <3> DEFINE c == (s + t) * d
    <3>1. w[1] \in Int /\ c \in Int
      BY <1>6, <2>1 DEF Average
    <3>2. 4 * Grain * w[1] = ex * y[2] + ey * x[2] + 4 * Grain * c
      BY <1>8
    <3> HIDE DEF c
    <3> QED
      BY <1>1, <3>1, <3>2 DEF c
  <2> HIDE DEF d, m, over
  <2> QED
    BY <1>9, <2>1, <2>2, <2>3, <2>4, <2>5, <2>6
<1>12. over <= dx + dy + 2 * m /\ -(dx + dy + 2 * m) <= over
  <2>1. \A e, f \in Int, v \in Nat \ {0} : e * v <= f * v => e <= f
    OBVIOUS
  <2> HIDE DEF over, d, m, dx, dy
  <2> QED
    BY <1>2, <1>4, <1>10, <1>11, <2>1
<1>13. -Drift(m) <= over /\ over <= Drift(m)
  <2> HIDE DEF over, m, dx, dy
  <2> QED
    BY <1>2, <1>4, <1>10, <1>12
<1>14. 4 * Grain * (r * m - (s + t) * Grain) = over * Grain
  <2> HIDE DEF r, w, m
  <2> QED
    BY <1>1, <1>2, <1>7
<1>15. -(Drift(m) * Grain) <= over * Grain /\ over * Grain <= Drift(m) * Grain
  <2>1. \A e, f \in Int, v \in Nat : e <= f => e * v <= f * v
    OBVIOUS
  <2> DEFINE e == Drift(m)
  <2>2. e \in Int /\ -e \in Int /\ -e <= over /\ over <= e
    BY <1>4, <1>13
  <2> HIDE DEF over, e
  <2>3. (-e) * Grain <= over * Grain /\ over * Grain <= e * Grain
    BY <1>1, <1>10, <2>1, <2>2
  <2>4. (-e) * Grain = -(e * Grain)
    BY <1>1, <2>2
  <2> QED
    BY <2>3, <2>4 DEF e
<1>16. -(Drift(m) * Rounded(w)[2]) <= 4 * Grain * (Rounded(w)[1] * m - (s + t) * Rounded(w)[2])
  <2> HIDE DEF w, m, over
  <2> QED
    BY <1>7, <1>14, <1>15
<1>17. 4 * Grain * (Rounded(w)[1] * m - (s + t) * Rounded(w)[2]) <= Drift(m) * Rounded(w)[2]
  <2> HIDE DEF w, m, over
  <2> QED
    BY <1>7, <1>14, <1>15
<1>18. NearMean(Rounded(w), m, s + t)
  <2> HIDE DEF w, m
  <2> QED
    BY <1>16, <1>17 DEF NearMean
<1> QED
  BY <1>18

LEMMA MergeType ==
  ASSUME NEW x \in RowType, NEW y \in RowType
  PROVE  /\ Merge(x, y) \in RowType /\ Merge(x, y).n = x.n + y.n
         /\ Merge(x, y).max = Peak(x.max, y.max)
         /\ DOMAIN Merge(x, y).avg = DOMAIN x.avg \cup DOMAIN y.avg
         /\ \A l \in DOMAIN x.avg \cap DOMAIN y.avg :
              Merge(x, y).avg[l] = Rounded(Weigh(x.avg[l], x.n, y.avg[l], y.n))
<1> DEFINE avg == [l \in DOMAIN x.avg \cup DOMAIN y.avg |->
                     IF l \notin DOMAIN y.avg THEN x.avg[l]
                     ELSE Rounded(IF l \in DOMAIN x.avg THEN Weigh(x.avg[l], x.n, y.avg[l], y.n)
                                  ELSE y.avg[l])]
<1>1. Merge(x, y) = [n |-> x.n + y.n, avg |-> avg, max |-> Peak(x.max, y.max)]
  BY DEF Merge
<1>2. /\ x.n \in Nat \ {0} /\ y.n \in Nat \ {0}
      /\ x.max \in Readings(Int) /\ y.max \in Readings(Int)
      /\ x.avg \in Readings(Average) /\ y.avg \in Readings(Average)
  BY DEF RowType
<1>3. /\ DOMAIN x.avg \in SUBSET Leaf /\ x.avg \in [DOMAIN x.avg -> Average]
      /\ DOMAIN y.avg \in SUBSET Leaf /\ y.avg \in [DOMAIN y.avg -> Average]
  BY <1>2, ReadingsIn
<1>4. ASSUME NEW l \in DOMAIN x.avg \cup DOMAIN y.avg PROVE avg[l] \in Average
  <2>1. CASE l \in DOMAIN x.avg /\ l \in DOMAIN y.avg
    <3>1. x.avg[l] \in Average /\ y.avg[l] \in Average
      BY <1>3, <2>1
    <3>2. Rounded(Weigh(x.avg[l], x.n, y.avg[l], y.n)) \in Average
      BY <1>2, <3>1, WeighType, RoundedFacts
    <3>3. avg[l] = Rounded(Weigh(x.avg[l], x.n, y.avg[l], y.n))
      BY <2>1
    <3> QED
      BY <3>2, <3>3
  <2>2. CASE l \notin DOMAIN y.avg
    BY <1>3, <2>2
  <2>3. CASE l \notin DOMAIN x.avg /\ l \in DOMAIN y.avg
    <3>1. y.avg[l] \in Average
      BY <1>3, <2>3
    <3>2. avg[l] = Rounded(y.avg[l])
      BY <2>3
    <3> QED
      BY <3>1, <3>2, RoundedFacts
  <2> QED
    BY <2>1, <2>2, <2>3
<1>5. avg \in [DOMAIN x.avg \cup DOMAIN y.avg -> Average]
  BY <1>4
<1>6. avg \in Readings(Average)
  <2>1. DOMAIN x.avg \cup DOMAIN y.avg \in SUBSET Leaf
    BY <1>3
  <2> HIDE DEF avg
  <2> QED
    BY <1>5, <2>1, ReadingsOut
<1>7. Peak(x.max, y.max) \in Readings(Int)
  BY <1>2, PeakFacts
<1>8. \A l \in DOMAIN x.avg \cap DOMAIN y.avg : avg[l] = Rounded(Weigh(x.avg[l], x.n, y.avg[l], y.n))
  OBVIOUS
<1>9. DOMAIN avg = DOMAIN x.avg \cup DOMAIN y.avg
  OBVIOUS
<1> HIDE DEF avg
<1> QED
  BY <1>1, <1>2, <1>6, <1>7, <1>8, <1>9 DEF RowType

LEMMA MergeDescribes ==
  ASSUME NEW a \in Seq(Arrival), NEW A \in SUBSET (1 .. Len(a)), NEW B \in SUBSET (1 .. Len(a)),
         A \cap B = {}, NEW x, NEW y, Describes(a, x, A), Describes(a, y, B)
  PROVE  Describes(a, Merge(x, y), A \cup B)
<1> DEFINE z == Merge(x, y)
<1>1. /\ x \in RowType /\ x.n = Cardinality(A) /\ DOMAIN x.avg = DOMAIN x.max
      /\ PeakOf(a, x.max, A) /\ MeanOf(a, x.avg, x.n, A)
  BY DEF Describes
<1>2. /\ y \in RowType /\ y.n = Cardinality(B) /\ DOMAIN y.avg = DOMAIN y.max
      /\ PeakOf(a, y.max, B) /\ MeanOf(a, y.avg, y.n, B)
  BY DEF Describes
<1>3. /\ z \in RowType /\ z.n = x.n + y.n /\ z.max = Peak(x.max, y.max)
      /\ DOMAIN z.avg = DOMAIN x.avg \cup DOMAIN y.avg
      /\ \A l \in DOMAIN x.avg \cap DOMAIN y.avg : z.avg[l] = Rounded(Weigh(x.avg[l], x.n, y.avg[l], y.n))
  BY <1>1, <1>2, MergeType
<1>4. /\ x.n \in Nat \ {0} /\ y.n \in Nat \ {0} /\ x.max \in Readings(Int) /\ y.max \in Readings(Int)
      /\ x.avg \in Readings(Average) /\ y.avg \in Readings(Average)
  BY <1>1, <1>2 DEF RowType
<1> HIDE DEF z
<1>5. z.n = Cardinality(A \cup B) /\ A # {} /\ B # {}
  <2>1. Len(a) \in Nat /\ IsFiniteSet(1 .. Len(a))
    BY FS_Interval
  <2>2. IsFiniteSet(A) /\ IsFiniteSet(B)
    BY <2>1, FS_Subset
  <2>3. Cardinality(A \cup B) = Cardinality(A) + Cardinality(B) - Cardinality(A \cap B)
    BY <2>2, FS_Union
  <2>4. Cardinality({}) = 0
    BY FS_EmptySet
  <2>5. A # {} /\ B # {}
    BY <1>1, <1>2, <1>4, <2>4
  <2>6. Cardinality(A \cup B) = x.n + y.n - 0
    BY <1>1, <1>2, <2>3, <2>4
  <2> QED
    BY <1>3, <1>4, <2>5, <2>6
<1>6. PeakOf(a, z.max, A \cup B)
  BY <1>1, <1>2, <1>3, <1>4, PeakOfBoth
<1>7. DOMAIN z.avg = DOMAIN z.max
  <2>1. DOMAIN Peak(x.max, y.max) = DOMAIN x.max \cup DOMAIN y.max
    BY <1>4, PeakFacts
  <2> QED
    BY <1>1, <1>2, <1>3, <2>1
<1>8. ASSUME NEW l \in DOMAIN z.avg, \A i \in A \cup B : l \in DOMAIN a[i].frame
      PROVE  NearMean(z.avg[l], z.n, Total(a, l, A \cup B))
  <2>1. l \in DOMAIN x.avg /\ l \in DOMAIN y.avg
    BY <1>1, <1>2, <1>5, <1>8 DEF PeakOf
  <2> DEFINE u == x.avg[l]
             v == y.avg[l]
             s == Total(a, l, A)
             t == Total(a, l, B)
  <2>2. u \in Average /\ v \in Average
    BY <1>4, <2>1, ReadingsIn
  <2>3. NearMean(u, x.n, s) /\ NearMean(v, y.n, t)
    BY <1>1, <1>2, <1>8, <2>1 DEF MeanOf
  <2>4. s \in Int /\ t \in Int /\ Total(a, l, A \cup B) = s + t
    BY TotalType, TotalPlus
  <2>5. z.avg[l] = Rounded(Weigh(u, x.n, v, y.n))
    BY <1>3, <2>1
  <2> HIDE DEF u, v, s, t
  <2>6. NearMean(Rounded(Weigh(u, x.n, v, y.n)), x.n + y.n, s + t)
    BY <1>4, <2>2, <2>3, <2>4, WeighFacts
  <2> QED
    BY <1>3, <2>4, <2>5, <2>6
<1>9. MeanOf(a, z.avg, z.n, A \cup B)
  BY <1>8 DEF MeanOf
<1>10. Describes(a, z, A \cup B)
  BY <1>3, <1>5, <1>6, <1>7, <1>9 DEF Describes
<1> QED
  BY <1>10 DEF z
----------------------------------------------------------------------------
\* A buffered minute has the sums of the frames of.
Sums(a, acc, of) ==
  /\ acc \in AccType /\ acc.n = Cardinality(of) /\ DOMAIN acc.sum = DOMAIN acc.max
  /\ PeakOf(a, acc.max, of)
  /\ \A l \in DOMAIN acc.sum : acc.sum[l] = Total(a, l, of)

LEMMA RowOfDescribes ==
  ASSUME NEW a \in Seq(Arrival), NEW of \in SUBSET (1 .. Len(a)), of # {}, NEW acc, Sums(a, acc, of)
  PROVE  Describes(a, RowOf(acc), of)
<1> DEFINE avg == [l \in DOMAIN acc.sum |-> Fraction(acc.sum[l], acc.n)]
<1>1. /\ acc \in AccType /\ acc.n = Cardinality(of) /\ DOMAIN acc.sum = DOMAIN acc.max
      /\ PeakOf(a, acc.max, of) /\ acc.n \in Nat
      /\ acc.sum \in Readings(Int) /\ acc.max \in Readings(Int)
  BY DEF Sums, AccType
<1>2. acc.n \in Nat \ {0}
  <2>1. Len(a) \in Nat /\ IsFiniteSet(1 .. Len(a))
    BY FS_Interval
  <2>2. IsFiniteSet(of)
    BY <2>1, FS_Subset
  <2>3. Cardinality(of) # 0
    BY <2>2, FS_EmptySet
  <2> QED
    BY <1>1, <2>3
<1>3. DOMAIN acc.sum \in SUBSET Leaf /\ acc.sum \in [DOMAIN acc.sum -> Int]
  BY <1>1, ReadingsIn
<1>4. ASSUME NEW l \in DOMAIN acc.sum
      PROVE  /\ avg[l] \in Average
             /\ NearMean(avg[l], acc.n, Total(a, l, of))
  <2>1. acc.sum[l] \in Int /\ acc.sum[l] = Total(a, l, of)
    BY <1>3 DEF Sums
  <2>2. avg[l] = Fraction(acc.sum[l], acc.n)
    OBVIOUS
  <2>3. /\ Fraction(acc.sum[l], acc.n) \in Average
        /\ Fraction(acc.sum[l], acc.n)[1] * acc.n = acc.sum[l] * Fraction(acc.sum[l], acc.n)[2]
    BY <1>2, <2>1, FractionFacts DEF Average
  <2> DEFINE v == Fraction(acc.sum[l], acc.n)
             n == acc.n
             s == acc.sum[l]
  <2>4. n \in Nat \ {0} /\ s \in Int /\ v[1] \in Int /\ v[2] \in Nat \ {0} /\ v[1] * n = s * v[2]
    BY <1>2, <2>1, <2>3 DEF Average
  <2> HIDE DEF v, n, s
  <2>5. Drift(n) \in Nat
    BY <2>4 DEF Drift
  <2>6. Drift(n) * v[2] \in Nat /\ v[1] * n - s * v[2] = 0
    BY <2>4, <2>5
  <2>7. NearMean(v, n, s)
    <3> DEFINE off == v[1] * n - s * v[2]
               allowed == Drift(n) * v[2]
    <3>1. 4 * Grain * off = 0 /\ -allowed <= 0 /\ 0 <= allowed
      <4>1. off = 0 /\ allowed \in Nat /\ Grain \in Nat
        BY <2>6, TelemetryConstants
      <4> HIDE DEF off, allowed
      <4> QED
        BY <4>1
    <3> QED
      BY <3>1 DEF NearMean
  <2> QED
    BY <2>1, <2>2, <2>3, <2>7 DEF v, n, s
<1>5. DOMAIN avg = DOMAIN acc.sum /\ avg \in [DOMAIN acc.sum -> Average]
  BY <1>4
<1>6. RowOf(acc) = [n |-> acc.n, avg |-> avg, max |-> acc.max]
  BY DEF RowOf
<1> HIDE DEF avg
<1>7. avg \in Readings(Average)
  BY <1>3, <1>5, ReadingsOut
<1>8. MeanOf(a, avg, acc.n, of)
  BY <1>4, <1>5 DEF MeanOf
<1>9. RowOf(acc) \in RowType
  BY <1>1, <1>2, <1>6, <1>7 DEF RowType
<1> QED
  BY <1>1, <1>5, <1>6, <1>8, <1>9 DEF Describes

LEMMA NoFramesSums ==
  ASSUME NEW a \in Seq(Arrival), NEW minute \in Nat
  PROVE  Sums(a, NoFrames(minute), {})
<1> DEFINE none == << >>
<1>1. none \in [{} -> Int] /\ DOMAIN none = {}
  OBVIOUS
<1>2. none \in Readings(Int)
  <2>1. {} \in SUBSET Leaf
    OBVIOUS
  <2> HIDE DEF none
  <2> QED
    BY <1>1, <2>1, ReadingsOut
<1>3. NoFrames(minute) = [minute |-> minute, n |-> 0, sum |-> none, max |-> none]
  BY DEF NoFrames
<1> HIDE DEF none
<1>4. NoFrames(minute) \in AccType
  BY <1>2, <1>3 DEF AccType
<1>5. Cardinality({}) = 0
  BY FS_EmptySet
<1>6. PeakOf(a, none, {})
  BY <1>1 DEF PeakOf
<1> QED
  BY <1>1, <1>3, <1>4, <1>5, <1>6 DEF Sums

\* A frame more.
LEMMA AccumulateSums ==
  ASSUME NEW a \in Seq(Arrival), NEW of \in SUBSET (1 .. Len(a)), NEW i \in (1 .. Len(a)) \ of,
         NEW acc, Sums(a, acc, of)
  PROVE  Sums(a, Accumulate(acc, a[i].frame), of \cup {i})
<1> DEFINE f == a[i].frame
           sum == [l \in DOMAIN acc.sum \cup DOMAIN f |->
                     (IF l \in DOMAIN acc.sum THEN acc.sum[l] ELSE 0) + (IF l \in DOMAIN f THEN f[l] ELSE 0)]
           new == Accumulate(acc, f)
<1>1. /\ acc \in AccType /\ acc.n = Cardinality(of) /\ DOMAIN acc.sum = DOMAIN acc.max
      /\ PeakOf(a, acc.max, of) /\ acc.n \in Nat /\ acc.minute \in Nat
      /\ acc.sum \in Readings(Int) /\ acc.max \in Readings(Int)
  BY DEF Sums, AccType
<1>2. f \in Frames
  <2>1. a[i] \in Arrival
    OBVIOUS
  <2> QED
    BY <2>1 DEF Arrival
<1>3. /\ f \in Readings(Int) /\ DOMAIN f \in SUBSET Leaf /\ f \in [DOMAIN f -> Int]
      /\ DOMAIN acc.sum \in SUBSET Leaf /\ acc.sum \in [DOMAIN acc.sum -> Int]
  BY <1>1, <1>2, FrameReads, ReadingsIn
<1>4. new = [minute |-> acc.minute, n |-> acc.n + 1, sum |-> sum, max |-> Peak(acc.max, f)]
  BY DEF Accumulate
<1>5. ASSUME NEW l \in DOMAIN acc.sum \cup DOMAIN f
      PROVE  sum[l] \in Int /\ sum[l] = Total(a, l, of \cup {i})
  <2>1. sum[l] = (IF l \in DOMAIN acc.sum THEN acc.sum[l] ELSE 0) + (IF l \in DOMAIN f THEN f[l] ELSE 0)
    BY <1>5
  <2>2. Total(a, l, of \cup {i}) = Total(a, l, of) + Total(a, l, {i})
    BY TotalPlus
  <2>3. Total(a, l, {i}) = IF l \in DOMAIN f THEN f[l] ELSE 0
    BY TotalOne
  <2>4. Total(a, l, of) = IF l \in DOMAIN acc.sum THEN acc.sum[l] ELSE 0
    <3>1. CASE l \in DOMAIN acc.sum
      BY <3>1 DEF Sums
    <3>2. CASE l \notin DOMAIN acc.sum
      <4>1. \A k \in of : l \notin DOMAIN a[k].frame
        BY <1>1, <3>2 DEF PeakOf
      <4>2. Samples(a, l, of) = Samples(a, l, {})
        BY <4>1 DEF Samples
      <4>3. Total(a, l, of) = Total(a, l, {})
        BY <4>2 DEF Total
      <4>4. {} \in SUBSET (1 .. Len(a)) /\ {} \cup {} = {} /\ {} \cap {} = {}
        OBVIOUS
      <4>5. Total(a, l, {}) = Total(a, l, {}) + Total(a, l, {}) /\ Total(a, l, {}) \in Int
        BY <4>4, TotalPlus, TotalType
      <4>6. Total(a, l, {}) = 0
        BY <4>5
      <4> QED
        BY <3>2, <4>3, <4>6
    <3> QED
      BY <3>1, <3>2
  <2>5. (IF l \in DOMAIN acc.sum THEN acc.sum[l] ELSE 0) \in Int /\ (IF l \in DOMAIN f THEN f[l] ELSE 0) \in Int
    BY <1>3
  <2> HIDE DEF f, sum
  <2> QED
    BY <2>1, <2>2, <2>3, <2>4, <2>5
<1>6. DOMAIN sum = DOMAIN acc.sum \cup DOMAIN f /\ sum \in [DOMAIN acc.sum \cup DOMAIN f -> Int]
  BY <1>5
<1>7. sum \in Readings(Int)
  <2> HIDE DEF sum, f
  <2> QED
    BY <1>3, <1>6, ReadingsOut
<1>8. PeakOf(a, f, {i})
  <2>1. \A l \in DOMAIN f : f[l] \in Int
    BY <1>3
  <2> QED
    BY <2>1 DEF PeakOf
<1>9. Peak(acc.max, f) \in Readings(Int) /\ DOMAIN Peak(acc.max, f) = DOMAIN acc.max \cup DOMAIN f
  <2> HIDE DEF f
  <2> QED
    BY <1>1, <1>3, PeakFacts
<1>10. PeakOf(a, Peak(acc.max, f), of \cup {i})
  <2> HIDE DEF f
  <2>1. {i} \in SUBSET (1 .. Len(a))
    OBVIOUS
  <2> QED
    BY <1>1, <1>3, <1>8, <2>1, PeakOfBoth
<1>11. acc.n + 1 = Cardinality(of \cup {i})
  <2>1. Len(a) \in Nat /\ IsFiniteSet(1 .. Len(a))
    BY FS_Interval
  <2>2. IsFiniteSet(of)
    BY <2>1, FS_Subset
  <2> QED
    BY <1>1, <2>2, FS_AddElement
<1>12. acc.n + 1 \in Nat
  BY <1>1
<1> HIDE DEF f, sum, new
<1>13. new \in AccType
  BY <1>1, <1>4, <1>7, <1>9, <1>12 DEF AccType
<1>14. Sums(a, new, of \cup {i})
  BY <1>1, <1>4, <1>5, <1>6, <1>9, <1>10, <1>11, <1>13 DEF Sums
<1> QED
  BY <1>14 DEF new, f
----------------------------------------------------------------------------
Table == UNION {[B -> RowType] : B \in SUBSET Nat}
TableSet == [Granularity -> Table]

In(a, g, b) == {i \in 1 .. Len(a) : g \in a[i].in /\ Bucket(a[i].minute, g) = b}
Waiting(a, m) == {i \in 1 .. Len(a) : a[i].in = {"buffer"} /\ a[i].minute = m}

\* What is counted in a table is not in the buffer.
Placed(a) == \A i \in 1 .. Len(a) : a[i].in = {"buffer"} \/ a[i].in \in SUBSET Granularity

\* Every row describes the frames that are counted in its bucket.
Accounted(a, tables) ==
  \A g \in Granularity, b \in Nat :
    IF b \in DOMAIN tables[g] THEN Describes(a, tables[g][b], In(a, g, b)) ELSE In(a, g, b) = {}

\* The frames of a minute leave the buffer for the tables.
Mark(a, m) == [i \in 1 .. Len(a) |-> IF i \in Waiting(a, m) THEN [a[i] EXCEPT !.in = Granularity] ELSE a[i]]

LEMMA TableIn ==
  ASSUME NEW t \in Table
  PROVE  DOMAIN t \in SUBSET Nat /\ t \in [DOMAIN t -> RowType]
BY DEF Table

LEMMA TableOut ==
  ASSUME NEW B \in SUBSET Nat, NEW t \in [B -> RowType]
  PROVE  t \in Table
BY DEF Table

LEMMA SameFrames ==
  ASSUME NEW a \in Seq(Arrival), NEW c \in Seq(Arrival), NEW of \in SUBSET (1 .. Len(a)),
         Len(a) <= Len(c), \A i \in 1 .. Len(a) : c[i].frame = a[i].frame
  PROVE  /\ \A row : Describes(a, row, of) => Describes(c, row, of)
         /\ \A acc : Sums(a, acc, of) => Sums(c, acc, of)
<1>1. \A i \in of : c[i].frame = a[i].frame
  OBVIOUS
<1>2. \A l : Total(c, l, of) = Total(a, l, of)
  BY TotalSame
<1>3. \A max : PeakOf(a, max, of) => PeakOf(c, max, of)
  BY <1>1 DEF PeakOf
<1>4. \A avg, n : MeanOf(a, avg, n, of) => MeanOf(c, avg, n, of)
  BY <1>1, <1>2 DEF MeanOf
<1> QED
  BY <1>2, <1>3, <1>4 DEF Describes, Sums

LEMMA BucketFacts ==
  ASSUME NEW m \in Nat, NEW g \in Granularity
  PROVE  Bucket(m, g) \in Nat /\ Bucket(m, g) <= m /\ m < Bucket(m, g) + Width[g] /\ Width[g] \in Nat \ {0}
<1> DEFINE w == Width[g]
<1>1. w \in Nat \ {0}
  BY TelemetryConstants
<1> HIDE DEF w
<1>2. (m \div w) * w \in Nat /\ (m \div w) * w <= m /\ m < (m \div w) * w + w
  BY <1>1
<1> QED
  BY <1>1, <1>2 DEF Bucket, w

LEMMA MarkFacts ==
  ASSUME NEW a \in Seq(Arrival), NEW m \in Nat, Placed(a)
  PROVE  /\ Mark(a, m) \in Seq(Arrival) /\ Len(Mark(a, m)) = Len(a) /\ Placed(Mark(a, m))
         /\ \A i \in 1 .. Len(a) : Mark(a, m)[i].frame = a[i].frame /\ Mark(a, m)[i].minute = a[i].minute
         /\ \A g \in Granularity, b \in Nat :
              In(Mark(a, m), g, b) = IF b = Bucket(m, g) THEN In(a, g, b) \cup Waiting(a, m) ELSE In(a, g, b)
         /\ \A g \in Granularity, b \in Nat : In(a, g, b) \cap Waiting(a, m) = {}
         /\ \A k \in Nat : Waiting(Mark(a, m), k) = IF k = m THEN {} ELSE Waiting(a, k)
<1> DEFINE c == Mark(a, m)
<1>1. \A i \in 1 .. Len(a) : a[i] \in Arrival
  OBVIOUS
<1>2. Len(a) \in Nat
  OBVIOUS
<1>3. \A i \in 1 .. Len(a) : c[i] = IF i \in Waiting(a, m) THEN [a[i] EXCEPT !.in = Granularity] ELSE a[i]
  BY DEF Mark
<1>4. \A i \in 1 .. Len(a) :
        /\ c[i] \in Arrival /\ c[i].frame = a[i].frame /\ c[i].minute = a[i].minute
        /\ c[i].in = IF i \in Waiting(a, m) THEN Granularity ELSE a[i].in
  BY <1>1, <1>3 DEF Arrival
<1>5. c \in Seq(Arrival) /\ Len(c) = Len(a)
  <2>1. c \in [1 .. Len(a) -> Arrival]
    BY <1>4 DEF Mark
  <2> HIDE DEF c
  <2> QED
    BY <1>2, <2>1
<1>6. \A g \in Granularity : g # "buffer" /\ g \notin {"buffer"}
  BY DEF Granularity
<1> HIDE DEF c
<1>7. Placed(c)
  BY <1>4, <1>5 DEF Placed
<1>8. ASSUME NEW g \in Granularity, NEW b \in Nat
      PROVE  /\ In(c, g, b) = IF b = Bucket(m, g) THEN In(a, g, b) \cup Waiting(a, m) ELSE In(a, g, b)
             /\ In(a, g, b) \cap Waiting(a, m) = {}
  <2>1. \A i \in 1 .. Len(a) : i \in In(c, g, b) <=> (g \in c[i].in /\ Bucket(a[i].minute, g) = b)
    BY <1>4, <1>5 DEF In
  <2>2. \A i \in Waiting(a, m) : i \in 1 .. Len(a) /\ a[i].minute = m /\ g \notin a[i].in
    BY <1>6 DEF Waiting
  <2>3. In(a, g, b) \cap Waiting(a, m) = {}
    BY <2>2 DEF In
  <2>4. \A i \in 1 .. Len(a) : i \in In(c, g, b) <=>
          (i \in In(a, g, b) \/ (i \in Waiting(a, m) /\ b = Bucket(m, g)))
    BY <1>4, <2>1, <2>2 DEF In
  <2>5. In(c, g, b) \subseteq 1 .. Len(a) /\ In(a, g, b) \subseteq 1 .. Len(a) /\ Waiting(a, m) \subseteq 1 .. Len(a)
    BY <1>5 DEF In, Waiting
  <2> QED
    BY <2>3, <2>4, <2>5
<1>9. ASSUME NEW k \in Nat PROVE Waiting(c, k) = IF k = m THEN {} ELSE Waiting(a, k)
  <2>1. Granularity # {"buffer"}
    BY DEF Granularity
  <2>2. \A i \in 1 .. Len(a) : i \in Waiting(c, k) <=> (c[i].in = {"buffer"} /\ a[i].minute = k)
    BY <1>4, <1>5 DEF Waiting
  <2>3. \A i \in 1 .. Len(a) : i \in Waiting(c, k) <=> (i \notin Waiting(a, m) /\ i \in Waiting(a, k))
    BY <1>4, <2>1, <2>2 DEF Waiting
  <2>4. \A i \in Waiting(a, k) : i \in Waiting(a, m) <=> k = m
    BY DEF Waiting
  <2>5. Waiting(c, k) \subseteq 1 .. Len(a) /\ Waiting(a, k) \subseteq 1 .. Len(a)
    BY <1>5 DEF Waiting
  <2> QED
    BY <2>3, <2>4, <2>5
<1> QED
  BY <1>4, <1>5, <1>7, <1>8, <1>9 DEF c

LEMMA StoreFacts ==
  ASSUME NEW tables \in TableSet, NEW acc, acc.minute \in Nat, RowOf(acc) \in RowType
  PROVE  /\ Store(tables, acc, Granularity) \in TableSet
         /\ \A g \in Granularity :
              LET new == Store(tables, acc, Granularity)
                  d == Bucket(acc.minute, g)
              IN /\ DOMAIN new[g] = DOMAIN tables[g] \cup {d}
                 /\ \A b \in DOMAIN new[g] : b # d => new[g][b] = tables[g][b]
                 /\ new[g][d] = IF d \in DOMAIN tables[g] THEN Merge(tables[g][d], RowOf(acc)) ELSE RowOf(acc)
<1> DEFINE m == acc.minute
           new == Store(tables, acc, Granularity)
           row == RowOf(acc)
<1> HIDE DEF row
<1>1. ASSUME NEW g \in Granularity
      PROVE  /\ new[g] \in Table
             /\ DOMAIN new[g] = DOMAIN tables[g] \cup {Bucket(m, g)}
             /\ \A b \in DOMAIN new[g] : b # Bucket(m, g) => new[g][b] = tables[g][b]
             /\ new[g][Bucket(m, g)] = IF Bucket(m, g) \in DOMAIN tables[g]
                                       THEN Merge(tables[g][Bucket(m, g)], row) ELSE row
  <2> DEFINE d == Bucket(m, g)
             t == tables[g]
  <2>1. new[g] = [b \in DOMAIN t \cup {d} |->
                    IF b # d THEN t[b] ELSE IF b \in DOMAIN t THEN Merge(t[b], row) ELSE row]
    BY DEF Store, MergeInto, row, m
  <2>2. t \in Table
    BY DEF TableSet
  <2>3. DOMAIN t \in SUBSET Nat /\ t \in [DOMAIN t -> RowType]
    BY <2>2, TableIn
  <2>4. d \in Nat
    BY BucketFacts
  <2> HIDE DEF d, t
  <2>5. \A b \in DOMAIN t : Merge(t[b], row) \in RowType
    BY <2>3, MergeType DEF row
  <2>6. new[g] \in [DOMAIN t \cup {d} -> RowType]
    BY <2>1, <2>3, <2>5 DEF row
  <2>7. DOMAIN t \cup {d} \in SUBSET Nat
    BY <2>3, <2>4
  <2>8. new[g] \in Table
    <3> HIDE DEF new
    <3> QED
      BY <2>6, <2>7, TableOut
  <2> QED
    BY <2>1, <2>8 DEF d, t
<1>2. new \in TableSet
  BY <1>1 DEF TableSet, Store
<1> QED
  BY <1>1, <1>2 DEF row

LEMMA StoreStep ==
  ASSUME NEW a \in Seq(Arrival), NEW tables \in TableSet, Placed(a), Accounted(a, tables),
         NEW acc, Waiting(a, acc.minute) # {}, Sums(a, acc, Waiting(a, acc.minute))
  PROVE  /\ Store(tables, acc, Granularity) \in TableSet
         /\ Accounted(Mark(a, acc.minute), Store(tables, acc, Granularity))
<1> DEFINE m == acc.minute
           c == Mark(a, m)
           new == Store(tables, acc, Granularity)
           row == RowOf(acc)
           of == Waiting(a, m)
<1>1. m \in Nat /\ of \in SUBSET (1 .. Len(a))
  BY DEF Sums, AccType, Waiting
<1>2. Describes(a, row, of) /\ row \in RowType
  <2>1. Describes(a, row, of)
    BY <1>1, RowOfDescribes
  <2> QED
    BY <2>1 DEF Describes
<1>3. /\ c \in Seq(Arrival) /\ Len(c) = Len(a)
      /\ \A i \in 1 .. Len(a) : c[i].frame = a[i].frame
      /\ \A g \in Granularity, b \in Nat :
           In(c, g, b) = IF b = Bucket(m, g) THEN In(a, g, b) \cup of ELSE In(a, g, b)
      /\ \A g \in Granularity, b \in Nat : In(a, g, b) \cap of = {}
  BY <1>1, MarkFacts
<1>4. \A s, r : s \in SUBSET (1 .. Len(a)) /\ Describes(a, r, s) => Describes(c, r, s)
  <2> HIDE DEF c
  <2>1. Len(a) \in Nat /\ Len(a) <= Len(c)
    BY <1>3
  <2> QED
    BY <1>3, <2>1, SameFrames
<1>5. \A g \in Granularity, b \in Nat : In(a, g, b) \in SUBSET (1 .. Len(a))
  BY DEF In
<1> HIDE DEF c, row, of
<1>6. /\ new \in TableSet
      /\ \A g \in Granularity :
           /\ DOMAIN new[g] = DOMAIN tables[g] \cup {Bucket(m, g)}
           /\ \A b \in DOMAIN new[g] : b # Bucket(m, g) => new[g][b] = tables[g][b]
           /\ new[g][Bucket(m, g)] = IF Bucket(m, g) \in DOMAIN tables[g]
                                     THEN Merge(tables[g][Bucket(m, g)], row) ELSE row
  BY <1>1, <1>2, StoreFacts DEF row
<1>8. ASSUME NEW g \in Granularity, NEW b \in Nat
      PROVE  IF b \in DOMAIN new[g] THEN Describes(c, new[g][b], In(c, g, b)) ELSE In(c, g, b) = {}
  <2> DEFINE d == Bucket(m, g)
  <2>1. IF b \in DOMAIN tables[g] THEN Describes(a, tables[g][b], In(a, g, b)) ELSE In(a, g, b) = {}
    BY DEF Accounted
  <2>2. CASE b # d
    <3>1. In(c, g, b) = In(a, g, b) /\ (b \in DOMAIN new[g] <=> b \in DOMAIN tables[g])
      BY <1>3, <1>6, <2>2
    <3>2. b \in DOMAIN new[g] => new[g][b] = tables[g][b]
      BY <1>6, <2>2
    <3> HIDE DEF new
    <3> QED
      BY <1>4, <1>5, <2>1, <3>1, <3>2
  <2>3. CASE b = d /\ b \in DOMAIN tables[g]
    <3>1. In(c, g, b) = In(a, g, b) \cup of /\ In(a, g, b) \cap of = {}
      BY <1>3, <2>3
    <3>2. new[g][b] = Merge(tables[g][b], row) /\ b \in DOMAIN new[g]
      BY <1>6, <2>3
    <3>3. Describes(a, tables[g][b], In(a, g, b))
      BY <2>1, <2>3
    <3> HIDE DEF new
    <3>4. Describes(a, Merge(tables[g][b], row), In(a, g, b) \cup of)
      BY <1>1, <1>2, <1>5, <3>1, <3>3, MergeDescribes
    <3>5. In(a, g, b) \cup of \in SUBSET (1 .. Len(a))
      BY <1>1, <1>5
    <3> QED
      BY <1>4, <3>1, <3>2, <3>4, <3>5
  <2>4. CASE b = d /\ b \notin DOMAIN tables[g]
    <3>1. In(c, g, b) = of
      BY <1>3, <2>1, <2>4
    <3>2. new[g][b] = row /\ b \in DOMAIN new[g]
      BY <1>6, <2>4
    <3> HIDE DEF new
    <3> QED
      BY <1>1, <1>2, <1>4, <3>1, <3>2
  <2> QED
    BY <2>2, <2>3, <2>4
<1>9. Accounted(c, new)
  <2> HIDE DEF new
  <2> QED
    BY <1>8 DEF Accounted
<1> QED
  BY <1>6, <1>9 DEF c
----------------------------------------------------------------------------
\* Frames that are in a table are in the coarser ones.
Coarse(a) ==
  \A i \in 1 .. Len(a) : ("1m" \in a[i].in => "1h" \in a[i].in) /\ ("1h" \in a[i].in => "1d" \in a[i].in)

\* The buffer has one entry for each minute of the frames that are not stored yet.
Buffered(a, buf) ==
  /\ \A i, j \in 1 .. Len(buf) : buf[i].minute = buf[j].minute => i = j
  /\ \A i \in 1 .. Len(a) : a[i].in = {"buffer"} => \E k \in 1 .. Len(buf) : buf[k].minute = a[i].minute
  /\ \A k \in 1 .. Len(buf) :
       Waiting(a, buf[k].minute) # {} /\ Sums(a, buf[k], Waiting(a, buf[k].minute))

MetricsInv ==
  /\ buffer \in Seq(AccType) /\ rows \in TableSet /\ arrived \in Seq(Arrival)
  /\ Placed(arrived) /\ Coarse(arrived) /\ Buffered(arrived, buffer) /\ Accounted(arrived, rows)

\* What has arrived once the first k buffered minutes are stored.
StoredUpto(k) ==
  [i \in 1 .. Len(arrived) |->
     IF arrived[i].in = {"buffer"} /\ \E j \in 1 .. k : buffer[j].minute = arrived[i].minute
     THEN [arrived[i] EXCEPT !.in = Granularity] ELSE arrived[i]]

LEMMA StoredUptoFacts ==
  ASSUME MetricsInv, NEW k \in 0 .. Len(buffer)
  PROVE  /\ StoredUpto(k) \in Seq(Arrival) /\ Len(StoredUpto(k)) = Len(arrived) /\ Placed(StoredUpto(k))
         /\ \A i \in 1 .. Len(arrived) : StoredUpto(k)[i].frame = arrived[i].frame
         /\ k = 0 => StoredUpto(k) = arrived
         /\ k = Len(buffer) => StoredUpto(k) = Moved(Granularity)
         /\ k # 0 => /\ Waiting(StoredUpto(k - 1), buffer[k].minute) = Waiting(arrived, buffer[k].minute)
                     /\ StoredUpto(k) = Mark(StoredUpto(k - 1), buffer[k].minute)
<1> DEFINE c == StoredUpto(k)
           stored(j, i) == arrived[i].in = {"buffer"} /\ \E n \in 1 .. j : buffer[n].minute = arrived[i].minute
<1>1. \A i \in 1 .. Len(arrived) : arrived[i] \in Arrival
  BY DEF MetricsInv
<1>2. Len(arrived) \in Nat /\ Len(buffer) \in Nat
  BY DEF MetricsInv
<1>3. \A j \in 0 .. Len(buffer), i \in 1 .. Len(arrived) :
        /\ StoredUpto(j)[i] \in Arrival
        /\ StoredUpto(j)[i].frame = arrived[i].frame /\ StoredUpto(j)[i].minute = arrived[i].minute
        /\ StoredUpto(j)[i].in = IF stored(j, i) THEN Granularity ELSE arrived[i].in
  BY <1>1 DEF StoredUpto, Arrival
<1>4. \A j \in 0 .. Len(buffer) : StoredUpto(j) \in [1 .. Len(arrived) -> Arrival]
  BY <1>3 DEF StoredUpto
<1>5. \A j \in 0 .. Len(buffer) : StoredUpto(j) \in Seq(Arrival) /\ Len(StoredUpto(j)) = Len(arrived)
  <2> TAKE j \in 0 .. Len(buffer)
  <2> DEFINE s == StoredUpto(j)
  <2>1. s \in [1 .. Len(arrived) -> Arrival]
    BY <1>4
  <2> HIDE DEF s
  <2>2. s \in Seq(Arrival) /\ Len(s) = Len(arrived)
    BY <1>2, <2>1
  <2> QED
    BY <2>2 DEF s
<1>6. Placed(c)
  BY <1>3, <1>5 DEF Placed, MetricsInv
<1>7. k = 0 => c = arrived
  <2> SUFFICES ASSUME k = 0 PROVE c = arrived
    OBVIOUS
  <2>1. arrived = [i \in 1 .. Len(arrived) |-> arrived[i]]
    BY DEF MetricsInv
  <2> QED
    BY <2>1 DEF StoredUpto
<1>8. k = Len(buffer) => c = Moved(Granularity)
  <2> SUFFICES ASSUME k = Len(buffer) PROVE c = Moved(Granularity)
    OBVIOUS
  <2>1. \A i \in 1 .. Len(arrived) : stored(k, i) <=> "buffer" \in arrived[i].in
    <3>1. \A i \in 1 .. Len(arrived) : arrived[i].in = {"buffer"} <=> "buffer" \in arrived[i].in
      BY DEF MetricsInv, Placed, Granularity
    <3> QED
      BY <3>1 DEF MetricsInv, Buffered
  <2> QED
    BY <2>1 DEF StoredUpto, Moved
<1>9. ASSUME k # 0
      PROVE  /\ Waiting(StoredUpto(k - 1), buffer[k].minute) = Waiting(arrived, buffer[k].minute)
             /\ c = Mark(StoredUpto(k - 1), buffer[k].minute)
  <2> DEFINE m == buffer[k].minute
             p == StoredUpto(k - 1)
  <2>1. k \in 1 .. Len(buffer) /\ k - 1 \in 0 .. Len(buffer) /\ \A n : n \in 1 .. k <=> (n \in 1 .. (k - 1) \/ n = k)
    BY <1>2, <1>9
  <2>2. \A n \in 1 .. (k - 1) : buffer[n].minute # m
    <3> TAKE n \in 1 .. (k - 1)
    <3>1. n \in 1 .. Len(buffer) /\ n # k
      BY <1>2, <2>1
    <3> QED
      BY <2>1, <3>1 DEF MetricsInv, Buffered
  <2>3. Granularity # {"buffer"}
    BY DEF Granularity
  <2>4. p \in [1 .. Len(arrived) -> Arrival] /\ Len(p) = Len(arrived)
    BY <1>4, <1>5, <2>1
  <2>5. \A i \in 1 .. Len(arrived) :
          /\ p[i].minute = arrived[i].minute
          /\ p[i].in = IF stored(k - 1, i) THEN Granularity ELSE arrived[i].in
          /\ p[i] = IF stored(k - 1, i) THEN [arrived[i] EXCEPT !.in = Granularity] ELSE arrived[i]
    BY <1>3, <2>1 DEF StoredUpto
  <2> HIDE DEF p
  <2>6. \A i \in 1 .. Len(arrived) : i \in Waiting(p, m) <=> (arrived[i].in = {"buffer"} /\ arrived[i].minute = m)
    BY <2>2, <2>3, <2>4, <2>5 DEF Waiting
  <2>7. Waiting(p, m) = Waiting(arrived, m)
    BY <2>4, <2>6 DEF Waiting
  <2>8. \A i \in 1 .. Len(arrived) : c[i] = Mark(p, m)[i]
    <3> TAKE i \in 1 .. Len(arrived)
    <3>1. Mark(p, m)[i] = IF i \in Waiting(p, m) THEN [p[i] EXCEPT !.in = Granularity] ELSE p[i]
      BY <2>4 DEF Mark
    <3>2. stored(k, i) <=> (stored(k - 1, i) \/ (arrived[i].in = {"buffer"} /\ arrived[i].minute = m))
      BY <2>1
    <3>3. c[i] = IF stored(k, i) THEN [arrived[i] EXCEPT !.in = Granularity] ELSE arrived[i]
      BY DEF StoredUpto
    <3> QED
      BY <2>2, <2>5, <2>6, <3>1, <3>2, <3>3
  <2>9. c \in [1 .. Len(arrived) -> Arrival]
    BY <1>4
  <2>10. Mark(p, m) = [i \in 1 .. Len(arrived) |-> Mark(p, m)[i]]
    BY <2>4 DEF Mark
  <2> HIDE DEF c, m
  <2>11. c = Mark(p, m)
    BY <2>8, <2>9, <2>10
  <2> QED
    BY <2>7, <2>11 DEF p, c, m
<1> QED
  BY <1>3, <1>5, <1>6, <1>7, <1>8, <1>9
LEMMA FlushedFacts ==
  ASSUME MetricsInv
  PROVE  Flushed \in TableSet /\ Accounted(Moved(Granularity), Flushed)
<1> DEFINE n == Len(buffer)
           upto[k \in 0 .. n] == IF k = 0 THEN rows ELSE Store(upto[k - 1], buffer[k], Granularity)
           step == [kt \in Nat \X TableSet |->
                      IF kt[1] \in 1 .. n THEN Store(kt[2], buffer[kt[1]], Granularity) ELSE kt[2]]
<1>1. n \in Nat /\ rows \in TableSet
  BY DEF MetricsInv
<1>2. ASSUME NEW k \in 1 .. n PROVE buffer[k].minute \in Nat /\ RowOf(buffer[k]) \in RowType
  <2> DEFINE of == Waiting(arrived, buffer[k].minute)
  <2>1. of # {} /\ Sums(arrived, buffer[k], of) /\ buffer[k] \in AccType /\ arrived \in Seq(Arrival)
    BY DEF MetricsInv, Buffered
  <2>2. of \in SUBSET (1 .. Len(arrived))
    BY DEF Waiting
  <2>3. buffer[k].minute \in Nat
    BY <2>1 DEF AccType
  <2> HIDE DEF of
  <2>4. Describes(arrived, RowOf(buffer[k]), of)
    BY <2>1, <2>2, RowOfDescribes
  <2> QED
    BY <2>3, <2>4 DEF Describes
<1>3. ASSUME NEW k \in 1 .. n, NEW t \in TableSet PROVE Store(t, buffer[k], Granularity) \in TableSet
  BY <1>2, StoreFacts
<1>4. step \in [Nat \X TableSet -> TableSet]
  BY <1>3
<1>5. PICK g : FollowsAlways(g, TableSet, rows, step)
  <2> HIDE DEF step, n, upto
  <2>1. \E g : FollowsAlways(g, TableSet, rows, step)
    BY <1>1, <1>4, Recursion
  <2> QED
    BY <2>1
<1> DEFINE h == [k \in 0 .. n |-> g[k]]
<1>6. h = [k \in 0 .. n |-> IF k = 0 THEN rows ELSE Store(h[k - 1], buffer[k], Granularity)]
  <2>1. ASSUME NEW k \in 0 .. n, k # 0 PROVE h[k] = Store(h[k - 1], buffer[k], Granularity)
    <3>1. k \in Nat \ {0} /\ k - 1 \in Nat /\ k - 1 \in 0 .. n /\ k \in 1 .. n
      BY <1>1, <2>1
    <3>2. g[k] = step[<<k, g[k - 1]>>] /\ g[k - 1] \in TableSet
      BY <1>5, <3>1 DEF FollowsAlways
    <3>3. step[<<k, g[k - 1]>>] = Store(g[k - 1], buffer[k], Granularity)
      BY <3>1, <3>2
    <3> QED
      BY <3>1, <3>2, <3>3
  <2>2. h[0] = rows
    BY <1>1, <1>5 DEF FollowsAlways
  <2> QED
    BY <2>1, <2>2
<1> HIDE DEF h, step
<1>7. upto = [k \in 0 .. n |-> IF k = 0 THEN rows ELSE Store(upto[k - 1], buffer[k], Granularity)]
  BY <1>6
<1>8. Flushed = upto[n]
  BY DEF Flushed
<1> HIDE DEF upto
<1>9. upto[0] = rows /\ \A k \in 1 .. n : upto[k] = Store(upto[k - 1], buffer[k], Granularity)
  BY <1>1, <1>7
<1> DEFINE T == {k \in Nat : k <= n => upto[k] \in TableSet /\ Accounted(StoredUpto(k), upto[k])}
<1>10. 0 \in T
  <2>1. 0 \in 0 .. n
    BY <1>1
  <2>2. StoredUpto(0) = arrived
    BY <2>1, StoredUptoFacts
  <2> QED
    BY <1>1, <1>9, <2>2 DEF MetricsInv
<1>11. ASSUME NEW k \in Nat, k \in T PROVE k + 1 \in T
  <2>1. CASE k + 1 <= n
    <3> DEFINE a == StoredUpto(k)
               acc == buffer[k + 1]
               of == Waiting(arrived, acc.minute)
    <3>1. k \in 0 .. n /\ k <= n /\ k + 1 \in 0 .. n /\ k + 1 \in 1 .. n /\ (k + 1) - 1 = k /\ k + 1 # 0
      BY <1>1, <2>1
    <3>2. upto[k] \in TableSet /\ Accounted(a, upto[k])
      BY <1>11, <3>1
    <3>3. /\ a \in Seq(Arrival) /\ Len(a) = Len(arrived) /\ Placed(a)
          /\ \A i \in 1 .. Len(arrived) : a[i].frame = arrived[i].frame
      BY <3>1, StoredUptoFacts
    <3>4. Waiting(a, acc.minute) = of /\ StoredUpto(k + 1) = Mark(a, acc.minute)
      BY <3>1, StoredUptoFacts
    <3>5. of # {} /\ Sums(arrived, acc, of) /\ of \in SUBSET (1 .. Len(arrived)) /\ arrived \in Seq(Arrival)
      <4>1. of \in SUBSET (1 .. Len(arrived))
        BY DEF Waiting
      <4> QED
        BY <3>1, <4>1 DEF MetricsInv, Buffered
    <3>6. upto[k + 1] = Store(upto[k], acc, Granularity)
      BY <1>9, <3>1
    <3> HIDE DEF a, acc, of
    <3>7. Sums(a, acc, of)
      <4>1. Len(arrived) \in Nat /\ Len(arrived) <= Len(a)
        BY <3>3, <3>5
      <4> QED
        BY <3>3, <3>5, <4>1, SameFrames
    <3>8. /\ Store(upto[k], acc, Granularity) \in TableSet
          /\ Accounted(Mark(a, acc.minute), Store(upto[k], acc, Granularity))
      BY <3>2, <3>3, <3>4, <3>5, <3>7, StoreStep
    <3> QED
      BY <3>4, <3>6, <3>8
  <2> QED
    BY <2>1
<1>12. Nat \subseteq T
  <2> HIDE DEF T
  <2> QED
    BY <1>10, <1>11, Induction
<1>13. n \in 0 .. n /\ n <= n
  BY <1>1
<1>14. StoredUpto(n) = Moved(Granularity)
  BY <1>13, StoredUptoFacts
<1> QED
  BY <1>1, <1>8, <1>12, <1>13, <1>14
----------------------------------------------------------------------------
LEMMA IngestInv ==
  ASSUME MetricsInv, NEW minute \in Nat, NEW frame \in Frames, Ingest(minute, frame)
  PROVE  MetricsInv'
<1> DEFINE new == [minute |-> minute, frame |-> frame, in |-> {"buffer"}]
           n == Len(arrived) + 1
           c == Append(arrived, new)
<1>1. /\ arrived \in Seq(Arrival) /\ buffer \in Seq(AccType) /\ rows \in TableSet
      /\ Placed(arrived) /\ Coarse(arrived) /\ Buffered(arrived, buffer) /\ Accounted(arrived, rows)
  BY DEF MetricsInv
<1>2. arrived' = c /\ rows' = rows
  BY DEF Ingest
<1>3. new \in Arrival
  BY DEF Arrival
<1>4. /\ c \in Seq(Arrival) /\ Len(c) = n /\ c[n] = new
      /\ \A i \in 1 .. Len(arrived) : c[i] = arrived[i]
  <2> HIDE DEF new
  <2> QED
    BY <1>1, <1>3, AppendProperties
<1>5. /\ Len(arrived) \in Nat /\ Len(buffer) \in Nat /\ n \notin 1 .. Len(arrived) /\ n \in 1 .. n
      /\ \A i : i \in 1 .. n <=> (i \in 1 .. Len(arrived) \/ i = n)
  BY <1>1
<1>6. new.in = {"buffer"} /\ new.minute = minute /\ new.frame = frame
  OBVIOUS
<1> HIDE DEF c, n, new
<1>7. Placed(c) /\ Coarse(c)
  BY <1>1, <1>4, <1>5, <1>6 DEF Placed, Coarse
<1>8. \A g \in Granularity, b \in Nat : In(c, g, b) = In(arrived, g, b)
  <2>1. \A g \in Granularity : g \notin new.in
    BY <1>6 DEF Granularity
  <2> QED
    BY <1>4, <1>5, <2>1 DEF In
<1>9. \A of : of \in SUBSET (1 .. Len(arrived)) =>
        /\ \A row : Describes(arrived, row, of) => Describes(c, row, of)
        /\ \A acc : Sums(arrived, acc, of) => Sums(c, acc, of)
  <2>1. Len(arrived) <= Len(c) /\ \A i \in 1 .. Len(arrived) : c[i].frame = arrived[i].frame
    BY <1>4, <1>5 DEF n
  <2> QED
    BY <1>1, <1>4, <2>1, SameFrames
<1>10. Accounted(c, rows)
  <2>1. \A g \in Granularity, b \in Nat : In(arrived, g, b) \in SUBSET (1 .. Len(arrived))
    BY DEF In
  <2> QED
    BY <1>1, <1>8, <1>9, <2>1 DEF Accounted
<1>11. \A k \in Nat : Waiting(c, k) = IF k = minute THEN Waiting(arrived, k) \cup {n} ELSE Waiting(arrived, k)
  <2> TAKE k \in Nat
  <2>1. n \in Waiting(c, k) <=> k = minute
    BY <1>4, <1>5, <1>6 DEF Waiting
  <2>2. \A i \in 1 .. Len(arrived) : i \in Waiting(c, k) <=> i \in Waiting(arrived, k)
    BY <1>4, <1>5 DEF Waiting
  <2>3. Waiting(c, k) \subseteq 1 .. n /\ Waiting(arrived, k) \subseteq 1 .. Len(arrived)
    BY <1>4 DEF Waiting
  <2>4. \A i : i \in Waiting(c, k) <=> (i \in Waiting(arrived, k) \/ (i = n /\ k = minute))
    BY <1>5, <2>1, <2>2, <2>3
  <2> QED
    BY <2>4
<1>12. \A k \in Nat : Waiting(arrived, k) \in SUBSET (1 .. Len(arrived))
  BY DEF Waiting
\* The accumulator of the minute, with the new frame.
<1>13. ASSUME NEW acc, acc.minute = minute, Sums(arrived, acc, Waiting(arrived, minute))
       PROVE  /\ Sums(c, Accumulate(acc, frame), Waiting(c, minute))
              /\ Accumulate(acc, frame).minute = minute /\ Accumulate(acc, frame) \in AccType
  <2>1. Sums(c, acc, Waiting(arrived, minute))
    BY <1>9, <1>12, <1>13
  <2>2. n \in (1 .. Len(c)) \ Waiting(arrived, minute) /\ Waiting(arrived, minute) \in SUBSET (1 .. Len(c))
    BY <1>4, <1>5, <1>12
  <2>3. Sums(c, Accumulate(acc, c[n].frame), Waiting(arrived, minute) \cup {n})
    BY <1>4, <2>1, <2>2, AccumulateSums
  <2>4. Sums(c, Accumulate(acc, frame), Waiting(c, minute))
    BY <1>4, <1>6, <1>11, <2>3
  <2>5. Accumulate(acc, frame).minute = minute
    BY <1>13 DEF Accumulate
  <2> QED
    BY <2>4, <2>5 DEF Sums
<1>14. \A k \in 1 .. Len(buffer) : buffer[k] \in AccType /\ buffer[k].minute \in Nat
  <2>1. \A k \in 1 .. Len(buffer) : buffer[k] \in AccType
    BY <1>1
  <2> QED
    BY <2>1 DEF AccType
<1>15. CASE \E i \in 1 .. Len(buffer) : buffer[i].minute = minute
  <2>1. PICK j \in 1 .. Len(buffer) : buffer[j].minute = minute
    BY <1>15
  <2>2. \A i \in 1 .. Len(buffer) : buffer[i].minute = minute <=> i = j
    BY <1>1, <2>1 DEF Buffered
  <2>3. buffer' = [i \in 1 .. Len(buffer) |->
                     IF buffer[i].minute = minute THEN Accumulate(buffer[i], frame) ELSE buffer[i]]
    BY <1>15 DEF Ingest
  <2>4. Sums(arrived, buffer[j], Waiting(arrived, minute))
    BY <1>1, <2>1 DEF Buffered
  <2>5. /\ Sums(c, Accumulate(buffer[j], frame), Waiting(c, minute))
        /\ Accumulate(buffer[j], frame).minute = minute /\ Accumulate(buffer[j], frame) \in AccType
    BY <1>13, <2>1, <2>4
  <2>6. \A i \in 1 .. Len(buffer) :
          /\ buffer'[i] = IF i = j THEN Accumulate(buffer[j], frame) ELSE buffer[i]
          /\ buffer'[i].minute = buffer[i].minute /\ buffer'[i] \in AccType
    BY <1>14, <2>1, <2>2, <2>3, <2>5
  <2>7. buffer' \in Seq(AccType) /\ Len(buffer') = Len(buffer)
    <3>1. buffer' \in [1 .. Len(buffer) -> AccType]
      BY <2>3, <2>6
    <3> QED
      BY <1>5, <3>1
  <2>8. ASSUME NEW k \in 1 .. Len(buffer)
        PROVE  Waiting(c, buffer[k].minute) # {} /\ Sums(c, buffer'[k], Waiting(c, buffer[k].minute))
    <3>1. CASE k = j
      <4>1. n \in Waiting(c, minute)
        BY <1>11
      <4> QED
        BY <2>1, <2>5, <2>6, <3>1, <4>1
    <3>2. CASE k # j
      <4>1. Waiting(c, buffer[k].minute) = Waiting(arrived, buffer[k].minute)
        BY <1>11, <1>14, <2>2, <3>2
      <4>2. Waiting(arrived, buffer[k].minute) # {} /\ Sums(arrived, buffer[k], Waiting(arrived, buffer[k].minute))
        BY <1>1 DEF Buffered
      <4> QED
        BY <1>9, <1>12, <1>14, <2>6, <3>2, <4>1, <4>2
    <3> QED
      BY <3>1, <3>2
  <2>9. ASSUME NEW i \in 1 .. Len(c), c[i].in = {"buffer"}
        PROVE  \E k \in 1 .. Len(buffer) : buffer[k].minute = c[i].minute
    <3>1. CASE i = n
      BY <1>4, <1>6, <2>1, <3>1
    <3>2. CASE i \in 1 .. Len(arrived)
      BY <1>1, <1>4, <2>9, <3>2 DEF Buffered
    <3> QED
      BY <1>4, <1>5, <3>1, <3>2
  <2>10. Buffered(c, buffer')
    <3>1. \A k \in 1 .. Len(buffer) : buffer'[k].minute = buffer[k].minute
      BY <2>6
    <3>2. \A i, l \in 1 .. Len(buffer) : buffer'[i].minute = buffer'[l].minute => i = l
      BY <1>1, <3>1 DEF Buffered
    <3>3. \A i \in 1 .. Len(c) : c[i].in = {"buffer"} => \E k \in 1 .. Len(buffer) : buffer'[k].minute = c[i].minute
      BY <2>9, <3>1
    <3>4. \A k \in 1 .. Len(buffer) :
            Waiting(c, buffer'[k].minute) # {} /\ Sums(c, buffer'[k], Waiting(c, buffer'[k].minute))
      BY <2>8, <3>1
    <3> QED
      BY <2>7, <3>2, <3>3, <3>4 DEF Buffered
  <2> QED
    BY <1>1, <1>2, <1>4, <1>7, <1>10, <2>7, <2>10 DEF MetricsInv
<1>16. CASE ~ \E i \in 1 .. Len(buffer) : buffer[i].minute = minute
  <2> DEFINE acc == Accumulate(NoFrames(minute), frame)
             m == Len(buffer) + 1
  <2>1. buffer' = Append(buffer, acc)
    BY <1>16 DEF Ingest
  <2>2. Waiting(arrived, minute) = {}
    BY <1>1, <1>16 DEF Buffered, Waiting
  <2>3. NoFrames(minute).minute = minute
    BY DEF NoFrames
  <2>4. Sums(arrived, NoFrames(minute), Waiting(arrived, minute))
    BY <1>1, <2>2, NoFramesSums
  <2>5. Sums(c, acc, Waiting(c, minute)) /\ acc.minute = minute /\ acc \in AccType
    BY <1>13, <2>3, <2>4
  <2> HIDE DEF acc
  <2>6. /\ buffer' \in Seq(AccType) /\ Len(buffer') = m /\ buffer'[m] = acc
        /\ \A i \in 1 .. Len(buffer) : buffer'[i] = buffer[i]
        /\ \A i : i \in 1 .. m <=> (i \in 1 .. Len(buffer) \/ i = m)
    BY <1>1, <1>5, <2>1, <2>5, AppendProperties
  <2> HIDE DEF m
  <2>7. ASSUME NEW k \in 1 .. m
        PROVE  Waiting(c, buffer'[k].minute) # {} /\ Sums(c, buffer'[k], Waiting(c, buffer'[k].minute))
    <3>1. CASE k = m
      <4>1. n \in Waiting(c, minute)
        BY <1>11
      <4> QED
        BY <2>5, <2>6, <3>1, <4>1
    <3>2. CASE k \in 1 .. Len(buffer)
      <4>1. Waiting(c, buffer[k].minute) = Waiting(arrived, buffer[k].minute)
        BY <1>11, <1>14, <1>16, <3>2
      <4>2. Waiting(arrived, buffer[k].minute) # {} /\ Sums(arrived, buffer[k], Waiting(arrived, buffer[k].minute))
        BY <1>1, <3>2 DEF Buffered
      <4> QED
        BY <1>9, <1>12, <1>14, <2>6, <3>2, <4>1, <4>2
    <3> QED
      BY <2>6, <3>1, <3>2
  <2>8. ASSUME NEW i \in 1 .. Len(c), c[i].in = {"buffer"}
        PROVE  \E k \in 1 .. m : buffer'[k].minute = c[i].minute
    <3>1. CASE i = n
      BY <1>4, <1>6, <2>5, <2>6, <3>1
    <3>2. CASE i \in 1 .. Len(arrived)
      <4>1. PICK k \in 1 .. Len(buffer) : buffer[k].minute = arrived[i].minute
        BY <1>1, <1>4, <2>8, <3>2 DEF Buffered
      <4> QED
        BY <1>4, <2>6, <3>2, <4>1
    <3> QED
      BY <1>4, <1>5, <3>1, <3>2
  <2>9. ASSUME NEW i \in 1 .. m, NEW j \in 1 .. m, buffer'[i].minute = buffer'[j].minute
        PROVE  i = j
    BY <1>1, <1>16, <2>5, <2>6, <2>9 DEF Buffered
  <2>10. Buffered(c, buffer')
    BY <2>6, <2>7, <2>8, <2>9 DEF Buffered
  <2> QED
    BY <1>1, <1>2, <1>4, <1>7, <1>10, <2>6, <2>10 DEF MetricsInv
<1> QED
  BY <1>15, <1>16
LEMMA MovedFacts ==
  ASSUME MetricsInv, NEW set \in SUBSET Granularity,
         "1m" \in set => "1h" \in set, "1h" \in set => "1d" \in set
  PROVE  /\ Moved(set) \in Seq(Arrival) /\ Len(Moved(set)) = Len(arrived)
         /\ Placed(Moved(set)) /\ Coarse(Moved(set)) /\ Buffered(Moved(set), <<>>)
         /\ \A i \in 1 .. Len(arrived) :
              /\ Moved(set)[i].frame = arrived[i].frame /\ Moved(set)[i].minute = arrived[i].minute
              /\ Moved(set)[i].in = IF "buffer" \in arrived[i].in THEN set ELSE arrived[i].in
<1> DEFINE c == Moved(set)
<1>1. Len(arrived) \in Nat /\ \A i \in 1 .. Len(arrived) : arrived[i] \in Arrival
  BY DEF MetricsInv
<1>2. \A i \in 1 .. Len(arrived) :
        /\ c[i] \in Arrival /\ c[i].frame = arrived[i].frame /\ c[i].minute = arrived[i].minute
        /\ c[i].in = IF "buffer" \in arrived[i].in THEN set ELSE arrived[i].in
  BY <1>1 DEF Moved, Arrival
<1>3. c \in [1 .. Len(arrived) -> Arrival]
  BY <1>2 DEF Moved
<1> HIDE DEF c
<1>4. c \in Seq(Arrival) /\ Len(c) = Len(arrived)
  BY <1>1, <1>3
<1>5. "buffer" \notin Granularity
  BY DEF Granularity
<1>6. \A i \in 1 .. Len(arrived) : c[i].in \in SUBSET Granularity
  <2>1. \A i \in 1 .. Len(arrived) : arrived[i].in = {"buffer"} \/ arrived[i].in \in SUBSET Granularity
    BY DEF MetricsInv, Placed
  <2> QED
    BY <1>2, <2>1
<1>7. Placed(c)
  BY <1>4, <1>6 DEF Placed
<1>8. Coarse(c)
  BY <1>2, <1>4 DEF Coarse, MetricsInv
<1>9. \A i \in 1 .. Len(c) : c[i].in # {"buffer"}
  BY <1>4, <1>5, <1>6
<1>10. Buffered(c, <<>>)
  <2>1. Len(<<>>) = 0 /\ 1 .. 0 = {}
    OBVIOUS
  <2> QED
    BY <1>9, <2>1 DEF Buffered
<1> QED
  BY <1>2, <1>4, <1>7, <1>8, <1>10 DEF c

LEMMA FlushInv == ASSUME MetricsInv, Flush PROVE MetricsInv'
<1>1. rows' = Flushed /\ buffer' = <<>> /\ arrived' = Moved(Granularity)
  BY DEF Flush
<1>2. Granularity \in SUBSET Granularity /\ "1h" \in Granularity /\ "1d" \in Granularity
  BY DEF Granularity
<1>3. /\ Moved(Granularity) \in Seq(Arrival) /\ Placed(Moved(Granularity))
      /\ Coarse(Moved(Granularity)) /\ Buffered(Moved(Granularity), <<>>)
  BY <1>2, MovedFacts
<1>4. Flushed \in TableSet /\ Accounted(Moved(Granularity), Flushed)
  BY FlushedFacts
<1>5. <<>> \in Seq(AccType)
  OBVIOUS
<1> QED
  BY <1>1, <1>3, <1>4, <1>5 DEF MetricsInv

LEMMA LossInv == ASSUME MetricsInv, BufferLost PROVE MetricsInv'
<1> DEFINE c == Moved({})
<1>1. rows' = rows /\ buffer' = <<>> /\ arrived' = c
  BY DEF BufferLost
<1>2. {} \in SUBSET Granularity /\ "1m" \notin {} /\ "1h" \notin {}
  OBVIOUS
<1>3. /\ c \in Seq(Arrival) /\ Len(c) = Len(arrived) /\ Placed(c) /\ Coarse(c) /\ Buffered(c, <<>>)
      /\ \A i \in 1 .. Len(arrived) :
           /\ c[i].frame = arrived[i].frame /\ c[i].minute = arrived[i].minute
           /\ c[i].in = IF "buffer" \in arrived[i].in THEN {} ELSE arrived[i].in
  BY <1>2, MovedFacts
<1>4. arrived \in Seq(Arrival) /\ Len(arrived) \in Nat /\ Placed(arrived) /\ Accounted(arrived, rows)
  BY DEF MetricsInv
<1> HIDE DEF c
<1>5. \A g \in Granularity, b \in Nat :
        In(c, g, b) = In(arrived, g, b) /\ In(arrived, g, b) \in SUBSET (1 .. Len(arrived))
  <2> TAKE g \in Granularity, b \in Nat
  <2>1. g # "buffer"
    BY DEF Granularity
  <2>2. \A i \in 1 .. Len(arrived) : g \in c[i].in <=> g \in arrived[i].in
    <3> TAKE i \in 1 .. Len(arrived)
    <3>1. c[i].in = IF "buffer" \in arrived[i].in THEN {} ELSE arrived[i].in
      BY <1>3
    <3>2. "buffer" \in arrived[i].in => arrived[i].in = {"buffer"}
      <4>1. arrived[i].in = {"buffer"} \/ arrived[i].in \in SUBSET Granularity
        BY <1>4 DEF Placed
      <4> QED
        BY <4>1 DEF Granularity
    <3> QED
      BY <2>1, <3>1, <3>2
  <2> QED
    BY <1>3, <2>2 DEF In
<1>6. \A of : of \in SUBSET (1 .. Len(arrived)) =>
        \A row : Describes(arrived, row, of) => Describes(c, row, of)
  <2>1. Len(arrived) <= Len(c)
    BY <1>3, <1>4
  <2> QED
    BY <1>3, <1>4, <2>1, SameFrames
<1>7. Accounted(c, rows)
  BY <1>4, <1>5, <1>6 DEF Accounted
<1>8. <<>> \in Seq(AccType)
  OBVIOUS
<1> QED
  BY <1>1, <1>3, <1>7, <1>8 DEF MetricsInv

LEMMA CutoffFacts ==
  ASSUME NEW m \in Nat, now \in Nat
  PROVE  /\ Bucket(m, "1h") < Cutoff("1h") => Bucket(m, "1m") < Cutoff("1m")
         /\ Bucket(m, "1d") < Cutoff("1d") => Bucket(m, "1h") < Cutoff("1h")
<1>1. {"1m", "1h", "1d"} = Granularity
  BY DEF Granularity
<1>2. /\ Keep["1m"] \in Nat /\ Keep["1h"] \in Nat /\ Keep["1d"] \in Nat
      /\ Keep["1m"] + Width["1h"] <= Keep["1h"] + 1 /\ Keep["1h"] + Width["1d"] <= Keep["1d"] + 1
  BY <1>1, TelemetryConstants
<1>3. \A g \in Granularity :
        Bucket(m, g) \in Nat /\ Bucket(m, g) <= m /\ m < Bucket(m, g) + Width[g] /\ Width[g] \in Nat \ {0}
  BY BucketFacts
<1>4. /\ Bucket(m, "1m") \in Nat /\ Bucket(m, "1m") <= m
      /\ Bucket(m, "1h") \in Nat /\ Bucket(m, "1h") <= m /\ m < Bucket(m, "1h") + Width["1h"] /\ Width["1h"] \in Nat
      /\ Bucket(m, "1d") \in Nat /\ m < Bucket(m, "1d") + Width["1d"] /\ Width["1d"] \in Nat
  BY <1>1, <1>3
<1> QED
  BY <1>2, <1>4 DEF Cutoff

LEMMA PruneInv == ASSUME MetricsInv, now \in Nat, Prune PROVE MetricsInv'
<1> DEFINE old(i) == {g \in Granularity : Bucket(arrived[i].minute, g) < Cutoff(g)}
           c == [i \in 1 .. Len(arrived) |-> [arrived[i] EXCEPT !.in = @ \ old(i)]]
<1>1. /\ arrived \in Seq(Arrival) /\ Len(arrived) \in Nat /\ Placed(arrived) /\ Coarse(arrived)
      /\ Buffered(arrived, buffer) /\ Accounted(arrived, rows) /\ rows \in TableSet /\ buffer \in Seq(AccType)
  BY DEF MetricsInv
<1>2. /\ arrived' = c /\ buffer' = buffer
      /\ rows' = [g \in Granularity |-> Restrict(rows[g], {b \in DOMAIN rows[g] : b >= Cutoff(g)})]
  BY DEF Prune
<1>3. \A i \in 1 .. Len(arrived) : arrived[i] \in Arrival
  BY <1>1
<1>4. \A i \in 1 .. Len(arrived) :
        /\ c[i] \in Arrival /\ c[i].frame = arrived[i].frame /\ c[i].minute = arrived[i].minute
        /\ c[i].in = arrived[i].in \ old(i)
  BY <1>3 DEF Arrival
<1>5. c \in Seq(Arrival) /\ Len(c) = Len(arrived)
  <2>1. c \in [1 .. Len(arrived) -> Arrival]
    BY <1>4
  <2> HIDE DEF c
  <2> QED
    BY <1>1, <2>1
<1>6. \A g \in Granularity : Cutoff(g) \in Int
  BY TelemetryConstants DEF Cutoff
<1>7. "buffer" \notin Granularity
  BY DEF Granularity
<1> HIDE DEF c
<1>8. Placed(c)
  BY <1>1, <1>4, <1>5, <1>7 DEF Placed
<1>9. Coarse(c)
  <2> SUFFICES ASSUME NEW i \in 1 .. Len(arrived)
               PROVE  ("1m" \in c[i].in => "1h" \in c[i].in) /\ ("1h" \in c[i].in => "1d" \in c[i].in)
    BY <1>5 DEF Coarse
  <2>1. arrived[i].minute \in Nat
    BY <1>3 DEF Arrival
  <2>2. /\ "1h" \in old(i) => "1m" \in old(i)
        /\ "1d" \in old(i) => "1h" \in old(i)
    BY <2>1, CutoffFacts DEF Granularity
  <2> QED
    BY <1>1, <1>4, <2>2 DEF Coarse
<1>10. \A k : Waiting(c, k) = Waiting(arrived, k)
  <2>1. \A i \in 1 .. Len(arrived) : c[i].in = {"buffer"} <=> arrived[i].in = {"buffer"}
    BY <1>1, <1>4, <1>7 DEF Placed
  <2> QED
    BY <1>4, <1>5, <2>1 DEF Waiting
<1>11. \A of : of \in SUBSET (1 .. Len(arrived)) =>
         /\ \A row : Describes(arrived, row, of) => Describes(c, row, of)
         /\ \A acc : Sums(arrived, acc, of) => Sums(c, acc, of)
  <2>1. Len(arrived) <= Len(c)
    BY <1>1, <1>5
  <2> QED
    BY <1>1, <1>4, <1>5, <2>1, SameFrames
<1>12. Buffered(c, buffer)
  <2>1. \A k : Waiting(arrived, k) \in SUBSET (1 .. Len(arrived))
    BY DEF Waiting
  <2>2. \A i \in 1 .. Len(c) : c[i].in = {"buffer"} => \E k \in 1 .. Len(buffer) : buffer[k].minute = c[i].minute
    <3>1. \A i \in 1 .. Len(arrived) : c[i].in = {"buffer"} => arrived[i].in = {"buffer"}
      BY <1>1, <1>4, <1>7 DEF Placed
    <3> QED
      BY <1>1, <1>4, <1>5, <3>1 DEF Buffered
  <2> QED
    BY <1>1, <1>10, <1>11, <2>1, <2>2 DEF Buffered
<1>13. ASSUME NEW g \in Granularity
       PROVE  /\ rows'[g] \in Table
              /\ DOMAIN rows'[g] = {b \in DOMAIN rows[g] : b >= Cutoff(g)}
              /\ \A b \in DOMAIN rows'[g] : rows'[g][b] = rows[g][b]
  <2> DEFINE t == rows[g]
             kept == {b \in DOMAIN t : b >= Cutoff(g)}
  <2>1. t \in Table
    BY <1>1 DEF TableSet
  <2>2. DOMAIN t \in SUBSET Nat /\ t \in [DOMAIN t -> RowType]
    BY <2>1, TableIn
  <2>3. rows'[g] = [b \in kept |-> t[b]]
    BY <1>2 DEF Restrict
  <2> HIDE DEF t
  <2>4. rows'[g] \in [kept -> RowType] /\ kept \in SUBSET Nat
    BY <2>2, <2>3
  <2>5. rows'[g] \in Table
    <3> HIDE DEF kept
    <3> QED
      BY <2>4, TableOut
  <2> QED
    BY <2>3, <2>5 DEF t
<1>14. rows' \in TableSet
  BY <1>2, <1>13 DEF TableSet
<1>15. ASSUME NEW g \in Granularity, NEW b \in Nat
       PROVE  In(c, g, b) = IF b >= Cutoff(g) THEN In(arrived, g, b) ELSE {}
  <2>1. \A i \in 1 .. Len(arrived) : i \in In(c, g, b) <=>
          /\ g \in arrived[i].in /\ Bucket(arrived[i].minute, g) = b
          /\ ~(Bucket(arrived[i].minute, g) < Cutoff(g))
    BY <1>4, <1>5 DEF In
  <2>2. \A i \in 1 .. Len(arrived) : i \in In(c, g, b) <=> (i \in In(arrived, g, b) /\ b >= Cutoff(g))
    BY <1>6, <2>1 DEF In
  <2>3. In(c, g, b) \subseteq 1 .. Len(arrived) /\ In(arrived, g, b) \subseteq 1 .. Len(arrived)
    BY <1>5 DEF In
  <2> QED
    BY <2>2, <2>3
<1>16. ASSUME NEW g \in Granularity, NEW b \in Nat
       PROVE  IF b \in DOMAIN rows'[g] THEN Describes(c, rows'[g][b], In(c, g, b)) ELSE In(c, g, b) = {}
  <2>1. IF b \in DOMAIN rows[g] THEN Describes(arrived, rows[g][b], In(arrived, g, b)) ELSE In(arrived, g, b) = {}
    BY <1>1 DEF Accounted
  <2>2. In(arrived, g, b) \in SUBSET (1 .. Len(arrived))
    BY DEF In
  <2>3. b \in DOMAIN rows'[g] <=> (b \in DOMAIN rows[g] /\ b >= Cutoff(g))
    BY <1>13
  <2>4. CASE b \in DOMAIN rows'[g]
    <3>1. rows'[g][b] = rows[g][b] /\ In(c, g, b) = In(arrived, g, b)
      BY <1>13, <1>15, <2>3, <2>4
    <3> QED
      BY <1>11, <2>1, <2>2, <2>3, <2>4, <3>1
  <2>5. CASE b \notin DOMAIN rows'[g]
    BY <1>15, <2>1, <2>3, <2>5
  <2> QED
    BY <2>4, <2>5
<1>17. Accounted(c, rows')
  BY <1>16 DEF Accounted
<1> QED
  BY <1>1, <1>2, <1>5, <1>8, <1>9, <1>12, <1>14, <1>17 DEF MetricsInv
----------------------------------------------------------------------------
LEMMA MetricsStutter == ASSUME MetricsInv, UNCHANGED metricVars PROVE MetricsInv'
BY DEF MetricsInv, metricVars

LEMMA MetricsInit == Init => MetricsInv
<1> SUFFICES ASSUME Init PROVE MetricsInv
  OBVIOUS
<1> DEFINE none == << >>
<1>1. buffer = <<>> /\ arrived = <<>> /\ rows = [g \in Granularity |-> none]
  BY DEF Init, TelemetryInit
<1>2. none \in [{} -> RowType] /\ DOMAIN none = {}
  OBVIOUS
<1>3. none \in Table
  <2>1. {} \in SUBSET Nat
    OBVIOUS
  <2> HIDE DEF none
  <2> QED
    BY <1>2, <2>1, TableOut
<1> HIDE DEF none
<1>4. rows \in TableSet
  BY <1>1, <1>3 DEF TableSet
<1>5. buffer \in Seq(AccType) /\ arrived \in Seq(Arrival) /\ Len(buffer) = 0 /\ Len(arrived) = 0
  BY <1>1
<1>6. \A i \in 1 .. Len(arrived) : FALSE
  BY <1>5
<1>7. Placed(arrived) /\ Coarse(arrived) /\ Buffered(arrived, buffer)
  BY <1>5 DEF Placed, Coarse, Buffered
<1>8. \A g \in Granularity, b \in Nat : In(arrived, g, b) = {}
  BY <1>6 DEF In
<1>9. Accounted(arrived, rows)
  BY <1>1, <1>2, <1>8 DEF Accounted
<1> QED
  BY <1>4, <1>5, <1>7, <1>9 DEF MetricsInv

THEOREM MetricsInvariance == Spec => []MetricsInv
<1>1. RetentionInv /\ MetricsInv /\ [Next]_vars => MetricsInv'
  <2> SUFFICES ASSUME RetentionInv, MetricsInv, [Next]_vars
               PROVE  MetricsInv'
    OBVIOUS
  <2>0. now \in Nat
    BY DEF RetentionInv, TracesInv
  <2>1. CASE Telemetry
    <3>1. CASE Flush
      BY <3>1, FlushInv
    <3>2. ASSUME NEW m \in Minute, NEW frame \in Frames, Ingest(m, frame) PROVE MetricsInv'
      <4>1. m \in Nat
        BY TelemetryConstants DEF Minute
      <4> QED
        BY <3>2, <4>1, IngestInv
    <3>3. CASE Trace
      BY <3>3, MetricsStutter DEF Trace
    <3>4. CASE Tick
      BY <3>4, MetricsStutter DEF Tick
    <3> QED
      BY <2>1, <3>1, <3>2, <3>3, <3>4 DEF Telemetry, Metrics
  <2>2. CASE (Files /\ UNCHANGED <<telemetryVars, restarts>>) \/ UNCHANGED vars
    <3>1. UNCHANGED metricVars
      BY <2>2 DEF telemetryVars, vars
    <3> QED
      BY <3>1, MetricsStutter
  <2>3. CASE PruneTimer \/ Maintenance
    <3>1. Prune
      BY <2>3 DEF PruneTimer, Maintenance
    <3> QED
      BY <2>0, <3>1, PruneInv
  <2>4. CASE Shutdown
    <3>1. UNCHANGED metricVars \/ Flush
      BY <2>4 DEF Shutdown
    <3> QED
      BY <3>1, MetricsStutter, FlushInv
  <2>5. CASE Crash
    <3>1. BufferLost
      BY <2>5 DEF Crash, FlushFails
    <3> QED
      BY <3>1, LossInv
  <2> QED
    BY <2>1, <2>2, <2>3, <2>4, <2>5 DEF Next
<1> QED
  BY MetricsInit, RetentionInvariance, <1>1, PTL DEF Spec

\* What each row and each buffered minute counts is exactly the frames that were put
\* there, whatever order frames, flushes, failures and prunes come in (metricsStore.ts).
THEOREM FramesAreCounted == Spec => []CountsAddUp
<1>1. MetricsInv => CountsAddUp
  <2> SUFFICES ASSUME MetricsInv PROVE CountsAddUp
    OBVIOUS
  <2>1. ASSUME NEW g \in Granularity, NEW b \in Minute
        PROVE  IF b \in DOMAIN rows[g] THEN rows[g][b].n = Cardinality(Counted(g, b)) /\ rows[g][b].n > 0
               ELSE Counted(g, b) = {}
    <3>1. b \in Nat /\ Counted(g, b) = In(arrived, g, b)
      BY TelemetryConstants DEF Minute, Counted, In
    <3>2. IF b \in DOMAIN rows[g] THEN Describes(arrived, rows[g][b], In(arrived, g, b)) ELSE In(arrived, g, b) = {}
      BY <3>1 DEF MetricsInv, Accounted
    <3> QED
      BY <3>1, <3>2 DEF Describes, RowType
  <2>2. ASSUME NEW i \in 1 .. Len(buffer)
        PROVE  buffer[i].n = Cardinality({k \in 1 .. Len(arrived) : /\ arrived[k].in = {"buffer"}
                                                                     /\ arrived[k].minute = buffer[i].minute})
    <3>1. Sums(arrived, buffer[i], Waiting(arrived, buffer[i].minute))
      BY DEF MetricsInv, Buffered
    <3> QED
      BY <3>1 DEF Sums, Waiting
  <2> QED
    BY <2>1, <2>2 DEF CountsAddUp
<1> QED
  BY <1>1, MetricsInvariance, PTL

\* The maximum of a row is its largest sample, and its average is off the mean of its
\* samples by no more than the merges' rounding can make it, unless some frame of the row
\* lacked the leaf (metricsStore.ts).
THEOREM AveragesAreTrue == Spec => []AveragesTrue
<1>1. MetricsInv => AveragesTrue
  <2> SUFFICES ASSUME MetricsInv, NEW g \in Granularity, NEW b \in DOMAIN rows[g], NEW l \in DOMAIN rows[g][b].max
               PROVE  LET row == rows[g][b]
                          of == Counted(g, b)
                      IN /\ \A i \in of : l \in DOMAIN arrived[i].frame => arrived[i].frame[l] <= row.max[l]
                         /\ \E i \in of : l \in DOMAIN arrived[i].frame /\ arrived[i].frame[l] = row.max[l]
                         /\ (\A i \in of : l \in DOMAIN arrived[i].frame) =>
                              NearMean(row.avg[l], row.n, Total(arrived, l, of))
    BY DEF AveragesTrue
  <2>1. b \in Nat
    <3>1. rows[g] \in Table
      BY DEF MetricsInv, TableSet
    <3> QED
      BY <3>1, TableIn
  <2>2. Counted(g, b) = In(arrived, g, b)
    BY DEF Counted, In
  <2>3. Describes(arrived, rows[g][b], In(arrived, g, b))
    BY <2>1 DEF MetricsInv, Accounted
  <2> QED
    BY <2>2, <2>3 DEF Describes, PeakOf, MeanOf
<1> QED
  BY <1>1, MetricsInvariance, PTL
----------------------------------------------------------------------------
\* An hour lies in one day.
LEMMA NestedMultiples ==
  ASSUME NEW m \in Nat, NEW w \in Nat \ {0}, NEW v \in Nat \ {0}, v % w = 0
  PROVE  (((m \div w) * w) \div v) * v = (m \div v) * v
<1> DEFINE k == v \div w
           q == m \div v
           h == m \div w
           b == h * w
<1>1. k \in Nat /\ v = k * w
  OBVIOUS
<1>2. q \in Nat /\ q * v <= m /\ m < q * v + v
  OBVIOUS
<1>3. h \in Nat /\ h * w <= m /\ m < h * w + w
  OBVIOUS
<1> HIDE DEF k, q, h
<1>4. q * k \in Nat /\ (q * k) * w <= m
  <2>1. q * v = (q * k) * w
    BY <1>1, <1>2
  <2> QED
    BY <1>1, <1>2, <2>1
<1>5. q * k <= h
  <2>1. CASE q * k >= h + 1
    <3> DEFINE x == q * k
    <3>1. x \in Nat /\ x >= h + 1 /\ x * w <= m
      BY <1>4, <2>1
    <3> HIDE DEF x
    <3>2. x * w >= (h + 1) * w
      BY <1>3, <3>1
    <3>3. (h + 1) * w = h * w + w
      BY <1>3
    <3> QED
      BY <1>3, <3>1, <3>2, <3>3
  <2> QED
    BY <1>3, <1>4, <2>1
<1>6. q * v <= b
  <2>1. q * v = (q * k) * w
    BY <1>1, <1>2
  <2>2. (q * k) * w <= h * w
    BY <1>3, <1>4, <1>5
  <2> QED
    BY <2>1, <2>2
<1>7. b \in Nat /\ b < q * v + v
  BY <1>2, <1>3
<1> HIDE DEF b
<1>8. b \div v = q
  BY <1>2, <1>6, <1>7
<1> QED
  BY <1>8 DEF b, h, q

LEMMA NestedBuckets ==
  ASSUME NEW m \in Nat
  PROVE  /\ Bucket(Bucket(m, "1m"), "1h") = Bucket(m, "1h")
         /\ Bucket(Bucket(m, "1h"), "1d") = Bucket(m, "1d")
<1>1. /\ Width["1m"] = 1 /\ Width["1h"] \in Nat \ {0} /\ Width["1d"] \in Nat \ {0}
      /\ Width["1d"] % Width["1h"] = 0
  BY TelemetryConstants DEF Granularity
<1>2. Bucket(m, "1m") = m
  BY <1>1 DEF Bucket
<1>3. Bucket(Bucket(m, "1h"), "1d") = Bucket(m, "1d")
  BY <1>1, NestedMultiples DEF Bucket
<1> QED
  BY <1>2, <1>3

\* A row of a coarser table that has all the frames of a finer one's.
LEMMA CoarserRow ==
  ASSUME MetricsInv, NEW f \in Granularity, NEW g \in Granularity,
         \A i \in 1 .. Len(arrived) : f \in arrived[i].in => g \in arrived[i].in,
         \A m \in Nat : Bucket(Bucket(m, f), g) = Bucket(m, g),
         NEW b \in DOMAIN rows[f]
  PROVE  LET c == Bucket(b, g)
         IN /\ c \in DOMAIN rows[g] /\ rows[g][c].n >= rows[f][b].n
            /\ \A l \in DOMAIN rows[f][b].max : rows[g][c].max[l] >= rows[f][b].max[l]
<1> DEFINE c == Bucket(b, g)
           A == In(arrived, f, b)
           B == In(arrived, g, c)
           x == rows[f][b]
           y == rows[g][c]
<1>1. b \in Nat
  <2>1. rows[f] \in Table
    BY DEF MetricsInv, TableSet
  <2> QED
    BY <2>1, TableIn
<1>2. c \in Nat
  BY <1>1, BucketFacts
<1>3. Describes(arrived, x, A)
  BY <1>1 DEF MetricsInv, Accounted
<1>4. x \in RowType /\ x.n = Cardinality(A) /\ PeakOf(arrived, x.max, A) /\ x.n \in Nat \ {0}
  BY <1>3 DEF Describes, RowType
<1>5. /\ IsFiniteSet(A) /\ IsFiniteSet(B) /\ A \in SUBSET (1 .. Len(arrived)) /\ B \in SUBSET (1 .. Len(arrived))
      /\ arrived \in Seq(Arrival)
  <2>1. arrived \in Seq(Arrival)
    BY DEF MetricsInv
  <2>2. Len(arrived) \in Nat /\ IsFiniteSet(1 .. Len(arrived))
    BY <2>1, FS_Interval
  <2>3. A \in SUBSET (1 .. Len(arrived)) /\ B \in SUBSET (1 .. Len(arrived))
    BY DEF In
  <2> QED
    BY <2>1, <2>2, <2>3, FS_Subset
<1>6. A \subseteq B
  <2> SUFFICES ASSUME NEW i \in A PROVE i \in B
    OBVIOUS
  <2>1. i \in 1 .. Len(arrived) /\ f \in arrived[i].in /\ Bucket(arrived[i].minute, f) = b
    BY DEF In
  <2>2. arrived[i].minute \in Nat
    <3>1. arrived[i] \in Arrival
      BY <1>5, <2>1
    <3> QED
      BY <3>1 DEF Arrival
  <2>3. Bucket(arrived[i].minute, g) = c
    BY <2>1, <2>2
  <2> QED
    BY <2>1, <2>3 DEF In
<1> HIDE DEF c, A, B, x, y
<1>7. A # {} /\ Cardinality(A) <= Cardinality(B)
  <2>1. Cardinality({}) = 0
    BY FS_EmptySet
  <2> QED
    BY <1>4, <1>5, <1>6, <2>1, FS_Subset
<1>8. c \in DOMAIN rows[g] /\ Describes(arrived, y, B)
  <2>1. IF c \in DOMAIN rows[g] THEN Describes(arrived, rows[g][c], In(arrived, g, c)) ELSE In(arrived, g, c) = {}
    BY <1>2 DEF MetricsInv, Accounted
  <2>2. In(arrived, g, c) # {}
    BY <1>6, <1>7 DEF B
  <2> QED
    BY <2>1, <2>2 DEF B, y
<1>9. y.n = Cardinality(B) /\ PeakOf(arrived, y.max, B) /\ y \in RowType
  BY <1>8 DEF Describes
<1>10. y.n >= x.n
  <2>1. y.n \in Nat
    BY <1>9 DEF RowType
  <2> QED
    BY <1>4, <1>7, <1>9, <2>1
<1>11. ASSUME NEW l \in DOMAIN x.max PROVE y.max[l] >= x.max[l]
  <2>1. PICK i \in A : l \in DOMAIN arrived[i].frame /\ arrived[i].frame[l] = x.max[l]
    BY <1>4 DEF PeakOf
  <2>2. l \in DOMAIN y.max /\ arrived[i].frame[l] <= y.max[l]
    BY <1>6, <1>9, <2>1 DEF PeakOf
  <2>3. x.max[l] \in Int /\ y.max[l] \in Int
    <3>1. x.max \in Readings(Int) /\ y.max \in Readings(Int)
      BY <1>4, <1>9 DEF RowType
    <3> QED
      BY <2>2, <3>1, ReadingsIn
  <2> QED
    BY <2>1, <2>2, <2>3
<1> QED
  BY <1>8, <1>10, <1>11 DEF c, x, y

\* As long as a fine row is there the coarser rows of its time are, with at least its
\* frames and peaks: the prune of one table never overtakes the finer one's (metricsStore.ts).
THEOREM CoarserRowsLast == Spec => []LongHoldsShort
<1>1. MetricsInv => LongHoldsShort
  <2> SUFFICES ASSUME MetricsInv PROVE LongHoldsShort
    OBVIOUS
  <2>1. "1m" \in Granularity /\ "1h" \in Granularity /\ "1d" \in Granularity
    BY DEF Granularity
  <2>2. \A i \in 1 .. Len(arrived) :
          ("1m" \in arrived[i].in => "1h" \in arrived[i].in) /\ ("1h" \in arrived[i].in => "1d" \in arrived[i].in)
    BY DEF MetricsInv, Coarse
  <2>3. /\ \A m \in Nat : Bucket(Bucket(m, "1m"), "1h") = Bucket(m, "1h")
        /\ \A m \in Nat : Bucket(Bucket(m, "1h"), "1d") = Bucket(m, "1d")
    BY NestedBuckets
  <2>4. ASSUME NEW b \in DOMAIN rows["1m"]
        PROVE  LET c == Bucket(b, "1h")
               IN /\ c \in DOMAIN rows["1h"] /\ rows["1h"][c].n >= rows["1m"][b].n
                  /\ \A l \in DOMAIN rows["1m"][b].max : rows["1h"][c].max[l] >= rows["1m"][b].max[l]
    BY <2>1, <2>2, <2>3, CoarserRow
  <2>5. ASSUME NEW b \in DOMAIN rows["1h"]
        PROVE  LET c == Bucket(b, "1d")
               IN /\ c \in DOMAIN rows["1d"] /\ rows["1d"][c].n >= rows["1h"][b].n
                  /\ \A l \in DOMAIN rows["1h"][b].max : rows["1d"][c].max[l] >= rows["1h"][b].max[l]
    BY <2>1, <2>2, <2>3, CoarserRow
  <2> QED
    BY <2>4, <2>5 DEF LongHoldsShort
<1> QED
  BY <1>1, MetricsInvariance, PTL
=============================================================================
