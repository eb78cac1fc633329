------------------------------ MODULE Records ------------------------------
(***************************************************************************)
(* What the dashboard keeps across restarts: its telemetry in SQLite       *)
(* (Telemetry.tla) and its JSON files (ConfigFiles.tla), with what they    *)
(* share: maintenance (server/src/hardening/maintenance.ts), a crash and   *)
(* an orderly shutdown (server/src/index.ts).                              *)
(***************************************************************************)
EXTENDS Telemetry, ConfigFiles

CONSTANTS TracesDays,      \* settings.retention.tracesDays, in minutes
          MaxBackups, MaxRestarts

ASSUME RecordsConstants == TracesDays \in Nat /\ MaxBackups \in Nat /\ MaxRestarts \in Nat

VARIABLE restarts

vars == <<telemetryVars, configVars, restarts>>

Metrics == (\E m \in Minute, frame \in Frames : m <= now /\ Ingest(m, frame)) \/ Flush

Telemetry == (Metrics \/ Trace \/ Tick) /\ UNCHANGED <<configVars, restarts>>

Files ==
  \/ \E f \in File, e \in Edit : SyncEdit(f, e) \/ AsyncEdit(f, e)
  \/ \E f \in File : Refresh(f)
  \/ \E w \in writes : Rename(w) \/ WriteFails(w)
  \/ Export \/ \E files \in SUBSET File : Import(files)
  \/ Backup(MaxBackups)

\* The metrics tables' own timer, every hour.
PruneTimer == Prune /\ UNCHANGED <<now, traceVars, configVars, restarts>>

\* runMaintenance, at boot, every hour and on demand, in one step.
Maintenance ==
  /\ Prune /\ PruneTraces(TracesDays) /\ PruneBackups
  /\ UNCHANGED <<now, fileVars, export, restarts>>

Boot == restarts < MaxRestarts /\ restarts' = restarts + 1

\* SIGTERM: the buffer is flushed before the database is closed.  Calls of
\* atomicWriteJson under way are not waited for.
Shutdown ==
  /\ (IF buffer = <<>> THEN UNCHANGED metricVars ELSE Flush)
  /\ LoadAll(disk) /\ Boot /\ UNCHANGED <<now, traceVars>>

\* A crash, possibly in the middle of an import, or in a flush that fails.
Crash ==
  /\ BufferLost \/ FlushFails
  /\ \E done \in SUBSET Exported, half \in SUBSET Exported :
       /\ done \cap half = {} /\ Cardinality(half) <= 1
       /\ LoadAll(Imported(done, half))
  /\ Boot /\ UNCHANGED <<now, traceVars>>

Init == TelemetryInit /\ ConfigInit /\ restarts = 0

Next ==
  \/ Telemetry
  \/ Files /\ UNCHANGED <<telemetryVars, restarts>>
  \/ PruneTimer \/ Maintenance \/ Shutdown \/ Crash

Spec == Init /\ [][Next]_vars

----------------------------------------------------------------------------
\* Retention deletes from the old end: of the traces, and of the backups.
RetentionKeepsNewest == NewestTracesKept /\ GoodBackupsKept
=============================================================================
