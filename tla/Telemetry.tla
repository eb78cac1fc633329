----------------------------- MODULE Telemetry -----------------------------
(***************************************************************************)
(* What the dashboard records in SQLite: the roll-ups of the agents'       *)
(* metrics (server/src/stores/metricsStore.ts), and the gateway's traces   *)
(* (tracesStore.ts).  One series: node and domain are part of every key    *)
(* and rows of different series never meet.  An average is a fraction, so  *)
(* the inexactness of doubles is left out; the rounding of a merged        *)
(* average, which the next merge starts from, is not.                      *)
(***************************************************************************)
EXTENDS Integers, Sequences, FiniteSets, Functions

CONSTANTS
  Frames,        \* frames of the series: functions from their leaves to samples
  LastMinute,    \* bound on time
  Width,         \* minutes of a bucket, by granularity
  Keep,          \* minutes a row is kept, by granularity
  Grain,         \* a merged average is rounded to 1/Grain
  MaxTraces, MaxTraceAge,     \* TracesStore's caps
  MaxFrames, MaxRequests      \* bounds on what arrives

Granularity == {"1m", "1h", "1d"}
Minute == 0..LastMinute

ASSUME TelemetryConstants ==
  /\ LastMinute \in Nat /\ MaxFrames \in Nat /\ MaxRequests \in Nat
  /\ Width \in [Granularity -> Nat \ {0}] /\ Keep \in [Granularity -> Nat]
  /\ Width["1m"] = 1 /\ Width["1d"] % Width["1h"] = 0
  /\ \A f \in Frames : f \in [DOMAIN f -> Int]
  /\ Grain \in Nat \ {0}
  /\ Keep["1m"] + Width["1h"] <= Keep["1h"] + 1 /\ Keep["1h"] + Width["1d"] <= Keep["1d"] + 1
  /\ MaxTraces \in Nat \ {0} /\ MaxTraceAge \in Nat

VARIABLES
  now,           \* the dashboard's clock, in minutes
  buffer,        \* MetricsStore.buffer, in order of insertion
  rows,          \* the three tables: [granularity -> [bucket -> row]]
  traces,        \* rows of gateway_traces: [ts, of]
  arrived,       \* history: the frames, and where each one is counted
  requests       \* history: time of each request's trace

metricVars == <<buffer, rows, arrived>>
traceVars == <<traces, requests>>
telemetryVars == <<now, metricVars, traceVars>>

Bucket(minute, g) == (minute \div Width[g]) * Width[g]

----------------------------------------------------------------------------
(* Merging.  A row and a buffered minute are [n, avg, max], avg and max     *)
(* functions on the leaves seen so far.                                    *)

Divides(d, n) == n % d = 0
Fraction(p, q) ==
  LET d == CHOOSE k \in 1..q : Divides(k, p) /\ Divides(k, q)
                               /\ \A j \in (k + 1)..q : ~(Divides(j, p) /\ Divides(j, q))
  IN <<p \div d, q \div d>>

Peak(f, g) == [l \in DOMAIN f \cup DOMAIN g |->
                 IF l \notin DOMAIN g \/ (l \in DOMAIN f /\ f[l] > g[l]) THEN f[l] ELSE g[l]]

\* A minute's accumulator before its first frame.
NoFrames(minute) == [minute |-> minute, n |-> 0, sum |-> << >>, max |-> << >>]

\* One frame into its minute's accumulator.
Accumulate(acc, frame) ==
  [minute |-> acc.minute,
   n |-> acc.n + 1,
   sum |-> [l \in DOMAIN acc.sum \cup DOMAIN frame |->
              (IF l \in DOMAIN acc.sum THEN acc.sum[l] ELSE 0) + (IF l \in DOMAIN frame THEN frame[l] ELSE 0)],
   max |-> Peak(acc.max, frame)]

\* The row a buffered minute makes: sums are divided by the frames of the minute.
RowOf(acc) == [n |-> acc.n, avg |-> [l \in DOMAIN acc.sum |-> Fraction(acc.sum[l], acc.n)], max |-> acc.max]

\* Fault: the two averages count the same, whatever number of frames they stand for.
WeighEqual(a, n, b, k) == <<a[1] * b[2] + b[1] * a[2], 2 * a[2] * b[2]>>

Weigh(a, n, b, k) == <<a[1] * n * b[2] + b[1] * k * a[2], a[2] * b[2] * (n + k)>>

\* Math.round(x * Grain) / Grain
Rounded(x) == <<(2 * Grain * x[1] + x[2]) \div (2 * x[2]), Grain>>

\* MetricsStore.merge.  A leaf that only the old side has keeps its average as it is.
Merge(old, new) ==
  [n |-> old.n + new.n,
   avg |-> [l \in DOMAIN old.avg \cup DOMAIN new.avg |->
              IF l \notin DOMAIN new.avg THEN old.avg[l]
              ELSE Rounded(IF l \in DOMAIN old.avg THEN Weigh(old.avg[l], old.n, new.avg[l], new.n)
                           ELSE new.avg[l])],
   max |-> Peak(old.max, new.max)]

MergeInto(table, bucket, row) ==
  [b \in DOMAIN table \cup {bucket} |->
     IF b # bucket THEN table[b] ELSE IF b \in DOMAIN table THEN Merge(table[b], row) ELSE row]

\* One buffered minute, merged into the tables of the given granularities.
Store(tables, acc, into) ==
  [g \in Granularity |-> IF g \in into THEN MergeInto(tables[g], Bucket(acc.minute, g), RowOf(acc)) ELSE tables[g]]

----------------------------------------------------------------------------
(* Operations.                                                             *)

\* A metrics frame of the agent; its ts is the node's clock, so it may be old.
\* A frame without numeric leaves is not counted.
Ingest(minute, frame) ==
  /\ Len(arrived) < MaxFrames /\ DOMAIN frame # {}
  /\ IF \E i \in 1..Len(buffer) : buffer[i].minute = minute
     THEN buffer' = [i \in 1..Len(buffer) |->
                       IF buffer[i].minute = minute THEN Accumulate(buffer[i], frame) ELSE buffer[i]]
     ELSE buffer' = Append(buffer, Accumulate(NoFrames(minute), frame))
  /\ arrived' = Append(arrived, [minute |-> minute, frame |-> frame, in |-> {"buffer"}])
  /\ UNCHANGED <<now, rows, traceVars>>

Moved(set) == [i \in 1..Len(arrived) |-> IF "buffer" \in arrived[i].in THEN [arrived[i] EXCEPT !.in = set] ELSE arrived[i]]

\* The tables with all buffered minutes, one after the other.
Flushed ==
  LET upto[k \in 0..Len(buffer)] == IF k = 0 THEN rows ELSE Store(upto[k - 1], buffer[k], Granularity)
  IN upto[Len(buffer)]

\* Every 5 s: all buffered minutes, in one transaction; then the buffer is emptied.
Flush ==
  /\ buffer # <<>>
  /\ rows' = Flushed
  /\ buffer' = <<>> /\ arrived' = Moved(Granularity)
  /\ UNCHANGED <<now, traceVars>>

\* Fault: every table is written on its own, and the write fails after the first.
FlushTorn ==
  /\ buffer # <<>> /\ rows' = Store(rows, buffer[1], {"1m"})
  /\ buffer' = <<>> /\ arrived' = Moved({})

\* The dashboard stops with frames in the buffer.
BufferLost == buffer' = <<>> /\ arrived' = Moved({}) /\ UNCHANGED rows

\* The transaction throws in the timer's callback and rolls back: nothing catches
\* the error, so the dashboard dies with the buffer.
FlushFails == buffer # <<>> /\ BufferLost

\* Fault: the first table's window is used for all three.
CutoffSame(g) == now - Keep["1m"]

Cutoff(g) == now - Keep[g]

Prune ==
  /\ rows' = [g \in Granularity |-> Restrict(rows[g], {b \in DOMAIN rows[g] : b >= Cutoff(g)})]
  /\ arrived' = [i \in 1..Len(arrived) |->
       [arrived[i] EXCEPT !.in = @ \ {g \in Granularity : Bucket(arrived[i].minute, g) < Cutoff(g)}]]
  /\ UNCHANGED buffer

\* A request's trace, and the prune that follows each insert: rows older than the
\* cap, then all but the newest.  ORDER BY ts leaves the order of equal times open.
Newest(set, k) ==
  IF Cardinality(set) <= k THEN {set}
  ELSE {kept \in SUBSET set : Cardinality(kept) = k /\ \A a \in kept, b \in set \ kept : a.ts >= b.ts}

Trace ==
  /\ Len(requests) < MaxRequests
  /\ requests' = Append(requests, now)
  /\ LET all == traces \cup {[ts |-> now, of |-> Len(requests) + 1]}
     IN traces' \in Newest({t \in all : t.ts >= now - MaxTraceAge}, MaxTraces)
  /\ UNCHANGED <<now, metricVars>>

\* The hourly maintenance's own deletion of traces.
PruneTraces(days) == traces' = {t \in traces : t.ts >= now - days} /\ UNCHANGED requests

Tick == now < LastMinute /\ now' = now + 1 /\ UNCHANGED <<metricVars, traceVars>>

TelemetryInit ==
  /\ now = 0 /\ buffer = <<>> /\ rows = [g \in Granularity |-> << >>]
  /\ arrived = <<>> /\ traces = {} /\ requests = <<>>

----------------------------------------------------------------------------
Counted(g, b) == {i \in 1..Len(arrived) : g \in arrived[i].in /\ Bucket(arrived[i].minute, g) = b}

\* Counts.  The row of a bucket stands for exactly the frames flushed into it since
\* it was last pruned, each counted once in each granularity, whatever order
\* frames, flushes, failures and prunes come in; so does the buffer for the rest.
CountsAddUp ==
  /\ \A g \in Granularity, b \in Minute :
       IF b \in DOMAIN rows[g] THEN rows[g][b].n = Cardinality(Counted(g, b)) /\ rows[g][b].n > 0
       ELSE Counted(g, b) = {}
  /\ \A i \in 1..Len(buffer) :
       buffer[i].n = Cardinality({k \in 1..Len(arrived) : /\ arrived[k].in = {"buffer"}
                                                           /\ arrived[k].minute = buffer[i].minute})

Samples(a, l, of) == [i \in Nat |-> IF i \in of /\ l \in DOMAIN a[i].frame THEN a[i].frame[l] ELSE 0]

Sum(f, n) == LET upto[k \in Nat] == IF k = 0 THEN 0 ELSE upto[k - 1] + f[k] IN upto[n]

\* What a leaf adds up to in some of the frames that arrived.
Total(a, l, of) == Sum(Samples(a, l, of), Len(a))

\* How far rounding may have moved an average of n frames: half a grain at each
\* merge, of which the next merge keeps the old row's share.  In units of 1/(4 Grain n).
Drift(n) == (n - 1) * (n + 2)

NearMean(average, n, total) ==
  LET off == 4 * Grain * (average[1] * n - total * average[2])
  IN -(Drift(n) * average[2]) <= off /\ off <= Drift(n) * average[2]

\* Averages and peaks.  The maximum of a leaf is its largest sample, and its average
\* the mean of its samples but for the rounding, whenever no frame of the row lacked it
\* (metricsStore.ts:5; what the average of an intermittent leaf says depends on how
\* frames were flushed).  A row no flush was merged into is exact; the allowance grows
\* with the frames of the row, since a merge that moves a rounded average by less than
\* half a grain does not move it at all (metricsStore.ts:141).
AveragesTrue ==
  \A g \in Granularity : \A b \in DOMAIN rows[g] :
    LET row == rows[g][b]
        of == Counted(g, b)
    IN \A l \in DOMAIN row.max :
         /\ \A i \in of : l \in DOMAIN arrived[i].frame => arrived[i].frame[l] <= row.max[l]
         /\ \E i \in of : l \in DOMAIN arrived[i].frame /\ arrived[i].frame[l] = row.max[l]
         /\ (\A i \in of : l \in DOMAIN arrived[i].frame) =>
              NearMean(row.avg[l], row.n, Total(arrived, l, of))

\* "Every flush also merges into the 1h and 1d buckets so long retention needs no
\* cascade" (metricsStore.ts:6).  As long as a fine row is there, the coarser rows of
\* its time are, and they stand for at least its frames and its peaks.
LongHoldsShort ==
  LET Holds(fine, coarse) ==
        \A b \in DOMAIN rows[fine] :
          LET c == Bucket(b, coarse)
          IN /\ c \in DOMAIN rows[coarse] /\ rows[coarse][c].n >= rows[fine][b].n
             /\ \A l \in DOMAIN rows[fine][b].max : rows[coarse][c].max[l] >= rows[fine][b].max[l]
  IN Holds("1m", "1h") /\ Holds("1h", "1d")

\* Traces.  The cap holds after every request, and no trace that is gone is newer
\* than one that is kept (tracesStore.ts:6, "row limit + age-based retention").
NewestTracesKept ==
  /\ Cardinality(traces) <= MaxTraces
  /\ \A i \in 1..Len(requests), t \in traces : (\A s \in traces : s.of # i) => requests[i] <= t.ts
=============================================================================
