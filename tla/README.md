# DGX Control Center: the verification project

TLA+ models of the dashboard server (`server/src`), the node agent
(`agent/src`) and the reader of the chat stream (`web/src/api/chat.ts`) of DGX
Control Center, TLC runs that check them on small instances, and TLAPS proofs
about all of them but Serving. Line numbers refer to the repository's sources;
`PROJECT.json` maps every definition to the lines it models.

## 1. The system

The dashboard is one Node.js process. Agents dial its `/agent-ws` websocket;
the browser uses its HTTP API; LLM clients use its `/v1` gateway. Handlers run
on one event loop, so a handler is atomic up to its next `await`; everything
between two handlers, two processes or two machines may interleave.

| component | state it keeps | operations | interacts with |
|---|---|---|---|
| Jobs manager (`jobs/jobsManager.ts`) | record map, ring of 50 reqIds per node, timeout handles, listeners | dispatch, cancel, timeout, job-out, job-exit, onNodeDisconnected | hub (send), supervisor, recipes and store inventory (onFinished), agent (frames) |
| Agent hub (`agentHub.ts`) | per-node connection, last contact, handshake state of each socket | connection, hello/welcome, frame, close, error, sweep | jobs manager, reconciler, live state (frames) |
| Agent daemon (`agent/src/daemon.ts`, `reconcile.ts`, `main.ts`) | its socket, child processes, config, state file, promise chain of clock tasks | dial, backoff, handle, runJob, kill, boot re-apply, ingest of a profile | hub; helper script on the node |
| Reconciler, desired state (`reconciler.ts`, `desiredState.ts`) | per-node runtime entry; JSON file | tick (2 s), message hook, patch | hub, agent config |
| Deployments (`serving/deployments.ts`) | deployment records (file), verb-to-record map | start, stop, restart, probe, remove, end of a job | jobs manager, gateway (state join) |
| Recipes (`serving/recipes.ts`, routes in `app.ts`) | records (file), probe jobs waited for | register, probe, remove, end of a probe | jobs manager |
| Multi-node guard (`serving/multiNode.ts`) | none | check before a start | deployments |
| Gateway, on-demand (`gateway/*.ts`) | served models (file), last use per alias, round-robin counters | route, warm-up wait, failover chain, touch, idle sweep | deployments, jobs, chat |
| Chat (`chat/*.ts`) | folders, conversations, messages (SQLite) | edits of them, a turn with its stream | gateway, browser |
| Power (`power/*.ts`, timers of `index.ts`) | guard state (file), manual profiles (file), schedules (file) | thermal tick (15 s), schedule tick (30 s), PUT | live state, jobs manager, desired state |
| Alerts (`alerts/*.ts`, `stores/alertsStore.ts`) | breach clocks (memory), alert rows (SQLite), rules (file) | tick (60 s), acknowledge, resolve, mute, rule edits | live state, directory, delivery |
| Model control (`modelctl/*.ts`) | response cache, fetches in flight | list, sync, delete, provision | jobs manager, SSH |
| Metrics and traces (`stores/metricsStore.ts`, `tracesStore.ts`) | buffer (memory), three roll-up tables, traces (SQLite) | observe, flush, prune, record | live state, gateway |
| Config files, backup, maintenance (`util/atomicWrite.ts`, `hardening/*.ts`, the stores) | JSON files, backup directories | edit, export, import, backup, retention, restart | every store |
| Bootstrap (`bootstrap/installAgent.ts`, `transport/ssh.ts`) | the node's bundle and unit | install, upgrade | agent, systemd |
| Live state, directory, shared protocol, web UI, collectors, demo fleet | snapshots, views | | everyone |

What makes it hard: sockets break at any point and lose what was on the wire;
an agent that reconnects replaces its own earlier socket, whose close event
comes late; timeouts race with answers and with operators; both ends restart
independently and find files that may be older than the world; several writers
(guard, schedule, operator, agent) command the same clocks; a request waits
while the thing it waits for is stopped, removed or crashes; an engine breaks
off in the middle of a line that two readers are reading; listings and probes
take long enough for what they read to change; file writes overlap.

What each component must get right:

- jobs: one end per record, announced once; a `done` that is true; no spawn
  twice; every timed job ends; the ring and the map agree.
- hub: an open authenticated socket is the one its node is reached by; a late
  close evicts nobody else.
- reconciler: a linked node gets the desired configuration in the end and never
  an older one.
- deployments and one target's gateway: late job ends stay with their record;
  every request is answered; an idle model is asked to stop until its record says
  so.
- gateway over several targets: healthier targets first, evenly among equals,
  and no failure before all are tried.
- chat: the store stays consistent under deletions; what was shown is what is
  stored; every question gets an answer.
- agent clocks: the newest profile has the last word; what is recorded as
  applied is applied.
- power: the guard holds and lets go; whoever commands the clocks, they end up
  as shown.
- alerts: at most one open alert per rule and entity, no early firing, cleared
  alerts close, lasting breaches are open.
- metrics and traces: nothing counted twice or in one table only; peaks true,
  averages as true as their rounding lets them be; the oldest go first.
- config files: what a caller was told is done survives a restart.
- model control, recipes: no older listing over a newer one, no folder's facts
  in another's record, every request for a listing answered.
- bootstrap: an upgrade reported as done would have the new agent running
  (section 6, item 2: it would not, and the shipped server has no such route).

The hazards with their lines, and the properties that answer them, are in
`PROJECT.json`.

## 2. Modules

    JobLifecycle            promise of the jobs manager to its callers
      ^ implemented by
    JobsManager             jobs/jobsManager.ts             JobsManagerProofs
    AgentRegistry           agentHub.ts
      \  both INSTANCEd by
    JobChannel              + daemon.ts, sockets, children  JobChannelProofs
    Reconciler              EXTENDS AgentRegistry;
                            reconciler.ts, desiredState.ts  ReconcilerProofs (and the hub's)

    ServeState              pure join of a deployment's state
      ^ extended by
    Serving                 deployments.ts, onDemand.ts, gateway.ts for one target
    MultiNode               checkMultiNode                  in NodeSetupProofs

    Gateway                 servedModels.ts, gateway.ts for several targets
      ^ extended by
    Chat                    chat/*.ts, web/src/api/chat.ts  ChatProofs (and Gateway's)

    AgentClocks             agent/src/reconcile.ts, promise chain
      ^ extended by
    AgentDaemon             daemon.ts: link, handlers, loop AgentClocksProofs
    AlertEngine             alerts/engine.ts, alertsStore.ts
    Power                   thermal.ts, schedules.ts        HoldProofs (both)

    Telemetry               metricsStore.ts, tracesStore.ts
    ConfigFiles             atomicWrite.ts, the stores, backup.ts
      \  both EXTENDed by
    Records                 maintenance.ts, shutdown, crash RecordsProofs (all three)

    NodeJobs                dispatch and its refusals, as much of JobsManager as is needed
      ^ extended by
    Inventory               modelctl/*.ts
    Recipes                 serving/recipes.ts and its routes
    Bootstrap               bootstrap/installAgent.ts, transport/ssh.ts
      \  the three EXTENDed by
    NodeSetup               end of a job, restart           NodeSetupProofs

`MC*` modules give constants to TLC. Definitions whose comment begins with
"Fault:" or "Not the code:" are not part of any specification: each is a wrong
variant of the definition that follows it, used to see that a property notices
(`PROJECT.json`, "mutants").

**JobsManager.** `jobs`, `byNode`, `timers` are the class's maps; `armed` tells
live timeout handles from spent ones, `issued` and `notified` are history. One
action per method: `Dispatch` (with its conflict check, ring push and eviction,
and the refused write that ends the record inside `dispatch`), `TimerFires`,
`JobOut` and `JobExit` (which make orphan records for unknown reqIds),
`OnNodeDisconnected`, `Cancel`. The environment may report any reqId at any
time. Argv, output and clocks are left out.

**AgentRegistry.** Each websocket is unused, open, closing or closed; `auth` is
the node it said hello as, `connections` the registry, `silence` the pong
periods since the last contact. `Hello` registers and closes the replaced
socket; `Refuse` closes a socket for a bad hello, or at any time for a frame that
is no JSON; `Unregister` compares identities; `Sweep` drops silent nodes.

**JobChannel** composes both for one node with the daemon: frames travel on two
queues per socket; a break loses a suffix of them; frames of a closed agent
socket are dropped and never repeated; child processes end with or without
success, and their output may follow their exit frame (`streams`: the agent
sends the frame with the child's `exit` event, when a pipe may still be open);
agent and dashboard restart. A dashboard restart empties the jobs manager while
the agent keeps streaming.

**Reconciler** adds desired state, the runtime entries and the agent's config to
the registry. The welcome carries the desired configuration; only the tick sets
`lastSent`.

**ServeState, Serving.** A recipe's deployment record with its verbs as jobs
(one tracked job per kind), probes reduced to the classes `joinServeState` tells
apart, the on-demand manager's `ensureUp` and sweep, requests that warm up,
fetch and are answered, and pass-through requests, which touch nothing. The jobs
layer is used by what JobsManager guarantees.

**MultiNode.** `CheckMultiNode` on a recipe's declared topology and the
configured peers, with the guard's order of refusals.

**Gateway.** One alias over several targets: `Resolve` is the ranking with
rotation inside each health class, `Begin` what happens before the first
`await`, `Warmed` the bounded wait that resolves the route again without moving
the counter, `Try`,
`Headers`, `Chunk`, `AnswerEnds` and `AnswerBreaks` the failover chain, in which
a 5xx and a broken body go on to the next target. `heard` is what the caller's
`onResponseChunk` was given; `firsts` and `seconds` are history: how often each
target headed a chain given at first, and one given after a warm-up.

**Chat.** A turn is a Gateway request. `PostMessage` stores the question and
begins the request in one step; `TurnStep` is a gateway step that, when the
request is done, stores the answer too. Both readers of the stream (`Collected`
at the server, `Shown` in the browser) are `Reader` over the chunks, which takes
them one at a time; a piece of text is the target it came from, so mixed answers
can be told apart.

**AgentClocks.** The chain of clock tasks, with a state between saving the
desired profile, applying it and recording it, so that a crash or a failed write
may fall in between. The helper's GPU and CPU commands succeed or fail on their
own; its status is the CPU's.

**AgentDaemon.** The daemon's link, the handlers that wait for their clock task,
and the metric loop around AgentClocks. `Closed` cancels no handler, so `Resume`
may find another socket, or none. A step of the chain that rejects it rejects the
handlers.

**Power.** Everybody who commands one node's clocks: the guard, the profile the
operator or a schedule wishes, the agent's own re-apply, and the operator's
`POST /api/nodes/:id/jobs` with caps of any kind and with or without a timeout,
which takes the same single-flight slot and may be cancelled. The temperature is
the class the guard tells apart (hot, warm, cool, none); time since `belowSince`
is counted in steps; the active schedule window is a profile that changes at
will. The agent is AgentClocks without its queue and with one clock instead of
two. A job has a record at the dashboard and a process at the node, which may
outlive it. Two processes setting the same caps are one.

**AlertEngine.** One tick over rules and entities as in `AlertEngine.tick`, with
open rows as sequences (the table has no key on rule and entity), breach clocks
in ticks, and the routes that change rows or rules. Resolved rows are never read
again and are dropped.

**Telemetry.** Frames with a subset of the leaves arrive for any minute that has
come; `Flush` merges the buffer into the three tables in one transaction
(`Flushed`, one minute after the other), or fails. An average is a fraction;
`Merge` rounds the merged one to a multiple of 1/`Grain` before it is stored and
fed into the next merge, as `metricsStore.ts:141` does to three decimals
(`Grain` = 1000). `arrived` records where each frame is counted.

**ConfigFiles.** A file's content is the set of edits it reflects. Stores of
`SyncFile` write and rename in one step and only log a failure; those of
`AsyncFile` take their text at once and rename later. `Refresh` is a write that
changes nothing an operator asked for (a client's last use), `Import` overwrites
files under the stores. `doubt` holds the files whose last write may not have
been the newest.

**Records.** Both of the above with what they share: maintenance, an orderly
shutdown (which flushes the buffer and does not wait for file writes) and a
crash (which may tear a file being imported).

**NodeJobs, Inventory, Recipes, Bootstrap, NodeSetup.** Every thing that can be
read on a node has a generation that only grows; a job or an SSH session reads
some generation between its start and its end. Inventory has the cache with its
age limits, one fetch in flight per target, the store's job and the nodes' SSH
listings. Recipes has registration, probes and the end of a probe, whose output
may be whole, cut or missing. Bootstrap runs the install script step by step on
a host whose systemd is the environment, on a server that was built with the
install routes (`routed`) or, as `index.ts` does it, without. NodeSetup tells
every listener of the end of every job and restarts the dashboard.

## 3. Runs

All bounds are constants of the modules, named and commented there.

| run | distinct states | question |
|---|---|---|
| `jobs` | 121,789 | Do record map, ring, timers and notifications stay consistent under any environment, and is JobLifecycle implemented? |
| `channel` | 667,240 | Are outcomes true, is what runs accounted for, and do jobs end, over breaking sockets, late output and restarts? |
| `broken_jobs` | violation | Does losing the connection end its jobs? |
| `reconciler` | 261,040 | Does configuration arrive, and never go back? |
| `serving` | 376,886 | Do late ends stay with their record, are requests answered, are idle models asked to stop until their record says so? |
| `idle_engine` | violation | Does the engine of an idle model go down? |
| `chat` | 771,583 | Is the best target tried first and evenly, is what was shown stored, does every question get an answer? |
| `clocks` | 560,884 | Does the newest profile win, is the record true, and does the agent report as last configured? |
| `power` | 604,428 | Is a wrong clock always explained, does the guard hold and let go, does the schedule win? |
| `alerts` | 106,368 | Is there one alert per breach, neither early, nor left over, nor missing? |
| `records` | 269,311 | Do counts, averages and files survive late frames, failing flushes, overlapping writes, imports and crashes, and does retention delete from the old end? |
| `nodes` | 200,848 | Do listings and recipe records never go back or mix, and is every listing answered? |

**Why the bounds are enough.**
`jobs`: two nodes, two kinds, three reqIds and rings of two, so that a running
job is shifted out of its ring, a conflict is met, and a reqId of one node's job
is reported by the other.
`channel`: two connections (one break and one reconnect), one timed and one
untimed job of the same kind, one dashboard restart, after which late output makes
orphans; the agent may restart whenever it is connected or not. The ring holds
both jobs: with a ring of one, in which late output evicts a running job,
`RunningIsAccounted` was also checked (1,768,870 states without a dashboard
restart), and section 7 proves it for every ring. Output may come at any
time while the pipe is open, before the exit frame or after it, when the agent has
nothing else on the wire.
`reconciler`: one node with two sockets, which is what a replacement needs;
patches only go forward, from c0 to c1 to c2; one server restart.
`serving`: two successive records of one recipe, one client, one more operator
act; this covers a verb that ends after its record was replaced.
`idle_engine`: one record, one request and no operator act; the counterexample
needs no more.
`chat`: two targets are what failover and ranking need, and what one engine's
line inside another's; with three there is one more way for the two readers to
part (section 6, item 13), which the proof of `ShownAndStored` covers; a chat
turn and a `/v1` request, which share the counter; one frame of an answer, in
one chunk or two; one change of health, of the model's record, of a folder, or a
restart. Both targets are down at first and the record is an on-demand one, so
that both requests may wait for the warm-up, be given a second chain by it, or
go on with the first when it gives up; the other record offered has no targets.
A change of health makes one target or both healthy (`MovesTo`), so chains of one
class and of two occur. Three `/v1`
requests without text, with every class of health and a record that is not
on-demand, were run for `RoutedWell` alone (575,592 states).
`clocks`: one frame waiting behind one in work, two restarts or boots, one failed
file write, any number of lost links, a capped, an uncapped and an unknown
profile. The clock chain alone was also run with queues of three.
`power`: a hold of one step, two acts of the operator or the schedule (a
profile, a window, a clock-apply job with the caps of a profile or for one clock
domain only), one link loss, boot, agent or dashboard restart, and commands that
may fail at any time.
`alerts`: one rule on two entities, a hold of two ticks, mutes of two ticks, one
restart. Pairs do not influence each other but through the rule's switch and
`listed`, which two entities show.
`records`: minutes 0 to 3 with coarse rows of two minutes, three frames (one
without a leaf the others have), two traces kept of three requests, one file of
each way of writing, three edits, two backups kept of four attempts, one
restart. Retention is compressed to minutes, with the order of the real limits.
Thirds are means that have to be rounded, and a row is rounded twice.
`nodes`: two nodes with a cache on one and two recipe folders on the other, two
jobs, one change of each thing read, a lifetime of one step, two bundles and one
install.
In `records` and `nodes` a state constraint `OneSide` lets one part act in a
behaviour. The parts of Records share only the clock and the restart, and those
of NodeSetup only which agents are up and the job channel, whose rule (one
running job of a kind on a node) keeps a listing and a probe apart by their kind;
the proofs of section 7 are about all of them together.

**Deadlock** is checked in `jobs`, `power` and `alerts`. The other runs stop when
their bounds (sockets, requests, edits, boots) are used up, which is why their
configurations switch the check off.

## 4. What the properties say

- `NotifiedOnce`, `KeepsLifecycle`: timeout, cancel, disconnect, exit and refused
  write race for a record's end; exactly one wins and is announced once.
- `IndexSound`, `SingleFlightIndexed`: what remains of "single flight": among
  the jobs a ring still names (section 6, item 11).
- `LiveTimer`: a running dispatched job never loses its live handle.
- `DoneIsTrue`, `RunningIsAccounted`, `SpawnsOnce`: relate dashboard, wire and
  process. `RunningIsAccounted` is about dispatched jobs: output that follows its
  exit frame and finds its record evicted makes an orphan that runs with nothing
  left behind it (section 6, item 20). `JobsEnd`: the timer ends a timed job, and
  the watchdog what the ring of a lost node names, unless later output shifts the
  job out of the ring first.
- `OpenMeansCurrent`, `EvictsOnlyItself`: registry against sockets.
- `Converges`, `NeverOlder`: desired state, wire, and the agent's config.
- `LateJobsStayWithTheirRecord`, `EveryRequestAnswered`.
- `IdleStops`: once nobody asks for the model any more, stops are dispatched again
  and again until its record no longer says that it runs, whatever stops failed or
  were lost. It is about the asking; that the engine goes down is
  `IdleEngineStops`, which fails even with a node that obeys (section 6, item 3).
- `RoutedWell`: a request tries each target of its record at most once, no worse
  one before a better one, and is told 502 only after all; while nothing
  changes, no target heads more chains than its equals by more than one and by
  those it was given after a warm-up (section 6, item 4).
- `StoreSound`, `ShownIsStored`, `QuestionsAreAnswered`: the chat's rows under
  deletions in mid-answer; what was shown against what is stored, with a 5xx
  body that leaves an unfinished line, or ends one, as the only excuse; a stored
  answer for each question.
- `LastFrameWins`, `CpuAsRecorded`, `RecordedInTheEnd`.
- `ReportsAsConfigured`: once no clock task is left, a welcomed agent is online
  and its metric loop has the cadence of the last configuration, whatever closed
  or arrived while handlers waited.
- `ClockExplained`: whenever no clock process is running and nothing of a listed
  kind has happened since the last command that set it, the clock is the quiet
  one under derate and the agent's profile otherwise. The list (where `excused`
  becomes true) is the complete set of ways the clock can be wrong: a refused,
  lost, failed, overtaken, cancelled or cut-short command, caps that cannot be
  sent, a manual profile other than the agent's, a profile applied under derate, a
  clock-apply job of the operator's, an agent restart.
- `RecoversAfterHold`, `LetsGo`, `DesiredFollows`: guard and schedule.
- `OneOpenAlert`, `FiresOnlyAfterHold`, `ClearedIsResolved`,
  `PersistentBreachAlerts`.
- `CountsAddUp`, `AveragesTrue`, `LongHoldsShort`: every row stands for exactly
  the frames flushed into it and its peaks are theirs; for every leaf that none
  of its n frames lacked, the average is off their mean by at most
  (n-1)(n+2)/(4n) grains, which is what one rounding per merge can add up to
  (section 6, item 21); where there is a fine row there are the coarser ones.
- `AnsweredIsStored`: outside `doubt`, a file is whole and holds every edit whose
  caller was answered. `RetentionKeepsNewest`: traces and backups go oldest
  first and only for newer ones.
- `MetaOfOwnFolder`, `ShowsNothingOlder`, `RequestsAnswered`: recipe records and
  listings among refused, unsent and late jobs.
- `BrokenJobsEnd`, `IdleEngineStops`: what the documents say and the code does not
  do (section 6).

## 5. Fairness

- Intervals and timeouts (`setInterval`, `setTimeout`) fire: weak fairness of
  `Watchdog`, `Tick`, `ThermalTick`, `ScheduleTick`, `TimerFires`, `IdlePasses`,
  `GivesUp`.
- A close or break of a socket is noticed and the agent redials
  (`scheduleReconnect`): weak fairness of `Close`, `Dial`, `Connect`.
- Frames on a live connection arrive: weak fairness of `Receive`, `AgentReceive`,
  `ConfigUpdate`.
- A fetch is aborted by its own timer and the reply is written: `Fetch`,
  `Answer`, `Passed` (Serving) and `TurnStep` (Chat: the 300 s abort, the
  deadline of the warm-up wait, and the chain's own loop).
- A job of NodeSetup ends at the latest by its timer (`JobEnds`), an SSH session
  by the timer of `runSsh` (`SshEnds`).
- Assumptions about the world, not the code, and used only where named: a helper
  command tried for ever works at some time and a link that comes again and
  again brings a frame (strong fairness in `AgentDaemon`), a node is not away for
  good when the sweep wants to stop its engine (strong fairness of `Sweep("sent")`
  in `Serving`), a clock-apply process ends (`Power`; the code kills it at
  its timeout, but an operator's job may have none).
- No passing run takes a stop to succeed: `Serving` has only the 120 s timer of the
  stop job. `ObedientSpec` adds that a stop repeated for ever succeeds at some time;
  `idle_engine` uses it, so that its counterexample is not the node's fault.
- `JobsEnd` needs no more than the dashboard's timers (`TimerSpec`: `TimerFires` of
  timed jobs and `Watchdog`); `broken_jobs` is violated in spite of all of the
  channel's fairness.
- Nothing is assumed of operators, of schedules, of how long children run, of
  health, or of the network staying up.

## 6. Divergences

Where the code and its documents disagree. Items 1 and 3 have a run that shows
them; the others are visible in the modelled code and are excused, by name, in
the properties they touch.

1. **Jobs of a broken connection** (`broken_jobs`). `jobsManager.ts:9` says a
   disconnect marks running jobs interrupted; only the 10 s watchdog does, and
   only while the node has no connection. An agent redials after 1 s, so the job
   whose exit frame was lost runs for ever on the dashboard if it has no timeout,
   and blocks its kind.
2. **Upgrading an agent.** `docs/RUNBOOKS.md:62` says that
   `POST /api/nodes/:id/upgrade-agent` reinstalls the bundle and restarts the
   agent. The install and upgrade routes are registered only when `buildApp` is
   given `agentHubDeps` (`app.ts:913`); the entry point does not pass it
   (`index.ts:195-245`) but registers the hub itself (`index.ts:250`), so the
   shipped server answers 404 and nothing is upgraded. Passing it, as the tests
   do, would not make the sentence true: `systemctl enable --now` leaves a running
   agent alone, and the wait for its hello (`app.ts:951`) is met by the old agent.
   The unit it leaves behind is not sound either: its text is in a quoted
   here-document, so `$(command -v node)` and `$AGENT_DIR` reach systemd as they
   are, and of the two placeholders only the first is filled. Nothing keeps two
   installs of one node apart.
3. **Idle engines** (`idle_engine`). The idle sweep goes by the record's `desired`,
   which becomes running only when a start job ends done (`deployments.ts:403`). A
   start that fails, is cancelled or meets its 15-minute timer may still have
   started its container; the engine comes up, and the sweep passes it over
   (`onDemand.ts:79`) for ever, although `onDemand.ts:2-4` says a router-managed
   model stops after an idle timeout.
4. **Warm-ups and round robin.** A request that was warmed up resolves its route a
   second time without moving the counter (`gateway.ts:168`), so all that waited,
   and the next new request, head the same target, against "round-robin inside a
   health class" (`servedModels.ts:3`). `RoundRobin` names these second chains.
5. **Undone patches.** Drift is judged against what the tick sent last
   (`reconciler.ts:99`); a welcome sends without recording it. A patch that is
   undone before the tick saw it, with a welcome in between, leaves the node with
   what was undone, although `reconciler.ts:14` promises a push on drift.
   `Converges` is checked for patches that go forward.
6. **Routing after stop.** The gateway joins the state without `probeStale`
   (`app.ts:639`), so the probe from before the stop keeps a stopped deployment
   healthy for it, against `deployments.ts:164`. Such a request is still
   answered, with 502.
7. **Failed re-apply at boot.** `lastApplied` still holds the profile from before
   the boot and masks the failure from every later welcome
   (`reconcile.ts:79`), though `reconcile.ts:60` says the next boot or tick
   retries. `CpuAsRecorded` excuses it. A failed write of the state file rejects
   the agent's chain for good (`daemon.ts:216`): from then on a reconnected agent
   applies no profile and, as its handlers fail, starts no metric loop, until it
   is restarted. `LastFrameWins` and `ReportsAsConfigured` are stated for a chain
   that lives.
8. **Recovery with the profile `full`.** Both caps are null, the clock-apply
   parameters refuse that (`jobs/commands.ts:41`), nothing is dispatched
   (`index.ts:101`), and the node keeps the quiet caps although guard and
   dashboard show it as recovered; `docs/RUNBOOKS.md:48` says manual profiles
   resume. This is the default profile. During a schedule window recovery
   applies the manual profile, not the window's.
9. **Mutes.** A mute is a column of one alert row, so a breach that clears and
   comes back within the window is a new, unmuted row; `PLAN.md:197` promises
   suppression per rule or per entity.
10. **Starting deployments.** `jobId` of a record is never set
   (`deployments.ts:197`), so the join never sees a job and the state `starting`
   of `PLAN.md:169` is never shown while one runs.
11. **Single flight.** The ring of 50 shifts out running jobs
   (`jobsManager.ts:241`); they are no longer in the conflict check.
12. **A refused probe.** `app.ts:360` says of a conflict that the running probe
    "already merges into this record"; it may be another folder's, and then this
    record is neither probed nor marked.
13. **Mixed answers.** An engine that breaks off in mid-stream has its text kept
    and the next engine's appended to it (`chat/routes.ts:301`). Of a 5xx body
    without a final newline the server's collector keeps the unfinished line,
    which costs the next engine's first frame in the stored text only. The other
    way round: an unfinished line of a first engine is ended for the collector by
    the 5xx body of a second, which the browser does not get, and costs the
    browser alone the first frame of a third. This case needs three targets; the
    excuse of `ShownIsStored` had to name it before it could be proved.
14. **Imports.** "Takes effect on next restart" (`backup.ts:10`), but any write
    of a store before the restart puts its memory back over the imported file,
    and `clients.json` is rewritten by every request with a key. Import writes in
    place, so a crash in it may leave a file that loads as empty.
15. **Retention settings.** `TracesStore.prune` runs with its default of 7 days
    after every request, so a `tracesDays` above 7 has no effect; `alertEventsMax`
    is never read. Maintenance counts incomplete backups among those it keeps.
16. **The flush** runs in a timer without a handler (`index.ts:293`): an error
    ends the process with the buffered minutes.
17. **An unheard end.** The store inventory subscribes to the end of its job after
    `dispatch` has returned (`storeInventory.ts:48`); of a job whose frame could
    not be written the end has been announced by then, and the promise, with all
    who share it, never settles. `RequestsAnswered` excuses exactly this.
18. **Cut probes.** A probe's output is parsed whatever became of its job
    (`app.ts:327`): a killed probe replaces good facts by null ones.
19. **Repeated workers.** `checkMultiNode` counts addresses, so one declared twice
    counts as two workers (theorem `DistinctWorkers` needs them distinct), and a
    pinned head is accepted whatever node it names.
20. **Late output.** `job-exit` goes out with the child's `exit` event
    (`daemon.ts:263`), so output of a pipe a grandchild still holds follows it. If
    the ended record has been evicted meanwhile (`jobsManager.ts:243`), the frame
    makes a running orphan (`jobsManager.ts:137`) without a child or an exit to
    come, and it takes a place in the ring; it runs on until an operator cancels it
    or the watchdog finds its node gone.
21. **Rounded averages.** A merged average is rounded to three decimals and the next
    flush merged into the rounded one (`metricsStore.ts:141`). In a row of many
    frames what moves the average by less than half a thousandth is lost each
    time: a 1 h or 1 d row hardly follows its samples any more.
22. **What no tick evaluates** (`alerts/engine.ts:78`). The breach clock of a
    disabled rule or an unlisted entity runs on, and an alert whose rule is deleted
    or whose node is removed stays open.

Smaller: messages of the same millisecond are listed answer first
(`chat/store.ts:310`); an attachment that is too large is refused after the
message is stored; the CSV export of traces writes 14 headings and 13 values; an
unsent probe leaves its entry in the map of probe jobs.

## 7. Proofs

Every theorem holds for all values of the constants that satisfy the modules'
named assumptions.

- **JobsManagerProofs.** Inductive invariant `IInv`: all checked invariants plus
  "kept records and timer handles belong to issued reqIds", without which a
  fresh reqId could meet an old timer. `RingPush` says what a push returns,
  `EvictedFacts` that what it shifts out belongs to that node, `AddRecordFacts`
  that adding keeps rings and records in agreement; then one step per method.
  Results: `TypeCorrect`, `RingsAgree`, `SingleFlightInRing`, `TimeoutsStayArmed`,
  `AnnouncedOnce`, and `ImplementsLifecycle`, the refinement of JobLifecycle
  (initial state and every step, mapped or stuttering).
- **JobChannelProofs.** `ChannelInv` follows one reqId along its way:
  `DrawnFirst` and `RunsAreFresh` (its job-run is at most once on the wire and
  only before the child exists), `ExitsAreTrue` (an exit frame that says 0 is
  true on whichever socket it still is) and `OutputIsIssued` (output, however late
  and on whichever socket, names a reqId that was drawn). By the last, no orphan
  made from late output takes a reqId that a later dispatch draws. Results:
  `DoneMeansDone`, `RunningIsSomewhere`, `OneChildPerReqId`, and
  `PathDrivesItsParts`: every step of the composition is, for JobsManager and for
  AgentRegistry, a step of theirs or none, so what is proved of them holds in it.
- **ReconcilerProofs.** `HubInv` adds to the checked invariant that an unused
  socket is anonymous; a replaced socket leaves the open state in the very step
  that registers its successor (`OneOpenSocketPerNode`, `StaleCloseIsHarmless`).
  Reconciler composes the registry with restarts of the server and has both
  again (`OneOpenSocketAcrossRestarts`, `StaleCloseNeverEvicts`). `LinkInv`: an
  agent holds one socket (`OneLink`), and what it runs, what is on its wire,
  oldest first, and what is desired come in the order of the patches (`InOrder`);
  that is `NoAgentGoesBack`. The order is `Later`, the least transitive relation
  that has every patch in it, whatever the patches are: nothing is assumed of
  `Edits`, so where a patch can be undone the theorem says only what then holds.
- **HoldProofs.** `EngineInv`: a pair's rows are none or one, and the breach
  clock is always younger than the last evaluation that found the pair clear,
  which is what makes `FiresOnlyAfterHold` inductive. Results:
  `EngineTypeCorrect`, `OneAlertPerPair`, `HoldIsKept`. `PowerInv`: `CountBehind`
  (the guard's count never exceeds the time the node has been cool), `CapsKnown`
  (caps in the state file belong to its profile, and never name one clock domain
  only, as an operator's job may) and `OnCourse`: without an
  excuse, every running process sets what is wanted, the clock is wanted once
  none runs, and under a nominal guard what was applied is what the file says.
  The last part is needed for the push of a profile the agent finds up to date.
  Results: `PowerTypeCorrect`, `ClockIsExplained`, `RecoveryIsHeld`.
- **AgentClocksProofs.** `ClocksInv`: `ChainType` (which stages go with an empty,
  a booting or a broken chain), `LastTask` (while the chain lives, its last task
  is the last frame; once it is empty, the file is) and `Ceiling` (at each stage,
  where the CPU's ceiling comes from: the recorded caps, or those of the task
  about to be recorded). Results: `NewestProfileWins`, `RecordIsTrue`. Around it,
  `DaemonRunsTheClocks` (AgentDaemon implements AgentClocks, so both hold of the
  daemon) and, with `InStep` (handlers wait in step with the tasks) and `Owed`
  (what a welcomed agent lacks, a waiting handler will bring),
  `LoopFollowsTheConfiguration`.
- **RecordsProofs.** Three invariants, for three parts that share no variable.
  `FilesInv`: of a file outside `doubt` at most one write is in flight, and it
  carries all that memory has (`Settled`); a second write puts the file in doubt
  until one is alone again. Result: `NothingAnsweredIsLost`. `RetentionInv`:
  traces stand for requests in order of time, backups for attempts in order of
  number. Result: `OldestAreDeleted`. That the two caps are enforced in turn is
  where the order of deletion has to be argued. `MetricsInv`: every row
  describes the frames counted in its bucket (`Accounted`: their number, peaks
  and, for the leaves none of them lacked, means up to the rounding), every
  buffered minute sums up the frames that are not stored yet (`Buffered`), and
  what a finer table counts the coarser ones do (`Coarse`). Results:
  `FramesAreCounted`, `AveragesAreTrue`, `CoarserRowsLast`, for any widths and
  windows of the granularities that satisfy `TelemetryConstants`, as 1, 60 and
  1440 minutes and the code's retention do. The weighted mean of two means is
  the mean of both by `Total` over disjoint sets of frames; each merge adds half
  a grain of error (`RoundedFacts`), and `DriftPlus` says that the bound of a
  row of n and one of k frames, so weighted, stays within the bound of n+k,
  which is what makes it inductive; a flush is an induction over the buffered
  minutes.
- **NodeSetupProofs.** `SetupInv` = `JobInv` (no two running jobs of a kind on a
  node; a job began no later than what there is to read), `RecipesInv` (a record
  is of its folder and no newer than what any running probe of it will read) and
  `ListingsInv` (one fetch per target, which began after what is shown was
  read). `JobsKept` is what each step leaves of the jobs for the other two.
  Results: `RecordDescribesItsFolder`, `NothingOlderIsShown`. At its end, about
  MultiNode's operator: what an accepted topology has matched
  (`AcceptedIsMatched`), that distinct addresses are distinct nodes
  (`DistinctWorkers`), and that nothing else is refused (`AcceptsExactly`).
- **ChatProofs.** `GatewayInv`: what a request has tried, followed by what is
  left of its chain, lists all targets of its record by health (`OnChain`), and
  in each health class that can lead a chain every target has led it equally
  often, but for the last few, which lead by one, as many as the counter has come
  since (`Even`). The latter is what makes `RoundRobin` inductive, with the
  counter's remainder and the rotation moving on together; it is about the chains
  given at first, and `RoundRobin` adds those of `seconds`. `StoreInv`: a turn
  under way has its question stored while its conversation lives (`Asked`), and
  an answer's row has the text collected from its finished turn, its question
  before it and no second (`RowsGood`). Before them, what `Only`, `Rotate` and
  `RankTargets` return. Results: `ChatTypes`, `RoutedInOrder`, `TheStoreIsSound`,
  and `ShownAndStored`, from `ReadersAgree`: the two readers are in the same state
  after every chunk as long as no chunk that one of them skips touches a line.

*Recursive functions and induction.* No module declares a RECURSIVE operator:
sums, flushes, filters and readers are recursive functions over positions. The
induction theorems of the prover's library take an operator as a parameter,
which the provers cannot instantiate. RecordsProofs and ChatProofs therefore
prove induction once in terms of sets (`Induction`: a set with 0 and all
successors has every number, from the least-number principle `WFMin`) and, with
it, that a function given by a first value and a step exists and is what its
definition says (`Recursion`, `Follows`).

Only model-checked: Serving, and all liveness properties, whose fairness and
ENABLED are outside the prover's reach.

## 8. What could come next

1. *Proofs*: Serving's `LateJobsStayWithTheirRecord`, on what JobsManagerProofs
   establishes of the jobs layer.
2. *Refinement*: the agent of Power implemented by AgentClocks; NodeJobs
   implemented by JobsManager.
3. Window arithmetic (`schedules.ts:55`) and version comparison as operators with
   reference definitions.

## 9. Not modelled, and why

- Output text, argv, parsing of probes and metrics, HTML, logging: no property
  is about them; where a decision depends on them, its classes are modelled.
- Installs and upgrades are modelled (Bootstrap), as they restart agents under the
  listings and probes, but no property is about their answers: section 6, item 2,
  says why.
- Memory budget (`estimateBudget`), `setOrphanedBySpark`, `versionDrift`,
  `modelctl/placement.ts` and the hub's `request`: nothing in the application
  calls them.
- Energy and the percentiles of traces: sums over stored rows, read only.
- Collectors and sd_notify: reads of `/proc` and `nvidia-smi`, no protocol state.
- The React pages: views of the HTTP API. One of them keeps state between
  requests (ChatPage, whose overlapping loads and streaming bubble are shared
  between conversations); it is left out with the rest of the page.
- Mock data and the demo fleet: not the product.
- Chat titles, attachments' bytes, the prompt sent upstream and token counts;
  traces' fields and key scopes; the archive's checksums; script text beyond what
  section 6 says of it.
- Window arithmetic, hardware clamping of clocks, schema validation and version
  comparison: represented by their outcome.
- In Power, Serving and Reconciler, file writes of guard, schedules, profiles,
  deployments and desired state are taken to succeed with the step that makes
  them; ConfigFiles has their failures, and AgentClocks those of the agent's
  state file.
