----------------------------- MODULE Bootstrap -----------------------------
(***************************************************************************)
(* Installing and upgrading agents over SSH (server/src/bootstrap/         *)
(* installAgent.ts, transport/ssh.ts, the routes in app.ts).  A node's     *)
(* agent is a systemd service; what systemd and the agent process do is    *)
(* the environment.  Nothing keeps two installs of a node apart.           *)
(*                                                                         *)
(* The routes are registered only when buildApp is given agentHubDeps,     *)
(* which the tests do and the server's entry point (index.ts) does not: an *)
(* upgrade of the server as shipped is a 404 that changes nothing.         *)
(***************************************************************************)
EXTENDS NodeJobs

CONSTANTS MaxBuilds,       \* bound on the agent bundles built
          MaxInstalls      \* bound on the installs of a node

ASSUME BootstrapConstants == MaxBuilds \in Nat /\ MaxInstalls \in Nat

VARIABLES built,           \* the bundle at agentBundlePath, its version
          bundle,          \* node -> the bundle in its agent directory, 0 when none
          unit,            \* node -> "none", "sound" or "raw"
          agent,           \* node -> the bundle its agent process runs, 0 when none
          installs,        \* installs: [on, nr, offers, at, told]
          routed           \* whether buildApp was given agentHubDeps

bootstrapVars == <<built, bundle, unit, agent, installs, routed>>

Install(n) == {i \in installs : i.on = n}
Becomes(i, at, told) == installs' = (installs \ {i}) \cup {[i EXCEPT !.at = at, !.told = told]}

\* POST install-agent, or upgrade-agent, which injects it, where the routes exist.
StartInstall(n) ==
  /\ routed /\ Cardinality(Install(n)) < MaxInstalls
  /\ installs' = installs \cup
       {[on |-> n, nr |-> Cardinality(Install(n)), offers |-> built, at |-> "bundle", told |-> "waits"]}
  /\ UNCHANGED <<built, bundle, unit, agent, routed, jobVars>>

\* No node, or one too old: the script says so and exits.
NodeMissing(i) ==
  /\ i.at = "bundle" /\ Becomes(i, "exited", "failed")
  /\ UNCHANGED <<built, bundle, unit, agent, routed, jobVars>>

WriteBundle(i) ==
  /\ i.at = "bundle" /\ Becomes(i, "unit", i.told)
  /\ bundle' = [bundle EXCEPT ![i.on] = i.offers]
  /\ UNCHANGED <<built, unit, agent, routed, jobVars>>

\* The unit's text is quoted in the script, so its $(command -v node) and
\* $AGENT_DIR reach systemd as they are; the user unit is left a placeholder.
WriteUnit(i) ==
  /\ i.at = "unit" /\ Becomes(i, "enable", i.told)
  /\ unit' = [unit EXCEPT ![i.on] = "raw"]
  /\ UNCHANGED <<built, bundle, agent, routed, jobVars>>

\* enable --now starts a service that is down and leaves one that runs alone:
\* with the unit as written no agent comes of it.  Whether systemctl reports an
\* error is the host's; as a user service it is answered as a failure.
Enable(i) ==
  /\ i.at = "enable"
  /\ \/ i.told = "waits" /\ Becomes(i, "hello", "waits")
     \/ Becomes(i, "exited", "failed")
  /\ UNCHANGED <<built, bundle, unit, agent, routed, jobVars>>

\* The connection breaks or its timer kills ssh; the script may run on.
SshLost(i) ==
  /\ i.at \in {"bundle", "unit", "enable"} /\ i.told = "waits"
  /\ \E at \in {i.at, "exited"} : Becomes(i, at, "failed")
  /\ UNCHANGED <<built, bundle, unit, agent, routed, jobVars>>

\* waitHello polls whether the node is connected, by whichever agent.
Hello(i) ==
  /\ i.at = "hello" /\ i.told = "waits" /\ i.on \in up
  /\ Becomes(i, "exited", "hello")
  /\ UNCHANGED <<built, bundle, unit, agent, routed, jobVars>>

NoHello(i) ==
  /\ i.at = "hello" /\ i.told = "waits" /\ i.on \notin up
  /\ Becomes(i, "exited", "silent")
  /\ UNCHANGED <<built, bundle, unit, agent, routed, jobVars>>

\* npm run build:agent.
Build == built < MaxBuilds /\ built' = built + 1
         /\ UNCHANGED <<bundle, unit, agent, installs, routed, jobVars>>

\* Restart=always, or a reboot: a sound unit starts the bundle it finds.
AgentRestarts(n) ==
  /\ agent[n] # 0
  /\ agent' = [agent EXCEPT ![n] = IF unit[n] = "sound" THEN bundle[n] ELSE 0]
  /\ up' = up \ {n} /\ UNCHANGED <<built, bundle, unit, installs, routed, jobs, gen>>

AgentConnects(n) ==
  /\ agent[n] # 0 /\ n \notin up /\ up' = up \cup {n}
  /\ UNCHANGED <<built, bundle, unit, agent, installs, routed, jobs, gen>>

\* A node set up by hand, following the run book, or a bare one.
BootstrapInit ==
  /\ built = 1 /\ installs = {} /\ routed \in BOOLEAN
  /\ \E ready \in SUBSET Node :
       /\ bundle = [n \in Node |-> IF n \in ready THEN 1 ELSE 0]
       /\ unit = [n \in Node |-> IF n \in ready THEN "sound" ELSE "none"]
       /\ agent = bundle

BootstrapNext ==
  \/ Build
  \/ \E n \in Node : StartInstall(n) \/ AgentRestarts(n) \/ AgentConnects(n)
  \/ \E i \in installs : \/ NodeMissing(i) \/ WriteBundle(i) \/ WriteUnit(i) \/ Enable(i)
                         \/ SshLost(i) \/ Hello(i) \/ NoHello(i)
=============================================================================
