----------------------------- MODULE NodeSetup -----------------------------
(***************************************************************************)
(* Setting up nodes: their agents (Bootstrap.tla), over whose job channel  *)
(* (NodeJobs.tla) models are listed (Inventory.tla) and recipe folders     *)
(* probed (Recipes.tla).                                                   *)
(***************************************************************************)
EXTENDS Inventory, Recipes, Bootstrap

vars == <<jobVars, inventoryVars, recipeVars, bootstrapVars>>

Init == NodeJobsInit /\ InventoryInit /\ RecipesInit /\ BootstrapInit

\* Every listener of onFinished is told of the end of every job, with all of
\* its output or with what came of it before a kill, the timer or a lost agent.
JobEnds(r) ==
  /\ JobOver(r) /\ UNCHANGED <<up, gen>>
  /\ \E out \in Outcomes, seen \in ReadBy(r) :
       /\ jobs[r].on \notin up => out # "all"
       /\ InventoryHears(r, out, seen) /\ RecipesHear(r, out, seen)

\* The dashboard restarts: jobs, listings and waiting requests are gone, and
\* the recipes are read back.  The scripts of installs run on unwatched.
Restart ==
  /\ \E r \in DOMAIN jobs : ~jobs[r].over
  /\ jobs' = [r \in DOMAIN jobs |-> [jobs[r] EXCEPT !.over = TRUE]]
  /\ up' = {} /\ InventoryEmpty /\ probeJobs' = {}
  /\ installs' = {[i EXCEPT !.told = IF @ = "waits" THEN "failed" ELSE @] : i \in installs}
  /\ UNCHANGED <<gen, clock, tool, recs, built, bundle, unit, agent, routed>>

Listing ==
  /\ \/ ListStore \/ StoreUnlisted \/ Tick
     \/ \E n \in Cache : ListNode(n)
     \/ \E n \in Node : Provision(n)
     \/ \E f \in fetches : SshEnds(f)
  /\ UNCHANGED <<recipeVars, bootstrapVars>>

Serving ==
  /\ \E f \in Folder : Register(f) \/ RegisterRefused(f) \/ Probe(f) \/ Remove(f)
  /\ UNCHANGED <<inventoryVars, bootstrapVars>>

Next ==
  \/ Listing
  \/ Serving
  \/ BootstrapNext /\ UNCHANGED <<inventoryVars, recipeVars>>
  \/ (\E x \in Thing : Change(x)) /\ UNCHANGED <<inventoryVars, recipeVars, bootstrapVars>>
  \/ (\E r \in DOMAIN jobs : JobEnds(r)) /\ UNCHANGED bootstrapVars
  \/ Restart

\* A job ends at the latest by its timer, and ssh by its own.
Fairness ==
  /\ \A r \in 1..MaxJobs : WF_vars(JobEnds(r) /\ UNCHANGED bootstrapVars)
  /\ WF_vars((\E f \in fetches : SshEnds(f)) /\ UNCHANGED <<recipeVars, bootstrapVars>>)

Spec == Init /\ [][Next]_vars /\ Fairness

----------------------------------------------------------------------------
\* What is shown of a store, a cache or a folder is never replaced by an older
\* state of it: the listings are fetched one at a time for each target, and a
\* node runs one probe at a time.
ShowsNothingOlder ==
  [][/\ \A t \in Target : good[t] # NoModels /\ good'[t] # NoModels => good'[t].gen >= good[t].gen
     /\ \A f \in Folder : Registered(f) /\ recs[f].meta # NoMeta /\ recs'[f] # NoRecipe =>
                            recs'[f].meta.gen >= recs[f].meta.gen]_vars
=============================================================================
