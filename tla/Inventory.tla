----------------------------- MODULE Inventory -----------------------------
(***************************************************************************)
(* Model inventories with their cache (server/src/modelctl/service.ts):    *)
(* the shared store's, listed by a job on a node that mounts the store     *)
(* (modelctl/storeInventory.ts), and a node's own, listed over SSH; and    *)
(* the provisioning of modelctl (bootstrap/provisionModelctl.ts).          *)
(***************************************************************************)
EXTENDS NodeJobs

CONSTANTS store, Cache,    \* the store and, as nodes, those with a cache to list
          NasFirst,        \* the nodes in the order the store's runner tries them
          TTL, StaleMultiplier, NoModels,
          MaxClock         \* bound on time

ASSUME InventoryConstants ==
  /\ Cache \subseteq Node /\ Cache \cup {store} \subseteq Thing
  /\ TTL \in Nat /\ StaleMultiplier \in Nat /\ MaxClock \in Nat

VARIABLES clock,
          good,            \* target -> last good listing, the cache and lastGood
          fetches,         \* fetches under way: [of, via, since]
          told,            \* target -> the answer to its last request
          tool             \* nodes that have modelctl

inventoryVars == <<clock, good, fetches, told, tool>>

Target == {store} \cup Cache

\* A fetch runs over SSH, or by the job of a reqId.
Ssh == 0

Younger(t, age) == good[t] # NoModels /\ clock <= good[t].at + age
Pending(t) == \E f \in fetches : f.of = t

\* A cached listing answers at once, and a pending fetch answers all who ask.
MayFetch(t) == ~Younger(t, TTL) /\ ~Pending(t)

Fetch(t, via) ==
  /\ MayFetch(t)
  /\ fetches' = fetches \cup {[of |-> t, via |-> via, since |-> gen[t]]}
  /\ told' = [told EXCEPT ![t] = "waits"]
  /\ UNCHANGED <<clock, good, tool>>

\* GET /api/nodes/:id/models.
ListNode(n) == Fetch(n, Ssh) /\ UNCHANGED jobVars

Chosen == LET in == {i \in DOMAIN NasFirst : NasFirst[i] \in up}
          IN IF in = {} THEN {} ELSE {NasFirst[CHOOSE i \in in : \A j \in in : i <= j]}

\* GET /api/models.  The runner subscribes to the end of the job after dispatch
\* has returned: of a job that could not be sent it never hears.
ListStore ==
  \E n \in Chosen, sent \in BOOLEAN :
    /\ Fetch(store, NextReq)
    /\ Dispatch(n, "list-store", store, sent) /\ UNCHANGED <<up, gen>>

\* With no node to ask, or its job refused, the request is answered an error.
Failed(t) == IF Younger(t, TTL * StaleMultiplier) THEN "stale" ELSE "error"

StoreUnlisted ==
  /\ MayFetch(store) /\ \A n \in Chosen : Refusal(n, "list-store") # "none"
  /\ told' = [told EXCEPT ![store] = Failed(store)]
  /\ UNCHANGED <<clock, good, fetches, tool, jobVars>>

\* Not the code: a runner that only ever resolves its promise.
FetchEndsGoodOnly(f, ok, seen) ==
  /\ ok /\ fetches' = fetches \ {f}
  /\ good' = [good EXCEPT ![f.of] = [at |-> clock, gen |-> seen]]
  /\ told' = [told EXCEPT ![f.of] = "fresh"]
  /\ UNCHANGED <<clock, tool>>

FetchEnds(f, ok, seen) ==
  /\ fetches' = fetches \ {f}
  /\ good' = IF ok THEN [good EXCEPT ![f.of] = [at |-> clock, gen |-> seen]] ELSE good
  /\ told' = [told EXCEPT ![f.of] = IF ok THEN "fresh" ELSE Failed(f.of)]
  /\ UNCHANGED <<clock, tool>>

\* ssh exits, or is killed by its timer; without modelctl it exits non-zero.
SshEnds(f) ==
  /\ f.via = Ssh
  /\ \E ok \in BOOLEAN, seen \in f.since..gen[f.of] : (ok => f.of \in tool) /\ FetchEnds(f, ok, seen)
  /\ UNCHANGED jobVars

\* The listener of the store's runner: only exit 0 of a done job resolves.
InventoryHears(r, out, seen) ==
  \/ \E f \in fetches : f.via = r /\ FetchEnds(f, out = "all" /\ jobs[r].on \in tool, seen)
  \/ (\A f \in fetches : f.via # r) /\ UNCHANGED inventoryVars

\* provision-modelctl: present already, installed, or failed on the way.
Provision(n) ==
  /\ n \notin tool /\ tool' = tool \cup {n}
  /\ UNCHANGED <<clock, good, fetches, told, jobVars>>

Tick == clock < MaxClock /\ clock' = clock + 1 /\ UNCHANGED <<good, fetches, told, tool, jobVars>>

InventoryEmpty ==
  /\ good' = [t \in Target |-> NoModels] /\ fetches' = {}
  /\ told' = [t \in Target |-> "none"]

InventoryInit ==
  /\ clock = 0 /\ good = [t \in Target |-> NoModels] /\ fetches = {}
  /\ told = [t \in Target |-> "none"] /\ tool \in SUBSET Node

----------------------------------------------------------------------------
\* Every request for a listing is answered, unless it waits for a job whose end
\* was announced inside dispatch.
Unheard(t) == \E f \in fetches : f.of = t /\ f.via # Ssh /\ jobs[f.via].over

RequestsAnswered == \A t \in Target : told[t] = "waits" ~> (told[t] # "waits" \/ Unheard(t))
=============================================================================
