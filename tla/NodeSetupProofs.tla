-------------------------- MODULE NodeSetupProofs --------------------------
(***************************************************************************)
(* Proofs about NodeSetup, for any nodes, folders and caches and any       *)
(* number of jobs: a record describes its own folder, and nothing shown is *)
(* replaced by something older.  What a job or a listing reads is never    *)
(* older than the thing was when it began, and at most one of them is      *)
(* under way for each thing shown.  And what the guard of a recipe's start *)
(* (MultiNode) lets through.                                               *)
(***************************************************************************)
EXTENDS NodeSetup, MultiNode, SequenceTheorems, TLAPS

Kind == {"recipe-probe", "list-store"}
Job == [on : Node, kind : Kind, of : Thing, since : Nat, over : BOOLEAN]
Meta == [of : Folder, gen : Nat, whole : BOOLEAN]
Record == [meta : Meta \cup {NoMeta}, probeError : BOOLEAN]
Shown == [at : Nat, gen : Nat]

\* Jobs of one kind do not overlap on a node (JobsManager's conflict check).
JobInv ==
  /\ jobs \in Seq(Job) /\ gen \in [Thing -> Nat] /\ clock \in Nat /\ up \subseteq Node
  /\ \A r \in DOMAIN jobs : jobs[r].since <= gen[jobs[r].of]
  /\ \A r, q \in DOMAIN jobs :
       ~jobs[r].over /\ ~jobs[q].over /\ jobs[r].on = jobs[q].on /\ jobs[r].kind = jobs[q].kind => r = q
  /\ \A r \in DOMAIN jobs :
       jobs[r].kind = "recipe-probe" => jobs[r].of \in Folder /\ jobs[r].on = NodeOf[jobs[r].of]

\* The recipe record and the probes that may still change it.
RecordSound(f) ==
  recs[f] # NoRecipe /\ recs[f].meta # NoMeta =>
    /\ recs[f].meta.of = f /\ recs[f].meta.gen <= gen[f]
    /\ \A r \in DOMAIN jobs :
         jobs[r].kind = "recipe-probe" /\ jobs[r].of = f /\ ~jobs[r].over => recs[f].meta.gen <= jobs[r].since

RecipesInv ==
  /\ recs \in [Folder -> Record \cup {NoRecipe}]
  /\ \A p \in probeJobs :
       /\ p.req \in DOMAIN jobs /\ p.of \in Folder
       /\ jobs[p.req].of = p.of /\ jobs[p.req].kind = "recipe-probe"
  /\ \A f \in Folder : RecordSound(f)

\* One fetch for each target, which began after what is shown was read.
FetchSound(f) ==
  /\ f.of \in Target /\ f.since \in Nat /\ f.since <= gen[f.of]
  /\ f.via # Ssh => f.via \in DOMAIN jobs /\ jobs[f.via].of = f.of /\ jobs[f.via].since = f.since
  /\ good[f.of] # NoModels => good[f.of].gen <= f.since

ListingsInv ==
  /\ good \in [Target -> Shown \cup {NoModels}]
  /\ \A f \in fetches : FetchSound(f)
  /\ \A f, g \in fetches : f.of = g.of => f = g
  /\ \A t \in Target : good[t] # NoModels => good[t].gen <= gen[t]

SetupInv == JobInv /\ RecipesInv /\ ListingsInv

\* The steps of ShowsNothingOlder.
ListingsAge == \A t \in Target : good[t] # NoModels /\ good'[t] # NoModels => good'[t].gen >= good[t].gen
RecordsAge ==
  \A f \in Folder : Registered(f) /\ recs[f].meta # NoMeta /\ recs'[f] # NoRecipe =>
                      recs'[f].meta.gen >= recs[f].meta.gen

\* What every step leaves of the jobs and the things they read.
JobsKept ==
  /\ DOMAIN jobs \subseteq DOMAIN jobs'
  /\ \A r \in DOMAIN jobs :
       /\ jobs'[r].kind = jobs[r].kind /\ jobs'[r].of = jobs[r].of /\ jobs'[r].since = jobs[r].since
       /\ ~jobs'[r].over => ~jobs[r].over
  /\ \A r \in DOMAIN jobs' \ DOMAIN jobs : jobs'[r].of \in Thing /\ jobs'[r].since = gen'[jobs'[r].of]
  /\ gen' \in [Thing -> Nat] /\ \A x \in Thing : gen[x] <= gen'[x]

LEMMA ThingsFact == Target \subseteq Thing /\ Folder \subseteq Thing
BY InventoryConstants, RecipesConstants DEF Target

----------------------------------------------------------------------------
(* Jobs.                                                                   *)

LEMMA JobTyped ==
  ASSUME JobInv, NEW r \in DOMAIN jobs
  PROVE  /\ jobs[r] \in Job /\ jobs[r].of \in Thing /\ jobs[r].since \in Nat
         /\ [jobs[r] EXCEPT !.over = TRUE] \in Job
<1>1. jobs[r] \in Job
  BY DEF JobInv
<1> QED
  BY <1>1 DEF Job

LEMMA JobsStutter ==
  ASSUME JobInv, UNCHANGED <<jobs, gen>>, clock' \in Nat, up' \subseteq Node
  PROVE  JobInv' /\ JobsKept
<1>1. DOMAIN jobs' = DOMAIN jobs /\ \A x \in Thing : gen'[x] \in Nat
  BY DEF JobInv
<1> QED
  BY <1>1 DEF JobInv, JobsKept

LEMMA DispatchFacts ==
  ASSUME JobInv, NEW n \in Node, NEW kind \in Kind, NEW x \in Thing, NEW sent \in BOOLEAN,
         Dispatch(n, kind, x, sent), UNCHANGED <<up, gen, clock>>,
         kind = "recipe-probe" => x \in Folder /\ n = NodeOf[x]
  PROVE  /\ JobInv' /\ JobsKept /\ NextReq \notin DOMAIN jobs /\ NextReq \in DOMAIN jobs' /\ NextReq # Ssh
         /\ jobs'[NextReq].of = x /\ jobs'[NextReq].kind = kind /\ jobs'[NextReq].since = gen[x]
<1> DEFINE new == [on |-> n, kind |-> kind, of |-> x, since |-> gen[x], over |-> ~sent]
<1>1. /\ jobs' = Append(jobs, new) /\ new \in Job /\ Refusal(n, kind) = "none"
  BY DEF Dispatch, JobInv, Job
<1>2. Len(jobs) \in Nat /\ DOMAIN jobs = 1 .. Len(jobs)
  BY DEF JobInv
<1>3. /\ jobs' \in Seq(Job) /\ DOMAIN jobs' = 1 .. NextReq /\ jobs'[NextReq] = new
      /\ \A r \in DOMAIN jobs : jobs'[r] = jobs[r]
  BY <1>1, <1>2 DEF JobInv, NextReq
<1>4. NextReq \notin DOMAIN jobs /\ NextReq # Ssh /\ DOMAIN jobs' = DOMAIN jobs \cup {NextReq}
  BY <1>2, <1>3 DEF NextReq, Ssh
<1>5. \A r \in DOMAIN jobs : ~(~jobs[r].over /\ jobs[r].on = n /\ jobs[r].kind = kind)
  BY <1>1 DEF Refusal, Running
<1>6. \A r \in DOMAIN jobs' : jobs'[r].since <= gen'[jobs'[r].of]
  <2>1. new.since <= gen'[new.of]
    BY DEF JobInv
  <2> QED
    BY <1>3, <1>4, <2>1 DEF JobInv
<1>7. JobInv'
  BY <1>1, <1>3, <1>4, <1>5, <1>6 DEF JobInv
<1>8. JobsKept
  <2>1. \A y \in Thing : gen[y] <= gen'[y]
    BY DEF JobInv
  <2>2. \A r \in DOMAIN jobs' \ DOMAIN jobs : r = NextReq
    BY <1>4
  <2>3. new.of = x /\ new.since = gen'[x]
    OBVIOUS
  <2> QED
    BY <1>3, <1>4, <2>1, <2>2, <2>3 DEF JobInv, JobsKept
<1> QED
  BY <1>3, <1>4, <1>7, <1>8

LEMMA JobOverFacts ==
  ASSUME JobInv, NEW r, JobOver(r), UNCHANGED <<up, gen, clock>>
  PROVE  JobInv' /\ JobsKept /\ jobs'[r].over /\ DOMAIN jobs' = DOMAIN jobs
<1>1. r \in DOMAIN jobs /\ jobs' = [jobs EXCEPT ![r] = [jobs[r] EXCEPT !.over = TRUE]]
  BY DEF JobOver
<1>2. jobs[r] \in Job /\ [jobs[r] EXCEPT !.over = TRUE] \in Job /\ DOMAIN jobs = 1 .. Len(jobs)
  BY <1>1, JobTyped DEF JobInv
<1>3. /\ jobs' \in Seq(Job) /\ DOMAIN jobs' = DOMAIN jobs
  BY <1>1, <1>2 DEF JobInv
<1>4. jobs'[r].over /\ \A q \in DOMAIN jobs :
        /\ jobs'[q].kind = jobs[q].kind /\ jobs'[q].of = jobs[q].of /\ jobs'[q].since = jobs[q].since
        /\ jobs'[q].on = jobs[q].on /\ (~jobs'[q].over => ~jobs[q].over)
  BY <1>1, <1>2 DEF JobInv, Job
<1>5. JobInv'
  <2>1. gen' = gen /\ clock' = clock /\ up' = up
    OBVIOUS
  <2>2. /\ jobs' \in Seq(Job) /\ gen' \in [Thing -> Nat] /\ clock' \in Nat /\ up' \subseteq Node
        /\ \A q \in DOMAIN jobs' : jobs'[q].since <= gen'[jobs'[q].of]
    BY <1>3, <1>4, <2>1 DEF JobInv
  <2>3. \A p, q \in DOMAIN jobs' :
          ~jobs'[p].over /\ ~jobs'[q].over /\ jobs'[p].on = jobs'[q].on /\ jobs'[p].kind = jobs'[q].kind => p = q
    BY <1>3, <1>4 DEF JobInv
  <2>4. \A q \in DOMAIN jobs' :
          jobs'[q].kind = "recipe-probe" => jobs'[q].of \in Folder /\ jobs'[q].on = NodeOf[jobs'[q].of]
    BY <1>3, <1>4 DEF JobInv
  <2> QED
    BY <2>2, <2>3, <2>4 DEF JobInv
<1>6. JobsKept
  BY <1>3, <1>4 DEF JobInv, JobsKept
<1> QED
  BY <1>3, <1>4, <1>5, <1>6

\* At a restart of the dashboard every job is over for it.
LEMMA AllOverFacts ==
  ASSUME JobInv, jobs' = [r \in DOMAIN jobs |-> [jobs[r] EXCEPT !.over = TRUE]],
         UNCHANGED <<gen, clock>>, up' = {}
  PROVE  JobInv' /\ JobsKept
<1>1. DOMAIN jobs' = DOMAIN jobs /\ DOMAIN jobs = 1 .. Len(jobs) /\ Len(jobs) \in Nat
  BY DEF JobInv
<1>2. \A q \in DOMAIN jobs :
        /\ jobs'[q] \in Job
        /\ jobs'[q].kind = jobs[q].kind /\ jobs'[q].of = jobs[q].of /\ jobs'[q].since = jobs[q].since
        /\ jobs'[q].on = jobs[q].on /\ jobs'[q].over
  BY JobTyped DEF Job
<1>3. jobs' \in Seq(Job)
  <2>1. jobs' \in [1 .. Len(jobs) -> Job]
    BY <1>1, <1>2
  <2> QED
    BY <1>1, <2>1, SeqDef
<1>4. JobInv'
  BY <1>1, <1>2, <1>3 DEF JobInv
<1>5. JobsKept
  BY <1>1, <1>2 DEF JobInv, JobsKept
<1> QED
  BY <1>4, <1>5

----------------------------------------------------------------------------
(* What other steps leave of records and listings.                         *)

LEMMA RecordKept ==
  ASSUME JobInv, RecipesInv, JobsKept, NEW f \in Folder, recs'[f] = recs[f]
  PROVE  RecordSound(f)'
<1> SUFFICES ASSUME recs[f] # NoRecipe, recs[f].meta # NoMeta
             PROVE  /\ recs[f].meta.of = f /\ recs[f].meta.gen <= gen'[f]
                    /\ \A r \in DOMAIN jobs' :
                         jobs'[r].kind = "recipe-probe" /\ jobs'[r].of = f /\ ~jobs'[r].over =>
                           recs[f].meta.gen <= jobs'[r].since
  BY DEF RecordSound
<1>1. recs[f].meta.gen \in Nat /\ gen[f] \in Nat /\ gen'[f] \in Nat /\ gen[f] <= gen'[f]
  BY ThingsFact DEF RecipesInv, Record, Meta, JobInv, JobsKept
<1>2. recs[f].meta.of = f /\ recs[f].meta.gen <= gen[f]
  BY DEF RecipesInv, RecordSound
<1>3. recs[f].meta.gen <= gen'[f]
  BY <1>1, <1>2
<1>4. ASSUME NEW r \in DOMAIN jobs', jobs'[r].kind = "recipe-probe", jobs'[r].of = f, ~jobs'[r].over
      PROVE  recs[f].meta.gen <= jobs'[r].since
  <2>1. CASE r \in DOMAIN jobs
    BY <1>4, <2>1 DEF RecipesInv, RecordSound, JobsKept
  <2>2. CASE r \notin DOMAIN jobs
    BY <1>3, <1>4, <2>2 DEF JobsKept
  <2> QED
    BY <2>1, <2>2
<1> QED
  BY <1>2, <1>3, <1>4

LEMMA RecipesStutter ==
  ASSUME JobInv, RecipesInv, JobsKept, recs' = recs, probeJobs' \subseteq probeJobs
  PROVE  RecipesInv' /\ RecordsAge
<1>1. \A f \in Folder : RecordSound(f)'
  BY RecordKept
<1>2. \A p \in probeJobs : /\ p.req \in DOMAIN jobs' /\ p.of \in Folder
                           /\ jobs'[p.req].of = p.of /\ jobs'[p.req].kind = "recipe-probe"
  BY DEF RecipesInv, JobsKept
<1>3. RecordsAge
  BY DEF RecipesInv, Record, Meta, RecordsAge, Registered
<1> QED
  BY <1>1, <1>2, <1>3 DEF RecipesInv

LEMMA ListingsStutter ==
  ASSUME JobInv, ListingsInv, JobsKept, UNCHANGED <<good, fetches>>
  PROVE  ListingsInv' /\ ListingsAge
<1>1. \A t \in Target : gen[t] \in Nat /\ gen'[t] \in Nat /\ gen[t] <= gen'[t]
  BY ThingsFact DEF JobInv, JobsKept
<1>2. \A t \in Target : good[t] # NoModels => good[t].gen \in Nat
  BY DEF ListingsInv, Shown
<1>3. \A f \in fetches : FetchSound(f)'
  BY <1>1 DEF ListingsInv, FetchSound, JobsKept
<1>4. \A t \in Target : good'[t] # NoModels => good'[t].gen <= gen'[t]
  BY <1>1, <1>2 DEF ListingsInv
<1>5. ListingsAge
  BY <1>2 DEF ListingsAge
<1> QED
  BY <1>3, <1>4, <1>5 DEF ListingsInv

----------------------------------------------------------------------------
(* Listings.                                                               *)

LEMMA FetchInv ==
  ASSUME JobInv, ListingsInv, JobsKept, NEW t \in Target, NEW via, Fetch(t, via), gen' = gen,
         via # Ssh => via \in DOMAIN jobs' /\ jobs'[via].of = t /\ jobs'[via].since = gen[t]
  PROVE  ListingsInv' /\ ListingsAge
<1> DEFINE new == [of |-> t, via |-> via, since |-> gen[t]]
<1>1. /\ fetches' = fetches \cup {new} /\ good' = good
      /\ \A f \in fetches : f.of # t
  BY DEF Fetch, MayFetch, Pending
<1>2. \A x \in Target : gen[x] \in Nat /\ (good[x] # NoModels => good[x].gen \in Nat)
  BY ThingsFact DEF JobInv, ListingsInv, Shown
<1>3. FetchSound(new)'
  BY <1>1, <1>2 DEF ListingsInv, FetchSound
<1>4. \A f \in fetches : FetchSound(f)'
  BY <1>1 DEF ListingsInv, FetchSound, JobsKept
<1>5. \A f, g \in fetches' : f.of = g.of => f = g
  BY <1>1 DEF ListingsInv
<1>6. ListingsAge
  BY <1>1, <1>2 DEF ListingsAge
<1> QED
  BY <1>1, <1>3, <1>4, <1>5, <1>6 DEF ListingsInv

LEMMA FetchEndsInv ==
  ASSUME JobInv, ListingsInv, JobsKept, gen' = gen, NEW f \in fetches, NEW ok \in BOOLEAN,
         NEW seen \in f.since .. gen[f.of], FetchEnds(f, ok, seen)
  PROVE  ListingsInv' /\ ListingsAge
<1>1. /\ fetches' = fetches \ {f}
      /\ good' = IF ok THEN [good EXCEPT ![f.of] = [at |-> clock, gen |-> seen]] ELSE good
  BY DEF FetchEnds
<1>2. /\ f.of \in Target /\ f.since \in Nat /\ gen[f.of] \in Nat
      /\ good[f.of] # NoModels => good[f.of].gen <= f.since
  BY ThingsFact DEF JobInv, ListingsInv, FetchSound
<1>3. seen \in Nat /\ f.since <= seen /\ seen <= gen[f.of]
  BY <1>2
<1>4. \A t \in Target : good[t] # NoModels => good[t].gen \in Nat
  BY DEF ListingsInv, Shown
<1>5. good' \in [Target -> Shown \cup {NoModels}]
  BY <1>1, <1>2, <1>3 DEF ListingsInv, Shown, JobInv
<1>6. \A t \in Target : good'[t] = (IF ok /\ t = f.of THEN [at |-> clock, gen |-> seen] ELSE good[t])
  BY <1>1, <1>2 DEF ListingsInv
<1>7. \A g \in fetches' : FetchSound(g)' /\ g.of # f.of
  <2> SUFFICES ASSUME NEW g \in fetches' PROVE FetchSound(g)' /\ g.of # f.of
    OBVIOUS
  <2>1. g \in fetches /\ g.of # f.of /\ FetchSound(g)
    BY <1>1 DEF ListingsInv
  <2>2. good'[g.of] = good[g.of]
    BY <1>6, <2>1 DEF FetchSound
  <2> QED
    BY <2>1, <2>2 DEF FetchSound, JobsKept
<1>8. \A t \in Target : good'[t] # NoModels => good'[t].gen <= gen'[t]
  BY <1>3, <1>6 DEF ListingsInv
<1>9. ListingsAge
  BY <1>2, <1>3, <1>4, <1>6 DEF ListingsAge
<1> QED
  BY <1>1, <1>5, <1>7, <1>8, <1>9 DEF ListingsInv

\* Without a step of its own, the listings' part of a step.
LEMMA ListingStep ==
  ASSUME SetupInv, Listing
  PROVE  SetupInv' /\ ListingsAge /\ RecordsAge
<1>1. UNCHANGED <<recs, probeJobs>>
  BY DEF Listing, recipeVars
<1>2. ASSUME JobInv', JobsKept PROVE RecipesInv' /\ RecordsAge
  BY <1>1, <1>2, RecipesStutter DEF SetupInv
<1>3. CASE ListStore
  <2>1. PICK n \in Chosen, sent \in BOOLEAN :
          Fetch(store, NextReq) /\ Dispatch(n, "list-store", store, sent) /\ UNCHANGED <<up, gen>>
    BY <1>3 DEF ListStore
  <2>2. n \in Node
    BY <2>1 DEF Dispatch, Refusal, SetupInv, JobInv
  <2>4. store \in Thing /\ store \in Target /\ clock' = clock
    BY <2>1, InventoryConstants DEF Target, Fetch
  <2>3. /\ JobInv' /\ JobsKept /\ NextReq \in DOMAIN jobs'
        /\ jobs'[NextReq].of = store /\ jobs'[NextReq].since = gen[store]
    BY <2>1, <2>2, <2>4, DispatchFacts DEF SetupInv, Kind
  <2> QED
    BY <1>2, <2>1, <2>3, <2>4, FetchInv DEF SetupInv
<1>4. CASE \E n \in Cache : ListNode(n)
  <2>1. PICK n \in Cache : Fetch(n, Ssh) /\ UNCHANGED jobVars
    BY <1>4 DEF ListNode
  <2>2. JobInv' /\ JobsKept
    BY <2>1, JobsStutter DEF SetupInv, JobInv, Fetch, jobVars
  <2> QED
    BY <1>2, <2>1, <2>2, FetchInv DEF SetupInv, Target, jobVars
<1>5. CASE StoreUnlisted \/ Tick \/ \E n \in Node : Provision(n)
  <2>1. UNCHANGED <<up, jobs, gen, good, fetches>> /\ clock' \in Nat
    BY <1>5 DEF StoreUnlisted, Tick, Provision, jobVars, SetupInv, JobInv
  <2> QED
    BY <1>2, <2>1, JobsStutter, ListingsStutter DEF SetupInv, JobInv
<1>6. CASE \E f \in fetches : SshEnds(f)
  <2>0. PICK f \in fetches : SshEnds(f)
    BY <1>6
  <2>1. PICK ok \in BOOLEAN, seen \in f.since .. gen[f.of] :
          FetchEnds(f, ok, seen) /\ UNCHANGED jobVars
    BY <2>0 DEF SshEnds
  <2>2. JobInv' /\ JobsKept
    BY <2>1, JobsStutter DEF SetupInv, JobInv, FetchEnds, jobVars
  <2> QED
    BY <1>2, <2>1, <2>2, FetchEndsInv DEF SetupInv, jobVars
<1> QED
  BY <1>3, <1>4, <1>5, <1>6 DEF Listing

----------------------------------------------------------------------------
(* Recipes.                                                                *)

LEMMA ProbeSentFacts ==
  ASSUME SetupInv, NEW f \in Folder, NEW sent \in BOOLEAN, ProbeSent(f, sent), clock' = clock
  PROVE  /\ JobInv' /\ JobsKept
         /\ \A p \in probeJobs' :
              /\ p.req \in DOMAIN jobs' /\ p.of \in Folder
              /\ jobs'[p.req].of = p.of /\ jobs'[p.req].kind = "recipe-probe"
<1>1. /\ Dispatch(NodeOf[f], "recipe-probe", f, sent) /\ UNCHANGED <<up, gen>>
      /\ probeJobs' = probeJobs \cup {[req |-> NextReq, of |-> f]}
  BY DEF ProbeSent
<1>2. NodeOf[f] \in Node /\ f \in Thing
  BY RecipesConstants
<1>3. /\ JobInv' /\ JobsKept /\ NextReq \in DOMAIN jobs'
      /\ jobs'[NextReq].of = f /\ jobs'[NextReq].kind = "recipe-probe"
  BY <1>1, <1>2, DispatchFacts DEF SetupInv, Kind
<1>4. \A p \in probeJobs : /\ p.req \in DOMAIN jobs' /\ p.of \in Folder
                           /\ jobs'[p.req].of = p.of /\ jobs'[p.req].kind = "recipe-probe"
  BY <1>3 DEF SetupInv, RecipesInv, JobsKept
<1> QED
  BY <1>1, <1>3, <1>4

\* A record that appears, disappears or only gets an error.
LEMMA RecordChangedFacts ==
  ASSUME SetupInv, JobInv', JobsKept, NEW f \in Folder, NEW rec \in Record \cup {NoRecipe},
         recs' = [recs EXCEPT ![f] = rec],
         rec # NoRecipe =>
           IF recs[f] # NoRecipe THEN rec.meta = recs[f].meta ELSE rec.meta = NoMeta
  PROVE  /\ recs' \in [Folder -> Record \cup {NoRecipe}] /\ RecordsAge
         /\ \A g \in Folder : RecordSound(g)'
<1>1. /\ recs' \in [Folder -> Record \cup {NoRecipe}] /\ recs'[f] = rec
      /\ \A g \in Folder : g # f => recs'[g] = recs[g]
  BY DEF SetupInv, RecipesInv
<1>2. ASSUME NEW g \in Folder PROVE RecordSound(g)'
  <2>1. CASE g # f
    BY <1>1, <2>1, RecordKept DEF SetupInv
  <2>2. CASE g = f /\ rec # NoRecipe /\ recs[f] # NoRecipe
    <3>0. recs[f] \in Record
      BY <2>2 DEF SetupInv, RecipesInv
    <3>1. /\ recs[f].meta # NoMeta => recs[f].meta.gen \in Nat
          /\ gen[f] \in Nat /\ gen'[f] \in Nat /\ gen[f] <= gen'[f]
      BY <3>0, ThingsFact DEF SetupInv, Record, Meta, JobInv, JobsKept
    <3>2. recs[f].meta # NoMeta => recs[f].meta.of = f /\ recs[f].meta.gen <= gen'[f]
      BY <2>2, <3>1 DEF SetupInv, RecipesInv, RecordSound
    <3>3. ASSUME recs[f].meta # NoMeta, NEW r \in DOMAIN jobs',
                 jobs'[r].kind = "recipe-probe", jobs'[r].of = f, ~jobs'[r].over
          PROVE  recs[f].meta.gen <= jobs'[r].since
      <4>1. CASE r \in DOMAIN jobs
        BY <2>2, <3>3, <4>1 DEF SetupInv, RecipesInv, RecordSound, JobsKept
      <4>2. CASE r \notin DOMAIN jobs
        BY <3>2, <3>3, <4>2 DEF JobsKept
      <4> QED
        BY <4>1, <4>2
    <3> QED
      BY <1>1, <2>2, <3>2, <3>3 DEF RecordSound
  <2>3. CASE g = f /\ (rec = NoRecipe \/ recs[f] = NoRecipe)
    BY <1>1, <2>3 DEF RecordSound
  <2> QED
    BY <2>1, <2>2, <2>3
<1>3. RecordsAge
  BY <1>1 DEF RecordsAge, Registered, SetupInv, RecipesInv, Record, Meta
<1> QED
  BY <1>1, <1>2, <1>3

LEMMA ServingStep ==
  ASSUME SetupInv, Serving
  PROVE  SetupInv' /\ ListingsAge /\ RecordsAge
<1>1. UNCHANGED <<good, fetches, clock>>
  BY DEF Serving, inventoryVars
<1>2. ASSUME JobsKept PROVE ListingsInv' /\ ListingsAge
  BY <1>1, <1>2, ListingsStutter DEF SetupInv
<1>3. PICK f \in Folder : Register(f) \/ RegisterRefused(f) \/ Probe(f) \/ Remove(f)
  BY DEF Serving
<1> DEFINE old == IF Registered(f) THEN recs[f] ELSE Blank
<1>4. old \in Record /\ (IF recs[f] # NoRecipe THEN old.meta = recs[f].meta ELSE old.meta = NoMeta)
  BY DEF SetupInv, RecipesInv, Registered, Blank, Record
<1>9. PICK failed \in Record : failed = [old EXCEPT !.probeError = TRUE] /\ failed.meta = old.meta
  <2>1. \A rec \in Record : /\ [rec EXCEPT !.probeError = TRUE] \in Record
                             /\ [rec EXCEPT !.probeError = TRUE].meta = rec.meta
    BY DEF Record
  <2> QED
    BY <1>4, <2>1
<1>5. CASE Register(f)
  <2>1. PICK sent \in BOOLEAN : ProbeSent(f, sent)
    BY <1>5 DEF Register
  <2>2. recs' = [recs EXCEPT ![f] = old]
    BY <1>5 DEF Register
  <2>3. /\ JobInv' /\ JobsKept
        /\ \A p \in probeJobs' : /\ p.req \in DOMAIN jobs' /\ p.of \in Folder
                                 /\ jobs'[p.req].of = p.of /\ jobs'[p.req].kind = "recipe-probe"
    BY <1>1, <2>1, ProbeSentFacts
  <2>4. RecipesInv' /\ RecordsAge
    BY <1>4, <2>2, <2>3, RecordChangedFacts DEF RecipesInv
  <2> QED
    BY <1>2, <2>3, <2>4 DEF SetupInv
<1>6. CASE RegisterRefused(f)
  <2>1. recs' = [recs EXCEPT ![f] = failed] /\ UNCHANGED <<probeJobs, jobs, gen, up>>
    BY <1>6, <1>9 DEF RegisterRefused, jobVars
  <2>2. JobInv' /\ JobsKept
    BY <1>1, <2>1, JobsStutter DEF SetupInv, JobInv
  <2>3. RecipesInv' /\ RecordsAge
    <3>1. /\ recs' \in [Folder -> Record \cup {NoRecipe}] /\ RecordsAge
          /\ \A g \in Folder : RecordSound(g)'
      BY <1>4, <1>9, <2>1, <2>2, RecordChangedFacts
    <3> QED
      BY <2>1, <3>1 DEF SetupInv, RecipesInv
  <2> QED
    BY <1>2, <2>2, <2>3 DEF SetupInv
<1>7. CASE Probe(f)
  <2>1. PICK sent \in BOOLEAN : ProbeSent(f, sent)
    BY <1>7 DEF Probe
  <2>2. recs' = recs
    BY <1>7 DEF Probe
  <2>3. /\ JobInv' /\ JobsKept
        /\ \A p \in probeJobs' : /\ p.req \in DOMAIN jobs' /\ p.of \in Folder
                                 /\ jobs'[p.req].of = p.of /\ jobs'[p.req].kind = "recipe-probe"
    BY <1>1, <2>1, ProbeSentFacts
  <2>4. (\A g \in Folder : RecordSound(g)') /\ RecordsAge
    BY <2>2, <2>3, RecordKept DEF SetupInv, RecordsAge, Registered, RecipesInv, Record, Meta
  <2>5. RecipesInv'
    BY <2>2, <2>3, <2>4 DEF SetupInv, RecipesInv
  <2> QED
    BY <1>2, <2>3, <2>4, <2>5 DEF SetupInv
<1>8. CASE Remove(f)
  <2>1. recs' = [recs EXCEPT ![f] = NoRecipe] /\ UNCHANGED <<probeJobs, jobs, gen, up>>
    BY <1>8 DEF Remove, jobVars
  <2>2. JobInv' /\ JobsKept
    BY <1>1, <2>1, JobsStutter DEF SetupInv, JobInv
  <2>3. /\ recs' \in [Folder -> Record \cup {NoRecipe}] /\ RecordsAge
        /\ \A g \in Folder : RecordSound(g)'
    BY <2>1, <2>2, RecordChangedFacts
  <2> QED
    BY <1>2, <2>1, <2>2, <2>3 DEF SetupInv, RecipesInv
<1> QED
  BY <1>3, <1>5, <1>6, <1>7, <1>8

----------------------------------------------------------------------------
(* The end of a job, which both listeners hear.                            *)

LEMMA InventoryHearsInv ==
  ASSUME SetupInv, NEW r \in DOMAIN jobs, JobsKept, gen' = gen, NEW out, NEW seen \in ReadBy(r),
         InventoryHears(r, out, seen)
  PROVE  ListingsInv' /\ ListingsAge /\ clock' = clock
<1>1. CASE UNCHANGED inventoryVars
  BY <1>1, ListingsStutter DEF SetupInv, inventoryVars
<1>2. ASSUME NEW f \in fetches, f.via = r, FetchEnds(f, out = "all" /\ jobs[r].on \in tool, seen)
      PROVE  ListingsInv' /\ ListingsAge /\ clock' = clock
  <2>1. r # Ssh
    BY DEF SetupInv, JobInv, Ssh
  <2>2. jobs[r].of = f.of /\ jobs[r].since = f.since
    BY <1>2, <2>1 DEF SetupInv, ListingsInv, FetchSound
  <2>3. seen \in f.since .. gen[f.of]
    BY <2>2 DEF ReadBy
  <2>4. (out = "all" /\ jobs[r].on \in tool) \in BOOLEAN /\ clock' = clock
    BY <1>2 DEF FetchEnds
  <2> QED
    BY <1>2, <2>3, <2>4, FetchEndsInv DEF SetupInv
<1> QED
  BY <1>1, <1>2 DEF InventoryHears

LEMMA RecipesHearInv ==
  ASSUME SetupInv, NEW r \in DOMAIN jobs, JobsKept, gen' = gen, JobInv', jobs'[r].over, ~jobs[r].over,
         DOMAIN jobs' = DOMAIN jobs, NEW out \in Outcomes, NEW seen \in ReadBy(r), RecipesHear(r, out, seen)
  PROVE  RecipesInv' /\ RecordsAge
<1>1. CASE UNCHANGED recipeVars
  BY <1>1, RecipesStutter DEF SetupInv, recipeVars
<1>2. ASSUME NEW p \in probeJobs, p.req = r, probeJobs' = probeJobs \ {p},
             recs' = IF ~Registered(p.of) THEN recs
                     ELSE [recs EXCEPT ![p.of] = Merge(@, Parsed(out, jobs[r].of, seen))]
      PROVE  RecipesInv' /\ RecordsAge
  <2>1. CASE recs' = recs
    BY <1>2, <2>1, RecipesStutter DEF SetupInv
  <2>2. CASE recs' # recs
    <3> DEFINE f == p.of
               found == Parsed(out, f, seen)
    <3>1. f \in Folder /\ jobs[r].of = f /\ jobs[r].kind = "recipe-probe" /\ f \in Thing
      BY <1>2, ThingsFact DEF SetupInv, RecipesInv
    <3>2. recs[f] \in Record /\ recs[f] # NoRecipe /\ recs' = [recs EXCEPT ![f] = Merge(recs[f], found)]
      BY <1>2, <2>2, <3>1 DEF SetupInv, RecipesInv, Registered
    <3>3. jobs[r].since \in Nat /\ gen[f] \in Nat /\ seen \in Nat /\ jobs[r].since <= seen /\ seen <= gen[f]
      <4>1. jobs[r].since \in Nat /\ gen[f] \in Nat
        BY <3>1, JobTyped DEF SetupInv, JobInv
      <4>2. seen \in jobs[r].since .. gen[f]
        BY <3>1 DEF ReadBy
      <4> QED
        BY <4>1, <4>2
    <3>4. CASE found = NoMeta
      <4>1. Merge(recs[f], found) \in Record /\ Merge(recs[f], found).meta = recs[f].meta
        BY <3>2, <3>4 DEF Merge, Record
      <4>2. /\ recs' \in [Folder -> Record \cup {NoRecipe}] /\ RecordsAge
            /\ \A g \in Folder : RecordSound(g)'
        BY <3>1, <3>2, <4>1, RecordChangedFacts
      <4> QED
        BY <1>2, <4>2 DEF SetupInv, RecipesInv, JobsKept
    <3>5. CASE found # NoMeta
      <4>1. found = [of |-> f, gen |-> seen, whole |-> out = "all"]
            /\ Merge(recs[f], found) = [meta |-> found, probeError |-> FALSE]
        BY <3>5 DEF Parsed, Merge
      <4>2. found \in Meta /\ [meta |-> found, probeError |-> FALSE] \in Record
        BY <3>1, <3>3, <4>1 DEF Meta, Record
      <4>3. /\ recs' \in [Folder -> Record \cup {NoRecipe}] /\ recs'[f].meta = found
            /\ \A g \in Folder : g # f => recs'[g] = recs[g]
        BY <3>1, <3>2, <4>1, <4>2 DEF SetupInv, RecipesInv
      <4>4. ASSUME NEW q \in DOMAIN jobs', jobs'[q].kind = "recipe-probe", jobs'[q].of = f
            PROVE  jobs'[q].over
        <5>1. SUFFICES ASSUME ~jobs'[q].over PROVE FALSE
          OBVIOUS
        <5>2. jobs[q].kind = "recipe-probe" /\ jobs[q].of = f /\ ~jobs[q].over
          BY <4>4, <5>1 DEF JobsKept
        <5>3. jobs[q].on = NodeOf[f] /\ jobs[r].on = NodeOf[f]
          BY <3>1, <5>2 DEF SetupInv, JobInv
        <5>4. q = r
          BY <3>1, <5>2, <5>3 DEF SetupInv, JobInv
        <5> QED
          BY <5>1, <5>4
      <4>5. RecordSound(f)'
        BY <3>3, <4>1, <4>3, <4>4 DEF RecordSound
      <4>6. \A g \in Folder : RecordSound(g)'
        BY <4>3, <4>5, RecordKept DEF SetupInv
      <4>7. recs[f].meta # NoMeta => recs[f].meta.gen \in Nat /\ recs[f].meta.gen <= jobs[r].since
        BY <3>1, <3>2 DEF SetupInv, RecipesInv, RecordSound, Record, Meta
      <4>8. \A g \in Folder : recs[g] # NoRecipe /\ recs[g].meta # NoMeta => recs[g].meta.gen \in Nat
        BY DEF SetupInv, RecipesInv, Record, Meta
      <4>9. RecordsAge
        BY <3>3, <4>1, <4>3, <4>7, <4>8 DEF RecordsAge, Registered
      <4> QED
        BY <1>2, <4>3, <4>6, <4>9 DEF SetupInv, RecipesInv, JobsKept
    <3> QED
      BY <3>4, <3>5
  <2> QED
    BY <2>1, <2>2
<1> QED
  BY <1>1, <1>2 DEF RecipesHear

LEMMA JobEndsStep ==
  ASSUME SetupInv, NEW r \in DOMAIN jobs, JobEnds(r)
  PROVE  SetupInv' /\ ListingsAge /\ RecordsAge
<1>1. PICK out \in Outcomes, seen \in ReadBy(r) :
        InventoryHears(r, out, seen) /\ RecipesHear(r, out, seen)
  BY DEF JobEnds
<1>2. JobOver(r) /\ UNCHANGED <<up, gen>> /\ ~jobs[r].over
  BY DEF JobEnds, JobOver
<1>3. clock' = clock
  BY <1>1 DEF InventoryHears, FetchEnds, inventoryVars
<1>4. JobInv' /\ JobsKept /\ jobs'[r].over /\ DOMAIN jobs' = DOMAIN jobs
  BY <1>2, <1>3, JobOverFacts DEF SetupInv
<1>5. ListingsInv' /\ ListingsAge
  BY <1>1, <1>2, <1>4, InventoryHearsInv
<1>6. RecipesInv' /\ RecordsAge
  BY <1>1, <1>2, <1>4, RecipesHearInv
<1> QED
  BY <1>4, <1>5, <1>6 DEF SetupInv

----------------------------------------------------------------------------
LEMMA RestartStep ==
  ASSUME SetupInv, Restart
  PROVE  SetupInv' /\ ListingsAge /\ RecordsAge
<1>1. JobInv' /\ JobsKept
  BY AllOverFacts DEF Restart, SetupInv
<1>2. RecipesInv' /\ RecordsAge
  BY <1>1, RecipesStutter DEF Restart, SetupInv
<1>3. ListingsInv' /\ ListingsAge
  BY DEF Restart, InventoryEmpty, ListingsInv, ListingsAge
<1> QED
  BY <1>1, <1>2, <1>3 DEF SetupInv

LEMMA OtherStep ==
  ASSUME SetupInv, UNCHANGED <<jobs, inventoryVars, recipeVars>>, up' \subseteq Node,
         gen' = gen \/ \E x \in Thing : gen' = [gen EXCEPT ![x] = @ + 1]
  PROVE  SetupInv' /\ ListingsAge /\ RecordsAge
<1>1. gen' \in [Thing -> Nat] /\ \A x \in Thing : gen[x] <= gen'[x]
  BY DEF SetupInv, JobInv
<1>2. \A r \in DOMAIN jobs : jobs[r].of \in Thing /\ jobs[r].since \in Nat
  BY JobTyped DEF SetupInv
<1>3. \A r \in DOMAIN jobs : jobs[r].since <= gen'[jobs[r].of]
  BY <1>1, <1>2 DEF SetupInv, JobInv
<1>4. JobInv' /\ JobsKept
  BY <1>1, <1>3 DEF SetupInv, JobInv, JobsKept, inventoryVars
<1> QED
  BY <1>4, RecipesStutter, ListingsStutter DEF SetupInv, inventoryVars, recipeVars

LEMMA SetupInit == Init => SetupInv
<1> SUFFICES ASSUME Init PROVE SetupInv
  OBVIOUS
<1>1. jobs = << >> /\ jobs \in Seq(Job) /\ DOMAIN jobs = {}
  BY DEF Init, NodeJobsInit
<1>2. JobInv
  BY <1>1 DEF Init, NodeJobsInit, InventoryInit, JobInv
<1>3. RecipesInv
  BY DEF Init, RecipesInit, RecipesInv, RecordSound
<1>4. ListingsInv
  BY DEF Init, InventoryInit, ListingsInv
<1> QED
  BY <1>2, <1>3, <1>4 DEF SetupInv

LEMMA SetupStep ==
  ASSUME SetupInv, [Next]_vars
  PROVE  SetupInv' /\ ListingsAge /\ RecordsAge
<1>1. CASE BootstrapNext /\ UNCHANGED <<inventoryVars, recipeVars>>
  <2>1. UNCHANGED <<jobs, gen>> /\ up' \subseteq Node
    BY <1>1 DEF SetupInv, JobInv, BootstrapNext, Build, StartInstall, AgentRestarts, AgentConnects, NodeMissing, WriteBundle,
                WriteUnit, Enable, SshLost, Hello, NoHello, Becomes, jobVars
  <2> QED
    BY <1>1, <2>1, OtherStep
<1>2. CASE (\E x \in Thing : Change(x)) /\ UNCHANGED <<inventoryVars, recipeVars, bootstrapVars>>
  BY <1>2, OtherStep DEF Change, SetupInv, JobInv
<1>3. CASE UNCHANGED vars
  BY <1>3, OtherStep DEF vars, jobVars, SetupInv, JobInv
<1> QED
  BY <1>1, <1>2, <1>3, ListingStep, ServingStep, JobEndsStep, RestartStep DEF Next

THEOREM SetupInvariance == Spec => []SetupInv
BY SetupInit, SetupStep, PTL DEF Spec

\* A probe's result goes to the record of the folder it was run in (app.ts's listener).
THEOREM RecordDescribesItsFolder == Spec => []MetaOfOwnFolder
<1>1. SetupInv => MetaOfOwnFolder
  BY DEF SetupInv, RecipesInv, RecordSound, MetaOfOwnFolder, Registered
<1> QED
  BY <1>1, SetupInvariance, PTL

\* Listings and probes of one thing do not overtake each other.
THEOREM NothingOlderIsShown == Spec => ShowsNothingOlder
<1>1. SetupInv /\ [Next]_vars =>
        [/\ \A t \in Target : good[t] # NoModels /\ good'[t] # NoModels => good'[t].gen >= good[t].gen
         /\ \A f \in Folder : Registered(f) /\ recs[f].meta # NoMeta /\ recs'[f] # NoRecipe =>
                                recs'[f].meta.gen >= recs[f].meta.gen]_vars
  BY SetupStep DEF ListingsAge, RecordsAge
<1> QED
  BY <1>1, SetupInvariance, PTL DEF Spec, ShowsNothingOlder

----------------------------------------------------------------------------
(* The guard of a start of a registered recipe.                            *)

\* "one matched spark worker per declared worker IP" (multiNode.ts:7).  A recipe of
\* several nodes that is let through declares one address less than nodes, and
\* each address is that of a configured worker.
THEOREM AcceptedIsMatched ==
  ASSUME NEW Ip, NEW recipe \in Topology(Ip), NEW peers \in Seq(Peer(Ip)),
         CheckMultiNode(recipe, peers) = "ok", recipe.nnodes > 1
  PROVE  /\ Len(recipe.workers) = recipe.nnodes - 1
         /\ Workers(recipe, peers) # {}
         /\ HeadConfigured(recipe, peers)
<1>1. /\ Unmatched(recipe, peers) = {} /\ HeadConfigured(recipe, peers)
      /\ Len(recipe.workers) = recipe.nnodes - 1
  BY DEF CheckMultiNode, Topology
<1>2. \A i \in DOMAIN recipe.workers : \E p \in DOMAIN peers : p \in Matches(peers, recipe.workers[i])
  BY <1>1 DEF Unmatched, Matches
<1> DEFINE w == [i \in DOMAIN recipe.workers |->
                   CHOOSE p \in DOMAIN peers : p \in Matches(peers, recipe.workers[i])]
<1>3. w \in Workers(recipe, peers)
  BY <1>2 DEF Workers
<1> QED
  BY <1>1, <1>3

\* The guard counts addresses.  They stand for as many nodes when none is declared
\* twice: with an address repeated in WORKER_IP the guard lets a start through
\* that has fewer workers than it asks for.
THEOREM DistinctWorkers ==
  ASSUME NEW Ip, NEW recipe \in Topology(Ip), NEW peers \in Seq(Peer(Ip)),
         CheckMultiNode(recipe, peers) = "ok", OnePerAddress(recipe),
         NEW w \in Workers(recipe, peers),
         NEW i \in DOMAIN recipe.workers, NEW j \in DOMAIN recipe.workers, w[i] = w[j]
  PROVE  i = j
<1>1. peers[w[i]].ip = {recipe.workers[i]} /\ peers[w[j]].ip = {recipe.workers[j]}
  BY DEF Workers, Matches
<1> QED
  BY <1>1 DEF OnePerAddress

\* Nothing else is refused: a start is accepted exactly when it is of one node and
\* declares no worker, or all that it declares is configured in the right number.
THEOREM AcceptsExactly ==
  ASSUME NEW Ip, NEW recipe \in Topology(Ip), NEW peers \in Seq(Peer(Ip))
  PROVE  CheckMultiNode(recipe, peers) = "ok" <=>
           \/ recipe.nnodes <= 1 /\ ~recipe.declares
           \/ /\ recipe.declares /\ HeadConfigured(recipe, peers)
              /\ recipe.nnodes > 1 => Len(recipe.workers) = recipe.nnodes - 1
              /\ \A i \in DOMAIN recipe.workers : \E p \in DOMAIN peers :
                   peers[p].spark /\ peers[p].role = "worker" /\ peers[p].ip = {recipe.workers[i]}
<1>1. Unmatched(recipe, peers) = {} <=>
        \A i \in DOMAIN recipe.workers : \E p \in DOMAIN peers :
          peers[p].spark /\ peers[p].role = "worker" /\ peers[p].ip = {recipe.workers[i]}
  BY DEF Unmatched, Matches
<1> QED
  BY <1>1 DEF CheckMultiNode, Topology
=============================================================================
