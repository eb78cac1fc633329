------------------------------ MODULE Recipes ------------------------------
(***************************************************************************)
(* Serving recipes (server/src/serving/recipes.ts): folders of start       *)
(* scripts on a node, registered with the dashboard and read by a probe    *)
(* job (routes in server/src/app.ts).  A recipe's id is a function of its  *)
(* node and path, so a recipe is known by its folder; label, entry, file   *)
(* list and times follow the record and are left out.                      *)
(***************************************************************************)
EXTENDS NodeJobs

CONSTANTS Folder, NodeOf,  \* the recipe folders and their nodes
          NoRecipe, NoMeta

ASSUME RecipesConstants == NodeOf \in [Folder -> Node] /\ Folder \subseteq Thing

VARIABLES recs,            \* folder -> its record, in memory and on disk
          probeJobs        \* [req, of]: the probe jobs whose end is waited for

recipeVars == <<recs, probeJobs>>

Registered(f) == recs[f] # NoRecipe
Blank == [meta |-> NoMeta, probeError |-> FALSE]

\* parseRecipeProbe: marker-delimited sections, whichever arrived.  Without the
\* folder, or without the names of its start scripts, there is only an error;
\* the rest of what was not output is null.
Outcomes == {"all", "part", "none"}
Parsed(out, f, seen) ==
  IF out = "none" THEN NoMeta ELSE [of |-> f, gen |-> seen, whole |-> out = "all"]

\* updateFromProbe, persisted at once.
Merge(rec, meta) ==
  IF meta = NoMeta THEN [rec EXCEPT !.probeError = TRUE]
  ELSE [meta |-> meta, probeError |-> FALSE]

ProbeSent(f, sent) ==
  /\ Dispatch(NodeOf[f], "recipe-probe", f, sent)
  /\ probeJobs' = probeJobs \cup {[req |-> NextReq, of |-> f]}
  /\ UNCHANGED <<up, gen>>

Refused(f) == Refusal(NodeOf[f], "recipe-probe")

\* POST /api/recipes, of a new folder or a known one.
Register(f) ==
  LET rec == IF Registered(f) THEN recs[f] ELSE Blank
  IN /\ \E sent \in BOOLEAN : ProbeSent(f, sent)
     /\ recs' = [recs EXCEPT ![f] = rec]

\* Not the code: taking the running probe for the record that was refused one,
\* as the comment at app.ts:360 has it.
RegisterRefusedAdopts(f) ==
  /\ Refused(f) # "none"
  /\ IF Refused(f) = "conflict" /\ Registered(f)
     THEN /\ probeJobs' = {IF jobs[p.req].on = NodeOf[f] THEN [p EXCEPT !.of = f] ELSE p : p \in probeJobs}
          /\ UNCHANGED recs
     ELSE /\ recs' = [recs EXCEPT ![f] = [IF Registered(f) THEN recs[f] ELSE Blank
                                          EXCEPT !.probeError = TRUE]]
          /\ UNCHANGED probeJobs
  /\ UNCHANGED jobVars

\* Refused, the record is kept with the error; a known folder on a node whose
\* probe is running, of whichever folder, is answered 202 and left as it is.
RegisterRefused(f) ==
  /\ Refused(f) # "none"
  /\ ~(Refused(f) = "conflict" /\ Registered(f))
  /\ recs' = [recs EXCEPT ![f] = [IF Registered(f) THEN recs[f] ELSE Blank
                                  EXCEPT !.probeError = TRUE]]
  /\ UNCHANGED <<probeJobs, jobVars>>

\* POST /api/recipes/:id/probe.
Probe(f) ==
  Registered(f) /\ (\E sent \in BOOLEAN : ProbeSent(f, sent)) /\ UNCHANGED recs

\* DELETE /api/recipes/:id: a probe under way is not cancelled.
Remove(f) == Registered(f) /\ recs' = [recs EXCEPT ![f] = NoRecipe] /\ UNCHANGED <<probeJobs, jobVars>>

\* The listener in app.ts: the output is parsed whatever the job's state.
RecipesHear(r, out, seen) ==
  \/ \E p \in probeJobs :
       /\ p.req = r /\ probeJobs' = probeJobs \ {p}
       /\ recs' = IF ~Registered(p.of) THEN recs
                  ELSE [recs EXCEPT ![p.of] = Merge(@, Parsed(out, jobs[r].of, seen))]
  \/ (\A p \in probeJobs : p.req # r) /\ UNCHANGED recipeVars

RecipesInit == recs = [f \in Folder |-> NoRecipe] /\ probeJobs = {}

----------------------------------------------------------------------------
\* A record describes its own folder, also when its probe was refused while
\* another folder's was running on the node, or when it was removed and
\* registered again with a probe under way.
MetaOfOwnFolder ==
  \A f \in Folder : Registered(f) /\ recs[f].meta # NoMeta => recs[f].meta.of = f
=============================================================================
