----------------------------- MODULE MultiNode -----------------------------
(***************************************************************************)
(* The guard of a start (server/src/serving/multiNode.ts): a recipe that   *)
(* spans several nodes is started only if the workers it declares are      *)
(* configured.  In Serving.tla a start it refuses is one whose outcome is  *)
(* "refused".                                                              *)
(*                                                                         *)
(* recipe: [nnodes, declares, workers, head].  declares says that          *)
(* WORKER_IP is set; workers lists the addresses in it and may be empty    *)
(* all the same; head is the set with the address of HEAD_IP, or {}.       *)
(* peers: the node directory, a sequence; ip holds the node's address, or  *)
(* nothing.                                                                *)
(***************************************************************************)
EXTENDS Naturals, Sequences

Topology(Ip) ==
  [nnodes : Nat, declares : BOOLEAN, workers : Seq(Ip), head : {{}} \cup {{ip} : ip \in Ip}]

Peer(Ip) ==
  [ip : {{}} \cup {{ip} : ip \in Ip}, spark : BOOLEAN, role : {"head", "worker", "other"}]

\* The nodes that match a declared worker; the first of them is the one reported.
Matches(peers, ip) ==
  {i \in DOMAIN peers : peers[i].spark /\ peers[i].role = "worker" /\ peers[i].ip = {ip}}

Unmatched(recipe, peers) == {i \in DOMAIN recipe.workers : Matches(peers, recipe.workers[i]) = {}}

HeadConfigured(recipe, peers) ==
  recipe.head = {} \/ \E i \in DOMAIN peers : peers[i].role = "head" /\ peers[i].ip = recipe.head

\* checkMultiNode.  Its last case, one node whose declared workers all fail to
\* match, is left out: "worker-unmatched" has answered it before.
CheckMultiNode(recipe, peers) ==
  IF recipe.nnodes <= 1 /\ ~recipe.declares THEN "ok"
  ELSE IF ~recipe.declares THEN "no-worker-declared"
  ELSE IF Unmatched(recipe, peers) # {} THEN "worker-unmatched"
  ELSE IF recipe.nnodes > 1 /\ Len(recipe.workers) # recipe.nnodes - 1 THEN "node-count-delta"
  ELSE IF ~HeadConfigured(recipe, peers) THEN "head-ip-mismatch"
  ELSE "ok"

\* A choice of one configured worker for each declared address.
Workers(recipe, peers) ==
  {w \in [DOMAIN recipe.workers -> DOMAIN peers] :
     \A i \in DOMAIN recipe.workers : w[i] \in Matches(peers, recipe.workers[i])}

OnePerAddress(recipe) ==
  \A i, j \in DOMAIN recipe.workers : recipe.workers[i] = recipe.workers[j] => i = j

=============================================================================
