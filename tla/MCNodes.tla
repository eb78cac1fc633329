------------------------------ MODULE MCNodes ------------------------------
(***************************************************************************)
(* Two nodes, two recipe folders on the second, the model cache of the     *)
(* first.  Listings, recipes and installs share only the agents and the    *)
(* job channel, where their kinds keep them apart, so a behaviour is       *)
(* followed only while one of the three has been used; modelctl, a bare    *)
(* node and a server without the install routes matter to one each.        *)
(***************************************************************************)
EXTENDS NodeSetup

CONSTANTS n1, n2, f1, f2

MCNasFirst == <<n1, n2>>
MCNodeOf == [f \in {f1, f2} |-> n2]

Ran(kind) == \E r \in DOMAIN jobs : jobs[r].kind = kind
Lists == \/ clock > 0 \/ gen[store] + gen[n1] > 0 \/ Ran("list-store")
         \/ \E t \in Target : told[t] # "none"
Serves == \/ gen[f1] + gen[f2] > 0 \/ Ran("recipe-probe")
          \/ \E f \in Folder : Registered(f)
Installs == built > 1 \/ installs # {}

OneSide ==
  /\ Lists => ~Serves /\ ~Installs
  /\ Serves => ~Installs /\ tool = {}
  /\ Installs => tool = {} /\ up \subseteq {n1} /\ agent[n2] = 1
  /\ Lists \/ Serves => routed /\ \A n \in Node : agent[n] = 1
=============================================================================
