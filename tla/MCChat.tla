------------------------------- MODULE MCChat -------------------------------
(***************************************************************************)
(* Two targets that are down at first, an on-demand record over both and a *)
(* record without targets, a chat turn and a /v1 request.                  *)
(***************************************************************************)
EXTENDS Chat, TLC

CONSTANTS t1, t2

MCDown == {t1 :> "down" @@ t2 :> "down"}

MCOffered == {[targets |-> <<t1, t2>>, onDemand |-> TRUE, vision |-> TRUE],
              [targets |-> <<>>, onDemand |-> FALSE, vision |-> FALSE]}
=============================================================================
