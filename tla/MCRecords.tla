------------------------------ MODULE MCRecords ------------------------------
(***************************************************************************)
(* Coarse rows of two minutes; two leaves, one of which some frames lack.  *)
(* Metrics, traces, files and backups share no variable but the clock and  *)
(* the restarts, so a behaviour is followed only while one of the four has *)
(* been used.                                                              *)
(***************************************************************************)
EXTENDS Records

CONSTANTS desired, clients, e1, e2, e3

MCFrames == {[power |-> 2], [power |-> 1, heat |-> 3], [power |-> 4, heat |-> 1]}
MCWidth == [g \in Granularity |-> IF g = "1m" THEN 1 ELSE 2]
MCKeep == [g \in Granularity |-> CASE g = "1m" -> 0 [] g = "1h" -> 1 [] g = "1d" -> 2]

OneSide ==
  LET used1 == <<arrived # <<>>, requests # <<>>, used # {} \/ DOMAIN export # {}, attempts # <<>> >>
  IN /\ Cardinality({i \in 1..4 : used1[i]}) <= 1
     /\ used1[3] => now = 0
=============================================================================
