---------------------------- MODULE MCJobChannel ----------------------------
(***************************************************************************)
(* JobChannel with two reqIds of one kind, one of them with a timeout, two *)
(* connections and one dashboard restart.                                  *)
(***************************************************************************)
EXTENDS JobChannel
=============================================================================
