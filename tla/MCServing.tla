----------------------------- MODULE MCServing -----------------------------
(***************************************************************************)
(* Serving with one client and two successive deployment records, or with  *)
(* one record and several operator verbs.                                  *)
(***************************************************************************)
EXTENDS Serving
=============================================================================
