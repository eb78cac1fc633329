--------------------------- MODULE MCJobsManager ---------------------------
(***************************************************************************)
(* JobsManager on two nodes with rings of two entries, small enough that a *)
(* running job is shifted out of one.                                      *)
(***************************************************************************)
EXTENDS JobsManager
=============================================================================
