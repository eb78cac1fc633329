---------------------------- MODULE MCReconciler ----------------------------
(***************************************************************************)
(* Reconciler with one node and two sockets, so that a connection can be   *)
(* replaced.  No patch is undone: after an undo that the tick has not seen *)
(* the node is left with what was undone (README.md, "Divergences").       *)
(***************************************************************************)
EXTENDS Reconciler

CONSTANTS c0, c1, c2

\* Each patch moves on to a configuration the node has not had.
Forward == [e \in Config \X Config |-> e \in {<<c0, c1>>, <<c1, c2>>}]

=============================================================================
