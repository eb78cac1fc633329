--------------------------- MODULE MCAlertEngine ---------------------------
(***************************************************************************)
(* AlertEngine with one rule on two entities, a breach that has to last    *)
(* two ticks, and mutes of up to two ticks.                                *)
(***************************************************************************)
EXTENDS AlertEngine
=============================================================================
