------------------------------ MODULE MCPower ------------------------------
(***************************************************************************)
(* Three known profiles and one that a schedule misspells, and caps for    *)
(* one clock domain that only an operator's job sets.                      *)
(***************************************************************************)
EXTENDS Power, TLC

CONSTANTS eco, odd, ecoCaps, quietCaps, ownCaps

MCCapsOf == Full :> Open @@ eco :> ecoCaps @@ Quiet :> quietCaps @@ odd :> NoCaps
=============================================================================
