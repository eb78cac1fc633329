--------------------------- MODULE MCAgentDaemon ---------------------------
(***************************************************************************)
(* AgentDaemon with a capped profile, an uncapped one and one that is not  *)
(* in the profile list.                                                    *)
(***************************************************************************)
EXTENDS AgentDaemon

CONSTANTS eco, full, ghost

\* eco is capped, full is explicitly uncapped, ghost is not in the profile list.
MCCaps == [p \in Profile |-> CASE p = eco -> "eco" [] p = full -> "open" [] p = ghost -> NoCaps]
=============================================================================
