--------------------------- MODULE MCAgentPresence ---------------------------
(***************************************************************************)
(* AgentPresence on small instances; every constant is given in the cfg.    *)
(***************************************************************************)
EXTENDS AgentPresence

=============================================================================
