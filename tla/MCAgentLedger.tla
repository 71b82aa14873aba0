-------------------------- MODULE MCAgentLedger --------------------------
(* TLC instances of AgentLedger. *)
EXTENDS AgentLedger
==========================================================================
