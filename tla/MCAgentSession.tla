---------------------------- MODULE MCAgentSession --------------------------
(* Instances of AgentSession for TLC.                                      *)
EXTENDS AgentSession

CONSTANTS a1, k1, k2

\* Two processes of one agent.
AgentOfClients == [k \in {k1, k2} |-> a1]
=============================================================================
