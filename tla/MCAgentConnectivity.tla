------------------------ MODULE MCAgentConnectivity ------------------------
(* Instances of AgentConnectivity for TLC.                                 *)
EXTENDS AgentConnectivity

CONSTANTS a1, a2
=============================================================================
