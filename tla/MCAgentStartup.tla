--------------------------- MODULE MCAgentStartup ---------------------------
(* Four mishaps, and an instance for each of them and one more.              *)
EXTENDS AgentStartup
=============================================================================
