---------------------------- MODULE MCAgentHealth ----------------------------
(* One connection loop, which an outage may find anywhere and which may dial  *)
(* once per outage; the threshold of the code.                                *)
EXTENDS AgentHealth
=============================================================================
