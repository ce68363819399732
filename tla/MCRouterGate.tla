---------------------------- MODULE MCRouterGate ----------------------------
(* Two connection loops, each of which dials at most twice. *)
EXTENDS RouterGate
=============================================================================
