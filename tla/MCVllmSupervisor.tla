-------------------------- MODULE MCVllmSupervisor --------------------------
(* The code's intervals in units of ten seconds.  A boot of 21 units is the *)
(* longest that bootGrace protects when one start fails on the way; 24 units *)
(* are four minutes, of the fifteen that -vllm-boot-timeout allows.          *)
EXTENDS VllmSupervisor
=============================================================================
