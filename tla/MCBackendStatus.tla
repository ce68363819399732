--------------------------- MODULE MCBackendStatus ---------------------------
(* The threshold of the code, with and without -deploy-vllm. *)
EXTENDS BackendStatus
=============================================================================
