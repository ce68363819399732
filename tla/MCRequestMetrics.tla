-------------------------- MODULE MCRequestMetrics --------------------------
(* A sample beyond both boundaries, which only the last bucket can hold. *)
EXTENDS RequestMetrics, TLC

MCBoundaries == <<1, 2>>

\* No property tells one request from another.
MCSymmetry == Permutations(Requests)
=============================================================================
