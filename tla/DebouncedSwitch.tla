--------------------------- MODULE DebouncedSwitch ---------------------------
(***************************************************************************)
(* What monitorBackendHealth promises of the router gate: a switch driven  *)
(* by probes that goes off once Threshold of them in a row have failed and *)
(* on at the first good one.  It moves before the next probe and never     *)
(* between two that call for no move.                                      *)
(***************************************************************************)
EXTENDS Naturals

CONSTANT Threshold

VARIABLES
    on,    \* are router connections allowed?
    run    \* failed probes since the last good one, counted to Threshold

Init == on = TRUE /\ run = 0

\* The switch is where the probes so far want it.
Settled == IF on THEN run < Threshold ELSE run > 0

Probe ==
    /\ Settled
    /\ run' \in {0, IF run < Threshold THEN run + 1 ELSE run}
    /\ UNCHANGED on

Move ==
    /\ ~Settled
    /\ on' = ~on
    /\ UNCHANGED run

Spec == Init /\ [][Probe \/ Move]_<<on, run>>
=============================================================================
