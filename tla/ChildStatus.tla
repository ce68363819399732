----------------------------- MODULE ChildStatus -----------------------------
(***************************************************************************)
(* What vllmSupervisor.status promises its readers of the child, which     *)
(* they see between the critical sections of run: a launch shows as        *)
(* running first and is then counted, once and but for the very first; an  *)
(* exit ends what shows as running and names its reason in one step; and   *)
(* nothing else shows.                                                     *)
(***************************************************************************)
EXTENDS Naturals

CONSTANT Wrap    \* the count is kept modulo Wrap

VARIABLES
    running,    \* Running, with a PID
    counted,    \* do UptimeSeconds and RestartCount tell of this launch?
    first,      \* is the first launch still to be counted?
    count,      \* RestartCount
    reason      \* LastRestartReason, none before the first exit

vars == <<running, counted, first, count, reason>>

Init ==
    /\ running = FALSE /\ counted = TRUE /\ first = TRUE
    /\ count = 0 /\ reason = "none"

Launch ==
    /\ ~running
    /\ running' = TRUE /\ counted' = FALSE
    /\ UNCHANGED <<first, count, reason>>

Count ==
    /\ running /\ ~counted
    /\ counted' = TRUE /\ first' = FALSE
    /\ count' = IF first THEN count ELSE (count + 1) % Wrap
    /\ UNCHANGED <<running, reason>>

Exit ==
    /\ running /\ counted
    /\ running' = FALSE
    /\ reason' \in {"watchdog", "crash"}
    /\ UNCHANGED <<counted, first, count>>

Spec == Init /\ [][Launch \/ Count \/ Exit]_vars
=============================================================================
