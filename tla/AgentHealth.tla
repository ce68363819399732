----------------------------- MODULE AgentHealth -----------------------------
(***************************************************************************)
(* The backend's health and the router connections of one agent together:  *)
(* BackendStatus drives the gate of RouterGate (runAgent of main.go).      *)
(*                                                                         *)
(* The two share the variable healthy, which is routerGate.healthy and the *)
(* gate of BackendStatus.  The monitor closes or opens the gate by calling *)
(* markUnhealthy or markHealthy, does nothing else before the call has     *)
(* returned, and its outage reaches the handlers of the connections too: a *)
(* request to a hung backend does not return.  The connection loops start  *)
(* after the monitor.  The reporter only reads and is left out.            *)
(***************************************************************************)
EXTENDS RouterGate, Sequences

CONSTANT Threshold    \* consecutiveFailThreshold

ASSUME ThresholdAssumption == Threshold \in Nat \ {0}

VARIABLES deploy, backend, apiHung, state, health, info, notify, told, main,
          monitor, fails, failRun, repInfo, repState, repHealthy, rpt

B == INSTANCE BackendStatus WITH gate <- healthy, mon <- monitor

\* What BackendStatus does not share with RouterGate.
statusOwn == <<deploy, backend, apiHung, state, health, info, notify, told,
               main, monitor, fails, failRun, repInfo, repState, repHealthy, rpt>>
gateOwn == <<conns, mon, cut, loopVars, straggler>>

HealthInit == Init /\ B!Init

\* Faulty variant: the calls to the gate are made on a goroutine of their own.
MonitorActs_Async ==
    /\ B!MonitorStep
    /\ IF healthy' = healthy THEN UNCHANGED gateOwn
                             ELSE MarkUnhealthy \/ MarkHealthy

\* One statement of the monitor, once the call before it has returned.
MonitorActs ==
    /\ mon = "idle"
    /\ B!MonitorStep
    /\ IF healthy' = healthy THEN UNCHANGED gateOwn
                             ELSE MarkUnhealthy \/ MarkHealthy

\* The rest of markUnhealthy and markHealthy.
CallActs == MonitorStep /\ UNCHANGED statusOwn

\* Main and the environment of the monitor.
OthersAct ==
    (B!MainStep \/ B!BackendChanges \/ B!ApiChanges) /\ UNCHANGED gateOwn

LoopActs(c) == monitor # "off" /\ LoopStep(c) /\ UNCHANGED statusOwn

HandlerActs(c) == backend # "hung" /\ HandlerDone(c) /\ UNCHANGED statusOwn

RouterActs(c) == (Receive(c) \/ Drop(c)) /\ UNCHANGED statusOwn

HealthNext ==
    \/ MonitorActs \/ CallActs \/ OthersAct
    \/ \E c \in Conns : LoopActs(c) \/ HandlerActs(c) \/ RouterActs(c)

healthVars == <<vars, statusOwn>>

(***************************************************************************)
(* As in the two modules: goroutines that can run do, a handler's call to  *)
(* a backend that is not hung returns, and the environment is free.        *)
(***************************************************************************)
HealthSpec ==
    /\ HealthInit /\ [][HealthNext]_healthVars
    /\ WF_healthVars(MonitorActs) /\ WF_healthVars(CallActs)
    /\ \A c \in Conns :
          WF_healthVars(LoopActs(c)) /\ WF_healthVars(HandlerActs(c))

-----------------------------------------------------------------------------
\* An outage that the status reports, as the state unhealthy or restarting, is
\* one that the router has noticed: every connection is closed but those of the
\* loops that were already dialing when it was flagged.
ReportedOutageIsCut ==
    state \in {"unhealthy", "restarting"} =>
        \A s \in Live : s[2] = straggler[s[1]]

\* A backend that goes down for good leaves no loop serving or dialing, except
\* on the one connection it was dialing at the time, as long as the management
\* API answers.
OutageParksLoops ==
    <>[](monitor # "off" /\ backend = "down" /\ ~apiHung) =>
        \A c \in Conns :
            <>[](pc[c] = "waiting" \/ (pc[c] = "serve" /\ sock[c] = straggler[c]))

\* A backend that comes back for good brings every loop back: one whose
\* connection is gone dials again, and none stays parked at the gate.
RecoveryRedials ==
    <>[](monitor # "off" /\ backend = "up" /\ ~apiHung) =>
        \A c \in Conns :
            []<>(pc[c] = "dial" \/ (pc[c] = "serve" /\ Current(c) \in Live))
=============================================================================
