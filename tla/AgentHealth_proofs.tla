------------------------- MODULE AgentHealth_proofs -------------------------
(***************************************************************************)
(* The composition, for any threshold and any set of connection loops.  It *)
(* implements RouterGate, whose theorems therefore hold of it, and what    *)
(* they say of the gate carries over to the reported state by              *)
(* OutageOrder: where the monitor is while the state tells an outage, and  *)
(* while markUnhealthy is under way.                                       *)
(***************************************************************************)
EXTENDS AgentHealth, RouterGate_proofs

Outage == {"unhealthy", "restarting"}

OutageOrder ==
    /\ state \in Outage => ~healthy
    /\ mon = "closing" => monitor = "healthDown" /\ state \notin Outage
    /\ monitor \in {"notifyReady", "reportUp", "openGate"} => state \notin Outage
    /\ monitor \in {"reportDown", "closeGate"} => state \notin Outage
    /\ monitor = "watchdog" /\ healthy => fails # Threshold
    /\ monitor \in {"healthDown", "stateDown", "notifyDown", "stateRestart"} => ~healthy
    /\ monitor # "off" => main = Len(B!Script) + 1
    /\ fails \in Nat

-----------------------------------------------------------------------------
\* The composition is RouterGate with a monitor whose calls are timed by the
\* probes: every step of it is a step of RouterGate or leaves it alone.
THEOREM HealthImplementsGate == HealthSpec => Spec
<1>1. HealthInit => Init
  BY DEF HealthInit
<1>2. [HealthNext]_healthVars => [Next]_vars
  <2> SUFFICES ASSUME [HealthNext]_healthVars PROVE Next \/ UNCHANGED vars
    BY DEF vars
  <2>1. CASE MonitorActs
    <3>1. CASE healthy' = healthy
      BY <2>1, <3>1 DEF MonitorActs, vars, gateOwn, loopVars
    <3>2. QED
      BY <2>1, <3>1 DEF MonitorActs, Next
  <2>2. CASE CallActs
    BY <2>2 DEF CallActs, Next
  <2>3. CASE OthersAct
    BY <2>3 DEF OthersAct, gateOwn, loopVars, vars, B!MainStep, B!MainWork, B!MainFatal,
       B!MainSet, B!MainSetInfo, B!MainNotify, B!MainStartsMonitor, B!monVars,
       B!BackendChanges, B!ApiChanges
  <2>4. ASSUME NEW c \in Conns, LoopActs(c) \/ HandlerActs(c) \/ RouterActs(c)
        PROVE  Next
    BY <2>4 DEF LoopActs, HandlerActs, RouterActs, Next
  <2>5. CASE UNCHANGED healthVars
    BY <2>5 DEF healthVars
  <2>6. QED
    BY <2>1, <2>2, <2>3, <2>4, <2>5 DEF HealthNext
<1>3. QED
  BY <1>1, <1>2, PTL DEF HealthSpec, Spec

\* The composition is BackendStatus as well, without its reporter.
THEOREM HealthImplementsStatus == HealthSpec => B!Spec
<1>1. HealthInit => B!Init
  BY DEF HealthInit
<1>2. [HealthNext]_healthVars => [B!Next]_B!vars
  <2> SUFFICES ASSUME [HealthNext]_healthVars PROVE B!Next \/ UNCHANGED B!vars
    OBVIOUS
  <2>1. CASE MonitorActs
    BY <2>1 DEF MonitorActs, B!Next
  <2>2. CASE OthersAct
    BY <2>2 DEF OthersAct, B!Next
  <2>3. CASE CallActs
    BY <2>3 DEF CallActs, statusOwn, B!vars, MonitorStep, CloseCut,
       MarkUnhealthyReturns, Broadcast
  <2>4. ASSUME NEW c \in Conns, LoopActs(c) \/ HandlerActs(c) \/ RouterActs(c)
        PROVE  UNCHANGED B!vars
    BY <2>4 DEF LoopActs, HandlerActs, RouterActs, statusOwn, B!vars, gateVars,
       LoopStep, WaitHealthy, DialOk, DialFail, SetConn, ReadError, WgWait,
       ClearConn, CloseConn, Sleep, HandlerDone, Receive, Drop
  <2>5. CASE UNCHANGED healthVars
    BY <2>5 DEF healthVars, vars, statusOwn, B!vars
  <2>6. QED
    BY <2>1, <2>2, <2>3, <2>4, <2>5 DEF HealthNext
<1>3. QED
  BY <1>1, <1>2, PTL DEF HealthSpec, B!Spec

-----------------------------------------------------------------------------
\* The start-up reports no outage, and is over once the monitor runs.
LEMMA ScriptStates ==
    ASSUME B!AtMain("state")
    PROVE  B!Script[main].to \notin Outage
BY DEF B!AtMain, B!Script, B!Announce, B!DeployFirst, B!Work, B!Set, B!SetInfo,
   B!Notify, Outage

\* Steps of the connection loops, of main and of the environment.
LEMMA OutageOrderOthers ==
    ASSUME OutageOrder,
           \/ OthersAct \/ UNCHANGED healthVars
           \/ \E c \in Conns : LoopActs(c) \/ HandlerActs(c) \/ RouterActs(c)
    PROVE  OutageOrder'
<1> USE DEF OutageOrder, gateOwn, B!monVars
<1>1. CASE B!MainSet /\ UNCHANGED gateOwn
  <2>1. state' \notin Outage
    BY <1>1, ScriptStates DEF B!MainSet
  <2>2. main \in 1..Len(B!Script) /\ UNCHANGED <<deploy, monitor, healthy, fails, mon>>
    BY <1>1 DEF B!MainSet, B!AtMain, B!envVars
  <2>3. monitor = "off" /\ mon # "closing"
    BY <2>2
  <2>4. QED
    BY <2>1, <2>2, <2>3
<1>2. CASE (B!MainWork \/ B!MainFatal \/ B!MainSetInfo \/ B!MainNotify)
           /\ UNCHANGED gateOwn
  <2>1. /\ main \in 1..Len(B!Script)
        /\ UNCHANGED <<deploy, state, monitor, healthy, fails, mon>>
    BY <1>2 DEF B!MainWork, B!MainFatal, B!MainSetInfo, B!MainNotify, B!AtMain,
       B!envVars, B!cells
  <2>2. QED
    BY <2>1
<1>3. CASE B!MainStartsMonitor /\ UNCHANGED gateOwn
  BY <1>3 DEF B!MainStartsMonitor, B!envVars, B!cells, B!Script, Outage
<1>4. CASE (B!BackendChanges \/ B!ApiChanges) /\ UNCHANGED gateOwn
  BY <1>4 DEF B!BackendChanges, B!ApiChanges, B!cells, B!Script
<1>5. CASE UNCHANGED healthVars
  BY <1>5 DEF healthVars, vars, gateVars, statusOwn, B!Script
<1>6. CASE \E c \in Conns : LoopActs(c) \/ HandlerActs(c) \/ RouterActs(c)
  <2>1. UNCHANGED statusOwn /\ UNCHANGED <<healthy, mon>>
    BY <1>6 DEF LoopActs, HandlerActs, RouterActs, LoopStep, WaitHealthy,
       DialOk, DialFail, SetConn, ReadError, WgWait, ClearConn, CloseConn,
       Sleep, HandlerDone, Receive, Drop, gateVars
  <2>2. QED
    BY <2>1 DEF statusOwn, B!Script
<1>7. QED
  BY <1>1, <1>2, <1>3, <1>4, <1>5, <1>6 DEF OthersAct, B!MainStep

\* Steps of the monitor, and of the calls it has made.
LEMMA OutageOrderMonitor ==
    ASSUME OutageOrder, MonitorActs \/ CallActs
    PROVE  OutageOrder'
<1> USE ThresholdAssumption
<1> USE DEF OutageOrder, B!Mon, B!envVars, B!cells, B!rptVars, B!monVars, B!Script
<1>1. CASE CallActs
  BY <1>1 DEF CallActs, statusOwn, MonitorStep, CloseCut, MarkUnhealthyReturns,
     Broadcast
<1>a. ASSUME MonitorActs, UNCHANGED healthy
      PROVE  mon = "idle" /\ mon' = "idle"
  BY <1>a DEF MonitorActs, gateOwn, MarkUnhealthy, MarkHealthy
<1>2. CASE MonitorActs /\ B!CloseGate
  BY <1>2 DEF MonitorActs, B!CloseGate, gateOwn, MarkUnhealthy, MarkHealthy
<1>3. CASE MonitorActs /\ B!OpenGate
  BY <1>3 DEF MonitorActs, B!OpenGate, gateOwn, MarkUnhealthy, MarkHealthy
<1>4. CASE MonitorActs /\ (B!Wait \/ B!ProbeOk \/ B!HealthUp)
  BY <1>4, <1>a DEF B!Wait, B!ProbeOk, B!HealthUp
<1>5. CASE MonitorActs /\ B!SetReady
  BY <1>5, <1>a DEF B!SetReady, B!AfterReady, Outage
<1>6. CASE MonitorActs /\ (B!ReportUp \/ B!ReportDown)
  BY <1>6, <1>a DEF B!ReportUp, B!ReportDown
<1>7. CASE MonitorActs /\ B!ProbeFails
  BY <1>7, <1>a DEF B!ProbeFails, B!OpensOutage
<1>8. CASE MonitorActs /\ (B!HealthDown \/ B!StateDown \/ B!StateRestart)
  BY <1>8, <1>a DEF B!HealthDown, B!StateDown, B!StateRestart
<1>9. CASE MonitorActs /\ B!Watchdog
  BY <1>9, <1>a DEF B!Watchdog
<1>10. CASE MonitorActs /\ B!MonNotify
  BY <1>10, <1>a DEF B!MonNotify, B!AfterReady
<1>11. QED
  BY <1>1, <1>2, <1>3, <1>4, <1>5, <1>6, <1>7, <1>8, <1>9, <1>10
     DEF MonitorActs, B!MonitorStep

\* An outage that is reported is one that the router has noticed: whatever the
\* threshold, the number of loops and the interleaving, each loop has at most
\* the connection it was already dialing when the outage was flagged.
THEOREM ReportedOutageCorrect == HealthSpec => []ReportedOutageIsCut
<1>1. HealthInit => OutageOrder
  BY DEF HealthInit, Init, B!Init, OutageOrder, Outage
<1>2. OutageOrder /\ [HealthNext]_healthVars => OutageOrder'
  BY OutageOrderOthers, OutageOrderMonitor DEF HealthNext
<1>3. HealthSpec => []OutageOrder
  BY <1>1, <1>2, PTL DEF HealthSpec
\* The calls of markUnhealthy close what its snapshot holds before they return.
<1>4. HealthSpec => [](mon # "closing" => cut = {})
  <2>1. HealthInit => (mon # "closing" => cut = {})
    BY DEF HealthInit, Init
  <2>2. (mon # "closing" => cut = {}) /\ [Next]_vars => (mon # "closing" => cut = {})'
    BY DEF Next, vars, gateVars, loopVars, LoopStep, WaitHealthy, DialOk,
       DialFail, SetConn, ReadError, WgWait, ClearConn, CloseConn, Sleep,
       HandlerDone, Receive, Drop, MonitorStep, CloseCut, MarkUnhealthyReturns,
       Broadcast, MarkUnhealthy, MarkHealthy
  <2>3. HealthSpec => HealthInit
    BY PTL DEF HealthSpec
  <2>4. QED
    BY <2>1, <2>2, <2>3, HealthImplementsGate, PTL DEF Spec
<1>5. OutageOrder /\ (mon # "closing" => cut = {}) /\ CutIsComplete => ReportedOutageIsCut
  BY DEF OutageOrder, Outage, CutIsComplete, ReportedOutageIsCut
<1>6. QED
  BY <1>3, <1>4, <1>5, HealthImplementsGate, CutCorrect, PTL
=============================================================================
