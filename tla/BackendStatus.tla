---------------------------- MODULE BackendStatus ----------------------------
(***************************************************************************)
(* How the state of the local LLM backend is observed, shared and reported *)
(* (backend.go, reporter.go, and the start-up block of main.go).           *)
(*                                                                         *)
(* Three goroutines share the cells sharedBackendState (state),            *)
(* sharedHealth (health) and sharedModelInfo (info) and the one-slot       *)
(* channel notify:                                                         *)
(*                                                                         *)
(*   main      walks the start-up script, then starts the monitor          *)
(*   monitor   monitorBackendHealth: probes, debounces, reports, cuts and  *)
(*             reopens the router gate, kills the child under -deploy-vllm *)
(*   reporter  reportStatusLoop: assembles a report field by field and     *)
(*             posts it, on notify and on its timer                        *)
(*                                                                         *)
(* Every access to a shared cell is an action.  The monitor's own variable *)
(* healthy always equals routerGate.healthy, which nobody else writes, so  *)
(* that gate stands for both.                                              *)
(***************************************************************************)
EXTENDS Naturals, Sequences

CONSTANT Threshold    \* consecutiveFailThreshold

ASSUME ThresholdAssumption == Threshold \in Nat \ {0}

VARIABLES
    deploy,     \* the flag -deploy-vllm
    backend,    \* what a probe meets: up (any HTTP answer), down (an error),
                \* hung (the connection opens and nothing answers)
    apiHung,    \* does the management API leave its requests unanswered?
    state,      \* sharedBackendState
    health,     \* sharedHealth
    info,       \* sharedModelInfo: has the detection chain set it?
    notify,     \* is the slot of the channel notify full?
    gate,       \* routerGate.healthy, and the monitor's variable healthy
    told,       \* the value of the last call of api.reportHealth
    main,       \* the next instruction of main, or exited (log.Fatal)
    mon,        \* where the monitor is
    fails,      \* consecutiveFails
    failRun,    \* history: failed probes since the last good one, to Threshold
    repInfo,    \* the report the reporter is assembling, or last assembled:
    repState,   \* its model info, state and
    repHealthy, \* healthy fields
    rpt         \* where the reporter is

envVars == <<deploy, backend, apiHung>>
cells == <<state, health, info, notify>>
monVars == <<gate, told, mon, fails, failRun>>
report == <<repInfo, repState, repHealthy>>
rptVars == <<repInfo, repState, repHealthy, rpt>>
vars == <<deploy, backend, apiHung, state, health, info, notify, gate, told,
          main, mon, fails, failRun, repInfo, repState, repHealthy, rpt>>

\* crashed is declared in hoststatus.go as well; no statement sets it.
States == {"starting", "downloading_model", "booting", "ready", "unhealthy",
           "restarting"}

-----------------------------------------------------------------------------
(* Start-up: what main does to the cells, in order.  A work instruction    *)
(* does not touch them and ends the process when it fails.                 *)

Work == [op |-> "work"]
Set(s) == [op |-> "state", to |-> s]
SetInfo == [op |-> "info"]
Notify == [op |-> "notify"]

\* Authentication; detection of the model's info; registration.
Announce == <<Work, SetInfo, Notify, Work>>

\* vLLM lookup; download; launch and wait; then as without -deploy-vllm.
DeployFirst ==
    <<Work, Set("downloading_model"), Notify, Work, Set("booting"), Notify,
      Work, Set("ready"), Notify, Work, SetInfo, Notify, Work>>

Script == IF deploy THEN DeployFirst ELSE Announce

AtMain(op) == main \in 1..Len(Script) /\ Script[main].op = op
Exited == main = 0    \* log.Fatal ends every goroutine

MainWork ==
    /\ AtMain("work")
    /\ main' = main + 1
    /\ UNCHANGED <<envVars, cells, monVars, rptVars>>

MainFatal ==
    /\ AtMain("work")
    /\ main' = 0
    /\ UNCHANGED <<envVars, cells, monVars, rptVars>>

MainSet ==
    /\ AtMain("state")
    /\ state' = Script[main].to
    /\ main' = main + 1
    /\ UNCHANGED <<envVars, health, info, notify, monVars, rptVars>>

MainSetInfo ==
    /\ AtMain("info")
    /\ info' = TRUE
    /\ main' = main + 1
    /\ UNCHANGED <<envVars, state, health, notify, monVars, rptVars>>

MainNotify ==
    /\ AtMain("notify")
    /\ notify' = TRUE
    /\ main' = main + 1
    /\ UNCHANGED <<envVars, state, health, info, monVars, rptVars>>

MainStartsMonitor ==
    /\ main = Len(Script) + 1
    /\ mon = "off"
    /\ mon' = "sleep"
    /\ UNCHANGED <<envVars, cells, main, gate, told, fails, failRun, rptVars>>

-----------------------------------------------------------------------------
(* The monitor *)

Mon(from, to) == ~Exited /\ mon = from /\ mon' = to

Wait ==
    /\ Mon("sleep", "probe") \/ Mon("grace", "sleep")
    /\ UNCHANGED <<envVars, cells, main, gate, told, fails, failRun, rptVars>>

\* Where a good probe goes once the state is ready.
AfterReady == IF gate THEN "sleep" ELSE "reportUp"

\* Faulty variant: a good probe leaves the count of failures alone.
ProbeOk_NoReset ==
    /\ backend = "up"
    /\ Mon("probe", "answered")
    /\ failRun' = 0
    /\ UNCHANGED <<envVars, cells, main, gate, told, fails, rptVars>>

ProbeOk ==
    /\ backend = "up"
    /\ Mon("probe", "answered")
    /\ fails' = 0
    /\ failRun' = 0
    /\ UNCHANGED <<envVars, cells, main, gate, told, rptVars>>

SetReady ==
    /\ Mon("answered", IF state # "ready" THEN "notifyReady" ELSE AfterReady)
    /\ state' = "ready"
    /\ UNCHANGED <<envVars, health, info, notify, main, gate, told, fails,
                   failRun, rptVars>>

\* api.reportHealth returns, on a client without a timeout.
ReportUp ==
    /\ ~apiHung
    /\ Mon("reportUp", "openGate")
    /\ told' = TRUE
    /\ UNCHANGED <<envVars, cells, main, gate, fails, failRun, rptVars>>

\* Faulty variant: the recovery never calls gate.markHealthy.
OpenGate_Forgotten ==
    /\ Mon("openGate", "healthUp")
    /\ UNCHANGED <<envVars, cells, main, gate, told, fails, failRun, rptVars>>

OpenGate ==
    /\ Mon("openGate", "healthUp")
    /\ gate' = TRUE
    /\ UNCHANGED <<envVars, cells, main, told, fails, failRun, rptVars>>

HealthUp ==
    /\ Mon("healthUp", "sleep")
    /\ health' = TRUE
    /\ UNCHANGED <<envVars, state, info, notify, main, gate, told, fails,
                   failRun, rptVars>>

\* Does a failed probe open an outage?  Faulty variants: one probe late, and
\* without the test that no outage is open already.
OpensOutage_Late(n) == gate /\ n > Threshold
OpensOutage_Again(n) == n >= Threshold
OpensOutage(n) == gate /\ n >= Threshold

\* fails stops at Threshold + 1, above which the code tells no values apart.
ProbeFails ==
    LET n == fails + 1 IN
    /\ backend = "down"
    /\ Mon("probe", IF OpensOutage(n) THEN "reportDown" ELSE "watchdog")
    /\ fails' = IF fails > Threshold THEN fails ELSE n
    /\ failRun' = IF failRun < Threshold THEN failRun + 1 ELSE failRun
    /\ UNCHANGED <<envVars, cells, main, gate, told, rptVars>>

ReportDown ==
    /\ ~apiHung
    /\ Mon("reportDown", "closeGate")
    /\ told' = FALSE
    /\ UNCHANGED <<envVars, cells, main, gate, fails, failRun, rptVars>>

CloseGate ==
    /\ Mon("closeGate", "healthDown")
    /\ gate' = FALSE
    /\ UNCHANGED <<envVars, cells, main, told, fails, failRun, rptVars>>

\* Faulty variant: sharedHealth is left as it was.
HealthDown_Forgotten ==
    /\ Mon("healthDown", "stateDown")
    /\ UNCHANGED <<envVars, cells, main, gate, told, fails, failRun, rptVars>>

HealthDown ==
    /\ Mon("healthDown", "stateDown")
    /\ health' = FALSE
    /\ UNCHANGED <<envVars, state, info, notify, main, gate, told, fails,
                   failRun, rptVars>>

\* Faulty variant: a state that this process never reports.
StateDown_Crashed ==
    /\ Mon("stateDown", "notifyDown")
    /\ state' = "crashed"
    /\ UNCHANGED <<envVars, health, info, notify, main, gate, told, fails,
                   failRun, rptVars>>

StateDown ==
    /\ Mon("stateDown", "notifyDown")
    /\ state' = "unhealthy"
    /\ UNCHANGED <<envVars, health, info, notify, main, gate, told, fails,
                   failRun, rptVars>>

\* vllm.kill, under -deploy-vllm, on exactly the Threshold-th failure.
Watchdog ==
    /\ IF deploy /\ fails = Threshold
         THEN Mon("watchdog", "stateRestart") /\ fails' = 0
         ELSE Mon("watchdog", "sleep") /\ UNCHANGED fails
    /\ UNCHANGED <<envVars, cells, main, gate, told, failRun, rptVars>>

StateRestart ==
    /\ Mon("stateRestart", "notifyRestart")
    /\ state' = "restarting"
    /\ UNCHANGED <<envVars, health, info, notify, main, gate, told, fails,
                   failRun, rptVars>>

\* notifyBackendState: fill the slot, or find it full and leave it so.
\* Faulty variant: the signal is dropped.
MonNotify_Dropped ==
    /\ \/ Mon("notifyReady", AfterReady)
       \/ Mon("notifyDown", "watchdog")
       \/ Mon("notifyRestart", "grace")
    /\ UNCHANGED <<envVars, cells, main, gate, told, fails, failRun, rptVars>>

MonNotify ==
    /\ \/ Mon("notifyReady", AfterReady)
       \/ Mon("notifyDown", "watchdog")
       \/ Mon("notifyRestart", "grace")
    /\ notify' = TRUE
    /\ UNCHANGED <<envVars, state, health, info, main, gate, told, fails,
                   failRun, rptVars>>

-----------------------------------------------------------------------------
(* The reporter *)

Rpt(from, to) == ~Exited /\ rpt = from /\ rpt' = to

ReadInfo ==
    /\ Rpt("info", "state")
    /\ repInfo' = info
    /\ UNCHANGED <<repState, repHealthy, envVars, cells, main, monVars>>

ReadState ==
    /\ Rpt("state", "health")
    /\ repState' = state
    /\ UNCHANGED <<repInfo, repHealthy, envVars, cells, main, monVars>>

ReadHealth ==
    /\ Rpt("health", "post")
    /\ repHealthy' = health
    /\ UNCHANGED <<repInfo, repState, envVars, cells, main, monVars>>

\* api.reportStatus returns; an error is logged and dropped.
Post ==
    /\ ~apiHung
    /\ Rpt("post", "select")
    /\ UNCHANGED <<envVars, cells, report, main, monVars>>

Notified ==
    /\ Rpt("select", "info")
    /\ notify
    /\ notify' = FALSE
    /\ UNCHANGED <<envVars, state, health, info, report, main, monVars>>

Heartbeat ==
    /\ Rpt("select", "info")
    /\ UNCHANGED <<envVars, cells, report, main, monVars>>

-----------------------------------------------------------------------------
BackendChanges ==
    /\ backend' \in {"up", "down", "hung"} \ {backend}
    /\ UNCHANGED <<deploy, apiHung, cells, main, monVars, rptVars>>

ApiChanges ==
    /\ apiHung' = ~apiHung
    /\ UNCHANGED <<deploy, backend, cells, main, monVars, rptVars>>

Init ==
    /\ deploy \in BOOLEAN
    /\ backend \in {"up", "down"}
    /\ apiHung = FALSE
    /\ state = "starting"
    /\ health = TRUE
    /\ info = FALSE
    /\ notify = FALSE
    /\ gate = TRUE
    /\ told = TRUE
    /\ main = 1
    /\ mon = "off"
    /\ fails = 0
    /\ failRun = 0
    /\ repInfo = FALSE
    /\ repState = "starting"
    /\ repHealthy = TRUE
    /\ rpt = "info"

MainStep ==
    MainWork \/ MainFatal \/ MainSet \/ MainSetInfo \/ MainNotify
    \/ MainStartsMonitor

MonitorStep ==
    \/ Wait \/ ProbeOk \/ SetReady \/ ReportUp \/ OpenGate \/ HealthUp
    \/ ProbeFails \/ ReportDown \/ CloseGate \/ HealthDown \/ StateDown
    \/ Watchdog \/ StateRestart \/ MonNotify

ReporterStep ==
    ReadInfo \/ ReadState \/ ReadHealth \/ Post \/ Notified \/ Heartbeat

Next == MainStep \/ MonitorStep \/ ReporterStep \/ BackendChanges \/ ApiChanges

Spec == Init /\ [][Next]_vars

(***************************************************************************)
(* The monitor keeps running as long as what it waits for answers: a hung  *)
(* management API or backend does not, since no action ends the call.      *)
(***************************************************************************)
FairSpec == Spec /\ WF_vars(MonitorStep)

-----------------------------------------------------------------------------
MonPCs == {"off", "sleep", "grace", "probe", "answered", "notifyReady",
           "reportUp", "openGate", "healthUp", "reportDown", "closeGate",
           "healthDown", "stateDown", "notifyDown", "watchdog",
           "stateRestart", "notifyRestart"}

\* Every variable has its type.
TypeOK ==
    /\ deploy \in BOOLEAN
    /\ backend \in {"up", "down", "hung"}
    /\ apiHung \in BOOLEAN
    /\ state \in States
    /\ health \in BOOLEAN
    /\ info \in BOOLEAN
    /\ notify \in BOOLEAN
    /\ gate \in BOOLEAN
    /\ told \in BOOLEAN
    /\ main \in 0..Len(Script) + 1
    /\ mon \in MonPCs
    /\ fails \in 0..Threshold + 1
    /\ failRun \in 0..Threshold
    /\ repInfo \in BOOLEAN
    /\ repState \in States
    /\ repHealthy \in BOOLEAN
    /\ rpt \in {"info", "state", "health", "post", "select"}

SetterWillNotify ==
    AtMain("notify") \/ mon \in {"notifyReady", "notifyDown", "notifyRestart"}

\* Coalescing loses no final state: while the last report differs from the
\* current state or model info, a report of it is on its way, because the slot
\* is full, a setter is about to fill it, or the reporter has still to read.
NoStaleReport ==
    ~Exited =>
        /\ repState # state =>
              notify \/ SetterWillNotify \/ rpt \in {"info", "state"}
        /\ repInfo # info => notify \/ SetterWillNotify \/ rpt = "info"

\* Between two probes the signals of one outage agree: the gate, the shared
\* health, the last reportHealth call and the reported state.
SignalsAgree ==
    mon \in {"sleep", "probe", "grace"} =>
        /\ health = gate
        /\ told = gate
        /\ state \in IF gate THEN {"starting", "ready"}
                     ELSE IF deploy THEN {"restarting"} ELSE {"unhealthy"}

Switch == INSTANCE DebouncedSwitch WITH on <- gate, run <- failRun

\* The gate is a debounced switch: it closes once Threshold probes in a row
\* have failed and opens at the first good one, in both cases before the next
\* probe, and it never moves otherwise.
GateIsDebounced == Switch!Spec

StateStepOK ==
    state' # state =>
        <<state, state'>> \in
            {<<"starting", "downloading_model">>,
             <<"downloading_model", "booting">>, <<"booting", "ready">>,
             <<"starting", "ready">>, <<"starting", "unhealthy">>,
             <<"ready", "unhealthy">>, <<"unhealthy", "restarting">>,
             <<"unhealthy", "ready">>, <<"restarting", "ready">>}

\* The lifecycle of the backend as a dashboard may see it.  An outage does not
\* begin again before the backend was ready, and nothing but a good probe ends
\* it.
StateOrder == [][StateStepOK]_vars

\* A backend that stays down has the router connections cut, unless the report
\* of it to the management API, sent first, is never answered.
OutageReachesGate ==
    (mon # "off" /\ backend = "down") ~> (backend # "down" \/ ~gate \/ apiHung)

\* A backend that stays up has the gate open, however its outages went, with
\* the same exception.
RecoveryReachesGate ==
    (mon # "off" /\ backend = "up") ~> (backend # "up" \/ gate \/ apiHung)

\* What vllm.go says of the monitor: it "recovers a hung-but-still-connected
\* backend", so that a backend that stays hung is flagged.
HungIsFlagged == (mon # "off") ~> (backend # "hung" \/ ~gate \/ apiHung)
=============================================================================
