------------------------ MODULE BackendStatus_proofs ------------------------
(***************************************************************************)
(* The safety properties of BackendStatus, for any threshold.              *)
(***************************************************************************)
EXTENDS BackendStatus, TLAPS

-----------------------------------------------------------------------------
(* The start-up script, read at an index. *)

\* The length of the script.
LEMMA ScriptLength ==
    ASSUME deploy \in BOOLEAN
    PROVE  Len(Script) = IF deploy THEN 13 ELSE 4
BY DEF Script, Announce, DeployFirst

\* Where the script sets the state, and to what.
LEMMA ScriptSets ==
    ASSUME deploy \in BOOLEAN, AtMain("state")
    PROVE  /\ deploy
           /\ main \in {2, 5, 8}
           /\ main = 2 => Script[main].to = "downloading_model"
           /\ main = 5 => Script[main].to = "booting"
           /\ main = 8 => Script[main].to = "ready"
BY ScriptLength DEF AtMain, Script, Announce, DeployFirst, Work, Set, SetInfo, Notify

\* These indices do nothing else.
LEMMA ScriptSetsHere ==
    ASSUME deploy, main \in {2, 5, 8}
    PROVE  Script[main].op = "state"
<1>1. Script = DeployFirst
  BY DEF Script
<1>2. /\ DeployFirst[2] = Set("downloading_model")
      /\ DeployFirst[5] = Set("booting")
      /\ DeployFirst[8] = Set("ready")
  BY DEF DeployFirst
<1>3. \A x \in States : Set(x).op = "state"
  BY DEF Set
<1>4. QED
  BY <1>1, <1>2, <1>3 DEF States

\* Every write to the state or the info is followed by its notification.
LEMMA ScriptNotifies ==
    ASSUME deploy \in BOOLEAN, AtMain("state") \/ AtMain("info")
    PROVE  /\ main + 1 \in 1..Len(Script)
           /\ Script[main + 1].op = "notify"
BY ScriptLength DEF AtMain, Script, Announce, DeployFirst, Work, Set, SetInfo, Notify

-----------------------------------------------------------------------------
\* The two halves of TypeOK: the Boolean cells, and the rest.
Booleans ==
    /\ deploy \in BOOLEAN
    /\ apiHung \in BOOLEAN
    /\ health \in BOOLEAN
    /\ info \in BOOLEAN
    /\ notify \in BOOLEAN
    /\ gate \in BOOLEAN
    /\ told \in BOOLEAN
    /\ repInfo \in BOOLEAN
    /\ repHealthy \in BOOLEAN

Others ==
    /\ backend \in {"up", "down", "hung"}
    /\ state \in States
    /\ main \in 0..Len(Script) + 1
    /\ mon \in MonPCs
    /\ fails \in 0..Threshold + 1
    /\ failRun \in 0..Threshold
    /\ repState \in States
    /\ rpt \in {"info", "state", "health", "post", "select"}

\* No step changes the flag, and so none changes the script.
LEMMA ScriptFixed ==
    [Next]_vars => deploy' = deploy /\ Script' = Script
BY DEF Next, MainStep, MonitorStep, ReporterStep, BackendChanges, ApiChanges, vars,
   envVars, MainWork, MainFatal, MainSet, MainSetInfo, MainNotify,
   MainStartsMonitor, Wait, ProbeOk, SetReady, ReportUp, OpenGate, HealthUp,
   ProbeFails, ReportDown, CloseGate, HealthDown, StateDown, Watchdog,
   StateRestart, MonNotify, ReadInfo, ReadState, ReadHealth, Post,
   Notified, Heartbeat, Script

\* Boolean cells stay Boolean.
LEMMA BooleansStep == Booleans /\ [Next]_vars => Booleans'
<1> SUFFICES ASSUME Booleans, [Next]_vars PROVE Booleans'
  OBVIOUS
<1> USE DEF Booleans, envVars, cells, monVars, report, rptVars
<1>1. CASE MainStep
  <2>1. CASE MainWork
    BY <2>1 DEF MainWork
  <2>2. CASE MainFatal
    BY <2>2 DEF MainFatal
  <2>3. CASE MainNotify
    BY <2>3 DEF MainNotify
  <2>4. CASE MainStartsMonitor
    BY <2>4 DEF MainStartsMonitor
  <2>5. CASE MainSet \/ MainSetInfo
    BY <2>5 DEF MainSet, MainSetInfo
  <2> QED
    BY <1>1, <2>1, <2>2, <2>3, <2>4, <2>5 DEF MainStep
<1>2. CASE Wait \/ ProbeOk \/ ProbeFails \/ Watchdog
  BY <1>2 DEF Wait, ProbeOk, ProbeFails, Watchdog
<1>3. CASE StateDown \/ StateRestart \/ SetReady
  BY <1>3 DEF StateDown, StateRestart, SetReady
<1>4. CASE ReportUp \/ ReportDown
  BY <1>4 DEF ReportUp, ReportDown
<1>5. CASE OpenGate \/ HealthUp \/ CloseGate \/ HealthDown \/ MonNotify
  <2>1. CASE OpenGate
    BY <2>1 DEF OpenGate
  <2>2. CASE HealthUp
    BY <2>2 DEF HealthUp
  <2>3. CASE CloseGate
    BY <2>3 DEF CloseGate
  <2>4. CASE HealthDown
    BY <2>4 DEF HealthDown
  <2>5. CASE MonNotify
    BY <2>5 DEF MonNotify
  <2> QED
    BY <1>5, <2>1, <2>2, <2>3, <2>4, <2>5
<1>6. CASE ReporterStep
  <2>1. CASE ReadInfo \/ ReadState \/ ReadHealth
    BY <2>1 DEF ReadInfo, ReadState, ReadHealth
  <2>2. CASE Post \/ Notified \/ Heartbeat
    BY <2>2 DEF Post, Notified, Heartbeat
  <2> QED
    BY <1>6, <2>1, <2>2 DEF ReporterStep
<1>7. CASE BackendChanges \/ ApiChanges
  BY <1>7 DEF BackendChanges, ApiChanges
<1>8. CASE UNCHANGED vars
  BY <1>8 DEF vars
<1>9. QED
  BY <1>1, <1>2, <1>3, <1>4, <1>5, <1>6, <1>7, <1>8 DEF Next, MonitorStep

\* The counters, program counters and states keep their types.
LEMMA OthersStep == deploy \in BOOLEAN /\ Others /\ [Next]_vars => Others'
<1> SUFFICES ASSUME deploy \in BOOLEAN, Others, [Next]_vars PROVE Others'
  OBVIOUS
<1> USE ThresholdAssumption
<1> USE DEF Others, States, MonPCs, envVars, cells, monVars, report, rptVars
<1>0. Len(Script)' = Len(Script) /\ Len(Script) \in {4, 13}
  BY ScriptFixed, ScriptLength
<1>1. CASE MainSet
  BY <1>0, <1>1, ScriptSets DEF MainSet, AtMain
<1>2. CASE MainStartsMonitor
  BY <1>0, <1>2 DEF MainStartsMonitor
<1>3. CASE MainWork \/ MainFatal \/ MainSetInfo \/ MainNotify
  BY <1>0, <1>3 DEF MainWork, MainFatal, MainSetInfo, MainNotify, AtMain
<1>4. CASE ProbeOk \/ ProbeFails \/ Watchdog
  BY <1>0, <1>4 DEF ProbeOk, ProbeFails, Watchdog, Mon
<1>5. CASE Wait \/ SetReady \/ MonNotify
  BY <1>0, <1>5 DEF Wait, SetReady, MonNotify, Mon, AfterReady
<1>6. CASE ReportUp \/ OpenGate \/ HealthUp \/ ReportDown \/ CloseGate
           \/ HealthDown \/ StateDown \/ StateRestart
  BY <1>0, <1>6 DEF ReportUp, OpenGate, HealthUp, ReportDown, CloseGate,
     HealthDown, StateDown, StateRestart, Mon
<1>7. CASE ReporterStep
  BY <1>0, <1>7 DEF ReporterStep, ReadInfo, ReadState, ReadHealth, Post,
     Notified, Heartbeat, Rpt
<1>8. CASE BackendChanges \/ ApiChanges
  BY <1>0, <1>8 DEF BackendChanges, ApiChanges
<1>9. CASE UNCHANGED vars
  BY <1>0, <1>9 DEF vars
<1>10. QED
  BY <1>1, <1>2, <1>3, <1>4, <1>5, <1>6, <1>7, <1>8, <1>9
     DEF Next, MainStep, MonitorStep

\* Every variable keeps its type.
THEOREM TypeCorrect == Spec => []TypeOK
<1>1. Init => Booleans
  BY DEF Init, Booleans
<1>2. Init => Others
  <2> SUFFICES ASSUME Init PROVE Others
    OBVIOUS
  <2>1. Len(Script) \in {4, 13}
    BY ScriptLength DEF Init
  <2>2. QED
    BY <2>1, ThresholdAssumption DEF Init, Others, States, MonPCs
<1>3. Booleans => deploy \in BOOLEAN
  BY DEF Booleans
<1>4. Booleans /\ Others => TypeOK
  BY DEF Booleans, Others, TypeOK
<1>5. QED
  BY <1>1, <1>2, <1>3, <1>4, BooleansStep, OthersStep, PTL DEF Spec

-----------------------------------------------------------------------------
\* The coalescing invariant is preserved by every step.
LEMMA NoStaleReportStep ==
    TypeOK /\ NoStaleReport /\ [Next]_vars => NoStaleReport'
<1> SUFFICES ASSUME TypeOK, NoStaleReport, [Next]_vars PROVE NoStaleReport'
  OBVIOUS
<1> USE DEF NoStaleReport, SetterWillNotify, Exited, envVars, cells, monVars,
        report, rptVars
<1>0. deploy \in BOOLEAN /\ Script' = Script
  BY ScriptFixed DEF TypeOK
<1>a. ASSUME main' = main PROVE AtMain("notify")' = AtMain("notify")
  BY <1>0, <1>a DEF AtMain
<1>b. ASSUME main' = main + 1, Script[main + 1].op = "notify",
             main + 1 \in 1..Len(Script)
      PROVE  AtMain("notify")'
  BY <1>0, <1>b DEF AtMain
\* The setters write a cell and are then about to notify.
<1>1. CASE MainSet
  BY <1>0, <1>1, <1>b, ScriptNotifies DEF MainSet
<1>2. CASE MainSetInfo
  BY <1>0, <1>2, <1>b, ScriptNotifies DEF MainSetInfo
<1>3. CASE SetReady \/ StateDown \/ StateRestart
  BY <1>3, <1>a DEF SetReady, StateDown, StateRestart, Mon, AfterReady
\* The notifications fill the slot.
<1>4. CASE MainNotify \/ MonNotify
  BY <1>4 DEF MainNotify, MonNotify
\* The reporter empties the slot and has then everything to read again.
<1>5. CASE Notified \/ Heartbeat
  BY <1>5 DEF Notified, Heartbeat, Rpt
<1>6. CASE ReadInfo \/ ReadState
  BY <1>6, <1>a DEF ReadInfo, ReadState, Rpt
<1>7. CASE ReadHealth \/ Post
  BY <1>7, <1>a DEF ReadHealth, Post, Rpt
\* Nothing else touches the cells, the slot or the report.
<1>8. CASE MainWork \/ MainFatal
  BY <1>8 DEF MainWork, MainFatal, AtMain
<1>9. CASE MainStartsMonitor \/ BackendChanges \/ ApiChanges
  BY <1>9, <1>a DEF MainStartsMonitor, BackendChanges, ApiChanges
<1>10. CASE Wait \/ ProbeOk \/ ProbeFails \/ Watchdog
  BY <1>10, <1>a DEF Wait, ProbeOk, ProbeFails, Watchdog, Mon
<1>11. CASE ReportUp \/ OpenGate \/ HealthUp \/ ReportDown \/ CloseGate
            \/ HealthDown
  BY <1>11, <1>a DEF ReportUp, OpenGate, HealthUp, ReportDown, CloseGate,
     HealthDown, Mon
<1>12. CASE UNCHANGED vars
  BY <1>12, <1>a DEF vars
<1>13. QED
  BY <1>1, <1>2, <1>3, <1>4, <1>5, <1>6, <1>7, <1>8, <1>9, <1>10, <1>11,
     <1>12 DEF Next, MainStep, MonitorStep, ReporterStep

\* Coalescing the notifications loses no final state and no final model info:
\* whenever the last report is out of date, another is on its way.
THEOREM CoalescingCorrect == Spec => []NoStaleReport
<1>1. Init => NoStaleReport
  BY DEF Init, NoStaleReport
<1>2. QED
  BY <1>1, NoStaleReportStep, TypeCorrect, PTL DEF Spec

-----------------------------------------------------------------------------
(* The signals of an outage.  SignalsAgree, GateIsDebounced and            *)
(* StateOrder follow from what the cells, the counters and the state are   *)
(* at each point of the monitor.                                           *)

\* What the signals are at each point of the monitor.
SignalInv ==
    /\ mon \in {"off", "sleep", "grace", "probe", "answered", "notifyReady",
                "watchdog", "stateRestart", "notifyRestart"} =>
          health = gate /\ told = gate
    /\ mon = "off" => gate
    /\ mon \in {"reportUp", "openGate"} => ~gate /\ ~health
    /\ mon = "openGate" => told
    /\ mon = "healthUp" => gate /\ told
    /\ mon = "reportDown" => gate /\ health
    /\ mon = "closeGate" => gate /\ ~told
    /\ mon = "healthDown" => ~gate /\ ~told
    /\ mon \in {"stateDown", "notifyDown"} => ~gate /\ ~health /\ ~told
    /\ mon \in {"stateRestart", "notifyRestart", "grace"} => ~gate

\* How the count of failures follows the probes.
CountInv ==
    /\ fails <= Threshold => fails <= failRun
    /\ fails > Threshold => failRun = Threshold /\ ~deploy
    /\ mon \in {"answered", "notifyReady", "reportUp", "openGate", "healthUp"} =>
          failRun = 0
    /\ mon \in {"reportDown", "closeGate", "healthDown", "stateDown",
                "notifyDown"} => fails = Threshold
    /\ mon \in {"off", "sleep", "grace", "probe", "answered", "notifyReady",
                "watchdog", "healthUp"} /\ (gate \/ (deploy /\ mon # "watchdog")) =>
          fails < Threshold
    /\ mon \in {"stateRestart", "notifyRestart"} => deploy /\ fails = 0
    /\ mon = "off" => fails = 0

\* Which states the monitor can meet where.
StateInv ==
    /\ mon \notin {"off", "notifyReady", "reportUp", "openGate", "healthUp"} /\ gate =>
          state \in {"starting", "ready"}
    /\ mon \in {"notifyReady", "reportUp", "openGate", "healthUp"} => state = "ready"
    /\ mon = "healthDown" \/ mon = "stateDown" => state \in {"starting", "ready"}
    /\ mon = "notifyDown" => state = "unhealthy"
    /\ mon \in {"sleep", "probe", "answered", "watchdog"} /\ ~gate =>
          IF ~deploy THEN state = "unhealthy"
          ELSE \/ state = "restarting"
               \/ state = "unhealthy" /\ mon = "watchdog" /\ fails = Threshold
    /\ mon = "stateRestart" => state \in {"unhealthy", "restarting"}
    /\ mon \in {"notifyRestart", "grace"} => state = "restarting" /\ deploy
    /\ mon # "off" => main = Len(Script) + 1
    /\ mon = "off" /\ ~Exited =>
          state = IF ~deploy \/ main <= 2 THEN "starting"
                  ELSE IF main <= 5 THEN "downloading_model"
                  ELSE IF main <= 8 THEN "booting" ELSE "ready"

\* The signals follow the monitor.
LEMMA SignalStep ==
    TypeOK /\ SignalInv /\ CountInv /\ [Next]_vars => SignalInv'
<1> SUFFICES ASSUME TypeOK, SignalInv, CountInv, [Next]_vars PROVE SignalInv'
  OBVIOUS
<1> USE ThresholdAssumption
<1> USE DEF SignalInv, envVars, cells, monVars, report, rptVars
<1>1. CASE MainStartsMonitor
  BY <1>1 DEF MainStartsMonitor
<1>2. CASE Wait
  BY <1>2 DEF Wait, Mon
<1>3. CASE ProbeOk
  BY <1>3 DEF ProbeOk, Mon
<1>4. CASE ProbeFails
  BY <1>4 DEF ProbeFails, Mon, OpensOutage
<1>5. CASE SetReady
  BY <1>5 DEF SetReady, Mon, AfterReady, TypeOK
<1>6. CASE ReportUp
  BY <1>6 DEF ReportUp, Mon
<1>7. CASE OpenGate
  BY <1>7 DEF OpenGate, Mon
<1>8. CASE HealthUp
  BY <1>8 DEF HealthUp, Mon
<1>9. CASE ReportDown
  BY <1>9 DEF ReportDown, Mon
<1>10. CASE CloseGate
  BY <1>10 DEF CloseGate, Mon
<1>11. CASE HealthDown
  BY <1>11 DEF HealthDown, Mon
<1>12. CASE StateDown
  BY <1>12 DEF StateDown, Mon
<1>13. CASE Watchdog
  BY <1>13 DEF Watchdog, Mon, CountInv, TypeOK
<1>14. CASE StateRestart
  BY <1>14 DEF StateRestart, Mon
<1>15. CASE MonNotify
  BY <1>15 DEF MonNotify, Mon, AfterReady, TypeOK
<1>16. CASE MainWork \/ MainFatal \/ MainSet \/ MainSetInfo \/ MainNotify
  BY <1>16 DEF MainWork, MainFatal, MainSet, MainSetInfo, MainNotify
<1>17. CASE ReporterStep
  BY <1>17 DEF ReporterStep, ReadInfo, ReadState, ReadHealth, Post, Notified,
     Heartbeat
<1>18. CASE BackendChanges \/ ApiChanges \/ UNCHANGED vars
  BY <1>18 DEF BackendChanges, ApiChanges, vars
<1>19. QED
  BY <1>1, <1>2, <1>3, <1>4, <1>5, <1>6, <1>7, <1>8, <1>9, <1>10, <1>11,
     <1>12, <1>13, <1>14, <1>15, <1>16, <1>17, <1>18
     DEF Next, MainStep, MonitorStep

\* The count follows the probes.
LEMMA CountStep ==
    TypeOK /\ SignalInv /\ CountInv /\ [Next]_vars => CountInv'
<1> SUFFICES ASSUME TypeOK, SignalInv, CountInv, [Next]_vars PROVE CountInv'
  OBVIOUS
<1> USE ThresholdAssumption
<1> USE DEF TypeOK, SignalInv, CountInv, envVars, cells, monVars, report, rptVars
<1>1. CASE MainStartsMonitor
  BY <1>1 DEF MainStartsMonitor
<1>2. CASE Wait
  BY <1>2 DEF Wait, Mon
<1>3. CASE ProbeOk
  BY <1>3 DEF ProbeOk, Mon
<1>4. CASE ProbeFails
  BY <1>4 DEF ProbeFails, Mon, OpensOutage
<1>5. CASE SetReady
  BY <1>5 DEF SetReady, Mon, AfterReady
<1>6. CASE ReportUp
  BY <1>6 DEF ReportUp, Mon
<1>7. CASE OpenGate
  BY <1>7 DEF OpenGate, Mon
<1>8. CASE HealthUp
  BY <1>8 DEF HealthUp, Mon
<1>9. CASE ReportDown
  BY <1>9 DEF ReportDown, Mon
<1>10. CASE CloseGate
  BY <1>10 DEF CloseGate, Mon
<1>11. CASE HealthDown
  BY <1>11 DEF HealthDown, Mon
<1>12. CASE StateDown
  BY <1>12 DEF StateDown, Mon
<1>13. CASE Watchdog
  BY <1>13 DEF Watchdog, Mon
<1>14. CASE StateRestart
  BY <1>14 DEF StateRestart, Mon
<1>15. CASE MonNotify
  BY <1>15 DEF MonNotify, Mon, AfterReady
<1>16. CASE MainWork \/ MainFatal \/ MainSet \/ MainSetInfo \/ MainNotify
  BY <1>16 DEF MainWork, MainFatal, MainSet, MainSetInfo, MainNotify
<1>17. CASE ReporterStep
  BY <1>17 DEF ReporterStep, ReadInfo, ReadState, ReadHealth, Post, Notified,
     Heartbeat
<1>18. CASE BackendChanges \/ ApiChanges \/ UNCHANGED vars
  BY <1>18 DEF BackendChanges, ApiChanges, vars
<1>19. QED
  BY <1>1, <1>2, <1>3, <1>4, <1>5, <1>6, <1>7, <1>8, <1>9, <1>10, <1>11,
     <1>12, <1>13, <1>14, <1>15, <1>16, <1>17, <1>18
     DEF Next, MainStep, MonitorStep

\* The state follows the script of main, then the monitor.
LEMMA StateStep ==
    TypeOK /\ SignalInv /\ CountInv /\ StateInv /\ [Next]_vars => StateInv'
<1> SUFFICES ASSUME TypeOK, SignalInv, CountInv, StateInv, [Next]_vars PROVE StateInv'
  OBVIOUS
<1> USE ThresholdAssumption
<1> USE DEF StateInv, SignalInv, CountInv, Exited, MonPCs, TypeOK, States, envVars, cells, monVars, report, rptVars
<1>0. deploy \in BOOLEAN /\ Script' = Script /\ Len(Script) = IF deploy THEN 13 ELSE 4
  BY ScriptFixed, ScriptLength DEF TypeOK
<1>1. CASE MainStartsMonitor
  BY <1>1, <1>0 DEF MainStartsMonitor
<1>2. CASE Wait
  BY <1>2, <1>0 DEF Wait, Mon
<1>3. CASE ProbeOk
  BY <1>3, <1>0 DEF ProbeOk, Mon
<1>4. CASE ProbeFails
  BY <1>4, <1>0 DEF ProbeFails, Mon, OpensOutage
<1>5. CASE SetReady
  BY <1>5, <1>0 DEF SetReady, Mon, AfterReady
<1>6. CASE ReportUp
  BY <1>6, <1>0 DEF ReportUp, Mon
<1>7. CASE OpenGate
  BY <1>7, <1>0 DEF OpenGate, Mon
<1>8. CASE HealthUp
  BY <1>8, <1>0 DEF HealthUp, Mon
<1>9. CASE ReportDown
  BY <1>9, <1>0 DEF ReportDown, Mon
<1>10. CASE CloseGate
  BY <1>10, <1>0 DEF CloseGate, Mon
<1>11. CASE HealthDown
  BY <1>11, <1>0 DEF HealthDown, Mon
<1>12. CASE StateDown
  BY <1>12, <1>0 DEF StateDown, Mon
<1>13. CASE Watchdog
  BY <1>13, <1>0 DEF Watchdog, Mon
<1>14. CASE StateRestart
  BY <1>14, <1>0 DEF StateRestart, Mon
<1>15. CASE MonNotify
  BY <1>15, <1>0 DEF MonNotify, Mon, AfterReady
<1>16. CASE MainWork \/ MainFatal \/ MainSet \/ MainSetInfo \/ MainNotify
  <2>1. mon = "off"
    BY <1>16, <1>0 DEF MainWork, MainFatal, MainSet, MainSetInfo, MainNotify, AtMain
  <2>2. CASE MainSet
    BY <2>1, <2>2, <1>0, ScriptSets DEF MainSet
  <2>3. CASE MainFatal
    BY <2>1, <2>3, <1>0 DEF MainFatal
  <2>4. CASE MainWork \/ MainSetInfo \/ MainNotify
    <3>1. Script[main].op # "state"
      BY <2>4 DEF MainWork, MainSetInfo, MainNotify, AtMain
    <3>2. main \notin {2, 5, 8} \/ ~deploy
      BY <3>1, ScriptSetsHere
    <3>3. /\ main \in 1..Len(Script) /\ main' = main + 1
          /\ UNCHANGED <<deploy, monVars, state>>
      BY <2>4 DEF MainWork, MainSetInfo, MainNotify, AtMain
    <3>4. QED
      BY <2>1, <3>2, <3>3, <1>0
  <2>5. QED
    BY <1>16, <2>2, <2>3, <2>4
<1>17. CASE ReporterStep
  BY <1>17, <1>0 DEF ReporterStep, ReadInfo, ReadState, ReadHealth, Post, Notified,
     Heartbeat
<1>18. CASE BackendChanges \/ ApiChanges \/ UNCHANGED vars
  BY <1>18, <1>0 DEF BackendChanges, ApiChanges, vars
<1>19. QED
  BY <1>1, <1>2, <1>3, <1>4, <1>5, <1>6, <1>7, <1>8, <1>9, <1>10, <1>11,
     <1>12, <1>13, <1>14, <1>15, <1>16, <1>17, <1>18
     DEF Next, MainStep, MonitorStep

\* The three together hold in every reachable state.
LEMMA MonitorInvariant == Spec => [](SignalInv /\ CountInv /\ StateInv)
<1> USE ThresholdAssumption
<1>1. Init => SignalInv
  BY DEF Init, SignalInv
<1>2. Init => CountInv
  BY DEF Init, CountInv
<1>3. Init => StateInv
  BY DEF Init, StateInv, Exited
<1>4. QED
  BY <1>1, <1>2, <1>3, SignalStep, CountStep, StateStep, TypeCorrect, PTL
     DEF Spec

\* Between two probes the gate, the shared health, the last reportHealth call
\* and the reported state tell the same story.
THEOREM SignalsCorrect == Spec => []SignalsAgree
<1>1. TypeOK /\ SignalInv /\ StateInv => SignalsAgree
  BY DEF TypeOK, SignalInv, StateInv, SignalsAgree
<1>2. QED
  BY <1>1, MonitorInvariant, TypeCorrect, PTL

-----------------------------------------------------------------------------
(* The refinement of DebouncedSwitch. *)

\* The run of failed probes is the monitor's own count as long as the gate is
\* open, and complete as long as it is closed and no good probe has come.
RunInv ==
    /\ gate => failRun = fails
    /\ ~gate /\ mon \notin {"answered", "notifyReady", "reportUp", "openGate"} =>
          failRun = Threshold

\* The run follows the count.
LEMMA RunStep ==
    TypeOK /\ SignalInv /\ CountInv /\ RunInv /\ [Next]_vars => RunInv'
<1> SUFFICES ASSUME TypeOK, SignalInv, CountInv, RunInv, [Next]_vars PROVE RunInv'
  OBVIOUS
<1> USE ThresholdAssumption
<1> USE DEF TypeOK, SignalInv, CountInv, RunInv, envVars, cells, monVars, report, rptVars
<1>1. CASE MainStartsMonitor \/ Wait
  BY <1>1 DEF MainStartsMonitor, Wait, Mon
<1>2. CASE ProbeOk
  BY <1>2 DEF ProbeOk, Mon
<1>3. CASE ProbeFails
  BY <1>3 DEF ProbeFails, Mon, OpensOutage
<1>4. CASE Watchdog
  BY <1>4 DEF Watchdog, Mon
<1>5. CASE SetReady \/ MonNotify
  BY <1>5 DEF SetReady, MonNotify, Mon, AfterReady
<1>6. CASE ReportUp \/ OpenGate \/ HealthUp
  BY <1>6 DEF ReportUp, OpenGate, HealthUp, Mon
<1>7. CASE ReportDown \/ CloseGate
  BY <1>7 DEF ReportDown, CloseGate, Mon
<1>8. CASE HealthDown \/ StateDown \/ StateRestart
  BY <1>8 DEF HealthDown, StateDown, StateRestart, Mon
<1>9. CASE MainWork \/ MainFatal \/ MainSet \/ MainSetInfo \/ MainNotify
  BY <1>9 DEF MainWork, MainFatal, MainSet, MainSetInfo, MainNotify
<1>10. CASE ReporterStep
  BY <1>10 DEF ReporterStep, ReadInfo, ReadState, ReadHealth, Post, Notified,
     Heartbeat
<1>11. CASE BackendChanges \/ ApiChanges \/ UNCHANGED vars
  BY <1>11 DEF BackendChanges, ApiChanges, vars
<1>12. QED
  BY <1>1, <1>2, <1>3, <1>4, <1>5, <1>6, <1>7, <1>8, <1>9, <1>10, <1>11
     DEF Next, MainStep, MonitorStep

\* Every step is a probe or a move of the switch, or leaves it alone.
LEMMA SwitchStep ==
    TypeOK /\ SignalInv /\ CountInv /\ RunInv /\ [Next]_vars =>
        [Switch!Probe \/ Switch!Move]_<<gate, failRun>>
<1> SUFFICES ASSUME TypeOK, SignalInv, CountInv, RunInv, [Next]_vars
             PROVE  Switch!Probe \/ Switch!Move \/ UNCHANGED <<gate, failRun>>
  OBVIOUS
<1> USE ThresholdAssumption
<1> USE DEF TypeOK, envVars, cells, monVars, report, rptVars
<1>1. CASE ProbeOk \/ ProbeFails
  <2>1. mon = "probe" /\ failRun' \in {0, IF failRun < Threshold THEN failRun + 1 ELSE failRun}
    BY <1>1 DEF ProbeOk, ProbeFails, Mon
  <2>2. IF gate THEN failRun < Threshold ELSE failRun > 0
    BY <2>1 DEF RunInv, CountInv
  <2>3. UNCHANGED gate
    BY <1>1 DEF ProbeOk, ProbeFails
  <2>4. QED
    BY <2>1, <2>2, <2>3 DEF Switch!Probe, Switch!Settled
<1>2. CASE CloseGate
  <2>1. gate /\ failRun = Threshold /\ UNCHANGED failRun
    BY <1>2 DEF CloseGate, Mon, SignalInv, CountInv, RunInv
  <2>2. ~(IF gate THEN failRun < Threshold ELSE failRun > 0)
    BY <2>1
  <2>3. gate' = ~gate
    BY <2>1, <1>2, Zenon DEF CloseGate
  <2>4. QED
    BY <2>1, <2>2, <2>3, Zenon DEF Switch!Move, Switch!Settled
<1>3. CASE OpenGate
  <2>1. ~gate /\ failRun = 0 /\ UNCHANGED failRun
    BY <1>3 DEF OpenGate, Mon, SignalInv, CountInv
  <2>2. ~(IF gate THEN failRun < Threshold ELSE failRun > 0)
    BY <2>1
  <2>3. gate' = ~gate
    BY <2>1, <1>3, Zenon DEF OpenGate
  <2>4. QED
    BY <2>1, <2>2, <2>3, Zenon DEF Switch!Move, Switch!Settled
<1>4. CASE MainStep
  BY <1>4 DEF MainStep, MainWork, MainFatal, MainSet, MainSetInfo,
     MainNotify, MainStartsMonitor
<1>5. CASE Wait \/ SetReady \/ ReportUp \/ HealthUp \/ ReportDown
           \/ HealthDown \/ StateDown \/ Watchdog \/ StateRestart \/ MonNotify
  BY <1>5 DEF Wait, SetReady, ReportUp, HealthUp, ReportDown, HealthDown,
     StateDown, Watchdog, StateRestart, MonNotify
<1>6. CASE ReporterStep
  BY <1>6 DEF ReporterStep, ReadInfo, ReadState, ReadHealth, Post, Notified,
     Heartbeat
<1>7. CASE BackendChanges \/ ApiChanges \/ UNCHANGED vars
  BY <1>7 DEF BackendChanges, ApiChanges, vars
<1>8. QED
  BY <1>1, <1>2, <1>3, <1>4, <1>5, <1>6, <1>7 DEF Next, MonitorStep

\* The monitor implements the debounced switch, for any threshold: router
\* connections are cut after exactly Threshold failed probes in a row and let
\* back after exactly one good one.
THEOREM DebounceCorrect == Spec => GateIsDebounced
<1>1. Init => RunInv /\ Switch!Init
  BY ThresholdAssumption DEF Init, RunInv, Switch!Init
<1>2. QED
  BY <1>1, RunStep, SwitchStep, MonitorInvariant, TypeCorrect, PTL
     DEF Spec, GateIsDebounced, Switch!Spec

\* The reported state only moves along the lifecycle.
THEOREM LifecycleCorrect == Spec => StateOrder
<1>1. TypeOK /\ SignalInv /\ CountInv /\ StateInv /\ [Next]_vars => [StateStepOK]_vars
  <2> SUFFICES ASSUME TypeOK, SignalInv, CountInv, StateInv, Next
               PROVE  StateStepOK
    BY DEF StateStepOK, vars
  <2> USE DEF StateStepOK, envVars, cells, monVars, report, rptVars
  <2>1. CASE MainSet
    <3>1. deploy \in BOOLEAN /\ mon = "off" /\ ~Exited
      BY <2>1, ScriptLength DEF MainSet, AtMain, StateInv, TypeOK, Exited
    <3>2. QED
      BY <2>1, <3>1, ScriptSets DEF MainSet, StateInv
  <2>2. CASE SetReady
    BY <2>2 DEF SetReady, Mon, StateInv, TypeOK, States
  <2>3. CASE StateDown
    BY <2>3 DEF StateDown, Mon, StateInv
  <2>4. CASE StateRestart
    BY <2>4 DEF StateRestart, Mon, StateInv
  <2>5. CASE MainWork \/ MainFatal \/ MainSetInfo \/ MainNotify
             \/ MainStartsMonitor
    BY <2>5 DEF MainWork, MainFatal, MainSetInfo, MainNotify, MainStartsMonitor
  <2>6. CASE Wait \/ ProbeOk \/ ProbeFails \/ ReportUp \/ OpenGate \/ HealthUp
             \/ ReportDown \/ CloseGate \/ HealthDown \/ Watchdog \/ MonNotify
    BY <2>6 DEF Wait, ProbeOk, ProbeFails, ReportUp, OpenGate, HealthUp,
       ReportDown, CloseGate, HealthDown, Watchdog, MonNotify
  <2>7. CASE ReporterStep
    BY <2>7 DEF ReporterStep, ReadInfo, ReadState, ReadHealth, Post, Notified,
       Heartbeat
  <2>8. CASE BackendChanges \/ ApiChanges
    BY <2>8 DEF BackendChanges, ApiChanges
  <2>9. QED
    BY <2>1, <2>2, <2>3, <2>4, <2>5, <2>6, <2>7, <2>8
       DEF Next, MainStep, MonitorStep
<1>2. QED
  BY <1>1, MonitorInvariant, TypeCorrect, PTL DEF Spec, StateOrder
=============================================================================
