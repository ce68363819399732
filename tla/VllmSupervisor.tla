--------------------------- MODULE VllmSupervisor ---------------------------
(***************************************************************************)
(* The child process of -deploy-vllm: vllmSupervisor (vllm.go), which      *)
(* starts vllm serve again whenever it exits, and the watchdog of          *)
(* monitorBackendHealth (backend.go), which kills it when it does not      *)
(* answer.                                                                 *)
(*                                                                         *)
(* Time is discrete.  Tick lets one unit pass for every sleep and for the  *)
(* boot of the child, and waits for the steps that take no time.  With a   *)
(* unit of ten seconds the code's values are Check = 2, Grace = 18,        *)
(* Backoff = 1.                                                            *)
(***************************************************************************)
EXTENDS Naturals

CONSTANTS
    Check,          \* checkInterval
    Threshold,      \* consecutiveFailThreshold
    Grace,          \* bootGrace
    Backoff,        \* the pause of run before it starts the child again
    BootTimes,      \* how long the child may take to listen on its port
    MaxStartFails,  \* bound: failures of cmd.Start in a row
    Wrap            \* bound: the counters of launches are kept modulo Wrap

ASSUME TimesAssumption ==
    /\ Check \in Nat \ {0} /\ Threshold \in Nat \ {0} /\ Grace \in Nat
    /\ Backoff \in Nat /\ BootTimes \subseteq Nat /\ BootTimes # {}
    /\ MaxStartFails \in Nat /\ Wrap \in Nat \ {0}

VARIABLES
    sup,            \* where run is: assign, start, record, wait, exited,
                    \* backoff
    supWait,        \* what is left of its pause
    cmd,            \* is vllmSupervisor.cmd set?
    process,        \* is the Process of that cmd set?
    flag,           \* killedByWatchdog
    firstLaunch,    \* the local variable of run
    restartCount,   \* vllmSupervisor.restartCount
    reason,         \* lastExitReason, none before the first exit
    child,          \* the process: none, booting, up, deaf (alive, but its port
                    \* refuses connections), dead (not yet waited for)
    boot,           \* what is left of its boot
    startFails,     \* failures of cmd.Start since the last success
    mon,            \* where main and then the monitor are: off (in
                    \* waitVLLMReady), announce (authentication, registration),
                    \* fatal (either has failed), sleep, grace, probe, and
                    \* inside kill: kill, check, signal
    monWait,        \* what is left of its sleep
    fails,          \* consecutiveFails
    target,         \* the cmd that kill has read: none, current, stale
    starts,         \* history: successful starts
    aimed,          \* history: was kill called on the present child?
    lastAimed       \* history: and on the one that exited last?

supVars == <<sup, supWait, cmd, process, flag, firstLaunch, restartCount,
             reason>>
childVars == <<child, boot, startFails>>
monVars == <<mon, monWait, fails, target>>
history == <<starts, aimed, lastAimed>>
vars == <<sup, supWait, cmd, process, flag, firstLaunch, restartCount, reason,
          child, boot, startFails, mon, monWait, fails, target, starts, aimed,
          lastAimed>>

Alive == {"booting", "up", "deaf"}
Inc(n) == (n + 1) % Wrap
Dec(n) == IF n > 0 THEN n - 1 ELSE 0

Init ==
    /\ sup = "assign" /\ supWait = 0
    /\ cmd = FALSE /\ process = FALSE /\ flag = FALSE
    /\ firstLaunch = TRUE /\ restartCount = 0 /\ reason = "none"
    /\ child = "none" /\ boot = 0 /\ startFails = 0
    /\ mon = "off" /\ monWait = 0 /\ fails = 0 /\ target = "none"
    /\ starts = 0 /\ aimed = FALSE /\ lastAimed = FALSE

-----------------------------------------------------------------------------
(* vllmSupervisor.run *)

Ended == mon = "fatal"    \* log.Fatal: the agent is gone, its child is not

Sup(from, to) == ~Ended /\ sup = from /\ sup' = to

\* Faulty variant: the flag of the last child is left standing.
Assign_KeepFlag ==
    /\ Sup("assign", "start")
    /\ cmd' = TRUE
    /\ process' = FALSE
    /\ aimed' = FALSE
    /\ target' = IF target = "current" THEN "stale" ELSE target
    /\ UNCHANGED <<supWait, flag, firstLaunch, restartCount, reason, childVars,
                   mon, monWait, fails, starts, lastAimed>>

\* A fresh cmd under mu, not yet started.
Assign ==
    /\ Sup("assign", "start")
    /\ cmd' = TRUE
    /\ process' = FALSE
    /\ flag' = FALSE
    /\ aimed' = FALSE
    /\ target' = IF target = "current" THEN "stale" ELSE target
    /\ UNCHANGED <<supWait, firstLaunch, restartCount, reason, childVars, mon,
                   monWait, fails, starts, lastAimed>>

StartOk ==
    /\ Sup("start", "record")
    /\ process' = TRUE
    /\ child' = "booting"
    /\ boot' \in BootTimes
    /\ startFails' = 0
    /\ starts' = Inc(starts)
    /\ UNCHANGED <<supWait, cmd, flag, firstLaunch, restartCount, reason,
                   monVars, aimed, lastAimed>>

\* Faulty variant: a failed start counts as the first launch.
StartFails_Counted ==
    /\ startFails < MaxStartFails
    /\ Sup("start", "backoff")
    /\ cmd' = FALSE
    /\ supWait' = Backoff
    /\ startFails' = startFails + 1
    /\ firstLaunch' = FALSE
    /\ UNCHANGED <<process, flag, restartCount, reason, child, boot, monVars,
                   history>>

StartFails ==
    /\ startFails < MaxStartFails
    /\ Sup("start", "backoff")
    /\ cmd' = FALSE
    /\ supWait' = Backoff
    /\ startFails' = startFails + 1
    /\ UNCHANGED <<process, flag, firstLaunch, restartCount, reason, child,
                   boot, monVars, history>>

Record ==
    /\ Sup("record", "wait")
    /\ restartCount' = IF firstLaunch THEN restartCount ELSE Inc(restartCount)
    /\ firstLaunch' = FALSE
    /\ UNCHANGED <<supWait, cmd, process, flag, reason, childVars, monVars,
                   history>>

WaitReturns ==
    /\ Sup("wait", "exited")
    /\ child = "dead"
    /\ child' = "none"
    /\ UNCHANGED <<supWait, cmd, process, flag, firstLaunch, restartCount,
                   reason, boot, startFails, monVars, history>>

\* Faulty variant: a kill passes for an orderly stop, after which run leaves
\* its loop.
RecordExit_Stop ==
    /\ Sup("exited", IF flag THEN "wait" ELSE "backoff")
    /\ cmd' = FALSE
    /\ reason' = IF flag THEN "watchdog" ELSE "crash"
    /\ lastAimed' = aimed
    /\ supWait' = Backoff
    /\ UNCHANGED <<process, flag, firstLaunch, restartCount, childVars, monVars,
                   starts, aimed>>

\* Faulty variant: the command of the child that is gone is left in place.
RecordExit_KeepCmd ==
    /\ Sup("exited", "backoff")
    /\ reason' = IF flag THEN "watchdog" ELSE "crash"
    /\ lastAimed' = aimed
    /\ supWait' = Backoff
    /\ UNCHANGED <<cmd, process, flag, firstLaunch, restartCount, childVars,
                   monVars, starts, aimed>>

RecordExit ==
    /\ Sup("exited", "backoff")
    /\ cmd' = FALSE
    /\ reason' = IF flag THEN "watchdog" ELSE "crash"
    /\ lastAimed' = aimed
    /\ supWait' = Backoff
    /\ UNCHANGED <<process, flag, firstLaunch, restartCount, childVars, monVars,
                   starts, aimed>>

BackoffOver ==
    /\ supWait = 0
    /\ Sup("backoff", "assign")
    /\ UNCHANGED <<supWait, cmd, process, flag, firstLaunch, restartCount,
                   reason, childVars, monVars, history>>

-----------------------------------------------------------------------------
(* The child *)

Becomes(to) ==
    /\ child' = to
    /\ UNCHANGED <<supVars, boot, startFails, monVars, history>>

Listens == child = "booting" /\ boot = 0 /\ Becomes("up")
GoesDeaf == child = "up" /\ Becomes("deaf")
Recovers == child = "deaf" /\ Becomes("up")
Exits == child \in Alive /\ Becomes("dead")

-----------------------------------------------------------------------------
(* monitorBackendHealth, as far as the watchdog goes *)

Mon(from, to, wait) == mon = from /\ mon' = to /\ monWait' = wait

\* waitVLLMReady returns; some time later main starts the monitor.
SeenReady ==
    /\ child = "up"
    /\ Mon("off", "announce", 0)
    /\ UNCHANGED <<supVars, childVars, fails, target, history>>

MonitorStarts ==
    /\ Mon("announce", "sleep", Check)
    /\ UNCHANGED <<supVars, childVars, fails, target, history>>

\* waitVLLMReady times out, or authentication or registration fails.
Fatal ==
    /\ mon \in {"off", "announce"}
    /\ mon' = "fatal"
    /\ UNCHANGED <<supVars, childVars, monWait, fails, target, history>>

\* A sleep is over: bootGrace is followed by the loop's own sleep.
Wakes ==
    /\ monWait = 0
    /\ Mon("sleep", "probe", 0) \/ Mon("grace", "sleep", Check)
    /\ UNCHANGED <<supVars, childVars, fails, target, history>>

ProbeOk ==
    /\ child = "up"
    /\ Mon("probe", "sleep", Check)
    /\ fails' = 0
    /\ UNCHANGED <<supVars, childVars, target, history>>

\* Does the n-th failure in a row call for a kill?  Faulty variant: one late.
TimeToKill_Late(n) == n > Threshold
TimeToKill(n) == n = Threshold

ProbeFails ==
    /\ child # "up"
    /\ IF TimeToKill(fails + 1)
         THEN Mon("probe", "kill", 0) /\ fails' = 0
         ELSE Mon("probe", "sleep", Check) /\ fails' = fails + 1
    /\ UNCHANGED <<supVars, childVars, target, history>>

\* kill reads cmd and cmd.Process under mu ...
KillLocks ==
    /\ Mon("kill", "check", 0)
    /\ target' = IF cmd THEN "current" ELSE "none"
    /\ flag' = (flag \/ (cmd /\ process))
    /\ aimed' = (aimed \/ (cmd /\ process))
    /\ UNCHANGED <<sup, supWait, cmd, process, firstLaunch, restartCount,
                   reason, childVars, fails, starts, lastAimed>>

\* The sleep after the kill.  Faulty variant: the loop goes straight on.
AfterKill_NoGrace(from) == Mon(from, "sleep", Check)
AfterKill(from) == Mon(from, "grace", Grace)

\* ... and reads the Process of that cmd again without it.
KillChecks ==
    /\ IF target = "current" /\ process
         THEN Mon("check", "signal", 0) /\ UNCHANGED target
         ELSE AfterKill("check") /\ target' = "none"
    /\ UNCHANGED <<supVars, childVars, fails, history>>

\* Process.Kill is no more than an error for a process that has exited.
\* Faulty variant: a signal that a child in trouble does not act on.
Killable_Term == {"booting", "up"}
Killable == Alive

KillSignals ==
    /\ AfterKill("signal")
    /\ target' = "none"
    /\ child' = IF target = "current" /\ child \in Killable
                THEN "dead" ELSE child
    /\ UNCHANGED <<supVars, boot, startFails, fails, history>>

-----------------------------------------------------------------------------
SupStep ==
    Assign \/ StartOk \/ StartFails \/ Record \/ WaitReturns \/ RecordExit
    \/ BackoffOver

MonStep ==
    SeenReady \/ MonitorStarts \/ Wakes \/ ProbeOk \/ ProbeFails \/ KillLocks
    \/ KillChecks \/ KillSignals

\* Nobody has a step to take that takes no time.
Settled ==
    \/ Ended
    \/ /\ (sup = "wait" /\ child # "dead") \/ (sup = "backoff" /\ supWait > 0)
       /\ ~(child = "booting" /\ boot = 0)
       /\ \/ mon = "off" /\ child # "up"
          \/ mon = "announce"
          \/ mon \in {"sleep", "grace"} /\ monWait > 0

Tick ==
    /\ Settled
    /\ supWait' = Dec(supWait)
    /\ boot' = Dec(boot)
    /\ monWait' = Dec(monWait)
    /\ UNCHANGED <<sup, cmd, process, flag, firstLaunch, restartCount, reason,
                   child, startFails, mon, fails, target, history>>

Next ==
    SupStep \/ MonStep \/ Listens \/ GoesDeaf \/ Recovers \/ Exits \/ Fatal
    \/ Tick

Spec == Init /\ [][Next]_vars

(***************************************************************************)
(* The goroutines run, time passes and a booting child comes to listen.    *)
(* That a child goes deaf, recovers or exits is not owed to anyone.        *)
(***************************************************************************)
FairSpec ==
    Spec /\ WF_vars(SupStep) /\ WF_vars(MonStep) /\ WF_vars(Listens)
         /\ WF_vars(Tick)

-----------------------------------------------------------------------------
\* Every variable has its type.
TypeOK ==
    /\ sup \in {"assign", "start", "record", "wait", "exited", "backoff"}
    /\ supWait \in 0..Backoff
    /\ cmd \in BOOLEAN /\ process \in BOOLEAN /\ flag \in BOOLEAN
    /\ firstLaunch \in BOOLEAN /\ aimed \in BOOLEAN /\ lastAimed \in BOOLEAN
    /\ restartCount \in 0..Wrap - 1
    /\ reason \in {"none", "watchdog", "crash"}
    /\ child \in {"none", "dead"} \cup Alive
    /\ boot \in Nat
    /\ startFails \in 0..MaxStartFails
    /\ mon \in {"off", "announce", "fatal", "sleep", "grace", "probe", "kill",
               "check", "signal"}
    /\ monWait \in 0..(Grace + Check)
    /\ fails \in 0..Threshold - 1
    /\ target \in {"none", "current", "stale"}
    /\ starts \in 0..Wrap - 1

\* The exit of a child is put down to the watchdog only if kill was called on
\* that child, whatever became of the ones before it.
ReasonNotStale == reason = "watchdog" => lastAimed

NothingLaunched == reason = "none" /\ sup \notin {"wait", "exited"}

\* restartCount counts the launches after the first: a start that failed does
\* not count, and the first launch does not, however many starts it took.
RestartCountCorrect ==
    LET counted == IF NothingLaunched THEN 0 ELSE Inc(restartCount)
    IN  starts = IF sup = "record" THEN Inc(counted) ELSE counted

Status == INSTANCE ChildStatus
    WITH running <- cmd /\ process, counted <- sup # "record",
         first <- firstLaunch, count <- restartCount

\* What status tells of the child is consistent at any moment it is asked, but
\* for the start time and the count of a launch, which follow its PID: see
\* ChildStatus.
StatusConsistent == Status!Spec

\* bootGrace serves its purpose: "a slow reboot isn't mistaken for a second
\* outage and killed again mid-boot".
NoMidBootRekill ==
    [][child = "booting" /\ reason = "watchdog" => ~KillSignals]_vars

\* Once the monitor is to run, a child that is alive and refuses connections
\* does not stay: the watchdog kills it.
DeafIsRestarted == (child = "deaf" /\ mon = "sleep") ~> child # "deaf"

\* A child that has exited is started again, as long as the agent runs.
ExitIsRestarted == child = "dead" ~> (child = "booting" \/ Ended)
=============================================================================
