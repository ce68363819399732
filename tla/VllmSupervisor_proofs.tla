----------------------- MODULE VllmSupervisor_proofs -----------------------
(***************************************************************************)
(* What VllmProcessStatus reports of the child of -deploy-vllm is right,   *)
(* for every choice of the intervals and of the boot times: the reason of  *)
(* the last exit, and the number of restarts.  The arithmetic of Inc plays *)
(* no part in it.                                                          *)
(***************************************************************************)
EXTENDS VllmSupervisor, Integers, TLAPS

\* The flag that run reads was set by a kill of the present child.
ReasonInv ==
    /\ flag => aimed
    /\ reason = "watchdog" => lastAimed

LEMMA ReasonStep == ReasonInv /\ [Next]_vars => ReasonInv'
<1> SUFFICES ASSUME ReasonInv, [Next]_vars PROVE ReasonInv'
  OBVIOUS
<1> USE DEF ReasonInv
<1>1. CASE SupStep
  <2>1. CASE Assign
    BY <2>1 DEF Assign
  <2>2. CASE RecordExit
    BY <2>2 DEF RecordExit
  <2>3. CASE StartOk \/ StartFails \/ Record \/ WaitReturns \/ BackoffOver
    BY <2>3 DEF StartOk, StartFails, Record, WaitReturns, BackoffOver, history
  <2>4. QED
    BY <1>1, <2>1, <2>2, <2>3 DEF SupStep
<1>2. CASE MonStep
  <2>1. CASE KillLocks
    BY <2>1, Zenon DEF KillLocks
  <2>2. CASE ~KillLocks
    BY <1>2, <2>2 DEF MonStep, SeenReady, MonitorStarts, Wakes, ProbeOk,
       ProbeFails, KillChecks, KillSignals, supVars, history
  <2>3. QED
    BY <2>1, <2>2
<1>3. CASE Listens \/ GoesDeaf \/ Recovers \/ Exits
  BY <1>3 DEF Listens, GoesDeaf, Recovers, Exits, Becomes, supVars, history
<1>4. CASE Fatal \/ Tick
  BY <1>4 DEF Fatal, Tick, supVars, history
<1>5. CASE UNCHANGED vars
  BY <1>5 DEF vars
<1>6. QED
  BY <1>1, <1>2, <1>3, <1>4, <1>5 DEF Next

\* The exit of a child is put down to the watchdog only if kill was called on
\* that child: the flag of an earlier one is never read.
THEOREM ReasonCorrect == Spec => []ReasonNotStale
<1>1. Init => ReasonInv
  BY DEF Init, ReasonInv
<1>2. ReasonInv => ReasonNotStale
  BY DEF ReasonInv, ReasonNotStale
<1>3. QED
  BY <1>1, <1>2, ReasonStep, PTL DEF Spec

\* Record, with its lock, is behind the last start by one at most.
Recorded == IF firstLaunch THEN 0 ELSE Inc(restartCount)

CountInv ==
    /\ firstLaunch => restartCount = 0
    /\ firstLaunch <=> NothingLaunched
    /\ starts = IF sup = "record" THEN Inc(Recorded) ELSE Recorded

LEMMA CountStep == CountInv /\ [Next]_vars => CountInv'
<1> SUFFICES ASSUME CountInv, [Next]_vars PROVE CountInv'
  OBVIOUS
<1> USE DEF CountInv, NothingLaunched, Recorded
<1>1. CASE SupStep
  <2>1. CASE Assign
    BY <2>1 DEF Assign, Sup
  <2>2. CASE StartOk
    BY <2>2 DEF StartOk, Sup
  <2>3. CASE StartFails
    BY <2>3 DEF StartFails, Sup, history
  <2>4. CASE Record
    BY <2>4 DEF Record, Sup, history
  <2>5. CASE WaitReturns
    BY <2>5 DEF WaitReturns, Sup, history
  <2>6. CASE RecordExit
    BY <2>6 DEF RecordExit, Sup
  <2>7. CASE BackoffOver
    BY <2>7 DEF BackoffOver, Sup, history
  <2>8. QED
    BY <1>1, <2>1, <2>2, <2>3, <2>4, <2>5, <2>6, <2>7 DEF SupStep
<1>2. CASE MonStep
  BY <1>2 DEF MonStep, SeenReady, MonitorStarts, Wakes, ProbeOk, ProbeFails,
     KillLocks, KillChecks, KillSignals, Mon, AfterKill, supVars, childVars,
     history
<1>3. CASE Listens \/ GoesDeaf \/ Recovers \/ Exits
  BY <1>3 DEF Listens, GoesDeaf, Recovers, Exits, Becomes, supVars, history
<1>4. CASE Fatal \/ Tick
  BY <1>4 DEF Fatal, Tick, supVars, history
<1>5. CASE UNCHANGED vars
  BY <1>5 DEF vars
<1>6. QED
  BY <1>1, <1>2, <1>3, <1>4, <1>5 DEF Next

\* restartCount is the number of launches less one, whatever starts fail,
\* whoever ends a child and whenever.
THEOREM RestartsCounted == Spec => []RestartCountCorrect
<1>1. Init => CountInv
  BY DEF Init, CountInv, NothingLaunched, Recorded
<1>2. CountInv => RestartCountCorrect
  BY DEF CountInv, RestartCountCorrect, NothingLaunched, Recorded
<1>3. QED
  BY <1>1, <1>2, CountStep, PTL DEF Spec

-----------------------------------------------------------------------------
(* The refinement of ChildStatus, and the types. *)

\* The two halves of TypeOK: the Boolean variables, and the rest.
Booleans ==
    /\ cmd \in BOOLEAN /\ process \in BOOLEAN /\ flag \in BOOLEAN
    /\ firstLaunch \in BOOLEAN /\ aimed \in BOOLEAN /\ lastAimed \in BOOLEAN

Others ==
    /\ sup \in {"assign", "start", "record", "wait", "exited", "backoff"}
    /\ supWait \in 0..Backoff
    /\ restartCount \in 0..Wrap - 1
    /\ reason \in {"none", "watchdog", "crash"}
    /\ child \in {"none", "dead"} \cup Alive
    /\ boot \in Nat
    /\ startFails \in 0..MaxStartFails
    /\ mon \in {"off", "announce", "fatal", "sleep", "grace", "probe", "kill",
               "check", "signal"}
    /\ monWait \in 0..(Grace + Check)
    /\ fails \in 0..Threshold - 1
    /\ target \in {"none", "current", "stale"}
    /\ starts \in 0..Wrap - 1

\* Boolean variables stay Boolean.
LEMMA BooleansStep == Booleans /\ [Next]_vars => Booleans'
<1> SUFFICES ASSUME Booleans, [Next]_vars PROVE Booleans'
  OBVIOUS
<1> USE DEF Booleans, supVars, history
<1>1. CASE SupStep
  BY <1>1 DEF SupStep, Assign, StartOk, StartFails, Record, WaitReturns,
     RecordExit, BackoffOver
<1>2. CASE KillLocks
  <2>1. flag' \in BOOLEAN /\ aimed' \in BOOLEAN
    BY <1>2, Zenon DEF KillLocks
  <2>2. QED
    BY <1>2, <2>1 DEF KillLocks
<1>3. CASE MonStep /\ ~KillLocks
  BY <1>3 DEF MonStep, SeenReady, MonitorStarts, Wakes, ProbeOk, ProbeFails,
     KillChecks, KillSignals
<1>4. CASE Listens \/ GoesDeaf \/ Recovers \/ Exits
  BY <1>4 DEF Listens, GoesDeaf, Recovers, Exits, Becomes
<1>5. CASE Fatal \/ Tick \/ UNCHANGED vars
  BY <1>5 DEF Fatal, Tick, vars
<1>6. QED
  BY <1>1, <1>2, <1>3, <1>4, <1>5 DEF Next

\* Counters, waits and program counters keep their types.
LEMMA OthersStep == Others /\ [Next]_vars => Others'
<1>0. \A n \in 0..Wrap - 1 : Inc(n) \in 0..Wrap - 1
  BY TimesAssumption DEF Inc
<1> SUFFICES ASSUME Others, [Next]_vars PROVE Others'
  OBVIOUS
<1> USE TimesAssumption
<1> USE DEF Others, Alive, supVars, childVars, monVars, history
<1>1. CASE Assign \/ StartOk \/ StartFails
  <2>1. CASE Assign
    BY <2>1 DEF Assign, Sup
  <2>2. CASE StartOk
    <3>1. starts' \in 0..Wrap - 1
      BY <2>2, <1>0 DEF StartOk
    <3>2. QED
      BY <2>2, <3>1 DEF StartOk, Sup
  <2>3. CASE StartFails
    BY <2>3 DEF StartFails, Sup
  <2>4. QED
    BY <1>1, <2>1, <2>2, <2>3
<1>2. CASE Record \/ WaitReturns \/ RecordExit \/ BackoffOver
  BY <1>2, <1>0 DEF Record, WaitReturns, RecordExit, BackoffOver, Sup
<1>3. CASE SeenReady \/ MonitorStarts \/ Wakes \/ ProbeOk
  BY <1>3 DEF SeenReady, MonitorStarts, Wakes, ProbeOk, Mon
<1>4. CASE ProbeFails
  <2>1. fails' \in 0..Threshold - 1
    BY <1>4 DEF ProbeFails, TimeToKill
  <2>2. mon' \in {"kill", "sleep"} /\ monWait' \in 0..(Grace + Check)
    BY <1>4 DEF ProbeFails, Mon
  <2>3. QED
    BY <1>4, <2>1, <2>2 DEF ProbeFails
<1>5. CASE KillLocks \/ KillChecks \/ KillSignals
  BY <1>5 DEF KillLocks, KillChecks, KillSignals, AfterKill, Mon
<1>6. CASE Listens \/ GoesDeaf \/ Recovers \/ Exits
  BY <1>6 DEF Listens, GoesDeaf, Recovers, Exits, Becomes
<1>7. CASE Fatal \/ UNCHANGED vars
  BY <1>7 DEF Fatal, vars
<1>8. CASE Tick
  BY <1>8 DEF Tick, Dec
<1>9. QED
  BY <1>1, <1>2, <1>3, <1>4, <1>5, <1>6, <1>7, <1>8
     DEF Next, SupStep, MonStep

\* Every variable keeps its type, for all intervals and boot times.
THEOREM TypeCorrect == Spec => []TypeOK
<1>1. Init => Booleans
  BY DEF Init, Booleans
<1>2. Init => Others
  BY TimesAssumption DEF Init, Others, Alive
<1>3. Booleans /\ Others => TypeOK
  BY DEF Booleans, Others, TypeOK
<1>4. QED
  BY <1>1, <1>2, <1>3, BooleansStep, OthersStep, PTL DEF Spec

\* cmd is set from Assign to the exit, its Process from the start.
CmdInv ==
    /\ cmd <=> sup \in {"start", "record", "wait", "exited"}
    /\ sup = "start" => ~process
    /\ sup \in {"record", "wait", "exited"} => process

LEMMA CmdStep == CmdInv /\ [Next]_vars => CmdInv'
<1> SUFFICES ASSUME CmdInv, [Next]_vars PROVE CmdInv'
  OBVIOUS
<1> USE DEF CmdInv
<1>1. CASE SupStep
  BY <1>1 DEF SupStep, Assign, StartOk, StartFails, Record, WaitReturns,
     RecordExit, BackoffOver, Sup
<1>2. CASE MonStep
  BY <1>2 DEF MonStep, SeenReady, MonitorStarts, Wakes, ProbeOk, ProbeFails,
     KillLocks, KillChecks, KillSignals, Mon, AfterKill, supVars
<1>3. CASE Listens \/ GoesDeaf \/ Recovers \/ Exits
  BY <1>3 DEF Listens, GoesDeaf, Recovers, Exits, Becomes, supVars
<1>4. CASE Fatal \/ Tick
  BY <1>4 DEF Fatal, Tick, supVars
<1>5. CASE UNCHANGED vars
  BY <1>5 DEF vars
<1>6. QED
  BY <1>1, <1>2, <1>3, <1>4, <1>5 DEF Next

\* run shows its readers a launch, a count or an exit, or nothing new.
LEMMA StatusStep ==
    CmdInv /\ [Next]_vars =>
        [Status!Launch \/ Status!Count \/ Status!Exit]_(Status!vars)
<1> SUFFICES ASSUME CmdInv, [Next]_vars
             PROVE  \/ Status!Launch \/ Status!Count \/ Status!Exit
                    \/ UNCHANGED Status!vars
  OBVIOUS
<1> USE DEF CmdInv, Status!vars
<1>1. CASE StartOk
  BY <1>1 DEF StartOk, Sup, Status!Launch
<1>2. CASE Record
  BY <1>2 DEF Record, Sup, Inc, Status!Count
<1>3. CASE RecordExit
  BY <1>3 DEF RecordExit, Sup, Status!Exit
<1>4. CASE Assign \/ StartFails \/ WaitReturns \/ BackoffOver
  BY <1>4 DEF Assign, StartFails, WaitReturns, BackoffOver, Sup
<1>5. CASE MonStep
  BY <1>5 DEF MonStep, SeenReady, MonitorStarts, Wakes, ProbeOk, ProbeFails,
     KillLocks, KillChecks, KillSignals, Mon, AfterKill, supVars
<1>6. CASE Listens \/ GoesDeaf \/ Recovers \/ Exits
  BY <1>6 DEF Listens, GoesDeaf, Recovers, Exits, Becomes, supVars
<1>7. CASE Fatal \/ Tick \/ UNCHANGED vars
  BY <1>7 DEF Fatal, Tick, supVars, vars
<1>8. QED
  BY <1>1, <1>2, <1>3, <1>4, <1>5, <1>6, <1>7 DEF Next, SupStep

\* The supervisor implements ChildStatus: no interleaving of run, kill and a
\* reader of status shows it a child that is gone as running, an exit without
\* its reason or a launch that is counted before it runs, twice or not at all.
THEOREM StatusCorrect == Spec => StatusConsistent
<1>1. Init => CmdInv /\ Status!Init
  BY DEF Init, CmdInv, Status!Init
<1>2. QED
  BY <1>1, CmdStep, StatusStep, PTL DEF Spec, StatusConsistent, Status!Spec

-----------------------------------------------------------------------------
(* The watchdog and the boot of the next child.  Time passes for both at   *)
(* the same pace, so that it is enough to compare what is left of each:    *)
(* KillLeft to the next kill, at least, and BootLeft to the end of the     *)
(* boot, at most.                                                          *)

Probes(n) == n * Check
Pauses(n) == n * Backoff

LEMMA Multiples ==
    \A n \in Int :
        /\ Probes(n) \in Int /\ Probes(n + 1) = Probes(n) + Check
        /\ Pauses(n) \in Int /\ Pauses(n + 1) = Pauses(n) + Backoff
        /\ n >= 0 => Probes(n) >= 0 /\ Pauses(n) >= 0
  BY TimesAssumption DEF Probes, Pauses

LEMMA NoMultiples == Probes(0) = 0 /\ Pauses(0) = 0
  BY TimesAssumption DEF Probes, Pauses

KillLeft ==
    CASE mon = "grace" -> monWait + Probes(Threshold - fails)
      [] mon = "sleep" -> monWait + Probes(Threshold - 1 - fails)
      [] mon = "probe" -> Probes(Threshold - 1 - fails)
      [] OTHER -> 0

BootLeft(b) ==
    CASE sup = "backoff" -> supWait + Pauses(MaxStartFails - startFails) + b
      [] sup \in {"assign", "start"} -> Pauses(MaxStartFails - startFails) + b
      [] OTHER -> boot

\* Every boot ends in the time from one kill to the next, whatever starts fail.
BootsFit ==
    /\ Backoff > 0
    /\ \A b \in BootTimes :
          b + Pauses(MaxStartFails + 1) < Grace + Probes(Threshold)

Launched == {"record", "wait", "exited"}
Rebooting ==
    \/ sup \in {"backoff", "assign", "start"}
    \/ sup \in {"record", "wait"} /\ child = "booting"

ChildInv ==
    /\ child = "none" <=> sup \notin {"record", "wait"}
    /\ sup \in Launched => startFails = 0

KillInv ==
    /\ mon \in {"off", "announce", "fatal"} => ~flag /\ reason # "watchdog"
    /\ mon \in {"kill", "check", "signal"} => fails = 0
    /\ sup = "start" => ~flag

\* A child that kill was called on is being killed, or it is dead and the time
\* to the next kill has not begun to run.
FlagInv ==
    flag /\ sup \in Launched =>
        \/ mon \in {"check", "signal"} /\ target = "current"
        \/ child \in {"dead", "none"} /\ KillLeft >= Grace + Probes(Threshold)

\* The successor of a child that was killed boots before the next kill.
BootInv ==
    reason = "watchdog" /\ Rebooting =>
        \/ /\ mon \in {"check", "signal"}
           /\ sup = "backoff" /\ supWait = Backoff /\ startFails = 0
        \/ /\ mon \in {"sleep", "grace", "probe"}
           /\ \A b \in BootTimes : BootLeft(b) < KillLeft

GraceInv == Others /\ CmdInv /\ ChildInv /\ KillInv /\ FlagInv /\ BootInv

LEMMA ChildStep == CmdInv /\ ChildInv /\ [Next]_vars => ChildInv'
<1> SUFFICES ASSUME CmdInv, ChildInv, [Next]_vars PROVE ChildInv'
  OBVIOUS
<1> USE DEF ChildInv, CmdInv, Launched
<1>1. CASE SupStep
  BY <1>1 DEF SupStep, Assign, StartOk, StartFails, Record, WaitReturns,
     RecordExit, BackoffOver, Sup, childVars
<1>2. CASE MonStep
  BY <1>2 DEF MonStep, SeenReady, MonitorStarts, Wakes, ProbeOk, ProbeFails,
     KillLocks, KillChecks, KillSignals, Mon, AfterKill, Killable, Alive,
     supVars, childVars
<1>3. CASE Listens \/ GoesDeaf \/ Recovers \/ Exits
  BY <1>3 DEF Listens, GoesDeaf, Recovers, Exits, Becomes, Alive, supVars
<1>4. CASE Fatal \/ Tick \/ UNCHANGED vars
  BY <1>4 DEF Fatal, Tick, supVars, childVars, vars
<1>5. QED
  BY <1>1, <1>2, <1>3, <1>4 DEF Next

LEMMA KillStep == Others /\ CmdInv /\ KillInv /\ [Next]_vars => KillInv'
<1> SUFFICES ASSUME Others, CmdInv, KillInv, [Next]_vars PROVE KillInv'
  OBVIOUS
<1> USE DEF KillInv, CmdInv
<1>1. CASE SupStep
  BY <1>1 DEF SupStep, Assign, StartOk, StartFails, Record, WaitReturns,
     RecordExit, BackoffOver, Sup, monVars
<1>2. CASE KillLocks
  <2>1. flag' => flag \/ (cmd /\ process)
    BY <1>2, Zenon DEF KillLocks
  <2>2. QED
    BY <1>2, <2>1 DEF KillLocks, Mon
<1>3. CASE MonStep /\ ~KillLocks
  BY <1>3 DEF MonStep, SeenReady, MonitorStarts, Wakes, ProbeOk, ProbeFails,
     KillChecks, KillSignals, Mon, AfterKill, supVars
<1>4. CASE Listens \/ GoesDeaf \/ Recovers \/ Exits
  BY <1>4 DEF Listens, GoesDeaf, Recovers, Exits, Becomes, supVars, monVars
<1>5. CASE Fatal \/ Tick \/ UNCHANGED vars
  BY <1>5 DEF Fatal, Tick, supVars, vars
<1>6. QED
  BY <1>1, <1>2, <1>3, <1>4, <1>5 DEF Next

\* Only the passing of time brings the next kill nearer.
LEMMA KillLeftStep ==
    ASSUME Others, KillInv, [Next]_vars, ~Tick, mon \in {"sleep", "grace", "probe"}
    PROVE  KillLeft' >= KillLeft
<1> USE TimesAssumption
<1>0. /\ fails \in 0..Threshold - 1 /\ monWait \in Nat
      /\ KillLeft \in Int
  BY Multiples DEF Others, KillLeft
<1>1. CASE UNCHANGED <<mon, monWait, fails>>
  BY <1>0, <1>1 DEF KillLeft
<1>2. CASE Wakes
  <2>1. CASE mon = "sleep"
    BY <1>0, <1>2, <2>1, Multiples DEF Wakes, Mon, KillLeft
  <2>2. CASE mon = "grace"
    <3>1. Probes(Threshold - fails) = Probes(Threshold - 1 - fails) + Check
      <4>1. Threshold - 1 - fails \in Int /\ Threshold - fails = (Threshold - 1 - fails) + 1
        BY <1>0
      <4>2. QED
        BY <4>1, Multiples
    <3>2. mon' = "sleep" /\ monWait' = Check /\ fails' = fails /\ monWait = 0
      BY <1>2, <2>2 DEF Wakes, Mon
    <3>3. Probes(Threshold - fails) \in Int /\ Probes(Threshold - 1 - fails) \in Int
      BY <1>0, Multiples
    <3>4. QED
      BY <2>2, <3>1, <3>2, <3>3 DEF KillLeft
  <2>3. QED
    BY <1>2, <2>1, <2>2 DEF Wakes, Mon
<1>3. CASE ProbeOk
  <2>1. mon = "probe" /\ mon' = "sleep" /\ monWait' = Check /\ fails' = 0
    BY <1>3 DEF ProbeOk, Mon
  <2>2. Probes(Threshold - 1 - 0) >= Probes(Threshold - 1 - fails)
    BY <1>0 DEF Probes
  <2>3. Probes(Threshold - 1) \in Int /\ Probes(Threshold - 1 - fails) \in Int
    BY <1>0, Multiples
  <2>4. QED
    BY <2>1, <2>2, <2>3 DEF KillLeft
<1>4. CASE ProbeFails
  <2>1. mon = "probe"
    BY <1>4 DEF ProbeFails, Mon
  <2>2. CASE fails + 1 = Threshold
    <3>1. Threshold - 1 - fails = 0
      BY <1>0, <2>2
    <3>2. KillLeft = 0
      BY <2>1, <3>1, NoMultiples DEF KillLeft
    <3>3. mon' = "kill"
      BY <1>4, <2>2 DEF ProbeFails, TimeToKill, Mon
    <3>4. QED
      BY <3>2, <3>3 DEF KillLeft
  <2>3. CASE fails + 1 # Threshold
    <3>1. mon' = "sleep" /\ monWait' = Check /\ fails' = fails + 1
      BY <1>4, <2>3 DEF ProbeFails, TimeToKill, Mon
    <3>2. /\ Threshold - 1 - (fails + 1) \in Int
          /\ Threshold - 1 - fails = (Threshold - 1 - (fails + 1)) + 1
      BY <1>0
    <3>3. /\ Probes(Threshold - 1 - fails) = Probes(Threshold - 1 - (fails + 1)) + Check
          /\ Probes(Threshold - 1 - (fails + 1)) \in Int
      BY <3>2, Multiples
    <3>4. QED
      BY <2>1, <3>1, <3>3 DEF KillLeft
  <2>4. QED
    BY <2>2, <2>3
<1>5. QED
  <2>1. CASE SupStep
    BY <1>1, <2>1 DEF SupStep, Assign, StartOk, StartFails, Record, WaitReturns,
       RecordExit, BackoffOver, monVars
  <2>2. CASE MonStep
    BY <1>2, <1>3, <1>4, <2>2 DEF MonStep, SeenReady, MonitorStarts, KillLocks,
       KillChecks, KillSignals, Mon, AfterKill
  <2>3. CASE Listens \/ GoesDeaf \/ Recovers \/ Exits
    BY <1>1, <2>3 DEF Listens, GoesDeaf, Recovers, Exits, Becomes, monVars
  <2>4. CASE Fatal \/ UNCHANGED vars
    BY <1>1, <2>4 DEF Fatal, vars
  <2>5. QED
    BY <2>1, <2>2, <2>3, <2>4 DEF Next

LEMMA KillLeftAfter ==
    ASSUME fails' = 0, mon' = "grace", monWait' = Grace
    PROVE  KillLeft' = Grace + Probes(Threshold)
<1>1. Threshold - 0 = Threshold
  BY TimesAssumption
<1>2. QED
  BY <1>1 DEF KillLeft

LEMMA FullPositive == BootsFit => Grace + Probes(Threshold) > 0
<1>1. Probes(Threshold) \in Int /\ Probes(Threshold) = Threshold * Check
  BY TimesAssumption, Multiples DEF Probes
<1>2. Threshold * Check > 0
  BY TimesAssumption
<1>3. QED
  BY <1>1, <1>2, TimesAssumption

LEMMA FlagStep == BootsFit /\ GraceInv /\ [Next]_vars => FlagInv'
<1> SUFFICES ASSUME BootsFit, GraceInv, [Next]_vars, flag', sup' \in Launched
             PROVE  \/ mon' \in {"check", "signal"} /\ target' = "current"
                    \/ /\ child' \in {"dead", "none"}
                       /\ KillLeft' >= Grace + Probes(Threshold)
  BY DEF FlagInv
<1> USE DEF GraceInv, CmdInv, Launched
<1>1. CASE KillLocks
  <2>1. sup \in Launched \/ sup = "start"
    BY <1>1 DEF KillLocks, Others
  <2>2. sup # "start"
    BY <1>1 DEF KillLocks
  <2>3. target' = "current" /\ mon' = "check"
    BY <1>1, <2>1, <2>2 DEF KillLocks, Mon
  <2>4. QED
    BY <2>3
<1>2. CASE ~KillLocks /\ sup \notin Launched
  <2>1. sup = "start" /\ UNCHANGED flag
    BY <1>2 DEF Next, SupStep, Assign, StartOk, StartFails, Record, WaitReturns,
       RecordExit, BackoffOver, Sup, MonStep, SeenReady, MonitorStarts, Wakes,
       ProbeOk, ProbeFails, KillChecks, KillSignals, Listens, GoesDeaf,
       Recovers, Exits, Becomes, Fatal, Tick, supVars, vars, Others
  <2>2. QED
    BY <2>1 DEF KillInv
<1>3. CASE ~KillLocks /\ sup \in Launched
  <2>1. flag
    BY <1>3 DEF Next, SupStep, Assign, StartOk, StartFails, Record, WaitReturns,
       RecordExit, BackoffOver, Sup, MonStep, SeenReady, MonitorStarts, Wakes,
       ProbeOk, ProbeFails, KillChecks, KillSignals, Listens, GoesDeaf,
       Recovers, Exits, Becomes, Fatal, Tick, supVars, vars, Others
  <2>2. CASE mon \in {"check", "signal"} /\ target = "current"
    <3>1. CASE KillChecks
      BY <1>3, <2>2, <3>1 DEF KillChecks, Mon
    <3>2. CASE KillSignals
      <4>1. child' \in {"dead", "none"}
        BY <2>2, <3>2 DEF KillSignals, Killable, Others
      <4>2. fails' = 0 /\ mon' = "grace" /\ monWait' = Grace
        BY <3>2 DEF KillSignals, AfterKill, Mon, KillInv
      <4>3. QED
        BY <4>1, <4>2, KillLeftAfter, FullPositive, Multiples, TimesAssumption
    <3>3. CASE ~KillChecks /\ ~KillSignals
      BY <1>3, <2>2, <3>3 DEF Next, SupStep, Assign, StartOk, StartFails, Record,
         WaitReturns, RecordExit, BackoffOver, Sup, MonStep, SeenReady,
         MonitorStarts, Wakes, ProbeOk, ProbeFails, Mon, Listens, GoesDeaf,
         Recovers, Exits, Becomes, Fatal, Tick, Settled, Ended, monVars, vars
    <3>4. QED
      BY <3>1, <3>2, <3>3
  <2>3. CASE child \in {"dead", "none"} /\ KillLeft >= Grace + Probes(Threshold)
    <3>1. mon \in {"sleep", "grace", "probe"}
      <4>1. mon \notin {"off", "announce", "fatal"}
        BY <2>1 DEF KillInv
      <4>2. mon \notin {"kill", "check", "signal"}
        <5>1. Probes(Threshold) \in Int
          BY TimesAssumption, Multiples
        <5>2. QED
          BY <2>3, <5>1, FullPositive, TimesAssumption DEF KillLeft
      <4>3. QED
        BY <4>1, <4>2 DEF Others
    <3>2. ~Tick
      BY <1>3, <2>3, <3>1 DEF Tick, Settled, Ended, ChildInv
    <3>3. KillLeft' >= KillLeft
      BY <3>1, <3>2, KillLeftStep
    <3>4. child' \in {"dead", "none"}
      BY <1>3, <2>3, <3>1, <3>2 DEF Next, SupStep, Assign, StartOk, StartFails,
         Record, WaitReturns, RecordExit, BackoffOver, Sup, MonStep, SeenReady,
         MonitorStarts, Wakes, ProbeOk, ProbeFails, KillChecks, KillSignals,
         AfterKill, Mon, Listens, GoesDeaf, Recovers, Exits, Becomes, Fatal,
         Alive, childVars, vars
    <3>5. KillLeft \in Int /\ KillLeft' \in Int /\ Probes(Threshold) \in Int
      <4>1. Others'
        BY OthersStep
      <4>2. QED
        BY <4>1, Multiples, TimesAssumption DEF Others, KillLeft
    <3>6. QED
      BY <2>3, <3>3, <3>4, <3>5, TimesAssumption
  <2>4. QED
    BY <1>3, <2>1, <2>2, <2>3 DEF FlagInv
<1>4. QED
  BY <1>1, <1>2, <1>3

LEMMA BootStep == BootsFit /\ GraceInv /\ [Next]_vars => BootInv'
<1> SUFFICES ASSUME BootsFit, GraceInv, [Next]_vars, reason' = "watchdog",
                    Rebooting'
             PROVE  \/ /\ mon' \in {"check", "signal"}
                       /\ sup' = "backoff" /\ supWait' = Backoff
                       /\ startFails' = 0
                    \/ /\ mon' \in {"sleep", "grace", "probe"}
                       /\ \A b \in BootTimes : BootLeft(b)' < KillLeft'
  BY DEF BootInv
<1> USE DEF GraceInv
<1>a. /\ KillLeft \in Int /\ KillLeft' \in Int /\ Probes(Threshold) \in Int
      /\ Others'
  <2>1. Others'
    BY OthersStep
  <2>2. QED
    BY <2>1, Multiples, TimesAssumption DEF Others, KillLeft
<1>b. /\ \A b \in BootTimes : b \in Nat
      /\ startFails \in Nat /\ startFails <= MaxStartFails
      /\ Pauses(MaxStartFails - startFails) \in Int
      /\ Pauses(MaxStartFails - startFails) >= 0
      /\ Pauses(MaxStartFails) \in Int
      /\ Pauses(MaxStartFails + 1) = Pauses(MaxStartFails) + Backoff
      /\ supWait \in Nat /\ boot \in Nat
  BY TimesAssumption, Multiples DEF Others
<1>1. CASE RecordExit
  <2>1. /\ flag /\ sup = "exited" /\ sup' = "backoff" /\ supWait' = Backoff
        /\ startFails = 0 /\ startFails' = 0
        /\ UNCHANGED <<mon, monWait, fails>>
    BY <1>1 DEF RecordExit, Sup, ChildInv, childVars, monVars, Launched
  <2>2. CASE mon \in {"check", "signal"}
    BY <2>1, <2>2
  <2>3. CASE KillLeft >= Grace + Probes(Threshold)
    <3>1. mon \in {"sleep", "grace", "probe"}
      <4>1. KillLeft > 0
        BY <1>a, <2>3, FullPositive, TimesAssumption
      <4>2. QED
        BY <4>1, <2>1 DEF KillInv, KillLeft, Others
    <3>2. KillLeft' = KillLeft
      BY <2>1 DEF KillLeft
    <3>3. ASSUME NEW b \in BootTimes PROVE BootLeft(b)' < KillLeft'
      <4>1. MaxStartFails - 0 = MaxStartFails
        BY TimesAssumption
      <4>2. BootLeft(b)' = Backoff + Pauses(MaxStartFails) + b
        BY <2>1, <4>1 DEF BootLeft
      <4>3. b + Pauses(MaxStartFails + 1) < Grace + Probes(Threshold)
        BY DEF BootsFit
      <4>4. QED
        BY <1>a, <1>b, <2>3, <3>2, <4>2, <4>3, TimesAssumption
    <3>4. QED
      BY <2>1, <3>1, <3>3
  <2>4. QED
    BY <2>1, <2>2, <2>3 DEF FlagInv, Launched
<1>2. CASE ~RecordExit
  <2>1. reason = "watchdog"
    BY <1>2 DEF Next, SupStep, Assign, StartOk, StartFails, Record, WaitReturns,
       BackoffOver, MonStep, SeenReady, MonitorStarts, Wakes, ProbeOk,
       ProbeFails, KillLocks, KillChecks, KillSignals, Listens, GoesDeaf,
       Recovers, Exits, Becomes, Fatal, Tick, supVars, vars
  <2>2. Rebooting
    BY <1>2 DEF Next, SupStep, Assign, StartOk, StartFails, Record, WaitReturns,
       BackoffOver, Sup, MonStep, SeenReady, MonitorStarts, Wakes, ProbeOk,
       ProbeFails, KillLocks, KillChecks, KillSignals, Listens, GoesDeaf,
       Recovers, Exits, Becomes, Fatal, Tick, supVars, childVars, vars,
       Rebooting, Killable, Others
  <2>3. CASE /\ mon \in {"check", "signal"}
             /\ sup = "backoff" /\ supWait = Backoff /\ startFails = 0
    <3>1. UNCHANGED <<sup, supWait, startFails>>
      BY <1>2, <2>3 DEF BootsFit, Next, SupStep, Assign, StartOk, StartFails,
         Record, WaitReturns, BackoffOver, Sup, MonStep, SeenReady,
         MonitorStarts, Wakes, ProbeOk, ProbeFails, KillLocks, KillChecks,
         KillSignals, Mon, Listens, GoesDeaf, Recovers, Exits, Becomes, Fatal,
         Tick, Settled, Ended, supVars, childVars, vars
    <3>2. CASE mon' \in {"check", "signal"}
      BY <2>3, <3>1, <3>2
    <3>3. CASE mon' \notin {"check", "signal"}
      <4>1. mon' = "grace" /\ monWait' = Grace /\ fails' = 0
        BY <1>2, <2>3, <3>3 DEF Next, SupStep, Assign, StartOk, StartFails,
           Record, WaitReturns, BackoffOver, Sup, MonStep, SeenReady,
           MonitorStarts, Wakes, ProbeOk, ProbeFails, KillLocks, KillChecks,
           KillSignals, AfterKill, Mon, Listens, GoesDeaf, Recovers, Exits,
           Becomes, Fatal, Tick, Settled, Ended, KillInv, monVars, vars
      <4>2. KillLeft' = Grace + Probes(Threshold)
        BY <4>1, KillLeftAfter
      <4>3. ASSUME NEW b \in BootTimes PROVE BootLeft(b)' < KillLeft'
        <5>1. MaxStartFails - 0 = MaxStartFails
          BY TimesAssumption
        <5>2. BootLeft(b)' = Backoff + Pauses(MaxStartFails) + b
          BY <2>3, <3>1, <5>1 DEF BootLeft
        <5>3. b + Pauses(MaxStartFails + 1) < Grace + Probes(Threshold)
          BY DEF BootsFit
        <5>4. QED
          BY <1>a, <1>b, <4>2, <5>2, <5>3, TimesAssumption
      <4>4. QED
        BY <4>1, <4>3
    <3>4. QED
      BY <3>2, <3>3
  <2>4. CASE /\ mon \in {"sleep", "grace", "probe"}
             /\ \A b \in BootTimes : BootLeft(b) < KillLeft
    <3>1. CASE Tick
      <4>1. /\ mon \in {"sleep", "grace"} /\ monWait > 0
            /\ UNCHANGED <<mon, fails, sup, startFails, child>>
            /\ supWait' = Dec(supWait) /\ boot' = Dec(boot)
            /\ monWait' = monWait - 1
        BY <2>4, <3>1 DEF Tick, Settled, Ended, Others, Dec
      <4>2. KillLeft' = KillLeft - 1
        <5>1. Probes(Threshold - fails) \in Int /\ Probes(Threshold - 1 - fails) \in Int
          BY TimesAssumption, Multiples DEF Others
        <5>2. QED
          BY <4>1, <5>1 DEF KillLeft, Others
      <4>3. ASSUME NEW b \in BootTimes PROVE BootLeft(b)' < KillLeft'
        <5>1. BootLeft(b) < KillLeft
          BY <2>4
        <5>2. CASE sup = "backoff"
          <6>1. supWait > 0 /\ supWait' = supWait - 1
            BY <2>4, <3>1, <4>1, <5>2 DEF Tick, Settled, Ended, Dec
          <6>2. BootLeft(b)' = BootLeft(b) - 1
            BY <1>b, <4>1, <5>2, <6>1 DEF BootLeft
          <6>3. BootLeft(b) \in Int
            BY <1>b, <5>2 DEF BootLeft
          <6>4. QED
            BY <1>a, <4>2, <5>1, <6>2, <6>3
        <5>3. CASE sup # "backoff"
          <6>1. sup = "wait" /\ child = "booting" /\ boot > 0
            BY <1>b, <2>2, <2>4, <3>1, <5>3 DEF Tick, Settled, Ended, Rebooting
          <6>2. BootLeft(b)' = boot - 1 /\ BootLeft(b) = boot
            BY <1>b, <4>1, <6>1 DEF BootLeft, Dec
          <6>3. QED
            BY <1>a, <1>b, <4>2, <5>1, <6>2
        <5>4. QED
          BY <5>2, <5>3
      <4>4. QED
        BY <4>1, <4>3
    <3>2. CASE ~Tick
      <4>1. KillLeft' >= KillLeft
        BY <2>4, <3>2, KillLeftStep
      <4>2. mon' \in {"sleep", "grace", "probe"}
        <5>1. PICK b \in BootTimes : TRUE
          BY TimesAssumption
        <5>2. BootLeft(b) >= 0
          BY <1>b DEF BootLeft
        <5>3. BootLeft(b) < KillLeft /\ BootLeft(b) \in Int
          BY <1>b, <2>4 DEF BootLeft
        <5>4. KillLeft' > 0
          BY <1>a, <4>1, <5>2, <5>3
        <5>5. mon' \notin {"off", "announce", "fatal"}
          BY <2>4, <3>2 DEF Next, SupStep, Assign, StartOk, StartFails, Record,
             WaitReturns, RecordExit, BackoffOver, MonStep, SeenReady,
             MonitorStarts, Wakes, ProbeOk, ProbeFails, KillLocks, KillChecks,
             KillSignals, AfterKill, Mon, Listens, GoesDeaf, Recovers, Exits,
             Becomes, Fatal, monVars, vars
        <5>6. QED
          BY <1>a, <5>4, <5>5 DEF KillLeft, Others
      <4>3. ASSUME NEW b \in BootTimes PROVE BootLeft(b)' < KillLeft'
        <5>1. PICK b0 \in BootTimes :
                 BootLeft(b)' <= BootLeft(b0) /\ BootLeft(b)' \in Int
          <6>1. CASE StartOk
            <7>1. boot' \in BootTimes /\ sup = "start" /\ sup' = "record"
              BY <6>1 DEF StartOk, Sup
            <7>2. /\ BootLeft(b)' = boot'
                  /\ BootLeft(boot') = Pauses(MaxStartFails - startFails) + boot'
              BY <7>1 DEF BootLeft
            <7>3. QED
              BY <1>b, <7>1, <7>2
          <6>2. CASE StartFails
            <7>1. /\ sup = "start" /\ sup' = "backoff" /\ supWait' = Backoff
                  /\ startFails' = startFails + 1 /\ startFails < MaxStartFails
              BY <6>2 DEF StartFails, Sup
            <7>2. /\ MaxStartFails - (startFails + 1) \in Int
                  /\ MaxStartFails - startFails
                        = (MaxStartFails - (startFails + 1)) + 1
              BY <1>b, TimesAssumption
            <7>3. /\ Pauses(MaxStartFails - startFails)
                        = Pauses(MaxStartFails - (startFails + 1)) + Backoff
                  /\ Pauses(MaxStartFails - (startFails + 1)) \in Int
              BY <7>2, Multiples
            <7>4. /\ BootLeft(b)' =
                        Backoff + Pauses(MaxStartFails - (startFails + 1)) + b
                  /\ BootLeft(b) = Pauses(MaxStartFails - startFails) + b
              BY <7>1 DEF BootLeft
            <7>5. QED
              BY <1>b, <7>3, <7>4, TimesAssumption
          <6>3. CASE Assign \/ BackoffOver
            <7>1. /\ sup' \in {"assign", "start"} /\ sup \in {"backoff", "assign"}
                  /\ UNCHANGED <<supWait, startFails>>
              BY <6>3 DEF Assign, BackoffOver, Sup, childVars
            <7>2. /\ BootLeft(b)' = Pauses(MaxStartFails - startFails) + b
                  /\ \/ BootLeft(b) = Pauses(MaxStartFails - startFails) + b
                     \/ BootLeft(b)
                           = supWait + Pauses(MaxStartFails - startFails) + b
              BY <7>1 DEF BootLeft
            <7>3. QED
              BY <1>b, <7>2
          <6>4. CASE UNCHANGED <<sup, supWait, startFails, boot>>
            <7>1. BootLeft(b)' = BootLeft(b)
              BY <6>4 DEF BootLeft
            <7>2. BootLeft(b) \in Int
              BY <1>b DEF BootLeft
            <7>3. QED
              BY <7>1, <7>2
          <6>5. CASE Record \/ WaitReturns
            <7>1. /\ sup \in {"record", "wait"} /\ sup' \in {"wait", "exited"}
                  /\ UNCHANGED boot
              BY <6>5 DEF Record, WaitReturns, Sup, childVars
            <7>2. BootLeft(b)' = boot /\ BootLeft(b) = boot
              BY <7>1 DEF BootLeft
            <7>3. QED
              BY <1>b, <7>2
          <6>6. QED
            BY <1>2, <3>2, <6>1, <6>2, <6>3, <6>4, <6>5 DEF Next, SupStep,
               MonStep, SeenReady, MonitorStarts, Wakes, ProbeOk, ProbeFails,
               KillLocks, KillChecks, KillSignals, Listens, GoesDeaf, Recovers,
               Exits, Becomes, Fatal, supVars, childVars, vars
        <5>2. BootLeft(b0) < KillLeft /\ BootLeft(b0) \in Int
          BY <1>b, <2>4 DEF BootLeft
        <5>3. QED
          BY <1>a, <4>1, <5>1, <5>2
      <4>4. QED
        BY <4>2, <4>3
    <3>3. QED
      BY <3>1, <3>2
  <2>5. QED
    BY <2>1, <2>2, <2>3, <2>4 DEF BootInv
<1>3. QED
  BY <1>1, <1>2

\* bootGrace does protect a child that boots after a kill from another one, for
\* all intervals that leave it the time: its boot and a pause for each start
\* that may fail, and one more, within bootGrace and the failed probes that
\* follow it.
THEOREM GraceSuffices ==
    ASSUME BootsFit PROVE Spec => NoMidBootRekill
<1>1. Init => GraceInv
  <2>1. Init => Others
    BY TimesAssumption DEF Init, Others, Alive
  <2>2. QED
    BY <2>1 DEF Init, GraceInv, CmdInv, ChildInv, KillInv, FlagInv, BootInv,
       Launched
<1>2. GraceInv /\ [Next]_vars => GraceInv'
  BY OthersStep, CmdStep, ChildStep, KillStep, FlagStep, BootStep DEF GraceInv
<1>3. GraceInv /\ [Next]_vars =>
          [child = "booting" /\ reason = "watchdog" => ~KillSignals]_vars
  <2> SUFFICES ASSUME GraceInv, child = "booting", reason = "watchdog",
                      KillSignals
               PROVE  FALSE
    OBVIOUS
  <2>1. Rebooting /\ mon = "signal" /\ sup # "backoff"
    BY DEF GraceInv, ChildInv, KillSignals, AfterKill, Mon, Rebooting
  <2>2. QED
    BY <2>1 DEF GraceInv, BootInv
<1>4. QED
  BY <1>1, <1>2, <1>3, PTL DEF Spec, NoMidBootRekill
=============================================================================
