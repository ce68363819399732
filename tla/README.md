# A verification project for box-agent

box-agent (`src/`, Go) connects a local LLM backend, such as vLLM or Ollama,
to a router.  It keeps WebSocket connections to the router, answers the chat
requests that arrive on them by calling the backend, watches the backend's
health, optionally supervises the backend's process, and reports its state and
its request metrics to a management API.

This directory holds TLA+ models of it, the TLC runs that check them on small
instances, and theorems with proofs for TLAPS.  `PROJECT.json` lists the
components, the runs, the lines of code that each definition stands for, the
hazards, the findings and the theorems.

1. [The system](#1-the-system)
2. [The modules](#2-the-modules)
3. [The runs](#3-the-runs)
4. [Bounds](#4-bounds)
5. [Fairness](#5-fairness)
6. [What is proved](#6-what-is-proved)
7. [Where the code and its documentation disagree](#7-where-the-code-and-its-documentation-disagree)
8. [What is not modelled](#8-what-is-not-modelled)
9. [The plan](#9-the-plan)

## 1. The system

One process, many goroutines.  Nothing is persisted by the agent itself except
the token of its agent instance.

| component | code | state | operations |
|---|---|---|---|
| start-up | `main.go` `runAgent` | none of its own; it creates everything below | bring up Ollama, provision token, start reporter, deploy vLLM, authenticate, detect model info, register, start monitor and connection loops |
| connection loops | `main.go` `runConnLoop`, `connection.go` `connectAndServe` | a socket, a wait group | wait for the gate, dial, register, read, drain, unregister, close, sleep 5 s |
| router gate | `gate.go` | `healthy`, `conns`, a condition variable | `waitHealthy`, `setConn`, `clearConn`, `markUnhealthy`, `markHealthy`, `liveConnCount` |
| frames of a connection | `connection.go` `handleChat`, `handleBenchmark`; `backend.go` `chat`, `stream` | `writeMu`; per stream `toolCallOrder`, `toolCalls` | hello, ping handler, one handler per request, `clampMaxTokens` |
| health monitor | `backend.go` `monitorBackendHealth` | `consecutiveFails`, `healthy` | probe every 20 s, debounce, report, cut and reopen the gate, kill the child |
| shared cells | `backend.go` | `sharedHealth`, `sharedBackendState`, `sharedModelInfo`, the channel `notify` | set, get, `notifyBackendState` |
| status reporter | `reporter.go` `reportStatusLoop` | the report it assembles | on `notify` and on a timer: read the cells, post |
| vLLM supervisor | `vllm.go` | `cmd`, `killedByWatchdog`, `restartCount`, `lastExitReason` | `run` (start, wait, back off, for ever), `kill`, `status` |
| request metrics | `metrics.go`, `reporter.go` `reportMetricsLoop` | the current `requestWindow`: counters and latency buckets | `record*`, `swap`, `snapshot`, `p95FromBuckets` |
| management API client | `api.go` | the token cache file | one HTTP call per operation, `ensureAgentToken` |
| model information | `ollama.go`, `backend.go` | none | `ollamaModelInfo`, `huggingFaceRepoID`, `modelInfo` |
| Ollama control | `ollama.go` | none; the server it starts outlives it | `ensureOllamaInstalled`, `ensureOllamaRunning`, `pullModel` |
| host status, benchmark, debug log | `hoststatus*.go`, `vllmmetrics.go`, `benchmark.go`, `debug.go` | none | I/O and parsing |

How they interact:

```
            notify, state, info                     state, health, info
   main ------------------------> shared cells <----------------- status reporter --> management API
    |                              ^     ^                                                ^
    | starts                       |     | state, health, notify                         |
    +---> vLLM supervisor <-- kill-|-- health monitor ---- probe --> LLM backend         |
    |          | start, wait       |     | markUnhealthy, markHealthy     ^              |
    |          v                   |     v                                | chat, stream |
    |      vllm serve              |   router gate <-- waitHealthy -- connection loops   |
    |                              |        \--- Close ---> sockets       |              |
    +---> connection loops --------+                          ^           v              |
                                                    writeMu   |      one handler per     |
                                              ping handler ---+----- request             |
                                                                          | record*      |
                                                             request metrics <-- metrics loop
```

### What is hard in it

* **Interleaving.**  The gate couples N connection loops to one monitor through
  a registry, a condition variable and sockets that it closes from outside.
  `kill` and `run` share `cmd` under a mutex that neither holds while it waits
  or signals.  Handlers, pings and the hello share one socket.  A request may
  record into a window that the reporter swaps out and reads.
* **Order of effects.**  An outage changes four places one after another, a
  recovery changes them in another order, and the reporter reads them one by
  one.  The deferred calls of `connectAndServe` rely on their order.
* **Coalescing.**  A one-slot channel stands for any number of transitions.
* **Time.**  The watchdog debounces failures and pauses for a fixed grace while
  a child of unknown boot time comes up.
* **Partial failure.**  A stream may break after half of it has been passed on;
  `cmd.Start` may fail; the first boot may time out, and leave its child behind.
* **Restarts.**  A token cache, an instance at the management API and a backend
  process survive the agent, each at whatever point it died.
* **Liveness.**  Each loop runs for the life of the process, and none has
  anybody to restart it.

`PROJECT.json` "hazards" lists each of these at its line, with the properties
that cover it, or the reason why none does.

### What makes each component correct

* *Gate and connection loops*: an outage cuts every connection and blocks new
  ones; no loop is left waiting; reconnects leak neither sockets nor handlers
  nor registrations.
* *Frames*: one writer at a time; a stream reaches the router whole, in order,
  and is ended once; tool calls are reassembled; token caps hold; every request
  and every ping is answered.
* *Monitor, cells and status reporter*: the gate is a debounced switch on the
  probes; all signals of an outage agree; the last state is always reported; the
  state follows its lifecycle.
* *Monitor, gate and loops together*: an outage that is reported has cut the
  connections; a lasting one parks every loop, a lasting recovery brings every
  loop back.
* *vLLM supervisor*: a child that exits or stops answering is replaced, a child
  that is still booting is left alone; what `status` shows of it fits together.
* *Start-up*: an agent that is restarted orphans no instance of its own, and
  comes up in the end; a backend that is too slow for one run is there for a later
  one, where the service manager leaves it alone.
* *Request metrics*: what is recorded by a request that is through in time is put
  into one report, and nothing into two; a report is consistent; the p95 is that of
  a sample.

## 2. The modules

Six modules model one component each and are the whole state of it; one
composes two of them; three say, in a few lines, what a component promises, and
are implemented by its module.

| module | models | implements | used by |
|---|---|---|---|
| RouterGate | gate and connection loops | | AgentHealth |
| BackendStatus | monitor, shared cells, status reporter | DebouncedSwitch | AgentHealth |
| AgentHealth | monitor, gate and loops together | RouterGate, BackendStatus | |
| VllmSupervisor | supervisor, watchdog, child | ChildStatus | |
| RequestMetrics | windows, recording, reporting | | |
| ChatFrames | frames of one connection | Reply | |
| AgentStartup | `runAgent` over restarts | | |

The names of definitions are those of the code wherever TLA+ allows.
`MCX` is the module that TLC runs for `X`, and `X_proofs` holds its theorems;
`Counting_proofs` holds the facts about numbers and finite sets that two of them
share.
Definitions called
`X_Something` beside a definition `X` are faulty variants: they are never used
by the specification, and each shows that a property would notice that fault.

### RouterGate

`gate.go`, the life of a connection in `connection.go`, and `runConnLoop`.
`pc[c]` is the place of loop `c` between two operations that others can
observe.  A critical section of `routerGate.mu` is one action (`WaitHealthy`,
`SetConn`, `ClearConn`, `MarkUnhealthy`, `MarkHealthy`), and what the code does
after unlocking is not part of it: `CloseCut` closes one socket of the snapshot
at a time and `Broadcast` comes later.  `conns[c]` is the *number* of the
registered socket of loop `c`, so that an old socket and a new one of the same
loop differ.  The monitor is the caller of the gate, and when it calls is
unconstrained here; that it alternates is what `healthy` in
`monitorBackendHealth` ensures, and AgentHealth is where it is ensured.
`straggler` is a history variable.

### BackendStatus

`monitorBackendHealth` without its clock, the shared cells, `reportStatusLoop`
and the part of `runAgent` that writes the cells.  Every read or write of a
shared cell is an action of its own, in the order of the code, because that
order is what the properties are about.  `main` walks a script, which depends on
`-deploy-vllm`; an instruction that may call `log.Fatal` may end everything
(`MainFatal`).  Of a report the model keeps the three fields that are read from
cells which others write.  The monitor's own variable `healthy` is always equal
to `routerGate.healthy`, and `gate` stands for both.  `apiHung` says that the
management API takes requests and does not answer them: the monitor then stays
in `reportHealth`, whose client has no timeout.

**DebouncedSwitch** is what the gate is to the rest of the agent: a switch that
goes off once `Threshold` probes in a row have failed, on at the first good one,
and always before the next probe.  `GateIsDebounced` maps it to `gate` and to
the run of failed probes, `failRun`, and not to the counter of the code, which
the watchdog resets: that the counter serves as well is part of what the
refinement shows.

### VllmSupervisor

`vllmSupervisor.run` and `kill`, the process, and the watchdog with its timing.
Time is discrete: `Tick` passes one unit for every sleep and for the boot, and
waits for steps that take no time.  `kill` is three steps, since it reads
`cmd.Process` again and signals after it has released the mutex; `target` tells
whether the `cmd` it read is still that of the present child.  A child is
`booting` until its port answers, then `up`, and may become `deaf`: alive, but
refusing connections.  (A backend that accepts and does not answer is a matter
of BackendStatus, where it stops the monitor.)  `starts`, `aimed` and
`lastAimed` are history variables.

**ChildStatus** is what `status` may show of the child from one call to the next:
a launch is running first and counted after it, an exit ends the child and names
its reason at once, nothing else shows.  `StatusConsistent` maps it to the fields
that `status` reads under the mutex.

### RequestMetrics

A request carries a *plan*: the sequence of atomic adds that its handler makes,
which depends on how it goes.  Handlers add to the window they loaded, the
reporter swaps it out and reads it one counter at a time, in the order of
`snapshot`.  `Swap` is one action although `swap` loads and stores: it has only
one caller.  The p95 of a report is a pure function (`P95`) of the buckets.
A report that cannot be posted is dropped for good (`PostFails`), as the
documentation says.  Four history variables tell where the samples are: `added` is all
that was ever recorded, `reported` what was posted, `dropped` what was in a report
that could not be, and `cut` the requests that were under way when their window was
swapped out.

### ChatFrames

One socket, its read loop, its ping handler and its request handlers.  A write
is two actions, `StartWrite` under `writeMu` and `EndWrite`, so that overlapping
writes are a state.  A stream is a sequence of lines; of each line the model
keeps whether it holds content or reasoning, and which tool calls it continues.
A piece of content or reasoning is named by the number of its line, and a delta of
a tool call by that number and its place in the line, which is all that the order
and the wholeness of a stream depend on.  `StreamEnds` is `[DONE]` or the end
of the body, `StreamBreaks` an error of the scanner.  `out` is a history
variable.

**Reply** is what the router may count on for a request: chunks, one ending, and
nothing after it but an error frame that takes a final one back, with the ending
bound to come while the socket holds (`SafeSpec` is all of it but the latter).
`RepliesComplete` maps it to the history
of frames, its fairness included.

### AgentStartup

`runAgent` from its start to the connection loops, over restarts: the backend
that it brings up itself, the token and its cache (`ensureAgentToken`),
authentication, detection, registration.

`server` is the backend's process, which is not the agent's state: a child of an
agent, starting or up, or a service of its own.  With `-install-model` the agent
has Ollama installed, starts `ollama serve` unless one answers, waits 15 seconds
and pulls; with `-deploy-vllm` it launches vllm and waits
`-vllm-boot-timeout`.  When it gives up (`GivesUp`), the child goes on coming up
unless the service manager ends it with the agent (`flags.reaped`, which is
systemd's default), and the next run finds it: `AlreadyServes`, or in the case
of vllm `Deploy`, whose own child finds the port taken.  It may give up in every run,
as long as nothing answers: this is not a mishap, and nothing bounds it.

The management API is `issued` and `valid`; a token is the number of its
instance, and three more values stand for none, the operator's own and a part of
one.  `os.WriteFile` is two actions, since it truncates before it writes.  The
actions of `Mishaps` are everything that the backend, the API, the file system,
the process or an operator may do to the agent, and `excused` is the history of
the tokens that mishaps cost it.  Without a cache no run sees the token of another,
and an instance created in each would make the model infinite: they all have the
number 1 then (`Fresh`).

### AgentHealth

RouterGate extended by an instance of BackendStatus.  They share one variable:
`healthy` of the gate is `gate` of BackendStatus.  Where BackendStatus writes it,
`markUnhealthy` or `markHealthy` of RouterGate begins, and the monitor goes on
only after the call has returned (`mon = "idle"`), with every socket of the
snapshot closed or every waiter woken in between.  The connection loops start
after the monitor, as in `runAgent`, and a handler's request to a hung backend
does not return.  The reporter only reads the cells and is left out.

### How they compose

AgentHealth is where modules are composed; at the other places where they meet
they agree on the interface.  A handler of RouterGate
(`Receive`...`HandlerDone`) is a request of ChatFrames, whose `RepliesComplete`
justifies the fairness of `HandlerDone`, and a plan of RequestMetrics; the probe
of BackendStatus and that of VllmSupervisor are the same loop, seen with its
signals and with its clock; `Deploy` of AgentStartup is `main`'s script in
BackendStatus, and its `Supervised` the restart loop of VllmSupervisor.

## 3. The runs

Every run is `tlc -workers 2 -config X.cfg M`.

| run | module, cfg | what it shows |
|---|---|---|
| gate | MCRouterGate, MCRouterGate.cfg | below |
| gate_toctou | MCRouterGate, RouterGateToctou.cfg | a counterexample, section 7 |
| status | MCBackendStatus, MCBackendStatus.cfg | below |
| status_hung | MCBackendStatus, BackendStatusHung.cfg | a counterexample, section 7 |
| health | MCAgentHealth, MCAgentHealth.cfg | below |
| vllm | MCVllmSupervisor, MCVllmSupervisor.cfg | below |
| vllm_slow_boot | MCVllmSupervisor, VllmSlowBoot.cfg | a counterexample, section 7 |
| metrics | MCRequestMetrics, MCRequestMetrics.cfg | below |
| metrics_lost | MCRequestMetrics, RequestMetricsLost.cfg | a counterexample, section 7 |
| chat | MCChatFrames, MCChatFrames.cfg | below |
| chat_final_error | MCChatFrames, ChatFinalAndError.cfg | a counterexample, section 7 |
| startup | MCAgentStartup, MCAgentStartup.cfg | below |

**gate.**  `NoLostWakeup`: a loop that is blocked in `cond.Wait` while the
backend is healthy has its broadcast still to come.  `RegistryMatchesLoops`: the
registry holds just the sockets that loops serve or wind up, so that
`liveConnCount` is right and `clearConn` never takes out a later socket.
`CleanReconnect`: a reconnect leaves no socket open and no handler running.
`CutIsComplete`: during an outage a socket is live only until the snapshot
reaches it, or if its loop had passed `waitHealthy` before.
`WaitersReleased`, `DroppedConnReconnects`: every parked loop is released, and
every loop that lost its socket comes back to the gate.

**status.**  `NoStaleReport`: if the last report is out of date, another one is
on its way, although a burst of transitions shares one slot.  `SignalsAgree`:
between probes the gate, the shared health, the last `reportHealth` and the
state say the same.  `GateIsDebounced`: the monitor and the gate implement
DebouncedSwitch, so that the gate closes after three failures in a row and no
fewer, opens at the first good probe, and moves before the next.  `StateOrder`: the state
moves along its lifecycle, so that an outage does not begin inside another.
`OutageReachesGate`, `RecoveryReachesGate`: a backend that stays down is cut
off, and one that stays up is connected, unless the management API hangs:
`reportHealth` comes before the gate and has no timeout, so that with a hung API
neither would hold.

**health.**  `ReportedOutageIsCut`: when the state that goes to the management
API is one of an outage, every connection is closed already, but those that were
being dialed when it was flagged.  `OutageParksLoops`: a backend that stays down
leaves every loop parked at the gate, its handlers drained, or on that one
connection.  `RecoveryRedials`: a backend that stays up has every loop serve or
dial again and again.  Both go from the probe to the socket, through the
debounce, the calls to the API, `markUnhealthy` or `markHealthy`, and the
unwinding of `connectAndServe`.

**vllm.**  `ReasonNotStale`: an exit is put down to the watchdog only if `kill`
was called on that child.  `RestartCountCorrect`: the count is that of the
launches after the first, whatever starts failed.  `StatusConsistent`: what
`status` shows implements ChildStatus.  `NoMidBootRekill`: after a
kill the child that boots is not killed again, as long as it boots within the
time that `bootGrace` covers.  `DeafIsRestarted`, `ExitIsRestarted`: a child
that does not answer is killed, and one that has exited is started again.

**metrics.**  `NeverCountedTwice`: nothing is in two reports.
`ReportBracketed`: a report holds all that was recorded by requests that were
through at the swap, and nothing from requests of another window.
`P95OfSample`: the p95 is the edge of a bucket that holds a sample, and no more
than a twentieth of the samples and one are beyond it; only a request that was
under way across the swap, between its count and its bucket, lets the walk run
off the buckets, and the p95 is the last edge then.  `OnlyCutLost`: over all windows
so far, the reports and the live window hold all that was ever recorded but for
samples of requests that were under way when their window was swapped out.  A sample in
a report is not a sample that has arrived: a report whose POST fails is dropped, and
what it held is not made up for (`dropped`), which `TELEMETRY.md:31-32` allows for.

**chat.**  `OneWriter`: no two frames are written at a time.  `StreamFaithful`:
the chunks of a stream are its pieces, each once and in order, all of them
before the frame that ends the request.  `ToolCallsWhole`: the final frame holds
one tool call for each index, in the order in which they came up, each with all
its pieces in order.  `TokensWithinCaps`: no cap that is set is exceeded, and
the router is told what was used just when that differs from what was asked.
`RepliesComplete`: the frames implement Reply, so that every request is ended,
once, or once with a final frame that an error frame takes back.
`PingAnswered`: the pong is written although chunks keep the socket busy.

**startup.**  `OrphansExcused`: with a token cache, an instance is orphaned only
by a mishap between its creation and the end of the write, or by one that kept
its token from being read or probed; a restart at any other point, and a token
that is refused, orphan nothing.  `ComesUp`: whatever mishaps there were, once they
are over the agent gets to serve, or it gives up a slow server again and again for
ever; no run is lost to anything else.  `SlowServerIsFound`: the latter happens only
where the service manager ends the child with the agent; elsewhere the child of one
run is there for the next, however long it takes to come up.  The unit file in
`deploy/systemd` leaves `KillMode` at systemd's default, which does end the child.  So
under that unit a box on which `ollama serve` takes more than 15 seconds every time
(`ollama.go:183-189`), or vllm more than `-vllm-boot-timeout` (`main.go:281-283`),
never comes up, each run starting from nothing; the model has that behaviour, and no
property excludes it.

Deadlock is checked in all runs but those of ChatFrames and AgentStartup.  A
connection that has dropped, with its handlers through, is at its end, and its
loop reconnects, which is RouterGate's subject; an agent that serves, with no
mishaps left to come, has nothing left to do in AgentStartup.

## 4. Bounds

* **RouterGate**: two loops, two sockets per loop, one handler at a time per
  loop.  Two sockets are what it takes to tell a stale registration from a
  current one, and two loops to have one wait while another dials or drains;
  loops do not otherwise interact.  The theorems lift all three bounds.
* **BackendStatus**: the threshold of the code, 3.  There is no other bound;
  `fails` stops at `Threshold + 1`, above which the code makes no difference.
* **AgentHealth**: the threshold of the code, one loop, three dials and two
  handlers at a time.  Three dials are one that is cut, one across the outage and
  one after it; two handlers are one that returns and one that a hung backend
  keeps.  How loops interact is the subject of gate, whose theorems hold of the
  composition (`HealthImplementsGate`).
* **VllmSupervisor**: the code's intervals in units of ten seconds, boots of 20
  and of 210 seconds, one failure of `cmd.Start` in a row, launches counted
  modulo 3.  After a kill, with a failed start on the way, the third failed
  probe comes after 18 + 3 * 2 = 24 units, of which two back-offs take two: the
  longest boot that is certain to be over by then is one of 21 units.
  Counting modulo 3 tells every off-by-one from the truth.  `MaxStartFails` also
  stands for the assumption that a start succeeds in the end.
* **RequestMetrics**: two requests, one series of latencies (the two series have
  the same code), two bucket boundaries, a sample beyond both.  Two requests are
  one that is through at the swap and one that is not; the sample lies beyond
  the boundaries because a rank that is truncated to zero shows only there.  The two
  requests are symmetric.  The number of windows is not bounded.
* **ChatFrames**: one request of up to two lines with four kinds of lines, next
  to one whose stream is empty, and any number of pings, one at a time.  Two
  lines let tool calls interleave within a line, where an index may come twice, and
  across lines.  The caps are 3 and 2, with requests above both and below both: the wrong comparison of the
  two shows.
* **AgentStartup**: four mishaps, and five instances, one more than that many
  mishaps can cost: `MaxInstances` never blocks the agent.  Four let a second
  write fail after a first, with a crash and a probe that fails in between.  How
  often the agent gives up a slow server is not bounded.

## 5. Fairness

* Goroutines that can run do run: weak fairness of each loop's steps.
* A call to the router returns, and so does one to the management API except in
  BackendStatus and AgentHealth, where the API may hang and the liveness
  properties speak of one that in the end does not (`apiHung`).  The HTTP clients
  have no timeout, so this is an assumption about the other side; where the code
  depends on it without need, section 7 says so (`HungIsFlagged` is checked
  without an assumption that a hung probe returns).
* In RouterGate, a handler's call to the backend returns (`HandlerDone`), and
  nothing is assumed of frames, drops, outages and recoveries.  The backend client
  has no timeout, so this is an assumption about the backend: `DroppedConnReconnects`
  covers a handler that is slow.  One that never returns keeps its loop in `wg.Wait`
  (`connection.go:84`), and no property speaks of that.
* In BackendStatus only the monitor is fair, and the backend may change at any
  time: the liveness properties speak of a backend that stays as it is.
* AgentHealth has the fairness of these two: the monitor's steps, those of the
  calls it makes, each loop's steps, and the return of a handler's call while the
  backend is not hung.
* In VllmSupervisor a booting child comes to listen (`Listens`) and time passes;
  that a child goes deaf, recovers or exits is owed to nobody.
* In AgentStartup a server that nobody ends comes to listen (`Listens`), some
  time.  The agent's steps are taken and, since `Start` is one of them,
  it is started again whenever it has ended: `Restart=always` in
  `deploy/systemd/box-agent.service`.  Under a service manager without it,
  `ComesUp` does not hold.  A server need not come to listen within a run.
* RequestMetrics has no liveness property and no fairness.
* In ChatFrames the write of a frame returns, that is, the router reads.  Getting
  `writeMu` takes strong fairness, because it is free again and again without
  being granted: `sync.Mutex` goes into starvation mode after a waiter has
  waited for a millisecond, and hands itself over in order.

## 6. What is proved

TLAPS checks the following for every value of the constants that the ASSUMEs
admit.

| module | theorem | states |
|---|---|---|
| RouterGate_proofs | TypeCorrect | `TypeOK` |
| | WakeupsNotLost | `NoLostWakeup` |
| | RegistryCorrect | `RegistryMatchesLoops` |
| | ReconnectIsClean | `CleanReconnect` |
| | CutCorrect | `CutIsComplete` |
| BackendStatus_proofs | TypeCorrect | `TypeOK` |
| | CoalescingCorrect | `NoStaleReport` |
| | SignalsCorrect | `SignalsAgree` |
| | DebounceCorrect | `GateIsDebounced`: BackendStatus implements DebouncedSwitch |
| | LifecycleCorrect | `StateOrder` |
| AgentHealth_proofs | HealthImplementsGate | AgentHealth implements RouterGate |
| | HealthImplementsStatus | AgentHealth implements BackendStatus |
| | ReportedOutageCorrect | `ReportedOutageIsCut` |
| VllmSupervisor_proofs | TypeCorrect | `TypeOK` |
| | StatusCorrect | `StatusConsistent`: VllmSupervisor implements ChildStatus |
| | ReasonCorrect | `ReasonNotStale` |
| | RestartsCounted | `RestartCountCorrect` |
| | GraceSuffices | `NoMidBootRekill`, if `BootsFit` |
| RequestMetrics_proofs | TypeCorrect | `TypeOK` |
| | CountedOnce | `NeverCountedTwice` |
| | ReportsBracketed | `ReportBracketed` |
| | P95Sound | `P95OfSample` |
| | LossBounded | `OnlyCutLost` |
| ChatFrames_proofs | TypeCorrect | `TypeOK` |
| | WritesExclude | `OneWriter` |
| | StreamsFaithful | `StreamFaithful` |
| | CallsWhole | `ToolCallsWhole` |
| | CapsRespected | `TokensWithinCaps` |
| | RepliesSound | ChatFrames implements the safety of Reply (`SafeSpec`) |
| AgentStartup_proofs | TypeCorrect | `TypeOK` |
| | OrphansAreExcused | `OrphansExcused` |

**RouterGate.**  The safety properties are inductive together once two facts are
added: a live socket belongs to a loop that has dialed it and not yet seen its
end (`LiveIsServing`), without which a new socket could be in an old snapshot;
and a loop past `waitHealthy` during an outage is that outage's straggler
(`StragglersCommitted`), without which `CutIsComplete` fails at `SetConn`.

**BackendStatus.**  `NoStaleReport` is inductive by itself, given that the
script of `main` notifies after each write (`ScriptNotifies`).  The other three
need what the signals, the counters and the state are at each point of the
monitor: `SignalInv`, `CountInv` and `StateInv`, the last of which follows
`main` through its script first.  `CountInv` says why an outage under
`-deploy-vllm` is flagged although the watchdog resets the count that flags it:
the test for the outage comes first, on the same count.  It also carries the
refinement: the gate is off where it should not be, or on, only between the
verdict on a probe and the write of the gate, which is where DebouncedSwitch has
its `Move`.

**AgentHealth.**  The two refinements need no invariant: each step of the
composition is one of the module or leaves its variables alone.  So every safety
theorem of both holds of the composition, and `ReportedOutageIsCut` follows from
`CutIsComplete` and `OutageOrder`, which places the monitor: the state tells an
outage only after `markUnhealthy` has returned, and no more once `markHealthy`
can be called.

**VllmSupervisor.**  `ReasonInv` says that the flag of a child implies that it
was aimed at, which `Assign` restores by clearing both in one critical section.
`CountInv` relates `restartCount`, `firstLaunch` and the starts, with `run` one
behind between `Start` and its lock.  For the refinement of ChildStatus that gap
is what `counted` tells: a child may not exit as far as `status` can see before
it has been counted, because `run` only then comes to `Wait`.

`GraceSuffices` has an assumption, `BootsFit`: there is a pause before a
relaunch, and every boot, with such a pause for each start that may fail and one
more, is shorter than `bootGrace` and the failed probes after it together.  Its
invariant compares what is left of both, `BootLeft` and `KillLeft`: only `Tick`
lowers the latter, and it lowers the former by as much.  The assumption cannot
simply be dropped: the constants of the vllm_slow_boot run break it, and there
the kill is found.

**RequestMetrics.**  The invariant says what the two windows hold: exactly what
the requests that loaded them have added so far (`Exact`), counted unit by unit,
each named by its request and its place in the plan (`Units`), so that one more
step of one handler is one more block of units (`MadeOneMore`).  The swap hands the
old window over together with its requests, hence `Bracketed`: as long as it is
read, each field lies between what the settled requests come to and what all
requests of the window do.  `ReadSoFar` carries the lower bound to what has been
read.  The one place where it could fail is a latency that `snapshot` skips, and
`NothingSkipped` shows that then no settled request has one: the count, the sum and
the bucket of a latency are in a plan together (`PlanShape`), and the count is read
first (`ReadsOrder`).  `Conserved` is the bound of `NeverCountedTwice`, with the
swapped window in the place of the report.  For `OnlyCutLost`, `Exact` also says that
`added` is what all requests have made so far, and `Past` that what those who were
through with windows now gone come to is in the reports, posted or dropped: the lower
bound of each finished report, added up over the windows (`ThroughGrows`).  With no
window being read, whoever is neither one of them nor cut holds the live one.

For the p95, `CumulativeSums` says that the running sum over the buckets only grows
and grows only at a bucket that holds a sample, so that the first bucket to reach
the rank holds one; `TargetBounds` is the arithmetic of the truncated rank.  That
the walk reaches the rank is `CountedInBuckets`: unless the swap cut a request off,
what the buckets hold comes to the count at least, because the samples of the
settled requests map one to one into the buckets, bucket by bucket.

**ChatFrames.**  `WriteInv` says that whoever is inside a write has the frame
still pending, and that a handler that has not heard from the backend has sent
nothing.  `CapInv` carries what a frame tells from where it is made to the wire.
`Flow` is the argument for Reply: while a handler reads its stream all that it
has sent and will send are chunks, and once it is done what is pending and what
is on the wire fit together in one of five ways (`Due`).  A dropped socket is why
`Due` is claimed of an open one only: the final frame may be lost and the error
frame after it still be pending.

`StreamInv` is the argument for a whole stream: on a socket that holds, the pieces
on the wire and those pending are together the pieces of the lines so far, in order,
the former before the latter.  A line adds pieces behind all of them (`LineStreams`),
and a write moves the first pending one over (`WriteStreams`).  A handler reads the
next line only when nothing is pending, which is why an ending comes behind all
pieces.  `ToolInv` says that `toolCallOrder` and `toolCalls` are those of the deltas
so far: each index once, at its first delta, each with its deltas in order
(`Assembled`).  `DeltaAssembled` is one delta, `Accumulates` those of a line.

**AgentStartup.**  `TokenInv` and `FileInv` say what is known of the token in
memory and of that in the file at each point of `runAgent`: one that is about to
be given up is refused by the API, known elsewhere, or excused already.  The
proof shows why the order of `ensureAgentToken` matters: the file is truncated
only when the token in it has been refused or excused.

The assumptions are those of the modules: a positive threshold, intervals and
bounds that are naturals, boundaries and plans of the shape the code gives them.

The sum over the buckets and the tool calls of a line are recursive functions, and
what holds of all their values would take an induction.  Instead, `LeastNumber`
(Counting_proofs) says that a set of naturals has a least member: were the claim
false somewhere, it would be false at a first place, whose predecessor then leads to
a contradiction.

With this, every safety property that a passing run checks is a theorem.  Only
model-checked are the liveness properties, which are out of the prover's reach:
`WaitersReleased`, `DroppedConnReconnects`, `OutageReachesGate`,
`RecoveryReachesGate`, `OutageParksLoops`, `RecoveryRedials`, `DeafIsRestarted`,
`ExitIsRestarted`, `PingAnswered`, `ComesUp`, `SlowServerIsFound`, and in
`RepliesComplete` that an ending comes.  The five properties of the runs that find
a counterexample do not hold, and there is nothing to prove of them.

## 7. Where the code and its documentation disagree

Each of the first five has a run that finds the counterexample.

* **A connection dialed during `markUnhealthy` survives the outage**
  (gate_toctou).  `connectAndServe` passes the gate, dials and registers in
  three steps.  `gate.go:12-14` says that every open connection is closed.
  `CutIsComplete` shows that this is the only exception, one socket per loop.
* **A hung backend is never flagged** (status_hung).  The probe has no timeout,
  so the monitor waits for ever on a backend that accepts and does not answer,
  which is what `vllm.go:141-144` says it recovers from.
* **A slow reboot is killed again in mid-boot** (vllm_slow_boot).  Four minutes
  after a kill the watchdog kills again, while the first boot of the same
  command is allowed fifteen.
* **Samples are lost** (metrics_lost).  A request that is under way when its
  window is swapped out records the rest into a window that nobody reads.
* **A broken stream ends twice** (chat_final_error).  `stream` calls `onFinal`
  and then returns the error, so that the router gets a final frame and then an
  error frame, where the protocol says one instead of the other.
* **A vllm that a dead agent left behind is taken for the new one.**  The child
  outlives the agent that gave up on it (`log.Fatal`, or a crash), keeps the
  port, and answers for a child of the next agent that cannot have it.
  `main.go:57` says that the agent "owns the vllm process end-to-end".
  AgentStartup has the path; whether it is a flaw depends on the service manager.
* **The health alert and the status report may differ.**  The one is sent before
  `sharedHealth` is set and the other reads it, where `TELEMETRY.md:25-26` says
  that they "can never disagree".  `SignalsAgree` holds between probes only.
* **vllm_process comes later than the states it is told for.**  It is absent in
  `downloading_model`, and may not be running yet in `booting`, against
  `TELEMETRY_API_SPEC.md:146-147`.
* **A catalog without the model describes it.**  `modelInfo` takes the first card
  of a catalog of any length when no id matches, where `backend.go:272-273` says
  that it falls back to the *sole* entry.
* Also without a run: p95 truncates its rank, so that of three samples it is the
  second; `effective_max_tokens` is also set for the context length; a stream
  may have no chunk at all; a backend that is not up at start is `starting`
  rather than `unhealthy` until the third failed probe; a cached token whose
  probe fails for any reason is taken for an invalid one.

## 8. What is not modelled

* **The bodies of registerModel, reportStatus, reportMetrics, reportHealth**:
  each call is stateless.  It is a step of its caller's module, with its outcomes
  as inputs.
* How **Ollama's answer, a model's name and a catalog** are parsed: functions of
  strings and JSON, copied into the registration.  AgentStartup has the calls.
* **install-model and delete-model** as subcommands: the calls of
  `-install-model`, or one of their kind, made once.
* **Usage, finish reasons, logprobs, sampling parameters**: copied from one
  structure to another; averages and rates of a metrics report: quotients of
  the modelled sums.
* The **command line of vLLM**, its installation, its download and its log file;
  **host status**, **vLLM's /metrics**, the host part of the
  **benchmark**: external commands, I/O and parsing.
* A half-open TCP connection: ChatFrames and RouterGate let a read fail when the
  socket is gone; how long that takes is up to TCP, and no property depends on
  it.
* **Flags** and their validation, **debug log**, **version**, `cmd/fakellm`, and
  the **deployment scripts**.

## 9. The plan

Written so far, in this order: RouterGate, BackendStatus, VllmSupervisor,
RequestMetrics, ChatFrames, AgentStartup; then AgentHealth, the abstract
specifications DebouncedSwitch, ChildStatus and Reply with their refinements, and
the backend's process in AgentStartup; with the proofs of section 6.  Next:

1. **RouterGate** with a handler that never returns, which is what hazard
   `connection.go:84` is about, in a run of its own.
2. **AgentHealth** with two loops, and with the child of VllmSupervisor as the
   backend, so that a kill by the watchdog is followed to the reconnect.
3. Properties of single steps, proved from the invariants there are: that the token
   of an instance is overwritten in the cache only once it is excused, that a socket
   once closed is never registered again.
