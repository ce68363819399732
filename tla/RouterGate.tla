----------------------------- MODULE RouterGate -----------------------------
(***************************************************************************)
(* The router connections of one agent process and the gate that couples   *)
(* them to the backend's health (gate.go, connection.go, runConnLoop in    *)
(* main.go).                                                               *)
(*                                                                         *)
(* Each connIdx in Conns has one goroutine that runs connectAndServe for   *)
(* ever.  pc[c] says where it is:                                          *)
(*                                                                         *)
(*   gate    about to lock mu in gate.waitHealthy                          *)
(*   waiting blocked in cond.Wait                                          *)
(*   dial    past waitHealthy, inside agentDialer.Dial                     *)
(*   dialed  the socket exists, gate.setConn not yet called                *)
(*   serve   registered, in the read loop                                  *)
(*   drain   the read loop returned, in the deferred wg.Wait               *)
(*   clear   about to run the deferred gate.clearConn                      *)
(*   close   about to run the deferred conn.Close                          *)
(*   sleep   the five seconds before the next attempt                      *)
(*                                                                         *)
(* One more goroutine, monitorBackendHealth, calls markUnhealthy and       *)
(* markHealthy in alternation.  A critical section of gate.mu is one       *)
(* action; what markUnhealthy and markHealthy do after unlocking is not.   *)
(***************************************************************************)
EXTENDS Naturals, FiniteSets

CONSTANTS
    Conns,        \* the connection loops
    MaxDials,     \* bound: sockets a loop ever opens
    MaxInFlight   \* bound: handler goroutines of one loop at a time

ASSUME BoundsAssumption == MaxDials \in Nat \ {0} /\ MaxInFlight \in Nat

VARIABLES
    healthy,    \* routerGate.healthy
    conns,      \* routerGate.conns: the number of the registered socket, 0 if none
    mon,        \* what the monitor is doing: idle, closing (in the loop of
                \* markUnhealthy that closes), broadcast (markHealthy has
                \* unlocked and not yet broadcast)
    cut,        \* the sockets markUnhealthy's snapshot still has to close
    pc,         \* the position of each loop
    sock,       \* the number of the latest socket each loop dialed
    open,       \* the sockets this process has not closed
    gone,       \* those of them that the router or the network has dropped
    inflight,   \* the wait group: handler goroutines of each loop
    straggler   \* history: the one socket each loop was already committed to
                \* when markUnhealthy ran, 0 if none

gateVars == <<healthy, conns, mon, cut>>
loopVars == <<pc, sock, open, gone, inflight>>
vars == <<healthy, conns, mon, cut, pc, sock, open, gone, inflight, straggler>>

Sockets == Conns \X (1..MaxDials)
Current(c) == <<c, sock[c]>>
Live == open \ gone
Registered == {<<c, conns[c]>> : c \in {d \in Conns : conns[d] # 0}}

Init ==
    /\ healthy = TRUE
    /\ conns = [c \in Conns |-> 0]
    /\ mon = "idle"
    /\ cut = {}
    /\ pc = [c \in Conns |-> "gate"]
    /\ sock = [c \in Conns |-> 0]
    /\ open = {}
    /\ gone = {}
    /\ inflight = [c \in Conns |-> 0]
    /\ straggler = [c \in Conns |-> 0]

Goto(c, from, to) == pc[c] = from /\ pc' = [pc EXCEPT ![c] = to]

-----------------------------------------------------------------------------
(* The connection loops *)

\* Faulty variant: the loop dials without asking the gate.
WaitHealthy_Ignored(c) ==
    /\ Goto(c, "gate", "dial")
    /\ UNCHANGED <<gateVars, sock, open, gone, inflight, straggler>>

\* The condition loop of waitHealthy, under mu: pass, or join the waiters.
WaitHealthy(c) ==
    /\ Goto(c, "gate", IF healthy THEN "dial" ELSE "waiting")
    /\ UNCHANGED <<gateVars, sock, open, gone, inflight, straggler>>

DialOk(c) ==
    /\ sock[c] < MaxDials
    /\ Goto(c, "dial", "dialed")
    /\ sock' = [sock EXCEPT ![c] = @ + 1]
    /\ open' = open \cup {<<c, sock[c] + 1>>}
    /\ UNCHANGED <<gateVars, gone, inflight, straggler>>

DialFail(c) ==
    /\ Goto(c, "dial", "sleep")
    /\ UNCHANGED <<gateVars, sock, open, gone, inflight, straggler>>

SetConn(c) ==
    /\ Goto(c, "dialed", "serve")
    /\ conns' = [conns EXCEPT ![c] = sock[c]]
    /\ UNCHANGED <<healthy, mon, cut, sock, open, gone, inflight, straggler>>

\* A chat or benchmark frame: one more goroutine in the wait group.
Receive(c) ==
    /\ pc[c] = "serve"
    /\ Current(c) \in Live
    /\ inflight[c] < MaxInFlight
    /\ inflight' = [inflight EXCEPT ![c] = @ + 1]
    /\ UNCHANGED <<gateVars, pc, sock, open, gone, straggler>>

\* Faulty variants: wg.Done called twice, and never.
HandlerDone_Twice(c) ==
    /\ inflight' = [inflight EXCEPT ![c] = @ - 1]
    /\ UNCHANGED <<gateVars, pc, sock, open, gone, straggler>>

HandlerDone_Never(c) == inflight[c] > 0 /\ UNCHANGED vars

HandlerDone(c) ==
    /\ inflight[c] > 0
    /\ inflight' = [inflight EXCEPT ![c] = @ - 1]
    /\ UNCHANGED <<gateVars, pc, sock, open, gone, straggler>>

\* ReadMessage fails once the socket is closed, by either side.
ReadError(c) ==
    /\ Current(c) \notin Live
    /\ Goto(c, "serve", "drain")
    /\ UNCHANGED <<gateVars, sock, open, gone, inflight, straggler>>

\* The deferred calls, last in first out: wg.Wait, clearConn, conn.Close.
\* Faulty variants: each of them left out.
WgWait_NoJoin(c) ==
    /\ Goto(c, "drain", "clear")
    /\ UNCHANGED <<gateVars, sock, open, gone, inflight, straggler>>

WgWait(c) ==
    /\ inflight[c] = 0
    /\ Goto(c, "drain", "clear")
    /\ UNCHANGED <<gateVars, sock, open, gone, inflight, straggler>>

ClearConn_Forgotten(c) ==
    /\ Goto(c, "clear", "close")
    /\ UNCHANGED <<gateVars, sock, open, gone, inflight, straggler>>

ClearConn(c) ==
    /\ Goto(c, "clear", "close")
    /\ conns' = [conns EXCEPT ![c] = 0]
    /\ UNCHANGED <<healthy, mon, cut, sock, open, gone, inflight, straggler>>

CloseConn(c) ==
    /\ Goto(c, "close", "sleep")
    /\ open' = open \ {Current(c)}
    /\ gone' = gone \ {Current(c)}
    /\ UNCHANGED <<gateVars, sock, inflight, straggler>>

Sleep(c) ==
    /\ Goto(c, "sleep", "gate")
    /\ UNCHANGED <<gateVars, sock, open, gone, inflight, straggler>>

\* The router or the network drops a connection at any time.
Drop(c) ==
    /\ Current(c) \in Live
    /\ gone' = gone \cup {Current(c)}
    /\ UNCHANGED <<gateVars, pc, sock, open, inflight, straggler>>

-----------------------------------------------------------------------------
(* The monitor's calls *)

\* The socket a loop may still open or register without asking the gate again.
Committed(c) ==
    CASE pc[c] = "dial"   -> sock[c] + 1
      [] pc[c] = "dialed" -> sock[c]
      [] OTHER            -> 0

MarkUnhealthy ==
    /\ mon = "idle"
    /\ healthy
    /\ healthy' = FALSE
    /\ cut' = Registered
    /\ mon' = "closing"
    /\ straggler' = [c \in Conns |-> Committed(c)]
    /\ UNCHANGED <<conns, loopVars>>

CloseCut ==
    /\ mon = "closing"
    /\ \E s \in cut :
          /\ open' = open \ {s}
          /\ gone' = gone \ {s}
          /\ cut' = cut \ {s}
    /\ UNCHANGED <<healthy, conns, mon, pc, sock, inflight, straggler>>

MarkUnhealthyReturns ==
    /\ mon = "closing"
    /\ cut = {}
    /\ mon' = "idle"
    /\ UNCHANGED <<healthy, conns, cut, loopVars, straggler>>

\* Faulty variant: markHealthy without the broadcast.
MarkHealthy_Silent ==
    /\ mon = "idle"
    /\ ~healthy
    /\ healthy' = TRUE
    /\ UNCHANGED <<conns, mon, cut, loopVars, straggler>>

MarkHealthy ==
    /\ mon = "idle"
    /\ ~healthy
    /\ healthy' = TRUE
    /\ mon' = "broadcast"
    /\ UNCHANGED <<conns, cut, loopVars, straggler>>

\* Faulty variant: cond.Signal, which wakes one waiter.
Broadcast_Signal ==
    /\ mon = "broadcast"
    /\ mon' = "idle"
    /\ \/ \E c \in Conns : Goto(c, "waiting", "gate")
       \/ (\A c \in Conns : pc[c] # "waiting") /\ UNCHANGED pc
    /\ UNCHANGED <<healthy, conns, cut, sock, open, gone, inflight, straggler>>

\* cond.Broadcast: every waiter wakes and checks the condition again.
Broadcast ==
    /\ mon = "broadcast"
    /\ mon' = "idle"
    /\ pc' = [c \in Conns |-> IF pc[c] = "waiting" THEN "gate" ELSE pc[c]]
    /\ UNCHANGED <<healthy, conns, cut, sock, open, gone, inflight, straggler>>

-----------------------------------------------------------------------------
LoopStep(c) ==
    \/ WaitHealthy(c) \/ DialOk(c) \/ DialFail(c) \/ SetConn(c)
    \/ ReadError(c) \/ WgWait(c) \/ ClearConn(c) \/ CloseConn(c) \/ Sleep(c)

MonitorStep == CloseCut \/ MarkUnhealthyReturns \/ Broadcast

Next ==
    \/ \E c \in Conns :
          LoopStep(c) \/ Receive(c) \/ HandlerDone(c) \/ Drop(c)
    \/ MonitorStep \/ MarkUnhealthy \/ MarkHealthy

Spec == Init /\ [][Next]_vars

(***************************************************************************)
(* Every goroutine that can run, runs, and a handler's call to the backend *)
(* returns.  Frames, drops and the backend's health are the environment's  *)
(* and get no fairness.                                                    *)
(***************************************************************************)
FairSpec ==
    /\ Spec
    /\ WF_vars(MonitorStep)
    /\ \A c \in Conns : WF_vars(LoopStep(c)) /\ WF_vars(HandlerDone(c))

-----------------------------------------------------------------------------
PCs == {"gate", "waiting", "dial", "dialed", "serve", "drain", "clear",
        "close", "sleep"}

\* Every variable has its type.
TypeOK ==
    /\ healthy \in BOOLEAN
    /\ conns \in [Conns -> 0..MaxDials]
    /\ mon \in {"idle", "closing", "broadcast"}
    /\ cut \subseteq Sockets
    /\ pc \in [Conns -> PCs]
    /\ sock \in [Conns -> 0..MaxDials]
    /\ open \subseteq Sockets
    /\ gone \subseteq open
    /\ inflight \in [Conns -> 0..MaxInFlight]
    /\ straggler \in [Conns -> 0..MaxDials + 1]

\* No wakeup is lost between the condition check and the broadcast: a loop
\* blocked in cond.Wait is blocked during an outage, or the broadcast that
\* will wake it is still to come.
NoLostWakeup ==
    \A c \in Conns : pc[c] = "waiting" => ~healthy \/ mon = "broadcast"

\* The registry holds, for each loop, exactly the socket that loop is serving
\* or winding up: clearConn never removes a later socket and no socket stays
\* registered once its loop has moved on.
RegistryMatchesLoops ==
    \A c \in Conns :
        conns[c] = IF pc[c] \in {"serve", "drain", "clear"} THEN sock[c] ELSE 0

\* A reconnect leaves nothing of the last connection behind.  A socket that is
\* not closed is the latest its loop dialed, and that loop has not yet gone
\* back to sleep; and the wait group has joined every handler of a connection
\* before it is unregistered and closed.
CleanReconnect ==
    /\ \A s \in open :
          /\ s = Current(s[1])
          /\ pc[s[1]] \in {"dialed", "serve", "drain", "clear", "close"}
    /\ \A c \in Conns : inflight[c] > 0 => pc[c] \in {"serve", "drain"}

\* markUnhealthy misses no socket it could know of: during an outage a socket
\* is live only while the snapshot still has to close it, or as the single
\* socket its loop had got past waitHealthy for when the outage was flagged.
CutIsComplete ==
    ~healthy => \A s \in Live : s \in cut \/ s[2] = straggler[s[1]]

\* Once the backend stays healthy no loop stays parked at the gate.
WaitersReleased ==
    <>[]healthy => \A c \in Conns : []<>(pc[c] # "waiting")

\* A socket that was closed, by the router or by markUnhealthy, leaves the
\* count of live connections and its loop goes back to the gate.
DroppedConnReconnects ==
    \A c \in Conns :
        (conns[c] # 0 /\ Current(c) \notin Live) ~> (pc[c] = "gate")

\* What gate.go says of an outage: "it force-closes every open connection and
\* blocks new dials", so that once markUnhealthy has returned no registered
\* connection is live until the backend is healthy again.
NoConnWhileUnhealthy ==
    ~healthy /\ mon = "idle" => Registered \cap Live = {}
=============================================================================
