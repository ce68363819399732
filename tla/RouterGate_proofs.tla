-------------------------- MODULE RouterGate_proofs --------------------------
(***************************************************************************)
(* The safety properties of RouterGate, for any set of connection loops    *)
(* and any bounds.  The properties are inductive together, with one fact   *)
(* that none of them states: a live socket belongs to a loop that has      *)
(* dialed it and has not yet seen a read error (LiveIsServing), and a loop *)
(* that has still to dial or to register during an outage is the straggler *)
(* of that outage (StragglersCommitted).                                   *)
(***************************************************************************)
EXTENDS RouterGate, TLAPS

LiveIsServing ==
    \A s \in Live : pc[s[1]] \in {"dialed", "serve"}

StragglersCommitted ==
    ~healthy => \A c \in Conns :
        /\ pc[c] = "dial" => straggler[c] = sock[c] + 1
        /\ pc[c] = "dialed" => straggler[c] = sock[c]

IInv ==
    /\ NoLostWakeup
    /\ RegistryMatchesLoops
    /\ CleanReconnect
    /\ CutIsComplete
    /\ LiveIsServing
    /\ StragglersCommitted
    /\ healthy => mon # "closing"

-----------------------------------------------------------------------------
\* Every variable keeps its type, whatever the loops and the monitor do.
THEOREM TypeCorrect == Spec => []TypeOK
<1> USE BoundsAssumption
<1>1. Init => TypeOK
  BY DEF Init, TypeOK, PCs, Sockets
<1>2. TypeOK /\ [Next]_vars => TypeOK'
  <2> SUFFICES ASSUME TypeOK, [Next]_vars PROVE TypeOK'
    OBVIOUS
  <2> USE DEF TypeOK, PCs, Sockets, Current, Goto, gateVars, loopVars, Live
  <2>1. ASSUME NEW c \in Conns, WaitHealthy(c) PROVE TypeOK'
    BY <2>1 DEF WaitHealthy
  <2>2. ASSUME NEW c \in Conns, DialOk(c) PROVE TypeOK'
    BY <2>2 DEF DialOk
  <2>3. ASSUME NEW c \in Conns, DialFail(c) PROVE TypeOK'
    BY <2>3 DEF DialFail
  <2>4. ASSUME NEW c \in Conns, SetConn(c) PROVE TypeOK'
    BY <2>4 DEF SetConn
  <2>5. ASSUME NEW c \in Conns, Receive(c) PROVE TypeOK'
    BY <2>5 DEF Receive
  <2>6. ASSUME NEW c \in Conns, HandlerDone(c) PROVE TypeOK'
    BY <2>6 DEF HandlerDone
  <2>7. ASSUME NEW c \in Conns, ReadError(c) PROVE TypeOK'
    BY <2>7 DEF ReadError
  <2>8. ASSUME NEW c \in Conns, WgWait(c) PROVE TypeOK'
    BY <2>8 DEF WgWait
  <2>9. ASSUME NEW c \in Conns, ClearConn(c) PROVE TypeOK'
    BY <2>9 DEF ClearConn
  <2>10. ASSUME NEW c \in Conns, CloseConn(c) PROVE TypeOK'
    BY <2>10 DEF CloseConn
  <2>11. ASSUME NEW c \in Conns, Sleep(c) PROVE TypeOK'
    BY <2>11 DEF Sleep
  <2>12. ASSUME NEW c \in Conns, Drop(c) PROVE TypeOK'
    BY <2>12 DEF Drop
  <2>13. CASE MarkUnhealthy
    <3>1. Registered \subseteq Sockets
      BY DEF Registered
    <3>2. \A c \in Conns : Committed(c) \in 0..MaxDials + 1
      BY DEF Committed
    <3>3. cut' \subseteq Sockets /\ straggler' \in [Conns -> 0..MaxDials + 1]
      BY <2>13, <3>1, <3>2 DEF MarkUnhealthy
    <3>4. QED
      BY <2>13, <3>3 DEF MarkUnhealthy
  <2>14. CASE CloseCut
    BY <2>14 DEF CloseCut
  <2>15. CASE MarkUnhealthyReturns
    BY <2>15 DEF MarkUnhealthyReturns
  <2>16. CASE MarkHealthy
    BY <2>16 DEF MarkHealthy
  <2>17. CASE Broadcast
    BY <2>17 DEF Broadcast
  <2>18. CASE UNCHANGED vars
    BY <2>18 DEF vars
  <2>19. QED
    BY <2>1, <2>2, <2>3, <2>4, <2>5, <2>6, <2>7, <2>8, <2>9, <2>10, <2>11,
       <2>12, <2>13, <2>14, <2>15, <2>16, <2>17, <2>18
       DEF Next, LoopStep, MonitorStep
<1>3. QED
  BY <1>1, <1>2, PTL DEF Spec

\* The joint invariant is preserved by every step.
LEMMA InvariantStep == TypeOK /\ TypeOK' /\ IInv /\ [Next]_vars => IInv'
<1> SUFFICES ASSUME TypeOK, TypeOK', IInv, [Next]_vars PROVE IInv'
  OBVIOUS
<1> USE BoundsAssumption
<1> USE DEF IInv, TypeOK, NoLostWakeup, RegistryMatchesLoops, CleanReconnect,
        CutIsComplete, LiveIsServing, StragglersCommitted,
        PCs, Sockets, Current, Live, Goto, gateVars, loopVars
<1>1. ASSUME NEW c \in Conns, WaitHealthy(c) PROVE IInv'
  BY <1>1 DEF WaitHealthy
<1>2. ASSUME NEW c \in Conns, DialOk(c) PROVE IInv'
  BY <1>2 DEF DialOk
<1>3. ASSUME NEW c \in Conns, DialFail(c) PROVE IInv'
  BY <1>3 DEF DialFail
<1>4. ASSUME NEW c \in Conns, SetConn(c) PROVE IInv'
  BY <1>4 DEF SetConn
<1>5. ASSUME NEW c \in Conns, Receive(c) PROVE IInv'
  BY <1>5 DEF Receive
<1>6. ASSUME NEW c \in Conns, HandlerDone(c) PROVE IInv'
  BY <1>6 DEF HandlerDone
<1>7. ASSUME NEW c \in Conns, ReadError(c) PROVE IInv'
  BY <1>7 DEF ReadError
<1>8. ASSUME NEW c \in Conns, WgWait(c) PROVE IInv'
  BY <1>8 DEF WgWait
<1>9. ASSUME NEW c \in Conns, ClearConn(c) PROVE IInv'
  BY <1>9 DEF ClearConn
<1>10. ASSUME NEW c \in Conns, CloseConn(c) PROVE IInv'
  BY <1>10 DEF CloseConn
<1>11. ASSUME NEW c \in Conns, Sleep(c) PROVE IInv'
  BY <1>11 DEF Sleep
<1>12. ASSUME NEW c \in Conns, Drop(c) PROVE IInv'
  BY <1>12 DEF Drop
<1>13. CASE MarkUnhealthy
  BY <1>13 DEF MarkUnhealthy, Registered, Committed
<1>14. CASE CloseCut
  BY <1>14 DEF CloseCut
<1>15. CASE MarkUnhealthyReturns
  BY <1>15 DEF MarkUnhealthyReturns
<1>16. CASE MarkHealthy
  BY <1>16 DEF MarkHealthy
<1>17. CASE Broadcast
  BY <1>17 DEF Broadcast
<1>18. CASE UNCHANGED vars
  BY <1>18 DEF vars
<1>19. QED
  BY <1>1, <1>2, <1>3, <1>4, <1>5, <1>6, <1>7, <1>8, <1>9, <1>10, <1>11, <1>12, <1>13, <1>14, <1>15, <1>16, <1>17, <1>18 DEF Next, LoopStep, MonitorStep

\* The joint invariant holds in every reachable state.
LEMMA Invariant == Spec => []IInv
<1>1. Init => IInv
  BY DEF Init, IInv, NoLostWakeup, RegistryMatchesLoops, CleanReconnect,
         CutIsComplete, LiveIsServing, StragglersCommitted, Live
<1>2. QED
  BY <1>1, InvariantStep, TypeCorrect, PTL DEF Spec

\* A loop blocked in waitHealthy is never forgotten: during a healthy period
\* the broadcast that wakes it is still to come.
THEOREM WakeupsNotLost == Spec => []NoLostWakeup
BY Invariant, PTL DEF IInv

\* The registry maps each loop to the socket it serves, and to nothing else.
THEOREM RegistryCorrect == Spec => []RegistryMatchesLoops
BY Invariant, PTL DEF IInv

\* A reconnect leaks no socket and outruns no handler of the connection before
\* it, for any number of loops, dials and handlers.
THEOREM ReconnectIsClean == Spec => []CleanReconnect
BY Invariant, PTL DEF IInv

\* An outage cuts every live socket but the one a loop was already committed
\* to when it was flagged, however many loops there are.
THEOREM CutCorrect == Spec => []CutIsComplete
BY Invariant, PTL DEF IInv
=============================================================================
