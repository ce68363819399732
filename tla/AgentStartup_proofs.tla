------------------------- MODULE AgentStartup_proofs -------------------------
(***************************************************************************)
(* OrphansExcused for any number of instances and mishaps.  It becomes     *)
(* inductive with what is known, at each point of runAgent, of the token   *)
(* in memory and of the token in the file: one that is about to be given   *)
(* up is refused by the API, known elsewhere, or excused already.          *)
(***************************************************************************)
EXTENDS AgentStartup, TLAPS

ApiInv ==
    /\ issued \in 0..MaxInstances
    /\ ~flags.cache => issued <= 1
    /\ valid \subseteq 1..issued \cup {Given}

\* The token in memory.
TokenInv ==
    /\ pc \in {"off", "install", "serve", "poll", "pull", "read", "create"} =>
          token = None
    /\ pc = "probe" => token = file
    /\ pc \in {"open", "write"} => token \in 1..issued
    /\ flags.cache /\ pc \notin {"open", "write"} =>
          (token \in valid => token \in {file, Given} \cup excused)

\* The token in the file, which the truncation gives up.
FileInv ==
    /\ file \in {None, Torn} \cup 1..issued
    /\ pc = "write" => file = None
    /\ flags.cache /\ pc \in {"create", "open"} =>
          (file \in valid => file \in excused \cup {Given})

IInv == ApiInv /\ TokenInv /\ FileInv /\ OrphansExcused

-----------------------------------------------------------------------------
\* What a step does to the API.
LEMMA ApiSteps ==
    ASSUME [Next]_vars
    PROVE  /\ UNCHANGED flags
           /\ \/ Issue
              \/ valid' \subseteq valid /\ UNCHANGED issued
BY DEF Next, Steps, Mishaps, vars, apiVars, Start, Install, AlreadyServes,
     Serve, Answers, GivesUp, Pull, Listens, ServerEnds, UseGiven, ReadCache,
     NothingCached, ProbeOk, ProbeRefused, Create, Open, Write, Deploy,
     NothingToDeploy, AuthOk, AuthRefused, Detect, Ask, Register, ReadFails,
     ProbeFails, CreateFails, OpenFails, WriteFails, Fatal, Crash, Revoke,
     Smooth

\* Numbers once issued stay in use.
LEMMA IssuedGrows == ApiInv /\ [Next]_vars => 1..issued \subseteq 1..issued'
BY ApiSteps, StartupAssumption DEF ApiInv, Issue, Fresh

\* The API accepts no token that it has not issued or been given.
LEMMA ApiStep == ApiInv /\ [Next]_vars => ApiInv'
<1> SUFFICES ASSUME ApiInv, [Next]_vars PROVE ApiInv'
  OBVIOUS
<1> USE ApiSteps, IssuedGrows, StartupAssumption DEF ApiInv, Given
<1>1. CASE Issue
  BY <1>1 DEF Issue, Fresh
<1>2. CASE valid' \subseteq valid /\ UNCHANGED issued
  BY <1>2
<1>3. QED
  BY <1>1, <1>2

\* Sentinels are not accepted.
LEMMA Sentinels == ApiInv => None \notin valid /\ Torn \notin valid
BY StartupAssumption DEF ApiInv, None, Torn, Given

\* The joint invariant is preserved by every step.
LEMMA InvariantStep == IInv /\ [Next]_vars => IInv'
<1> SUFFICES ASSUME IInv, [Next]_vars PROVE IInv'
  OBVIOUS
<1>a. ApiInv'
  BY ApiStep DEF IInv
<1>b. None \notin valid /\ Torn \notin valid
  BY Sentinels DEF IInv
<1>c. None \notin valid' /\ Torn \notin valid'
  BY <1>a, StartupAssumption DEF ApiInv, None, Torn, Given
<1> USE <1>a, <1>b, <1>c
    DEF IInv, TokenInv, FileInv, OrphansExcused, Orphans, Goto, Smooth, Mishap,
        Dies, apiVars, agentVars, boxVars
<1>1. CASE \/ Start \/ Install \/ AlreadyServes \/ Serve \/ Answers \/ GivesUp
           \/ Pull
  BY <1>1 DEF Start, Install, AlreadyServes, Serve, Answers, GivesUp, Pull
<1>0. CASE Listens \/ ServerEnds
  BY <1>0 DEF Listens, ServerEnds
<1>2. CASE UseGiven
  BY <1>2 DEF UseGiven
<1>3. CASE ReadCache
  BY <1>3 DEF ReadCache
<1>4. CASE NothingCached
  BY <1>4 DEF NothingCached, Cached
<1>5. CASE ProbeOk
  BY <1>5 DEF ProbeOk
<1>6. CASE ProbeRefused
  BY <1>6 DEF ProbeRefused
<1>7. CASE Create
  BY <1>7, StartupAssumption DEF Create, Issue, Fresh, ApiInv, None, Torn,
     Given
<1>8. CASE Open
  BY <1>8 DEF Open
<1>9. CASE Write
  BY <1>9 DEF Write
<1>10. CASE Deploy \/ NothingToDeploy \/ AuthOk \/ AuthRefused
  BY <1>10 DEF Deploy, NothingToDeploy, AuthOk, AuthRefused
<1>11. CASE Detect \/ Ask \/ Register
  BY <1>11 DEF Detect, Ask, Register
<1>12. CASE ReadFails
  BY <1>12 DEF ReadFails
<1>13. CASE ProbeFails
  BY <1>13 DEF ProbeFails
<1>14. CASE CreateFails
  BY <1>14, StartupAssumption DEF CreateFails, Issue, Fresh, ApiInv, None,
     Torn, Given
<1>15. CASE OpenFails
  BY <1>15 DEF OpenFails
<1>16. CASE WriteFails
  BY <1>16 DEF WriteFails
<1>17. CASE Fatal
  BY <1>17 DEF Fatal
<1>18. CASE Crash
  BY <1>18 DEF Crash
<1>19. CASE Revoke
  BY <1>19 DEF Revoke
<1>20. CASE UNCHANGED vars
  BY <1>20 DEF vars
<1>21. QED
  BY <1>0, <1>1, <1>2, <1>3, <1>4, <1>5, <1>6, <1>7, <1>8, <1>9, <1>10, <1>11,
     <1>12, <1>13, <1>14, <1>15, <1>16, <1>17, <1>18, <1>19, <1>20
     DEF Next, Steps, Mishaps

\* The types are preserved, with the token in memory one that the history may
\* hold wherever a mishap costs it.
LEMMA TypeStep == TypeOK /\ IInv /\ [Next]_vars => TypeOK'
<1> SUFFICES ASSUME TypeOK, IInv, [Next]_vars PROVE TypeOK'
  OBVIOUS
<1>a. ApiInv'
  BY ApiStep DEF IInv
<1>b. 1..issued \subseteq 1..issued'
  BY IssuedGrows DEF IInv
<1>c. ASSUME NEW cost, Mishap(cost), cost \subseteq 1..issued' \cup {Torn}
      PROVE  /\ excused' \subseteq 1..issued' \cup {Torn}
             /\ mishaps' \in 0..MaxMishaps
  <2>1. excused \subseteq 1..issued' \cup {Torn}
    BY <1>b DEF TypeOK
  <2>2. excused' \subseteq 1..issued' \cup {Torn}
    BY <1>c, <2>1 DEF Mishap
  <2>3. mishaps' \in 0..MaxMishaps
    BY <1>c, StartupAssumption DEF Mishap, TypeOK
  <2>4. QED
    BY <2>2, <2>3
<1> USE <1>b DEF TypeOK, Goto, Smooth, Dies, Child, apiVars, agentVars, boxVars
<1>1. CASE \/ Start \/ Install \/ AlreadyServes \/ Serve \/ Answers \/ GivesUp
           \/ Pull
  BY <1>1 DEF Start, Install, AlreadyServes, Serve, Answers, GivesUp, Pull
<1>2. CASE Listens \/ ServerEnds
  BY <1>2, <1>c DEF Listens, ServerEnds
<1>3. CASE UseGiven \/ ReadCache \/ NothingCached
  BY <1>3 DEF UseGiven, ReadCache, NothingCached, Cached
<1>4. CASE ReadFails
  <2>1. {file} \subseteq 1..issued' \cup {Torn}
    BY <1>4 DEF ReadFails, Cached
  <2>2. QED
    BY <1>4, <1>c, <2>1 DEF ReadFails
<1>5. CASE ProbeOk \/ ProbeRefused
  BY <1>5 DEF ProbeOk, ProbeRefused
<1>6. CASE ProbeFails
  <2>1. {token} \subseteq 1..issued' \cup {Torn}
    BY <1>6, Sentinels DEF ProbeFails, IInv, TokenInv, FileInv
  <2>2. QED
    BY <1>6, <1>c, <2>1 DEF ProbeFails
<1>7. CASE Create
  BY <1>7, <1>a, StartupAssumption DEF Create, Issue, Fresh, ApiInv
<1>8. CASE CreateFails
  <2>1. /\ pc' = "off" /\ token' = None /\ file' = file
        /\ server' \in {server, "stopped"}
    BY <1>8 DEF CreateFails
  <2>2. CASE Mishap({}) /\ UNCHANGED apiVars
    BY <1>c, <2>1, <2>2
  <2>3. CASE Mishap({Fresh}) /\ Issue
    <3>1. {Fresh} \subseteq 1..issued' \cup {Torn}
      BY <2>3, <1>a DEF Issue, Fresh, ApiInv
    <3>2. /\ issued' \in 0..MaxInstances
          /\ valid' \subseteq 1..issued' \cup {Given}
      BY <1>a DEF ApiInv
    <3>3. QED
      BY <1>c, <2>1, <2>3, <3>1, <3>2
  <2>4. QED
    BY <1>8, <2>2, <2>3 DEF CreateFails
<1>9. CASE Open \/ Write
  BY <1>9 DEF Open, Write, IInv, TokenInv
<1>10. CASE OpenFails \/ WriteFails
  <2>1. {token} \subseteq 1..issued' \cup {Torn}
    BY <1>10 DEF OpenFails, WriteFails, IInv, TokenInv
  <2>2. QED
    BY <1>10, <1>c, <2>1 DEF OpenFails, WriteFails
<1>11. CASE \/ Deploy \/ NothingToDeploy \/ AuthOk \/ AuthRefused \/ Detect
            \/ Ask \/ Register
  BY <1>11 DEF Deploy, NothingToDeploy, AuthOk, AuthRefused, Detect, Ask,
               Register
<1>12. CASE Fatal
  BY <1>12, <1>c DEF Fatal
<1>13. CASE Crash
  <2>1. (IF pc \in {"open", "write"} THEN {token} ELSE {})
          \subseteq 1..issued' \cup {Torn}
    BY <1>13 DEF Crash, IInv, TokenInv
  <2>2. QED
    BY <1>13, <1>c, <2>1 DEF Crash
<1>14. CASE Revoke
  BY <1>14, <1>c DEF Revoke
<1>15. CASE UNCHANGED vars
  BY <1>15 DEF vars
<1>16. QED
  BY <1>1, <1>2, <1>3, <1>4, <1>5, <1>6, <1>7, <1>8, <1>9, <1>10, <1>11,
     <1>12, <1>13, <1>14, <1>15 DEF Next, Steps, Mishaps

\* The joint invariant holds at the start.
LEMMA InvariantInit == Init => IInv /\ TypeOK
BY StartupAssumption
   DEF Init, IInv, ApiInv, TokenInv, FileInv, OrphansExcused, Orphans, None,
       Given, TypeOK, Child

\* Every variable keeps its type, for any number of instances and mishaps: the
\* cache, in particular, never holds the operator's token.
THEOREM TypeCorrect == Spec => []TypeOK
<1>1. TypeOK /\ IInv /\ [Next]_vars => (TypeOK /\ IInv)'
  BY TypeStep, InvariantStep
<1>2. QED
  BY <1>1, InvariantInit, PTL DEF Spec

\* With a token cache, an instance is orphaned only by a mishap that cost the
\* agent that very token: no restart at any other point does it.
THEOREM OrphansAreExcused == Spec => []OrphansExcused
<1>1. IInv => OrphansExcused
  BY DEF IInv
<1>2. QED
  BY <1>1, InvariantInit, InvariantStep, PTL DEF Spec
==============================================================================
