---------------------------- MODULE AgentStartup ----------------------------
(***************************************************************************)
(* How an agent comes by its backend and its token and comes up, over      *)
(* restarts (runAgent in main.go, ollama.go, vllm.go, api.go).             *)
(*                                                                         *)
(* With -install-model the agent has Ollama serve and pulls the model, with*)
(* -deploy-vllm it has a supervisor launch vllm.  Either is a process that *)
(* may outlive the agent.  Without -token the agent has the management API *)
(* create an instance for it, and caches that instance's token in a file.  *)
(* Whatever the backend, the API, the file system, the process or an       *)
(* operator does to upset this is a mishap; a service manager starts the   *)
(* agent again whenever it ends.                                           *)
(***************************************************************************)
EXTENDS Integers

CONSTANTS
    MaxInstances,   \* bound: instances the API ever creates
    MaxMishaps      \* bound: mishaps

ASSUME StartupAssumption == MaxInstances \in Nat /\ MaxMishaps \in Nat

None == 0                   \* no token
Issued == 1..MaxInstances   \* the tokens of the API
Given == MaxInstances + 1   \* the operator's -token
Torn == MaxInstances + 2    \* a part of a token

VARIABLES
    flags,      \* the backend: given, ollama (-install-model) or vllm
                \* (-deploy-vllm); are -token and -token-cache set; does the
                \* service manager end an agent's children with it?
    pc,         \* where runAgent is, off between two runs
    token,      \* agentToken
    file,       \* the content of the token cache
    server,     \* the backend: absent, stopped, starting or up as a child of
                \* an agent, or up as a service of its own
    issued,     \* the API: the number of the last instance it has created,
    valid,      \* and which tokens it accepts
    excused,    \* history: tokens that a mishap has cost the agent
    mishaps     \* the number of mishaps so far

agentVars == <<pc, token>>
boxVars == <<file, server>>
apiVars == <<issued, valid>>
vars == <<flags, pc, token, file, server, issued, valid, excused, mishaps>>

Child == {"starting", "up"}
Serving == server \in {"up", "service"}

Init ==
    /\ flags \in [backend : {"given", "ollama", "vllm"}, token : BOOLEAN,
                  cache : BOOLEAN, reaped : BOOLEAN]
    /\ pc = "off" /\ token = None
    /\ file = None
    /\ server \in IF flags.backend = "ollama"
                   THEN {"absent", "stopped", "service"} ELSE {"stopped"}
    /\ issued = 0 /\ valid = {Given}
    /\ excused = {} /\ mishaps = 0

Goto(from, to) == pc = from /\ pc' = to

\* Faulty variant: the agent ends its children with it everywhere.
Dies_Together ==
    /\ pc' = "off" /\ token' = None
    /\ server' = IF server \in Child THEN "stopped" ELSE server

\* A log.Fatal, or a crash.
Dies ==
    /\ pc' = "off" /\ token' = None
    /\ server' = IF flags.reaped /\ server \in Child THEN "stopped" ELSE server

Mishap(cost) ==
    /\ mishaps < MaxMishaps
    /\ mishaps' = mishaps + 1
    /\ excused' = excused \cup cost

Smooth == UNCHANGED <<flags, excused, mishaps>>

-----------------------------------------------------------------------------
(* -install-model: ensureOllamaInstalled, ensureOllamaRunning, pullModel *)

Start ==
    /\ Goto("off", IF flags.backend = "ollama" THEN "install" ELSE "read")
    /\ Smooth /\ UNCHANGED <<token, boxVars, apiVars>>

\* The install script registers a service, which needs a systemd to start it.
Install ==
    /\ Goto("install", "serve")
    /\ IF server = "absent" THEN server' \in {"stopped", "service"}
       ELSE UNCHANGED server
    /\ Smooth /\ UNCHANGED <<token, file, apiVars>>

AlreadyServes ==
    /\ Serving
    /\ Goto("serve", "pull")
    /\ Smooth /\ UNCHANGED <<token, boxVars, apiVars>>

\* `ollama serve` in the background; a second one leaves the port to the first.
Serve ==
    /\ ~Serving
    /\ Goto("serve", "poll")
    /\ server' = "starting"
    /\ Smooth /\ UNCHANGED <<token, file, apiVars>>

Listens ==
    /\ server = "starting" /\ server' = "up"
    /\ Smooth /\ UNCHANGED <<agentVars, file, apiVars>>

Answers ==
    /\ Serving
    /\ Goto("poll", "pull") \/ Goto("boot", "auth")
    /\ Smooth /\ UNCHANGED <<token, boxVars, apiVars>>

\* After 15 seconds, or -vllm-boot-timeout, in as many runs as the box is slow.
\* The server is left to get ready, unless it is ended with the agent.
GivesUp ==
    /\ pc \in {"poll", "boot"} /\ ~Serving /\ Dies
    /\ Smooth /\ UNCHANGED <<file, apiVars>>

\* `ollama pull`.
Pull ==
    /\ Goto("pull", "read")
    /\ Smooth /\ UNCHANGED <<token, boxVars, apiVars>>

\* The supervisor of vllm launches it again.
Supervised ==
    /\ flags.backend = "vllm"
    /\ pc \in {"boot", "auth", "detect", "ask", "register", "runs"}

ServerEnds ==
    /\ server \in Child
    /\ server' = IF Supervised THEN "starting" ELSE "stopped"
    /\ Mishap({})
    /\ UNCHANGED <<flags, agentVars, file, apiVars>>

-----------------------------------------------------------------------------
(* The token: runAgent and ensureAgentToken *)

\* Faulty variant: the operator's token is cached as if it were issued.
UseGiven_Cached ==
    /\ flags.token
    /\ Goto("read", "open")
    /\ token' = Given
    /\ Smooth /\ UNCHANGED <<boxVars, apiVars>>

UseGiven ==
    /\ flags.token
    /\ Goto("read", "deploy")
    /\ token' = Given
    /\ Smooth /\ UNCHANGED <<boxVars, apiVars>>

Cached == ~flags.token /\ flags.cache /\ file # None

ReadCache ==
    /\ Cached
    /\ Goto("read", "probe")
    /\ token' = file
    /\ Smooth /\ UNCHANGED <<boxVars, apiVars>>

NothingCached ==
    /\ ~flags.token /\ ~Cached
    /\ Goto("read", "create")
    /\ Smooth /\ UNCHANGED <<token, boxVars, apiVars>>

ReadFails ==
    /\ Cached
    /\ Goto("read", "create")
    /\ Mishap({file})
    /\ UNCHANGED <<flags, token, boxVars, apiVars>>

ProbeOk ==
    /\ token \in valid
    /\ Goto("probe", "deploy")
    /\ Smooth /\ UNCHANGED <<token, boxVars, apiVars>>

\* Faulty variant: a cached token that is refused ends the agent.
ProbeRefused_Fatal ==
    /\ token \notin valid
    /\ pc = "probe" /\ Dies
    /\ Smooth /\ UNCHANGED <<file, apiVars>>

ProbeRefused ==
    /\ token \notin valid
    /\ Goto("probe", "create")
    /\ token' = None
    /\ Smooth /\ UNCHANGED <<boxVars, apiVars>>

\* Any error is taken for a refusal.
ProbeFails ==
    /\ token \in valid
    /\ Goto("probe", "create")
    /\ token' = None
    /\ Mishap({token})
    /\ UNCHANGED <<flags, boxVars, apiVars>>

\* Without a cache no run sees the token of another, and the instance of each
\* run is number 1.
Fresh == IF flags.cache THEN issued + 1 ELSE 1

Issue ==
    /\ Fresh <= MaxInstances
    /\ issued' = Fresh
    /\ valid' = valid \cup {Fresh}

\* Faulty variant: the token is not cached.
Create_Uncached ==
    /\ Goto("create", "deploy")
    /\ Issue
    /\ token' = Fresh
    /\ Smooth /\ UNCHANGED boxVars

Create ==
    /\ Goto("create", IF flags.cache THEN "open" ELSE "deploy")
    /\ Issue
    /\ token' = Fresh
    /\ Smooth /\ UNCHANGED boxVars

CreateFails ==
    /\ pc = "create" /\ Dies
    /\ \/ Mishap({}) /\ UNCHANGED apiVars
       \/ Mishap({Fresh}) /\ Issue    \* its response is lost
    /\ UNCHANGED <<flags, file>>

\* os.WriteFile truncates the file, then writes it.  Its errors are logged.
Open ==
    /\ Goto("open", "write")
    /\ file' = None
    /\ Smooth /\ UNCHANGED <<token, server, apiVars>>

OpenFails ==
    /\ Goto("open", "deploy")
    /\ Mishap({token})
    /\ UNCHANGED <<flags, token, boxVars, apiVars>>

Write ==
    /\ Goto("write", "deploy")
    /\ file' = token
    /\ Smooth /\ UNCHANGED <<token, server, apiVars>>

WriteFails ==
    /\ Goto("write", "deploy")
    /\ file' \in {None, Torn}
    /\ Mishap({token})
    /\ UNCHANGED <<flags, token, server, apiVars>>

-----------------------------------------------------------------------------
(* The rest of runAgent *)

\* -deploy-vllm: the download and the first launch.  A vllm that an earlier
\* agent left behind keeps the port, and passes for the child of this one.
Deploy ==
    /\ flags.backend = "vllm"
    /\ Goto("deploy", "boot")
    /\ server' = IF Serving THEN server ELSE "starting"
    /\ Smooth /\ UNCHANGED <<token, file, apiVars>>

NothingToDeploy ==
    /\ flags.backend # "vllm"
    /\ Goto("deploy", "auth")
    /\ Smooth /\ UNCHANGED <<token, boxVars, apiVars>>

AuthOk ==
    /\ token \in valid
    /\ Goto("auth", "detect")
    /\ Smooth /\ UNCHANGED <<token, boxVars, apiVars>>

AuthRefused ==
    /\ token \notin valid
    /\ pc = "auth" /\ Dies
    /\ Smooth /\ UNCHANGED <<file, apiVars>>

\* Flags, name of the model and Ollama; the backend's catalog for what they
\* leave unknown.  What is found goes into the registration.
Detect ==
    /\ Goto("detect", "ask") \/ Goto("detect", "register")
    /\ Smooth /\ UNCHANGED <<token, boxVars, apiVars>>

\* modelInfo, which takes any error for an empty catalog.
Ask ==
    /\ Goto("ask", "register")
    /\ Smooth /\ UNCHANGED <<token, boxVars, apiVars>>

Register ==
    /\ Goto("register", "runs")
    /\ Smooth /\ UNCHANGED <<token, boxVars, apiVars>>

\* Installation, deployment, authentication or registration fails.
Fatal ==
    /\ pc \in {"install", "serve", "pull", "deploy", "auth", "register"}
    /\ Dies
    /\ Mishap({})
    /\ UNCHANGED <<flags, file, apiVars>>

Crash ==
    /\ pc # "off" /\ Dies
    /\ Mishap(IF pc \in {"open", "write"} THEN {token} ELSE {})
    /\ file' \in IF pc = "write" THEN {None, Torn} ELSE {file}
    /\ UNCHANGED <<flags, apiVars>>

\* The operator withdraws a token.
Revoke ==
    /\ \E t \in valid : valid' = valid \ {t}
    /\ Mishap({})
    /\ UNCHANGED <<flags, agentVars, boxVars, issued>>

-----------------------------------------------------------------------------
Steps ==
    \/ Start \/ Install \/ AlreadyServes \/ Serve \/ Answers \/ GivesUp \/ Pull
    \/ UseGiven \/ ReadCache \/ NothingCached \/ ProbeOk
    \/ ProbeRefused \/ Create \/ Open \/ Write \/ Deploy \/ NothingToDeploy
    \/ AuthOk \/ AuthRefused \/ Detect \/ Ask \/ Register

Mishaps ==
    \/ ServerEnds \/ ReadFails \/ ProbeFails \/ CreateFails \/ OpenFails
    \/ WriteFails \/ Fatal \/ Crash \/ Revoke

Next == Steps \/ Listens \/ Mishaps

Spec == Init /\ [][Next]_vars

(***************************************************************************)
(* The agent runs, and is started again when it has ended: the unit file   *)
(* has Restart=always.  A server that is not ended comes to listen some   *)
(* time.  Mishaps are owed to nobody.                                      *)
(***************************************************************************)
FairSpec == Spec /\ WF_vars(Steps) /\ WF_vars(Listens)

-----------------------------------------------------------------------------
\* Every variable has its type; the cache never holds a token of the operator.
TypeOK ==
    /\ pc \in {"off", "install", "serve", "poll", "pull", "read", "probe",
               "create", "open", "write", "deploy", "boot", "auth", "detect",
               "ask", "register", "runs"}
    /\ server \in {"absent", "stopped", "service"} \cup Child
    /\ token \in {None, Given, Torn} \cup 1..issued
    /\ file \in {None, Torn} \cup 1..issued
    /\ issued \in 0..MaxInstances
    /\ valid \subseteq 1..issued \cup {Given}
    /\ excused \subseteq 1..issued \cup {Torn}
    /\ mishaps \in 0..MaxMishaps

\* Instances that nothing on this box knows of any more.
Orphans == valid \ {Given, file, token}

\* "Caching avoids spawning a new orphaned agent instance server-side on every
\* restart": with a cache, an instance is orphaned only by a mishap between its
\* creation and the end of the write, or one that kept its token from being
\* read or probed; no restart at any other point orphans one.
OrphansExcused == flags.cache => Orphans \subseteq excused

\* However the mishaps fall, once they are over the agent comes up, unless its
\* operator has withdrawn the token given to it, or it gives up a slow server
\* for ever: a token that is refused is replaced, an instance that is lost is
\* made again.
ComesUp ==
    <>[](flags.token => Given \in valid)
        => (<>[](pc = "runs") \/ []<><<GivesUp>>_vars)

\* A server too slow for one run of the agent is there for a later one, unless
\* the service manager ends it with the agent, which then may give up in every
\* run: ensureOllamaRunning and waitVLLMReady stop waiting, not the server.
SlowServerIsFound == flags.reaped \/ <>[][~GivesUp]_vars
=============================================================================
