----------------------------- MODULE HostAgent -----------------------------
(***************************************************************************)
(* The privileged host agent: two switches of the host, each set by        *)
(* several outside calls that may fail in the middle.  TUN mode is one     *)
(* container, switched under the lock; the desktop proxy is a handful of   *)
(* settings, written outside it.  Endpoints are those of the engine's      *)
(* tunnels.  A docker call can fail with an API error, which the code      *)
(* expects, or with anything else (a lost connection, a timeout), which it *)
(* does not; it may have been carried out all the same.                    *)
(***************************************************************************)
EXTENDS Integers, FiniteSets

CONSTANTS
    Handlers,   \* request threads of the agent
    Ports,      \* endpoints tunnels listen on
    Schemas,    \* the settings the desktop keeps per protocol, _GNOME_SCHEMAS
    MaxTrouble  \* bound: failed calls and restarts
NoThread == "none"

ASSUME AgentAssumption ==
    IsFiniteSet(Schemas) /\ Schemas # {} /\ MaxTrouble \in Nat /\ NoThread \notin Handlers

VARIABLES
    tun,      \* tun_state
    box,      \* the TUN container, as docker has it
    held,     \* the thread in the critical section of host_tun
    proxy,    \* proxy_state
    desktop,  \* what the desktop session really uses
    req,      \* the request of each thread
    answer,   \* history: how, and at which call, the last TUN request ended
    intact,   \* history: no proxy request since the last clean one got halfway
    trouble   \* failures so far
agentVars == <<tun, box, held, proxy, desktop, req, answer, intact, trouble>>

NoPort == 0
Off == [on |-> FALSE, port |-> NoPort]
Gone == [status |-> "none", port |-> NoPort]
NoAnswer == [kind |-> "none", step |-> "rest", on |-> FALSE, port |-> NoPort, before |-> Gone]
Resting == [pc |-> "rest", on |-> FALSE, port |-> NoPort, todo |-> {}, undo |-> FALSE,
            alone |-> FALSE, before |-> Gone]

AgentInit ==
    /\ tun = Off /\ proxy = Off /\ box = Gone
    /\ held = NoThread
    /\ desktop = [mode |-> "none", ports |-> [s \in Schemas |-> NoPort]]
    /\ req = [h \in Handlers |-> Resting]
    /\ answer = NoAnswer /\ intact = TRUE /\ trouble = 0

At(h, pc) == req[h].pc = pc
Goto(h, pc) == req' = [req EXCEPT ![h].pc = pc]
Trouble == trouble < MaxTrouble /\ trouble' = trouble + 1
tunVars == <<tun, box, held, answer>>
proxyVars == <<proxy, desktop, intact>>

\* What an enable or a disable asks for.
Wishes == [on : {TRUE}, port : Ports] \cup {Off}

-----------------------------------------------------------------------------
(* POST /host/tun. *)

TunRequest(h) ==
    /\ At(h, "rest")
    /\ \E x \in Wishes : req' = [req EXCEPT ![h] = [Resting EXCEPT !.pc = "lock", !.on = x.on, !.port = x.port]]
    /\ UNCHANGED <<tunVars, proxyVars, trouble>>

\* Fault: nothing keeps a second switch out.
TunLockAnyway(h) ==
    /\ At(h, "lock")
    /\ held' = h
    /\ req' = [req EXCEPT ![h].pc = IF req[h].on THEN "create" ELSE "get", ![h].before = box]
    /\ answer' = NoAnswer
    /\ UNCHANGED <<tun, box, proxyVars, trouble>>

TunLock(h) ==
    /\ At(h, "lock") /\ held = NoThread
    /\ held' = h
    /\ req' = [req EXCEPT ![h].pc = IF req[h].on THEN "create" ELSE "get", ![h].before = box]
    /\ answer' = NoAnswer
    /\ UNCHANGED <<tun, box, proxyVars, trouble>>

Answer(h, kind) ==
    /\ answer' = [kind |-> kind, step |-> req[h].pc, on |-> req[h].on, port |-> req[h].port,
                  before |-> req[h].before]
    /\ held' = NoThread
    /\ req' = [req EXCEPT ![h] = Resting]
    /\ UNCHANGED proxyVars

\* TunRuntimeError: 502.
Refuse(h) == Answer(h, "refused") /\ UNCHANGED <<tun, box>>

\* Any exception but an API error leaves the handler at once; the call may
\* have been carried out all the same.
Breaks(h, after) ==
    /\ Trouble
    /\ Answer(h, "error")
    /\ box' = after \/ UNCHANGED box
    /\ UNCHANGED tun

Step(h, pc, after) == Goto(h, pc) /\ box' = after /\ UNCHANGED <<tun, held, answer, proxyVars, trouble>>

Created(h) == [status |-> "created", port |-> req[h].port]
Running(h) == [status |-> "running", port |-> req[h].port]

\* A call that reports an API error nobody cleans up after.
FailsAsCarriedOut(h, after) ==
    /\ Trouble
    /\ Answer(h, "refused")
    /\ box' = after \/ UNCHANGED box
    /\ UNCHANGED tun

\* start(): a container that is still there keeps its name, an API error.  The
\* SDK's create is a POST and an inspect, so it can also report an error once
\* the container exists, and start() answers that without removing it.
Create(h) ==
    /\ At(h, "create")
    /\ IF box # Gone THEN Refuse(h) /\ UNCHANGED trouble
       ELSE \/ Step(h, "ship", Created(h))
            \/ FailsAsCarriedOut(h, Created(h))
            \/ Breaks(h, Created(h))

\* Fault: a container that failed to start is left behind.
ApiErrorLeaves(h, after) == FailsAsCarriedOut(h, after)

\* start() removes what it created when the daemon refuses.
ApiError(h, after) ==
    /\ Trouble
    /\ req' = [req EXCEPT ![h].pc = "get", ![h].undo = TRUE]
    /\ box' = after \/ UNCHANGED box
    /\ UNCHANGED <<tun, held, answer, proxyVars>>

Ship(h) ==
    /\ At(h, "ship")
    /\ Step(h, "start", box) \/ ApiError(h, box) \/ Breaks(h, box)

\* The daemon may have started it when it reports an error.
Start(h) ==
    /\ At(h, "start")
    /\ \/ Step(h, "done", Running(h))
       \/ ApiError(h, Running(h))
       \/ Breaks(h, Running(h))

\* _remove, for a disable and for the clean-up of start(); a disable that has
\* to connect first may find no daemon.
Get(h) ==
    /\ At(h, "get")
    /\ \/ Trouble /\ ~req[h].undo /\ Refuse(h)
       \/ Step(h, IF box = Gone THEN "done" ELSE "stop", box)
       \/ Breaks(h, box)

\* container.stop(): whatever it raises is passed over.
Stop(h) ==
    /\ At(h, "stop")
    /\ \/ Step(h, "remove", IF box.status = "running" THEN [box EXCEPT !.status = "stopped"] ELSE box)
       \/ Trouble /\ Goto(h, "remove") /\ UNCHANGED <<tunVars, proxyVars>>

\* Fault: what remove() raises is passed over as well.
RemoveAnyway(h) ==
    /\ At(h, "remove")
    /\ \/ Step(h, "done", Gone)
       \/ Trouble /\ Goto(h, "done") /\ UNCHANGED <<tunVars, proxyVars>>

Remove(h) ==
    /\ At(h, "remove")
    /\ Step(h, "done", Gone) \/ Breaks(h, Gone)

\* tun_state is updated and the request answered, or start()'s error re-raised.
TunDone(h) ==
    /\ At(h, "done")
    /\ IF req[h].undo THEN Refuse(h)
       ELSE /\ tun' = [on |-> req[h].on, port |-> req[h].port]
            /\ Answer(h, "ok")
            /\ UNCHANGED box
    /\ UNCHANGED trouble

-----------------------------------------------------------------------------
(* POST /host/proxy: _gsettings_set and _kwriteconfig_set write one setting  *)
(* after the other, then the mode.                                           *)

InProxy == {h \in Handlers : req[h].pc \in {"write", "mode", "save"}}

ProxyRequest(h) ==
    /\ At(h, "rest")
    /\ \E x \in Wishes :
        req' = [g \in Handlers |->
            IF g = h THEN [Resting EXCEPT !.pc = IF x.on THEN "write" ELSE "mode", !.on = x.on,
                                          !.port = x.port, !.todo = IF x.on THEN Schemas ELSE {},
                                          !.alone = InProxy = {}]
            ELSE [req[g] EXCEPT !.alone = FALSE]]
    /\ UNCHANGED <<tunVars, proxyVars, trouble>>

Write(h) ==
    /\ At(h, "write")
    /\ \E s \in req[h].todo :
        /\ desktop' = [desktop EXCEPT !.ports[s] = req[h].port]
        /\ req' = [req EXCEPT ![h].todo = @ \ {s}, ![h].pc = IF req[h].todo = {s} THEN "mode" ELSE "write"]
    /\ intact' = FALSE
    /\ UNCHANGED <<tunVars, proxy, trouble>>

SetMode(h) ==
    /\ At(h, "mode")
    /\ desktop' = [desktop EXCEPT !.mode = IF req[h].on THEN "manual" ELSE "none"]
    /\ intact' = FALSE
    /\ Goto(h, "save")
    /\ UNCHANGED <<tunVars, proxy, trouble>>

\* Fault: a failed setter is reported as if it had worked.
ProxyFailsSaved(h) ==
    /\ InProxy \cap {h} # {} /\ ~At(h, "save") /\ Trouble
    /\ proxy' = [on |-> req[h].on, port |-> req[h].port]
    /\ req' = [req EXCEPT ![h] = Resting]
    /\ UNCHANGED <<tunVars, desktop, intact>>

\* A setting could not be written: 502, and what was written stays.
ProxyFails(h) ==
    /\ InProxy \cap {h} # {} /\ ~At(h, "save") /\ Trouble
    /\ req' = [req EXCEPT ![h] = Resting]
    /\ UNCHANGED <<tunVars, proxyVars>>

\* proxy_state under the lock, which no other proxy request needed so far.
ProxySave(h) ==
    /\ At(h, "save") /\ held = NoThread
    /\ proxy' = [on |-> req[h].on, port |-> req[h].port]
    /\ intact' = (req[h].alone /\ InProxy = {h})
    /\ req' = [req EXCEPT ![h] = Resting]
    /\ UNCHANGED <<tunVars, desktop, trouble>>

-----------------------------------------------------------------------------
\* The agent restarts: its memory is gone, container and desktop stay.
AgentRestart ==
    /\ Trouble
    /\ tun' = Off /\ proxy' = Off /\ held' = NoThread
    /\ req' = [h \in Handlers |-> Resting]
    /\ intact' = (intact /\ desktop.mode = "none")
    /\ UNCHANGED <<box, desktop, answer>>

\* restart_policy "always": a daemon restart starts a container stopped by hand;
\* the policy does not apply to one that was never started.
DaemonRestart ==
    /\ Trouble
    /\ box.status = "stopped"
    /\ box' = [box EXCEPT !.status = "running"]
    /\ UNCHANGED <<tun, held, answer, proxyVars, req>>

Handle(h) ==
    \/ TunRequest(h) \/ TunLock(h) \/ Create(h) \/ Ship(h) \/ Start(h)
    \/ Get(h) \/ Stop(h) \/ Remove(h) \/ TunDone(h)
    \/ ProxyRequest(h) \/ Write(h) \/ SetMode(h) \/ ProxyFails(h) \/ ProxySave(h)

AgentNext == (\E h \in Handlers : Handle(h)) \/ AgentRestart \/ DaemonRestart

AgentSpec == AgentInit /\ [][AgentNext]_agentVars

-----------------------------------------------------------------------------
(* Properties. *)

AgentTypeOK ==
    /\ tun \in Wishes /\ proxy \in Wishes
    /\ box.status \in {"none", "created", "running", "stopped"} /\ box.port \in Ports \cup {NoPort}
    /\ held \in Handlers \cup {NoThread}
    /\ \A h \in Handlers : held = h <=> req[h].pc \in {"create", "ship", "start", "get", "stop", "remove", "done"}

\* A switch of TUN mode that was answered 200 is what docker runs until the
\* next request begins, also across restarts of agent and daemon: off leaves no
\* container that would take the host's traffic, on leaves it at the endpoint
\* the answer named.
TunAckHolds ==
    answer.kind = "ok" =>
        box = IF answer.on THEN [status |-> "running", port |-> answer.port] ELSE Gone

\* A request that was answered 502 leaves the container it found or none, and
\* never runs one of its own.  The one thing it may leave is a container that
\* was never started, by a create that reported an error once it was done
\* (docker_ctl.py:89, before the clean-up of start() begins).
RefusalIsUndone ==
    answer.kind = "refused" =>
        \/ box = Gone
        \/ box.port = answer.before.port
        \/ answer.step = "create" /\ box.status = "created"

\* Unless requests overlapped or one failed after its first write, GET /host
\* tells of the desktop proxy what the desktop uses.
ProxyIsTold ==
    intact =>
        IF proxy.on THEN /\ desktop.mode = "manual"
                         /\ \A s \in Schemas : desktop.ports[s] = proxy.port
        ELSE desktop.mode = "none"
=============================================================================
