----------------------------- MODULE EdgeProofs -----------------------------
(* Proofs about the programs around the engine: the host agent, the pick of *)
(* host mode, and the panel.                                                *)
EXTENDS HostAgent, HostPick, PanelStream, SubsequenceProofs, TLAPS

-----------------------------------------------------------------------------
(* The host agent: TUN mode. *)

Box == [status : {"none", "created", "running", "stopped"}, port : Ports \cup {NoPort}]
Switching == {"create", "ship", "start", "get", "stop", "remove", "done"}
Setting == {"write", "mode", "save"}
Req == [pc : {"rest", "lock"} \cup Switching \cup Setting, on : BOOLEAN,
        port : Ports \cup {NoPort}, todo : SUBSET Schemas, undo : BOOLEAN, alone : BOOLEAN,
        before : Box]
Reply == [kind : {"none", "ok", "refused", "error"}, step : {"rest"} \cup Switching,
          on : BOOLEAN, port : Ports \cup {NoPort}, before : Box]

AgentTyped ==
    /\ tun \in Wishes /\ proxy \in Wishes /\ box \in Box
    /\ held \in Handlers \cup {NoThread}
    /\ req \in [Handlers -> Req]
    /\ answer \in Reply

\* A request asks for an endpoint, or for none.
Wished(q) == IF q.on THEN q.port \in Ports ELSE q.port = NoPort

\* Where a switch stands, and the container it finds there: its own between
\* create and start, the one of the beginning before that, and at the end what
\* was asked for, or nothing after a start that is undone.
Fits(q, b) ==
    /\ q.pc \in {"rest", "lock"} => ~q.undo
    /\ q.pc \in {"ship", "start"} => b = [status |-> "created", port |-> q.port]
    /\ q.pc \in {"create", "ship", "start"} => q.on /\ ~q.undo
    /\ q.pc \in {"get", "stop", "remove"} => q.undo \/ ~q.on
    /\ q.pc = "create" \/ (q.pc = "get" /\ ~q.undo) => b.port = q.before.port
    /\ q.pc = "done" =>
          b = IF q.on /\ ~q.undo THEN [status |-> "running", port |-> q.port] ELSE Gone

Locked == \A h \in Handlers : held = h <=> req[h].pc \in Switching
Working == \A h \in Handlers : Fits(req[h], box) /\ Wished(req[h])

\* The last answer is no longer of interest once a switch begins.
Silent == held # NoThread => answer.kind = "none"

TunInv ==
    AgentTyped /\ Locked /\ Working /\ Silent /\ TunAckHolds /\ RefusalIsUndone

LEMMA AgentTypes ==
    /\ Off \in Wishes /\ Gone \in Box
    /\ NoAnswer \in Reply /\ NoAnswer.kind = "none"
    /\ Resting \in Req /\ Resting.pc = "rest" /\ ~Resting.undo /\ ~Resting.alone
    /\ Fits(Resting, box) /\ Wished(Resting)
<1>1. Off \in Wishes BY DEF Off, Wishes
<1>2. Gone \in Box BY DEF Gone, Box
<1>3. NoAnswer \in Reply /\ NoAnswer.kind = "none" BY <1>2 DEF NoAnswer, Reply
<1>4. Resting \in Req /\ Resting.pc = "rest" /\ ~Resting.undo /\ ~Resting.alone
      /\ ~Resting.on /\ Resting.port = NoPort
  BY <1>2 DEF Resting, Req
<1> QED BY <1>1, <1>2, <1>3, <1>4 DEF Fits, Wished

\* What is asked for is a wish.
LEMMA WishIsOne ==
    ASSUME NEW q \in Req, Wished(q)
    PROVE  [on |-> q.on, port |-> q.port] \in Wishes
<1>1. CASE q.on
  <2>1. q.port \in Ports /\ q.on = TRUE BY <1>1 DEF Wished, Req
  <2> QED BY <2>1 DEF Wishes
<1>2. CASE ~q.on
  <2>1. q.port = NoPort /\ q.on = FALSE BY <1>2 DEF Wished, Req
  <2> QED BY <2>1 DEF Wishes, Off
<1> QED BY <1>1, <1>2

\* A thread takes a step of a switch, or one that leaves the switch alone.
LEMMA SwitchStep ==
    ASSUME TunInv, NEW h \in Handlers, NEW q \in Req, req' = [req EXCEPT ![h] = q],
           box' \in Box, tun' \in Wishes, proxy' \in Wishes, answer' \in Reply,
           Fits(q, box'), Wished(q),
           held' = IF q.pc \in Switching THEN h ELSE IF held = h THEN NoThread ELSE held,
           held = h \/ (box' = box /\ (q.pc \in Switching => held = NoThread)),
           Silent', TunAckHolds', RefusalIsUndone'
    PROVE  TunInv'
<1>1. /\ req' \in [Handlers -> Req] /\ req'[h] = q
      /\ \A x \in Handlers : x # h => req'[x] = req[x]
  BY DEF TunInv, AgentTyped
<1>2. AgentTyped' BY <1>1, AgentAssumption DEF TunInv, AgentTyped
<1>3. Locked'
  <2>1. ASSUME NEW x \in Handlers PROVE held' = x <=> req'[x].pc \in Switching
    <3>1. held = x <=> req[x].pc \in Switching BY DEF TunInv, Locked
    <3>2. held = h <=> req[h].pc \in Switching BY DEF TunInv, Locked
    <3>3. x # NoThread /\ h # NoThread BY AgentAssumption
    <3> QED BY <1>1, <3>1, <3>2, <3>3
  <2> QED BY <2>1 DEF Locked
<1>4. Working'
  <2>1. ASSUME NEW x \in Handlers, x # h PROVE Fits(req'[x], box') /\ Wished(req'[x])
    <3>1. Fits(req[x], box) /\ Wished(req[x]) /\ req'[x] = req[x]
      BY <1>1, <2>1 DEF TunInv, Working
    <3>2. box' = box \/ req[x].pc \notin Switching BY <2>1 DEF TunInv, Locked
    <3> QED BY <3>1, <3>2 DEF Fits, Switching
  <2> QED BY <1>1, <2>1 DEF Working
<1> QED BY <1>2, <1>3, <1>4 DEF TunInv

LEMMA TunRequestKeeps ==
    ASSUME TunInv, NEW h \in Handlers, TunRequest(h)
    PROVE  TunInv'
<1>1. PICK x \in Wishes :
        req' = [req EXCEPT ![h] = [Resting EXCEPT !.pc = "lock", !.on = x.on, !.port = x.port]]
  BY DEF TunRequest
<1> DEFINE q == [Resting EXCEPT !.pc = "lock", !.on = x.on, !.port = x.port]
<1>2. x.on \in BOOLEAN /\ x.port \in Ports \cup {NoPort} /\ (IF x.on THEN x.port \in Ports ELSE x.port = NoPort)
  <2>1. CASE x \in [on : {TRUE}, port : Ports] BY <2>1
  <2>2. CASE x = Off BY <2>2 DEF Off
  <2> QED BY <2>1, <2>2 DEF Wishes
<1>3. q \in Req /\ q.pc = "lock" /\ q.on = x.on /\ q.port = x.port /\ ~q.undo
  BY <1>2, AgentTypes DEF Req
<1> HIDE DEF q
<1>4. req' = [req EXCEPT ![h] = q] BY <1>1 DEF q
<1>5. req[h].pc = "rest" /\ UNCHANGED <<tun, box, held, answer, proxy>>
  BY DEF TunRequest, At, tunVars, proxyVars
<1>6. Fits(q, box') /\ Wished(q) BY <1>2, <1>3 DEF Fits, Wished
<1>7. q.pc \notin Switching /\ held # h BY <1>3, <1>5 DEF Switching, TunInv, Locked
<1>8. Silent' /\ TunAckHolds' /\ RefusalIsUndone'
  BY <1>5 DEF TunInv, Silent, TunAckHolds, RefusalIsUndone
<1> QED BY <1>3, <1>4, <1>5, <1>6, <1>7, <1>8, SwitchStep DEF TunInv, AgentTyped

LEMMA TunLockKeeps ==
    ASSUME TunInv, NEW h \in Handlers, TunLock(h)
    PROVE  TunInv'
<1> DEFINE q == [req[h] EXCEPT !.pc = IF req[h].on THEN "create" ELSE "get", !.before = box]
<1>1. req[h].pc = "lock" /\ req[h] \in Req /\ box \in Box /\ held = NoThread /\ held' = h
      /\ answer' = NoAnswer /\ UNCHANGED <<tun, box, proxy>>
  BY DEF TunLock, At, TunInv, AgentTyped, proxyVars
<1>2. /\ q \in Req /\ q.pc = (IF req[h].on THEN "create" ELSE "get") /\ q.before = box
      /\ q.on = req[h].on /\ q.port = req[h].port /\ q.undo = req[h].undo
  BY <1>1 DEF Req, Switching
<1>3. req' = [req EXCEPT ![h] = q] BY DEF TunLock, TunInv, AgentTyped
<1> HIDE DEF q
<1>4. Fits(req[h], box) /\ Wished(req[h]) BY DEF TunInv, Working
<1>5. Fits(q, box') /\ Wished(q) BY <1>1, <1>2, <1>4 DEF Fits, Wished
<1>6. q.pc \in Switching BY <1>2 DEF Switching
<1>7. Silent' /\ TunAckHolds' /\ RefusalIsUndone'
  BY <1>1, AgentTypes DEF Silent, TunAckHolds, RefusalIsUndone
<1> QED BY <1>1, <1>2, <1>3, <1>5, <1>6, <1>7, AgentTypes, SwitchStep DEF TunInv, AgentTyped

\* The thread under the lock moves on: nothing was answered yet.
LEMMA SwitchMoves ==
    ASSUME TunInv, NEW h \in Handlers, held = h, NEW q \in Req, req' = [req EXCEPT ![h] = q],
           q.pc \in Switching, Fits(q, box'), Wished(q), box' \in Box,
           UNCHANGED <<tun, held, answer, proxy>>
    PROVE  TunInv'
<1>1. h # NoThread BY AgentAssumption
<1>2. answer.kind = "none" BY <1>1 DEF TunInv, Silent
<1>3. Silent' /\ TunAckHolds' /\ RefusalIsUndone'
  BY <1>2 DEF Silent, TunAckHolds, RefusalIsUndone
<1> QED BY <1>1, <1>3, SwitchStep DEF TunInv, AgentTyped

\* The thread under the lock answers.
LEMMA SwitchAnswers ==
    ASSUME TunInv, NEW h \in Handlers, held = h, NEW kind \in {"ok", "refused", "error"},
           Answer(h, kind), tun' \in Wishes, box' \in Box,
           kind = "ok" => box' = IF req[h].on THEN Running(h) ELSE Gone,
           kind = "refused" => \/ box' = Gone
                               \/ box'.port = req[h].before.port
                               \/ req[h].pc = "create" /\ box'.status = "created"
    PROVE  TunInv'
<1>1. /\ answer' = [kind |-> kind, step |-> req[h].pc, on |-> req[h].on, port |-> req[h].port,
                     before |-> req[h].before]
      /\ held' = NoThread /\ req' = [req EXCEPT ![h] = Resting] /\ proxy' = proxy
      /\ req[h] \in Req /\ req[h].pc \in Switching
  BY DEF Answer, proxyVars, TunInv, AgentTyped, Locked
<1>2. answer' \in Reply /\ answer'.kind = kind /\ answer'.on = req[h].on
      /\ answer'.step = req[h].pc
      /\ answer'.port = req[h].port /\ answer'.before = req[h].before
  BY <1>1 DEF Reply, Req
<1>3. Silent' /\ TunAckHolds' /\ RefusalIsUndone'
  <2>1. Silent' BY <1>1 DEF Silent
  <2>2. TunAckHolds' BY <1>2 DEF TunAckHolds, Running
  <2>3. RefusalIsUndone' BY <1>2 DEF RefusalIsUndone
  <2> QED BY <2>1, <2>2, <2>3
<1>4. Resting \in Req /\ Resting.pc \notin Switching /\ Fits(Resting, box') /\ Wished(Resting)
  BY AgentTypes DEF Switching, Fits
<1> QED BY <1>1, <1>2, <1>3, <1>4, SwitchStep DEF TunInv, AgentTyped

\* A call was carried out.
LEMMA StepKeeps ==
    ASSUME TunInv, NEW h \in Handlers, held = h, NEW pc \in Switching, NEW after \in Box,
           Goto(h, pc), box' = after, UNCHANGED <<tun, held, answer, proxy>>,
           Fits([req[h] EXCEPT !.pc = pc], after)
    PROVE  TunInv'
<1> DEFINE q == [req[h] EXCEPT !.pc = pc]
<1>1. req[h] \in Req /\ req \in [Handlers -> Req] /\ Wished(req[h])
  BY DEF TunInv, AgentTyped, Working
<1>2. /\ req' = [req EXCEPT ![h] = q] /\ box' = after
      /\ UNCHANGED <<tun, held, answer, proxy>>
  BY <1>1 DEF Goto
<1>3. q \in Req /\ q.pc = pc /\ q.on = req[h].on /\ q.port = req[h].port BY <1>1 DEF Req
<1>4. Fits(q, box') BY <1>2
<1> HIDE DEF q
<1>5. Wished(q) BY <1>1, <1>3 DEF Wished
<1> QED BY <1>2, <1>3, <1>4, <1>5, SwitchMoves

\* A call failed in an unforeseen way, carried out or not.
LEMMA BreaksKeeps ==
    ASSUME TunInv, NEW h \in Handlers, held = h, NEW after \in Box, Breaks(h, after)
    PROVE  TunInv'
<1>1. box' \in Box /\ tun' = tun /\ Answer(h, "error") BY DEF Breaks, TunInv, AgentTyped
<1>2. tun' \in Wishes BY <1>1 DEF TunInv, AgentTyped
<1> QED BY <1>1, <1>2, SwitchAnswers

LEMMA RefuseKeeps ==
    ASSUME TunInv, NEW h \in Handlers, held = h, Refuse(h),
           box = Gone \/ box.port = req[h].before.port
    PROVE  TunInv'
<1>1. box' = box /\ tun' = tun /\ Answer(h, "refused") BY DEF Refuse
<1>2. tun' \in Wishes /\ box' \in Box BY <1>1 DEF TunInv, AgentTyped
<1> QED BY <1>1, <1>2, SwitchAnswers

\* An error of the create itself: whatever it left was never started.
LEMMA FailsAsCarriedOutKeeps ==
    ASSUME TunInv, NEW h \in Handlers, held = h, req[h].pc = "create", Created(h) \in Box,
           box.port = req[h].before.port, FailsAsCarriedOut(h, Created(h))
    PROVE  TunInv'
<1>1. /\ tun' = tun /\ Answer(h, "refused") /\ (box' = Created(h) \/ box' = box)
      /\ Created(h).status = "created"
  BY DEF FailsAsCarriedOut, Created
<1>2. tun' \in Wishes /\ box' \in Box BY <1>1 DEF TunInv, AgentTyped
<1> QED BY <1>1, <1>2, SwitchAnswers

\* start() goes on to remove what it created.
LEMMA ApiErrorKeeps ==
    ASSUME TunInv, NEW h \in Handlers, held = h, NEW after \in Box, ApiError(h, after)
    PROVE  TunInv'
<1> DEFINE q == [req[h] EXCEPT !.pc = "get", !.undo = TRUE]
<1>1. req[h] \in Req /\ req \in [Handlers -> Req] /\ Wished(req[h])
  BY DEF TunInv, AgentTyped, Working
<1>2. /\ req' = [req EXCEPT ![h] = q] /\ box' \in Box
      /\ UNCHANGED <<tun, held, answer, proxy>>
  BY <1>1 DEF ApiError, proxyVars, TunInv, AgentTyped
<1>3. q \in Req /\ q.pc = "get" /\ q.undo /\ q.on = req[h].on /\ q.port = req[h].port
  BY <1>1 DEF Req, Switching
<1> HIDE DEF q
<1>4. Wished(q) BY <1>1, <1>3 DEF Wished
<1>5. Fits(q, box') BY <1>3 DEF Fits
<1>6. q.pc \in Switching BY <1>3 DEF Switching
<1> QED BY <1>2, <1>3, <1>4, <1>5, <1>6, SwitchMoves

\* What is known of the thread that makes a docker call.
LEMMA AtWork ==
    ASSUME TunInv, NEW h \in Handlers, req[h].pc \in Switching
    PROVE  /\ held = h /\ req[h] \in Req /\ box \in Box
           /\ Fits(req[h], box) /\ Wished(req[h])
           /\ [status |-> "created", port |-> req[h].port] \in Box
           /\ [status |-> "running", port |-> req[h].port] \in Box
<1>1. /\ held = h /\ req[h] \in Req /\ box \in Box
      /\ Fits(req[h], box) /\ Wished(req[h])
  BY DEF TunInv, AgentTyped, Locked, Working
<1>2. req[h].port \in Ports \cup {NoPort} BY <1>1 DEF Req
<1> QED BY <1>1, <1>2 DEF Box

LEMMA CreateKeeps ==
    ASSUME TunInv, NEW h \in Handlers, Create(h)
    PROVE  TunInv'
<1>1. req[h].pc = "create" BY DEF Create, At
<1>2. /\ held = h /\ req[h] \in Req /\ box \in Box /\ Fits(req[h], box)
      /\ Created(h) \in Box
  BY <1>1, AtWork DEF Switching, Created
<1>3. box.port = req[h].before.port /\ req[h].on /\ ~req[h].undo BY <1>1, <1>2 DEF Fits
<1>4. CASE Refuse(h) BY <1>2, <1>3, <1>4, RefuseKeeps
<1>5. CASE Breaks(h, Created(h)) BY <1>2, <1>5, BreaksKeeps
<1>6. CASE FailsAsCarriedOut(h, Created(h))
  BY <1>1, <1>2, <1>3, <1>6, FailsAsCarriedOutKeeps
<1>7. CASE Step(h, "ship", Created(h))
  <2> DEFINE q == [req[h] EXCEPT !.pc = "ship"]
  <2>1. q.pc = "ship" /\ q.on = req[h].on /\ q.undo = req[h].undo /\ q.port = req[h].port
    BY <1>2 DEF Req
  <2> HIDE DEF q
  <2>2. Fits(q, Created(h)) BY <1>3, <2>1 DEF Fits, Created
  <2>3. "ship" \in Switching BY DEF Switching
  <2> QED BY <1>2, <1>7, <2>2, <2>3, StepKeeps DEF q, Step, proxyVars
<1> QED BY <1>4, <1>5, <1>6, <1>7 DEF Create

LEMMA ShipKeeps ==
    ASSUME TunInv, NEW h \in Handlers, Ship(h)
    PROVE  TunInv'
<1>1. req[h].pc = "ship" BY DEF Ship, At
<1>2. held = h /\ req[h] \in Req /\ box \in Box /\ Fits(req[h], box)
  BY <1>1, AtWork DEF Switching
<1>3. req[h].on /\ ~req[h].undo /\ box = [status |-> "created", port |-> req[h].port]
  BY <1>1, <1>2 DEF Fits
<1>4. CASE ApiError(h, box) BY <1>2, <1>4, ApiErrorKeeps
<1>5. CASE Breaks(h, box) BY <1>2, <1>5, BreaksKeeps
<1>6. CASE Step(h, "start", box)
  <2> DEFINE q == [req[h] EXCEPT !.pc = "start"]
  <2>1. q.pc = "start" /\ q.on = req[h].on /\ q.undo = req[h].undo /\ q.port = req[h].port
    BY <1>2 DEF Req
  <2> HIDE DEF q
  <2>2. Fits(q, box) BY <1>3, <2>1 DEF Fits
  <2>3. "start" \in Switching BY DEF Switching
  <2> QED BY <1>2, <1>6, <2>2, <2>3, StepKeeps DEF q, Step, proxyVars
<1> QED BY <1>4, <1>5, <1>6 DEF Ship

LEMMA StartKeeps ==
    ASSUME TunInv, NEW h \in Handlers, Start(h)
    PROVE  TunInv'
<1>1. req[h].pc = "start" BY DEF Start, At
<1>2. held = h /\ req[h] \in Req /\ Fits(req[h], box) /\ Running(h) \in Box
  BY <1>1, AtWork DEF Switching, Running
<1>3. req[h].on /\ ~req[h].undo BY <1>1, <1>2 DEF Fits
<1>4. CASE ApiError(h, Running(h)) BY <1>2, <1>4, ApiErrorKeeps
<1>5. CASE Breaks(h, Running(h)) BY <1>2, <1>5, BreaksKeeps
<1>6. CASE Step(h, "done", Running(h))
  <2> DEFINE q == [req[h] EXCEPT !.pc = "done"]
  <2>1. q.pc = "done" /\ q.on = req[h].on /\ q.undo = req[h].undo /\ q.port = req[h].port
    BY <1>2 DEF Req
  <2> HIDE DEF q
  <2>2. Fits(q, Running(h)) BY <1>3, <2>1 DEF Fits, Running
  <2>3. "done" \in Switching BY DEF Switching
  <2> QED BY <1>2, <1>6, <2>2, <2>3, StepKeeps DEF q, Step, proxyVars
<1> QED BY <1>4, <1>5, <1>6 DEF Start

LEMMA GetKeeps ==
    ASSUME TunInv, NEW h \in Handlers, Get(h)
    PROVE  TunInv'
<1>1. req[h].pc = "get" BY DEF Get, At
<1>2. held = h /\ req[h] \in Req /\ box \in Box /\ Fits(req[h], box)
  BY <1>1, AtWork DEF Switching
<1>3. (req[h].undo \/ ~req[h].on) /\ (~req[h].undo => box.port = req[h].before.port)
  BY <1>1, <1>2 DEF Fits
<1>4. CASE ~req[h].undo /\ Refuse(h) BY <1>2, <1>3, <1>4, RefuseKeeps
<1>5. CASE Breaks(h, box) BY <1>2, <1>5, BreaksKeeps
<1>6. CASE Step(h, IF box = Gone THEN "done" ELSE "stop", box)
  <2> DEFINE pc == IF box = Gone THEN "done" ELSE "stop"
             q == [req[h] EXCEPT !.pc = pc]
  <2>1. q.pc = pc /\ q.on = req[h].on /\ q.undo = req[h].undo BY <1>2 DEF Req
  <2>2. pc \in Switching /\ ((pc = "done" /\ box = Gone) \/ pc = "stop") BY DEF Switching
  <2> HIDE DEF q
  <2>3. Fits(q, box) BY <1>3, <2>1, <2>2 DEF Fits
  <2>4. pc \in Switching BY DEF Switching
  <2> QED BY <1>2, <1>6, <2>3, <2>4, StepKeeps DEF q, Step, proxyVars
<1> QED BY <1>4, <1>5, <1>6 DEF Get

\* The container is stopped, or not.
LEMMA StopKeeps ==
    ASSUME TunInv, NEW h \in Handlers, Stop(h)
    PROVE  TunInv'
<1>1. req[h].pc = "stop" BY DEF Stop, At
<1>2. held = h /\ req[h] \in Req /\ box \in Box /\ Fits(req[h], box)
  BY <1>1, AtWork DEF Switching
<1>3. req[h].undo \/ ~req[h].on BY <1>1, <1>2 DEF Fits
<1>4. PICK after \in Box :
        Goto(h, "remove") /\ box' = after /\ UNCHANGED <<tun, held, answer, proxy>>
  <2> DEFINE halted == [box EXCEPT !.status = "stopped"]
  <2>1. halted \in Box BY <1>2 DEF Box
  <2>2. CASE Step(h, "remove", IF box.status = "running" THEN halted ELSE box)
    BY <2>1, <2>2, <1>2 DEF Step, proxyVars
  <2>3. CASE Trouble /\ Goto(h, "remove") /\ UNCHANGED <<tunVars, proxyVars>>
    BY <2>3, <1>2 DEF tunVars, proxyVars
  <2> QED BY <2>2, <2>3 DEF Stop
<1> DEFINE q == [req[h] EXCEPT !.pc = "remove"]
<1>5. q.pc = "remove" /\ q.on = req[h].on /\ q.undo = req[h].undo BY <1>2 DEF Req
<1> HIDE DEF q
<1>6. Fits(q, after) BY <1>3, <1>5 DEF Fits
<1>7. "remove" \in Switching BY DEF Switching
<1> QED BY <1>2, <1>4, <1>6, <1>7, StepKeeps DEF q

LEMMA RemoveKeeps ==
    ASSUME TunInv, NEW h \in Handlers, Remove(h)
    PROVE  TunInv'
<1>1. req[h].pc = "remove" BY DEF Remove, At
<1>2. held = h /\ req[h] \in Req /\ box \in Box /\ Fits(req[h], box) /\ Gone \in Box
  BY <1>1, AtWork, AgentTypes DEF Switching
<1>3. req[h].undo \/ ~req[h].on BY <1>1, <1>2 DEF Fits
<1>4. CASE Breaks(h, Gone) BY <1>2, <1>4, BreaksKeeps
<1>5. CASE Step(h, "done", Gone)
  <2> DEFINE q == [req[h] EXCEPT !.pc = "done"]
  <2>1. q.pc = "done" /\ q.on = req[h].on /\ q.undo = req[h].undo BY <1>2 DEF Req
  <2> HIDE DEF q
  <2>2. Fits(q, Gone) BY <1>3, <2>1 DEF Fits
  <2>3. "done" \in Switching BY DEF Switching
  <2> QED BY <1>2, <1>5, <2>2, <2>3, StepKeeps DEF q, Step, proxyVars
<1> QED BY <1>4, <1>5 DEF Remove

LEMMA TunDoneKeeps ==
    ASSUME TunInv, NEW h \in Handlers, TunDone(h)
    PROVE  TunInv'
<1>1. req[h].pc = "done" BY DEF TunDone, At
<1>2. held = h /\ req[h] \in Req /\ box \in Box /\ Fits(req[h], box) /\ Wished(req[h])
  BY <1>1, AtWork DEF Switching
<1>3. box = IF req[h].on /\ ~req[h].undo THEN Running(h) ELSE Gone
  BY <1>1, <1>2 DEF Fits, Running
<1>4. CASE req[h].undo
  <2>1. Refuse(h) BY <1>4 DEF TunDone
  <2> QED BY <1>2, <1>3, <1>4, <2>1, RefuseKeeps
<1>5. CASE ~req[h].undo
  <2>1. tun' = [on |-> req[h].on, port |-> req[h].port] /\ Answer(h, "ok") /\ box' = box
    BY <1>5 DEF TunDone
  <2>2. tun' \in Wishes BY <1>2, <2>1, WishIsOne
  <2>3. box' = IF req[h].on THEN Running(h) ELSE Gone BY <1>3, <1>5, <2>1
  <2>4. box' \in Box BY <1>2, <2>1
  <2> QED BY <1>2, <2>1, <2>2, <2>3, <2>4, SwitchAnswers
<1> QED BY <1>4, <1>5

\* A request for the desktop proxy leaves the switch alone.
LEMMA SettingKeeps ==
    ASSUME TunInv, NEW h \in Handlers, NEW q \in Req, req' = [req EXCEPT ![h] = q],
           UNCHANGED tunVars, proxy' \in Wishes,
           req[h].pc \notin Switching, q.pc \notin Switching, Wished(q),
           q.pc \in {"rest", "lock"} => ~q.undo
    PROVE  TunInv'
<1>1. UNCHANGED <<tun, box, held, answer>> BY DEF tunVars
<1>2. held # h BY DEF TunInv, Locked
<1>3. Fits(q, box') BY DEF Fits, Switching
<1>4. Silent' /\ TunAckHolds' /\ RefusalIsUndone'
  BY <1>1 DEF TunInv, Silent, TunAckHolds, RefusalIsUndone
<1> QED BY <1>1, <1>2, <1>3, <1>4, SwitchStep DEF TunInv, AgentTyped

-----------------------------------------------------------------------------
(* The host agent: the desktop proxy. *)

Desk == [mode : {"none", "manual"}, ports : [Schemas -> Ports \cup {NoPort}]]

\* What a request has set so far.
HasSet(q, d) ==
    /\ q.pc = "write" => q.on /\ \A s \in Schemas \ q.todo : d.ports[s] = q.port
    /\ q.pc \in {"mode", "save"} /\ q.on => \A s \in Schemas : d.ports[s] = q.port
    /\ q.pc = "save" => d.mode = IF q.on THEN "manual" ELSE "none"

\* A request that began alone and stayed so.
Apart ==
    \A h \in Handlers : req[h].pc \in Setting /\ req[h].alone =>
        HasSet(req[h], desktop) /\ \A g \in Handlers : req[g].pc \in Setting => g = h

ProxyInv == desktop \in Desk /\ intact \in BOOLEAN /\ Apart /\ ProxyIsTold

AgentInv == TunInv /\ ProxyInv

\* A request begins: nobody is alone any more who was.
LEMMA ProxyRequestKeeps ==
    ASSUME AgentInv, NEW h \in Handlers, ProxyRequest(h)
    PROVE  AgentInv'
<1>1. PICK x \in Wishes :
        req' = [g \in Handlers |->
            IF g = h THEN [Resting EXCEPT !.pc = IF x.on THEN "write" ELSE "mode", !.on = x.on,
                                          !.port = x.port, !.todo = IF x.on THEN Schemas ELSE {},
                                          !.alone = InProxy = {}]
            ELSE [req[g] EXCEPT !.alone = FALSE]]
  BY DEF ProxyRequest
<1> DEFINE todo == IF x.on THEN Schemas ELSE {}
           free == InProxy = {}
           pc == IF x.on THEN "write" ELSE "mode"
           q == [Resting EXCEPT !.pc = pc, !.on = x.on, !.port = x.port, !.todo = todo, !.alone = free]
<1>2. x.on \in BOOLEAN /\ x.port \in Ports \cup {NoPort} /\ (IF x.on THEN x.port \in Ports ELSE x.port = NoPort)
  <2>1. CASE x \in [on : {TRUE}, port : Ports] BY <2>1
  <2>2. CASE x = Off BY <2>2 DEF Off
  <2> QED BY <2>1, <2>2 DEF Wishes
<1>3. /\ todo \in SUBSET Schemas /\ free \in BOOLEAN /\ pc \in {"write", "mode"}
      /\ pc = "write" => x.on /\ todo = Schemas
      /\ pc = "mode" => ~x.on
  OBVIOUS
<1>4. free => \A g \in Handlers : req[g].pc \notin Setting BY DEF InProxy, Setting
<1>5. req' = [g \in Handlers |-> IF g = h THEN q ELSE [req[g] EXCEPT !.alone = FALSE]] BY <1>1
<1>6. UNCHANGED <<tun, box, held, answer, proxy, desktop, intact>>
      /\ req[h].pc = "rest" /\ req \in [Handlers -> Req]
  BY DEF ProxyRequest, At, tunVars, proxyVars, AgentInv, TunInv, AgentTyped
<1> HIDE DEF todo, free, pc
<1>7. /\ q \in Req /\ q.pc = pc /\ q.on = x.on /\ q.port = x.port /\ q.todo = todo
      /\ q.alone = free /\ ~q.undo
  BY <1>2, <1>3, AgentTypes DEF Req, Setting
<1> HIDE DEF q
<1>8. /\ req' \in [Handlers -> Req] /\ req'[h] = q
      /\ \A g \in Handlers : g # h =>
            /\ req'[g].pc = req[g].pc /\ req'[g].on = req[g].on /\ req'[g].port = req[g].port
            /\ req'[g].undo = req[g].undo /\ req'[g].before = req[g].before /\ ~req'[g].alone
  <2>1. ASSUME NEW g \in Handlers, g # h
        PROVE  /\ req'[g] \in Req
               /\ req'[g].pc = req[g].pc /\ req'[g].on = req[g].on /\ req'[g].port = req[g].port
               /\ req'[g].undo = req[g].undo /\ req'[g].before = req[g].before /\ ~req'[g].alone
    <3>1. req'[g] = [req[g] EXCEPT !.alone = FALSE] /\ req[g] \in Req BY <1>5, <1>6, <2>1
    <3> QED BY <3>1 DEF Req
  <2>2. req'[h] = q BY <1>5
  <2>3. req' = [g \in Handlers |-> req'[g]] BY <1>5
  <2>4. \A g \in Handlers : req'[g] \in Req BY <1>7, <2>1, <2>2
  <2> QED BY <2>1, <2>2, <2>3, <2>4
<1>9. q.pc \notin Switching /\ q.pc \in Setting /\ q.pc \notin {"rest", "lock"}
  BY <1>3, <1>7 DEF Switching, Setting
<1>10. TunInv'
  <2>1. AgentTyped' BY <1>6, <1>8 DEF AgentInv, TunInv, AgentTyped
  <2>2. Locked'
    <3>1. \A g \in Handlers : req'[g].pc \in Switching <=> req[g].pc \in Switching
      BY <1>6, <1>8, <1>9 DEF Switching
    <3> QED BY <1>6, <3>1 DEF AgentInv, TunInv, Locked
  <2>3. Working'
    <3>1. ASSUME NEW g \in Handlers, g # h PROVE Fits(req'[g], box') /\ Wished(req'[g])
      BY <1>6, <1>8, <3>1 DEF AgentInv, TunInv, Working, Fits, Wished
    <3>2. Fits(q, box') /\ Wished(q)
      BY <1>2, <1>7, <1>9 DEF Fits, Wished, Switching
    <3> QED BY <1>8, <3>1, <3>2 DEF Working
  <2>4. Silent' /\ TunAckHolds' /\ RefusalIsUndone'
    BY <1>6 DEF AgentInv, TunInv, Silent, TunAckHolds, RefusalIsUndone
  <2> QED BY <2>1, <2>2, <2>3, <2>4 DEF TunInv
<1>11. Apart'
  <2>1. ASSUME NEW g \in Handlers, req'[g].pc \in Setting, req'[g].alone
        PROVE  HasSet(req'[g], desktop') /\ \A k \in Handlers : req'[k].pc \in Setting => k = g
    <3>1. g = h BY <1>8, <2>1
    <3>2. \A k \in Handlers : k # h => req'[k].pc \notin Setting BY <1>4, <1>7, <1>8, <2>1, <3>1
    <3>3. HasSet(q, desktop') BY <1>3, <1>7 DEF HasSet
    <3> QED BY <1>8, <3>1, <3>2, <3>3
  <2> QED BY <2>1 DEF Apart
<1>12. ProxyIsTold' BY <1>6 DEF AgentInv, ProxyInv, ProxyIsTold
<1> QED BY <1>6, <1>10, <1>11, <1>12 DEF AgentInv, ProxyInv

\* A step of a request for TUN mode touches no setting.
LEMMA TunStepApart ==
    ASSUME AgentInv, NEW h \in Handlers, NEW q, req' = [req EXCEPT ![h] = q],
           req[h].pc \notin Setting, q.pc \notin Setting, UNCHANGED proxyVars
    PROVE  ProxyInv'
<1>1. UNCHANGED <<proxy, desktop, intact>> BY DEF proxyVars
<1>2. \A g \in Handlers : (req'[g].pc \in Setting <=> req[g].pc \in Setting)
                          /\ (req'[g].pc \in Setting => req'[g] = req[g])
  BY DEF AgentInv, TunInv, AgentTyped
<1>3. Apart' BY <1>1, <1>2 DEF AgentInv, ProxyInv, Apart
<1>4. ProxyIsTold' BY <1>1 DEF AgentInv, ProxyInv, ProxyIsTold
<1> QED BY <1>1, <1>3, <1>4 DEF AgentInv, ProxyInv

LEMMA WriteKeeps ==
    ASSUME AgentInv, NEW h \in Handlers, Write(h)
    PROVE  AgentInv'
<1>1. PICK s \in req[h].todo :
        /\ desktop' = [desktop EXCEPT !.ports[s] = req[h].port]
        /\ req' = [req EXCEPT ![h].todo = @ \ {s}, ![h].pc = IF req[h].todo = {s} THEN "mode" ELSE "write"]
  BY DEF Write
<1> DEFINE pc == IF req[h].todo = {s} THEN "mode" ELSE "write"
           todo == req[h].todo \ {s}
           q == [req[h] EXCEPT !.todo = todo, !.pc = pc]
<1>2. /\ req[h].pc = "write" /\ req[h] \in Req /\ Wished(req[h]) /\ req \in [Handlers -> Req]
      /\ UNCHANGED tunVars /\ proxy' = proxy /\ intact' = FALSE /\ desktop \in Desk
      /\ proxy \in Wishes
  BY DEF Write, At, AgentInv, TunInv, AgentTyped, Working, ProxyInv
<1>3. /\ req[h].port \in Ports \cup {NoPort} /\ req[h].todo \in SUBSET Schemas /\ s \in Schemas
  BY <1>2 DEF Req
<1>4. pc \in {"write", "mode"} /\ todo \in SUBSET Schemas /\ (pc = "mode" => todo = {}) BY <1>3
<1>5. req' = [req EXCEPT ![h] = q] BY <1>1, <1>2
<1>6. todo = req[h].todo \ {s} OBVIOUS
<1> HIDE DEF pc, todo
<1>7. /\ q \in Req /\ q.pc = pc /\ q.todo = todo /\ q.on = req[h].on /\ q.port = req[h].port
      /\ q.undo = req[h].undo /\ q.alone = req[h].alone
  BY <1>2, <1>4 DEF Req, Setting
<1> HIDE DEF q
<1>8. /\ desktop' \in Desk /\ desktop'.mode = desktop.mode
      /\ \A x \in Schemas : desktop'.ports[x] = IF x = s THEN req[h].port ELSE desktop.ports[x]
  BY <1>1, <1>2, <1>3 DEF Desk
<1>9. TunInv'
  <2>1. /\ req[h].pc \notin Switching /\ q.pc \notin Switching /\ Wished(q)
        /\ q.pc \in {"rest", "lock"} => ~q.undo
    BY <1>2, <1>4, <1>7 DEF Switching, Wished
  <2> QED BY <2>1, <1>2, <1>5, <1>7, SettingKeeps DEF AgentInv
<1>10. Apart'
  <2>1. req'[h] = q /\ \A g \in Handlers : g # h => req'[g] = req[g] BY <1>2, <1>5
  <2>2. \A g \in Handlers : g # h /\ req[g].pc \in Setting => ~req[g].alone
    BY <1>2 DEF AgentInv, ProxyInv, Apart, Setting
  <2>3. ASSUME req[h].alone
        PROVE  HasSet(q, desktop') /\ \A g \in Handlers : req[g].pc \in Setting => g = h
    <3>1. HasSet(req[h], desktop) /\ \A g \in Handlers : req[g].pc \in Setting => g = h
      BY <1>2, <2>3 DEF AgentInv, ProxyInv, Apart, Setting
    <3>2. req[h].on /\ \A x \in Schemas \ req[h].todo : desktop.ports[x] = req[h].port
      BY <1>2, <3>1 DEF HasSet
    <3>3. \A x \in Schemas \ todo : desktop'.ports[x] = q.port BY <1>6, <1>7, <1>8, <3>2
    <3>4. HasSet(q, desktop') BY <1>4, <1>7, <3>2, <3>3 DEF HasSet
    <3> QED BY <3>1, <3>4
  <2> QED BY <1>7, <2>1, <2>2, <2>3 DEF Apart
<1>11. ProxyIsTold' BY <1>2 DEF ProxyIsTold
<1> QED BY <1>2, <1>8, <1>9, <1>10, <1>11 DEF AgentInv, ProxyInv

LEMMA SetModeKeeps ==
    ASSUME AgentInv, NEW h \in Handlers, SetMode(h)
    PROVE  AgentInv'
<1> DEFINE mode == IF req[h].on THEN "manual" ELSE "none"
           q == [req[h] EXCEPT !.pc = "save"]
<1>1. /\ req[h].pc = "mode" /\ req[h] \in Req /\ Wished(req[h]) /\ req \in [Handlers -> Req]
      /\ UNCHANGED tunVars /\ proxy' = proxy /\ intact' = FALSE /\ desktop \in Desk
      /\ proxy \in Wishes
  BY DEF SetMode, At, AgentInv, TunInv, AgentTyped, Working, ProxyInv
<1>2. mode \in {"none", "manual"} OBVIOUS
<1>3. desktop' = [desktop EXCEPT !.mode = mode] /\ req' = [req EXCEPT ![h] = q]
  BY <1>1 DEF SetMode, Goto
<1>4. /\ q \in Req /\ q.pc = "save" /\ q.on = req[h].on /\ q.port = req[h].port
      /\ q.undo = req[h].undo /\ q.alone = req[h].alone
  BY <1>1 DEF Req, Setting
<1> HIDE DEF q
<1>5. mode = IF req[h].on THEN "manual" ELSE "none" OBVIOUS
<1> HIDE DEF mode
<1>6. desktop' \in Desk /\ desktop'.mode = mode /\ desktop'.ports = desktop.ports
  BY <1>1, <1>2, <1>3 DEF Desk
<1>7. TunInv'
  <2>1. /\ req[h].pc \notin Switching /\ q.pc \notin Switching /\ Wished(q)
        /\ q.pc \in {"rest", "lock"} => ~q.undo
    BY <1>1, <1>4 DEF Switching, Wished
  <2> QED BY <2>1, <1>1, <1>3, <1>4, SettingKeeps DEF AgentInv
<1>8. Apart'
  <2>1. req'[h] = q /\ \A g \in Handlers : g # h => req'[g] = req[g] BY <1>1, <1>3
  <2>2. \A g \in Handlers : g # h /\ req[g].pc \in Setting => ~req[g].alone
    BY <1>1 DEF AgentInv, ProxyInv, Apart, Setting
  <2>3. ASSUME req[h].alone
        PROVE  HasSet(q, desktop') /\ \A g \in Handlers : req[g].pc \in Setting => g = h
    <3>1. HasSet(req[h], desktop) /\ \A g \in Handlers : req[g].pc \in Setting => g = h
      BY <1>1, <2>3 DEF AgentInv, ProxyInv, Apart, Setting
    <3>2. req[h].on => \A x \in Schemas : desktop.ports[x] = req[h].port
      BY <1>1, <3>1 DEF HasSet
    <3>3. HasSet(q, desktop') BY <1>4, <1>5, <1>6, <3>2 DEF HasSet
    <3> QED BY <3>1, <3>3
  <2> QED BY <1>4, <2>1, <2>2, <2>3 DEF Apart
<1>9. ProxyIsTold' BY <1>1 DEF ProxyIsTold
<1> QED BY <1>1, <1>6, <1>7, <1>8, <1>9 DEF AgentInv, ProxyInv

\* A request is over: those that go on were not alone.
LEMMA OverIsApart ==
    ASSUME AgentInv, NEW h \in Handlers, req' = [req EXCEPT ![h] = Resting], desktop' = desktop
    PROVE  Apart'
<1>1. req'[h] = Resting /\ \A g \in Handlers : g # h => req'[g] = req[g]
  BY DEF AgentInv, TunInv, AgentTyped
<1>2. Resting.pc \notin Setting BY AgentTypes DEF Setting
<1> QED BY <1>1, <1>2 DEF AgentInv, ProxyInv, Apart

LEMMA ProxyFailsKeeps ==
    ASSUME AgentInv, NEW h \in Handlers, ProxyFails(h)
    PROVE  AgentInv'
<1>1. /\ req[h].pc \in Setting /\ req' = [req EXCEPT ![h] = Resting]
      /\ UNCHANGED tunVars /\ UNCHANGED <<proxy, desktop, intact>>
  BY DEF ProxyFails, InProxy, Setting, proxyVars
<1>2. TunInv'
  <2>1. /\ req[h].pc \notin Switching /\ Resting.pc \notin Switching /\ Wished(Resting)
        /\ ~Resting.undo /\ Resting \in Req /\ proxy' \in Wishes
    BY <1>1, AgentTypes DEF Switching, Setting, AgentInv, TunInv, AgentTyped
  <2> QED BY <1>1, <2>1, SettingKeeps DEF AgentInv
<1>3. Apart' BY <1>1, OverIsApart
<1>4. ProxyIsTold' BY <1>1 DEF AgentInv, ProxyInv, ProxyIsTold
<1> QED BY <1>1, <1>2, <1>3, <1>4 DEF AgentInv, ProxyInv

LEMMA ProxySaveKeeps ==
    ASSUME AgentInv, NEW h \in Handlers, ProxySave(h)
    PROVE  AgentInv'
<1>1. /\ req[h].pc = "save" /\ req' = [req EXCEPT ![h] = Resting]
      /\ UNCHANGED tunVars /\ desktop' = desktop
      /\ proxy' = [on |-> req[h].on, port |-> req[h].port]
      /\ intact' = (req[h].alone /\ InProxy = {h})
      /\ req[h] \in Req /\ Wished(req[h])
  BY DEF ProxySave, At, AgentInv, TunInv, AgentTyped, Working
<1>2. proxy' \in Wishes BY <1>1, WishIsOne
<1>3. TunInv'
  <2>1. /\ req[h].pc \notin Switching /\ Resting.pc \notin Switching /\ Wished(Resting)
        /\ ~Resting.undo /\ Resting \in Req
    BY <1>1, AgentTypes DEF Switching
  <2> QED BY <1>1, <1>2, <2>1, SettingKeeps DEF AgentInv
<1>4. Apart' BY <1>1, OverIsApart
<1>5. ProxyIsTold'
  <2>1. ASSUME intact'
        PROVE  IF req[h].on THEN desktop.mode = "manual" /\ \A s \in Schemas : desktop.ports[s] = req[h].port
               ELSE desktop.mode = "none"
    <3>1. req[h].alone BY <1>1, <2>1
    <3>2. HasSet(req[h], desktop) BY <1>1, <3>1 DEF AgentInv, ProxyInv, Apart, Setting
    <3> QED BY <1>1, <3>2 DEF HasSet
  <2> QED BY <1>1, <2>1 DEF ProxyIsTold
<1>6. intact' \in BOOLEAN BY <1>1
<1> QED BY <1>1, <1>3, <1>4, <1>5, <1>6 DEF AgentInv, ProxyInv

\* What an answered switch left survives a restart of the agent.
LEMMA AgentRestartKeeps ==
    ASSUME AgentInv, AgentRestart
    PROVE  AgentInv'
<1>1. /\ tun' = Off /\ proxy' = Off /\ held' = NoThread
      /\ req' = [h \in Handlers |-> Resting]
      /\ intact' = (intact /\ desktop.mode = "none")
      /\ UNCHANGED <<box, desktop, answer>>
  BY DEF AgentRestart
<1>2. Resting \in Req /\ Resting.pc = "rest" /\ Fits(Resting, box) /\ Wished(Resting) BY AgentTypes
<1>3. TunInv'
  <2>1. AgentTyped' BY <1>1, <1>2, AgentTypes DEF AgentInv, TunInv, AgentTyped
  <2>2. Locked' BY <1>1, <1>2, AgentAssumption DEF Locked, Switching
  <2>3. Working' BY <1>1, <1>2 DEF Working
  <2>4. Silent' /\ TunAckHolds' /\ RefusalIsUndone'
    BY <1>1 DEF AgentInv, TunInv, Silent, TunAckHolds, RefusalIsUndone
  <2> QED BY <2>1, <2>2, <2>3, <2>4 DEF TunInv
<1>4. Apart' BY <1>1, <1>2 DEF Apart, Setting
<1>5. ProxyIsTold' BY <1>1 DEF ProxyIsTold, Off
<1>6. intact' \in BOOLEAN BY <1>1
<1> QED BY <1>1, <1>3, <1>4, <1>5, <1>6 DEF AgentInv, ProxyInv

\* A restart of the daemon finds no stopped container that an answer spoke of.
LEMMA DaemonRestartKeeps ==
    ASSUME AgentInv, DaemonRestart
    PROVE  AgentInv'
<1>1. /\ box.status = "stopped" /\ box' = [box EXCEPT !.status = "running"]
      /\ UNCHANGED <<tun, held, answer, proxy, desktop, intact, req>> /\ box \in Box
  BY DEF DaemonRestart, proxyVars, AgentInv, TunInv, AgentTyped
<1>2. box' \in Box /\ box'.port = box.port BY <1>1 DEF Box
<1>3. box # Gone BY <1>1 DEF Gone
<1>4. TunInv'
  <2>1. AgentTyped' BY <1>1, <1>2 DEF AgentInv, TunInv, AgentTyped
  <2>2. Locked' BY <1>1 DEF AgentInv, TunInv, Locked
  <2>3. Working'
    <3>1. ASSUME NEW h \in Handlers PROVE Fits(req[h], box') /\ Wished(req[h])
      <4>1. Fits(req[h], box) /\ Wished(req[h]) BY DEF AgentInv, TunInv, Working
      <4>2. req[h].pc \notin {"ship", "start"} BY <1>1, <4>1 DEF Fits
      <4>3. req[h].pc # "done" BY <1>1, <1>3, <4>1 DEF Fits
      <4> QED BY <1>2, <4>1, <4>2, <4>3 DEF Fits
    <3> QED BY <1>1, <3>1 DEF Working
  <2>4. Silent' BY <1>1 DEF AgentInv, TunInv, Silent
  <2>5. TunAckHolds'
    <3>1. answer.kind # "ok" BY <1>1, <1>3 DEF AgentInv, TunInv, TunAckHolds
    <3> QED BY <1>1, <3>1 DEF TunAckHolds
  <2>6. RefusalIsUndone' BY <1>1, <1>2, <1>3 DEF AgentInv, TunInv, RefusalIsUndone
  <2> QED BY <2>1, <2>2, <2>3, <2>4, <2>5, <2>6 DEF TunInv
<1>5. Apart' BY <1>1 DEF AgentInv, ProxyInv, Apart
<1>6. ProxyIsTold' BY <1>1 DEF AgentInv, ProxyInv, ProxyIsTold
<1> QED BY <1>1, <1>4, <1>5, <1>6 DEF AgentInv, ProxyInv

\* A thread that switches TUN mode stays out of the desktop's settings.
LEMMA TunHandles ==
    ASSUME AgentInv, NEW h \in Handlers,
           \/ TunRequest(h) \/ TunLock(h) \/ Create(h) \/ Ship(h) \/ Start(h)
           \/ Get(h) \/ Stop(h) \/ Remove(h) \/ TunDone(h)
    PROVE  ProxyInv'
<1>1. req[h] \in Req /\ req \in [Handlers -> Req] BY DEF AgentInv, TunInv, AgentTyped
<1>2. UNCHANGED proxyVars /\ req[h].pc \notin Setting
  BY DEF TunRequest, TunLock, Create, Ship, Start, Get, Stop, Remove, TunDone, At, Setting,
         Refuse, FailsAsCarriedOut, Breaks, Answer, Step, ApiError
<1>3. Resting \in Req /\ Resting.pc = "rest" BY AgentTypes
<1>4. ASSUME NEW pc \in Switching, Goto(h, pc)
      PROVE  ProxyInv'
  <2> DEFINE q == [req[h] EXCEPT !.pc = pc]
  <2>1. q.pc = pc /\ req' = [req EXCEPT ![h] = q] BY <1>1, <1>4 DEF Goto, Req
  <2> HIDE DEF q
  <2>2. q.pc \notin Setting BY <2>1 DEF Switching, Setting
  <2> QED BY <1>2, <2>1, <2>2, TunStepApart
<1>5. ASSUME NEW kind, Answer(h, kind)
      PROVE  ProxyInv'
  <2>1. req' = [req EXCEPT ![h] = Resting] BY <1>5 DEF Answer
  <2>2. Resting.pc \notin Setting BY <1>3 DEF Setting
  <2> QED BY <1>2, <2>1, <2>2, TunStepApart
<1>6. ASSUME NEW after, ApiError(h, after)
      PROVE  ProxyInv'
  <2> DEFINE q == [req[h] EXCEPT !.pc = "get", !.undo = TRUE]
  <2>1. q.pc = "get" /\ req' = [req EXCEPT ![h] = q] BY <1>1, <1>6 DEF ApiError, Req
  <2> HIDE DEF q
  <2>2. q.pc \notin Setting BY <2>1 DEF Setting
  <2> QED BY <1>2, <2>1, <2>2, TunStepApart
<1>7. CASE TunRequest(h)
  <2>1. PICK x \in Wishes :
          req' = [req EXCEPT ![h] = [Resting EXCEPT !.pc = "lock", !.on = x.on, !.port = x.port]]
    BY <1>7 DEF TunRequest
  <2> DEFINE q == [Resting EXCEPT !.pc = "lock", !.on = x.on, !.port = x.port]
  <2>2. q.pc = "lock" /\ req' = [req EXCEPT ![h] = q] BY <1>3, <2>1 DEF Req
  <2> HIDE DEF q
  <2>3. q.pc \notin Setting BY <2>2 DEF Setting
  <2> QED BY <1>2, <2>2, <2>3, TunStepApart
<1>8. CASE TunLock(h)
  <2> DEFINE pc == IF req[h].on THEN "create" ELSE "get"
             q == [req[h] EXCEPT !.pc = pc, !.before = box]
  <2>1. q.pc = pc /\ req' = [req EXCEPT ![h] = q] BY <1>1, <1>8 DEF TunLock, Req
  <2>2. pc \notin Setting BY DEF Setting
  <2> HIDE DEF q, pc
  <2> QED BY <1>2, <2>1, <2>2, TunStepApart
<1>9. CASE Create(h)
  <2>1. "ship" \in Switching BY DEF Switching
  <2> QED BY <1>4, <1>5, <1>9, <2>1 DEF Create, Step, Refuse, FailsAsCarriedOut, Breaks
<1>10. CASE Ship(h)
  <2>1. "start" \in Switching BY DEF Switching
  <2> QED BY <1>4, <1>5, <1>6, <1>10, <2>1 DEF Ship, Step, Breaks
<1>11. CASE Start(h)
  <2>1. "done" \in Switching BY DEF Switching
  <2> QED BY <1>4, <1>5, <1>6, <1>11, <2>1 DEF Start, Step, Breaks
<1>12. CASE Get(h)
  <2>1. "done" \in Switching /\ "stop" \in Switching BY DEF Switching
  <2> QED BY <1>4, <1>5, <1>12, <2>1 DEF Get, Step, Breaks, Refuse
<1>13. CASE Stop(h)
  <2>1. "remove" \in Switching BY DEF Switching
  <2> QED BY <1>4, <1>13, <2>1 DEF Stop, Step
<1>14. CASE Remove(h)
  <2>1. "done" \in Switching BY DEF Switching
  <2> QED BY <1>4, <1>5, <1>14, <2>1 DEF Remove, Step, Breaks
<1>15. CASE TunDone(h)
  BY <1>5, <1>15 DEF TunDone, Refuse
<1> QED BY <1>7, <1>8, <1>9, <1>10, <1>11, <1>12, <1>13, <1>14, <1>15

LEMMA AgentStarts ==
    ASSUME AgentInit
    PROVE  AgentInv
<1>1. /\ tun = Off /\ proxy = Off /\ box = Gone /\ held = NoThread
      /\ desktop = [mode |-> "none", ports |-> [s \in Schemas |-> NoPort]]
      /\ req = [h \in Handlers |-> Resting]
      /\ answer = NoAnswer /\ intact = TRUE
  BY DEF AgentInit
<1>2. Resting \in Req /\ Resting.pc = "rest" /\ Fits(Resting, box) /\ Wished(Resting) BY AgentTypes
<1>3. AgentTyped BY <1>1, <1>2, AgentTypes DEF AgentTyped
<1>4. Locked BY <1>1, <1>2, AgentAssumption DEF Locked, Switching
<1>5. Working BY <1>1, <1>2 DEF Working
<1>6. Silent /\ TunAckHolds /\ RefusalIsUndone
  BY <1>1, AgentTypes DEF Silent, TunAckHolds, RefusalIsUndone
<1>7. desktop \in Desk /\ intact \in BOOLEAN BY <1>1 DEF Desk
<1>8. Apart BY <1>1, <1>2 DEF Apart, Setting
<1>9. ProxyIsTold BY <1>1 DEF ProxyIsTold, Off
<1> QED BY <1>3, <1>4, <1>5, <1>6, <1>7, <1>8, <1>9 DEF AgentInv, TunInv, ProxyInv

LEMMA AgentGoesOn ==
    ASSUME AgentInv, [AgentNext]_agentVars
    PROVE  AgentInv'
<1>1. ASSUME NEW h \in Handlers, Handle(h) PROVE AgentInv'
  <2>1. CASE \/ TunRequest(h) \/ TunLock(h) \/ Create(h) \/ Ship(h) \/ Start(h)
             \/ Get(h) \/ Stop(h) \/ Remove(h) \/ TunDone(h)
    <3>1. TunInv'
      BY <2>1, TunRequestKeeps, TunLockKeeps, CreateKeeps, ShipKeeps, StartKeeps, GetKeeps,
         StopKeeps, RemoveKeeps, TunDoneKeeps DEF AgentInv
    <3>2. ProxyInv' BY <2>1, TunHandles
    <3> QED BY <3>1, <3>2 DEF AgentInv
  <2>2. CASE ProxyRequest(h) BY <2>2, ProxyRequestKeeps
  <2>3. CASE Write(h) BY <2>3, WriteKeeps
  <2>4. CASE SetMode(h) BY <2>4, SetModeKeeps
  <2>5. CASE ProxyFails(h) BY <2>5, ProxyFailsKeeps
  <2>6. CASE ProxySave(h) BY <2>6, ProxySaveKeeps
  <2> QED BY <1>1, <2>1, <2>2, <2>3, <2>4, <2>5, <2>6 DEF Handle
<1>2. CASE AgentRestart BY <1>2, AgentRestartKeeps
<1>3. CASE DaemonRestart BY <1>3, DaemonRestartKeeps
<1>4. CASE UNCHANGED agentVars
  <2>1. UNCHANGED <<tun, box, held, proxy, desktop, req, answer, intact>> BY <1>4 DEF agentVars
  <2>2. TunInv' BY <2>1 DEF AgentInv, TunInv, AgentTyped, Locked, Working, Silent, TunAckHolds, RefusalIsUndone
  <2>3. ProxyInv' BY <2>1 DEF AgentInv, ProxyInv, Apart, ProxyIsTold
  <2> QED BY <2>2, <2>3 DEF AgentInv
<1> QED BY <1>1, <1>2, <1>3, <1>4 DEF AgentNext

LEMMA AgentInvHolds == AgentSpec => []AgentInv
<1>1. AgentInit => AgentInv BY AgentStarts
<1>2. AgentInv /\ [AgentNext]_agentVars => AgentInv' BY AgentGoesOn
<1> QED BY <1>1, <1>2, PTL DEF AgentSpec

\* Memory, container and critical section stay well-formed: the lock is held
\* by the one thread that is between it and its answer.
THEOREM AgentTypesHold == AgentSpec => []AgentTypeOK
<1>1. AgentInv => AgentTypeOK
  BY DEF AgentInv, TunInv, AgentTyped, Locked, Switching, Box, AgentTypeOK
<1> QED BY <1>1, AgentInvHolds, PTL

\* A switch answered 200 is what docker runs until the next one begins,
\* whichever calls failed before and whatever restarts after it.
THEOREM TunAckIsKept == AgentSpec => []TunAckHolds
<1>1. AgentInv => TunAckHolds BY DEF AgentInv, TunInv
<1> QED BY <1>1, AgentInvHolds, PTL

\* A switch answered 502 runs no container of its own, and leaves none but the
\* never started one of a create that failed once it was done.
THEOREM RefusalsAreUndone == AgentSpec => []RefusalIsUndone
<1>1. AgentInv => RefusalIsUndone BY DEF AgentInv, TunInv
<1> QED BY <1>1, AgentInvHolds, PTL

\* What GET /host tells of the desktop proxy is what the desktop uses, unless
\* requests overlapped or one failed halfway.
THEOREM ProxyTellsTrue == AgentSpec => []ProxyIsTold
<1>1. AgentInv => ProxyIsTold BY DEF AgentInv, ProxyInv
<1> QED BY <1>1, AgentInvHolds, PTL

-----------------------------------------------------------------------------
(* Host mode: the pick. *)

Measured == [id : Ids, ms : Latencies]
Asking == [pc : {"rest", "measure", "rank", "at", "sign", "resolve", "sent",
                 "compare", "age", "read", "shown"},
           tuns : SUBSET Ids, todo : SUBSET Ids, found : SUBSET Measured,
           age : Int, torn : BOOLEAN, id : Ids \cup {NoId}]
Publishing == {"at", "sign"}

PickTyped ==
    /\ listed \in SUBSET Ids /\ pick \in Ids \cup {NoId} /\ pickSig \in SUBSET Ids
    /\ pickAt \in Nat /\ now \in Nat
    /\ pickHeld \in BOOLEAN
    /\ caller \in [Callers -> Asking]

\* A pass measures the tunnels it was given.
Given ==
    \A c \in Callers :
        caller[c].todo \subseteq caller[c].tuns /\ \A m \in caller[c].found : m.id \in caller[c].tuns

\* The id of a pass that has ranked is one that answered it.
Chosen ==
    \A c \in Callers : caller[c].pc \in Publishing \cup {"resolve", "sent"} =>
        caller[c].id \in {m.id : m \in caller[c].found}

\* One thread publishes at a time; while it does, the pick is its own.
Publisher ==
    /\ \A c \in Callers : caller[c].pc \in Publishing => pickHeld /\ caller[c].id = pick
    /\ \A c, d \in Callers :
          caller[c].pc \in Publishing /\ caller[d].pc \in Publishing => c = d

\* Between two publications the pick is among the tunnels it was made for.
Signed == ~pickHeld /\ pick # NoId => pick \in pickSig

\* A look that no publication disturbed still sees what it compared.
Looking ==
    \A c \in Callers :
        /\ caller[c].pc \in {"age", "read"} /\ ~caller[c].torn =>
              ~pickHeld /\ pick # NoId /\ caller[c].tuns = pickSig
        /\ caller[c].pc \in {"read", "shown"} => caller[c].age < PickTTL

PickInv == PickTyped /\ Given /\ Chosen /\ Publisher /\ Signed /\ Looking /\ ShownPickIsCurrent

LEMMA NotAskingType ==
    /\ NotAsking \in Asking /\ NotAsking.pc = "rest" /\ NotAsking.tuns = {}
    /\ NotAsking.todo = {} /\ NotAsking.found = {} /\ ~NotAsking.torn
<1>1. NotAsking \in Asking BY DEF NotAsking, Asking
<1> QED BY <1>1 DEF NotAsking

\* What a caller may come to know without publishing anything.
LEMMA CallerStep ==
    ASSUME PickInv, NEW c \in Callers, NEW s \in Asking, caller' = [caller EXCEPT ![c] = s],
           UNCHANGED <<pick, pickSig, pickHeld>>, pickAt' \in Nat, now' \in Nat, listed' \in SUBSET Ids,
           s.todo \subseteq s.tuns, \A m \in s.found : m.id \in s.tuns,
           s.pc \in Publishing \cup {"resolve", "sent"} => s.id \in {m.id : m \in s.found},
           s.pc \in Publishing => caller[c].pc \in Publishing /\ s.id = caller[c].id,
           caller[c].pc \in Publishing => s.pc \in Publishing,
           s.pc \in {"age", "read"} /\ ~s.torn => ~pickHeld /\ pick # NoId /\ s.tuns = pickSig,
           s.pc \in {"read", "shown"} => s.age < PickTTL,
           s.pc = "shown" /\ ~s.torn => s.id \in s.tuns
    PROVE  PickInv'
<1>1. /\ caller' \in [Callers -> Asking] /\ caller'[c] = s
      /\ \A d \in Callers : d # c => caller'[d] = caller[d]
  BY DEF PickInv, PickTyped
<1>2. PickTyped' BY <1>1 DEF PickInv, PickTyped
<1>3. Given' BY <1>1 DEF PickInv, Given
<1>4. Chosen' BY <1>1 DEF PickInv, Chosen
<1>5. Publisher' BY <1>1 DEF PickInv, Publisher
<1>6. Signed' BY DEF PickInv, Signed
<1>7. Looking' BY <1>1 DEF PickInv, Looking
<1>8. ShownPickIsCurrent' BY <1>1 DEF PickInv, ShownPickIsCurrent
<1> QED BY <1>2, <1>3, <1>4, <1>5, <1>6, <1>7, <1>8 DEF PickInv

\* Tunnels and the clock are no part of it.
LEMMA PickOutside ==
    ASSUME PickInv, UNCHANGED <<pick, pickSig, pickHeld, caller>>,
           pickAt' \in Nat, now' \in Nat, listed' \in SUBSET Ids
    PROVE  PickInv'
BY DEF PickInv, PickTyped, Given, Chosen, Publisher, Signed, Looking, ShownPickIsCurrent

LEMMA CallerTypes ==
    ASSUME PickInv, NEW c \in Callers
    PROVE  /\ caller[c] \in Asking /\ listed \in SUBSET Ids /\ pickAt \in Nat /\ now \in Nat
           /\ caller[c].todo \subseteq caller[c].tuns
           /\ \A m \in caller[c].found : m.id \in caller[c].tuns
BY DEF PickInv, PickTyped, Given

LEMMA PickLoadKeeps ==
    ASSUME PickInv, NEW c \in Callers, PickLoad(c) \/ ShowLoad(c)
    PROVE  PickInv'
<1>1. listed \in SUBSET Ids /\ pickAt \in Nat /\ now \in Nat BY CallerTypes
<1>2. PICK pc \in {"measure", "compare"}, todo \in SUBSET listed :
        caller' = [caller EXCEPT ![c] = [NotAsking EXCEPT !.pc = pc, !.tuns = listed, !.todo = todo]]
  <2>1. CASE PickLoad(c) BY <2>1 DEF PickLoad, Becomes
  <2>2. CASE ShowLoad(c)
    <3> DEFINE s == [NotAsking EXCEPT !.pc = "compare", !.tuns = listed]
               z == [NotAsking EXCEPT !.pc = "compare", !.tuns = listed, !.todo = {}]
    <3>1. s = z BY NotAskingType DEF Asking
    <3>2. caller' = [caller EXCEPT ![c] = s] BY <2>2 DEF ShowLoad, Becomes
    <3> QED BY <3>1, <3>2
  <2> QED BY <2>1, <2>2
<1> DEFINE s == [NotAsking EXCEPT !.pc = pc, !.tuns = listed, !.todo = todo]
<1>3. /\ s \in Asking /\ s.pc = pc /\ s.tuns = listed /\ s.todo = todo /\ s.found = {}
  BY <1>1, NotAskingType DEF Asking
<1> HIDE DEF s
<1>4. caller[c].pc = "rest" /\ UNCHANGED <<listed, pick, pickAt, pickSig, pickHeld, now>>
  BY DEF PickLoad, ShowLoad
<1>5. caller' = [caller EXCEPT ![c] = s] BY <1>2 DEF s
<1>6. s.pc \notin Publishing \cup {"resolve", "sent", "age", "read", "shown"}
      /\ caller[c].pc \notin Publishing
  BY <1>3, <1>4 DEF Publishing
<1> QED BY <1>1, <1>3, <1>4, <1>5, <1>6, CallerStep

LEMMA MeasureKeeps ==
    ASSUME PickInv, NEW c \in Callers, Measure(c)
    PROVE  PickInv'
<1>1. /\ caller[c] \in Asking /\ listed \in SUBSET Ids /\ pickAt \in Nat /\ now \in Nat
      /\ caller[c].todo \subseteq caller[c].tuns
      /\ \A m \in caller[c].found : m.id \in caller[c].tuns
  BY CallerTypes
<1>2. PICK t \in caller[c].todo :
        \E found \in {caller[c].found} \cup {caller[c].found \cup {[id |-> t, ms |-> ms]} : ms \in Latencies} :
        caller' = [caller EXCEPT ![c] =
            [caller[c] EXCEPT !.todo = @ \ {t}, !.found = found,
                              !.pc = IF caller[c].todo = {t} THEN "rank" ELSE "measure"]]
  BY DEF Measure, Becomes
<1>3. PICK found \in {caller[c].found} \cup {caller[c].found \cup {[id |-> t, ms |-> ms]} : ms \in Latencies} :
        caller' = [caller EXCEPT ![c] =
            [caller[c] EXCEPT !.todo = @ \ {t}, !.found = found,
                              !.pc = IF caller[c].todo = {t} THEN "rank" ELSE "measure"]]
  BY <1>2
<1> DEFINE pc == IF caller[c].todo = {t} THEN "rank" ELSE "measure"
           todo == caller[c].todo \ {t}
           s == [caller[c] EXCEPT !.todo = todo, !.found = found, !.pc = pc]
<1>4. t \in Ids /\ t \in caller[c].tuns /\ todo \in SUBSET Ids /\ todo \subseteq caller[c].tuns
      /\ caller[c].found \in SUBSET Measured /\ pc \in {"rank", "measure"}
  BY <1>1 DEF Asking
<1>5. found \in SUBSET Measured /\ \A m \in found : m.id \in caller[c].tuns
  <2>1. CASE found = caller[c].found BY <1>1, <1>4, <2>1
  <2>2. ASSUME NEW ms \in Latencies, found = caller[c].found \cup {[id |-> t, ms |-> ms]}
        PROVE  found \in SUBSET Measured /\ \A m \in found : m.id \in caller[c].tuns
    BY <1>1, <1>4, <2>2 DEF Measured
  <2> QED BY <2>1, <2>2
<1>6. caller' = [caller EXCEPT ![c] = s] BY <1>3
<1> HIDE DEF pc, todo
<1>7. s \in Asking /\ s.pc = pc /\ s.tuns = caller[c].tuns /\ s.todo = todo /\ s.found = found
  BY <1>1, <1>4, <1>5 DEF Asking
<1> HIDE DEF s
<1>8. caller[c].pc = "measure" /\ UNCHANGED <<listed, pick, pickAt, pickSig, pickHeld, now>>
  BY DEF Measure
<1>9. s.pc \notin Publishing \cup {"resolve", "sent", "age", "read", "shown"}
      /\ caller[c].pc \notin Publishing
  BY <1>4, <1>7, <1>8 DEF Publishing
<1> QED BY <1>1, <1>4, <1>5, <1>6, <1>7, <1>8, <1>9, CallerStep

\* A pass publishes: whoever looks meanwhile is disturbed.
LEMMA RankKeeps ==
    ASSUME PickInv, NEW c \in Callers, Rank(c)
    PROVE  PickInv'
<1>1. /\ caller[c].pc = "rank" /\ caller[c] \in Asking /\ listed \in SUBSET Ids /\ pickAt \in Nat /\ now \in Nat
      /\ \A m \in caller[c].found : m.id \in caller[c].tuns
      /\ UNCHANGED <<listed, pickAt, pickSig, now>> /\ caller \in [Callers -> Asking]
  BY CallerTypes DEF Rank, PickInv, PickTyped
<1>2. CASE caller[c].found = {}
  <2>1. caller' = [caller EXCEPT ![c] = NotAsking] /\ UNCHANGED <<pick, pickHeld>>
    BY <1>2 DEF Rank, Becomes
  <2>2. /\ NotAsking.pc \notin Publishing \cup {"resolve", "sent", "age", "read", "shown"}
        /\ caller[c].pc \notin Publishing
    BY <1>1, NotAskingType DEF Publishing
  <2> QED BY <1>1, <2>1, <2>2, NotAskingType, CallerStep
<1>3. CASE caller[c].found # {}
  <2>1. /\ ~pickHeld /\ pickHeld' = TRUE /\ pick' \in Best(caller[c].found)
        /\ caller' = [x \in Callers |-> IF x = c THEN [caller[c] EXCEPT !.pc = "at", !.id = pick']
                                        ELSE [caller[x] EXCEPT !.torn = TRUE]]
    BY <1>3 DEF Rank
  <2>2. pick' \in Ids /\ pick' \in {m.id : m \in caller[c].found}
    <3>1. pick' \in {m.id : m \in caller[c].found} BY <2>1 DEF Best
    <3>2. \A m \in caller[c].found : m.id \in Ids BY <1>1 DEF Asking, Measured
    <3> QED BY <3>1, <3>2
  <2> DEFINE s == [caller[c] EXCEPT !.pc = "at", !.id = pick']
  <2>3. /\ s \in Asking /\ s.pc = "at" /\ s.id = pick' /\ s.tuns = caller[c].tuns
        /\ s.todo = caller[c].todo /\ s.found = caller[c].found
    BY <1>1, <2>2 DEF Asking
  <2> HIDE DEF s
  <2>4. caller' = [x \in Callers |-> IF x = c THEN s ELSE [caller[x] EXCEPT !.torn = TRUE]]
    BY <2>1 DEF s
  <2>5. \A x \in Callers : x # c =>
          /\ caller'[x] \in Asking /\ caller'[x].pc = caller[x].pc /\ caller'[x].id = caller[x].id
          /\ caller'[x].tuns = caller[x].tuns /\ caller'[x].todo = caller[x].todo
          /\ caller'[x].found = caller[x].found /\ caller'[x].age = caller[x].age /\ caller'[x].torn
    <3>1. ASSUME NEW x \in Callers, x # c
          PROVE  /\ caller'[x] \in Asking /\ caller'[x].pc = caller[x].pc /\ caller'[x].id = caller[x].id
                 /\ caller'[x].tuns = caller[x].tuns /\ caller'[x].todo = caller[x].todo
                 /\ caller'[x].found = caller[x].found /\ caller'[x].age = caller[x].age /\ caller'[x].torn
      <4>1. caller'[x] = [caller[x] EXCEPT !.torn = TRUE] /\ caller[x] \in Asking
        BY <1>1, <2>4, <3>1
      <4> QED BY <4>1 DEF Asking
    <3> QED BY <3>1
  <2>6. caller'[c] = s BY <2>4
  <2>7. PickTyped'
    <3>1. \A x \in Callers : caller'[x] \in Asking BY <2>3, <2>5, <2>6
    <3>2. caller' = [x \in Callers |-> caller'[x]] BY <2>4
    <3>3. caller' \in [Callers -> Asking] BY <3>1, <3>2
    <3> QED BY <1>1, <2>1, <2>2, <3>3 DEF PickInv, PickTyped
  <2>8. Given' BY <2>3, <2>5, <2>6 DEF PickInv, Given
  <2>9. Chosen' BY <2>2, <2>3, <2>5, <2>6 DEF PickInv, Chosen
  <2>10. Publisher'
    <3>1. \A x \in Callers : x # c => caller'[x].pc \notin Publishing
      BY <2>1, <2>5 DEF PickInv, Publisher
    <3> QED BY <2>1, <2>3, <2>6, <3>1 DEF Publisher
  <2>11. Signed' BY <2>1 DEF Signed
  <2>12. s.pc \notin {"age", "read", "shown"} BY <2>3
  <2>13. Looking' BY <2>5, <2>6, <2>12 DEF PickInv, Looking
  <2>14. ShownPickIsCurrent' BY <2>5, <2>6, <2>12 DEF ShownPickIsCurrent
  <2> QED BY <2>7, <2>8, <2>9, <2>10, <2>11, <2>13, <2>14 DEF PickInv
<1> QED BY <1>2, <1>3

LEMMA StampPickKeeps ==
    ASSUME PickInv, NEW c \in Callers, StampPick(c)
    PROVE  PickInv'
<1>1. /\ caller[c].pc = "at" /\ caller[c] \in Asking /\ listed \in SUBSET Ids /\ now \in Nat
      /\ caller[c].todo \subseteq caller[c].tuns
      /\ \A m \in caller[c].found : m.id \in caller[c].tuns
      /\ pickAt' = now /\ UNCHANGED <<listed, pick, pickSig, pickHeld, now>>
      /\ caller[c].id \in {m.id : m \in caller[c].found}
  BY CallerTypes DEF StampPick, PickInv, Chosen, Publishing
<1> DEFINE s == [caller[c] EXCEPT !.pc = "sign"]
<1>2. caller' = [caller EXCEPT ![c] = s] BY DEF StampPick, Becomes
<1>3. /\ s \in Asking /\ s.pc = "sign" /\ s.id = caller[c].id /\ s.tuns = caller[c].tuns
      /\ s.todo = caller[c].todo /\ s.found = caller[c].found
  BY <1>1 DEF Asking
<1> HIDE DEF s
<1>4. /\ s.pc \in Publishing /\ caller[c].pc \in Publishing
      /\ s.pc \notin {"age", "read", "shown"}
  BY <1>1, <1>3 DEF Publishing
<1> QED BY <1>1, <1>2, <1>3, <1>4, CallerStep

\* The signature: the pick is one of the tunnels of this pass.
LEMMA SignPickKeeps ==
    ASSUME PickInv, NEW c \in Callers, SignPick(c)
    PROVE  PickInv'
<1>1. /\ caller[c].pc = "sign" /\ caller[c] \in Asking
      /\ pickSig' = caller[c].tuns /\ pickHeld' = FALSE
      /\ UNCHANGED <<listed, pick, pickAt, now>>
      /\ caller \in [Callers -> Asking]
  BY DEF SignPick, PickInv, PickTyped
<1> DEFINE s == [caller[c] EXCEPT !.pc = "resolve"]
<1>2. caller' = [caller EXCEPT ![c] = s] BY DEF SignPick, Becomes
<1>3. /\ s \in Asking /\ s.pc = "resolve" /\ s.id = caller[c].id /\ s.tuns = caller[c].tuns
      /\ s.todo = caller[c].todo /\ s.found = caller[c].found
  BY <1>1 DEF Asking
<1> HIDE DEF s
<1>4. caller'[c] = s /\ \A d \in Callers : d # c => caller'[d] = caller[d] BY <1>1, <1>2
<1>5. pickHeld /\ pick = caller[c].id /\ pick \in caller[c].tuns
  <2>1. pickHeld /\ pick = caller[c].id BY <1>1 DEF PickInv, Publisher, Publishing
  <2>2. caller[c].id \in {m.id : m \in caller[c].found} BY <1>1 DEF PickInv, Chosen, Publishing
  <2>3. \A m \in caller[c].found : m.id \in caller[c].tuns BY DEF PickInv, Given
  <2> QED BY <2>1, <2>2, <2>3
<1>6. PickTyped' BY <1>1, <1>2, <1>3 DEF PickInv, PickTyped, Asking
<1>7. Given' BY <1>3, <1>4 DEF PickInv, Given
<1>8. Chosen' BY <1>1, <1>3, <1>4 DEF PickInv, Chosen, Publishing
<1>9. Publisher'
  <2>1. \A d \in Callers : caller'[d].pc \notin Publishing
    BY <1>1, <1>3, <1>4 DEF PickInv, Publisher, Publishing
  <2> QED BY <2>1 DEF Publisher
<1>10. Signed' BY <1>1, <1>5 DEF Signed
<1>11. Looking' BY <1>3, <1>4, <1>5 DEF PickInv, Looking
<1>12. ShownPickIsCurrent' BY <1>3, <1>4 DEF PickInv, ShownPickIsCurrent
<1> QED BY <1>6, <1>7, <1>8, <1>9, <1>10, <1>11, <1>12 DEF PickInv

LEMMA ApplyKeeps ==
    ASSUME PickInv, NEW c \in Callers, Apply(c)
    PROVE  PickInv'
<1>1. /\ caller[c].pc = "resolve" /\ caller[c] \in Asking /\ listed \in SUBSET Ids /\ now \in Nat /\ pickAt \in Nat
      /\ caller[c].todo \subseteq caller[c].tuns
      /\ \A m \in caller[c].found : m.id \in caller[c].tuns
      /\ UNCHANGED <<listed, pick, pickAt, pickSig, pickHeld, now>>
      /\ caller[c].id \in {m.id : m \in caller[c].found}
  BY CallerTypes DEF Apply, PickInv, Chosen
<1> DEFINE id == caller[c].id
           s == [caller[c] EXCEPT !.pc = "sent", !.id = id]
<1>2. caller' = [caller EXCEPT ![c] = s] BY DEF Apply, Becomes, Target
<1>3. id \in Ids \cup {NoId} /\ id \in {m.id : m \in caller[c].found} BY <1>1 DEF Asking
<1> HIDE DEF id
<1>4. /\ s \in Asking /\ s.pc = "sent" /\ s.id = id /\ s.tuns = caller[c].tuns
      /\ s.todo = caller[c].todo /\ s.found = caller[c].found
  BY <1>1, <1>3 DEF Asking
<1> HIDE DEF s
<1>5. /\ s.pc \notin Publishing /\ caller[c].pc \notin Publishing
      /\ s.pc \notin {"age", "read", "shown"}
  BY <1>1, <1>4 DEF Publishing
<1> QED BY <1>1, <1>2, <1>3, <1>4, <1>5, CallerStep

\* An answer ends a request.
LEMMA AnsweredKeeps ==
    ASSUME PickInv, NEW c \in Callers, Answered(c)
    PROVE  PickInv'
<1>1. /\ caller[c].pc \in {"resolve", "shown", "sent"} /\ caller' = [caller EXCEPT ![c] = NotAsking]
      /\ UNCHANGED <<listed, pick, pickAt, pickSig, pickHeld, now>>
      /\ listed \in SUBSET Ids /\ now \in Nat /\ pickAt \in Nat
  BY CallerTypes DEF Answered, Becomes
<1>2. /\ NotAsking.pc \notin Publishing \cup {"resolve", "sent", "age", "read", "shown"}
      /\ caller[c].pc \notin Publishing
  BY <1>1, NotAskingType DEF Publishing
<1> QED BY <1>1, <1>2, NotAskingType, CallerStep

LEMMA CompareKeeps ==
    ASSUME PickInv, NEW c \in Callers, Compare(c)
    PROVE  PickInv'
<1>1. /\ caller[c].pc = "compare" /\ caller[c] \in Asking
      /\ UNCHANGED <<listed, pick, pickAt, pickSig, pickHeld, now>>
      /\ listed \in SUBSET Ids /\ now \in Nat /\ pickAt \in Nat /\ pickHeld \in BOOLEAN
      /\ caller[c].todo \subseteq caller[c].tuns
      /\ \A m \in caller[c].found : m.id \in caller[c].tuns
  BY CallerTypes DEF Compare, PickInv, PickTyped
<1>2. CASE ~(pick # NoId /\ SameCandidates(c))
  <2>1. caller' = [caller EXCEPT ![c] = NotAsking] BY <1>2 DEF Compare, Becomes
  <2>2. /\ NotAsking.pc \notin Publishing \cup {"resolve", "sent", "age", "read", "shown"}
        /\ caller[c].pc \notin Publishing
    BY <1>1, NotAskingType DEF Publishing
  <2> QED BY <1>1, <2>1, <2>2, NotAskingType, CallerStep
<1>3. CASE pick # NoId /\ SameCandidates(c)
  <2> DEFINE s == [caller[c] EXCEPT !.pc = "age", !.torn = pickHeld]
  <2>1. caller' = [caller EXCEPT ![c] = s] BY <1>3 DEF Compare, Becomes
  <2>2. /\ s \in Asking /\ s.pc = "age" /\ s.tuns = caller[c].tuns
        /\ s.todo = caller[c].todo /\ s.found = caller[c].found /\ s.torn = pickHeld
    BY <1>1 DEF Asking
  <2> HIDE DEF s
  <2>3. /\ s.pc \notin Publishing \cup {"resolve", "sent"} /\ caller[c].pc \notin Publishing
        /\ s.pc \notin {"read", "shown"}
    BY <1>1, <2>2 DEF Publishing
  <2>4. ~s.torn => ~pickHeld /\ pick # NoId /\ s.tuns = pickSig
    BY <1>3, <2>2 DEF SameCandidates
  <2> QED BY <1>1, <2>1, <2>2, <2>3, <2>4, CallerStep
<1> QED BY <1>2, <1>3

LEMMA CheckAgeKeeps ==
    ASSUME PickInv, NEW c \in Callers, CheckAge(c)
    PROVE  PickInv'
<1>1. /\ caller[c].pc = "age" /\ caller[c] \in Asking
      /\ UNCHANGED <<listed, pick, pickAt, pickSig, pickHeld, now>>
      /\ listed \in SUBSET Ids /\ now \in Nat /\ pickAt \in Nat
      /\ caller[c].todo \subseteq caller[c].tuns
      /\ \A m \in caller[c].found : m.id \in caller[c].tuns
      /\ ~caller[c].torn => ~pickHeld /\ pick # NoId /\ caller[c].tuns = pickSig
  BY CallerTypes DEF CheckAge, PickInv, Looking
<1>2. CASE Expired
  <2>1. caller' = [caller EXCEPT ![c] = NotAsking] BY <1>2 DEF CheckAge, Becomes
  <2>2. /\ NotAsking.pc \notin Publishing \cup {"resolve", "sent", "age", "read", "shown"}
        /\ caller[c].pc \notin Publishing
    BY <1>1, NotAskingType DEF Publishing
  <2> QED BY <1>1, <2>1, <2>2, NotAskingType, CallerStep
<1>3. CASE ~Expired
  <2> DEFINE age == now - pickAt
             s == [caller[c] EXCEPT !.pc = "read", !.age = age]
  <2>1. caller' = [caller EXCEPT ![c] = s] BY <1>3 DEF CheckAge, Becomes
  <2>2. age \in Int /\ age < PickTTL BY <1>1, <1>3, PickAssumption DEF Expired
  <2> HIDE DEF age
  <2>3. /\ s \in Asking /\ s.pc = "read" /\ s.tuns = caller[c].tuns /\ s.age = age
        /\ s.todo = caller[c].todo /\ s.found = caller[c].found /\ s.torn = caller[c].torn
    BY <1>1, <2>2 DEF Asking
  <2> HIDE DEF s
  <2>4. /\ s.pc \notin Publishing \cup {"resolve", "sent"} /\ caller[c].pc \notin Publishing
    BY <1>1, <2>3 DEF Publishing
  <2> QED BY <1>1, <2>1, <2>2, <2>3, <2>4, CallerStep
<1> QED BY <1>2, <1>3

\* What is shown is the pick the look compared, if nothing was published since.
LEMMA ShowKeeps ==
    ASSUME PickInv, NEW c \in Callers, Show(c)
    PROVE  PickInv'
<1>1. /\ caller[c].pc = "read" /\ caller[c] \in Asking
      /\ UNCHANGED <<listed, pick, pickAt, pickSig, pickHeld, now>>
      /\ listed \in SUBSET Ids /\ now \in Nat /\ pickAt \in Nat /\ pick \in Ids \cup {NoId}
      /\ caller[c].todo \subseteq caller[c].tuns
      /\ \A m \in caller[c].found : m.id \in caller[c].tuns
      /\ ~caller[c].torn => ~pickHeld /\ pick # NoId /\ caller[c].tuns = pickSig
      /\ caller[c].age < PickTTL
  BY CallerTypes DEF Show, PickInv, PickTyped, Looking
<1> DEFINE s == [caller[c] EXCEPT !.pc = "shown", !.id = pick]
<1>2. caller' = [caller EXCEPT ![c] = s] BY DEF Show, Becomes
<1>3. /\ s \in Asking /\ s.pc = "shown" /\ s.tuns = caller[c].tuns /\ s.age = caller[c].age
      /\ s.todo = caller[c].todo /\ s.found = caller[c].found /\ s.torn = caller[c].torn /\ s.id = pick
  BY <1>1 DEF Asking
<1> HIDE DEF s
<1>4. /\ s.pc \notin Publishing \cup {"resolve", "sent", "age", "read"} /\ caller[c].pc \notin Publishing
  BY <1>1, <1>3 DEF Publishing
<1>5. ~s.torn => s.id \in s.tuns BY <1>1, <1>3 DEF PickInv, Signed
<1> QED BY <1>1, <1>2, <1>3, <1>4, <1>5, CallerStep

LEMMA PickStarts ==
    ASSUME PickInit
    PROVE  PickInv
<1>1. /\ listed = {} /\ pick = NoId /\ pickAt = 0 /\ pickSig = {} /\ pickHeld = FALSE
      /\ caller = [c \in Callers |-> NotAsking] /\ now = 0
  BY DEF PickInit
<1>2. PickTyped BY <1>1, NotAskingType DEF PickTyped
<1> QED BY <1>1, <1>2, NotAskingType
    DEF PickInv, Given, Chosen, Publisher, Publishing, Signed, Looking, ShownPickIsCurrent

LEMMA PickGoesOn ==
    ASSUME PickInv, [PickNext]_pickVars
    PROVE  PickInv'
<1>1. listed \in SUBSET Ids /\ pickAt \in Nat /\ now \in Nat BY DEF PickInv, PickTyped
<1>2. CASE TunnelComes \/ TunnelGoes \/ PickTick \/ UNCHANGED pickVars
  <2>1. UNCHANGED <<pick, pickSig, pickHeld, caller, pickAt>>
    BY <1>2 DEF TunnelComes, TunnelGoes, PickTick, pickVars
  <2>2. listed' \in SUBSET Ids
    BY <1>1, <1>2 DEF TunnelComes, TunnelGoes, PickTick, pickVars
  <2>3. now' \in Nat BY <1>1, <1>2 DEF TunnelComes, TunnelGoes, PickTick, pickVars
  <2> QED BY <1>1, <2>1, <2>2, <2>3, PickOutside
<1>3. ASSUME NEW c \in Callers,
             \/ PickLoad(c) \/ Measure(c) \/ Rank(c) \/ StampPick(c) \/ SignPick(c)
             \/ Apply(c) \/ Answered(c)
             \/ ShowLoad(c) \/ Compare(c) \/ CheckAge(c) \/ Show(c)
      PROVE  PickInv'
  BY <1>3, PickLoadKeeps, MeasureKeeps, RankKeeps, StampPickKeeps, SignPickKeeps, ApplyKeeps,
     AnsweredKeeps, CompareKeeps, CheckAgeKeeps, ShowKeeps
<1> QED BY <1>2, <1>3 DEF PickNext

LEMMA PickInvHolds == PickSpec => []PickInv
<1>1. PickInit => PickInv BY PickStarts
<1>2. PickInv /\ [PickNext]_pickVars => PickInv' BY PickGoesOn
<1> QED BY <1>1, <1>2, PTL DEF PickSpec

\* GET /host shows a pick made for the tunnels it read and younger than the
\* TTL, although it takes no lock, unless a publication came between its looks.
THEOREM ShownIsCurrent == PickSpec => []ShownPickIsCurrent
<1>1. PickInv => ShownPickIsCurrent BY DEF PickInv
<1> QED BY <1>1, PickInvHolds, PTL

\* The target of "auto" answered in the caller's own pass.
THEOREM TargetsAnswered == PickSpec => []TargetAnswered
<1>1. PickInv => TargetAnswered BY DEF PickInv, Chosen, TargetAnswered
<1> QED BY <1>1, PickInvHolds, PTL

-----------------------------------------------------------------------------
(* The panel. *)

Reading == [pc : {"rest", "read", "publish", "sample"}, read : Nat]
Viewed == [open : BOOLEAN, due : BOOLEAN, version : Int]
Opened == {v \in Viewers : stream[v].open}

PanelTyped ==
    /\ version \in Nat /\ ticks \in Nat /\ bad \in Nat
    /\ board \in [version : Nat, reachable : BOOLEAN]
    /\ crawler \in [Crawlers -> Reading]
    /\ crawling \in BOOLEAN
    /\ samples \in Seq(Nat)
    /\ stream \in [Viewers -> Viewed]
    /\ watchers = Cardinality(Opened)

\* One crawl at a time: what it read is no older than what is published.
Crawled ==
    /\ \A c \in Crawlers : crawler[c].pc # "rest" => crawling
    /\ \A c, d \in Crawlers : crawler[c].pc # "rest" /\ crawler[d].pc # "rest" => c = d
    /\ board.version <= version
    /\ \A c \in Crawlers : crawler[c].pc = "publish" =>
          board.version <= crawler[c].read /\ crawler[c].read <= version

\* No stream is ahead of what is published.
Behind == \A v \in Viewers : stream[v].version <= board.version

\* The history is in order and within its window of the newest sample.
InOrder(s) == \A i, j \in DOMAIN s : i <= j => s[i] <= s[j]
InWindow(s, t) == \A i \in DOMAIN s : s[i] >= t - Window /\ s[i] <= t

History ==
    /\ Len(samples) <= MaxSamples
    /\ InOrder(samples)
    /\ \A i \in DOMAIN samples : samples[i] <= ticks
    /\ \A i \in DOMAIN samples : samples[i] >= samples[Len(samples)] - Window

PanelInv == PanelTyped /\ Crawled /\ Behind /\ History

\* Picking from a history leaves it in order.
LEMMA PickedInOrder ==
    ASSUME NEW s \in Seq(Nat), InOrder(s), NEW I \in SUBSET DOMAIN s
    PROVE  InOrder(Picked(s, I))
<1> DEFINE p == Picked(s, I)
<1>1. /\ IsFiniteSet(I) /\ I \in SUBSET Nat /\ Cardinality(I) \in Nat
      /\ p \in Seq(Nat) /\ Len(p) = Cardinality(I)
      /\ \A k \in 1..Cardinality(I) : Nth(I, k) \in I /\ p[k] = s[Nth(I, k)]
  BY PickedProperties
<1> HIDE DEF p
<1>2. DOMAIN p = 1..Cardinality(I) BY <1>1
<1>3. ASSUME NEW k \in DOMAIN p, NEW l \in DOMAIN p, k <= l PROVE p[k] <= p[l]
  <2>1. k \in 1..Cardinality(I) /\ l \in 1..Cardinality(I) BY <1>2
  <2>2. Nth(I, k) <= Nth(I, l)
    <3>1. CASE k = l BY <3>1, <2>1, <1>1
    <3>2. CASE k < l
      <4>1. Nth(I, k) < Nth(I, l) BY <3>2, <2>1, <1>1, NthGrows
      <4>2. Nth(I, k) \in Nat /\ Nth(I, l) \in Nat BY <2>1, <1>1
      <4> QED BY <4>1, <4>2
    <3> QED BY <3>1, <3>2, <1>3, <2>1
  <2> QED BY <2>1, <2>2, <1>1 DEF InOrder
<1> QED BY <1>3 DEF InOrder, p

\* The newest samples of a history are in order as well.
LEMMA CappedKeeps ==
    ASSUME NEW s \in Seq(Nat), InOrder(s), NEW t \in Nat, InWindow(s, t)
    PROVE  /\ Capped(s) \in Seq(Nat) /\ Len(Capped(s)) <= MaxSamples
           /\ InOrder(Capped(s)) /\ InWindow(Capped(s), t)
<1>1. MaxSamples \in Nat \ {0} BY PanelAssumption
<1>2. CASE ~(Len(s) > MaxSamples)
  <2>1. Capped(s) = s /\ Len(s) \in Nat BY <1>2 DEF Capped
  <2> QED BY <2>1, <1>1, <1>2
<1>3. CASE Len(s) > MaxSamples
  <2> DEFINE n == Len(s)
             p == SubSeq(s, n - MaxSamples + 1, n)
  <2>1. n \in Nat /\ n - MaxSamples + 1 \in 1..n /\ n \in 0..Len(s) BY <1>1, <1>3
  <2>2. /\ p \in Seq(Nat) /\ Len(p) = MaxSamples
        /\ \A i \in 1..MaxSamples : p[i] = s[i + (n - MaxSamples)]
    BY <2>1, <1>1
  <2>3. Capped(s) = p BY <1>3 DEF Capped
  <2> HIDE DEF p
  <2>4. DOMAIN p = 1..MaxSamples /\ DOMAIN s = 1..n BY <2>2
  <2>5. \A i \in DOMAIN p : i + (n - MaxSamples) \in DOMAIN s BY <2>1, <2>4, <1>1, <1>3
  <2>6. InOrder(p)
    <3>1. ASSUME NEW i \in DOMAIN p, NEW j \in DOMAIN p, i <= j PROVE p[i] <= p[j]
      <4>1. i + (n - MaxSamples) <= j + (n - MaxSamples) BY <3>1, <2>1, <2>4, <1>1
      <4> QED BY <4>1, <2>2, <2>4, <2>5 DEF InOrder
    <3> QED BY <3>1 DEF InOrder
  <2>7. InWindow(p, t) BY <2>2, <2>4, <2>5 DEF InWindow
  <2> QED BY <1>1, <2>2, <2>3, <2>6, <2>7
<1> QED BY <1>2, <1>3

\* What SnapshotHistory.add leaves: in order, bounded, and in its window.
LEMMA HistoryGrows ==
    ASSUME History, samples \in Seq(Nat), ticks \in Nat,
           samples' = Capped(Young(Append(samples, ticks), ticks)), ticks' = ticks
    PROVE  History' /\ samples' \in Seq(Nat)
<1> DEFINE s == Append(samples, ticks)
           I == {i \in DOMAIN s : s[i] >= ticks - Window}
           y == Picked(s, I)
<1>1. /\ s \in Seq(Nat) /\ DOMAIN s = 1..Len(samples) + 1 /\ DOMAIN samples = 1..Len(samples)
      /\ Len(samples) \in Nat /\ s[Len(samples) + 1] = ticks
      /\ \A i \in DOMAIN samples : s[i] = samples[i] /\ samples[i] <= ticks /\ samples[i] \in Nat
  BY DEF History
<1> HIDE DEF s
<1>2. \A i \in DOMAIN s : i = Len(samples) + 1 \/ i \in DOMAIN samples BY <1>1
<1>3. InOrder(s)
  <2>1. ASSUME NEW i \in DOMAIN s, NEW j \in DOMAIN s, i <= j PROVE s[i] <= s[j]
    <3>1. CASE j = Len(samples) + 1 BY <3>1, <1>1, <1>2
    <3>2. CASE j \in DOMAIN samples
      <4>1. i \in DOMAIN samples BY <2>1, <3>2, <1>1
      <4> QED BY <4>1, <3>2, <2>1, <1>1 DEF History, InOrder
    <3> QED BY <3>1, <3>2, <1>2
  <2> QED BY <2>1 DEF InOrder
<1>4. /\ y \in Seq(Nat) /\ Len(y) = Cardinality(I) /\ Cardinality(I) \in Nat
      /\ \A k \in 1..Cardinality(I) : Nth(I, k) \in I /\ y[k] = s[Nth(I, k)]
  BY <1>1, PickedProperties
<1>5. InOrder(y) BY <1>1, <1>3, PickedInOrder
<1>6. InWindow(y, ticks)
  <2>1. DOMAIN y = 1..Cardinality(I)
    <3> HIDE DEF y, I
    <3> QED BY <1>4
  <2>2. \A i \in I : s[i] >= ticks - Window /\ s[i] <= ticks BY <1>1, <1>2
  <2> HIDE DEF y, I
  <2> QED BY <1>4, <2>1, <2>2 DEF InWindow
<1>7. samples' = Capped(y) BY DEF Young, s
<1> HIDE DEF y
<1>8. /\ samples' \in Seq(Nat) /\ Len(samples') <= MaxSamples
      /\ InOrder(samples') /\ InWindow(samples', ticks)
  BY <1>4, <1>5, <1>6, <1>7, CappedKeeps
<1>9. \A i \in DOMAIN samples' : samples'[i] >= samples'[Len(samples')] - Window
  <2>1. ASSUME NEW i \in DOMAIN samples' PROVE samples'[i] >= samples'[Len(samples')] - Window
    <3>1. Len(samples') \in DOMAIN samples' BY <1>8
    <3>2. samples'[i] \in Nat /\ samples'[Len(samples')] \in Nat BY <1>8, <3>1
    <3>3. samples'[i] >= ticks - Window /\ samples'[Len(samples')] <= ticks
      BY <1>8, <3>1 DEF InWindow
    <3> QED BY <3>2, <3>3, PanelAssumption
  <2> QED BY <2>1
<1> QED BY <1>8, <1>9 DEF History, InWindow

\* A crawling thread moves on.
LEMMA CrawlerStep ==
    ASSUME PanelInv, NEW c \in Crawlers, NEW s \in Reading, crawler' = [crawler EXCEPT ![c] = s],
           UNCHANGED version, board'.version \in Nat, board'.version <= version,
           IF s.pc = "rest" THEN crawling' = FALSE ELSE crawling' = TRUE,
           crawler[c].pc # "rest" \/ ~crawling,
           s.pc = "publish" => board'.version <= s.read /\ s.read <= version
    PROVE  Crawled' /\ crawler' \in [Crawlers -> Reading]
<1>1. /\ crawler' \in [Crawlers -> Reading] /\ crawler'[c] = s
      /\ \A d \in Crawlers : d # c => crawler'[d] = crawler[d]
  BY DEF PanelInv, PanelTyped
<1>2. \A d \in Crawlers : d # c => crawler[d].pc = "rest" BY DEF PanelInv, Crawled
<1>3. \A d \in Crawlers : d # c => crawler'[d].pc = "rest" BY <1>1, <1>2
<1> QED BY <1>1, <1>3 DEF Crawled

LEMMA CrawlKeeps ==
    ASSUME PanelInv, NEW c \in Crawlers, Crawl(c)
    PROVE  PanelInv' /\ board'.version >= board.version
                     /\ \A v \in Viewers : stream'[v].version = stream[v].version
<1>1. /\ version \in Nat /\ ticks \in Nat /\ bad \in Nat /\ board.version \in Nat /\ board.version <= version
      /\ crawler \in [Crawlers -> Reading] /\ crawler[c] \in Reading
      /\ stream \in [Viewers -> Viewed]
      /\ \A d \in Crawlers : d # c /\ crawler[c].pc # "rest" => crawler[d].pc = "rest"
  BY DEF PanelInv, PanelTyped, Crawled
<1>2. Asleep \in Reading /\ Asleep.pc = "rest" BY DEF Asleep, Reading
\* What does not concern the crawling threads.
<1>3. ASSUME UNCHANGED <<version, stream, watchers, ticks>>, bad' \in Nat,
             board' = board, Crawled', crawler' \in [Crawlers -> Reading],
             crawling' \in BOOLEAN, History', samples' \in Seq(Nat)
      PROVE  PanelInv' /\ board'.version >= board.version
                       /\ \A v \in Viewers : stream'[v].version = stream[v].version
  BY <1>1, <1>3 DEF PanelInv, PanelTyped, Opened, Behind
<1>4. ASSUME UNCHANGED <<samples, ticks>>
      PROVE  History' /\ samples' \in Seq(Nat)
  BY <1>4 DEF PanelInv, PanelTyped, History
\* All streams are due.
<1>5. ASSUME Moved, UNCHANGED <<version, watchers, ticks, samples>>, bad' \in Nat,
             board' \in [version : Nat, reachable : BOOLEAN], board'.version >= board.version,
             Crawled', crawler' \in [Crawlers -> Reading], crawling' \in BOOLEAN
      PROVE  PanelInv' /\ board'.version >= board.version
                       /\ \A v \in Viewers : stream'[v].version = stream[v].version
  <2>1. ASSUME NEW v \in Viewers
        PROVE  /\ stream'[v] \in Viewed /\ stream'[v].open = stream[v].open
               /\ stream'[v].version = stream[v].version
    <3> DEFINE due == stream[v].open
    <3>1. stream[v] \in Viewed /\ due \in BOOLEAN BY <1>1 DEF Viewed
    <3>2. stream'[v] = [stream[v] EXCEPT !.due = due] BY <1>5 DEF Moved
    <3> HIDE DEF due
    <3> QED BY <3>1, <3>2 DEF Viewed
  <2>2. stream' \in [Viewers -> Viewed]
    <3>1. stream' = [v \in Viewers |-> stream'[v]] BY <1>5 DEF Moved
    <3> QED BY <2>1, <3>1
  <2>3. Opened' = Opened BY <2>1 DEF Opened
  <2>4. Behind'
    <3>1. \A v \in Viewers : stream[v].version \in Int /\ stream[v].version <= board.version
      BY <1>1 DEF Viewed, PanelInv, Behind
    <3> QED BY <1>1, <1>5, <2>1, <3>1 DEF Behind
  <2>5. History' BY <1>4, <1>5
  <2> QED BY <1>1, <1>5, <2>1, <2>2, <2>3, <2>4, <2>5 DEF PanelInv, PanelTyped
<1>6. CASE BeginCrawl(c)
  <2> DEFINE s == [crawler[c] EXCEPT !.pc = "read"]
  <2>1. /\ crawler' = [crawler EXCEPT ![c] = s] /\ crawling' = TRUE /\ ~crawling
        /\ UNCHANGED <<version, board, samples, stream, watchers, ticks, bad>>
    BY <1>1, <1>6 DEF BeginCrawl, MayCrawl
  <2>2. s \in Reading /\ s.pc = "read" BY <1>1 DEF Reading
  <2> HIDE DEF s
  <2>3. Crawled' /\ crawler' \in [Crawlers -> Reading] BY <1>1, <2>1, <2>2, CrawlerStep
  <2> QED BY <1>1, <1>3, <1>4, <2>1, <2>3
<1>7. CASE ReadEngine(c)
  <2> DEFINE s == [pc |-> "publish", read |-> version]
  <2>1. /\ crawler' = [crawler EXCEPT ![c] = s] /\ crawler[c].pc = "read" /\ crawling
        /\ UNCHANGED <<version, board, crawling, samples, stream, watchers, ticks, bad>>
    BY <1>7 DEF ReadEngine, PanelInv, Crawled
  <2>2. s \in Reading /\ s.pc = "publish" /\ s.read = version BY <1>1 DEF Reading
  <2> HIDE DEF s
  <2>3. crawling' = TRUE BY <2>1 DEF PanelInv, PanelTyped
  <2>4. /\ board'.version \in Nat /\ board'.version <= version
        /\ board'.version <= s.read /\ s.read <= version
    BY <1>1, <2>1, <2>2
  <2>5. Crawled' /\ crawler' \in [Crawlers -> Reading]
    BY <2>1, <2>2, <2>3, <2>4, CrawlerStep
  <2> QED BY <1>1, <1>3, <1>4, <2>1, <2>3, <2>5
<1>8. CASE PublishCrawl(c)
  <2> DEFINE s == [pc |-> "sample", read |-> 0]
  <2>1. /\ crawler' = [crawler EXCEPT ![c] = s] /\ crawler[c].pc = "publish" /\ crawling
        /\ board' = [version |-> crawler[c].read, reachable |-> TRUE] /\ Moved
        /\ UNCHANGED <<version, crawling, samples, watchers, ticks, bad>>
    BY <1>8 DEF PublishCrawl, PanelInv, Crawled
  <2>2. s \in Reading /\ s.pc = "sample" BY DEF Reading
  <2> HIDE DEF s
  <2>3. crawling' = TRUE BY <2>1 DEF PanelInv, PanelTyped
  <2>4. /\ board'.version = crawler[c].read /\ board'.version \in Nat
        /\ board'.version >= board.version /\ board'.version <= version
    <3>1. board.version <= crawler[c].read /\ crawler[c].read <= version /\ crawler[c].read \in Nat
      BY <1>1, <2>1 DEF PanelInv, Crawled, Reading
    <3> QED BY <1>1, <2>1, <3>1
  <2>5. Crawled' /\ crawler' \in [Crawlers -> Reading]
    BY <2>1, <2>2, <2>3, <2>4, CrawlerStep
  <2> QED BY <1>1, <1>5, <2>1, <2>3, <2>4, <2>5
<1>9. CASE CrawlFails(c)
  <2>1. /\ crawler' = [crawler EXCEPT ![c] = Asleep] /\ crawling' = FALSE /\ crawler[c].pc = "read"
        /\ board' = [board EXCEPT !.reachable = FALSE] /\ Moved
        /\ bad' \in Nat /\ UNCHANGED <<version, samples, watchers, ticks>>
    BY <1>1, <1>9 DEF CrawlFails, EndCrawl
  <2>2. board' \in [version : Nat, reachable : BOOLEAN] /\ board'.version = board.version
    BY <2>1 DEF PanelInv, PanelTyped
  <2>3. Crawled' /\ crawler' \in [Crawlers -> Reading] BY <1>1, <1>2, <2>1, <2>2, CrawlerStep
  <2>4. board'.version >= board.version /\ crawling' \in BOOLEAN
    <3>1. board.version >= board.version BY <1>1
    <3> QED BY <3>1, <2>1, <2>2
  <2> QED BY <1>1, <1>5, <2>1, <2>2, <2>3, <2>4
<1>10. CASE CrawlRaises(c)
  <2>1. /\ crawler' = [crawler EXCEPT ![c] = Asleep] /\ crawling' = FALSE /\ crawler[c].pc # "rest"
        /\ bad' \in Nat /\ UNCHANGED <<version, board, samples, stream, watchers, ticks>>
    BY <1>1, <1>10 DEF CrawlRaises, EndCrawl
  <2>2. Crawled' /\ crawler' \in [Crawlers -> Reading] BY <1>1, <1>2, <2>1, CrawlerStep
  <2> QED BY <1>1, <1>3, <1>4, <2>1, <2>2
<1>11. CASE AddSample(c)
  <2>1. /\ crawler' = [crawler EXCEPT ![c] = Asleep] /\ crawling' = FALSE /\ crawler[c].pc = "sample"
        /\ UNCHANGED <<version, board, stream, watchers, ticks, bad>>
        /\ samples' = Capped(Young(Append(samples, ticks), ticks))
    BY <1>11 DEF AddSample, EndCrawl
  <2>2. Crawled' /\ crawler' \in [Crawlers -> Reading] BY <1>1, <1>2, <2>1, CrawlerStep
  <2>3. History' /\ samples' \in Seq(Nat)
    BY <1>1, <2>1, HistoryGrows DEF PanelInv, PanelTyped
  <2> QED BY <1>1, <1>3, <2>1, <2>2, <2>3
<1> QED BY <1>6, <1>7, <1>8, <1>9, <1>10, <1>11 DEF Crawl

\* What a step of a stream leaves alone is enough for everything but the streams.
LEMMA StreamStep ==
    ASSUME PanelInv, UNCHANGED <<version, board, crawler, crawling, samples, ticks, bad>>,
           NEW v \in Viewers, NEW q \in Viewed, stream' = [stream EXCEPT ![v] = q],
           q.version <= board.version
    PROVE  /\ stream' \in [Viewers -> Viewed] /\ stream'[v] = q
           /\ \A u \in Viewers : u # v => stream'[u] = stream[u]
           /\ board'.version >= board.version
           /\ watchers' = Cardinality(Opened') => PanelInv'
<1>1. /\ stream' \in [Viewers -> Viewed] /\ stream'[v] = q
      /\ \A u \in Viewers : u # v => stream'[u] = stream[u]
  BY DEF PanelInv, PanelTyped
<1>2. board' = board /\ board.version \in Nat BY DEF PanelInv, PanelTyped
<1>3. Behind' BY <1>1, <1>2 DEF PanelInv, Behind
<1>4. Crawled' /\ History' BY DEF PanelInv, Crawled, History
<1> QED BY <1>1, <1>2, <1>3, <1>4 DEF PanelInv, PanelTyped

LEMMA ViewersFinite == IsFiniteSet(Opened) /\ Cardinality(Opened) \in Nat
<1>1. Opened \subseteq Viewers /\ IsFiniteSet(Viewers) BY PanelAssumption DEF Opened
<1> HIDE DEF Opened
<1>2. IsFiniteSet(Opened) BY <1>1, FS_Subset
<1> QED BY <1>2, FS_CardinalityType

\* A stream that opens is counted.
LEMMA OpenKeeps ==
    ASSUME PanelInv, NEW v \in Viewers, Open(v)
    PROVE  PanelInv' /\ board'.version >= board.version
                     /\ \A u \in Viewers : stream[u].open => stream'[u] = stream[u]
<1> DEFINE q == [Closed EXCEPT !.open = TRUE, !.due = TRUE]
<1>1. q \in Viewed /\ q.open /\ q.version = -1
  <2> DEFINE r == Closed
  <2>1. r \in Viewed /\ r.version = -1 BY DEF Closed, Viewed
  <2>2. q = [r EXCEPT !.open = TRUE, !.due = TRUE] OBVIOUS
  <2> HIDE DEF r
  <2> QED BY <2>1, <2>2 DEF Viewed
<1>2. stream' = [stream EXCEPT ![v] = q] /\ ~stream[v].open BY DEF Open
<1> HIDE DEF q
<1>3. q.version <= board.version
  <2>1. board.version \in Nat BY DEF PanelInv, PanelTyped
  <2> QED BY <1>1, <2>1
<1>4. /\ stream' \in [Viewers -> Viewed] /\ stream'[v] = q
      /\ \A u \in Viewers : u # v => stream'[u] = stream[u]
      /\ board'.version >= board.version
      /\ watchers' = Cardinality(Opened') => PanelInv'
  BY <1>1, <1>2, <1>3, StreamStep DEF Open
<1>5. Opened' = Opened \cup {v} /\ v \notin Opened BY <1>1, <1>2, <1>4 DEF Opened
<1>6. Cardinality(Opened \cup {v}) = Cardinality(Opened) + 1
  BY <1>5, ViewersFinite, FS_AddElement
<1>7. watchers' = Cardinality(Opened') BY <1>5, <1>6 DEF Open, PanelInv, PanelTyped
<1> QED BY <1>2, <1>4, <1>7

\* A stream that closes is not.
LEMMA CloseKeeps ==
    ASSUME PanelInv, NEW v \in Viewers, Close(v)
    PROVE  PanelInv' /\ board'.version >= board.version
                     /\ \A u \in Viewers : stream'[u].open => stream'[u] = stream[u]
<1>1. Closed \in Viewed /\ ~Closed.open /\ Closed.version = -1 BY DEF Closed, Viewed
<1>2. stream' = [stream EXCEPT ![v] = Closed] /\ stream[v].open BY DEF Close
<1>3. Closed.version <= board.version
  <2>1. board.version \in Nat BY DEF PanelInv, PanelTyped
  <2> QED BY <1>1, <2>1
<1>4. /\ stream' \in [Viewers -> Viewed] /\ stream'[v] = Closed
      /\ \A u \in Viewers : u # v => stream'[u] = stream[u]
      /\ board'.version >= board.version
      /\ watchers' = Cardinality(Opened') => PanelInv'
  BY <1>1, <1>2, <1>3, StreamStep DEF Close
<1>5. Opened' = Opened \ {v} /\ v \in Opened BY <1>1, <1>2, <1>4 DEF Opened
<1>6. Cardinality(Opened \ {v}) = Cardinality(Opened) - 1
  BY <1>5, ViewersFinite, FS_RemoveElement
<1>7. watchers' = Cardinality(Opened') BY <1>5, <1>6 DEF Close, PanelInv, PanelTyped
<1> QED BY <1>1, <1>4, <1>7

\* A stream sends what is published, which is never older than what it sent.
LEMMA SendKeeps ==
    ASSUME PanelInv, NEW v \in Viewers, Send(v)
    PROVE  PanelInv' /\ board'.version >= board.version
                     /\ \A u \in Viewers : stream'[u].version >= stream[u].version
<1> DEFINE q == [open |-> TRUE, due |-> FALSE, version |-> board.version]
<1>1. board.version \in Nat BY DEF PanelInv, PanelTyped
<1>2. q \in Viewed /\ q.open /\ q.version = board.version BY <1>1 DEF Viewed
<1>3. stream' = [stream EXCEPT ![v] = q] /\ stream[v].open BY DEF Send
<1> HIDE DEF q
<1>4. q.version <= board.version BY <1>1, <1>2
<1>5. /\ stream' \in [Viewers -> Viewed] /\ stream'[v] = q
      /\ \A u \in Viewers : u # v => stream'[u] = stream[u]
      /\ board'.version >= board.version
      /\ watchers' = Cardinality(Opened') => PanelInv'
  BY <1>2, <1>3, <1>4, StreamStep DEF Send
<1>6. Opened' = Opened BY <1>2, <1>3, <1>5 DEF Opened
<1>7. watchers' = Cardinality(Opened') BY <1>6 DEF Send, PanelInv, PanelTyped
<1>8. ASSUME NEW u \in Viewers PROVE stream'[u].version >= stream[u].version
  <2>1. stream[u].version \in Int /\ stream[u].version <= board.version
    BY DEF PanelInv, PanelTyped, Viewed, Behind
  <2> QED BY <2>1, <1>1, <1>2, <1>5
<1> QED BY <1>5, <1>7, <1>8

LEMMA PanelStarts == PanelInit => PanelInv
<1> SUFFICES ASSUME PanelInit PROVE PanelInv OBVIOUS
<1>1. Asleep \in Reading /\ Asleep.pc = "rest" BY DEF Asleep, Reading
<1>2. Closed \in Viewed /\ ~Closed.open /\ Closed.version = -1 BY DEF Closed, Viewed
<1>3. \A c \in Crawlers : crawler[c] = Asleep BY DEF PanelInit
<1>4. \A v \in Viewers : stream[v] = Closed BY DEF PanelInit
<1>5. Opened = {} BY <1>2, <1>4 DEF Opened
<1>6. Cardinality(Opened) = 0 BY <1>5, FS_EmptySet
<1>7. PanelTyped
  <2>1. crawler \in [Crawlers -> Reading] BY <1>1 DEF PanelInit
  <2>2. stream \in [Viewers -> Viewed] BY <1>2 DEF PanelInit
  <2>3. board \in [version : Nat, reachable : BOOLEAN] /\ samples \in Seq(Nat)
    BY DEF PanelInit
  <2> QED BY <1>6, <2>1, <2>2, <2>3 DEF PanelInit, PanelTyped
<1>8. Crawled BY <1>1, <1>3 DEF PanelInit, Crawled
<1>9. Behind BY <1>2, <1>4 DEF PanelInit, Behind
<1>10. samples = <<>> /\ Len(samples) = 0 /\ DOMAIN samples = {} BY DEF PanelInit
<1>11. History BY <1>10, PanelAssumption DEF History, InOrder
<1> QED BY <1>7, <1>8, <1>9, <1>11 DEF PanelInv

\* One step of the panel: the invariant stays, and nothing goes back.
LEMMA PanelStep ==
    ASSUME PanelInv, [PanelNext]_panelVars
    PROVE  /\ PanelInv'
           /\ board'.version >= board.version
           /\ \A v \in Viewers : stream[v].open /\ stream'[v].open =>
                  stream'[v].version >= stream[v].version
<1>1. /\ version \in Nat /\ ticks \in Nat /\ board.version \in Nat /\ board.version <= version
      /\ \A v \in Viewers : stream[v].version \in Int
  BY DEF PanelInv, PanelTyped, Crawled, Viewed
<1>2. CASE UNCHANGED panelVars
  <2>1. PanelInv'
    BY <1>2 DEF PanelInv, PanelTyped, Opened, Crawled, Behind, History, panelVars
  <2>2. board' = board /\ stream' = stream BY <1>2 DEF panelVars
  <2> QED BY <2>1, <2>2, <1>1
<1>3. CASE EngineChanges
  <2>1. version' = version + 1 /\ UNCHANGED <<board, crawler, crawling, samples, stream, watchers, ticks, bad>>
    BY <1>3 DEF EngineChanges
  <2>2. version' \in Nat /\ version <= version' BY <2>1, <1>1
  <2>3. Crawled'
    <3>1. board.version <= version' BY <1>1, <2>2
    <3>2. ASSUME NEW c \in Crawlers, crawler[c].pc = "publish"
          PROVE  board.version <= crawler[c].read /\ crawler[c].read <= version'
      <4>1. /\ crawler[c].read \in Nat
            /\ board.version <= crawler[c].read /\ crawler[c].read <= version
        BY <3>2 DEF PanelInv, PanelTyped, Reading, Crawled
      <4> QED BY <4>1, <1>1, <2>2
    <3> QED BY <3>1, <3>2, <2>1 DEF PanelInv, Crawled
  <2>4. PanelTyped' /\ Behind' /\ History'
    BY <2>1, <2>2 DEF PanelInv, PanelTyped, Opened, Behind, History
  <2> QED BY <1>1, <2>1, <2>3, <2>4 DEF PanelInv
<1>4. CASE PanelTick
  <2>1. ticks' = ticks + 1 /\ UNCHANGED <<version, board, crawler, crawling, samples, stream, watchers, bad>>
    BY <1>4 DEF PanelTick
  <2>2. ticks' \in Nat /\ ticks <= ticks' BY <2>1, <1>1
  <2>3. ASSUME NEW i \in DOMAIN samples PROVE samples[i] <= ticks'
    <3>1. samples[i] \in Nat /\ samples[i] <= ticks BY DEF PanelInv, PanelTyped, History
    <3> QED BY <3>1, <1>1, <2>2
  <2>4. History' BY <2>1, <2>3 DEF PanelInv, History
  <2>5. PanelTyped' /\ Behind' /\ Crawled'
    BY <2>1, <2>2 DEF PanelInv, PanelTyped, Opened, Behind, Crawled
  <2> QED BY <1>1, <2>1, <2>4, <2>5 DEF PanelInv
<1>5. ASSUME NEW c \in Crawlers, Crawl(c)
      PROVE  /\ PanelInv'
             /\ board'.version >= board.version
             /\ \A v \in Viewers : stream'[v].version >= stream[v].version
  <2>1. /\ PanelInv' /\ board'.version >= board.version
        /\ \A v \in Viewers : stream'[v].version = stream[v].version
    BY <1>5, CrawlKeeps
  <2>2. \A v \in Viewers : stream'[v].version >= stream[v].version BY <1>1, <2>1
  <2> QED BY <2>1, <2>2
<1>6. ASSUME NEW v \in Viewers, Open(v) \/ Send(v) \/ Close(v)
      PROVE  /\ PanelInv'
             /\ board'.version >= board.version
             /\ \A u \in Viewers : stream[u].open /\ stream'[u].open =>
                    stream'[u].version >= stream[u].version
  <2>1. CASE Open(v)
    <3>1. /\ PanelInv' /\ board'.version >= board.version
          /\ \A u \in Viewers : stream[u].open => stream'[u] = stream[u]
      BY <2>1, OpenKeeps
    <3> QED BY <3>1, <1>1
  <2>2. CASE Send(v) BY <2>2, SendKeeps
  <2>3. CASE Close(v)
    <3>1. /\ PanelInv' /\ board'.version >= board.version
          /\ \A u \in Viewers : stream'[u].open => stream'[u] = stream[u]
      BY <2>3, CloseKeeps
    <3> QED BY <3>1, <1>1
  <2> QED BY <1>6, <2>1, <2>2, <2>3
<1> QED BY <1>2, <1>3, <1>4, <1>5, <1>6 DEF PanelNext

LEMMA PanelInvHolds == PanelSpec => []PanelInv
<1>1. PanelInit => PanelInv BY PanelStarts
<1>2. PanelInv /\ [PanelNext]_panelVars => PanelInv' BY PanelStep
<1> QED BY <1>1, <1>2, PTL DEF PanelSpec

\* The poll thread's condition counts the open streams, and the history is in
\* order, bounded and within its window, whoever crawls, watches or leaves.
THEOREM PanelTypesHold == PanelSpec => []PanelTypeOK
<1>1. ASSUME PanelInv PROVE PanelTypeOK
  <2>1. board.version \in 0..version
    <3>1. board.version \in Nat /\ version \in Nat /\ board.version <= version
      BY <1>1 DEF PanelInv, PanelTyped, Crawled
    <3> QED BY <3>1
  <2>2. watchers = Cardinality({v \in Viewers : stream[v].open})
    BY <1>1 DEF PanelInv, PanelTyped, Opened
  <2>3. \A c \in Crawlers : crawler[c].pc \in {"rest", "read", "publish", "sample"}
    BY <1>1 DEF PanelInv, PanelTyped, Reading
  <2>4. DOMAIN samples = 1..Len(samples) /\ Len(samples) \in Nat
    BY <1>1 DEF PanelInv, PanelTyped
  <2>5. ASSUME NEW i \in 1..Len(samples)
        PROVE  /\ i > 1 => samples[i - 1] <= samples[i]
               /\ samples[i] >= samples[Len(samples)] - Window
    <3>1. ASSUME i > 1 PROVE samples[i - 1] <= samples[i]
      <4>1. i - 1 \in DOMAIN samples /\ i \in DOMAIN samples /\ i - 1 <= i BY <2>4, <3>1
      <4> QED BY <4>1, <1>1 DEF PanelInv, History, InOrder
    <3>2. samples[i] >= samples[Len(samples)] - Window BY <1>1, <2>4 DEF PanelInv, History
    <3> QED BY <3>1, <3>2
  <2>6. Len(samples) <= MaxSamples BY <1>1 DEF PanelInv, History
  <2> QED BY <2>1, <2>2, <2>3, <2>5, <2>6 DEF PanelTypeOK
<1> QED BY <1>1, PanelInvHolds, PTL

\* What the panel publishes and streams never goes back to an older state of
\* the engine: crawls do not overlap, and a stream sends what is published.
THEOREM BoardGoesOn == PanelSpec => BoardNeverGoesBack
<1>1. ASSUME PanelInv, [PanelNext]_panelVars
      PROVE  [/\ board'.version >= board.version
              /\ \A v \in Viewers : stream[v].open /\ stream'[v].open =>
                     stream'[v].version >= stream[v].version]_panelVars
  BY <1>1, PanelStep
<1> QED BY <1>1, PanelInvHolds, PTL DEF PanelSpec, BoardNeverGoesBack
=============================================================================
