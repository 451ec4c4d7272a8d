---------------------------- MODULE TunnelEngine ----------------------------
(* The engine process: SQLite rows, tunnel containers and the threads that   *)
(* drive them.  Request threads (POST, DELETE and renew under /tunnels) run  *)
(* beside the health-loop thread; each Store method is one transaction under *)
(* the store lock, each container call is one exchange with the daemon, and  *)
(* threads interleave between any two of them.  A burst of reads with no     *)
(* write in between is one step.                                             *)
EXTENDS Integers, FiniteSets

CONSTANTS
    Nodes,      \* proxy nodes of the pool (rows of the nodes table)
    Tunnels,    \* tunnel ids that secrets.token_hex can mint, each used once
    Ports,      \* settings.tunnel_ports
    Requests,   \* node_count values clients ask for
    Workers,    \* Flask request threads
    Loop,       \* the infinity-health thread
    MaxMisses,  \* settings.max_misses
    MaxCrashes, \* bound: how often the engine process dies
    MaxUpsets,  \* bound: how often Docker, sing-box or the pool misbehaves,
                \* None for no bound
    None        \* SQL NULL / Python None

ASSUME EngineAssumption ==
    /\ IsFiniteSet(Nodes)
    /\ MaxMisses \in Nat \ {0}
    /\ MaxCrashes \in Nat
    /\ MaxUpsets \in Nat \cup {None}
    /\ Requests \subseteq Nat \ {0}
    /\ Loop \notin Workers
    /\ None \notin Tunnels \cup Workers \cup {Loop}

VARIABLES
    owner,    \* nodes.assigned_to
    alive,    \* nodes whose state column is 'alive' (and protocol dialable)
    row,      \* the tunnels table
    cont,     \* containers by tunnel name: is it up, which nodes it dials
    lock,     \* Engine._lock: the thread that holds it across store calls
    strikes,  \* Engine._strikes
    rendered, \* Engine._rendered: signature of the last config rolled
    busy,     \* Engine._health_busy
    pending,  \* Engine._pending_redeploy
    queue,    \* rest of the health loop's load_tunnels() list
    pc, loc,  \* per thread: next step, local variables
    boot,     \* Engine.start: where reconcile() stands, "up" when serving
    minted,   \* ids handed out so far
    deleted,  \* history: ids whose DELETE was answered 204
    crashes,  \* history: number of process deaths so far
    upsets    \* history: number of counted misfortunes so far

dbVars  == <<owner, alive, row>>
memVars == <<lock, strikes, rendered, busy, pending, queue>>
sysVars == <<boot, minted, deleted, crashes>>
vars    == <<dbVars, cont, memVars, pc, loc, sysVars, upsets>>

Threads == Workers \cup {Loop}

Row == [state: {"starting", "running"}, port: Ports, req: Requests, granted: Nat]
ASSUME NoneIsNoRow == None \notin Row
Container == [up: BOOLEAN, cfg: SUBSET Nodes, port: Ports]

\* Locals of a thread: the call it serves, its tunnel, the state it saw when it
\* was handed the tunnel (stale: "starting"), the row object it holds, a node
\* set, probe verdicts, and whether the redeploy under way is forced.
Local == [op: {"none", "create", "delete", "health"},
          tid: Tunnels \cup {None}, stale: BOOLEAN,
          snap: Row \cup {None}, nodes: SUBSET Nodes, ok: SUBSET Nodes,
          changed: BOOLEAN, force: BOOLEAN]
NoLocal == [op |-> "none", tid |-> None, stale |-> FALSE, snap |-> None,
            nodes |-> {}, ok |-> {}, changed |-> FALSE, force |-> FALSE]

CreatePC == {"c_pick", "c_assign", "c_save", "c_start", "c_running", "c_cache"}
FreePC   == {"x_free", "x_read", "x_zero", "x_row"}
DeletePC == {"d_stop", "d_forget"}
\* Steps of a pass between taking and leaving the engine lock.
CritPC   == {"h_swap", "h_drop_read", "h_drop_save", "h_topup", "h_assign",
             "h_add_read", "h_add_save", "h_leave"}
RollPC   == {"r_plan", "r_remove", "r_run", "r_done"}
PassPC   == {"h_assigned", "h_probe", "h_verdict", "h_heal"} \cup CritPC \cup RollPC
Label    == {"idle", "h_enter", "h_exit"}
              \cup CreatePC \cup FreePC \cup DeletePC \cup PassPC

\* The row is there and its creator is done with it.
Live(t) == IF row[t] = None THEN FALSE ELSE row[t].state # "starting"
Owned(t) == {n \in Nodes : owner[n] = t}
Free == {n \in alive : owner[n] = None}
\* Assigner._free_nodes(...)[:k]: the order is a score, so any k of them.
BestOf(k) == {P \in SUBSET Free :
                Cardinality(P) = IF Cardinality(Free) < k THEN Cardinality(Free)
                                                          ELSE k}
\* db.py: the UNIQUE column lets a row keep or take a port no other row has.
PortUnique(t, p) == \A u \in Tunnels \ {t} : row[u] # None => row[u].port # p

\* A misfortune the bound counts, or none.
Upset == IF MaxUpsets = None THEN upsets' = upsets
                             ELSE upsets < MaxUpsets /\ upsets' = upsets + 1
Calm == upsets' = upsets

Goto(w, label, l) == /\ pc' = [pc EXCEPT ![w] = label]
                     /\ loc' = [loc EXCEPT ![w] = l]
Finish(w) == Goto(w, "idle", NoLocal)
At(w, label) == boot = "up" /\ pc[w] = label

TypeOK ==
    /\ owner \in [Nodes -> Tunnels \cup {None}]
    /\ alive \in SUBSET Nodes
    /\ row \in [Tunnels -> Row \cup {None}]
    /\ cont \in [Tunnels -> Container \cup {None}]
    /\ lock \in Threads \cup {None}
    /\ strikes \in [Tunnels -> [Nodes -> 0 .. MaxMisses - 1]]
    /\ rendered \in [Tunnels -> (SUBSET Nodes) \cup {None}]
    /\ busy \in SUBSET Tunnels
    /\ pending \in SUBSET Tunnels
    /\ queue \in SUBSET (Tunnels \X BOOLEAN)
    /\ pc \in [Threads -> Label]
    /\ loc \in [Threads -> Local]
    /\ boot \in {"down", "orphans", "mark", "up"}
    /\ minted \in SUBSET Tunnels
    /\ deleted \in SUBSET Tunnels
    /\ crashes \in 0 .. MaxCrashes
    /\ upsets \in Nat

Init ==
    /\ owner = [n \in Nodes |-> None]
    /\ alive \in SUBSET Nodes
    /\ row = [t \in Tunnels |-> None]
    /\ cont = [t \in Tunnels |-> None]
    /\ lock = None
    /\ strikes = [t \in Tunnels |-> [n \in Nodes |-> 0]]
    /\ rendered = [t \in Tunnels |-> None]
    /\ busy = {} /\ pending = {} /\ queue = {}
    /\ pc = [w \in Threads |-> "idle"]
    /\ loc = [w \in Threads |-> NoLocal]
    /\ boot = "down"
    /\ minted = {} /\ deleted = {} /\ crashes = 0 /\ upsets = 0

-----------------------------------------------------------------------------
(* POST /tunnels *)

\* A fresh id and the first port that is free in SQLite and on the OS (any
\* port may be held by some other program).
CreateRequest(w) ==
    /\ At(w, "idle") /\ w \in Workers
    /\ \E t \in Tunnels \ minted, k \in Requests, p \in Ports :
        /\ PortUnique(t, p)
        /\ \A u \in Tunnels : cont[u] # None /\ cont[u].up => cont[u].port # p
        /\ minted' = minted \cup {t}
        /\ Goto(w, "c_pick",
                [NoLocal EXCEPT !.op = "create", !.tid = t,
                    !.snap = [state |-> "starting", port |-> p, req |-> k, granted |-> 0]])
    /\ UNCHANGED <<dbVars, cont, memVars, boot, deleted, crashes, upsets>>

CreatePick(w) ==
    /\ At(w, "c_pick")
    /\ \E P \in BestOf(loc[w].snap.req) :
        Goto(w, IF P = {} THEN "c_save" ELSE "c_assign",
             [loc[w] EXCEPT !.nodes = P, !.snap.granted = Cardinality(P)])
    /\ UNCHANGED <<dbVars, cont, memVars, sysVars, upsets>>

\* assign_nodes moves a node whoever holds it.
CreateAssign(w) ==
    /\ At(w, "c_assign")
    /\ owner' = [n \in Nodes |-> IF n \in loc[w].nodes THEN loc[w].tid ELSE owner[n]]
    /\ Goto(w, "c_save", loc[w])
    /\ UNCHANGED <<alive, row, cont, memVars, sysVars, upsets>>

\* save_tunnel may hit the port UNIQUE constraint (an unhandled 500);
\* otherwise render_config runs and may reject the node set.
CreateSave(w) ==
    LET t == loc[w].tid IN
    /\ At(w, "c_save")
    /\ IF PortUnique(t, loc[w].snap.port)
         THEN /\ row' = [row EXCEPT ![t] = loc[w].snap]
              /\ \/ Calm /\ Goto(w, "c_start", loc[w])
                 \/ Upset /\ Goto(w, "x_free", loc[w])
         ELSE row' = row /\ Calm /\ Finish(w)
    /\ UNCHANGED <<owner, alive, cont, memVars, sysVars>>

\* ContainerController._run: the name is free and the container comes up; or
\* it is taken; or Docker fails: as TunnelRuntimeUnavailable, or (connection
\* lost) as an exception nobody catches.  The clean-up is best-effort, so what
\* was made may stay, and may run when only the answer to start() was lost.
Run(t, cfg, port, ok, failed, raised) ==
    \/ /\ cont[t] = None /\ Calm /\ ok
       /\ cont' = [cont EXCEPT ![t] = [up |-> TRUE, cfg |-> cfg, port |-> port]]
    \/ /\ cont[t] # None /\ Calm /\ failed
       /\ cont' = cont
    \/ /\ Upset /\ (failed \/ raised)
       /\ \/ cont' = cont
          \/ /\ cont[t] = None
             /\ \E up \in BOOLEAN :
                    cont' = [cont EXCEPT ![t] = [up |-> up, cfg |-> cfg, port |-> port]]

\* controller.start; only TunnelRuntimeUnavailable rolls the tunnel back.
CreateStart(w) ==
    /\ At(w, "c_start")
    /\ Run(loc[w].tid, loc[w].nodes, loc[w].snap.port,
           Goto(w, "c_running", loc[w]), Goto(w, "x_free", loc[w]), Finish(w))
    /\ UNCHANGED <<dbVars, memVars, sysVars>>

\* The request's own Tunnel object is saved back whole, now "running".
CreateRunning(w) ==
    LET t == loc[w].tid IN
    /\ At(w, "c_running")
    /\ IF PortUnique(t, loc[w].snap.port)
         THEN /\ row' = [row EXCEPT ![t] = [loc[w].snap EXCEPT !.state = "running"]]
              /\ Goto(w, "c_cache", loc[w])
         ELSE row' = row /\ Finish(w)
    /\ UNCHANGED <<owner, alive, cont, memVars, sysVars, upsets>>

\* engine._rendered is written without the engine lock.
CreateCache(w) ==
    /\ At(w, "c_cache")
    /\ rendered' = [rendered EXCEPT ![loc[w].tid] = loc[w].nodes]
    /\ Finish(w)
    /\ UNCHANGED <<dbVars, cont, lock, strikes, busy, pending, queue, sysVars, upsets>>

-----------------------------------------------------------------------------
(* DELETE /tunnels/<id>, and the release + delete that rolls a failed POST back *)

DeleteRequest(w) ==
    /\ At(w, "idle") /\ w \in Workers
    /\ \E t \in Tunnels :
        /\ row[t] # None
        /\ Goto(w, "d_stop", [NoLocal EXCEPT !.op = "delete", !.tid = t])
    /\ UNCHANGED <<dbVars, cont, memVars, sysVars, upsets>>

\* A removal that raises has done nothing, or stopped the process, or all of it.
Botched(t) ==
    \/ cont' = cont
    \/ /\ cont[t] # None
       /\ \/ cont' = [cont EXCEPT ![t].up = FALSE]
          \/ cont' = [cont EXCEPT ![t] = None]

\* controller.stop: removed; no Docker client (logged, the delete goes on); or
\* any other daemon error (a 500).
DeleteStop(w) ==
    LET t == loc[w].tid IN
    /\ At(w, "d_stop")
    /\ \/ cont' = [cont EXCEPT ![t] = None] /\ Calm /\ Goto(w, "x_free", loc[w])
       \/ cont' = cont /\ Upset /\ Goto(w, "x_free", loc[w])
       \/ Botched(t) /\ Upset /\ Finish(w)
    /\ UNCHANGED <<dbVars, memVars, sysVars>>

ReleaseNodes(w) ==
    /\ At(w, "x_free")
    /\ owner' = [n \in Nodes |-> IF owner[n] = loc[w].tid THEN None ELSE owner[n]]
    /\ Goto(w, "x_read", loc[w])
    /\ UNCHANGED <<alive, row, cont, memVars, sysVars, upsets>>

ReleaseRead(w) ==
    LET r == row[loc[w].tid] IN
    /\ At(w, "x_read")
    /\ IF r = None \/ r.granted = 0
         THEN Goto(w, "x_row", loc[w])
         ELSE Goto(w, "x_zero", [loc[w] EXCEPT !.snap = [r EXCEPT !.granted = 0]])
    /\ UNCHANGED <<dbVars, cont, memVars, sysVars, upsets>>

ReleaseZero(w) ==
    LET t == loc[w].tid IN
    /\ At(w, "x_zero")
    /\ IF PortUnique(t, loc[w].snap.port)
         THEN row' = [row EXCEPT ![t] = loc[w].snap] /\ Goto(w, "x_row", loc[w])
         ELSE row' = row /\ Finish(w)
    /\ UNCHANGED <<owner, alive, cont, memVars, sysVars, upsets>>

DropRow(w) ==
    /\ At(w, "x_row")
    /\ row' = [row EXCEPT ![loc[w].tid] = None]
    /\ IF loc[w].op = "delete" THEN Goto(w, "d_forget", loc[w]) ELSE Finish(w)
    /\ UNCHANGED <<owner, alive, cont, memVars, sysVars, upsets>>

\* forget_tunnel needs the engine lock; the answer 204 follows.
ForgetTunnel(w) ==
    LET t == loc[w].tid IN
    /\ At(w, "d_forget") /\ lock = None
    /\ strikes' = [strikes EXCEPT ![t] = [n \in Nodes |-> 0]]
    /\ busy' = busy \ {t}
    /\ rendered' = [rendered EXCEPT ![t] = None]
    /\ pending' = pending \ {t}
    /\ deleted' = deleted \cup {t}
    /\ Finish(w)
    /\ UNCHANGED <<dbVars, cont, lock, queue, boot, minted, crashes, upsets>>

-----------------------------------------------------------------------------
(* Health passes: the loop's, and POST /tunnels/<id>/renew *)

\* load_tunnels(): the loop walks this list however old it gets.
LoadTunnels ==
    /\ At(Loop, "idle") /\ queue = {}
    /\ queue' = {q \in Tunnels \X BOOLEAN :
                   row[q[1]] # None /\ q[2] = (row[q[1]].state = "starting")}
    /\ UNCHANGED <<dbVars, cont, lock, strikes, rendered, busy, pending, pc, loc, sysVars, upsets>>

LoopNext ==
    /\ At(Loop, "idle")
    /\ \E q \in queue :
        /\ queue' = queue \ {q}
        /\ Goto(Loop, "h_enter",
                [NoLocal EXCEPT !.op = "health", !.tid = q[1], !.stale = q[2]])
    /\ UNCHANGED <<dbVars, cont, lock, strikes, rendered, busy, pending, sysVars, upsets>>

RenewRequest(w) ==
    /\ At(w, "idle") /\ w \in Workers
    /\ \E t \in Tunnels :
        /\ row[t] # None
        /\ Goto(w, "h_enter", [NoLocal EXCEPT !.op = "health", !.tid = t,
                                  !.stale = (row[t].state = "starting")])
    /\ UNCHANGED <<dbVars, cont, memVars, sysVars, upsets>>

\* Fault: the busy set is kept but never consulted.
EnterAnyway(w) ==
    /\ At(w, "h_enter") /\ lock = None
    /\ busy' = busy \cup {loc[w].tid}
    /\ Goto(w, IF loc[w].stale THEN "h_exit" ELSE "h_assigned", loc[w])
    /\ UNCHANGED <<dbVars, cont, lock, strikes, rendered, pending, queue, sysVars, upsets>>

\* Fault: a tunnel still "starting" is health-checked like any other.
EnterStarting(w) ==
    LET t == loc[w].tid IN
    /\ At(w, "h_enter") /\ lock = None
    /\ IF t \in busy
         THEN busy' = busy /\ Finish(w)
         ELSE busy' = busy \cup {t} /\ Goto(w, "h_assigned", loc[w])
    /\ UNCHANGED <<dbVars, cont, lock, strikes, rendered, pending, queue, sysVars, upsets>>

\* health_check: a second pass for a busy tunnel is a no-op; a tunnel that was
\* "starting" in the caller's hands is left to its creator.
EnterPass(w) ==
    LET t == loc[w].tid IN
    /\ At(w, "h_enter") /\ lock = None
    /\ IF t \in busy
         THEN busy' = busy /\ Finish(w)
         ELSE /\ busy' = busy \cup {t}
              /\ Goto(w, IF loc[w].stale THEN "h_exit" ELSE "h_assigned", loc[w])
    /\ UNCHANGED <<dbVars, cont, lock, strikes, rendered, pending, queue, sysVars, upsets>>

ReadAssigned(w) ==
    LET A == Owned(loc[w].tid) IN
    /\ At(w, "h_assigned")
    /\ Goto(w, IF A = {} THEN "h_verdict" ELSE "h_probe", [loc[w] EXCEPT !.nodes = A])
    /\ UNCHANGED <<dbVars, cont, memVars, sysVars, upsets>>

\* batch_probe, then apply_probe_results: the first failed probe already makes
\* the node 'dead'.
ProbeAssigned(w) ==
    /\ At(w, "h_probe")
    /\ \E ok \in SUBSET loc[w].nodes :
        /\ IF ok = loc[w].nodes THEN Calm ELSE Upset
        /\ alive' = (alive \ loc[w].nodes) \cup ok
        /\ Goto(w, "h_verdict", [loc[w] EXCEPT !.ok = ok])
    /\ UNCHANGED <<owner, row, cont, memVars, sysVars>>

\* Fault: a node survives one miss too many.
StruckLate(w) ==
    {n \in loc[w].nodes \ loc[w].ok : strikes[loc[w].tid][n] + 1 > MaxMisses}

\* The failed nodes of a pass that have now missed max_misses probes in a row.
StruckOut(w) ==
    {n \in loc[w].nodes \ loc[w].ok : strikes[loc[w].tid][n] + 1 >= MaxMisses}

\* Take the lock, look at the row again, count strikes.  The nodes that reach
\* max_misses are kept in loc.nodes and dropped one by one.
Verdicts(w) ==
    LET t == loc[w].tid
        failed == loc[w].nodes \ loc[w].ok
        out == StruckOut(w)
    IN
    /\ At(w, "h_verdict") /\ lock = None
    /\ IF ~Live(t)
         THEN /\ Goto(w, "h_exit", loc[w])
              /\ UNCHANGED <<lock, strikes>>
         ELSE /\ lock' = w
              /\ strikes' = [strikes EXCEPT ![t] = [n \in Nodes |->
                    IF n \in failed \ out THEN strikes[t][n] + 1
                    ELSE IF n \in loc[w].nodes THEN 0
                    ELSE strikes[t][n]]]
              /\ Goto(w, "h_swap", [loc[w] EXCEPT !.nodes = out, !.ok = {},
                                                  !.changed = out # {}])
    /\ UNCHANGED <<dbVars, cont, rendered, busy, pending, queue, sysVars, upsets>>

\* unassign_node clears the column whoever holds the node by now.
SwapOut(w) ==
    /\ At(w, "h_swap")
    /\ IF loc[w].nodes = {}
         THEN owner' = owner /\ Goto(w, "h_topup", loc[w])
         ELSE \E n \in loc[w].nodes :
                /\ owner' = [owner EXCEPT ![n] = None]
                /\ Goto(w, "h_drop_read", [loc[w] EXCEPT !.nodes = @ \ {n}])
    /\ UNCHANGED <<alive, row, cont, memVars, sysVars, upsets>>

\* _bump_granted: get_tunnel, change the object, save the whole row back.
BumpRead(w, here, save, skip, delta) ==
    LET r == row[loc[w].tid] IN
    /\ At(w, here)
    /\ IF r = None
         THEN Goto(w, skip, loc[w])
         ELSE Goto(w, save, [loc[w] EXCEPT !.snap =
                [r EXCEPT !.granted = IF @ + delta > 0 THEN @ + delta ELSE 0,
                          !.state = "running"]])
    /\ UNCHANGED <<dbVars, cont, memVars, sysVars, upsets>>

BumpSave(w, here, next) ==
    LET t == loc[w].tid IN
    /\ At(w, here)
    /\ IF PortUnique(t, loc[w].snap.port)
         THEN /\ row' = [row EXCEPT ![t] = loc[w].snap]
              /\ lock' = lock /\ Goto(w, next, loc[w])
         ELSE /\ row' = row
              /\ lock' = None /\ Goto(w, "h_exit", loc[w])
    /\ UNCHANGED <<owner, alive, cont, strikes, rendered, busy, pending, queue, sysVars, upsets>>

DropRead(w) == BumpRead(w, "h_drop_read", "h_drop_save", "h_swap", -1)
DropSave(w) == BumpSave(w, "h_drop_save", "h_swap")

\* _after_provision and top_up up to the choice of nodes.
TopUpPick(w) ==
    LET r == row[loc[w].tid] IN
    /\ At(w, "h_topup")
    /\ IF r = None \/ r.granted >= r.req
         THEN Goto(w, "h_leave", loc[w])
         ELSE \E P \in BestOf(r.req - r.granted) :
                Goto(w, IF P = {} THEN "h_leave" ELSE "h_assign",
                     [loc[w] EXCEPT !.nodes = P])
    /\ UNCHANGED <<dbVars, cont, memVars, sysVars, upsets>>

TopUpAssign(w) ==
    /\ At(w, "h_assign")
    /\ owner' = [n \in Nodes |-> IF n \in loc[w].nodes THEN loc[w].tid ELSE owner[n]]
    /\ Goto(w, "h_add_read", [loc[w] EXCEPT !.changed = TRUE])
    /\ UNCHANGED <<alive, row, cont, memVars, sysVars, upsets>>

\* Fault: the nodes topped up are never counted.
AddNothing(w) == BumpRead(w, "h_add_read", "h_add_save", "h_leave", 0)
AddRead(w) == BumpRead(w, "h_add_read", "h_add_save", "h_leave", Cardinality(loc[w].nodes))
AddSave(w) == BumpSave(w, "h_add_save", "h_leave")

\* Fault: only a pass that changed the node set redeploys.
LeaveUnretried(w) ==
    /\ At(w, "h_leave")
    /\ lock' = None
    /\ pending' = IF loc[w].changed THEN pending \cup {loc[w].tid} ELSE pending
    /\ Goto(w, IF loc[w].changed THEN "r_plan" ELSE "h_heal",
            [loc[w] EXCEPT !.nodes = {}, !.snap = None])
    /\ UNCHANGED <<dbVars, cont, strikes, rendered, busy, queue, sysVars, upsets>>

LeaveLock(w) ==
    LET t == loc[w].tid IN
    /\ At(w, "h_leave")
    /\ lock' = None
    /\ pending' = IF loc[w].changed THEN pending \cup {t} ELSE pending
    /\ Goto(w, IF t \in pending' THEN "r_plan" ELSE "h_heal",
            [loc[w] EXCEPT !.nodes = {}, !.snap = None])
    /\ UNCHANGED <<dbVars, cont, strikes, rendered, busy, queue, sysVars, upsets>>

-----------------------------------------------------------------------------
(* _redeploy and _self_heal, run without the engine lock *)

\* A redeploy that returns: the first one of a pass is followed by _self_heal.
AfterRoll(w, l) == Goto(w, IF l.force THEN "h_exit" ELSE "h_heal", l)

\* Row, assigned alive nodes, signature cache; render_config may raise.
PlanRoll(w) ==
    LET t == loc[w].tid
        sig == Owned(t) \cap alive
    IN
    /\ At(w, "r_plan")
    /\ \/ ~Live(t) /\ pending' = pending /\ Calm /\ AfterRoll(w, loc[w])
       \/ /\ Live(t) /\ ~loc[w].force /\ rendered[t] = sig
          /\ pending' = pending \ {t} /\ Calm
          /\ AfterRoll(w, loc[w])
       \/ /\ Live(t) /\ (loc[w].force \/ rendered[t] # sig)
          /\ pending' = pending
          /\ \/ Calm /\ Goto(w, "r_remove", [loc[w] EXCEPT !.nodes = sig, !.snap = row[t]])
             \/ Upset /\ Goto(w, "h_exit", loc[w])
    /\ UNCHANGED <<dbVars, cont, lock, strikes, rendered, busy, queue, sysVars>>

\* _remove: gone; no Docker client; or another daemon error, which ends the pass.
RollRemove(w) ==
    LET t == loc[w].tid IN
    /\ At(w, "r_remove")
    /\ \/ cont' = [cont EXCEPT ![t] = None] /\ Calm /\ Goto(w, "r_run", loc[w])
       \/ cont' = cont /\ Upset /\ AfterRoll(w, loc[w])
       \/ Botched(t) /\ Upset /\ Goto(w, "h_exit", loc[w])
    /\ UNCHANGED <<dbVars, memVars, sysVars>>

RollRun(w) ==
    /\ At(w, "r_run")
    /\ Run(loc[w].tid, loc[w].nodes, loc[w].snap.port,
           Goto(w, "r_done", loc[w]), AfterRoll(w, loc[w]), Goto(w, "h_exit", loc[w]))
    /\ UNCHANGED <<dbVars, memVars, sysVars>>

RollDone(w) ==
    LET t == loc[w].tid IN
    /\ At(w, "r_done")
    /\ rendered' = [rendered EXCEPT ![t] = loc[w].nodes]
    /\ pending' = pending \ {t}
    /\ AfterRoll(w, loc[w])
    /\ UNCHANGED <<dbVars, cont, lock, strikes, busy, queue, sysVars, upsets>>

\* Fault: the redeploy of a dead container honours the signature cache.
SelfHealCached(w) ==
    LET t == loc[w].tid IN
    /\ At(w, "h_heal")
    /\ Goto(w, IF row[t] # None /\ (cont[t] = None \/ ~cont[t].up) /\ rendered[t] # Owned(t) \cap alive
                 THEN "r_plan" ELSE "h_exit", [loc[w] EXCEPT !.force = TRUE])
    /\ UNCHANGED <<dbVars, cont, memVars, sysVars, upsets>>

\* The row is live but its container is not: roll again past the cache.
SelfHeal(w) ==
    LET t == loc[w].tid
        down == cont[t] = None \/ ~cont[t].up
    IN
    /\ At(w, "h_heal")
    /\ IF row[t] # None /\ down
         THEN Goto(w, "r_plan", [loc[w] EXCEPT !.force = TRUE])
         ELSE Goto(w, "h_exit", loc[w])
    /\ UNCHANGED <<dbVars, cont, memVars, sysVars, upsets>>

\* The daemon is unreachable (give up until the next pass), or answers
\* is_running with an API error, which reads as "not running".
SelfHealBlind(w) ==
    /\ At(w, "h_heal") /\ row[loc[w].tid] # None /\ Upset
    /\ \/ Goto(w, "h_exit", loc[w])
       \/ Goto(w, "r_plan", [loc[w] EXCEPT !.force = TRUE])
    /\ UNCHANGED <<dbVars, cont, memVars, sysVars>>

ExitPass(w) ==
    /\ At(w, "h_exit") /\ lock = None
    /\ busy' = busy \ {loc[w].tid}
    /\ Finish(w)
    /\ UNCHANGED <<dbVars, cont, lock, strikes, rendered, pending, queue, sysVars, upsets>>

-----------------------------------------------------------------------------
(* The rest of the world *)

\* The working-set pass, an admission probe or a re-fetched URI writes a
\* verdict; its node list may be old, so any node can be hit.
PoolVerdict ==
    /\ boot = "up" /\ Upset
    /\ \E n \in Nodes : alive' = IF n \in alive THEN alive \ {n} ELSE alive \cup {n}
    /\ UNCHANGED <<owner, row, cont, memVars, pc, loc, sysVars>>

\* A container is stopped behind the engine's back.
ContainerStops ==
    /\ Upset
    /\ \E t \in Tunnels : /\ cont[t] # None /\ cont[t].up
                          /\ cont' = [cont EXCEPT ![t].up = FALSE]
    /\ UNCHANGED <<dbVars, memVars, pc, loc, sysVars>>

\* The process dies: threads and memory are gone, SQLite and Docker stay.
Crash ==
    /\ crashes < MaxCrashes
    /\ crashes' = crashes + 1
    /\ boot' = "down"
    /\ lock' = None
    /\ strikes' = [t \in Tunnels |-> [n \in Nodes |-> 0]]
    /\ rendered' = [t \in Tunnels |-> None]
    /\ busy' = {} /\ pending' = {} /\ queue' = {}
    /\ pc' = [w \in Threads |-> "idle"]
    /\ loc' = [w \in Threads |-> NoLocal]
    /\ UNCHANGED <<dbVars, cont, minted, deleted, upsets>>

\* Engine.reconcile, before any thread starts.
BootContainers ==
    /\ boot = "down"
    /\ \/ cont' = [t \in Tunnels |-> IF row[t] = None THEN None ELSE cont[t]]
       \/ cont' = cont      \* daemon unreachable: skipped
    /\ boot' = "orphans"
    /\ UNCHANGED <<dbVars, memVars, pc, loc, minted, deleted, crashes, upsets>>

\* Fault: boot keeps the assignments of tunnels that have no row.
BootKeepsOrphans ==
    /\ boot = "orphans"
    /\ boot' = "mark"
    /\ UNCHANGED <<dbVars, cont, memVars, pc, loc, minted, deleted, crashes, upsets>>

BootOrphans ==
    /\ boot = "orphans"
    /\ owner' = [n \in Nodes |-> IF owner[n] # None /\ row[owner[n]] = None
                                   THEN None ELSE owner[n]]
    /\ boot' = "mark"
    /\ UNCHANGED <<alive, row, cont, memVars, pc, loc, minted, deleted, crashes, upsets>>

BootMark ==
    /\ boot = "mark"
    /\ row' = [t \in Tunnels |-> IF row[t] = None THEN None
                                 ELSE [row[t] EXCEPT !.state = "running"]]
    /\ boot' = "up"
    /\ UNCHANGED <<owner, alive, cont, memVars, pc, loc, minted, deleted, crashes, upsets>>

CreateStep(w) == CreatePick(w) \/ CreateAssign(w) \/ CreateSave(w) \/ CreateStart(w)
                   \/ CreateRunning(w) \/ CreateCache(w)
DeleteStep(w) == DeleteStop(w) \/ ReleaseNodes(w) \/ ReleaseRead(w)
                   \/ ReleaseZero(w) \/ DropRow(w) \/ ForgetTunnel(w)
PassStep(w) == EnterPass(w) \/ ReadAssigned(w) \/ ProbeAssigned(w) \/ Verdicts(w)
                 \/ SwapOut(w) \/ DropRead(w) \/ DropSave(w) \/ TopUpPick(w)
                 \/ TopUpAssign(w) \/ AddRead(w) \/ AddSave(w) \/ LeaveLock(w)
                 \/ ExitPass(w)
RollStep(w) == PlanRoll(w) \/ RollRemove(w) \/ RollRun(w) \/ RollDone(w)
                 \/ SelfHeal(w) \/ SelfHealBlind(w)
Request(w) == CreateRequest(w) \/ DeleteRequest(w) \/ RenewRequest(w)
Boot == BootContainers \/ BootOrphans \/ BootMark

Next ==
    \/ \E w \in Threads : Request(w) \/ CreateStep(w) \/ DeleteStep(w)
                            \/ PassStep(w) \/ RollStep(w)
    \/ LoadTunnels \/ LoopNext
    \/ PoolVerdict \/ ContainerStops \/ Crash \/ Boot

Spec == Init /\ [][Next]_vars

-----------------------------------------------------------------------------
(* Safety *)

Creating(w) == loc[w].op = "create" /\ pc[w] # "c_cache"

\* From the id being minted until the row says "running", POST /tunnels is the
\* only thread that probes, swaps or deploys its tunnel, and the container
\* name it starts under is free.
CreatorAlone ==
    \A w \in Threads : Creating(w) =>
        /\ pc[w] = "c_start" => cont[loc[w].tid] = None
        /\ \A v \in Threads \ {w} : loc[v].tid = loc[w].tid => pc[v] \notin PassPC

\* A scheduled pass and a renew of one tunnel never run side by side, as long
\* as the tunnel has not been deleted (forget_tunnel drops the busy mark).
SingleFlight ==
    \A v, w \in Threads :
        v # w /\ pc[v] \in PassPC /\ pc[w] \in PassPC /\ loc[v].tid = loc[w].tid
            => loc[v].tid \in deleted

Quiet(t) == \A w \in Threads : loc[w].tid # t

\* While the process lives, a tunnel nobody works on holds no more nodes than
\* its row says were granted, nor more than were requested: lost updates of
\* _bump_granted never let a top-up over-fill a tunnel and starve the others.
GrantCoversOwned ==
    \A t \in Tunnels :
        crashes = 0 /\ row[t] # None /\ t \notin deleted /\ Quiet(t)
            => /\ Cardinality(Owned(t)) <= row[t].granted
               /\ row[t].granted <= row[t].req

\* When the API starts serving after a crash at any point, no assignment points
\* at a tunnel without a row and no row is left "starting" without a creator.
BootClean ==
    [][boot # "up" /\ boot' = "up" =>
         /\ \A n \in Nodes : owner'[n] # None => row'[owner'[n]] # None
         /\ \A t \in Tunnels : row'[t] # None => row'[t].state = "running"]_vars

\* docs/api.md, DELETE: the container is stopped and removed and the nodes go
\* back to the pool.  So nothing of a tunnel comes back once DELETE was answered,
\* neither through a POST that still waits for its container nor through a pass
\* that read the row or planned a redeploy before.
DeleteIsFinal ==
    [][\A t \in deleted :
         /\ row[t] = None => row'[t] = None
         /\ cont[t] = None => cont'[t] = None
         /\ \A n \in Nodes : owner'[n] = t => owner[n] = t]_vars

\* ADR-0002: a node is never in two tunnels at once, here in the configs that
\* the running containers dial.
ExclusiveConfigs ==
    \A t, u \in Tunnels :
        t # u /\ cont[t] # None /\ cont[u] # None /\ row[t] # None /\ row[u] # None
            => cont[t].cfg \cap cont[u].cfg = {}

-----------------------------------------------------------------------------
(* Liveness *)

\* Threads keep running; threading.Lock is handed to a waiter sooner or later;
\* Docker and render_config do not fail a tunnel every single time.
Fairness ==
    /\ WF_vars(Boot)
    /\ WF_vars(LoadTunnels \/ LoopNext)
    /\ \A w \in Threads :
        /\ WF_vars(CreateStep(w) \/ DeleteStep(w) \/ PassStep(w) \/ RollStep(w))
        /\ SF_vars(EnterPass(w) \/ Verdicts(w) \/ ExitPass(w) \/ ForgetTunnel(w))
    /\ \A t \in Tunnels :
        /\ SF_vars(\E w \in Threads : loc[w].tid = t /\ SelfHeal(w))
        /\ SF_vars(\E w \in Threads : loc[w].tid = t /\ PlanRoll(w) /\ pc'[w] = "r_remove")
        /\ SF_vars(\E w \in Threads : loc[w].tid = t /\ RollRemove(w) /\ pc'[w] = "r_run")
        /\ SF_vars(\E w \in Threads : loc[w].tid = t /\ RollRun(w) /\ pc'[w] = "r_done")

FairSpec == Spec /\ Fairness

Up(t) == cont[t] # None /\ cont[t].up

\* A live row whose container is down or was never started (after a crash inside
\* POST, once rebooted) gets a running container again.
HealServes == \A t \in Tunnels : Live(t) /\ ~Up(t) ~> Up(t) \/ row[t] = None

\* A redeploy that failed is retried by later passes until it went through.
PendingIsRetried ==
    \A t \in Tunnels : t \in pending /\ row[t] # None ~> t \notin pending \/ row[t] = None
=============================================================================
