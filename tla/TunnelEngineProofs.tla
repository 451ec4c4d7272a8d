------------------------- MODULE TunnelEngineProofs -------------------------
(* Machine-checked theorems about TunnelEngine, for every number of nodes,   *)
(* tunnels, ports, threads, crashes and misfortunes.                         *)
EXTENDS TunnelEngine, FiniteSetTheorems, TLAPS

USE DEF EngineAssumption

-----------------------------------------------------------------------------
(* Typing.  TypeOK is inductive together with what a thread's locals hold at *)
(* each of its steps.                                                        *)

\* Steps that use the row object the thread holds.
SnapPC == {"c_pick", "c_assign", "c_save", "c_start", "c_running", "x_zero",
           "h_drop_save", "h_add_save", "r_remove", "r_run"}

Call(label, l, ids) ==
    /\ l.op = "none" => label = "idle"
    /\ label = "idle" => l = NoLocal
    /\ l.op # "none" => l.tid \in ids
    /\ l.op = "create" => label \in CreatePC \cup FreePC
    /\ l.op = "delete" => label \in DeletePC \cup FreePC
    /\ l.op = "health" => label \in {"h_enter", "h_exit"} \cup PassPC
    /\ label \in SnapPC => l.snap \in Row

CallInv == \A w \in Threads : Call(pc[w], loc[w], minted)

\* Nothing exists under an id that was never handed out.
MintInv ==
    /\ \A t \in Tunnels : row[t] # None \/ cont[t] # None => t \in minted
    /\ \A q \in queue : q[1] \in minted

LEMMA NoLocalOK == NoLocal \in Local /\ \A ids : Call("idle", NoLocal, ids)
BY DEF NoLocal, Local, Call, SnapPC, CreatePC, FreePC, DeletePC, PassPC, CritPC, RollPC

\* What one thread's move does to pc and loc.
LEMMA GotoStep ==
    ASSUME TypeOK, CallInv, NEW w \in Threads,
           NEW label \in Label, NEW l \in Local,
           Goto(w, label, l), minted \subseteq minted', Call(label, l, minted')
    PROVE  /\ pc' \in [Threads -> Label]
           /\ loc' \in [Threads -> Local]
           /\ CallInv'
<1>1. pc' \in [Threads -> Label] /\ loc' \in [Threads -> Local]
  BY DEF TypeOK, Goto
<1>2. ASSUME NEW v \in Threads PROVE Call(pc[v], loc[v], minted)'
  <2>1. CASE v = w
    BY <2>1, <1>1 DEF TypeOK, Goto
  <2>2. CASE v # w
    <3>1. pc'[v] = pc[v] /\ loc'[v] = loc[v]
      BY <2>2 DEF TypeOK, Goto
    <3> QED BY <3>1 DEF CallInv, Call
  <2> QED BY <2>1, <2>2
<1> QED BY <1>1, <1>2 DEF CallInv

LEMMA FinishStep ==
    ASSUME TypeOK, CallInv, NEW w \in Threads, Finish(w), minted \subseteq minted'
    PROVE  /\ pc' \in [Threads -> Label]
           /\ loc' \in [Threads -> Local]
           /\ CallInv'
<1>1. "idle" \in Label BY DEF Label
<1> QED BY <1>1, NoLocalOK, GotoStep DEF Finish

\* What the typing lemmas conclude.
Typed == TypeOK /\ CallInv

\* A store or container object of the right type.
LEMMA PickOK ==
    ASSUME TypeOK, NEW k, NEW P \in BestOf(k)
    PROVE  P \in SUBSET Nodes /\ Cardinality(P) \in Nat
<1>1. P \subseteq Nodes BY DEF BestOf, Free, TypeOK
<1> QED BY <1>1, FS_Subset, FS_CardinalityType, EngineAssumption

LEMMA TypedCreateRequest ==
    ASSUME Typed, NEW w \in Threads, CreateRequest(w) PROVE Typed'
<1> USE DEF Typed
<1>1. PICK t \in Tunnels \ minted, k \in Requests, p \in Ports :
        /\ minted' = minted \cup {t}
        /\ Goto(w, "c_pick",
                [NoLocal EXCEPT !.op = "create", !.tid = t,
                    !.snap = [state |-> "starting", port |-> p, req |-> k, granted |-> 0]])
  BY DEF CreateRequest
<1> DEFINE r == [state |-> "starting", port |-> p, req |-> k, granted |-> 0]
           l == [NoLocal EXCEPT !.op = "create", !.tid = t, !.snap = r]
<1>2. r \in Row BY DEF Row
<1>3. l \in Local /\ l.op = "create" /\ l.tid = t /\ l.snap = r
  BY <1>2 DEF Local, NoLocal
<1>4. "c_pick" \in Label /\ Call("c_pick", l, minted')
  BY <1>1, <1>2, <1>3 DEF Label, Call, CreatePC
<1>5. minted \subseteq minted' BY <1>1
<1>6. /\ pc' \in [Threads -> Label] /\ loc' \in [Threads -> Local] /\ CallInv'
  <2> HIDE DEF l
  <2> QED BY <1>1, <1>3, <1>4, <1>5, GotoStep DEF l
<1>7. TypeOK'
  BY <1>1, <1>6 DEF CreateRequest, TypeOK, dbVars, memVars
<1> QED BY <1>6, <1>7

LEMMA Here ==
    ASSUME Typed, NEW w \in Threads, pc[w] # "idle"
    PROVE  /\ loc[w] \in Local
           /\ Call(pc[w], loc[w], minted)
           /\ loc[w].op # "none"
           /\ loc[w].tid \in Tunnels /\ loc[w].tid \in minted
           /\ pc[w] \in SnapPC => loc[w].snap \in Row
BY DEF Typed, TypeOK, CallInv, Call, Local

\* Which call a step belongs to.
LEMMA OpAt ==
    ASSUME Typed, NEW w \in Threads
    PROVE  /\ pc[w] \in CreatePC => loc[w].op = "create"
           /\ pc[w] \in DeletePC => loc[w].op = "delete"
           /\ pc[w] \in PassPC \cup {"h_enter", "h_exit"} => loc[w].op = "health"
           /\ pc[w] \in FreePC => loc[w].op \in {"create", "delete"}
<1>1. Call(pc[w], loc[w], minted) /\ loc[w] \in Local BY DEF Typed, TypeOK, CallInv
<1> QED BY <1>1 DEF Call, Local, CreatePC, DeletePC, PassPC, FreePC, CritPC, RollPC

LEMMA TypedCreatePick ==
    ASSUME Typed, NEW w \in Threads, CreatePick(w) PROVE Typed'
<1>1. PICK P \in BestOf(loc[w].snap.req) :
        Goto(w, IF P = {} THEN "c_save" ELSE "c_assign",
             [loc[w] EXCEPT !.nodes = P, !.snap.granted = Cardinality(P)])
  BY DEF CreatePick
<1>2. P \in SUBSET Nodes /\ Cardinality(P) \in Nat BY PickOK DEF Typed
<1>3. pc[w] = "c_pick" BY DEF CreatePick, At
<1>4. loc[w] \in Local /\ loc[w].snap \in Row BY <1>3, Here DEF SnapPC
<1> DEFINE l == [loc[w] EXCEPT !.nodes = P, !.snap.granted = Cardinality(P)]
           next == IF P = {} THEN "c_save" ELSE "c_assign"
<1>5. l \in Local /\ l.snap \in Row /\ l.op = loc[w].op /\ l.tid = loc[w].tid
  BY <1>2, <1>4 DEF Local, Row
<1>6. next \in Label /\ Call(next, l, minted')
  <2>1. minted' = minted BY DEF CreatePick, sysVars
  <2>2. loc[w].op = "create" BY <1>3, OpAt DEF CreatePC
  <2>3. loc[w].tid \in minted BY <1>3, Here
  <2> HIDE DEF l
  <2> QED BY <1>5, <2>1, <2>2, <2>3 DEF Label, Call, CreatePC
<1>7. minted \subseteq minted' BY DEF CreatePick, sysVars
<1>8. pc' \in [Threads -> Label] /\ loc' \in [Threads -> Local] /\ CallInv'
  <2> HIDE DEF l, next
  <2> QED BY <1>1, <1>5, <1>6, <1>7, GotoStep DEF l, next, Typed
<1>9. TypeOK'
  BY <1>8 DEF CreatePick, TypeOK, dbVars, memVars, sysVars, Typed
<1> QED BY <1>8, <1>9 DEF Typed

\* A thread stays within its call: the shape of almost every step.
Moved == pc' \in [Threads -> Label] /\ loc' \in [Threads -> Local] /\ CallInv'

Allowed(op, label) ==
    CASE op = "create" -> label \in CreatePC \cup FreePC
      [] op = "delete" -> label \in DeletePC \cup FreePC
      [] OTHER -> label \in {"h_enter", "h_exit"} \cup PassPC

LEMMA Move ==
    ASSUME Typed, NEW w \in Threads, pc[w] # "idle", minted' = minted,
           NEW label, NEW l \in Local, Goto(w, label, l),
           l.op = loc[w].op, l.tid = loc[w].tid, Allowed(l.op, label),
           label \in SnapPC => l.snap \in Row
    PROVE  Moved
<1>1. l.op # "none" /\ l.tid \in minted BY Here
<1>2. l.op \in {"create", "delete", "health"} BY <1>1 DEF Local
<1>3. label \in Label /\ Call(label, l, minted')
  BY <1>1, <1>2 DEF Allowed, Label, Call, CreatePC, DeletePC, FreePC, PassPC, CritPC, RollPC
<1> QED BY <1>3, GotoStep DEF Moved, Typed

LEMMA Stop ==
    ASSUME Typed, NEW w \in Threads, minted' = minted, Finish(w)
    PROVE  Moved
BY FinishStep DEF Moved, Typed

LEMMA TypedCreateSave ==
    ASSUME Typed, NEW w \in Threads, CreateSave(w) PROVE Typed'
<1>1. pc[w] = "c_save" /\ minted' = minted BY DEF CreateSave, At, sysVars
<1>2. loc[w] \in Local /\ loc[w].snap \in Row /\ loc[w].tid \in Tunnels /\ loc[w].op = "create"
  BY <1>1, Here, OpAt DEF SnapPC, CreatePC
<1>3. /\ \/ Goto(w, "c_start", loc[w]) \/ Goto(w, "x_free", loc[w]) \/ Finish(w)
      /\ row' = row \/ row' = [row EXCEPT ![loc[w].tid] = loc[w].snap]
      /\ upsets' \in Nat
  BY DEF CreateSave, Upset, Calm, Typed, TypeOK
<1>4. Allowed("create", "c_start") /\ Allowed("create", "x_free")
  BY DEF Allowed, CreatePC, FreePC
<1>5. Moved BY <1>1, <1>2, <1>3, <1>4, Move, Stop
<1>6. TypeOK'
  BY <1>1, <1>2, <1>3, <1>5 DEF CreateSave, TypeOK, memVars, sysVars, Typed, Moved
<1> QED BY <1>5, <1>6 DEF Typed, Moved

LEMMA TypedCreateAssign ==
    ASSUME Typed, NEW w \in Threads, CreateAssign(w) PROVE Typed'
<1>1. pc[w] = "c_assign" /\ minted' = minted /\ Goto(w, "c_save", loc[w])
  BY DEF CreateAssign, At, sysVars
<1>2. loc[w] \in Local /\ loc[w].snap \in Row /\ loc[w].tid \in Tunnels /\ loc[w].op = "create"
  BY <1>1, Here, OpAt DEF SnapPC, CreatePC
<1>3. Allowed("create", "c_save") BY DEF Allowed, CreatePC
<1>4. Moved BY <1>1, <1>2, <1>3, Move
<1>5. TypeOK'
  BY <1>2, <1>4 DEF CreateAssign, TypeOK, memVars, sysVars, Typed, Moved
<1> QED BY <1>4, <1>5 DEF Typed, Moved

\* What Run leaves under a container name.
LEMMA TypedRun ==
    ASSUME TypeOK, NEW t \in Tunnels, NEW cfg \in SUBSET Nodes, NEW p \in Ports,
           \/ cont' = cont
           \/ \E b \in BOOLEAN :
                cont' = [cont EXCEPT ![t] = [up |-> b, cfg |-> cfg, port |-> p]]
    PROVE  cont' \in [Tunnels -> Container \cup {None}]
<1>1. \A b \in BOOLEAN : [up |-> b, cfg |-> cfg, port |-> p] \in Container
  BY DEF Container
<1> QED BY <1>1 DEF TypeOK

LEMMA TypedCreateStart ==
    ASSUME Typed, NEW w \in Threads, CreateStart(w) PROVE Typed'
<1>1. pc[w] = "c_start" /\ minted' = minted BY DEF CreateStart, At, sysVars
<1>2. loc[w] \in Local /\ loc[w].snap \in Row /\ loc[w].tid \in Tunnels /\ loc[w].op = "create"
  BY <1>1, Here, OpAt DEF SnapPC, CreatePC
<1>3. loc[w].nodes \in SUBSET Nodes /\ loc[w].snap.port \in Ports BY <1>2 DEF Local, Row
<1>4. /\ cont' \in [Tunnels -> Container \cup {None}]
      /\ upsets' \in Nat
      /\ Goto(w, "c_running", loc[w]) \/ Goto(w, "x_free", loc[w]) \/ Finish(w)
  <2>1. /\ Goto(w, "c_running", loc[w]) \/ Goto(w, "x_free", loc[w]) \/ Finish(w)
        /\ upsets' \in Nat
    BY DEF CreateStart, Run, Upset, Calm, Typed, TypeOK
  <2>2. \/ cont' = cont
        \/ \E b \in BOOLEAN : cont' = [cont EXCEPT ![loc[w].tid] =
             [up |-> b, cfg |-> loc[w].nodes, port |-> loc[w].snap.port]]
    BY DEF CreateStart, Run
  <2> QED BY <1>2, <1>3, <2>1, <2>2, TypedRun DEF Typed
<1>5. Allowed("create", "c_running") /\ Allowed("create", "x_free")
  BY DEF Allowed, CreatePC, FreePC
<1>6. Moved BY <1>1, <1>2, <1>4, <1>5, Move, Stop DEF SnapPC
<1>7. TypeOK' BY <1>4, <1>6 DEF CreateStart, TypeOK, dbVars, memVars, sysVars, Typed, Moved
<1> QED BY <1>6, <1>7 DEF Typed, Moved

LEMMA TypedCreateRunning ==
    ASSUME Typed, NEW w \in Threads, CreateRunning(w) PROVE Typed'
<1>1. pc[w] = "c_running" /\ minted' = minted BY DEF CreateRunning, At, sysVars
<1>2. loc[w] \in Local /\ loc[w].snap \in Row /\ loc[w].tid \in Tunnels /\ loc[w].op = "create"
  BY <1>1, Here, OpAt DEF SnapPC, CreatePC
<1>3. [loc[w].snap EXCEPT !.state = "running"] \in Row BY <1>2 DEF Row
<1>4. Goto(w, "c_cache", loc[w]) \/ Finish(w) BY DEF CreateRunning
<1>5. Allowed("create", "c_cache") BY DEF Allowed, CreatePC
<1>6. Moved BY <1>1, <1>2, <1>4, <1>5, Move, Stop
<1>7. row' \in [Tunnels -> Row \cup {None}] BY <1>3 DEF CreateRunning, Typed, TypeOK
<1>8. TypeOK' BY <1>6, <1>7 DEF CreateRunning, TypeOK, memVars, sysVars, Typed, Moved
<1> QED BY <1>6, <1>8 DEF Typed, Moved

LEMMA TypedCreateCache ==
    ASSUME Typed, NEW w \in Threads, CreateCache(w) PROVE Typed'
<1>1. pc[w] = "c_cache" /\ minted' = minted BY DEF CreateCache, At, sysVars
<1>2. loc[w] \in Local BY <1>1, Here
<1>3. Moved BY <1>1, Stop DEF CreateCache
<1>4. TypeOK' BY <1>2, <1>3 DEF CreateCache, TypeOK, dbVars, sysVars, Typed, Moved, Local
<1> QED BY <1>3, <1>4 DEF Typed, Moved

LEMMA TypedDeleteRequest ==
    ASSUME Typed, NEW w \in Threads, MintInv, DeleteRequest(w) PROVE Typed'
<1>1. PICK t \in Tunnels :
        /\ row[t] # None
        /\ Goto(w, "d_stop", [NoLocal EXCEPT !.op = "delete", !.tid = t])
  BY DEF DeleteRequest
<1> DEFINE l == [NoLocal EXCEPT !.op = "delete", !.tid = t]
<1>2. l \in Local /\ l.op = "delete" /\ l.tid = t BY DEF Local, NoLocal
<1>3. t \in minted /\ minted' = minted BY <1>1 DEF MintInv, DeleteRequest, sysVars
<1>4. "d_stop" \in Label /\ Call("d_stop", l, minted')
  <2> HIDE DEF l
  <2> QED BY <1>2, <1>3 DEF Label, Call, DeletePC, SnapPC
<1>5. Moved
  <2> HIDE DEF l
  <2> QED BY <1>1, <1>2, <1>3, <1>4, GotoStep DEF l, Typed, Moved
<1>6. TypeOK' BY <1>5 DEF DeleteRequest, TypeOK, dbVars, memVars, sysVars, Typed, Moved
<1> QED BY <1>5, <1>6 DEF Typed, Moved

\* A container the daemon could not remove is left up or down.
LEMMA TypedLame ==
    ASSUME TypeOK, NEW t \in Tunnels,
           \/ cont' = [cont EXCEPT ![t] = None]
           \/ cont' = cont
           \/ cont[t] # None /\ cont' = [cont EXCEPT ![t].up = FALSE]
    PROVE  cont' \in [Tunnels -> Container \cup {None}]
<1>1. CASE cont' = [cont EXCEPT ![t] = None] \/ cont' = cont
  BY <1>1 DEF TypeOK
<1>2. CASE cont[t] # None /\ cont' = [cont EXCEPT ![t].up = FALSE]
  <2>1. cont[t] \in Container BY <1>2 DEF TypeOK
  <2>2. [cont[t] EXCEPT !.up = FALSE] \in Container BY <2>1 DEF Container
  <2>3. cont' = [cont EXCEPT ![t] = [cont[t] EXCEPT !.up = FALSE]] BY <1>2 DEF TypeOK
  <2> QED BY <2>2, <2>3 DEF TypeOK
<1> QED BY <1>1, <1>2

LEMMA TypedDeleteStop ==
    ASSUME Typed, NEW w \in Threads, DeleteStop(w) PROVE Typed'
<1>1. pc[w] = "d_stop" /\ minted' = minted BY DEF DeleteStop, At, sysVars
<1>2. loc[w] \in Local /\ loc[w].tid \in Tunnels /\ loc[w].op = "delete"
  BY <1>1, Here, OpAt DEF DeletePC
<1>3. (Goto(w, "x_free", loc[w]) \/ Finish(w)) /\ upsets' \in Nat
  BY DEF DeleteStop, Upset, Calm, Typed, TypeOK
<1>4. Allowed("delete", "x_free") BY DEF Allowed, FreePC
<1>5. Moved BY <1>1, <1>2, <1>3, <1>4, Move, Stop DEF SnapPC
<1>6. cont' \in [Tunnels -> Container \cup {None}]
  BY <1>2, TypedLame DEF DeleteStop, Botched, Typed
<1>7. TypeOK' BY <1>3, <1>5, <1>6 DEF DeleteStop, TypeOK, dbVars, memVars, sysVars, Typed, Moved
<1> QED BY <1>5, <1>7 DEF Typed, Moved

LEMMA TypedReleaseNodes ==
    ASSUME Typed, NEW w \in Threads, ReleaseNodes(w) PROVE Typed'
<1>1. pc[w] = "x_free" /\ minted' = minted /\ Goto(w, "x_read", loc[w])
  BY DEF ReleaseNodes, At, sysVars
<1>2. loc[w] \in Local /\ loc[w].op \in {"create", "delete"}
  BY <1>1, Here, OpAt DEF FreePC
<1>3. Allowed(loc[w].op, "x_read") BY <1>2 DEF Allowed, FreePC
<1>4. Moved BY <1>1, <1>2, <1>3, Move DEF SnapPC
<1>5. TypeOK' BY <1>4 DEF ReleaseNodes, TypeOK, memVars, sysVars, Typed, Moved
<1> QED BY <1>4, <1>5 DEF Typed, Moved

LEMMA TypedReleaseRead ==
    ASSUME Typed, NEW w \in Threads, ReleaseRead(w) PROVE Typed'
<1>1. pc[w] = "x_read" /\ minted' = minted BY DEF ReleaseRead, At, sysVars
<1>2. loc[w] \in Local /\ loc[w].tid \in Tunnels /\ loc[w].op \in {"create", "delete"}
  BY <1>1, Here, OpAt DEF FreePC
<1> DEFINE r == row[loc[w].tid]
           l == [loc[w] EXCEPT !.snap = [r EXCEPT !.granted = 0]]
<1>3. Allowed(loc[w].op, "x_row") /\ Allowed(loc[w].op, "x_zero")
  BY <1>2 DEF Allowed, FreePC
<1>4. ASSUME Goto(w, "x_row", loc[w]) PROVE Moved
  BY <1>1, <1>2, <1>3, <1>4, Move DEF SnapPC
<1>5. ASSUME r # None, Goto(w, "x_zero", l) PROVE Moved
  <2>1. r \in Row BY <1>2, <1>5 DEF Typed, TypeOK
  <2>2. [r EXCEPT !.granted = 0] \in Row BY <2>1 DEF Row
  <2>3. l \in Local /\ l.op = loc[w].op /\ l.tid = loc[w].tid /\ l.snap \in Row
    BY <1>2, <2>2 DEF Local
  <2> HIDE DEF l
  <2> QED BY <1>1, <1>3, <1>5, <2>3, Move
<1>6. Moved BY <1>4, <1>5 DEF ReleaseRead
<1>7. TypeOK' BY <1>6 DEF ReleaseRead, TypeOK, dbVars, memVars, sysVars, Typed, Moved
<1> QED BY <1>6, <1>7 DEF Typed, Moved

LEMMA TypedReleaseZero ==
    ASSUME Typed, NEW w \in Threads, ReleaseZero(w) PROVE Typed'
<1>1. pc[w] = "x_zero" /\ minted' = minted BY DEF ReleaseZero, At, sysVars
<1>2. /\ loc[w] \in Local /\ loc[w].tid \in Tunnels /\ loc[w].snap \in Row
      /\ loc[w].op \in {"create", "delete"}
  BY <1>1, Here, OpAt DEF FreePC, SnapPC
<1>3. Allowed(loc[w].op, "x_row") BY <1>2 DEF Allowed, FreePC
<1>4. Moved BY <1>1, <1>2, <1>3, Move, Stop DEF ReleaseZero, SnapPC
<1>5. TypeOK' BY <1>2, <1>4 DEF ReleaseZero, TypeOK, memVars, sysVars, Typed, Moved
<1> QED BY <1>4, <1>5 DEF Typed, Moved

LEMMA TypedDropRow ==
    ASSUME Typed, NEW w \in Threads, DropRow(w) PROVE Typed'
<1>1. pc[w] = "x_row" /\ minted' = minted BY DEF DropRow, At, sysVars
<1>2. loc[w] \in Local BY <1>1, Here
<1>3. Allowed("delete", "d_forget") BY DEF Allowed, DeletePC
<1>4. Moved BY <1>1, <1>2, <1>3, Move, Stop DEF DropRow, SnapPC
<1>5. TypeOK' BY <1>4 DEF DropRow, TypeOK, memVars, sysVars, Typed, Moved
<1> QED BY <1>4, <1>5 DEF Typed, Moved

LEMMA TypedForgetTunnel ==
    ASSUME Typed, NEW w \in Threads, ForgetTunnel(w) PROVE Typed'
<1>1. pc[w] = "d_forget" /\ minted' = minted BY DEF ForgetTunnel, At
<1>2. loc[w].tid \in Tunnels BY <1>1, Here
<1>3. Moved BY <1>1, Stop DEF ForgetTunnel
<1>4. [n \in Nodes |-> 0] \in [Nodes -> 0 .. MaxMisses - 1] BY EngineAssumption
<1>5. TypeOK'
  BY <1>1, <1>2, <1>3, <1>4 DEF ForgetTunnel, TypeOK, dbVars, Typed, Moved
<1> QED BY <1>3, <1>5 DEF Typed, Moved

\* A call begins: the thread gets its tunnel id from a row or from the queue.
LEMMA Begin ==
    ASSUME Typed, NEW w \in Threads, NEW t \in minted, NEW b \in BOOLEAN,
           Goto(w, "h_enter", [NoLocal EXCEPT !.op = "health", !.tid = t, !.stale = b]),
           minted' = minted
    PROVE  Moved
<1> DEFINE l == [NoLocal EXCEPT !.op = "health", !.tid = t, !.stale = b]
<1>1. t \in Tunnels BY DEF Typed, TypeOK
<1>2. l \in Local /\ l.op = "health" /\ l.tid = t BY <1>1 DEF Local, NoLocal
<1>3. "h_enter" \in Label /\ Call("h_enter", l, minted')
  <2> HIDE DEF l
  <2> QED BY <1>2 DEF Label, Call, SnapPC
<1> HIDE DEF l
<1> QED BY <1>2, <1>3, GotoStep DEF l, Typed, Moved

LEMMA TypedRenewRequest ==
    ASSUME Typed, MintInv, NEW w \in Threads, RenewRequest(w) PROVE Typed'
<1>1. PICK t \in Tunnels :
        /\ row[t] # None
        /\ Goto(w, "h_enter", [NoLocal EXCEPT !.op = "health", !.tid = t,
                                  !.stale = (row[t].state = "starting")])
  BY DEF RenewRequest
<1>2. t \in minted /\ minted' = minted BY <1>1 DEF MintInv, RenewRequest, sysVars
<1>3. Moved BY <1>1, <1>2, Begin
<1>4. TypeOK' BY <1>3 DEF RenewRequest, TypeOK, dbVars, memVars, sysVars, Typed, Moved
<1> QED BY <1>3, <1>4 DEF Typed, Moved

LEMMA TypedLoop ==
    ASSUME Typed, MintInv, LoadTunnels \/ LoopNext PROVE Typed'
<1>1. CASE LoadTunnels
  BY <1>1 DEF LoadTunnels, Typed, TypeOK, CallInv, dbVars, sysVars
<1>2. CASE LoopNext
  <2>1. PICK q \in queue :
          /\ queue' = queue \ {q}
          /\ Goto(Loop, "h_enter",
                  [NoLocal EXCEPT !.op = "health", !.tid = q[1], !.stale = q[2]])
    BY <1>2 DEF LoopNext
  <2>2. q[1] \in minted /\ q[2] \in BOOLEAN /\ minted' = minted /\ Loop \in Threads
    BY <1>2 DEF MintInv, Typed, TypeOK, LoopNext, sysVars, Threads
  <2>3. Moved BY <2>1, <2>2, Begin
  <2>4. TypeOK' BY <1>2, <2>1, <2>3 DEF LoopNext, TypeOK, dbVars, sysVars, Typed, Moved
  <2> QED BY <2>3, <2>4 DEF Typed, Moved
<1> QED BY <1>1, <1>2

LEMMA TypedEnterPass ==
    ASSUME Typed, NEW w \in Threads, EnterPass(w) PROVE Typed'
<1>1. pc[w] = "h_enter" /\ minted' = minted BY DEF EnterPass, At, sysVars
<1>2. loc[w] \in Local /\ loc[w].tid \in Tunnels /\ loc[w].op = "health"
  BY <1>1, Here, OpAt
<1>3. Allowed("health", "h_exit") /\ Allowed("health", "h_assigned")
  BY DEF Allowed, PassPC
<1>4. Moved BY <1>1, <1>2, <1>3, Move, Stop DEF EnterPass, SnapPC
<1>5. TypeOK' BY <1>2, <1>4 DEF EnterPass, TypeOK, dbVars, sysVars, Typed, Moved
<1> QED BY <1>4, <1>5 DEF Typed, Moved

LEMMA TypedReadAssigned ==
    ASSUME Typed, NEW w \in Threads, ReadAssigned(w) PROVE Typed'
<1>1. pc[w] = "h_assigned" /\ minted' = minted BY DEF ReadAssigned, At, sysVars
<1>2. loc[w] \in Local /\ loc[w].op = "health"
  BY <1>1, Here, OpAt DEF PassPC
<1> DEFINE l == [loc[w] EXCEPT !.nodes = Owned(loc[w].tid)]
<1>3. l \in Local /\ l.op = "health" /\ l.tid = loc[w].tid
  BY <1>2 DEF Local, Owned
<1>4. Allowed("health", "h_verdict") /\ Allowed("health", "h_probe")
  BY DEF Allowed, PassPC
<1>5. Goto(w, "h_verdict", l) \/ Goto(w, "h_probe", l) BY DEF ReadAssigned
<1>6. Moved
  <2> HIDE DEF l
  <2> QED BY <1>1, <1>2, <1>3, <1>4, <1>5, Move DEF SnapPC
<1>7. TypeOK' BY <1>6 DEF ReadAssigned, TypeOK, dbVars, memVars, sysVars, Typed, Moved
<1> QED BY <1>6, <1>7 DEF Typed, Moved

LEMMA TypedProbeAssigned ==
    ASSUME Typed, NEW w \in Threads, ProbeAssigned(w) PROVE Typed'
<1>1. pc[w] = "h_probe" /\ minted' = minted BY DEF ProbeAssigned, At, sysVars
<1>2. loc[w] \in Local /\ loc[w].op = "health" /\ loc[w].nodes \in SUBSET Nodes
  BY <1>1, Here, OpAt DEF PassPC, Local
<1>3. PICK ok \in SUBSET loc[w].nodes :
        /\ alive' = (alive \ loc[w].nodes) \cup ok
        /\ Goto(w, "h_verdict", [loc[w] EXCEPT !.ok = ok])
  BY DEF ProbeAssigned
<1> DEFINE l == [loc[w] EXCEPT !.ok = ok]
<1>4. l \in Local /\ l.op = "health" /\ l.tid = loc[w].tid
  BY <1>2 DEF Local
<1>5. Allowed("health", "h_verdict") BY DEF Allowed, PassPC
<1>6. Moved
  <2> HIDE DEF l
  <2> QED BY <1>1, <1>2, <1>3, <1>4, <1>5, Move DEF SnapPC, l
<1>7. upsets' \in Nat BY DEF ProbeAssigned, Upset, Calm, Typed, TypeOK
<1>8. TypeOK'
  BY <1>2, <1>3, <1>6, <1>7 DEF ProbeAssigned, TypeOK, memVars, sysVars, Typed, Moved
<1> QED BY <1>6, <1>8 DEF Typed, Moved

LEMMA TypedVerdicts ==
    ASSUME Typed, NEW w \in Threads, Verdicts(w) PROVE Typed'
<1>1. pc[w] = "h_verdict" /\ minted' = minted BY DEF Verdicts, At, sysVars
<1>2. /\ loc[w] \in Local /\ loc[w].op = "health" /\ loc[w].tid \in Tunnels
      /\ loc[w].nodes \in SUBSET Nodes
  BY <1>1, Here, OpAt DEF PassPC, Local
<1> DEFINE t == loc[w].tid
           failed == loc[w].nodes \ loc[w].ok
           out == StruckOut(w)
           l == [loc[w] EXCEPT !.nodes = out, !.ok = {}, !.changed = out # {}]
<1>3. l \in Local /\ l.op = "health" /\ l.tid = loc[w].tid
  BY <1>2 DEF Local, StruckOut
<1>4. Allowed("health", "h_exit") /\ Allowed("health", "h_swap")
  BY DEF Allowed, PassPC, CritPC
<1>5. Goto(w, "h_exit", loc[w]) \/ Goto(w, "h_swap", l) BY DEF Verdicts
<1>6. Moved
  <2> HIDE DEF l
  <2> QED BY <1>1, <1>2, <1>3, <1>4, <1>5, Move DEF SnapPC
<1>7. strikes' \in [Tunnels -> [Nodes -> 0 .. MaxMisses - 1]]
  <2> DEFINE s == [n \in Nodes |-> IF n \in failed \ out THEN strikes[t][n] + 1
                                  ELSE IF n \in loc[w].nodes THEN 0
                                  ELSE strikes[t][n]]
  <2>1. strikes[t] \in [Nodes -> 0 .. MaxMisses - 1] BY <1>2 DEF Typed, TypeOK
  <2>2. ASSUME NEW n \in Nodes PROVE s[n] \in 0 .. MaxMisses - 1
    <3>1. strikes[t][n] \in 0 .. MaxMisses - 1 BY <2>1
    <3>2. n \in failed \ out => ~(strikes[t][n] + 1 >= MaxMisses) BY DEF StruckOut
    <3> HIDE DEF failed, out, t
    <3> QED BY <3>1, <3>2, EngineAssumption
  <2>3. s \in [Nodes -> 0 .. MaxMisses - 1] BY <2>2
  <2>4. strikes' = strikes \/ strikes' = [strikes EXCEPT ![t] = s] BY DEF Verdicts
  <2> HIDE DEF s
  <2> QED BY <2>3, <2>4 DEF Typed, TypeOK
<1>8. lock' \in Threads \cup {None} BY DEF Verdicts, Typed, TypeOK
<1>9. TypeOK'
  BY <1>6, <1>7, <1>8 DEF Verdicts, TypeOK, dbVars, sysVars, Typed, Moved
<1> QED BY <1>6, <1>9 DEF Typed, Moved

LEMMA TypedSwapOut ==
    ASSUME Typed, NEW w \in Threads, SwapOut(w) PROVE Typed'
<1>1. pc[w] = "h_swap" /\ minted' = minted BY DEF SwapOut, At, sysVars
<1>2. loc[w] \in Local /\ loc[w].op = "health"
  BY <1>1, Here, OpAt DEF PassPC, CritPC
<1>3. Allowed("health", "h_topup") /\ Allowed("health", "h_drop_read")
  BY DEF Allowed, PassPC, CritPC
<1>4. ASSUME NEW n, Goto(w, "h_drop_read", [loc[w] EXCEPT !.nodes = @ \ {n}])
      PROVE  Moved
  <2> DEFINE l == [loc[w] EXCEPT !.nodes = @ \ {n}]
  <2>1. l \in Local /\ l.op = "health" /\ l.tid = loc[w].tid BY <1>2 DEF Local
  <2> HIDE DEF l
  <2> QED BY <1>1, <1>2, <1>3, <1>4, <2>1, Move DEF SnapPC, l
<1>5. ASSUME Goto(w, "h_topup", loc[w]) PROVE Moved
  BY <1>1, <1>2, <1>3, <1>5, Move DEF SnapPC
<1>6. Moved BY <1>4, <1>5 DEF SwapOut
<1>7. owner' \in [Nodes -> Tunnels \cup {None}] BY DEF SwapOut, Typed, TypeOK
<1>8. TypeOK' BY <1>6, <1>7 DEF SwapOut, TypeOK, memVars, sysVars, Typed, Moved
<1> QED BY <1>6, <1>8 DEF Typed, Moved

\* Both halves of _bump_granted, wherever in the pass it runs.
LEMMA TypedBumpRead ==
    ASSUME Typed, NEW w \in Threads, NEW here \in CritPC, NEW save \in CritPC,
           NEW skip \in CritPC \ SnapPC, NEW delta \in Int,
           BumpRead(w, here, save, skip, delta)
    PROVE  Typed'
<1>1. pc[w] = here /\ minted' = minted /\ pc[w] \in CritPC /\ pc[w] # "idle"
  BY DEF BumpRead, At, sysVars, CritPC
<1>2. loc[w] \in Local /\ loc[w].op = "health" /\ loc[w].tid \in Tunnels
  BY <1>1, Here, OpAt DEF PassPC
<1> DEFINE r == row[loc[w].tid]
           s == [r EXCEPT !.granted = IF @ + delta > 0 THEN @ + delta ELSE 0,
                          !.state = "running"]
           l == [loc[w] EXCEPT !.snap = s]
<1>3. Allowed("health", save) /\ Allowed("health", skip)
  BY DEF Allowed, PassPC
<1>4. ASSUME r # None, Goto(w, save, l) PROVE Moved
  <2>1. r \in Row BY <1>2, <1>4 DEF Typed, TypeOK
  <2>2. s \in Row
    <3>1. r.granted \in Nat BY <2>1 DEF Row
    <3>2. (IF r.granted + delta > 0 THEN r.granted + delta ELSE 0) \in Nat BY <3>1
    <3>3. ASSUME NEW g \in Nat
          PROVE  [r EXCEPT !.granted = g, !.state = "running"] \in Row
      BY <2>1 DEF Row
    <3> QED BY <3>2, <3>3
  <2>3. l \in Local /\ l.op = "health" /\ l.tid = loc[w].tid /\ l.snap \in Row
    BY <1>2, <2>2 DEF Local
  <2> HIDE DEF l
  <2> QED BY <1>1, <1>2, <1>3, <1>4, <2>3, Move
<1>5. ASSUME Goto(w, skip, loc[w]) PROVE Moved
  BY <1>1, <1>2, <1>3, <1>5, Move
<1>6. Moved BY <1>4, <1>5 DEF BumpRead
<1>7. TypeOK' BY <1>6 DEF BumpRead, TypeOK, dbVars, memVars, sysVars, Typed, Moved
<1> QED BY <1>6, <1>7 DEF Typed, Moved

LEMMA TypedBumpSave ==
    ASSUME Typed, NEW w \in Threads, NEW here \in {"h_drop_save", "h_add_save"},
           NEW next \in CritPC \ SnapPC, BumpSave(w, here, next)
    PROVE  Typed'
<1>1. pc[w] = here /\ minted' = minted /\ pc[w] # "idle" /\ here \in PassPC /\ here \in SnapPC
  BY DEF BumpSave, At, sysVars, PassPC, CritPC, SnapPC
<1>2. /\ loc[w] \in Local /\ loc[w].op = "health" /\ loc[w].tid \in Tunnels
      /\ loc[w].snap \in Row
  BY <1>1, Here, OpAt
<1>3. Allowed("health", next) /\ Allowed("health", "h_exit")
  BY DEF Allowed, PassPC
<1>4. Goto(w, next, loc[w]) \/ Goto(w, "h_exit", loc[w]) BY DEF BumpSave
<1>5. Moved BY <1>1, <1>2, <1>3, <1>4, Move DEF SnapPC
<1>6. lock' \in Threads \cup {None} /\ row' \in [Tunnels -> Row \cup {None}]
  BY <1>2 DEF BumpSave, Typed, TypeOK
<1>7. TypeOK' BY <1>5, <1>6 DEF BumpSave, TypeOK, sysVars, Typed, Moved
<1> QED BY <1>5, <1>7 DEF Typed, Moved

LEMMA TypedDrop ==
    ASSUME Typed, NEW w \in Threads, DropRead(w) \/ DropSave(w) PROVE Typed'
<1>1. CASE DropRead(w)
  <2>1. {"h_drop_read", "h_drop_save"} \subseteq CritPC /\ "h_swap" \in CritPC \ SnapPC
    BY DEF CritPC, SnapPC
  <2> QED BY <1>1, <2>1, TypedBumpRead DEF DropRead
<1>2. CASE DropSave(w)
  <2>1. "h_swap" \in CritPC \ SnapPC BY DEF CritPC, SnapPC
  <2> QED BY <1>2, <2>1, TypedBumpSave DEF DropSave
<1> QED BY <1>1, <1>2

LEMMA TypedTopUpPick ==
    ASSUME Typed, NEW w \in Threads, TopUpPick(w) PROVE Typed'
<1>1. pc[w] = "h_topup" /\ minted' = minted BY DEF TopUpPick, At, sysVars
<1>2. loc[w] \in Local /\ loc[w].op = "health"
  BY <1>1, Here, OpAt DEF PassPC, CritPC
<1>3. Allowed("health", "h_leave") /\ Allowed("health", "h_assign")
  BY DEF Allowed, PassPC, CritPC
<1>4. ASSUME NEW k, NEW P \in BestOf(k), NEW label \in {"h_leave", "h_assign"},
             Goto(w, label, [loc[w] EXCEPT !.nodes = P])
      PROVE  Moved
  <2> DEFINE l == [loc[w] EXCEPT !.nodes = P]
  <2>1. P \in SUBSET Nodes BY PickOK DEF Typed
  <2>2. l \in Local /\ l.op = "health" /\ l.tid = loc[w].tid BY <1>2, <2>1 DEF Local
  <2> HIDE DEF l
  <2> QED BY <1>1, <1>2, <1>3, <1>4, <2>2, Move DEF SnapPC, l
<1>5. ASSUME Goto(w, "h_leave", loc[w]) PROVE Moved
  BY <1>1, <1>2, <1>3, <1>5, Move DEF SnapPC
<1>6. Moved BY <1>4, <1>5 DEF TopUpPick
<1>7. TypeOK' BY <1>6 DEF TopUpPick, TypeOK, dbVars, memVars, sysVars, Typed, Moved
<1> QED BY <1>6, <1>7 DEF Typed, Moved

LEMMA TypedTopUpAssign ==
    ASSUME Typed, NEW w \in Threads, TopUpAssign(w) PROVE Typed'
<1>1. pc[w] = "h_assign" /\ minted' = minted BY DEF TopUpAssign, At, sysVars
<1>2. loc[w] \in Local /\ loc[w].op = "health" /\ loc[w].tid \in Tunnels
  BY <1>1, Here, OpAt DEF PassPC, CritPC
<1> DEFINE l == [loc[w] EXCEPT !.changed = TRUE]
<1>3. l \in Local /\ l.op = "health" /\ l.tid = loc[w].tid BY <1>2 DEF Local
<1>4. Allowed("health", "h_add_read") BY DEF Allowed, PassPC, CritPC
<1>5. Goto(w, "h_add_read", l) BY DEF TopUpAssign
<1>6. Moved
  <2> HIDE DEF l
  <2> QED BY <1>1, <1>2, <1>3, <1>4, <1>5, Move DEF SnapPC
<1>7. owner' \in [Nodes -> Tunnels \cup {None}] BY <1>2 DEF TopUpAssign, Typed, TypeOK
<1>8. TypeOK' BY <1>6, <1>7 DEF TopUpAssign, TypeOK, memVars, sysVars, Typed, Moved
<1> QED BY <1>6, <1>8 DEF Typed, Moved

LEMMA TypedAdd ==
    ASSUME Typed, NEW w \in Threads, AddRead(w) \/ AddSave(w) PROVE Typed'
<1>1. CASE AddRead(w)
  <2>1. {"h_add_read", "h_add_save"} \subseteq CritPC /\ "h_leave" \in CritPC \ SnapPC
    BY DEF CritPC, SnapPC
  <2>2. pc[w] = "h_add_read" BY <1>1 DEF AddRead, BumpRead, At
  <2>3. loc[w].nodes \subseteq Nodes BY <2>2, Here DEF Local
  <2>4. Cardinality(loc[w].nodes) \in Int
    BY <2>3, FS_Subset, FS_CardinalityType, EngineAssumption
  <2> QED BY <1>1, <2>1, <2>4, TypedBumpRead DEF AddRead
<1>2. CASE AddSave(w)
  <2>1. "h_leave" \in CritPC \ SnapPC BY DEF CritPC, SnapPC
  <2> QED BY <1>2, <2>1, TypedBumpSave DEF AddSave
<1> QED BY <1>1, <1>2

LEMMA TypedLeaveLock ==
    ASSUME Typed, NEW w \in Threads, LeaveLock(w) PROVE Typed'
<1>1. pc[w] = "h_leave" /\ minted' = minted BY DEF LeaveLock, At, sysVars
<1>2. loc[w] \in Local /\ loc[w].op = "health" /\ loc[w].tid \in Tunnels
  BY <1>1, Here, OpAt DEF PassPC, CritPC
<1> DEFINE l == [loc[w] EXCEPT !.nodes = {}, !.snap = None]
<1>3. l \in Local /\ l.op = "health" /\ l.tid = loc[w].tid BY <1>2 DEF Local
<1>4. Allowed("health", "r_plan") /\ Allowed("health", "h_heal")
  BY DEF Allowed, PassPC, RollPC
<1>5. Goto(w, "r_plan", l) \/ Goto(w, "h_heal", l) BY DEF LeaveLock
<1>6. Moved
  <2> HIDE DEF l
  <2> QED BY <1>1, <1>2, <1>3, <1>4, <1>5, Move DEF SnapPC
<1>7. pending' \in SUBSET Tunnels /\ lock' = None BY <1>2 DEF LeaveLock, Typed, TypeOK
<1>8. TypeOK' BY <1>6, <1>7 DEF LeaveLock, TypeOK, dbVars, sysVars, Typed, Moved
<1> QED BY <1>6, <1>8 DEF Typed, Moved

LEMMA TypedAfterRoll ==
    ASSUME Typed, NEW w \in Threads, pc[w] \in RollPC, minted' = minted,
           AfterRoll(w, loc[w])
    PROVE  Moved
<1>1. pc[w] # "idle" /\ pc[w] \in PassPC BY DEF RollPC, PassPC
<1>2. loc[w] \in Local /\ loc[w].op = "health" BY <1>1, Here, OpAt
<1>3. Allowed("health", "h_exit") /\ Allowed("health", "h_heal")
  BY DEF Allowed, PassPC
<1> QED BY <1>1, <1>2, <1>3, Move DEF AfterRoll, SnapPC

LEMMA TypedPlanRoll ==
    ASSUME Typed, NEW w \in Threads, PlanRoll(w) PROVE Typed'
<1>1. pc[w] = "r_plan" /\ minted' = minted /\ pc[w] \in RollPC
  BY DEF PlanRoll, At, sysVars, RollPC
<1>2. loc[w] \in Local /\ loc[w].op = "health" /\ loc[w].tid \in Tunnels
  BY <1>1, Here, OpAt DEF PassPC
<1> DEFINE t == loc[w].tid
           l == [loc[w] EXCEPT !.nodes = Owned(t) \cap alive, !.snap = row[t]]
<1>3. Allowed("health", "h_exit") /\ Allowed("health", "r_remove")
  BY DEF Allowed, PassPC, RollPC
<1>4. ASSUME Live(t), Goto(w, "r_remove", l) PROVE Moved
  <2>1. row[t] \in Row BY <1>2, <1>4 DEF Live, Typed, TypeOK
  <2>2. l \in Local /\ l.op = "health" /\ l.tid = loc[w].tid /\ l.snap \in Row
    BY <1>2, <2>1 DEF Local, Owned
  <2> HIDE DEF l
  <2> QED BY <1>1, <1>2, <1>3, <1>4, <2>2, Move
<1>5. ASSUME Goto(w, "h_exit", loc[w]) PROVE Moved
  BY <1>1, <1>2, <1>3, <1>5, Move DEF SnapPC
<1>6. Moved BY <1>1, <1>4, <1>5, TypedAfterRoll DEF PlanRoll
<1>7. pending' \in SUBSET Tunnels /\ upsets' \in Nat
  BY <1>2 DEF PlanRoll, Upset, Calm, Typed, TypeOK
<1>8. TypeOK' BY <1>6, <1>7 DEF PlanRoll, TypeOK, dbVars, sysVars, Typed, Moved
<1> QED BY <1>6, <1>8 DEF Typed, Moved

LEMMA TypedRollRemove ==
    ASSUME Typed, NEW w \in Threads, RollRemove(w) PROVE Typed'
<1>1. pc[w] = "r_remove" /\ minted' = minted /\ pc[w] \in RollPC
  BY DEF RollRemove, At, sysVars, RollPC
<1>2. /\ loc[w] \in Local /\ loc[w].op = "health" /\ loc[w].tid \in Tunnels
      /\ loc[w].snap \in Row
  BY <1>1, Here, OpAt DEF PassPC, SnapPC
<1>3. Allowed("health", "h_exit") /\ Allowed("health", "r_run")
  BY DEF Allowed, PassPC, RollPC
<1>4. ASSUME NEW label \in {"h_exit", "r_run"}, Goto(w, label, loc[w]) PROVE Moved
  BY <1>1, <1>2, <1>3, <1>4, Move
<1>5. /\ Goto(w, "h_exit", loc[w]) \/ Goto(w, "r_run", loc[w]) \/ AfterRoll(w, loc[w])
      /\ upsets' \in Nat
  BY DEF RollRemove, Upset, Calm, Typed, TypeOK
<1>6. Moved BY <1>1, <1>4, <1>5, TypedAfterRoll
<1>7. cont' \in [Tunnels -> Container \cup {None}]
  BY <1>2, TypedLame DEF RollRemove, Botched, Typed
<1>8. TypeOK'
  BY <1>5, <1>6, <1>7 DEF RollRemove, TypeOK, dbVars, memVars, sysVars, Typed, Moved
<1> QED BY <1>6, <1>8 DEF Typed, Moved

LEMMA TypedRollRun ==
    ASSUME Typed, NEW w \in Threads, RollRun(w) PROVE Typed'
<1>1. pc[w] = "r_run" /\ minted' = minted /\ pc[w] \in RollPC
  BY DEF RollRun, At, sysVars, RollPC
<1>2. /\ loc[w] \in Local /\ loc[w].op = "health" /\ loc[w].tid \in Tunnels
      /\ loc[w].nodes \in SUBSET Nodes /\ loc[w].snap.port \in Ports
  BY <1>1, Here, OpAt DEF PassPC, SnapPC, Local, Row
<1>3. Allowed("health", "r_done") /\ Allowed("health", "h_exit") BY DEF Allowed, PassPC, RollPC
<1>4. /\ Goto(w, "r_done", loc[w]) \/ Goto(w, "h_exit", loc[w]) \/ AfterRoll(w, loc[w])
      /\ upsets' \in Nat
  BY DEF RollRun, Run, Upset, Calm, Typed, TypeOK
<1>5. ASSUME NEW label \in {"r_done", "h_exit"}, Goto(w, label, loc[w]) PROVE Moved
  BY <1>1, <1>2, <1>3, <1>5, Move DEF SnapPC
<1>6. Moved BY <1>1, <1>4, <1>5, TypedAfterRoll
<1>7. \/ cont' = cont
      \/ \E b \in BOOLEAN : cont' = [cont EXCEPT ![loc[w].tid] =
           [up |-> b, cfg |-> loc[w].nodes, port |-> loc[w].snap.port]]
  BY DEF RollRun, Run
<1>8. cont' \in [Tunnels -> Container \cup {None}] BY <1>2, <1>7, TypedRun DEF Typed
<1>9. TypeOK'
  BY <1>4, <1>6, <1>8 DEF RollRun, TypeOK, dbVars, memVars, sysVars, Typed, Moved
<1> QED BY <1>6, <1>9 DEF Typed, Moved

LEMMA TypedRollDone ==
    ASSUME Typed, NEW w \in Threads, RollDone(w) PROVE Typed'
<1>1. pc[w] = "r_done" /\ minted' = minted /\ pc[w] \in RollPC
  BY DEF RollDone, At, sysVars, RollPC
<1>2. loc[w].nodes \in SUBSET Nodes /\ loc[w].tid \in Tunnels
  BY <1>1, Here DEF Local, RollPC
<1>3. Moved BY <1>1, TypedAfterRoll DEF RollDone
<1>4. TypeOK' BY <1>2, <1>3 DEF RollDone, TypeOK, dbVars, sysVars, Typed, Moved
<1> QED BY <1>3, <1>4 DEF Typed, Moved

LEMMA TypedSelfHeal ==
    ASSUME Typed, NEW w \in Threads, SelfHeal(w) \/ SelfHealBlind(w) PROVE Typed'
<1>1. pc[w] = "h_heal" /\ minted' = minted
  BY DEF SelfHeal, SelfHealBlind, At, sysVars
<1>2. loc[w] \in Local /\ loc[w].op = "health"
  BY <1>1, Here, OpAt DEF PassPC
<1> DEFINE l == [loc[w] EXCEPT !.force = TRUE]
<1>3. l \in Local /\ l.op = "health" /\ l.tid = loc[w].tid BY <1>2 DEF Local
<1>4. Allowed("health", "r_plan") /\ Allowed("health", "h_exit")
  BY DEF Allowed, PassPC, RollPC
<1>5. Goto(w, "r_plan", l) \/ Goto(w, "h_exit", loc[w]) BY DEF SelfHeal, SelfHealBlind
<1>6. Moved
  <2> HIDE DEF l
  <2> QED BY <1>1, <1>2, <1>3, <1>4, <1>5, Move DEF SnapPC
<1>7. upsets' \in Nat BY DEF SelfHeal, SelfHealBlind, Upset, Typed, TypeOK
<1>8. UNCHANGED <<dbVars, cont, memVars, sysVars>> BY DEF SelfHeal, SelfHealBlind
<1>9. TypeOK' BY <1>6, <1>7, <1>8 DEF TypeOK, dbVars, memVars, sysVars, Typed, Moved
<1> QED BY <1>6, <1>9 DEF Typed, Moved

LEMMA TypedExitPass ==
    ASSUME Typed, NEW w \in Threads, ExitPass(w) PROVE Typed'
<1>1. minted' = minted BY DEF ExitPass, sysVars
<1>2. Moved BY <1>1, Stop DEF ExitPass
<1>3. TypeOK' BY <1>2 DEF ExitPass, TypeOK, dbVars, sysVars, Typed, Moved
<1> QED BY <1>2, <1>3 DEF Typed, Moved

LEMMA TypedWorld ==
    ASSUME Typed, PoolVerdict \/ ContainerStops \/ Crash \/ Boot PROVE Typed'
<1>1. CASE PoolVerdict
  <2>1. upsets' \in Nat BY <1>1 DEF PoolVerdict, Upset, Typed, TypeOK
  <2>2. alive' \in SUBSET Nodes BY <1>1 DEF PoolVerdict, Typed, TypeOK
  <2> QED BY <1>1, <2>1, <2>2 DEF PoolVerdict, Typed, TypeOK, CallInv, memVars, sysVars
<1>2. CASE ContainerStops
  <2>1. upsets' \in Nat BY <1>2 DEF ContainerStops, Upset, Typed, TypeOK
  <2>2. cont' \in [Tunnels -> Container \cup {None}]
    BY <1>2, TypedLame DEF ContainerStops, Typed
  <2> QED BY <1>2, <2>1, <2>2
          DEF ContainerStops, Typed, TypeOK, CallInv, dbVars, memVars, sysVars
<1>3. CASE Crash
  <2>1. CallInv' BY <1>3, NoLocalOK DEF Crash, CallInv
  <2>2. [n \in Nodes |-> 0] \in [Nodes -> 0 .. MaxMisses - 1] BY EngineAssumption
  <2>3. "idle" \in Label BY DEF Label
  <2>4. crashes' \in 0 .. MaxCrashes BY <1>3, EngineAssumption DEF Crash, Typed, TypeOK
  <2>5. TypeOK'
    BY <1>3, <2>2, <2>3, <2>4, NoLocalOK DEF Crash, Typed, TypeOK, dbVars
  <2> QED BY <2>1, <2>5 DEF Typed
<1>4. CASE BootContainers
  BY <1>4 DEF BootContainers, Typed, TypeOK, CallInv, dbVars, memVars
<1>5. CASE BootOrphans
  BY <1>5 DEF BootOrphans, Typed, TypeOK, CallInv, memVars
<1>6. CASE BootMark
  <2>1. \A r \in Row : [r EXCEPT !.state = "running"] \in Row BY DEF Row
  <2>2. row' \in [Tunnels -> Row \cup {None}]
    BY <1>6, <2>1 DEF BootMark, Typed, TypeOK
  <2> QED BY <1>6, <2>2 DEF BootMark, Typed, TypeOK, CallInv, memVars
<1> QED BY <1>1, <1>2, <1>3, <1>4, <1>5, <1>6 DEF Boot

-----------------------------------------------------------------------------
(* Ids are handed out before anything bears them *)

\* A thread inside a call writes no row and no container but its tunnel's.
Confined(w) ==
    /\ pc[w] # "idle" /\ minted' = minted /\ queue' = queue
    /\ row' = row \/ \E x : row' = [row EXCEPT ![loc[w].tid] = x]
    /\ cont' = cont \/ \E x : cont' = [cont EXCEPT ![loc[w].tid] = x]

LEMMA StepConfined ==
    ASSUME Typed, NEW w \in Threads,
           CreateStep(w) \/ DeleteStep(w) \/ PassStep(w) \/ RollStep(w)
    PROVE  Confined(w)
<1> USE DEF Confined, At, dbVars, memVars, sysVars
<1>1. CASE CreateStep(w)
  BY <1>1 DEF CreateStep, CreatePick, CreateAssign, CreateSave, CreateStart, Run,
              CreateRunning, CreateCache
<1>2. CASE DeleteStep(w)
  <2>1. CASE DeleteStop(w)
    BY <2>1 DEF DeleteStop, Botched
  <2> QED BY <1>2, <2>1 DEF DeleteStep, ReleaseNodes, ReleaseRead, ReleaseZero, DropRow,
                            ForgetTunnel
<1>3. CASE PassStep(w)
  BY <1>3 DEF PassStep, EnterPass, ReadAssigned, ProbeAssigned, Verdicts, SwapOut,
              DropRead, DropSave, BumpRead, BumpSave, TopUpPick, TopUpAssign, AddRead,
              AddSave, LeaveLock, ExitPass
<1>4. CASE RollStep(w)
  BY <1>4 DEF RollStep, PlanRoll, RollRemove, Botched, RollRun, Run, RollDone, SelfHeal, SelfHealBlind
<1> QED BY <1>1, <1>2, <1>3, <1>4

LEMMA MintStep == ASSUME Typed, MintInv, [Next]_vars PROVE MintInv'
<1> USE DEF MintInv
<1>1. ASSUME NEW w \in Threads,
             CreateStep(w) \/ DeleteStep(w) \/ PassStep(w) \/ RollStep(w)
      PROVE  MintInv'
  <2>1. Confined(w) BY <1>1, StepConfined
  <2>2. loc[w].tid \in minted BY <2>1, Here DEF Confined
  <2>3. ASSUME NEW t \in Tunnels, row'[t] # None \/ cont'[t] # None PROVE t \in minted
    BY <2>1, <2>2, <2>3 DEF Confined, Typed, TypeOK
  <2> QED BY <2>1, <2>3 DEF Confined
<1>2. ASSUME NEW w \in Threads, Request(w) PROVE MintInv'
  BY <1>2 DEF Request, CreateRequest, DeleteRequest, RenewRequest, dbVars, memVars, sysVars
<1>3. CASE LoadTunnels \/ LoopNext
  BY <1>3 DEF LoadTunnels, LoopNext, dbVars, sysVars
<1>4. CASE PoolVerdict \/ ContainerStops \/ Crash \/ Boot
  BY <1>4 DEF PoolVerdict, ContainerStops, Crash, Boot, BootContainers, BootOrphans,
              BootMark, Typed, TypeOK, dbVars, memVars, sysVars
<1>5. CASE UNCHANGED vars
  BY <1>5 DEF vars, dbVars, memVars, sysVars
<1> QED BY <1>1, <1>2, <1>3, <1>4, <1>5 DEF Next

-----------------------------------------------------------------------------

LEMMA TypedStep == ASSUME Typed, MintInv, [Next]_vars PROVE Typed'
<1>1. ASSUME NEW w \in Threads, Request(w) PROVE Typed'
  BY <1>1, TypedCreateRequest, TypedDeleteRequest, TypedRenewRequest DEF Request
<1>2. ASSUME NEW w \in Threads, CreateStep(w) PROVE Typed'
  BY <1>2, TypedCreatePick, TypedCreateAssign, TypedCreateSave, TypedCreateStart,
     TypedCreateRunning, TypedCreateCache DEF CreateStep
<1>3. ASSUME NEW w \in Threads, DeleteStep(w) PROVE Typed'
  BY <1>3, TypedDeleteStop, TypedReleaseNodes, TypedReleaseRead, TypedReleaseZero,
     TypedDropRow, TypedForgetTunnel DEF DeleteStep
<1>4. ASSUME NEW w \in Threads, PassStep(w) PROVE Typed'
  BY <1>4, TypedEnterPass, TypedReadAssigned, TypedProbeAssigned, TypedVerdicts,
     TypedSwapOut, TypedDrop, TypedTopUpPick, TypedTopUpAssign, TypedAdd, TypedLeaveLock,
     TypedExitPass DEF PassStep
<1>5. ASSUME NEW w \in Threads, RollStep(w) PROVE Typed'
  BY <1>5, TypedPlanRoll, TypedRollRemove, TypedRollRun, TypedRollDone, TypedSelfHeal
  DEF RollStep
<1>6. CASE LoadTunnels \/ LoopNext BY <1>6, TypedLoop
<1>7. CASE PoolVerdict \/ ContainerStops \/ Crash \/ Boot BY <1>7, TypedWorld
<1>8. CASE UNCHANGED vars
  BY <1>8 DEF vars, dbVars, memVars, sysVars, Typed, TypeOK, CallInv, Call, MintInv
<1> QED BY <1>1, <1>2, <1>3, <1>4, <1>5, <1>6, <1>7, <1>8 DEF Next

LEMMA TypedInit == Init => Typed /\ MintInv
<1> SUFFICES ASSUME Init PROVE Typed /\ MintInv OBVIOUS
<1>1. CallInv BY NoLocalOK DEF Init, CallInv
<1>2. [n \in Nodes |-> 0] \in [Nodes -> 0 .. MaxMisses - 1] BY EngineAssumption
<1>3. TypeOK BY <1>2, NoLocalOK, EngineAssumption DEF Init, TypeOK, Label
<1> QED BY <1>1, <1>3 DEF Init, Typed, MintInv

\* Every thread's locals fit the call it serves, and every id in use was minted.
THEOREM CallsTyped == Spec => [](Typed /\ MintInv)
<1>1. Typed /\ MintInv /\ [Next]_vars => (Typed /\ MintInv)'
  BY TypedStep, MintStep
<1> QED BY <1>1, TypedInit, PTL DEF Spec

\* Rows, containers, engine state and every thread's locals keep their types
\* through every interleaving of requests, passes, crashes and failures.  The
\* strike counters in particular stay below max_misses: a node that reaches it
\* leaves the tunnel in the same critical section.
THEOREM TypeCorrect == Spec => []TypeOK
<1>1. Typed => TypeOK BY DEF Typed
<1> QED BY <1>1, CallsTyped, PTL

-----------------------------------------------------------------------------
(* One pass per tunnel *)

\* Between taking the busy mark and dropping it.
Inside == PassPC \cup {"h_exit"}

\* The busy mark stands for exactly one pass, unless a DELETE has dropped it.
FlightInv ==
    /\ \A w \in Threads : pc[w] \in Inside => loc[w].tid \in busy \cup deleted
    /\ \A v, w \in Threads :
         v # w /\ pc[v] \in Inside /\ pc[w] \in Inside /\ loc[v].tid = loc[w].tid
           => loc[v].tid \in deleted

\* A thread's step leaves the other threads where they are, and keeps its own
\* call and tunnel until it is idle.
Alone(w) ==
    /\ \A v \in Threads \ {w} : pc'[v] = pc[v] /\ loc'[v] = loc[v]
    /\ \/ pc'[w] = "idle" /\ loc'[w] = NoLocal
       \/ /\ loc'[w].tid = loc[w].tid /\ loc'[w].op = loc[w].op
          /\ loc'[w].stale = loc[w].stale

LEMMA GotoAlone ==
    ASSUME Typed, NEW w \in Threads, NEW label, NEW l, Goto(w, label, l),
           \/ label = "idle" /\ l = NoLocal
           \/ l.tid = loc[w].tid /\ l.op = loc[w].op /\ l.stale = loc[w].stale
    PROVE  Alone(w) /\ pc'[w] = label /\ loc'[w] = l
BY DEF Goto, Alone, Typed, TypeOK

LEMMA StepAlone ==
    ASSUME Typed, NEW w \in Threads,
           CreateStep(w) \/ DeleteStep(w) \/ PassStep(w) \/ RollStep(w)
    PROVE  Alone(w)
<1> USE GotoAlone DEF Finish
<1> loc[w] \in Local BY DEF Typed, TypeOK
<1>1. CASE CreateStep(w)
  <2>1. CASE CreatePick(w) BY <2>1 DEF CreatePick, Local
  <2> QED BY <1>1, <2>1 DEF CreateStep, CreateAssign, CreateSave, CreateStart, Run,
                            CreateRunning, CreateCache
<1>2. CASE DeleteStep(w)
  <2>1. CASE ReleaseRead(w) BY <2>1 DEF ReleaseRead, Local
  <2>2. CASE DeleteStop(w) BY <2>2 DEF DeleteStop
  <2> QED BY <1>2, <2>1, <2>2 DEF DeleteStep, ReleaseNodes, ReleaseZero, DropRow, ForgetTunnel
<1>3. CASE PassStep(w)
  <2>1. CASE ReadAssigned(w) BY <2>1 DEF ReadAssigned, Local
  <2>2. CASE ProbeAssigned(w) BY <2>2 DEF ProbeAssigned, Local
  <2>3. CASE Verdicts(w) BY <2>3 DEF Verdicts, Local
  <2>4. CASE SwapOut(w) BY <2>4 DEF SwapOut, Local
  <2>5. CASE DropRead(w) \/ AddRead(w) BY <2>5 DEF DropRead, AddRead, BumpRead, Local
  <2>6. CASE TopUpPick(w) BY <2>6 DEF TopUpPick, Local
  <2>7. CASE TopUpAssign(w) BY <2>7 DEF TopUpAssign, Local
  <2>8. CASE LeaveLock(w) BY <2>8 DEF LeaveLock, Local
  <2>9. CASE DropSave(w) \/ AddSave(w) BY <2>9 DEF DropSave, AddSave, BumpSave
  <2>10. CASE EnterPass(w) \/ ExitPass(w) BY <2>10 DEF EnterPass, ExitPass
  <2> QED BY <1>3, <2>1, <2>2, <2>3, <2>4, <2>5, <2>6, <2>7, <2>8, <2>9, <2>10 DEF PassStep
<1>4. CASE RollStep(w)
  <2>1. CASE PlanRoll(w) BY <2>1 DEF PlanRoll, AfterRoll, Local
  <2>2. CASE SelfHeal(w) \/ SelfHealBlind(w) BY <2>2 DEF SelfHeal, SelfHealBlind, Local
  <2>3. CASE RollRemove(w) BY <2>3 DEF RollRemove, AfterRoll
  <2>4. CASE RollRun(w) \/ RollDone(w) BY <2>4 DEF RollRun, Run, RollDone, AfterRoll
  <2> QED BY <1>4, <2>1, <2>2, <2>3, <2>4 DEF RollStep
<1> QED BY <1>1, <1>2, <1>3, <1>4

\* A step that marks nobody and enters nowhere.
LEMMA FlightKeep ==
    ASSUME Typed, FlightInv, NEW w \in Threads, Alone(w),
           busy' = busy, deleted' = deleted,
           pc'[w] \in Inside => pc[w] \in Inside
    PROVE  FlightInv'
<1>1. "idle" \notin Inside BY DEF Inside, PassPC, CritPC, RollPC
<1>2. ASSUME NEW v \in Threads, pc'[v] \in Inside
      PROVE  pc[v] \in Inside /\ loc'[v].tid = loc[v].tid
  BY <1>1, <1>2 DEF Alone
<1> QED BY <1>2 DEF FlightInv

LEMMA FlightEnter ==
    ASSUME Typed, FlightInv, NEW w \in Threads, EnterPass(w), Alone(w) PROVE FlightInv'
<1> DEFINE t == loc[w].tid
<1>1. pc[w] = "h_enter" /\ deleted' = deleted BY DEF EnterPass, At, sysVars
<1>2. pc[w] \notin Inside BY <1>1 DEF Inside, PassPC, CritPC, RollPC
<1>3. CASE t \in busy
  <2>1. pc'[w] = "idle" /\ busy' = busy
    BY <1>3, GotoAlone DEF EnterPass, Finish
  <2>2. pc'[w] \notin Inside BY <2>1 DEF Inside, PassPC, CritPC, RollPC
  <2> QED BY <1>1, <2>1, <2>2, FlightKeep
<1>4. CASE t \notin busy
  <2>1. busy' = busy \cup {t} /\ loc'[w].tid = t
    BY <1>4, GotoAlone DEF EnterPass
  <2>2. ASSUME NEW v \in Threads, pc'[v] \in Inside PROVE loc'[v].tid \in busy' \cup deleted'
    BY <1>1, <2>1, <2>2 DEF FlightInv, Alone
  <2>3. ASSUME NEW v \in Threads \ {w}, pc'[v] \in Inside, loc'[v].tid = t
        PROVE  t \in deleted
    BY <1>4, <2>3 DEF FlightInv, Alone
  <2> QED BY <1>1, <2>1, <2>2, <2>3 DEF FlightInv, Alone
<1> QED BY <1>3, <1>4

LEMMA FlightLeave ==
    ASSUME Typed, FlightInv, NEW w \in Threads, ExitPass(w) \/ ForgetTunnel(w), Alone(w)
    PROVE  FlightInv'
<1> DEFINE t == loc[w].tid
<1>1. pc'[w] = "idle" BY GotoAlone DEF ExitPass, ForgetTunnel, Finish
<1>2. pc'[w] \notin Inside BY <1>1 DEF Inside, PassPC, CritPC, RollPC
<1>3. ASSUME NEW v \in Threads, pc'[v] \in Inside
      PROVE  v # w /\ pc[v] \in Inside /\ loc'[v] = loc[v]
  BY <1>2, <1>3 DEF Alone
<1>4. CASE ExitPass(w)
  <2>1. pc[w] \in Inside /\ busy' = busy \ {t} /\ deleted' = deleted
    BY <1>4 DEF ExitPass, At, sysVars, Inside
  <2> QED BY <1>3, <2>1 DEF FlightInv
<1>5. CASE ForgetTunnel(w)
  <2>1. busy' = busy \ {t} /\ deleted' = deleted \cup {t} BY <1>5 DEF ForgetTunnel
  <2> QED BY <1>3, <2>1 DEF FlightInv
<1> QED BY <1>4, <1>5

LEMMA FlightStep == ASSUME Typed, Typed', FlightInv, [Next]_vars PROVE FlightInv'
<1>1. "idle" \notin Inside /\ "h_enter" \notin Inside /\ "c_pick" \notin Inside /\ "d_stop" \notin Inside
  BY DEF Inside, PassPC, CritPC, RollPC
<1>2. ASSUME NEW w \in Threads, CreateStep(w) \/ DeleteStep(w), ~ForgetTunnel(w)
      PROVE  FlightInv'
  <2>1. Alone(w) BY <1>2, StepAlone
  <2>2. pc[w] \in CreatePC \cup FreePC \cup DeletePC
    BY <1>2 DEF CreateStep, CreatePick, CreateAssign, CreateSave, CreateStart, CreateRunning,
                CreateCache, DeleteStep, DeleteStop, ReleaseNodes, ReleaseRead, ReleaseZero,
                DropRow, ForgetTunnel, At, CreatePC, FreePC, DeletePC
  <2>3. loc[w].op \in {"create", "delete"} BY <2>2, OpAt
  <2>4. pc'[w] \notin Inside
    <3>1. CASE pc'[w] = "idle" BY <3>1, <1>1
    <3>2. CASE loc'[w].op \in {"create", "delete"}
      <4>1. pc'[w] \in CreatePC \cup FreePC \cup DeletePC
        BY <3>2 DEF Typed, CallInv, Call
      <4> QED BY <4>1 DEF Inside, PassPC, CritPC, RollPC, CreatePC, FreePC, DeletePC
    <3> QED BY <2>1, <2>3, <3>1, <3>2 DEF Alone
  <2>5. busy' = busy /\ deleted' = deleted
    BY <1>2 DEF CreateStep, CreatePick, CreateAssign, CreateSave, CreateStart, CreateRunning,
                CreateCache, DeleteStep, DeleteStop, ReleaseNodes, ReleaseRead, ReleaseZero,
                DropRow, memVars, sysVars
  <2> QED BY <2>1, <2>4, <2>5, FlightKeep
<1>3. ASSUME NEW w \in Threads, PassStep(w) \/ RollStep(w), ~EnterPass(w), ~ExitPass(w)
      PROVE  FlightInv'
  <2>1. Alone(w) BY <1>3, StepAlone
  <2>2. pc[w] \in PassPC
    BY <1>3 DEF PassStep, EnterPass, ReadAssigned, ProbeAssigned, Verdicts, SwapOut,
                DropRead, DropSave, BumpRead, BumpSave, TopUpPick, TopUpAssign, AddRead,
                AddSave, LeaveLock, RollStep, PlanRoll, RollRemove, RollRun, RollDone,
                SelfHeal, SelfHealBlind, At, PassPC, CritPC, RollPC
  <2>3. busy' = busy /\ deleted' = deleted
    BY <1>3 DEF PassStep, EnterPass, ReadAssigned, ProbeAssigned, Verdicts, SwapOut,
                DropRead, DropSave, BumpRead, BumpSave, TopUpPick, TopUpAssign, AddRead,
                AddSave, LeaveLock, RollStep, PlanRoll, RollRemove, RollRun, RollDone,
                SelfHeal, SelfHealBlind, memVars, sysVars
  <2> QED BY <2>1, <2>2, <2>3, FlightKeep DEF Inside
<1>4. ASSUME NEW w \in Threads, EnterPass(w) PROVE FlightInv'
  BY <1>4, StepAlone, FlightEnter DEF PassStep
<1>5. ASSUME NEW w \in Threads, ExitPass(w) \/ ForgetTunnel(w) PROVE FlightInv'
  BY <1>5, StepAlone, FlightLeave DEF PassStep, DeleteStep
<1>6. ASSUME NEW w \in Threads, NEW label \in {"c_pick", "d_stop", "h_enter"},
             pc' = [pc EXCEPT ![w] = label], NEW l, loc' = [loc EXCEPT ![w] = l],
             busy' = busy, deleted' = deleted
      PROVE  FlightInv'
  <2>1. ASSUME NEW v \in Threads, pc'[v] \in Inside
        PROVE  pc[v] \in Inside /\ loc'[v] = loc[v]
    BY <1>1, <1>6, <2>1 DEF Typed, TypeOK
  <2> QED BY <1>6, <2>1 DEF FlightInv
<1>7. ASSUME NEW w \in Threads, Request(w) PROVE FlightInv'
  BY <1>6, <1>7 DEF Request, CreateRequest, DeleteRequest, RenewRequest, Goto, memVars, sysVars
<1>8. CASE LoopNext
  <2>1. Loop \in Threads BY DEF Threads
  <2> QED BY <1>6, <1>8, <2>1 DEF LoopNext, Goto, sysVars
<1>9. CASE LoadTunnels \/ PoolVerdict \/ ContainerStops \/ Boot \/ UNCHANGED vars
  <2>1. /\ busy' = busy /\ deleted' = deleted
        /\ pc' = pc /\ loc' = loc
    BY <1>9 DEF LoadTunnels, PoolVerdict, ContainerStops, Boot, BootContainers, BootOrphans,
                BootMark, vars, dbVars, memVars, sysVars
  <2> QED BY <2>1 DEF FlightInv
<1>10. CASE Crash
  <2>1. \A w \in Threads : pc'[w] \notin Inside BY <1>1, <1>10 DEF Crash
  <2> QED BY <2>1 DEF FlightInv
<1> QED BY <1>2, <1>3, <1>4, <1>5, <1>7, <1>8, <1>9, <1>10 DEF Next

\* The scheduler's loop and POST /tunnels/<id>/renew never run two passes over
\* one tunnel at a time, for any number of request threads: the busy set does
\* its work except when DELETE has dropped the mark under a running pass.
THEOREM OnePassPerTunnel == Spec => []SingleFlight
<1>1. Init => FlightInv
  BY DEF Init, FlightInv, Inside, PassPC, CritPC, RollPC
<1>2. Typed /\ MintInv /\ (Typed /\ MintInv)' /\ FlightInv /\ [Next]_vars => FlightInv'
  BY FlightStep
<1>3. FlightInv => SingleFlight BY DEF FlightInv, SingleFlight, Inside
<1> QED BY <1>1, <1>2, <1>3, CallsTyped, PTL DEF Spec

-----------------------------------------------------------------------------
(* A tunnel under construction belongs to its creator *)

NamePC == {"c_pick", "c_assign", "c_save", "c_start"}

\* What another thread may be doing with a tunnel that is still "starting".
Beside(v) ==
    \/ loc[v].op = "delete" /\ (pc[v] = "x_zero" => loc[v].snap.state = "starting")
    \/ loc[v].op = "health" /\ loc[v].stale /\ pc[v] \in {"h_enter", "h_exit"}

Sole(w) ==
    LET t == loc[w].tid IN
    /\ row[t] # None => row[t].state = "starting"
    /\ pc[w] \in NamePC \cup {"c_running", "x_zero"} => loc[w].snap.state = "starting"
    /\ pc[w] \in NamePC => cont[t] = None
    /\ \A v \in Threads \ {w} : loc[v].tid = t => Beside(v)
    /\ \A q \in queue : q[1] = t => q[2]

\* Nobody but the creator writes the row as long as it is "starting", nobody
\* takes the container name, and every pass handed the tunnel by then, or still
\* queued for it, knows that it must keep out.
CreatorInv == \A w \in Threads : Creating(w) => Sole(w)

BootIdle == boot # "up" => \A w \in Threads : pc[w] = "idle"

\* The creator's own step.
LEMMA SoleOwnStep ==
    ASSUME Typed, Typed', CreatorInv, NEW w \in Threads,
           CreateStep(w) \/ DeleteStep(w), Creating(w)'
    PROVE  Sole(w)'
<1> DEFINE t == loc[w].tid
<1>1. Alone(w) /\ Confined(w) BY StepAlone, StepConfined
<1>2. pc'[w] # "idle" /\ loc'[w].tid = t /\ loc[w].op = "create" /\ loc'[w].op = "create"
  <2>1. loc'[w].op = "create" BY DEF Creating
  <2>2. loc'[w] # NoLocal BY <2>1 DEF NoLocal
  <2>3. pc'[w] # "idle" BY <2>1, <2>2 DEF Typed, CallInv, Call
  <2> QED BY <1>1, <2>1, <2>3 DEF Alone
<1>3. pc[w] # "c_cache"
  <2>1. pc[w] = "c_cache" => CreateCache(w)
    BY DEF CreateStep, CreatePick, CreateAssign, CreateSave, CreateStart, CreateRunning,
           DeleteStep, DeleteStop, ReleaseNodes, ReleaseRead, ReleaseZero, DropRow,
           ForgetTunnel, At
  <2>2. CreateCache(w) => pc'[w] = "idle" BY GotoAlone DEF CreateCache, Finish
  <2> QED BY <1>2, <2>1, <2>2
<1>4. Sole(w) /\ pc[w] # "idle" BY <1>1, <1>2, <1>3 DEF CreatorInv, Creating, Confined
<1>5. /\ loc[w] \in Local /\ t \in Tunnels
      /\ pc[w] \in SnapPC => loc[w].snap \in Row
  BY <1>4, Here
<1>6. /\ \A v \in Threads \ {w} : loc'[v].tid = t => Beside(v)'
      /\ \A q \in queue' : q[1] = t => q[2]
  BY <1>1, <1>4 DEF Sole, Beside, Alone, Confined
<1>7. CASE CreatePick(w)
  <2>1. PICK P \in BestOf(loc[w].snap.req), label \in {"c_save", "c_assign"} :
          Goto(w, label, [loc[w] EXCEPT !.nodes = P, !.snap.granted = Cardinality(P)])
    BY <1>7 DEF CreatePick
  <2>2. pc[w] = "c_pick" /\ row' = row /\ cont' = cont
    BY <1>7 DEF CreatePick, At, dbVars
  <2>3. loc[w].snap \in Row BY <1>5, <2>2 DEF SnapPC
  <2>4. loc'[w].snap.state = loc[w].snap.state
    BY <1>5, <2>1, <2>3 DEF Goto, Typed, TypeOK, Local, Row
  <2> QED BY <1>2, <1>4, <1>6, <2>2, <2>4 DEF Sole, NamePC
<1>8. CASE CreateAssign(w)
  <2>1. pc[w] = "c_assign" /\ row' = row /\ cont' = cont /\ loc'[w] = loc[w]
    BY <1>8, GotoAlone, <1>2 DEF CreateAssign, At, Goto, Typed, TypeOK
  <2> QED BY <1>2, <1>4, <1>6, <2>1 DEF Sole, NamePC
<1>9. CASE CreateSave(w)
  <2>1. pc[w] = "c_save" /\ cont' = cont /\ loc'[w] = loc[w]
    BY <1>2, <1>9 DEF CreateSave, At, Goto, Finish, Typed, TypeOK
  <2>2. row'[t] = row[t] \/ row'[t] = loc[w].snap
    BY <1>5, <1>9 DEF CreateSave, Typed, TypeOK
  <2> QED BY <1>2, <1>4, <1>6, <2>1, <2>2 DEF Sole, NamePC
<1>10. CASE CreateStart(w)
  <2>1. pc[w] = "c_start" /\ row' = row /\ loc'[w] = loc[w] /\ pc'[w] \in {"c_running", "x_free"}
    BY <1>2, <1>10 DEF CreateStart, Run, At, Goto, Finish, Typed, TypeOK, dbVars
  <2> QED BY <1>2, <1>4, <1>6, <2>1 DEF Sole, NamePC
<1>11. CASE CreateRunning(w)
  <2>1. pc'[w] \in {"c_cache", "idle"}
    BY <1>11 DEF CreateRunning, Goto, Finish, Typed, TypeOK
  <2> QED BY <1>2, <2>1 DEF Creating
<1>12. CASE DeleteStop(w) \/ ForgetTunnel(w)
  <2>1. pc[w] \in DeletePC BY <1>12 DEF DeleteStop, ForgetTunnel, At, DeletePC
  <2> QED BY <1>2, <2>1, OpAt
<1>13. CASE ReleaseNodes(w)
  <2>1. pc'[w] = "x_read" /\ row' = row
    BY <1>13 DEF ReleaseNodes, Goto, Typed, TypeOK
  <2> QED BY <1>2, <1>4, <1>6, <2>1 DEF Sole, NamePC
<1>14. CASE ReleaseRead(w)
  <2>1. row' = row /\ pc'[w] \in {"x_row", "x_zero"}
    BY <1>14 DEF ReleaseRead, Goto, Typed, TypeOK, dbVars
  <2>2. ASSUME pc'[w] = "x_zero" PROVE loc'[w].snap.state = "starting"
    <3>1. /\ row[t] # None
          /\ loc'[w] = [loc[w] EXCEPT !.snap = [row[t] EXCEPT !.granted = 0]]
      BY <1>14, <2>2 DEF ReleaseRead, Goto, Typed, TypeOK
    <3>2. row[t] \in Row /\ row[t].state = "starting"
      BY <1>4, <1>5, <3>1 DEF Sole, Typed, TypeOK
    <3> QED BY <1>5, <3>1, <3>2 DEF Local, Row
  <2> QED BY <1>2, <1>4, <1>6, <2>1, <2>2 DEF Sole, NamePC
<1>15. CASE ReleaseZero(w)
  <2>1. pc[w] = "x_zero" /\ pc'[w] = "x_row"
    BY <1>2, <1>15 DEF ReleaseZero, At, Goto, Finish, Typed, TypeOK
  <2>2. row'[t] = row[t] \/ row'[t] = loc[w].snap
    BY <1>5, <1>15 DEF ReleaseZero, Typed, TypeOK
  <2> QED BY <1>2, <1>4, <1>6, <2>1, <2>2 DEF Sole, NamePC
<1>16. CASE DropRow(w)
  <2>1. pc'[w] \in {"d_forget", "idle"} /\ row'[t] = None
    BY <1>5, <1>16 DEF DropRow, Goto, Finish, Typed, TypeOK
  <2> QED BY <1>2, <1>4, <1>6, <2>1 DEF Sole, NamePC
<1>17. CASE CreateCache(w)
  <2>1. pc[w] = "c_cache" BY <1>17 DEF CreateCache, At
  <2> QED BY <1>3, <2>1
<1> QED
  BY <1>7, <1>8, <1>9, <1>10, <1>11, <1>12, <1>13, <1>14, <1>15, <1>16, <1>17
  DEF CreateStep, DeleteStep

\* A step of another thread that is inside a call.
LEMMA SoleOtherStep ==
    ASSUME Typed, Typed', CreatorInv, NEW w \in Threads, NEW v \in Threads \ {w},
           CreateStep(v) \/ DeleteStep(v) \/ PassStep(v) \/ RollStep(v), Creating(w)'
    PROVE  Sole(w)'
<1> DEFINE t == loc[w].tid
<1>1. Alone(v) /\ Confined(v) BY StepAlone, StepConfined
<1>2. pc'[w] = pc[w] /\ loc'[w] = loc[w] /\ Sole(w)
  BY <1>1 DEF Alone, Creating, CreatorInv
<1>3. loc[w].op = "create" BY <1>2 DEF Creating
<1>4. t \in Tunnels
  <2>1. pc[w] # "idle" BY <1>3 DEF Typed, CallInv, Call, NoLocal
  <2> QED BY <2>1, Here
<1>5. ASSUME NEW u \in Threads \ {w, v}, loc'[u].tid = t PROVE Beside(u)'
  BY <1>1, <1>2, <1>5 DEF Alone, Sole, Beside
<1>6. \A q \in queue' : q[1] = t => q[2] BY <1>1, <1>2 DEF Confined, Sole
<1>7. CASE loc[v].tid # t
  <2>1. loc'[v].tid # t
    <3>1. NoLocal.tid # t BY <1>4, EngineAssumption DEF NoLocal
    <3> QED BY <1>1, <1>7, <3>1 DEF Alone
  <2>2. row'[t] = row[t] /\ cont'[t] = cont[t]
    BY <1>1, <1>4, <1>7 DEF Confined, Typed, TypeOK
  <2> QED BY <1>2, <1>5, <1>6, <2>1, <2>2 DEF Sole
<1>8. CASE loc[v].tid = t
  <2>1. Beside(v) BY <1>2, <1>8 DEF Sole
  <2>2. CASE loc[v].op = "health"
    <3>1. loc[v].stale /\ pc[v] \in {"h_enter", "h_exit"} BY <2>1, <2>2 DEF Beside
    <3>2. EnterPass(v) \/ ExitPass(v)
      BY <3>1 DEF CreateStep, CreatePick, CreateAssign, CreateSave, CreateStart, CreateRunning,
             CreateCache, DeleteStep, DeleteStop, ReleaseNodes, ReleaseRead, ReleaseZero,
             DropRow, ForgetTunnel, PassStep, ReadAssigned, ProbeAssigned, Verdicts, SwapOut,
             DropRead, DropSave, BumpRead, BumpSave, TopUpPick, TopUpAssign, AddRead,
             AddSave, LeaveLock, RollStep, PlanRoll, RollRemove, RollRun, RollDone,
             SelfHeal, SelfHealBlind, At
    <3>3. row' = row /\ cont' = cont BY <3>2 DEF EnterPass, ExitPass, dbVars
    <3>4. loc'[v].tid = t => Beside(v)'
      <4>1. pc'[v] \in {"idle", "h_exit"}
        BY <3>1, <3>2 DEF EnterPass, ExitPass, Goto, Finish, Typed, TypeOK
      <4>2. CASE pc'[v] = "idle"
        <5>1. loc'[v] = NoLocal BY <4>2 DEF Typed, CallInv, Call
        <5> QED BY <1>4, <5>1, EngineAssumption DEF NoLocal
      <4>3. CASE pc'[v] = "h_exit"
        <5>1. loc'[v].op = "health" /\ loc'[v].stale
          BY <1>1, <2>2, <3>1, <4>3 DEF Alone
        <5> QED BY <4>3, <5>1 DEF Beside
      <4> QED BY <4>1, <4>2, <4>3
    <3> QED BY <1>2, <1>5, <1>6, <3>3, <3>4 DEF Sole
  <2>3. CASE loc[v].op = "delete"
    <3>1. pc[v] # "idle" BY <2>3 DEF Typed, CallInv, Call, NoLocal
    <3>2. loc[v] \in Local /\ (pc[v] \in SnapPC => loc[v].snap \in Row) BY <3>1, Here
    <3>3. pc[v] \in DeletePC \cup FreePC BY <2>3 DEF Typed, CallInv, Call
    <3>4. DeleteStep(v)
      BY <3>3 DEF CreateStep, CreatePick, CreateAssign, CreateSave, CreateStart, CreateRunning,
             CreateCache, PassStep, EnterPass, ReadAssigned, ProbeAssigned, Verdicts, SwapOut,
             DropRead, DropSave, BumpRead, BumpSave, TopUpPick, TopUpAssign, AddRead,
             AddSave, LeaveLock, ExitPass, RollStep, PlanRoll, RollRemove, RollRun, RollDone,
             SelfHeal, SelfHealBlind, At, DeletePC, FreePC
    <3>5. ASSUME cont[t] = None PROVE cont'[t] = None
      <4>1. CASE DeleteStop(v)
        BY <1>4, <1>8, <3>5, <4>1 DEF DeleteStop, Botched, Typed, TypeOK
      <4> QED BY <3>4, <3>5, <4>1
              DEF DeleteStep, ReleaseNodes, ReleaseRead, ReleaseZero, DropRow, ForgetTunnel, dbVars
    <3>6. row'[t] # None => row'[t].state = "starting"
      <4>1. CASE ReleaseZero(v)
        <5>1. pc[v] = "x_zero" BY <4>1 DEF ReleaseZero, At
        <5>2. row'[t] = row[t] \/ row'[t] = loc[v].snap
          BY <1>4, <1>8, <4>1 DEF ReleaseZero, Typed, TypeOK
        <5>3. loc[v].snap.state = "starting" BY <2>1, <2>3, <5>1 DEF Beside
        <5> QED BY <1>2, <5>2, <5>3 DEF Sole
      <4>2. CASE DropRow(v)
        BY <1>4, <1>8, <4>2 DEF DropRow, Typed, TypeOK
      <4>3. CASE ~ReleaseZero(v) /\ ~DropRow(v)
        <5>1. row' = row
          BY <3>4, <4>3 DEF DeleteStep, DeleteStop, ReleaseNodes, ReleaseRead, ForgetTunnel, dbVars
        <5> QED BY <1>2, <5>1 DEF Sole
      <4> QED BY <4>1, <4>2, <4>3
    <3>7. loc'[v].tid = t => Beside(v)'
      <4>1. CASE pc'[v] = "idle"
        <5>1. loc'[v] = NoLocal BY <4>1 DEF Typed, CallInv, Call
        <5> QED BY <1>4, <5>1, EngineAssumption DEF NoLocal
      <4>2. CASE pc'[v] # "idle"
        <5>1. loc'[v].op = "delete" BY <1>1, <2>3, <4>2 DEF Alone
        <5>2. ASSUME pc'[v] = "x_zero" PROVE loc'[v].snap.state = "starting"
          <6>1. ReleaseRead(v)
            BY <3>4, <5>2, GotoAlone DEF DeleteStep, DeleteStop, ReleaseNodes, ReleaseZero,
               DropRow, ForgetTunnel, Finish
          <6>2. /\ row[t] # None
                /\ loc'[v] = [loc[v] EXCEPT !.snap = [row[t] EXCEPT !.granted = 0]]
            BY <1>8, <5>2, <6>1 DEF ReleaseRead, Goto, Typed, TypeOK
          <6>3. row[t] \in Row /\ row[t].state = "starting"
            BY <1>2, <1>4, <6>2 DEF Sole, Typed, TypeOK
          <6> QED BY <3>2, <6>2, <6>3 DEF Local, Row
        <5> QED BY <5>1, <5>2 DEF Beside
      <4> QED BY <4>1, <4>2
    <3> QED BY <1>2, <1>5, <1>6, <3>5, <3>6, <3>7 DEF Sole
  <2> QED BY <2>1, <2>2, <2>3 DEF Beside
<1> QED BY <1>7, <1>8

\* A request thread takes on a call.
LEMMA SoleRequest ==
    ASSUME Typed, Typed', MintInv, CreatorInv, NEW w \in Threads, NEW v \in Threads,
           Request(v), Creating(w)'
    PROVE  Sole(w)'
<1>1. /\ cont' = cont /\ row' = row /\ queue' = queue /\ pc[v] = "idle"
      /\ \A u \in Threads \ {v} : pc'[u] = pc[u] /\ loc'[u] = loc[u]
  BY DEF Request, CreateRequest, DeleteRequest, RenewRequest, Goto, At, Typed, TypeOK,
         dbVars, memVars
<1>2. ASSUME NEW u \in Threads
      PROVE  loc[u].tid \in minted \cup {None}
  <2>1. CASE pc[u] = "idle" BY <2>1 DEF Typed, CallInv, Call, NoLocal
  <2>2. CASE pc[u] # "idle" BY <2>2, Here
  <2> QED BY <2>1, <2>2
<1>3. CASE CreateRequest(v)
  <2>1. PICK t \in Tunnels \ minted, k \in Requests, p \in Ports :
          Goto(v, "c_pick",
                [NoLocal EXCEPT !.op = "create", !.tid = t,
                    !.snap = [state |-> "starting", port |-> p, req |-> k, granted |-> 0]])
    BY <1>3 DEF CreateRequest
  <2>2. /\ pc'[v] = "c_pick" /\ loc'[v].tid = t /\ loc'[v].op = "create"
        /\ loc'[v].snap.state = "starting"
    BY <2>1 DEF Goto, NoLocal, Typed, TypeOK
  <2>3. t # None BY <2>1, EngineAssumption
  <2>4. CASE w = v
    <3>1. \A u \in Threads \ {w} : loc'[u].tid # t BY <1>1, <1>2, <2>1, <2>3, <2>4
    <3>2. row[t] = None /\ cont[t] = None /\ \A q \in queue : q[1] # t
      BY <2>1 DEF MintInv
    <3> QED BY <1>1, <2>2, <2>4, <3>1, <3>2 DEF Sole
  <2>5. CASE w # v
    <3>1. Creating(w) /\ Sole(w) /\ loc'[w] = loc[w] /\ pc'[w] = pc[w]
      BY <1>1, <2>5 DEF Creating, CreatorInv
    <3>2. loc'[v].tid # loc[w].tid BY <1>2, <2>1, <2>2, <2>3
    <3> QED BY <1>1, <3>1, <3>2 DEF Sole, Beside
  <2> QED BY <2>4, <2>5
<1>4. CASE DeleteRequest(v) \/ RenewRequest(v)
  <2>1. PICK t \in Tunnels :
          /\ row[t] # None
          /\ \/ Goto(v, "d_stop", [NoLocal EXCEPT !.op = "delete", !.tid = t])
             \/ Goto(v, "h_enter", [NoLocal EXCEPT !.op = "health", !.tid = t,
                                       !.stale = (row[t].state = "starting")])
    BY <1>4 DEF DeleteRequest, RenewRequest
  <2>2. /\ loc'[v].tid = t
        /\ \/ pc'[v] = "d_stop" /\ loc'[v].op = "delete"
           \/ /\ pc'[v] = "h_enter" /\ loc'[v].op = "health"
              /\ loc'[v].stale = (row[t].state = "starting")
    <3>1. CASE Goto(v, "d_stop", [NoLocal EXCEPT !.op = "delete", !.tid = t])
      BY <3>1 DEF Goto, NoLocal, Typed, TypeOK
    <3>2. ASSUME NEW b \in BOOLEAN,
                 Goto(v, "h_enter", [NoLocal EXCEPT !.op = "health", !.tid = t, !.stale = b])
          PROVE  /\ loc'[v].tid = t /\ loc'[v].op = "health" /\ loc'[v].stale = b
                 /\ pc'[v] = "h_enter"
      BY <3>2 DEF Goto, NoLocal, Typed, TypeOK
    <3> QED BY <2>1, <3>1, <3>2
  <2>3. w # v BY <2>2 DEF Creating
  <2>4. Creating(w) /\ Sole(w) /\ loc'[w] = loc[w] /\ pc'[w] = pc[w]
    BY <1>1, <2>3 DEF Creating, CreatorInv
  <2>5. loc'[v].tid = loc[w].tid => Beside(v)' BY <2>1, <2>2, <2>4 DEF Sole, Beside
  <2> QED BY <1>1, <2>4, <2>5 DEF Sole, Beside
<1> QED BY <1>3, <1>4 DEF Request

\* The health loop takes its list of tunnels, and the next one from it.
LEMMA SoleLoop ==
    ASSUME Typed, Typed', CreatorInv, NEW w \in Threads,
           LoadTunnels \/ LoopNext, Creating(w)'
    PROVE  Sole(w)'
<1>1. row' = row /\ cont' = cont BY DEF LoadTunnels, LoopNext, dbVars
<1>2. CASE LoadTunnels
  <2>1. /\ pc' = pc /\ loc' = loc
        /\ \A q \in queue' : row[q[1]] # None /\ q[2] = (row[q[1]].state = "starting")
    BY <1>2 DEF LoadTunnels
  <2>2. Sole(w) BY <2>1 DEF Creating, CreatorInv
  <2> QED BY <1>1, <2>1, <2>2 DEF Sole, Beside
<1>3. CASE LoopNext
  <2>1. PICK q \in queue :
          /\ queue' = queue \ {q}
          /\ Goto(Loop, "h_enter",
                  [NoLocal EXCEPT !.op = "health", !.tid = q[1], !.stale = q[2]])
    BY <1>3 DEF LoopNext
  <2>2. /\ Loop \in Threads /\ pc'[Loop] = "h_enter" /\ loc'[Loop].op = "health"
        /\ loc'[Loop].tid = q[1] /\ loc'[Loop].stale = q[2]
        /\ \A u \in Threads \ {Loop} : pc'[u] = pc[u] /\ loc'[u] = loc[u]
    BY <2>1 DEF Threads, Goto, NoLocal, Typed, TypeOK
  <2>3. w # Loop BY <2>2 DEF Creating
  <2>4. Sole(w) /\ loc'[w] = loc[w] /\ pc'[w] = pc[w]
    BY <2>2, <2>3 DEF Creating, CreatorInv
  <2>5. loc'[Loop].tid = loc[w].tid => Beside(Loop)' BY <2>1, <2>2, <2>4 DEF Sole, Beside
  <2> QED BY <1>1, <2>1, <2>2, <2>4, <2>5 DEF Sole, Beside
<1> QED BY <1>2, <1>3

LEMMA SoleWorld ==
    ASSUME Typed, CreatorInv, BootIdle, NEW w \in Threads,
           PoolVerdict \/ ContainerStops \/ Crash \/ Boot \/ UNCHANGED vars, Creating(w)'
    PROVE  Sole(w)'
<1>1. CASE Crash
  BY <1>1 DEF Crash, Creating, NoLocal
<1>2. CASE Boot
  <2>1. pc'[w] = pc[w] /\ loc'[w] = loc[w] /\ boot # "up"
    BY <1>2 DEF Boot, BootContainers, BootOrphans, BootMark
  <2>2. loc[w].op = "none" BY <2>1 DEF BootIdle, Typed, CallInv, Call, NoLocal
  <2> QED BY <2>1, <2>2 DEF Creating
<1>3. CASE PoolVerdict \/ ContainerStops \/ UNCHANGED vars
  <2>1. pc' = pc /\ loc' = loc /\ row' = row /\ queue' = queue
    BY <1>3 DEF PoolVerdict, ContainerStops, vars, dbVars, memVars
  <2>2. \A t \in Tunnels : cont[t] = None => cont'[t] = None
    BY <1>3 DEF PoolVerdict, ContainerStops, vars, Typed, TypeOK
  <2>3. Sole(w) BY <2>1 DEF Creating, CreatorInv
  <2>4. loc[w].tid \in Tunnels
    <3>1. pc[w] # "idle" BY <2>1 DEF Creating, Typed, CallInv, Call, NoLocal
    <3> QED BY <3>1, Here
  <2> QED BY <2>1, <2>2, <2>3, <2>4 DEF Sole, Beside
<1> QED BY <1>1, <1>2, <1>3

LEMMA BootIdleStep == ASSUME Typed, BootIdle, [Next]_vars PROVE BootIdle'
<1>1. ASSUME NEW w \in Threads,
             Request(w) \/ CreateStep(w) \/ DeleteStep(w) \/ PassStep(w) \/ RollStep(w)
      PROVE  boot' = "up"
  BY <1>1 DEF Request, CreateRequest, DeleteRequest, RenewRequest, CreateStep, CreatePick,
     CreateAssign, CreateSave, CreateStart, CreateRunning, CreateCache, DeleteStep,
     DeleteStop, ReleaseNodes, ReleaseRead, ReleaseZero, DropRow, ForgetTunnel, PassStep,
     EnterPass, ReadAssigned, ProbeAssigned, Verdicts, SwapOut, DropRead, DropSave, BumpRead,
     BumpSave, TopUpPick, TopUpAssign, AddRead, AddSave, LeaveLock, ExitPass, RollStep,
     PlanRoll, RollRemove, RollRun, RollDone, SelfHeal, SelfHealBlind, At, sysVars
<1>2. CASE LoadTunnels \/ LoopNext
  BY <1>2 DEF LoadTunnels, LoopNext, At, sysVars, BootIdle
<1>3. CASE PoolVerdict \/ ContainerStops \/ Boot \/ UNCHANGED vars
  <2>1. pc' = pc /\ (boot' # "up" => boot # "up")
    BY <1>3 DEF PoolVerdict, ContainerStops, Boot, BootContainers, BootOrphans, BootMark,
                vars, sysVars
  <2> QED BY <2>1 DEF BootIdle
<1>4. CASE Crash
  BY <1>4 DEF Crash, BootIdle
<1> QED BY <1>1, <1>2, <1>3, <1>4 DEF Next, BootIdle

LEMMA CreatorStep ==
    ASSUME Typed, Typed', MintInv, CreatorInv, BootIdle, [Next]_vars
    PROVE  CreatorInv'
<1> SUFFICES ASSUME NEW w \in Threads, Creating(w)' PROVE Sole(w)'
  BY DEF CreatorInv
<1>1. ASSUME NEW v \in Threads,
             CreateStep(v) \/ DeleteStep(v) \/ PassStep(v) \/ RollStep(v)
      PROVE  Sole(w)'
  <2>1. CASE v # w BY <1>1, <2>1, SoleOtherStep
  <2>2. CASE v = w /\ (CreateStep(w) \/ DeleteStep(w)) BY <2>2, SoleOwnStep
  <2>3. CASE v = w /\ (PassStep(w) \/ RollStep(w))
    <3>1. Alone(w) BY <2>3, StepAlone
    <3>2. pc[w] \in PassPC \cup {"h_enter", "h_exit"}
      BY <2>3 DEF PassStep, EnterPass, ReadAssigned, ProbeAssigned, Verdicts, SwapOut,
                DropRead, DropSave, BumpRead, BumpSave, TopUpPick, TopUpAssign, AddRead,
                AddSave, LeaveLock, ExitPass, RollStep, PlanRoll, RollRemove, RollRun,
                RollDone, SelfHeal, SelfHealBlind, At, PassPC, CritPC, RollPC
    <3>3. loc[w].op = "health" BY <3>2, OpAt
    <3> QED BY <3>1, <3>3 DEF Alone, Creating, NoLocal
  <2> QED BY <1>1, <2>1, <2>2, <2>3
<1>2. ASSUME NEW v \in Threads, Request(v) PROVE Sole(w)'
  BY <1>2, SoleRequest
<1>3. CASE LoadTunnels \/ LoopNext BY <1>3, SoleLoop
<1>4. CASE PoolVerdict \/ ContainerStops \/ Crash \/ Boot \/ UNCHANGED vars
  BY <1>4, SoleWorld
<1> QED BY <1>1, <1>2, <1>3, <1>4 DEF Next

\* While POST /tunnels is building a tunnel no health pass probes it, swaps its
\* nodes or rolls its container, and the name it starts the container under is
\* free, whatever DELETE, renew, crashes and container failures do around it.
THEOREM CreatorWorksAlone == Spec => []CreatorAlone
<1>1. Init => CreatorInv /\ BootIdle
  BY DEF Init, CreatorInv, BootIdle, Creating, NoLocal
<1>2. Typed /\ MintInv /\ (Typed /\ MintInv)' /\ CreatorInv /\ BootIdle /\ [Next]_vars
        => (CreatorInv /\ BootIdle)'
  BY CreatorStep, BootIdleStep
<1>3. Typed /\ CreatorInv => CreatorAlone
  <2> SUFFICES ASSUME Typed, CreatorInv, NEW w \in Threads, Creating(w)
               PROVE  /\ pc[w] = "c_start" => cont[loc[w].tid] = None
                      /\ \A v \in Threads \ {w} :
                            loc[v].tid = loc[w].tid => pc[v] \notin PassPC
    BY DEF CreatorAlone
  <2>1. Sole(w) BY DEF CreatorInv
  <2>2. ASSUME NEW v \in Threads \ {w}, loc[v].tid = loc[w].tid PROVE pc[v] \notin PassPC
    <3>1. Beside(v) BY <2>1, <2>2 DEF Sole
    <3>2. CASE loc[v].op = "delete"
      BY <2>2, <3>2, OpAt
    <3>3. CASE pc[v] \in {"h_enter", "h_exit"}
      BY <3>3 DEF PassPC, CritPC, RollPC
    <3> QED BY <3>1, <3>2, <3>3 DEF Beside
  <2> QED BY <2>1, <2>2 DEF Sole, NamePC
<1> QED BY <1>1, <1>2, <1>3, CallsTyped, PTL DEF Spec

-----------------------------------------------------------------------------
(* Boot reconciliation *)

Standing == \A n \in Nodes : owner[n] # None => row[owner[n]] # None

\* What the second step of Engine.reconcile leaves to the third.
MarkInv == boot = "mark" => Standing

LEMMA MarkStep == ASSUME Typed, MarkInv, [Next]_vars PROVE MarkInv'
<1>1. ASSUME NEW w \in Threads,
             Request(w) \/ CreateStep(w) \/ DeleteStep(w) \/ PassStep(w) \/ RollStep(w)
      PROVE  boot' = "up"
  BY <1>1 DEF Request, CreateRequest, DeleteRequest, RenewRequest, CreateStep, CreatePick,
     CreateAssign, CreateSave, CreateStart, CreateRunning, CreateCache, DeleteStep,
     DeleteStop, ReleaseNodes, ReleaseRead, ReleaseZero, DropRow, ForgetTunnel, PassStep,
     EnterPass, ReadAssigned, ProbeAssigned, Verdicts, SwapOut, DropRead, DropSave, BumpRead,
     BumpSave, TopUpPick, TopUpAssign, AddRead, AddSave, LeaveLock, ExitPass, RollStep,
     PlanRoll, RollRemove, RollRun, RollDone, SelfHeal, SelfHealBlind, At, sysVars
<1>2. CASE BootOrphans
  <2>1. ASSUME NEW n \in Nodes, owner'[n] # None PROVE row'[owner'[n]] # None
    BY <1>2, <2>1 DEF BootOrphans, Typed, TypeOK
  <2> QED BY <2>1 DEF MarkInv, Standing
<1>3. CASE LoadTunnels \/ LoopNext \/ PoolVerdict \/ ContainerStops \/ UNCHANGED vars
  BY <1>3 DEF LoadTunnels, LoopNext, PoolVerdict, ContainerStops, vars, dbVars, sysVars,
              MarkInv, Standing
<1>4. CASE Crash \/ BootContainers \/ BootMark
  BY <1>4 DEF Crash, BootContainers, BootMark, MarkInv
<1> QED BY <1>1, <1>2, <1>3, <1>4 DEF Next, Boot, MarkInv

\* Only the last step of reconcile() opens the API.
LEMMA OpenStep ==
    ASSUME Typed, MarkInv, [Next]_vars
    PROVE  [boot # "up" /\ boot' = "up" =>
              /\ \A n \in Nodes : owner'[n] # None => row'[owner'[n]] # None
              /\ \A t \in Tunnels : row'[t] # None => row'[t].state = "running"]_vars
<1> SUFFICES ASSUME Next, boot # "up", boot' = "up"
             PROVE  /\ \A n \in Nodes : owner'[n] # None => row'[owner'[n]] # None
                    /\ \A t \in Tunnels : row'[t] # None => row'[t].state = "running"
  OBVIOUS
<1>1. ASSUME NEW w \in Threads,
             Request(w) \/ CreateStep(w) \/ DeleteStep(w) \/ PassStep(w) \/ RollStep(w)
      PROVE  boot = "up"
  BY <1>1 DEF Request, CreateRequest, DeleteRequest, RenewRequest, CreateStep, CreatePick,
     CreateAssign, CreateSave, CreateStart, CreateRunning, CreateCache, DeleteStep,
     DeleteStop, ReleaseNodes, ReleaseRead, ReleaseZero, DropRow, ForgetTunnel, PassStep,
     EnterPass, ReadAssigned, ProbeAssigned, Verdicts, SwapOut, DropRead, DropSave, BumpRead,
     BumpSave, TopUpPick, TopUpAssign, AddRead, AddSave, LeaveLock, ExitPass, RollStep,
     PlanRoll, RollRemove, RollRun, RollDone, SelfHeal, SelfHealBlind, At
<1>2. BootMark
  BY <1>1 DEF Next, LoadTunnels, LoopNext, PoolVerdict, ContainerStops, Crash, Boot,
              BootContainers, BootOrphans, At, sysVars
<1>3. boot = "mark" /\ owner' = owner /\ Standing BY <1>2 DEF BootMark, MarkInv
<1>4. ASSUME NEW t \in Tunnels
      PROVE  /\ row[t] # None => row'[t] # None
             /\ row'[t] # None => row'[t].state = "running"
  <2>1. row[t] \in Row \cup {None} BY DEF Typed, TypeOK
  <2>2. CASE row[t] = None BY <1>2, <2>2 DEF BootMark
  <2>3. CASE row[t] # None
    <3>1. row'[t] = [row[t] EXCEPT !.state = "running"] BY <1>2, <2>3 DEF BootMark
    <3>2. row[t] \in Row BY <2>1, <2>3
    <3>3. row'[t] \in Row /\ row'[t].state = "running" BY <3>1, <3>2 DEF Row
    <3> QED BY <3>3, NoneIsNoRow
  <2> QED BY <2>2, <2>3
<1> QED BY <1>3, <1>4 DEF Standing, Typed, TypeOK

\* However often and wherever the engine process died before, it serves again
\* only with every assignment standing for a row and no row left "starting".
THEOREM BootReconciles == Spec => BootClean
<1>1. Init => MarkInv BY DEF Init, MarkInv
<1>2. Typed /\ MintInv /\ MarkInv /\ [Next]_vars => MarkInv' BY MarkStep
<1>3. Typed /\ MintInv /\ MarkInv /\ [Next]_vars =>
        [boot # "up" /\ boot' = "up" =>
           /\ \A n \in Nodes : owner'[n] # None => row'[owner'[n]] # None
           /\ \A t \in Tunnels : row'[t] # None => row'[t].state = "running"]_vars
  BY OpenStep
<1> QED BY <1>1, <1>2, <1>3, CallsTyped, PTL DEF Spec, BootClean

-----------------------------------------------------------------------------
(* Granted counts *)

\* A DELETE that has come this far ends with the tunnel in deleted.
Doomed(t) ==
    \/ t \in deleted
    \/ \E v \in Threads : /\ loc[v].op = "delete" /\ loc[v].tid = t
                          /\ pc[v] \in {"x_row", "d_forget"}

\* A pass has assigned nodes that the row does not count yet.
AddPC == {"h_add_read", "h_add_save"}
Adding(t) == \E w \in Threads : loc[w].tid = t /\ pc[w] \in AddPC

Base(t) ==
    row[t] # None =>
        /\ row[t].granted <= row[t].req
        /\ ~Adding(t) => Cardinality(Owned(t)) <= row[t].granted

\* The tunnel's nodes and those a pass has yet to strike out or is probing.
Held(w) == Owned(loc[w].tid) \cup loc[w].nodes

\* What the next step of thread w may rely on.
Fits(w) ==
    LET own == Owned(loc[w].tid)
        size == Cardinality(loc[w].nodes)
        r == row[loc[w].tid]
        s == loc[w].snap
    IN
    /\ pc[w] \in {"c_pick", "c_assign"} => own = {}
    /\ pc[w] \in {"c_pick", "c_assign", "c_save"} => r = None
    /\ pc[w] \in {"c_assign", "c_save", "c_start", "c_running"} =>
         own \subseteq loc[w].nodes /\ size = s.granted /\ s.granted <= s.req
    /\ loc[w].op = "create" /\ pc[w] \in {"x_read", "x_zero", "x_row"} => own = {}
    /\ loc[w].op = "create" /\ pc[w] = "x_zero" => s.granted <= s.req
    /\ pc[w] \in {"h_probe", "h_verdict", "h_swap"} => Cardinality(Held(w)) <= r.granted
    /\ pc[w] = "h_drop_read" => Cardinality(Held(w)) + 1 <= r.granted
    /\ pc[w] = "h_drop_save" => Cardinality(Held(w)) <= s.granted /\ s.granted <= s.req
    /\ pc[w] = "h_assign" => r.granted + size <= r.req
    /\ pc[w] = "h_add_read" => Cardinality(own) <= r.granted + size /\ r.granted + size <= r.req
    /\ pc[w] = "h_add_save" =>
         Cardinality(own) <= s.granted /\ s.granted <= s.req /\ s.port = r.port
    /\ loc[w].op = "health" /\ ~loc[w].stale => r # None

Sound(t) == Base(t) /\ \A w \in Threads : loc[w].tid = t => Fits(w)

\* Until the process dies, the counts of every tunnel that is not on its way out
\* are sound.
CountInv == crashes = 0 => \A t \in Tunnels : ~Doomed(t) => Sound(t)

\* A pass was handed a row that was not "starting", and such a row stays.
FreshInv ==
    /\ \A w \in Threads : pc[w] \in PassPC => ~loc[w].stale
    /\ crashes = 0 => \A q \in queue : ~q[2] /\ ~Doomed(q[1]) => row[q[1]] # None

PortsDiffer ==
    \A t, u \in Tunnels : t # u /\ row[t] # None /\ row[u] # None => row[t].port # row[u].port

OwnMinted == \A n \in Nodes : owner[n] # None => owner[n] \in minted

GrantInv == CountInv /\ FreshInv /\ PortsDiffer /\ OwnMinted

CallStep(w) == CreateStep(w) \/ DeleteStep(w) \/ PassStep(w) \/ RollStep(w)

\* Sets of nodes are finite, and a part is no bigger than the whole.
LEMMA Sizes ==
    ASSUME NEW S \in SUBSET Nodes
    PROVE  /\ IsFiniteSet(S) /\ Cardinality(S) \in Nat
           /\ \A R \in SUBSET S : Cardinality(R) \in Nat /\ Cardinality(R) <= Cardinality(S)
<1>1. IsFiniteSet(S) BY EngineAssumption, FS_Subset
<1> QED BY <1>1, FS_Subset, FS_CardinalityType

LEMMA RowNats ==
    ASSUME NEW r \in Row
    PROVE  r.granted \in Nat /\ r.req \in Nat /\ r.port \in Ports /\ r # None
<1>1. r.req \in Requests BY DEF Row
<1> QED BY <1>1, EngineAssumption, NoneIsNoRow DEF Row

LEMMA OwnedNodes == \A t : Owned(t) \in SUBSET Nodes BY DEF Owned

\* Passes work on a row, as long as nobody drops it.
LEMMA PassRow ==
    ASSUME Typed, FreshInv, NEW v \in Threads, pc[v] \in PassPC, Fits(v)
    PROVE  row[loc[v].tid] \in Row
<1>1. loc[v].op = "health" /\ ~loc[v].stale BY OpAt DEF FreshInv
<1>2. pc[v] # "idle" BY DEF PassPC, CritPC, RollPC
<1>3. loc[v].tid \in Tunnels BY <1>2, Here
<1> QED BY <1>1, <1>3 DEF Fits, Typed, TypeOK

\* A thread that stands still, over a row that stands still and nodes that only
\* become fewer, still fits.
LEMMA FitsKept ==
    ASSUME Typed, FreshInv, NEW v \in Threads, pc'[v] = pc[v], loc'[v] = loc[v],
           loc[v].tid \in Tunnels, row'[loc[v].tid] = row[loc[v].tid],
           Owned(loc[v].tid)' \subseteq Owned(loc[v].tid), Fits(v)
    PROVE  Fits(v)'
<1> DEFINE t == loc[v].tid
           own == Owned(t)
           own1 == {n \in Nodes : owner'[n] = t}
           held == own \cup loc[v].nodes
           held1 == own1 \cup loc[v].nodes
<1>1. loc[v].nodes \in SUBSET Nodes BY DEF Typed, TypeOK, Local
<1>2. own \in SUBSET Nodes /\ own1 \in SUBSET own /\ held \in SUBSET Nodes /\ held1 \in SUBSET held
  BY <1>1 DEF Owned
<1>3. /\ Cardinality(own) \in Nat /\ Cardinality(own1) \in Nat
      /\ Cardinality(own1) <= Cardinality(own)
      /\ Cardinality(held) \in Nat /\ Cardinality(held1) \in Nat
      /\ Cardinality(held1) <= Cardinality(held)
      /\ Cardinality(loc[v].nodes) \in Nat
  BY <1>1, <1>2, Sizes
<1>4. pc[v] \in PassPC => row[t] \in Row /\ row[t].granted \in Nat /\ row[t].req \in Nat
  BY PassRow, RowNats
<1>5. pc[v] \in SnapPC => loc[v].snap \in Row /\ loc[v].snap.granted \in Nat
  <2>1. "idle" \notin SnapPC BY DEF SnapPC
  <2> QED BY <2>1, Here DEF Row
<1>6. /\ Held(v) = held /\ Held(v)' = held1 /\ Owned(loc[v].tid)' = own1
  BY DEF Held, Owned
<1> HIDE DEF own1, held1, held
<1>7. (pc[v] \in {"h_probe", "h_verdict", "h_swap"} => Cardinality(Held(v)) <= row[t].granted)'
  BY <1>3, <1>4, <1>6 DEF Fits, PassPC, CritPC
<1>8. (pc[v] = "h_drop_read" => Cardinality(Held(v)) + 1 <= row[t].granted)'
  BY <1>3, <1>4, <1>6 DEF Fits, PassPC, CritPC
<1>9. (pc[v] = "h_drop_save" => Cardinality(Held(v)) <= loc[v].snap.granted
                                /\ loc[v].snap.granted <= loc[v].snap.req)'
  BY <1>3, <1>5, <1>6 DEF Fits, SnapPC
<1>10. (pc[v] = "h_add_read" =>
          /\ Cardinality(Owned(t)) <= row[t].granted + Cardinality(loc[v].nodes)
          /\ row[t].granted + Cardinality(loc[v].nodes) <= row[t].req)'
  BY <1>3, <1>4, <1>6 DEF Fits, PassPC, CritPC
<1>11. (pc[v] = "h_add_save" => /\ Cardinality(Owned(t)) <= loc[v].snap.granted
                                /\ loc[v].snap.granted <= loc[v].snap.req
                                /\ loc[v].snap.port = row[t].port)'
  BY <1>3, <1>5, <1>6 DEF Fits, SnapPC
<1>12. /\ (pc[v] \in {"c_pick", "c_assign"} => Owned(t) = {})'
       /\ (pc[v] \in {"c_pick", "c_assign", "c_save"} => row[t] = None)'
       /\ (pc[v] \in {"c_assign", "c_save", "c_start", "c_running"} =>
             /\ Owned(t) \subseteq loc[v].nodes /\ Cardinality(loc[v].nodes) = loc[v].snap.granted
             /\ loc[v].snap.granted <= loc[v].snap.req)'
       /\ (loc[v].op = "create" /\ pc[v] \in {"x_read", "x_zero", "x_row"} => Owned(t) = {})'
       /\ (loc[v].op = "create" /\ pc[v] = "x_zero" => loc[v].snap.granted <= loc[v].snap.req)'
       /\ (pc[v] = "h_assign" => row[t].granted + Cardinality(loc[v].nodes) <= row[t].req)'
       /\ (loc[v].op = "health" /\ ~loc[v].stale => row[t] # None)'
  BY <1>2, <1>6 DEF Fits
<1> QED BY <1>7, <1>8, <1>9, <1>10, <1>11, <1>12 DEF Fits

\* The steps that write a row or give nodes to a tunnel.
Loud(w) == CreateAssign(w) \/ CreateSave(w) \/ CreateRunning(w) \/ ReleaseZero(w)
             \/ DropRow(w) \/ DropSave(w) \/ TopUpAssign(w) \/ AddSave(w)

LEMMA QuietStep ==
    ASSUME Typed, NEW w \in Threads, CallStep(w), ~Loud(w)
    PROVE  row' = row /\ \A u \in Tunnels : Owned(u)' \subseteq Owned(u)
<1> USE DEF CallStep, Loud, dbVars
<1>1. row' = row
  BY DEF CreateStep, CreatePick, CreateStart, CreateCache, DeleteStep, DeleteStop,
     ReleaseNodes, ReleaseRead, ForgetTunnel, PassStep, EnterPass, ReadAssigned,
     ProbeAssigned, Verdicts, SwapOut, DropRead, BumpRead, TopUpPick, AddRead, LeaveLock,
     ExitPass, RollStep, PlanRoll, RollRemove, RollRun, RollDone, SelfHeal, SelfHealBlind
<1>2. \/ owner' = owner
      \/ owner' = [n \in Nodes |-> IF owner[n] = loc[w].tid THEN None ELSE owner[n]]
      \/ \E n \in Nodes : owner' = [owner EXCEPT ![n] = None]
  <2>1. CASE SwapOut(w)
    <3>1. loc[w].nodes \in SUBSET Nodes BY DEF Typed, TypeOK, Local
    <3> QED BY <2>1, <3>1 DEF SwapOut
  <2>2. CASE ReleaseNodes(w) BY <2>2 DEF ReleaseNodes
  <2> QED BY <2>1, <2>2
       DEF CreateStep, CreatePick, CreateStart, CreateCache, DeleteStep, DeleteStop,
       ReleaseRead, ForgetTunnel, PassStep, EnterPass, ReadAssigned,
       ProbeAssigned, Verdicts, DropRead, BumpRead, TopUpPick, AddRead, LeaveLock,
       ExitPass, RollStep, PlanRoll, RollRemove, RollRun, RollDone, SelfHeal, SelfHealBlind
<1>3. owner \in [Nodes -> Tunnels \cup {None}] BY DEF Typed, TypeOK
<1>4. ASSUME NEW u \in Tunnels PROVE Owned(u)' \subseteq Owned(u)
  <2>1. u # None BY EngineAssumption
  <2> QED BY <1>2, <1>3, <2>1 DEF Owned
<1> QED BY <1>1, <1>4

\* A step disturbs no tunnel but its own, except that it may take nodes away.
LEMMA ElsewhereStep ==
    ASSUME Typed, NEW w \in Threads, CallStep(w), NEW u \in Tunnels, u # loc[w].tid
    PROVE  row'[u] = row[u] /\ Owned(u)' \subseteq Owned(u)
<1>1. Confined(w) BY StepConfined DEF CallStep
<1>2. loc[w].tid \in Tunnels BY <1>1, Here DEF Confined
<1>3. row'[u] = row[u] BY <1>1, <1>2 DEF Confined, Typed, TypeOK
<1>4. CASE ~Loud(w) BY <1>3, <1>4, QuietStep
<1>5. CASE Loud(w)
  <2>1. \/ owner' = owner
        \/ owner' = [n \in Nodes |-> IF n \in loc[w].nodes THEN loc[w].tid ELSE owner[n]]
    BY <1>5 DEF Loud, CreateAssign, CreateSave, CreateRunning, ReleaseZero, DropRow,
                DropSave, AddSave, BumpSave, TopUpAssign
  <2>2. owner \in [Nodes -> Tunnels \cup {None}] BY DEF Typed, TypeOK
  <2> QED BY <1>2, <1>3, <2>1, <2>2 DEF Owned
<1> QED BY <1>4, <1>5

\* A call that has reached the release of its row, or its DELETE's last step.
LEMMA StepAt ==
    ASSUME NEW w \in Threads, CallStep(w)
    PROVE  /\ pc[w] = "x_row" => DropRow(w)
           /\ pc[w] = "d_forget" => ForgetTunnel(w)
           /\ pc[w] \in {"x_zero"} => ReleaseZero(w)
BY DEF CallStep, At, CreateStep, CreatePick, CreateAssign, CreateSave, CreateStart,
   CreateRunning, CreateCache, DeleteStep, DeleteStop,
   ReleaseNodes, ReleaseRead, ReleaseZero, DropRow, ForgetTunnel, PassStep, EnterPass,
   ReadAssigned, ProbeAssigned, Verdicts, SwapOut, DropRead, DropSave, AddSave, BumpSave,
   BumpRead, TopUpPick, TopUpAssign, AddRead, LeaveLock,
   ExitPass, RollStep, PlanRoll, RollRemove, RollRun, RollDone, SelfHeal, SelfHealBlind

\* Threads that do not move do not change what is doomed.
LEMMA DoomedKept ==
    ASSUME NEW t \in Tunnels, Doomed(t), deleted \subseteq deleted',
           \A v \in Threads : loc[v].op = "delete" /\ loc[v].tid = t
                                /\ pc[v] \in {"x_row", "d_forget"}
             => \/ t \in deleted'
                \/ /\ loc'[v].op = "delete" /\ loc'[v].tid = t
                   /\ pc'[v] \in {"x_row", "d_forget"}
    PROVE  Doomed(t)'
BY DEF Doomed

\* A DELETE past its point of no return ends with its answer.
LEMMA DoomedStays ==
    ASSUME Typed, [Next]_vars, ~Crash, NEW t \in Tunnels, Doomed(t)
    PROVE  Doomed(t)'
<1>1. ASSUME NEW w \in Threads, CallStep(w) PROVE Doomed(t)'
  <2>1. Alone(w) BY <1>1, StepAlone DEF CallStep
  <2>2. deleted \subseteq deleted'
    <3>1. CASE ForgetTunnel(w) BY <3>1 DEF ForgetTunnel
    <3>2. CASE ~ForgetTunnel(w)
      BY <1>1, <3>2 DEF CallStep, CreateStep, CreatePick, CreateAssign, CreateSave,
         CreateStart, CreateRunning, CreateCache, DeleteStep, DeleteStop,
         ReleaseNodes, ReleaseRead, ReleaseZero, DropRow, PassStep, EnterPass,
         ReadAssigned, ProbeAssigned, Verdicts, SwapOut, DropRead, DropSave, AddSave, BumpSave,
         BumpRead, TopUpPick, TopUpAssign, AddRead, LeaveLock,
         ExitPass, RollStep, PlanRoll, RollRemove, RollRun, RollDone, SelfHeal,
         SelfHealBlind, sysVars
    <3> QED BY <3>1, <3>2
  <2>3. ASSUME NEW v \in Threads, loc[v].op = "delete", loc[v].tid = t,
               pc[v] \in {"x_row", "d_forget"}
        PROVE  \/ t \in deleted'
               \/ /\ loc'[v].op = "delete" /\ loc'[v].tid = t
                  /\ pc'[v] \in {"x_row", "d_forget"}
    <3>1. CASE v # w BY <2>1, <2>3, <3>1 DEF Alone
    <3>2. CASE v = w /\ pc[w] = "x_row"
      <4>1. DropRow(w) BY <1>1, <3>2, StepAt
      <4> QED BY <2>3, <3>2, <4>1, GotoAlone DEF DropRow
    <3>3. CASE v = w /\ pc[w] = "d_forget"
      <4>1. ForgetTunnel(w) BY <1>1, <3>3, StepAt
      <4> QED BY <2>3, <3>3, <4>1 DEF ForgetTunnel
    <3> QED BY <2>3, <3>1, <3>2, <3>3
  <2> QED BY <2>2, <2>3, DoomedKept
<1>2. ASSUME NEW w \in Threads, NEW label, NEW l, pc[w] = "idle", Goto(w, label, l),
             deleted' = deleted
      PROVE  Doomed(t)'
  <2>1. \A v \in Threads \ {w} : pc'[v] = pc[v] /\ loc'[v] = loc[v]
    BY <1>2 DEF Goto, Typed, TypeOK
  <2> QED BY <1>2, <2>1, DoomedKept
<1>3. ASSUME NEW w \in Threads, Request(w) PROVE Doomed(t)'
  <2>1. /\ pc[w] = "idle" /\ deleted' = deleted
        /\ \E label, l : Goto(w, label, l)
    <3>1. CASE CreateRequest(w) BY <3>1 DEF CreateRequest, At
    <3>2. CASE DeleteRequest(w) BY <3>2 DEF DeleteRequest, At, sysVars
    <3>3. CASE RenewRequest(w) BY <3>3 DEF RenewRequest, At, sysVars
    <3> QED BY <1>3, <3>1, <3>2, <3>3 DEF Request
  <2> QED BY <1>2, <2>1
<1>4. CASE LoopNext
  <2>1. Loop \in Threads BY DEF Threads
  <2>2. pc[Loop] = "idle" /\ deleted' = deleted /\ \E label, l : Goto(Loop, label, l)
    BY <1>4 DEF LoopNext, At, sysVars
  <2> QED BY <1>2, <2>1, <2>2
<1>5. CASE LoadTunnels \/ PoolVerdict \/ ContainerStops \/ Boot \/ UNCHANGED vars
  <2>1. pc' = pc /\ loc' = loc /\ deleted' = deleted
    BY <1>5 DEF LoadTunnels, PoolVerdict, ContainerStops, Boot, BootContainers, BootOrphans,
                BootMark, vars, sysVars
  <2> QED BY <2>1, DoomedKept
<1> QED BY <1>1, <1>3, <1>4, <1>5 DEF Next, CallStep

LEMMA TypedCall == ASSUME Typed, NEW w \in Threads, CallStep(w) PROVE Typed'
<1>1. CASE CreateStep(w)
  BY <1>1, TypedCreatePick, TypedCreateAssign, TypedCreateSave, TypedCreateStart,
     TypedCreateRunning, TypedCreateCache DEF CreateStep
<1>2. CASE DeleteStep(w)
  BY <1>2, TypedDeleteStop, TypedReleaseNodes, TypedReleaseRead, TypedReleaseZero,
     TypedDropRow, TypedForgetTunnel DEF DeleteStep
<1>3. CASE PassStep(w)
  BY <1>3, TypedEnterPass, TypedReadAssigned, TypedProbeAssigned, TypedVerdicts,
     TypedSwapOut, TypedDrop, TypedTopUpPick, TypedTopUpAssign, TypedAdd, TypedLeaveLock,
     TypedExitPass DEF PassStep
<1>4. CASE RollStep(w)
  BY <1>4, TypedPlanRoll, TypedRollRemove, TypedRollRun, TypedRollDone, TypedSelfHeal
  DEF RollStep
<1> QED BY <1>1, <1>2, <1>3, <1>4 DEF CallStep

\* The call of a thread that is in a pass after its step.
LEMMA OpAtNext ==
    ASSUME Typed', NEW v \in Threads, pc'[v] \in PassPC PROVE loc'[v].op = "health"
<1>1. Call(pc'[v], loc'[v], minted') /\ loc'[v] \in Local BY DEF Typed, TypeOK, CallInv
<1> QED BY <1>1 DEF Call, Local, CreatePC, DeletePC, PassPC, FreePC, CritPC, RollPC

LEMMA CrashesKept == ASSUME [Next]_vars, ~Crash PROVE crashes' = crashes
<1>1. ASSUME NEW w \in Threads, Request(w) \/ CreateStep(w) \/ DeleteStep(w) PROVE crashes' = crashes
  BY <1>1 DEF Request, CreateRequest, DeleteRequest, RenewRequest, CreateStep, CreatePick,
     CreateAssign, CreateSave, CreateStart, CreateRunning, CreateCache, DeleteStep,
     DeleteStop, ReleaseNodes, ReleaseRead, ReleaseZero, DropRow, ForgetTunnel, sysVars
<1>2. ASSUME NEW w \in Threads, PassStep(w) \/ RollStep(w) PROVE crashes' = crashes
  BY <1>2 DEF PassStep,
     EnterPass, ReadAssigned, ProbeAssigned, Verdicts, SwapOut, DropRead, DropSave, BumpRead,
     BumpSave, TopUpPick, TopUpAssign, AddRead, AddSave, LeaveLock, ExitPass, RollStep,
     PlanRoll, RollRemove, RollRun, RollDone, SelfHeal, SelfHealBlind, sysVars
<1>3. CASE LoadTunnels \/ LoopNext \/ PoolVerdict \/ ContainerStops \/ Boot \/ UNCHANGED vars
  BY <1>3 DEF LoadTunnels, LoopNext, PoolVerdict, ContainerStops, Boot, BootContainers,
              BootOrphans, BootMark, vars, sysVars
<1> QED BY <1>1, <1>2, <1>3 DEF Next

\* A row that goes was dropped.
LEMMA DropsRow ==
    ASSUME Typed, NEW w \in Threads, CallStep(w), NEW t \in Tunnels, t = loc[w].tid,
           row[t] # None, row'[t] = None
    PROVE  DropRow(w)
<1> SUFFICES ASSUME ~DropRow(w) PROVE FALSE OBVIOUS
<1>1. ASSUME pc[w] \in SnapPC PROVE loc[w].snap \in Row
  <2>1. "idle" \notin SnapPC BY DEF SnapPC
  <2> QED BY <1>1, <2>1, Here
<1>2. Loud(w) BY QuietStep
<1>3. CASE CreateAssign(w) \/ TopUpAssign(w) BY <1>3 DEF CreateAssign, TopUpAssign
<1>4. CASE CreateSave(w) \/ ReleaseZero(w) \/ DropSave(w) \/ AddSave(w)
  <2>1. loc[w].snap \in Row
    BY <1>1, <1>4 DEF CreateSave, ReleaseZero, DropSave, AddSave, BumpSave, At, SnapPC
  <2>2. row' = row \/ row' = [row EXCEPT ![t] = loc[w].snap]
    BY <1>4 DEF CreateSave, ReleaseZero, DropSave, AddSave, BumpSave
  <2> QED BY <2>1, <2>2, NoneIsNoRow DEF Typed, TypeOK
<1>5. CASE CreateRunning(w)
  <2> DEFINE x == [loc[w].snap EXCEPT !.state = "running"]
  <2>1. loc[w].snap \in Row BY <1>1, <1>5 DEF CreateRunning, At, SnapPC
  <2>2. x \in Row BY <2>1 DEF Row
  <2>3. row' = row \/ row' = [row EXCEPT ![t] = x] BY <1>5 DEF CreateRunning
  <2> HIDE DEF x
  <2> QED BY <2>2, <2>3, NoneIsNoRow DEF Typed, TypeOK
<1> QED BY <1>2, <1>3, <1>4, <1>5 DEF Loud

\* How a call changes the tunnels table: one row, which goes or takes a port
\* that no other row has.
LEMMA RowWrite ==
    ASSUME Typed, NEW w \in Threads, CallStep(w)
    PROVE  \/ row' = row
           \/ row' = [row EXCEPT ![loc[w].tid] = None]
           \/ \E x \in Row : /\ PortUnique(loc[w].tid, x.port)
                             /\ row' = [row EXCEPT ![loc[w].tid] = x]
<1>1. CASE ~Loud(w) BY <1>1, QuietStep
<1>2. CASE CreateAssign(w) \/ TopUpAssign(w) BY <1>2 DEF CreateAssign, TopUpAssign
<1>3. CASE DropRow(w) BY <1>3 DEF DropRow
<1>4. ASSUME pc[w] \in SnapPC PROVE loc[w].snap \in Row
  <2>1. "idle" \notin SnapPC BY DEF SnapPC
  <2> QED BY <1>4, <2>1, Here
<1>5. CASE CreateSave(w) \/ ReleaseZero(w) \/ DropSave(w) \/ AddSave(w)
  <2>1. loc[w].snap \in Row
    BY <1>4, <1>5 DEF CreateSave, ReleaseZero, DropSave, AddSave, BumpSave, At, SnapPC
  <2> QED BY <1>5, <2>1 DEF CreateSave, ReleaseZero, DropSave, AddSave, BumpSave
<1>6. CASE CreateRunning(w)
  <2> DEFINE x == [loc[w].snap EXCEPT !.state = "running"]
  <2>1. loc[w].snap \in Row BY <1>4, <1>6 DEF CreateRunning, At, SnapPC
  <2>2. x \in Row /\ x.port = loc[w].snap.port BY <2>1 DEF Row
  <2>3. \/ row' = row
        \/ PortUnique(loc[w].tid, loc[w].snap.port) /\ row' = [row EXCEPT ![loc[w].tid] = x]
    BY <1>6 DEF CreateRunning
  <2> HIDE DEF x
  <2> QED BY <2>2, <2>3
<1> QED BY <1>1, <1>2, <1>3, <1>5, <1>6 DEF Loud

LEMMA PortsStep == ASSUME Typed, PortsDiffer, [Next]_vars PROVE PortsDiffer'
<1>1. ASSUME row' = row PROVE PortsDiffer' BY <1>1 DEF PortsDiffer
<1>2. ASSUME NEW w \in Threads, CallStep(w) PROVE PortsDiffer'
  <2> DEFINE t == loc[w].tid
  <2>1. Confined(w) BY <1>2, StepConfined DEF CallStep
  <2>2. t \in Tunnels BY <2>1, Here DEF Confined
  <2>3. CASE row' = row BY <1>1, <2>3
  <2>4. CASE row' = [row EXCEPT ![t] = None]
    BY <2>2, <2>4 DEF PortsDiffer, Typed, TypeOK
  <2>5. ASSUME NEW x \in Row, PortUnique(t, x.port), row' = [row EXCEPT ![t] = x]
        PROVE  PortsDiffer'
    <3>1. \A u \in Tunnels : row'[u] = IF u = t THEN x ELSE row[u]
      BY <2>2, <2>5 DEF Typed, TypeOK
    <3>2. ASSUME NEW u \in Tunnels, NEW v \in Tunnels, u # v, row'[u] # None, row'[v] # None
          PROVE  row'[u].port # row'[v].port
      <4>1. CASE u # t /\ v # t BY <3>1, <3>2, <4>1 DEF PortsDiffer
      <4>2. CASE u = t
        <5>1. row'[u] = x /\ row'[v] = row[v] /\ v \in Tunnels \ {t} BY <3>1, <3>2, <4>2
        <5> QED BY <2>5, <3>2, <5>1 DEF PortUnique
      <4>3. CASE v = t
        <5>1. row'[v] = x /\ row'[u] = row[u] /\ u \in Tunnels \ {t} BY <3>1, <3>2, <4>3
        <5> QED BY <2>5, <3>2, <5>1 DEF PortUnique
      <4> QED BY <4>1, <4>2, <4>3
    <3> QED BY <3>2 DEF PortsDiffer
  <2> QED BY <1>2, <2>3, <2>4, <2>5, RowWrite
<1>3. CASE BootMark
  <2>1. ASSUME NEW t \in Tunnels, row'[t] # None
        PROVE  row[t] # None /\ row'[t].port = row[t].port
    <3>1. row[t] \in Row \cup {None} BY DEF Typed, TypeOK
    <3>2. row[t] # None BY <1>3, <2>1 DEF BootMark
    <3>3. row[t] \in Row BY <3>1, <3>2
    <3>4. row'[t] = [row[t] EXCEPT !.state = "running"] BY <1>3, <3>2 DEF BootMark
    <3> QED BY <3>2, <3>3, <3>4 DEF Row
  <2> QED BY <2>1 DEF PortsDiffer
<1>4. ASSUME NEW w \in Threads, Request(w) PROVE row' = row
  BY <1>4 DEF Request, CreateRequest, DeleteRequest, RenewRequest, dbVars
<1>5. CASE LoadTunnels \/ LoopNext \/ PoolVerdict \/ ContainerStops \/ Crash
             \/ BootContainers \/ BootOrphans \/ UNCHANGED vars
  <2>1. row' = row
    BY <1>5 DEF LoadTunnels, LoopNext, PoolVerdict, ContainerStops, Crash,
                BootContainers, BootOrphans, vars, dbVars
  <2> QED BY <1>1, <2>1
<1> QED BY <1>1, <1>2, <1>3, <1>4, <1>5 DEF Next, Boot, CallStep

\* Nodes are only given to tunnels whose id was handed out.
LEMMA OwnMintedStep == ASSUME Typed, OwnMinted, [Next]_vars PROVE OwnMinted'
<1>1. owner \in [Nodes -> Tunnels \cup {None}] BY DEF Typed, TypeOK
<1>2. ASSUME NEW w \in Threads, CallStep(w) PROVE OwnMinted'
  <2>1. Confined(w) BY <1>2, StepConfined DEF CallStep
  <2>2. loc[w].tid \in Tunnels /\ loc[w].tid \in minted /\ minted' = minted
    BY <2>1, Here DEF Confined
  <2>3. ASSUME NEW n \in Nodes, owner'[n] # None
        PROVE  owner'[n] = owner[n] \/ owner'[n] = loc[w].tid
    <3>1. CASE ~Loud(w)
      <4>1. \A u \in Tunnels : Owned(u)' \subseteq Owned(u) BY <1>2, <3>1, QuietStep
      <4>2. owner'[n] \in Tunnels
        <5>1. TypeOK' BY <1>2, TypedCall DEF CallStep, Typed
        <5> QED BY <2>3, <5>1 DEF TypeOK
      <4> QED BY <4>1, <4>2 DEF Owned
    <3>2. CASE Loud(w)
      <4>1. \/ owner' = owner
            \/ owner' = [m \in Nodes |-> IF m \in loc[w].nodes THEN loc[w].tid ELSE owner[m]]
        BY <3>2 DEF Loud, CreateAssign, CreateSave, CreateRunning, ReleaseZero, DropRow,
                    DropSave, AddSave, BumpSave, TopUpAssign
      <4> QED BY <4>1
    <3> QED BY <3>1, <3>2
  <2> QED BY <2>2, <2>3 DEF OwnMinted
<1>3. CASE BootOrphans
  BY <1>1, <1>3 DEF BootOrphans, OwnMinted
<1>4. ASSUME owner' = owner, minted \subseteq minted' PROVE OwnMinted' BY <1>4 DEF OwnMinted
<1>5. ASSUME NEW w \in Threads, Request(w) PROVE OwnMinted'
  BY <1>4, <1>5 DEF Request, CreateRequest, DeleteRequest, RenewRequest, dbVars, sysVars
<1>6. CASE LoadTunnels \/ LoopNext \/ PoolVerdict \/ ContainerStops \/ Crash
             \/ BootContainers \/ BootMark \/ UNCHANGED vars
  BY <1>4, <1>6 DEF LoadTunnels, LoopNext, PoolVerdict, ContainerStops, Crash,
              BootContainers, BootMark, vars, dbVars, sysVars
<1> QED BY <1>2, <1>3, <1>5, <1>6 DEF Next, Boot, CallStep

\* Only a delete, or the roll-back of a create, drops a row.
LEMMA FreshStep ==
    ASSUME Typed, Typed', CreatorInv, FreshInv, [Next]_vars
    PROVE  FreshInv'
<1>1. "idle" \notin PassPC /\ "h_enter" \notin PassPC /\ "c_pick" \notin PassPC
      /\ "d_stop" \notin PassPC /\ "h_exit" \notin PassPC
  BY DEF PassPC, CritPC, RollPC
<1>2. ASSUME NEW v \in Threads, pc'[v] \in PassPC PROVE ~loc'[v].stale
  <2>1. CASE pc'[v] = pc[v] /\ loc'[v] = loc[v] BY <1>2, <2>1 DEF FreshInv
  <2>2. ASSUME NEW w \in Threads, CallStep(w) PROVE ~loc'[v].stale
    <3>1. Alone(w) BY <2>2, StepAlone DEF CallStep
    <3>2. CASE v # w BY <2>1, <3>1, <3>2 DEF Alone
    <3>3. CASE v = w /\ pc[w] \in PassPC BY <1>1, <1>2, <3>1, <3>3 DEF Alone, FreshInv
    <3>4. CASE v = w /\ pc[w] \notin PassPC
      <4>1. loc'[w].op = "health" BY <1>2, <3>4, OpAtNext
      <4>2. loc[w].op = "health" BY <1>1, <1>2, <3>1, <3>4, <4>1 DEF Alone
      <4>3. pc[w] \in {"h_enter", "h_exit"}
        BY <3>4, <4>2 DEF Typed, CallInv, Call
      <4>4. EnterPass(w) \/ ExitPass(w)
        BY <2>2, <4>3 DEF CallStep, CreateStep, CreatePick, CreateAssign, CreateSave, CreateStart,
             CreateRunning, CreateCache, DeleteStep, DeleteStop, ReleaseNodes, ReleaseRead,
             ReleaseZero, DropRow, ForgetTunnel, PassStep, ReadAssigned, ProbeAssigned, Verdicts,
             SwapOut, DropRead, DropSave, BumpRead, BumpSave, TopUpPick, TopUpAssign, AddRead,
             AddSave, LeaveLock, RollStep, PlanRoll, RollRemove, RollRun, RollDone,
             SelfHeal, SelfHealBlind, At
      <4>5. CASE ExitPass(w)
        BY <1>1, <1>2, <3>4, <4>5, GotoAlone DEF ExitPass, Finish
      <4>6. CASE EnterPass(w)
        <5>1. \/ pc'[w] = "idle" \/ pc'[w] = "h_exit"
              \/ ~loc[w].stale /\ loc'[w] = loc[w]
          BY <4>6 DEF EnterPass, Goto, Finish, Typed, TypeOK
        <5> QED BY <1>1, <1>2, <3>4, <5>1
      <4> QED BY <4>4, <4>5, <4>6
    <3> QED BY <3>2, <3>3, <3>4
  <2>3. ASSUME NEW w \in Threads, NEW label \in {"c_pick", "d_stop", "h_enter"}, NEW l,
               Goto(w, label, l)
        PROVE  ~loc'[v].stale
    <3>1. pc'[w] = label /\ \A u \in Threads \ {w} : pc'[u] = pc[u] /\ loc'[u] = loc[u]
      BY <2>3 DEF Goto, Typed, TypeOK
    <3> QED BY <1>1, <1>2, <2>1, <2>3, <3>1
  <2>4. ASSUME NEW w \in Threads, Request(w) PROVE ~loc'[v].stale
    <3>1. \E label \in {"c_pick", "d_stop", "h_enter"} : \E l : Goto(w, label, l)
      <4>1. CASE CreateRequest(w) BY <4>1 DEF CreateRequest
      <4>2. CASE DeleteRequest(w) BY <4>2 DEF DeleteRequest
      <4>3. CASE RenewRequest(w) BY <4>3 DEF RenewRequest
      <4> QED BY <2>4, <4>1, <4>2, <4>3 DEF Request
    <3> QED BY <2>3, <3>1
  <2>5. CASE LoopNext
    <3>1. Loop \in Threads BY DEF Threads
    <3>2. \E l : Goto(Loop, "h_enter", l) BY <2>5 DEF LoopNext
    <3> QED BY <2>3, <3>1, <3>2
  <2>6. CASE LoadTunnels \/ PoolVerdict \/ ContainerStops \/ Boot \/ UNCHANGED vars
    <3>1. pc' = pc /\ loc' = loc
      BY <2>6 DEF LoadTunnels, PoolVerdict, ContainerStops, Boot, BootContainers, BootOrphans,
                  BootMark, vars
    <3> QED BY <2>1, <3>1
  <2>7. CASE Crash BY <1>1, <1>2, <2>7 DEF Crash
  <2> QED BY <2>2, <2>4, <2>5, <2>6, <2>7 DEF Next, CallStep
<1>3. ASSUME crashes' = 0, NEW q \in queue', ~q[2], ~Doomed(q[1])' PROVE row'[q[1]] # None
  <2>1. crashes = 0 /\ ~Crash
    <3>1. crashes \in Nat BY DEF Typed, TypeOK
    <3>2. Crash => crashes' = crashes + 1 BY DEF Crash
    <3>3. ~Crash BY <1>3, <3>1, <3>2
    <3>4. crashes' = crashes BY <3>3, CrashesKept
    <3> QED BY <1>3, <3>3, <3>4
  <2>2. q[1] \in Tunnels /\ q[2] \in BOOLEAN BY DEF Typed, TypeOK
  <2>3. ~Doomed(q[1]) BY <1>3, <2>1, <2>2, DoomedStays
  <2>4. q \in queue => row[q[1]] # None BY <1>3, <2>1, <2>3 DEF FreshInv
  <2>5. CASE row' = row /\ queue' \subseteq queue BY <2>4, <2>5
  <2>6. ASSUME NEW w \in Threads, CallStep(w) PROVE row'[q[1]] # None
    <3>1. Confined(w) BY <2>6, StepConfined DEF CallStep
    <3>2. q \in queue /\ row[q[1]] # None BY <2>4, <3>1 DEF Confined
    <3>3. CASE row' = row BY <3>2, <3>3
    <3>4. CASE q[1] # loc[w].tid BY <2>2, <2>6, <3>2, <3>4, ElsewhereStep
    <3>5. CASE \E x \in Row : row' = [row EXCEPT ![loc[w].tid] = x] /\ q[1] = loc[w].tid
      BY <2>2, <3>5, RowNats DEF Typed, TypeOK
    <3>6. CASE row' = [row EXCEPT ![loc[w].tid] = None] /\ q[1] = loc[w].tid
      <4>1. row'[q[1]] = None BY <2>2, <3>6 DEF Typed, TypeOK
      <4>2. DropRow(w)
        BY <2>2, <2>6, <3>2, <3>6, <4>1, DropsRow
      <4>3. pc[w] = "x_row" BY <4>2 DEF DropRow, At
      <4>4. loc[w].op \in {"create", "delete"} BY <4>3, OpAt DEF FreePC
      <4>5. loc[w].op # "delete" BY <2>3, <3>6, <4>3 DEF Doomed
      <4>6. Creating(w) BY <4>3, <4>4, <4>5 DEF Creating
      <4>7. q[2] BY <3>2, <3>6, <4>6 DEF CreatorInv, Sole
      <4> QED BY <1>3, <4>7
    <3> QED BY <2>6, <3>3, <3>4, <3>5, <3>6, RowWrite
  <2>7. ASSUME NEW w \in Threads, Request(w) PROVE row' = row /\ queue' \subseteq queue
    BY <2>7 DEF Request, CreateRequest, DeleteRequest, RenewRequest, dbVars, memVars
  <2>8. CASE LoadTunnels BY <2>8 DEF LoadTunnels, dbVars
  <2>9. CASE LoopNext \/ PoolVerdict \/ ContainerStops \/ BootContainers \/ BootOrphans \/ UNCHANGED vars
    <3>1. row' = row /\ queue' \subseteq queue
      BY <2>9 DEF LoopNext, PoolVerdict, ContainerStops, BootContainers, BootOrphans,
                  vars, dbVars, memVars
    <3> QED BY <2>5, <3>1
  <2>10. CASE BootMark
    <3>1. queue' = queue BY <2>10 DEF BootMark, memVars
    <3>2. row[q[1]] # None /\ row[q[1]] \in Row BY <2>2, <2>4, <3>1 DEF Typed, TypeOK
    <3>3. row'[q[1]] = [row[q[1]] EXCEPT !.state = "running"]
      BY <2>2, <2>10, <3>2 DEF BootMark
    <3>4. row'[q[1]] \in Row BY <3>2, <3>3 DEF Row
    <3> QED BY <3>4, NoneIsNoRow
  <2> QED BY <2>1, <2>5, <2>6, <2>7, <2>8, <2>9, <2>10 DEF Next, Boot, CallStep
<1> QED BY <1>2, <1>3 DEF FreshInv

\* Steps whose thread relies on more than the row being there.
SpecialPC == {"c_pick", "c_assign", "c_save", "c_start", "c_running", "x_read", "x_zero",
              "x_row", "h_probe", "h_verdict", "h_swap", "h_drop_read", "h_drop_save",
              "h_assign", "h_add_read", "h_add_save"}

LEMMA PlainFits ==
    ASSUME NEW w \in Threads, pc'[w] \notin SpecialPC,
           loc'[w].op = "health" /\ ~loc'[w].stale => row'[loc'[w].tid] # None
    PROVE  Fits(w)'
BY DEF Fits, SpecialPC

LEMMA DeleteFits == ASSUME Typed', NEW w \in Threads, loc'[w].op = "delete" PROVE Fits(w)'
<1>1. pc'[w] \in DeletePC \cup FreePC BY DEF Typed, CallInv, Call
<1> QED BY <1>1 DEF Fits, DeletePC, FreePC

\* A thread that is neither in a pass nor creating needs no count.
LEMMA BystanderFits ==
    ASSUME Typed', NEW v \in Threads, pc'[v] \notin PassPC, ~Creating(v)',
           loc'[v].op = "health" /\ ~loc'[v].stale => row'[loc'[v].tid] # None
    PROVE  Fits(v)'
<1>1. loc'[v] \in Local /\ Call(pc'[v], loc'[v], minted')
  BY DEF Typed, TypeOK, CallInv
<1>2. CASE loc'[v].op = "delete" BY <1>2, DeleteFits
<1>3. CASE loc'[v].op = "create"
  <2>1. pc'[v] = "c_cache" BY <1>3 DEF Creating
  <2> QED BY <1>3, <2>1, PlainFits DEF SpecialPC
<1>4. CASE loc'[v].op = "health"
  <2>1. pc'[v] \in {"h_enter", "h_exit"} BY <1>1, <1>4 DEF Call
  <2> QED BY <2>1, PlainFits DEF SpecialPC
<1>5. CASE loc'[v].op = "none"
  <2>1. pc'[v] = "idle" BY <1>1, <1>5 DEF Call
  <2> QED BY <1>5, <2>1, PlainFits DEF SpecialPC
<1> QED BY <1>1, <1>2, <1>3, <1>4, <1>5 DEF Local

LEMMA BaseKept ==
    ASSUME Typed, NEW t \in Tunnels, Base(t), row'[t] = row[t],
           Owned(t)' \subseteq Owned(t), Adding(t) => Adding(t)'
    PROVE  Base(t)'
<1> DEFINE own1 == {n \in Nodes : owner'[n] = t}
<1>1. Owned(t) \in SUBSET Nodes /\ own1 \in SUBSET Owned(t) /\ Owned(t)' = own1 BY DEF Owned
<1>2. /\ Cardinality(Owned(t)) \in Nat /\ Cardinality(own1) \in Nat
      /\ Cardinality(own1) <= Cardinality(Owned(t))
  BY <1>1, Sizes
<1>3. row[t] # None => row[t].granted \in Nat
  BY RowNats DEF Typed, TypeOK
<1> HIDE DEF own1
<1> QED BY <1>1, <1>2, <1>3 DEF Base

\* Whatever happens elsewhere.
LEMMA SoundStill ==
    ASSUME Typed, FreshInv, NEW u \in Tunnels, Sound(u), row'[u] = row[u],
           Owned(u)' \subseteq Owned(u),
           \A v \in Threads : loc[v].tid = u \/ loc'[v].tid = u
             => pc'[v] = pc[v] /\ loc'[v] = loc[v]
    PROVE  Sound(u)'
<1>1. Adding(u) => Adding(u)' BY DEF Adding
<1>2. Base(u)' BY <1>1, BaseKept DEF Sound
<1>3. ASSUME NEW v \in Threads, loc'[v].tid = u PROVE Fits(v)'
  <2>1. pc'[v] = pc[v] /\ loc'[v] = loc[v] /\ loc[v].tid = u BY <1>3
  <2>2. Fits(v) BY <2>1 DEF Sound
  <2> QED BY <2>1, <2>2, FitsKept
<1> QED BY <1>2, <1>3 DEF Sound

LEMMA SoundElsewhere ==
    ASSUME Typed, FreshInv, NEW w \in Threads, CallStep(w), NEW u \in Tunnels,
           u # loc[w].tid, Sound(u)
    PROVE  Sound(u)'
<1>1. row'[u] = row[u] /\ Owned(u)' \subseteq Owned(u) BY ElsewhereStep
<1>2. Alone(w) BY StepAlone DEF CallStep
<1>3. loc'[w].tid # u
  <2>1. NoLocal.tid # u BY EngineAssumption DEF NoLocal
  <2> QED BY <1>2, <2>1 DEF Alone
<1>4. ASSUME NEW v \in Threads, loc[v].tid = u \/ loc'[v].tid = u
      PROVE  pc'[v] = pc[v] /\ loc'[v] = loc[v]
  BY <1>2, <1>3, <1>4 DEF Alone
<1> QED BY <1>1, <1>4, SoundStill

\* Nobody but its creator, or its one pass, works on a tunnel not yet doomed.
LEMMA Solitary ==
    ASSUME Typed, FlightInv, CreatorInv, NEW w \in Threads, NEW v \in Threads \ {w},
           loc[v].tid = loc[w].tid, ~Doomed(loc[w].tid), Creating(w) \/ pc[w] \in PassPC
    PROVE  /\ pc[v] \notin PassPC /\ ~Creating(v)
           /\ Creating(w) /\ loc[v].op = "health" => loc[v].stale
<1>1. CASE Creating(w)
  <2>1. Beside(v) BY <1>1 DEF CreatorInv, Sole
  <2>2. CASE loc[v].op = "delete" BY <2>2, OpAt DEF Creating
  <2>3. CASE loc[v].op = "health" /\ loc[v].stale /\ pc[v] \in {"h_enter", "h_exit"}
    BY <2>3 DEF Creating, PassPC, CritPC, RollPC
  <2> QED BY <2>1, <2>2, <2>3 DEF Beside
<1>2. CASE pc[w] \in PassPC
  <2>1. loc[w].op = "health" BY <1>2, OpAt
  <2>2. ~Creating(w) BY <2>1 DEF Creating
  <2>3. ~Creating(v)
    <3> SUFFICES ASSUME Creating(v) PROVE FALSE OBVIOUS
    <3>1. Beside(w) BY DEF CreatorInv, Sole
    <3> QED BY <1>2, <2>1, <3>1 DEF Beside, PassPC, CritPC, RollPC
  <2>4. pc[v] \notin PassPC
    BY <1>2 DEF FlightInv, Inside, Doomed
  <2> QED BY <2>2, <2>3, <2>4
<1> QED BY <1>1, <1>2

\* What a step of thread w owes to its tunnel t.
Owes(w, t) == Base(t)' /\ (loc'[w].tid = t => Fits(w)')

\* The other threads of the tunnel: either only nodes were taken away, or
\* none of them counts anything.
LEMMA SoundOwn ==
    ASSUME Typed, Typed', FreshInv, FlightInv, CreatorInv, NEW w \in Threads, CallStep(w),
           NEW t \in Tunnels, t = loc[w].tid, Sound(t), ~Doomed(t), Owes(w, t),
           \/ row'[t] = row[t] /\ Owned(t)' \subseteq Owned(t)
           \/ Creating(w)
           \/ pc[w] \in PassPC /\ row'[t] # None
    PROVE  Sound(t)'
<1>1. Alone(w) BY StepAlone DEF CallStep
<1>2. ASSUME NEW v \in Threads, loc'[v].tid = t PROVE Fits(v)'
  <2>1. CASE v = w BY <1>2, <2>1 DEF Owes
  <2>2. CASE v # w
    <3>1. pc'[v] = pc[v] /\ loc'[v] = loc[v] /\ loc[v].tid = t BY <1>1, <1>2, <2>2 DEF Alone
    <3>2. Fits(v) BY <3>1 DEF Sound
    <3>3. CASE row'[t] = row[t] /\ Owned(t)' \subseteq Owned(t)
      <4>1. Owned(loc[v].tid)' \subseteq Owned(loc[v].tid) BY <3>1, <3>3
      <4> QED BY <3>1, <3>2, <3>3, <4>1, FitsKept
    <3>4. CASE Creating(w) \/ (pc[w] \in PassPC /\ row'[t] # None)
      <4>1. /\ pc[v] \notin PassPC /\ ~Creating(v)
            /\ Creating(w) /\ loc[v].op = "health" => loc[v].stale
        BY <2>2, <3>1, <3>4, Solitary
      <4>2. pc'[v] \notin PassPC /\ ~Creating(v)' BY <3>1, <4>1 DEF Creating
      <4>3. loc'[v].op = "health" /\ ~loc'[v].stale => row'[loc'[v].tid] # None
        BY <3>1, <3>4, <4>1
      <4> QED BY <4>2, <4>3, BystanderFits
    <3> QED BY <3>3, <3>4
  <2> QED BY <2>1, <2>2
<1> QED BY <1>2 DEF Owes, Sound

\* A call's step on its own, sound tunnel.
Ctx(w, t) ==
    /\ Typed /\ Typed' /\ FreshInv /\ FlightInv /\ CreatorInv /\ PortsDiffer
    /\ CallStep(w) /\ t = loc[w].tid /\ Sound(t) /\ ~Doomed(t)

LEMMA CtxFacts ==
    ASSUME NEW w \in Threads, NEW t \in Tunnels, Ctx(w, t)
    PROVE  /\ Alone(w) /\ Fits(w) /\ Base(t)
           /\ pc[w] # "idle" /\ loc[w] \in Local /\ loc'[w] \in Local
           /\ loc[w].nodes \in SUBSET Nodes /\ Cardinality(loc[w].nodes) \in Nat
           /\ pc[w] \in SnapPC => loc[w].snap \in Row
           /\ row[t] \in Row \cup {None} /\ row'[t] \in Row \cup {None}
           /\ pc[w] \in PassPC => row[t] \in Row
<1>1. Confined(w) /\ Alone(w) BY StepConfined, StepAlone DEF Ctx, CallStep
<1>2. Fits(w) /\ Base(t) BY DEF Ctx, Sound
<1>3. pc[w] # "idle" /\ (pc[w] \in SnapPC => loc[w].snap \in Row) BY <1>1, Here DEF Confined, Ctx
<1>4. /\ loc[w] \in Local /\ loc'[w] \in Local /\ row[t] \in Row \cup {None}
      /\ row'[t] \in Row \cup {None}
  BY DEF Ctx, Typed, TypeOK
<1>5. loc[w].nodes \in SUBSET Nodes BY <1>4 DEF Local
<1>6. pc[w] \in PassPC => row[t] \in Row BY <1>2, PassRow DEF Ctx
<1> QED BY <1>1, <1>2, <1>3, <1>4, <1>5, <1>6, Sizes

LEMMA OwnedSizes ==
    ASSUME NEW t
    PROVE  /\ Owned(t) \in SUBSET Nodes /\ Owned(t)' \in SUBSET Nodes
           /\ Cardinality(Owned(t)) \in Nat /\ Cardinality(Owned(t)') \in Nat
<1> DEFINE a == {n \in Nodes : owner[n] = t}
           b == {n \in Nodes : owner'[n] = t}
<1>1. a \in SUBSET Nodes /\ b \in SUBSET Nodes OBVIOUS
<1>2. Owned(t) = a /\ Owned(t)' = b BY DEF Owned
<1> HIDE DEF a, b
<1> QED BY <1>1, <1>2, Sizes

LEMMA QuietBase ==
    ASSUME NEW w \in Threads, NEW t \in Tunnels, Ctx(w, t), ~Loud(w), pc[w] \notin AddPC
    PROVE  Base(t)'
<1>1. row'[t] = row[t] /\ Owned(t)' \subseteq Owned(t) BY QuietStep DEF Ctx
<1>2. Adding(t) => Adding(t)'
  <2>1. Alone(w) BY CtxFacts
  <2> QED BY <2>1 DEF Adding, Alone
<1> QED BY <1>1, <1>2, BaseKept, CtxFacts DEF Ctx

LEMMA PlainOwes ==
    ASSUME NEW w \in Threads, NEW t \in Tunnels, Ctx(w, t), ~Loud(w), pc[w] \notin AddPC,
           pc'[w] \notin SpecialPC
    PROVE  Owes(w, t)
<1>1. Base(t)' BY QuietBase
<1>2. row' = row BY QuietStep DEF Ctx
<1>3. ASSUME loc'[w].tid = t PROVE Fits(w)'
  <2>1. loc'[w].stale = loc[w].stale /\ loc'[w].op = loc[w].op
    <3>1. t # None BY EngineAssumption
    <3> QED BY <1>3, <3>1, CtxFacts DEF Alone, NoLocal
  <2>2. loc[w].op = "health" /\ ~loc[w].stale => row[t] # None BY CtxFacts DEF Fits, Ctx
  <2> QED BY <1>2, <1>3, <2>1, <2>2, PlainFits
<1> QED BY <1>1, <1>3 DEF Owes

\* Which steps are loud is told by where the thread stands.
LEMMA QuietAt ==
    ASSUME NEW w \in Threads,
           pc[w] \notin {"c_assign", "c_save", "c_running", "x_zero", "x_row", "h_drop_save",
                         "h_assign", "h_add_save"}
    PROVE  ~Loud(w)
BY DEF Loud, CreateAssign, CreateSave, CreateRunning, ReleaseZero, DropRow, DropSave, AddSave,
       BumpSave, TopUpAssign, At

\* What a thread at a save relies on becomes what the saved row says.
LEMMA SavedBase ==
    ASSUME NEW t \in Tunnels, row'[t] \in Row, row'[t].granted <= row'[t].req,
           Cardinality(Owned(t)') <= row'[t].granted
    PROVE  Base(t)'
BY DEF Base

LEMMA CreatorOwes ==
    ASSUME NEW w \in Threads, NEW t \in Tunnels, Ctx(w, t), CreateStep(w)
    PROVE  /\ Owes(w, t)
           /\ \/ row'[t] = row[t] /\ Owned(t)' \subseteq Owned(t)
              \/ Creating(w)
<1> USE CtxFacts DEF SnapPC, AddPC
<1>1. t = loc[w].tid /\ TypeOK BY DEF Ctx, Typed
<1>2. pc[w] \in CreatePC => loc[w].op = "create" BY OpAt DEF Ctx
<1>3. CASE CreatePick(w)
  <2>1. PICK P \in BestOf(loc[w].snap.req), label \in {"c_save", "c_assign"} :
          Goto(w, label, [loc[w] EXCEPT !.nodes = P, !.snap.granted = Cardinality(P)])
    BY <1>3 DEF CreatePick
  <2>2. pc[w] = "c_pick" /\ row' = row /\ owner' = owner
    BY <1>3 DEF CreatePick, At, dbVars
  <2>3. loc[w].snap \in Row BY <2>2
  <2>4. P \in SUBSET Nodes /\ Cardinality(P) \in Nat BY PickOK, <1>1
  <2>5. Cardinality(P) <= loc[w].snap.req
    <3>1. Free \in SUBSET Nodes BY <1>1 DEF Free, TypeOK
    <3>2. Cardinality(Free) \in Nat BY <3>1, Sizes
    <3> QED BY <2>1, <2>3, <3>2, RowNats DEF BestOf
  <2>6. /\ pc'[w] = label /\ loc'[w].tid = t /\ loc'[w].nodes = P /\ loc'[w].op = "create"
        /\ loc'[w].snap.granted = Cardinality(P) /\ loc'[w].snap.req = loc[w].snap.req
    BY <1>1, <1>2, <2>1, <2>2, <2>3 DEF Goto, TypeOK, Local, Row, CreatePC
  <2>7. Owned(t) = {} /\ row[t] = None BY <1>1, <2>2 DEF Fits
  <2>8. Owned(t)' = {} BY <2>2, <2>7 DEF Owned
  <2>9. Fits(w)'
    BY <2>1, <2>2, <2>5, <2>6, <2>7, <2>8 DEF Fits
  <2>10. ~Loud(w) BY <2>2, QuietAt
  <2> QED BY <2>2, <2>9, <2>10, QuietBase, <2>7, <2>8 DEF Owes
<1>4. CASE CreateAssign(w)
  <2>1. /\ pc[w] = "c_assign" /\ row' = row /\ pc'[w] = "c_save" /\ loc'[w] = loc[w]
        /\ owner' = [n \in Nodes |-> IF n \in loc[w].nodes THEN t ELSE owner[n]]
    BY <1>1, <1>4 DEF CreateAssign, At, Goto, TypeOK
  <2>2. /\ Owned(t) = {} /\ row[t] = None /\ Cardinality(loc[w].nodes) = loc[w].snap.granted
        /\ loc[w].snap.granted <= loc[w].snap.req
    BY <1>1, <2>1 DEF Fits
  <2>3. Owned(t)' \subseteq loc[w].nodes BY <2>1, <2>2 DEF Owned
  <2>4. Fits(w)' BY <1>1, <1>2, <2>1, <2>2, <2>3 DEF Fits, CreatePC
  <2>5. Base(t)' BY <2>1, <2>2 DEF Base
  <2> QED BY <1>2, <2>1, <2>4, <2>5 DEF Owes, Creating, CreatePC
<1>5. CASE CreateSave(w)
  <2>1. pc[w] = "c_save" /\ owner' = owner BY <1>5 DEF CreateSave, At
  <2>2. /\ loc[w].snap \in Row /\ Owned(t) \subseteq loc[w].nodes
        /\ Cardinality(loc[w].nodes) = loc[w].snap.granted
        /\ loc[w].snap.granted <= loc[w].snap.req /\ row[t] = None
    BY <1>1, <2>1 DEF Fits
  <2>3. Owned(t)' = Owned(t) BY <2>1 DEF Owned
  <2>4. Cardinality(Owned(t)) <= loc[w].snap.granted BY <2>2, Sizes
  <2>5. \/ row'[t] = None /\ loc'[w].tid # t
        \/ /\ row'[t] = loc[w].snap /\ loc'[w] = loc[w] /\ pc'[w] \in {"c_start", "x_free"}
    <3>1. NoLocal.tid # t BY EngineAssumption DEF NoLocal
    <3> QED BY <1>1, <1>5, <2>2, <3>1 DEF CreateSave, Goto, Finish, TypeOK
  <2>6. Base(t)' BY <2>2, <2>3, <2>4, <2>5, SavedBase DEF Base
  <2>7. loc'[w].tid = t => Fits(w)'
    BY <1>1, <1>2, <2>1, <2>2, <2>3, <2>5 DEF Fits, CreatePC
  <2> QED BY <1>2, <2>1, <2>6, <2>7 DEF Owes, Creating, CreatePC
<1>6. CASE CreateStart(w)
  <2>1. pc[w] = "c_start" /\ row' = row /\ owner' = owner
    BY <1>6 DEF CreateStart, At, dbVars
  <2>2. \/ loc'[w].tid # t
        \/ loc'[w] = loc[w] /\ pc'[w] \in {"c_running", "x_free"}
    <3>1. NoLocal.tid # t BY EngineAssumption DEF NoLocal
    <3> QED BY <1>6, <3>1, <1>1 DEF CreateStart, Run, Goto, Finish, TypeOK
  <2>3. Owned(t)' = Owned(t) BY <2>1 DEF Owned
  <2>4. loc'[w].tid = t => Fits(w)'
    BY <1>1, <1>2, <2>1, <2>2, <2>3 DEF Fits, CreatePC
  <2>5. ~Loud(w) BY <2>1, QuietAt
  <2> QED BY <2>1, <2>3, <2>4, <2>5, QuietBase DEF Owes
<1>7. CASE CreateRunning(w)
  <2> DEFINE x == [loc[w].snap EXCEPT !.state = "running"]
  <2>1. pc[w] = "c_running" /\ owner' = owner BY <1>7 DEF CreateRunning, At
  <2>2. /\ loc[w].snap \in Row /\ Owned(t) \subseteq loc[w].nodes
        /\ Cardinality(loc[w].nodes) = loc[w].snap.granted
        /\ loc[w].snap.granted <= loc[w].snap.req
    BY <1>1, <2>1 DEF Fits
  <2>3. Owned(t)' = Owned(t) BY <2>1 DEF Owned
  <2>4. Cardinality(Owned(t)) <= loc[w].snap.granted BY <2>2, Sizes
  <2>5. x \in Row /\ x.granted = loc[w].snap.granted /\ x.req = loc[w].snap.req
    BY <2>2 DEF Row
  <2> HIDE DEF x
  <2>6. /\ pc'[w] \in {"c_cache", "idle"}
        /\ \/ row' = row
           \/ row'[t] = x
    BY <1>1, <1>7 DEF CreateRunning, Goto, Finish, TypeOK, x
  <2>7. CASE row'[t] = x
    <3>1. Base(t)' BY <2>2, <2>3, <2>4, <2>5, <2>7, SavedBase
    <3>2. loc'[w].tid = t => Fits(w)'
      <4>1. row'[t] # None BY <2>5, <2>7, NoneIsNoRow
      <4> QED BY <2>6, <4>1, PlainFits DEF SpecialPC
    <3> QED BY <1>2, <2>1, <3>1, <3>2 DEF Owes, Creating, CreatePC
  <2>8. CASE row' = row
    <3>1. Adding(t) => Adding(t)' BY <2>1 DEF Adding, Alone
    <3>2. Base(t)' BY <1>1, <2>3, <2>8, <3>1, BaseKept DEF Ctx
    <3>3. loc'[w].tid = t => Fits(w)'
      <4>1. ASSUME loc'[w].tid = t PROVE loc'[w].op # "health"
        <5>1. NoLocal.tid # t BY EngineAssumption DEF NoLocal
        <5> QED BY <1>2, <2>1, <4>1, <5>1 DEF Alone, CreatePC
      <4> QED BY <2>6, <4>1, PlainFits DEF SpecialPC
    <3> QED BY <1>2, <2>1, <3>2, <3>3 DEF Owes, Creating, CreatePC
  <2> QED BY <2>6, <2>7, <2>8
<1>8. CASE CreateCache(w)
  <2>1. pc[w] = "c_cache" /\ pc'[w] = "idle"
    BY <1>1, <1>8 DEF CreateCache, At, Goto, Finish, TypeOK
  <2>2. ~Loud(w) BY <2>1, QuietAt
  <2>3. Owes(w, t) BY <2>1, <2>2, PlainOwes DEF SpecialPC
  <2> QED BY <2>2, <2>3, QuietStep DEF Ctx
<1> QED BY <1>3, <1>4, <1>5, <1>6, <1>7, <1>8 DEF CreateStep

LEMMA DeleterOwes ==
    ASSUME NEW w \in Threads, NEW t \in Tunnels, Ctx(w, t), DeleteStep(w), ~Doomed(t)'
    PROVE  /\ Owes(w, t)
           /\ \/ row'[t] = row[t] /\ Owned(t)' \subseteq Owned(t)
              \/ Creating(w)
<1> USE CtxFacts DEF SnapPC, AddPC
<1>1. t = loc[w].tid /\ TypeOK BY DEF Ctx, Typed
<1>2. pc[w] \in FreePC => loc[w].op \in {"create", "delete"} BY OpAt DEF Ctx
<1>3. ~Doomed(t) BY DEF Ctx
<1>4. NoLocal.tid # t BY EngineAssumption DEF NoLocal
<1>5. ~Loud(w) => row' = row /\ Owned(t)' \subseteq Owned(t) BY QuietStep DEF Ctx
<1>6. CASE DeleteStop(w)
  <2>1. pc[w] = "d_stop" /\ pc'[w] \in {"x_free", "idle"}
    BY <1>1, <1>6 DEF DeleteStop, At, Goto, Finish, TypeOK
  <2>2. ~Loud(w) BY <2>1, QuietAt
  <2> QED BY <1>5, <2>1, <2>2, PlainOwes DEF SpecialPC
<1>7. CASE ReleaseNodes(w)
  <2>1. /\ pc[w] = "x_free" /\ pc'[w] = "x_read" /\ loc'[w] = loc[w]
        /\ owner' = [n \in Nodes |-> IF owner[n] = t THEN None ELSE owner[n]]
    BY <1>1, <1>7 DEF ReleaseNodes, At, Goto, TypeOK
  <2>2. ~Loud(w) BY <2>1, QuietAt
  <2>3. Owned(t)' = {}
    <3>1. t # None BY EngineAssumption
    <3> QED BY <2>1, <3>1 DEF Owned
  <2>4. Fits(w)' BY <1>1, <1>2, <2>1, <2>3 DEF Fits, FreePC
  <2> QED BY <1>5, <2>1, <2>2, <2>4, QuietBase DEF Owes
<1>8. CASE ReleaseRead(w)
  <2>1. pc[w] = "x_read" /\ pc'[w] \in {"x_row", "x_zero"} /\ row' = row /\ owner' = owner
    BY <1>1, <1>8 DEF ReleaseRead, At, Goto, TypeOK, dbVars
  <2>2. ~Loud(w) BY <2>1, QuietAt
  <2>3. loc'[w].op = loc[w].op /\ loc'[w].tid = t
    <3>1. pc'[w] # "idle" BY <2>1
    <3> QED BY <1>1, <3>1 DEF Alone
  <2>4. CASE loc[w].op = "delete"
    BY <1>5, <2>1, <2>2, <2>3, <2>4, DeleteFits, QuietBase DEF Owes, Ctx
  <2>5. CASE loc[w].op = "create"
    <3>1. Owned(t) = {} BY <1>1, <2>1, <2>5 DEF Fits
    <3>2. Owned(t)' = {} BY <2>1, <3>1 DEF Owned
    <3>3. pc'[w] = "x_zero" => loc'[w].snap.granted <= loc'[w].snap.req
      <4> SUFFICES ASSUME pc'[w] = "x_zero" PROVE loc'[w].snap.granted <= loc'[w].snap.req
        OBVIOUS
      <4>1. /\ row[t] # None
            /\ loc'[w] = [loc[w] EXCEPT !.snap = [row[t] EXCEPT !.granted = 0]]
        BY <1>1, <1>8 DEF ReleaseRead, Goto, TypeOK
      <4>2. row[t] \in Row BY <4>1
      <4> DEFINE y == [row[t] EXCEPT !.granted = 0]
      <4>3. y.granted = 0 /\ y.req = row[t].req BY <4>2 DEF Row
      <4> HIDE DEF y
      <4>4. loc'[w].snap = y BY <4>1 DEF Local, y
      <4> QED BY <4>2, <4>3, <4>4, RowNats
    <3>4. Fits(w)' BY <2>1, <2>3, <2>5, <3>2, <3>3 DEF Fits
    <3> QED BY <1>5, <2>1, <2>2, <3>4, QuietBase DEF Owes
  <2> QED BY <1>2, <2>1, <2>4, <2>5 DEF FreePC
<1>9. CASE ReleaseZero(w)
  <2>1. pc[w] = "x_zero" /\ owner' = owner BY <1>9 DEF ReleaseZero, At
  <2>2. loc[w].snap \in Row BY <2>1
  <2>3. Owned(t)' = Owned(t) BY <2>1 DEF Owned
  <2>4. \/ row' = row /\ pc'[w] = "idle" /\ loc'[w].tid # t
        \/ row'[t] = loc[w].snap /\ pc'[w] = "x_row" /\ loc'[w] = loc[w]
    BY <1>1, <1>4, <1>9 DEF ReleaseZero, Goto, Finish, TypeOK
  <2>5. CASE row' = row /\ loc'[w].tid # t
    <3>1. Adding(t) => Adding(t)' BY <2>1 DEF Adding, Alone
    <3>2. Base(t)' BY <1>1, <2>3, <2>5, <3>1, BaseKept DEF Ctx
    <3> QED BY <2>3, <2>5, <3>2 DEF Owes
  <2>6. CASE row'[t] = loc[w].snap /\ pc'[w] = "x_row" /\ loc'[w] = loc[w]
    <3>1. loc[w].op = "create" BY <1>1, <1>2, <2>1, <2>6 DEF Doomed, FreePC
    <3>2. Owned(t) = {} /\ loc[w].snap.granted <= loc[w].snap.req BY <1>1, <2>1, <3>1 DEF Fits
    <3>3. Cardinality(Owned(t)') <= loc[w].snap.granted
      BY <2>2, <2>3, <3>2, FS_EmptySet, RowNats
    <3>4. Base(t)' BY <2>2, <2>6, <3>2, <3>3, SavedBase
    <3>5. Fits(w)' BY <1>1, <2>3, <2>6, <3>1, <3>2 DEF Fits
    <3> QED BY <2>1, <3>1, <3>4, <3>5 DEF Owes, Creating
  <2> QED BY <2>4, <2>5, <2>6
<1>10. CASE DropRow(w)
  <2>1. pc[w] = "x_row" /\ row'[t] = None
    BY <1>1, <1>10 DEF DropRow, At, TypeOK
  <2>2. loc[w].op = "create" BY <1>1, <1>2, <1>3, <2>1 DEF Doomed, FreePC
  <2>3. pc'[w] = "idle" /\ loc'[w] = NoLocal
    BY <1>1, <1>10, <2>2 DEF DropRow, Goto, Finish, TypeOK
  <2> QED BY <1>4, <2>1, <2>2, <2>3 DEF Owes, Base, Creating
<1>11. CASE ForgetTunnel(w)
  <2>1. pc[w] = "d_forget" BY <1>11 DEF ForgetTunnel, At
  <2>2. loc[w].op = "delete" BY <2>1, OpAt DEF Ctx, DeletePC
  <2> QED BY <1>1, <1>3, <2>1, <2>2 DEF Doomed
<1> QED BY <1>6, <1>7, <1>8, <1>9, <1>10, <1>11 DEF DeleteStep

\* A pass that has nothing to count finds the row covering the nodes.
LEMMA Covered ==
    ASSUME NEW w \in Threads, NEW t \in Tunnels, Ctx(w, t), pc[w] \in PassPC, pc[w] \notin AddPC
    PROVE  /\ row[t] \in Row /\ Cardinality(Owned(t)) <= row[t].granted
           /\ row[t].granted <= row[t].req
<1>1. row[t] \in Row /\ Base(t) /\ t = loc[w].tid BY CtxFacts DEF Ctx
<1>2. ~Adding(t)
  <2> SUFFICES ASSUME NEW v \in Threads, loc[v].tid = t, pc[v] \in AddPC PROVE FALSE
    BY DEF Adding
  <2>1. v # w /\ pc[v] \in PassPC BY DEF AddPC, PassPC, CritPC
  <2> QED BY <1>1, <2>1, Solitary DEF Ctx
<1> QED BY <1>1, <1>2, NoneIsNoRow DEF Base

\* What becomes of a pass's thread: still the same health call, on a row.
LEMMA PassOn ==
    ASSUME NEW w \in Threads, NEW t \in Tunnels, Ctx(w, t), pc[w] \in PassPC,
           loc'[w].tid = t
    PROVE  loc'[w].op = "health" /\ ~loc'[w].stale
<1>1. t # None BY EngineAssumption
<1>2. loc[w].op = "health" /\ ~loc[w].stale BY OpAt DEF Ctx, FreshInv
<1> QED BY <1>1, <1>2, CtxFacts DEF Alone, NoLocal

LEMMA ProbeOwes ==
    ASSUME NEW w \in Threads, NEW t \in Tunnels, Ctx(w, t),
           ReadAssigned(w) \/ ProbeAssigned(w) \/ Verdicts(w)
    PROVE  Owes(w, t)
<1> USE CtxFacts DEF AddPC
<1>1. t = loc[w].tid /\ TypeOK BY DEF Ctx, Typed
<1>2. pc[w] \in {"h_assigned", "h_probe", "h_verdict"} /\ owner' = owner /\ row' = row
  BY DEF ReadAssigned, ProbeAssigned, Verdicts, At, dbVars
<1>3. pc[w] \in PassPC /\ ~Loud(w) BY <1>2, QuietAt DEF PassPC
<1>4. /\ row[t] \in Row /\ Cardinality(Owned(t)) <= row[t].granted /\ row[t] # None
      /\ row[t].granted \in Nat
  BY <1>2, <1>3, Covered, RowNats
<1>5. Owned(t)' = Owned(t) BY <1>2 DEF Owned
<1>6. Base(t)' BY <1>2, <1>3, QuietBase
<1>7. CASE ReadAssigned(w)
  <2>1. /\ pc'[w] \in {"h_verdict", "h_probe"} /\ loc'[w] = [loc[w] EXCEPT !.nodes = Owned(t)]
    BY <1>1, <1>7 DEF ReadAssigned, Goto, TypeOK
  <2>2. loc'[w].nodes = Owned(t) /\ loc'[w].tid = t BY <1>1, <2>1 DEF Local
  <2>3. Held(w)' = Owned(t) BY <1>5, <2>2 DEF Held
  <2>4. Fits(w)' BY <1>2, <1>4, <2>1, <2>2, <2>3 DEF Fits
  <2> QED BY <1>6, <2>4 DEF Owes
<1>8. CASE ProbeAssigned(w)
  <2>1. PICK ok \in SUBSET loc[w].nodes : Goto(w, "h_verdict", [loc[w] EXCEPT !.ok = ok])
    BY <1>8 DEF ProbeAssigned
  <2>2. pc[w] = "h_probe" /\ pc'[w] = "h_verdict" /\ loc'[w].nodes = loc[w].nodes /\ loc'[w].tid = t
    BY <1>1, <1>8, <2>1 DEF ProbeAssigned, At, Goto, TypeOK, Local
  <2>3. Held(w)' = Held(w) BY <1>1, <1>5, <2>2 DEF Held
  <2>4. Cardinality(Held(w)) <= row[t].granted BY <1>1, <2>2 DEF Fits
  <2>5. Fits(w)' BY <1>2, <1>4, <2>2, <2>3, <2>4 DEF Fits
  <2> QED BY <1>6, <2>5 DEF Owes
<1>9. CASE Verdicts(w)
  <2>1. CASE pc'[w] = "h_exit" BY <1>2, <1>3, <2>1, PlainOwes DEF SpecialPC
  <2>2. CASE pc'[w] # "h_exit"
    <3>1. pc[w] = "h_verdict" /\ pc'[w] = "h_swap"
          /\ loc'[w] = [loc[w] EXCEPT !.nodes = StruckOut(w), !.ok = {},
                                      !.changed = StruckOut(w) # {}]
      BY <1>1, <1>9, <2>2 DEF Verdicts, At, Goto, TypeOK
    <3>2. loc'[w].nodes = StruckOut(w) /\ loc'[w].tid = t BY <1>1, <3>1 DEF Local
    <3>3. StruckOut(w) \subseteq loc[w].nodes BY DEF StruckOut
    <3> DEFINE held == Owned(t) \cup loc[w].nodes
               held1 == Owned(t) \cup StruckOut(w)
    <3>4. Held(w) = held /\ Held(w)' = held1 BY <1>1, <1>5, <3>2 DEF Held
    <3>5. held \in SUBSET Nodes /\ held1 \in SUBSET held BY <3>3, OwnedNodes
    <3> HIDE DEF held, held1
    <3>6. /\ Cardinality(held) \in Nat /\ Cardinality(held1) \in Nat
          /\ Cardinality(held1) <= Cardinality(held)
      BY <3>5, Sizes
    <3>7. Cardinality(held) <= row[t].granted BY <1>1, <3>1, <3>4 DEF Fits
    <3>8. Cardinality(held1) <= row[t].granted BY <1>4, <3>6, <3>7
    <3>9. Fits(w)' BY <1>2, <1>4, <3>1, <3>2, <3>4, <3>8 DEF Fits
    <3> QED BY <1>6, <3>9 DEF Owes
  <2> QED BY <2>1, <2>2
<1> QED BY <1>7, <1>8, <1>9

LEMMA SwapOwes ==
    ASSUME NEW w \in Threads, NEW t \in Tunnels, Ctx(w, t), SwapOut(w)
    PROVE  Owes(w, t)
<1> USE CtxFacts DEF AddPC
<1>1. t = loc[w].tid /\ TypeOK BY DEF Ctx, Typed
<1>2. pc[w] = "h_swap" /\ row' = row BY DEF SwapOut, At
<1>3. pc[w] \in PassPC /\ ~Loud(w) BY <1>2, QuietAt DEF PassPC, CritPC
<1>4. row[t] \in Row /\ row[t] # None /\ row[t].granted \in Nat BY <1>3, RowNats
<1>5. Base(t)' BY <1>2, <1>3, QuietBase
<1>6. CASE loc[w].nodes = {}
  <2>1. pc'[w] = "h_topup" BY <1>1, <1>6 DEF SwapOut, Goto, TypeOK
  <2> QED BY <1>2, <1>3, <2>1, PlainOwes DEF SpecialPC
<1>7. CASE loc[w].nodes # {}
  <2>1. PICK n \in loc[w].nodes :
          /\ owner' = [owner EXCEPT ![n] = None]
          /\ Goto(w, "h_drop_read", [loc[w] EXCEPT !.nodes = @ \ {n}])
    BY <1>7 DEF SwapOut
  <2>2. n \in Nodes OBVIOUS
  <2>3. pc'[w] = "h_drop_read" /\ loc'[w].nodes = loc[w].nodes \ {n} /\ loc'[w].tid = t
    BY <1>1, <2>1 DEF Goto, TypeOK, Local
  <2>4. Owned(t)' = Owned(t) \ {n}
    <3>1. t # None BY EngineAssumption
    <3> QED BY <1>1, <2>1, <2>2, <3>1 DEF Owned, TypeOK
  <2> DEFINE held == Owned(t) \cup loc[w].nodes
  <2>5. Held(w) = held /\ Held(w)' = held \ {n} /\ n \in held
    BY <1>1, <2>1, <2>3, <2>4 DEF Held
  <2>6. held \in SUBSET Nodes BY OwnedNodes
  <2> HIDE DEF held
  <2>7. IsFiniteSet(held) /\ Cardinality(held) \in Nat BY <2>6, Sizes
  <2>8. Cardinality(held \ {n}) = Cardinality(held) - 1 BY <2>5, <2>7, FS_RemoveElement
  <2>9. Cardinality(held) <= row[t].granted BY <1>1, <1>2, <2>5 DEF Fits
  <2>10. Cardinality(Held(w)') + 1 <= row[t].granted BY <1>4, <2>5, <2>7, <2>8, <2>9
  <2>11. Fits(w)' BY <1>2, <1>4, <2>3, <2>10 DEF Fits
  <2> QED BY <1>5, <2>11 DEF Owes
<1> QED BY <1>6, <1>7

LEMMA DropOwes ==
    ASSUME NEW w \in Threads, NEW t \in Tunnels, Ctx(w, t), DropRead(w) \/ DropSave(w)
    PROVE  Owes(w, t) /\ (DropRead(w) => ~Loud(w))
<1> USE CtxFacts DEF AddPC
<1>1. t = loc[w].tid /\ TypeOK BY DEF Ctx, Typed
<1>2. pc[w] \in {"h_drop_read", "h_drop_save"} /\ owner' = owner
  BY DEF DropRead, DropSave, BumpRead, BumpSave, At, dbVars
<1>3. pc[w] \in PassPC BY <1>2 DEF PassPC, CritPC
<1>4. row[t] \in Row /\ row[t] # None /\ row[t].granted \in Nat /\ row[t].req \in Nat
  BY <1>3, RowNats
<1>5. Owned(t)' = Owned(t) BY <1>2 DEF Owned
<1> DEFINE held == Owned(t) \cup loc[w].nodes
<1>6. Held(w) = held BY <1>1 DEF Held
<1>7. held \in SUBSET Nodes /\ Owned(t) \in SUBSET held BY OwnedNodes
<1>8. /\ (loc'[w].tid = t /\ loc'[w].nodes = loc[w].nodes) => Held(w)' = held
  BY <1>5 DEF Held
<1> HIDE DEF held
<1>9. /\ Cardinality(held) \in Nat /\ Cardinality(Owned(t)) \in Nat
      /\ Cardinality(Owned(t)) <= Cardinality(held)
  BY <1>7, Sizes
<1>10. CASE DropRead(w)
  <2>1. pc[w] = "h_drop_read" /\ row' = row BY <1>10 DEF DropRead, BumpRead, At, dbVars
  <2>2. ~Loud(w) BY <2>1, QuietAt
  <2> DEFINE g == IF row[t].granted + (-1) > 0 THEN row[t].granted + (-1) ELSE 0
             y == [row[t] EXCEPT !.granted = g, !.state = "running"]
  <2>3. pc'[w] = "h_drop_save" /\ loc'[w] = [loc[w] EXCEPT !.snap = y]
    BY <1>1, <1>4, <1>10 DEF DropRead, BumpRead, Goto, TypeOK
  <2>4. y.granted = g /\ y.req = row[t].req BY <1>4 DEF Row
  <2>5. Cardinality(held) + 1 <= row[t].granted BY <1>1, <1>6, <2>1 DEF Fits
  <2>6. Cardinality(held) <= g /\ g <= row[t].granted BY <1>4, <1>9, <2>5
  <2>7. row[t].granted <= row[t].req /\ g \in Nat BY <1>2, <1>3, <1>4, Covered
  <2> HIDE DEF g, y
  <2>8. loc'[w].snap = y /\ loc'[w].tid = t /\ loc'[w].nodes = loc[w].nodes
    BY <1>1, <2>3 DEF Local
  <2>9. Cardinality(Held(w)') <= y.granted /\ y.granted <= y.req
    BY <1>4, <1>8, <2>4, <2>6, <2>7, <2>8
  <2>10. Fits(w)' BY <1>4, <2>1, <2>3, <2>8, <2>9 DEF Fits
  <2>11. Base(t)' BY <2>1, <2>2, QuietBase
  <2> QED BY <2>2, <2>10, <2>11 DEF Owes
<1>11. CASE DropSave(w)
  <2>1. pc[w] = "h_drop_save" BY <1>11 DEF DropSave, BumpSave, At
  <2>2. loc[w].snap \in Row BY <2>1 DEF SnapPC
  <2>3. /\ Cardinality(held) <= loc[w].snap.granted
        /\ loc[w].snap.granted <= loc[w].snap.req
    BY <1>1, <1>6, <2>1 DEF Fits
  <2>4. ~DropRead(w) BY <2>1 DEF DropRead, BumpRead, At
  <2>5. loc'[w] = loc[w] /\ \/ row' = row /\ pc'[w] = "h_exit"
                            \/ row'[t] = loc[w].snap /\ pc'[w] = "h_swap"
    BY <1>1, <1>11 DEF DropSave, BumpSave, Goto, TypeOK
  <2>6. CASE row' = row /\ pc'[w] = "h_exit"
    <3>1. Adding(t) => Adding(t)' BY <2>1 DEF Adding, Alone
    <3>2. Base(t)' BY <1>1, <1>5, <2>6, <3>1, BaseKept DEF Ctx
    <3>3. Fits(w)' BY <1>1, <1>4, <2>5, <2>6, PlainFits DEF SpecialPC
    <3> QED BY <2>4, <3>2, <3>3 DEF Owes
  <2>7. CASE row'[t] = loc[w].snap /\ pc'[w] = "h_swap"
    <3>1. Cardinality(Owned(t)') <= loc[w].snap.granted BY <1>5, <1>9, <2>2, <2>3, RowNats
    <3>2. Base(t)' BY <2>2, <2>3, <2>7, <3>1, SavedBase
    <3>3. Cardinality(Held(w)') <= row'[t].granted BY <1>1, <1>8, <2>3, <2>5, <2>7
    <3>4. row'[t] # None BY <2>2, <2>7, NoneIsNoRow
    <3>5. Fits(w)' BY <1>1, <2>5, <2>7, <3>3, <3>4 DEF Fits
    <3> QED BY <2>4, <3>2, <3>5 DEF Owes
  <2> QED BY <2>5, <2>6, <2>7
<1> QED BY <1>10, <1>11

LEMMA TopUpOwes ==
    ASSUME NEW w \in Threads, NEW t \in Tunnels, Ctx(w, t), TopUpPick(w) \/ TopUpAssign(w)
    PROVE  Owes(w, t) /\ (TopUpPick(w) => ~Loud(w))
<1> USE CtxFacts DEF AddPC
<1>1. t = loc[w].tid /\ TypeOK BY DEF Ctx, Typed
<1>2. pc[w] \in {"h_topup", "h_assign"} /\ row' = row
  BY DEF TopUpPick, TopUpAssign, At, dbVars
<1>3. pc[w] \in PassPC BY <1>2 DEF PassPC, CritPC
<1>4. row[t] \in Row /\ row[t] # None /\ row[t].granted \in Nat /\ row[t].req \in Nat
  BY <1>3, RowNats
<1>5. Cardinality(Owned(t)) <= row[t].granted /\ row[t].granted <= row[t].req
  BY <1>2, <1>3, Covered
<1>6. CASE TopUpPick(w)
  <2>1. pc[w] = "h_topup" BY <1>6 DEF TopUpPick, At
  <2>2. ~Loud(w) BY <2>1, QuietAt
  <2>3. CASE pc'[w] = "h_leave" BY <2>1, <2>2, <2>3, PlainOwes DEF SpecialPC
  <2>4. CASE pc'[w] # "h_leave"
    <3>1. /\ row[t].granted < row[t].req
          /\ \E P \in BestOf(row[t].req - row[t].granted) :
               Goto(w, IF P = {} THEN "h_leave" ELSE "h_assign", [loc[w] EXCEPT !.nodes = P])
      <4>1. ~(row[t] = None \/ row[t].granted >= row[t].req)
        BY <1>1, <1>6, <2>4 DEF TopUpPick, Goto, TypeOK
      <4> QED BY <1>1, <1>4, <1>6, <4>1 DEF TopUpPick
    <3>2. PICK P \in BestOf(row[t].req - row[t].granted) :
            Goto(w, "h_assign", [loc[w] EXCEPT !.nodes = P])
      BY <1>1, <2>4, <3>1 DEF Goto, TypeOK
    <3>3. pc'[w] = "h_assign" /\ loc'[w].nodes = P /\ loc'[w].tid = t
      BY <1>1, <3>2 DEF Goto, TypeOK, Local
    <3>4. Cardinality(P) \in Nat BY <1>1, PickOK
    <3>5. Cardinality(P) <= row[t].req - row[t].granted
      <4>1. Free \in SUBSET Nodes BY <1>1 DEF Free, TypeOK
      <4>2. Cardinality(Free) \in Nat BY <4>1, Sizes
      <4>3. row[t].req - row[t].granted \in Int BY <1>4
      <4> QED BY <4>2, <4>3 DEF BestOf
    <3>6. row[t].granted + Cardinality(P) <= row[t].req BY <1>4, <3>4, <3>5
    <3>7. Fits(w)' BY <1>2, <1>4, <3>3, <3>6 DEF Fits
    <3>8. Base(t)' BY <2>1, <2>2, QuietBase
    <3> QED BY <2>2, <3>7, <3>8 DEF Owes
  <2> QED BY <2>3, <2>4
<1>7. CASE TopUpAssign(w)
  <2>1. /\ pc[w] = "h_assign" /\ pc'[w] = "h_add_read"
        /\ loc'[w] = [loc[w] EXCEPT !.changed = TRUE]
        /\ owner' = [n \in Nodes |-> IF n \in loc[w].nodes THEN t ELSE owner[n]]
    BY <1>1, <1>7 DEF TopUpAssign, At, Goto, TypeOK
  <2>2. loc'[w].nodes = loc[w].nodes /\ loc'[w].tid = t BY <1>1, <2>1 DEF Local
  <2>3. ~TopUpPick(w) BY <2>1 DEF TopUpPick, At
  <2> DEFINE sum == Owned(t) \cup loc[w].nodes
  <2>4. Owned(t)' = sum BY <2>1 DEF Owned
  <2>5. Cardinality(sum) <= Cardinality(Owned(t)) + Cardinality(loc[w].nodes)
    <3>1. Owned(t) \in SUBSET Nodes BY OwnedNodes
    <3>2. IsFiniteSet(Owned(t)) /\ IsFiniteSet(loc[w].nodes) BY <3>1, Sizes
    <3>3. /\ Cardinality(sum) = Cardinality(Owned(t)) + Cardinality(loc[w].nodes)
                                  - Cardinality(Owned(t) \cap loc[w].nodes)
      BY <3>2, FS_Union
    <3>4. Owned(t) \cap loc[w].nodes \in SUBSET Nodes BY <3>1
    <3>5. Cardinality(Owned(t) \cap loc[w].nodes) \in Nat BY <3>4, Sizes
    <3>6. Cardinality(Owned(t)) \in Nat /\ Cardinality(loc[w].nodes) \in Nat BY OwnedSizes
    <3> QED BY <3>3, <3>5, <3>6
  <2>6. sum \in SUBSET Nodes BY OwnedNodes
  <2> HIDE DEF sum
  <2>7. Cardinality(sum) \in Nat /\ Cardinality(Owned(t)) \in Nat /\ Cardinality(loc[w].nodes) \in Nat
    BY <2>6, Sizes, OwnedSizes
  <2>8. row[t].granted + Cardinality(loc[w].nodes) <= row[t].req BY <1>1, <2>1 DEF Fits
  <2>9. Cardinality(Owned(t)') <= row[t].granted + Cardinality(loc[w].nodes)
    BY <1>4, <1>5, <2>4, <2>5, <2>7
  <2>10. Fits(w)' BY <1>2, <1>4, <2>1, <2>2, <2>8, <2>9 DEF Fits
  <2>11. Adding(t)' BY <2>1, <2>2 DEF Adding
  <2>12. Base(t)' BY <1>2, <1>5, <2>11 DEF Base
  <2> QED BY <2>3, <2>10, <2>12 DEF Owes
<1> QED BY <1>6, <1>7

LEMMA AddOwes ==
    ASSUME NEW w \in Threads, NEW t \in Tunnels, Ctx(w, t), AddRead(w) \/ AddSave(w)
    PROVE  Owes(w, t) /\ (AddRead(w) => ~Loud(w))
<1> USE CtxFacts
<1>1. t = loc[w].tid /\ TypeOK BY DEF Ctx, Typed
<1>2. pc[w] \in AddPC /\ owner' = owner
  BY DEF AddRead, AddSave, BumpRead, BumpSave, At, dbVars, AddPC
<1>3. pc[w] \in PassPC BY <1>2 DEF PassPC, CritPC, AddPC
<1>4. row[t] \in Row /\ row[t] # None /\ row[t].granted \in Nat /\ row[t].req \in Nat
  BY <1>3, RowNats
<1>5. Owned(t)' = Owned(t) BY <1>2 DEF Owned
<1>6. Cardinality(Owned(t)) \in Nat /\ Cardinality(loc[w].nodes) \in Nat BY OwnedSizes
<1>7. CASE AddRead(w)
  <2>1. pc[w] = "h_add_read" /\ row' = row BY <1>7 DEF AddRead, BumpRead, At, dbVars
  <2>2. ~Loud(w) BY <2>1, QuietAt
  <2> DEFINE k == Cardinality(loc[w].nodes)
             g == IF row[t].granted + k > 0 THEN row[t].granted + k ELSE 0
             y == [row[t] EXCEPT !.granted = g, !.state = "running"]
  <2>3. pc'[w] = "h_add_save" /\ loc'[w] = [loc[w] EXCEPT !.snap = y]
    BY <1>1, <1>4, <1>7 DEF AddRead, BumpRead, Goto, TypeOK
  <2>4. y.granted = g /\ y.req = row[t].req /\ y.port = row[t].port BY <1>4 DEF Row
  <2>5. Cardinality(Owned(t)) <= row[t].granted + k /\ row[t].granted + k <= row[t].req
    BY <1>1, <2>1 DEF Fits
  <2>6. k \in Nat BY <1>6
  <2>7. g = row[t].granted + k
    <3> HIDE DEF k
    <3> QED BY <1>4, <2>6
  <2> HIDE DEF k, g, y
  <2>8. loc'[w].snap = y /\ loc'[w].tid = t BY <1>1, <2>3 DEF Local
  <2>9. Fits(w)' BY <1>1, <1>4, <1>5, <2>1, <2>3, <2>4, <2>5, <2>7, <2>8 DEF Fits
  <2>10. Adding(t)' BY <2>3, <2>8 DEF Adding, AddPC
  <2>11. Base(t)' BY <2>1, <2>10 DEF Base
  <2> QED BY <2>2, <2>9, <2>11 DEF Owes
<1>8. CASE AddSave(w)
  <2>1. pc[w] = "h_add_save" BY <1>8 DEF AddSave, BumpSave, At
  <2>2. loc[w].snap \in Row BY <2>1 DEF SnapPC
  <2>3. /\ Cardinality(Owned(t)) <= loc[w].snap.granted
        /\ loc[w].snap.granted <= loc[w].snap.req
        /\ loc[w].snap.port = row[t].port
    BY <1>1, <2>1 DEF Fits
  <2>4. ~AddRead(w) BY <2>1 DEF AddRead, BumpRead, At
  <2>5. PortUnique(t, loc[w].snap.port)
    BY <1>4, <2>3 DEF PortUnique, PortsDiffer, Ctx
  <2>6. loc'[w] = loc[w] /\ row'[t] = loc[w].snap /\ pc'[w] = "h_leave"
    BY <1>1, <1>8, <2>5 DEF AddSave, BumpSave, Goto, TypeOK
  <2>7. Base(t)' BY <1>5, <2>2, <2>3, <2>6, SavedBase
  <2>8. row'[t] # None BY <2>2, <2>6, NoneIsNoRow
  <2>9. Fits(w)' BY <1>1, <2>6, <2>8, PlainFits DEF SpecialPC
  <2> QED BY <2>4, <2>7, <2>9 DEF Owes
<1> QED BY <1>7, <1>8

LEMMA PasserOwes ==
    ASSUME NEW w \in Threads, NEW t \in Tunnels, Ctx(w, t), PassStep(w) \/ RollStep(w)
    PROVE  /\ Owes(w, t)
           /\ \/ row'[t] = row[t] /\ Owned(t)' \subseteq Owned(t)
              \/ pc[w] \in PassPC /\ row'[t] # None
<1> USE CtxFacts
<1>1. t = loc[w].tid /\ TypeOK BY DEF Ctx, Typed
<1>2. ~Loud(w) => row'[t] = row[t] /\ Owned(t)' \subseteq Owned(t) BY QuietStep DEF Ctx
<1>3. ASSUME pc[w] \in {"h_enter", "h_leave", "h_exit", "r_plan", "r_remove", "r_run", "r_done",
                        "h_heal"},
             pc'[w] \in {"idle", "h_exit", "h_assigned", "h_heal", "r_plan", "r_remove",
                         "r_run", "r_done"}
      PROVE  Owes(w, t) /\ ~Loud(w)
  <2>1. ~Loud(w) BY <1>3, QuietAt
  <2>2. pc[w] \notin AddPC /\ pc'[w] \notin SpecialPC BY <1>3 DEF AddPC, SpecialPC
  <2> QED BY <2>1, <2>2, PlainOwes
<1>4. CASE EnterPass(w) \/ LeaveLock(w) \/ ExitPass(w)
  <2>1. /\ pc[w] \in {"h_enter", "h_leave", "h_exit"}
        /\ pc'[w] \in {"idle", "h_exit", "h_assigned", "r_plan", "h_heal"}
    BY <1>1, <1>4 DEF EnterPass, LeaveLock, ExitPass, At, Goto, Finish, TypeOK
  <2> QED BY <1>2, <1>3, <2>1
<1>5. CASE RollStep(w)
  <2>1. pc[w] \in {"r_plan", "r_remove", "r_run", "r_done", "h_heal"}
    BY <1>5 DEF RollStep, PlanRoll, RollRemove, RollRun, RollDone, SelfHeal, SelfHealBlind, At
  <2>2. pc'[w] \in {"h_exit", "h_heal", "r_plan", "r_remove", "r_run", "r_done"}
    <3>1. CASE PlanRoll(w) BY <1>1, <3>1 DEF PlanRoll, AfterRoll, Goto, TypeOK
    <3>2. CASE RollRemove(w) BY <1>1, <3>2 DEF RollRemove, AfterRoll, Goto, TypeOK
    <3>3. CASE RollRun(w) BY <1>1, <3>3 DEF RollRun, Run, AfterRoll, Goto, TypeOK
    <3>4. CASE RollDone(w) BY <1>1, <3>4 DEF RollDone, AfterRoll, Goto, TypeOK
    <3>5. CASE SelfHeal(w) \/ SelfHealBlind(w)
      BY <1>1, <3>5 DEF SelfHeal, SelfHealBlind, Goto, TypeOK
    <3> QED BY <1>5, <3>1, <3>2, <3>3, <3>4, <3>5 DEF RollStep
  <2> QED BY <1>2, <1>3, <2>1, <2>2
<1>6. CASE ReadAssigned(w) \/ ProbeAssigned(w) \/ Verdicts(w)
  <2>1. ~Loud(w)
    <3>1. pc[w] \in {"h_assigned", "h_probe", "h_verdict"}
      BY <1>6 DEF ReadAssigned, ProbeAssigned, Verdicts, At
    <3> QED BY <3>1, QuietAt
  <2> QED BY <1>2, <1>6, <2>1, ProbeOwes
<1>7. CASE SwapOut(w)
  <2>1. pc[w] = "h_swap" BY <1>7 DEF SwapOut, At
  <2>2. ~Loud(w) BY <2>1, QuietAt
  <2> QED BY <1>2, <1>7, <2>2, SwapOwes
<1>8. CASE DropRead(w) \/ TopUpPick(w) \/ AddRead(w)
  BY <1>2, <1>8, DropOwes, TopUpOwes, AddOwes
<1>9. CASE DropSave(w) \/ TopUpAssign(w) \/ AddSave(w)
  <2>1. Owes(w, t) BY <1>9, DropOwes, TopUpOwes, AddOwes
  <2>2. pc[w] \in {"h_drop_save", "h_assign", "h_add_save"}
    BY <1>9 DEF DropSave, AddSave, BumpSave, TopUpAssign, At
  <2>3. pc[w] \in PassPC BY <2>2 DEF PassPC, CritPC
  <2>4. row[t] # None /\ (pc[w] \in SnapPC => loc[w].snap # None) BY <2>3, RowNats
  <2>5. row' = row \/ (row' = [row EXCEPT ![t] = loc[w].snap] /\ pc[w] \in SnapPC)
    BY <1>1, <1>9 DEF DropSave, AddSave, BumpSave, TopUpAssign, At, SnapPC
  <2>6. row'[t] # None BY <1>1, <2>4, <2>5 DEF TypeOK
  <2> QED BY <2>1, <2>3, <2>6
<1> QED BY <1>4, <1>5, <1>6, <1>7, <1>8, <1>9 DEF PassStep

\* A call's step leaves every tunnel sound that is not on its way out.
LEMMA SoundCall ==
    ASSUME Typed, Typed', FreshInv, FlightInv, CreatorInv, PortsDiffer,
           NEW w \in Threads, CallStep(w), NEW u \in Tunnels, Sound(u), ~Doomed(u), ~Doomed(u)'
    PROVE  Sound(u)'
<1>1. CASE u # loc[w].tid BY <1>1, SoundElsewhere
<1>2. CASE u = loc[w].tid
  <2>1. Ctx(w, u) BY <1>2 DEF Ctx
  <2>2. CASE CreateStep(w)
    <3>1. /\ Owes(w, u)
          /\ \/ row'[u] = row[u] /\ Owned(u)' \subseteq Owned(u)
             \/ Creating(w)
      BY <2>1, <2>2, CreatorOwes
    <3> QED BY <1>2, <3>1, SoundOwn
  <2>3. CASE DeleteStep(w)
    <3>1. /\ Owes(w, u)
          /\ \/ row'[u] = row[u] /\ Owned(u)' \subseteq Owned(u)
             \/ Creating(w)
      BY <2>1, <2>3, DeleterOwes
    <3> QED BY <1>2, <3>1, SoundOwn
  <2>4. CASE PassStep(w) \/ RollStep(w)
    <3>1. /\ Owes(w, u)
          /\ \/ row'[u] = row[u] /\ Owned(u)' \subseteq Owned(u)
             \/ pc[w] \in PassPC /\ row'[u] # None
      BY <2>1, <2>4, PasserOwes
    <3> QED BY <1>2, <3>1, SoundOwn
  <2> QED BY <2>2, <2>3, <2>4 DEF CallStep
<1> QED BY <1>1, <1>2

\* A thread takes on a call: what the other threads hold stays as it was.
LEMMA SoundBegin ==
    ASSUME Typed, Typed', FreshInv, NEW w \in Threads, pc[w] = "idle", NEW label, NEW l,
           Goto(w, label, l), row' = row, owner' = owner,
           NEW u \in Tunnels, Sound(u), l.tid = u => Fits(w)', label # "idle"
    PROVE  Sound(u)'
<1>1. /\ pc'[w] = label /\ loc'[w] = l
      /\ \A v \in Threads \ {w} : pc'[v] = pc[v] /\ loc'[v] = loc[v]
  BY DEF Goto, Typed, TypeOK
<1>2. Owned(u)' = Owned(u) /\ row'[u] = row[u] BY DEF Owned
<1>3. Adding(u) => Adding(u)' BY <1>1 DEF Adding, AddPC
<1>4. Base(u)' BY <1>2, <1>3, BaseKept DEF Sound
<1>5. ASSUME NEW v \in Threads, loc'[v].tid = u PROVE Fits(v)'
  <2>1. CASE v = w BY <1>1, <1>5, <2>1
  <2>2. CASE v # w
    <3>1. pc'[v] = pc[v] /\ loc'[v] = loc[v] /\ loc[v].tid = u BY <1>1, <1>5, <2>2
    <3>2. Fits(v) BY <3>1 DEF Sound
    <3>3. Owned(loc[v].tid)' \subseteq Owned(loc[v].tid) BY <1>2, <3>1
    <3> QED BY <1>2, <3>1, <3>2, <3>3, FitsKept
  <2> QED BY <2>1, <2>2
<1> QED BY <1>4, <1>5 DEF Sound

LEMMA SoundRequest ==
    ASSUME Typed, Typed', MintInv, FreshInv, OwnMinted, NEW w \in Threads, Request(w),
           NEW u \in Tunnels, Sound(u)
    PROVE  Sound(u)'
<1>1. CASE CreateRequest(w)
  <2>1. PICK t \in Tunnels \ minted, k \in Requests, p \in Ports :
          Goto(w, "c_pick",
               [NoLocal EXCEPT !.op = "create", !.tid = t,
                  !.snap = [state |-> "starting", port |-> p, req |-> k, granted |-> 0]])
    BY <1>1 DEF CreateRequest
  <2> DEFINE l == [NoLocal EXCEPT !.op = "create", !.tid = t,
                     !.snap = [state |-> "starting", port |-> p, req |-> k, granted |-> 0]]
  <2>2. l.op = "create" /\ l.tid = t BY DEF NoLocal
  <2> HIDE DEF l
  <2>3. pc[w] = "idle" /\ row' = row /\ owner' = owner
    BY <1>1 DEF CreateRequest, At, dbVars
  <2>4. Goto(w, "c_pick", l) BY <2>1 DEF l
  <2>5. pc'[w] = "c_pick" /\ loc'[w] = l BY <2>4 DEF Goto, Typed, TypeOK
  <2>6. row[t] = None BY DEF MintInv
  <2>7. Owned(t)' = {}
    <3>1. t # None BY EngineAssumption
    <3> QED BY <2>3, <3>1 DEF Owned, OwnMinted
  <2>8. Fits(w)' BY <2>2, <2>3, <2>5, <2>6, <2>7 DEF Fits
  <2> QED BY <2>3, <2>4, <2>8, SoundBegin
<1>2. CASE DeleteRequest(w)
  <2>1. PICK t \in Tunnels : Goto(w, "d_stop", [NoLocal EXCEPT !.op = "delete", !.tid = t])
    BY <1>2 DEF DeleteRequest
  <2> DEFINE l == [NoLocal EXCEPT !.op = "delete", !.tid = t]
  <2>2. l.op = "delete" BY DEF NoLocal
  <2> HIDE DEF l
  <2>3. pc[w] = "idle" /\ row' = row /\ owner' = owner
    BY <1>2 DEF DeleteRequest, At, dbVars
  <2>4. Goto(w, "d_stop", l) BY <2>1 DEF l
  <2>5. loc'[w] = l BY <2>4 DEF Goto, Typed, TypeOK
  <2>6. Fits(w)' BY <2>2, <2>5, DeleteFits
  <2> QED BY <2>3, <2>4, <2>6, SoundBegin
<1>3. CASE RenewRequest(w)
  <2>1. PICK t \in Tunnels :
          /\ row[t] # None
          /\ Goto(w, "h_enter", [NoLocal EXCEPT !.op = "health", !.tid = t,
                                   !.stale = (row[t].state = "starting")])
    BY <1>3 DEF RenewRequest
  <2> DEFINE l == [NoLocal EXCEPT !.op = "health", !.tid = t,
                     !.stale = (row[t].state = "starting")]
  <2>2. l.tid = t BY DEF NoLocal
  <2> HIDE DEF l
  <2>3. pc[w] = "idle" /\ row' = row /\ owner' = owner
    BY <1>3 DEF RenewRequest, At, dbVars
  <2>4. Goto(w, "h_enter", l) BY <2>1 DEF l
  <2>5. pc'[w] = "h_enter" /\ loc'[w] = l BY <2>4 DEF Goto, Typed, TypeOK
  <2>6. Fits(w)' BY <2>1, <2>2, <2>3, <2>5, PlainFits DEF SpecialPC
  <2> QED BY <2>3, <2>4, <2>6, SoundBegin
<1> QED BY <1>1, <1>2, <1>3 DEF Request

LEMMA SoundLoop ==
    ASSUME Typed, Typed', FreshInv, crashes = 0, LoopNext, NEW u \in Tunnels, Sound(u), ~Doomed(u)
    PROVE  Sound(u)'
<1>1. PICK q \in queue :
        Goto(Loop, "h_enter", [NoLocal EXCEPT !.op = "health", !.tid = q[1], !.stale = q[2]])
  BY DEF LoopNext
<1> DEFINE l == [NoLocal EXCEPT !.op = "health", !.tid = q[1], !.stale = q[2]]
<1>2. l.tid = q[1] /\ l.stale = q[2] BY DEF NoLocal
<1> HIDE DEF l
<1>3. Loop \in Threads /\ pc[Loop] = "idle" /\ row' = row /\ owner' = owner
  BY DEF LoopNext, At, dbVars, Threads
<1>4. Goto(Loop, "h_enter", l) BY <1>1 DEF l
<1>5. pc'[Loop] = "h_enter" /\ loc'[Loop] = l BY <1>3, <1>4 DEF Goto, Typed, TypeOK
<1>6. ASSUME l.tid = u PROVE Fits(Loop)'
  <2>1. ~q[2] => row[u] # None BY <1>2, <1>6 DEF FreshInv
  <2> QED BY <1>2, <1>3, <1>5, <1>6, <2>1, PlainFits DEF SpecialPC
<1> QED BY <1>3, <1>4, <1>6, SoundBegin

LEMMA SoundWorld ==
    ASSUME Typed, FreshInv, BootIdle, NEW u \in Tunnels, Sound(u),
           LoadTunnels \/ PoolVerdict \/ ContainerStops \/ Boot \/ UNCHANGED vars
    PROVE  Sound(u)'
<1>1. pc' = pc /\ loc' = loc
  BY DEF LoadTunnels, PoolVerdict, ContainerStops, Boot, BootContainers, BootOrphans,
         BootMark, vars
<1>2. CASE LoadTunnels \/ PoolVerdict \/ ContainerStops \/ BootContainers \/ UNCHANGED vars
  <2>1. owner' = owner /\ row' = row
    BY <1>2 DEF LoadTunnels, PoolVerdict, ContainerStops, BootContainers, vars, dbVars
  <2>2. Owned(u)' \subseteq Owned(u) BY <2>1 DEF Owned
  <2> QED BY <1>1, <2>1, <2>2, SoundStill
<1>3. CASE BootOrphans
  <2>1. row' = row BY <1>3 DEF BootOrphans
  <2>2. Owned(u)' \subseteq Owned(u)
    <3>1. u # None BY EngineAssumption
    <3> QED BY <1>3, <3>1 DEF BootOrphans, Owned
  <2> QED BY <1>1, <2>1, <2>2, SoundStill
<1>4. CASE BootMark
  <2>1. \A w \in Threads : loc[w].tid # u
    <3>1. \A w \in Threads : loc[w] = NoLocal BY <1>4 DEF BootMark, BootIdle, Typed, CallInv, Call
    <3> QED BY <3>1, EngineAssumption DEF NoLocal
  <2>2. ~Adding(u) BY <2>1 DEF Adding
  <2>3. Owned(u)' = Owned(u) BY <1>4 DEF BootMark, Owned
  <2>4. CASE row[u] = None
    <3>1. row'[u] = None BY <1>4, <2>4 DEF BootMark
    <3> QED BY <1>1, <2>1, <3>1 DEF Sound, Base
  <2>5. CASE row[u] # None
    <3>1. row[u] \in Row BY <2>5 DEF Typed, TypeOK
    <3>2. row'[u] = [row[u] EXCEPT !.state = "running"] BY <1>4, <2>5 DEF BootMark
    <3>3. row'[u].granted = row[u].granted /\ row'[u].req = row[u].req
      BY <3>1, <3>2 DEF Row
    <3> QED BY <1>1, <2>1, <2>2, <2>3, <2>5, <3>3 DEF Sound, Base
  <2> QED BY <2>4, <2>5
<1> QED BY <1>2, <1>3, <1>4 DEF Boot

LEMMA CountStep ==
    ASSUME Typed, Typed', MintInv, FlightInv, CreatorInv, BootIdle, GrantInv, [Next]_vars
    PROVE  CountInv'
<1> SUFFICES ASSUME crashes' = 0, NEW u \in Tunnels, ~Doomed(u)' PROVE Sound(u)'
  BY DEF CountInv
<1>1. ~Crash
  <2>1. crashes \in Nat BY DEF Typed, TypeOK
  <2> QED BY <2>1 DEF Crash
<1>2. crashes = 0 /\ ~Doomed(u) BY <1>1, CrashesKept, DoomedStays
<1>3. Sound(u) BY <1>2 DEF GrantInv, CountInv
<1>4. ASSUME NEW w \in Threads, CallStep(w) PROVE Sound(u)'
  BY <1>2, <1>3, <1>4, SoundCall DEF GrantInv
<1>5. ASSUME NEW w \in Threads, Request(w) PROVE Sound(u)'
  BY <1>3, <1>5, SoundRequest DEF GrantInv
<1>6. CASE LoopNext BY <1>2, <1>3, <1>6, SoundLoop DEF GrantInv
<1>7. CASE LoadTunnels \/ PoolVerdict \/ ContainerStops \/ Boot \/ UNCHANGED vars
  BY <1>3, <1>7, SoundWorld DEF GrantInv
<1> QED BY <1>1, <1>4, <1>5, <1>6, <1>7 DEF Next, CallStep

LEMMA GrantStep ==
    ASSUME Typed, Typed', MintInv, FlightInv, CreatorInv, BootIdle, GrantInv, [Next]_vars
    PROVE  GrantInv'
BY CountStep, FreshStep, PortsStep, OwnMintedStep DEF GrantInv

LEMMA GrantInit == Init => GrantInv
<1> SUFFICES ASSUME Init PROVE GrantInv OBVIOUS
<1>1. ASSUME NEW t \in Tunnels PROVE Sound(t)
  <2>1. t # None BY EngineAssumption
  <2> QED BY <2>1 DEF Init, Sound, Base, NoLocal
<1>2. "idle" \notin PassPC BY DEF PassPC, CritPC, RollPC
<1> QED BY <1>1, <1>2 DEF Init, GrantInv, CountInv, FreshInv, PortsDiffer, OwnMinted

\* However many passes, swaps, top-ups and failed saves interleave with requests
\* for other tunnels, a tunnel nobody works on holds no more nodes than its row
\* counts, and is counted no more than were asked for, until the process dies.
THEOREM GrantsCover == Spec => []GrantCoversOwned
<1>1. Init => FlightInv /\ CreatorInv /\ BootIdle
  BY DEF Init, FlightInv, Inside, PassPC, CritPC, RollPC, CreatorInv, BootIdle, Creating, NoLocal
<1>2. Typed /\ MintInv /\ (Typed /\ MintInv)'
        /\ FlightInv /\ CreatorInv /\ BootIdle /\ GrantInv /\ [Next]_vars
        => (FlightInv /\ CreatorInv /\ BootIdle /\ GrantInv)'
  BY FlightStep, CreatorStep, BootIdleStep, GrantStep
<1>3. GrantInv => GrantCoversOwned
  <2> SUFFICES ASSUME GrantInv, NEW t \in Tunnels, crashes = 0, row[t] # None,
                      t \notin deleted, Quiet(t)
               PROVE  Cardinality(Owned(t)) <= row[t].granted /\ row[t].granted <= row[t].req
    BY DEF GrantCoversOwned
  <2>1. ~Doomed(t) /\ ~Adding(t) BY DEF Doomed, Adding, Quiet
  <2> QED BY <2>1 DEF GrantInv, CountInv, Sound, Base
<1> QED BY <1>1, <1>2, <1>3, GrantInit, CallsTyped, PTL DEF Spec
=============================================================================
