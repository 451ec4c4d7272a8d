------------------------- MODULE LeaseControlProofs -------------------------
(* Proofs about LeaseControl, for every set of tenants, attempts and        *)
(* threads, every cap and any number of crashes.                            *)
EXTENDS LeaseControl, FiniteSetTheorems, TLAPS

Counted == {a \in Attempts : slot[a] # "none"} \cup links
Ended == {"gone", "back"}
Arrived == {"up", "gone", "back"}
Over == {"refused", "failed", "gone", "back"}

\* The steps at which a create holds the reservation of its attempt.
Pending == {"send", "await", "note", "complete"}

\* An attempt nobody reserved was never used.
FreshUnused ==
    \A a \in Attempts : owner[a] = None =>
        slot[a] = "none" /\ a \notin links /\ row[a] = "unsent"

\* A tunnel that runs or may still come is counted; a linked one has arrived.
LiveCounted ==
    \A a \in Attempts :
        /\ a \in MayLive => a \in Counted
        /\ a \in links => row[a] \in Arrived

\* The attempt of a create is its own, and was reserved for its tenant.
OwnAttempt ==
    /\ \A th \in Threads : loc[th].att # None => owner[loc[th].att] # None
    /\ \A th, ot \in Threads :
          (loc[th].job = "create" /\ loc[ot].job = "create"
             /\ loc[th].att # None /\ loc[th].att = loc[ot].att) => th = ot

\* What a thread at a step knows of its locals l, of the engine's rows R and of
\* the reservations S.
Fits(step, l, R, S) ==
    /\ step \in WithAttempt => l.att # None
    /\ step \in Pending => l.job = "create" /\ S[l.att] # "none"
    /\ step \in {"undo", "compensate", "finally"} => l.job = "create"
    /\ step \in {"delete", "mapping", "sweep", "strike"} => l.job # "create"
    /\ step \in {"scope", "reserve"} => l.att = None
    /\ step = "undo" => S[l.att] = "none"
    /\ step = "send" => R[l.att] = "unsent"
    /\ step \in {"note", "complete", "undo", "compensate", "delete"}
          => R[l.att] \in Arrived
    /\ step \in {"unlink", "strike"} => R[l.att] \in Ended
    /\ (step = "finally" /\ l.release) => S[l.att] = "none" \/ R[l.att] \in Over
    /\ step \in {"list", "sweep", "strike"} => \A b \in l.todo : R[b] \in Arrived
    /\ step = "prune" => /\ \A b \in l.todo : R[b] \in Ended
                         /\ l.job = "create" => l.att = None
                         /\ l.att # None => R[l.att] \in Arrived
    /\ step = "reserve" => l.job = "create"
    /\ step # "idle" => l.ten # None

AllFit == \A th \in Threads : Fits(pc[th], loc[th], row, slot)

WithinCap ==
    \A t \in Tenants : Cardinality({a \in Counted : owner[a] = t}) <= Cap

LeaseInv ==
    TypeOK /\ FreshUnused /\ LiveCounted /\ OwnAttempt /\ WithinCap /\ AllFit

-----------------------------------------------------------------------------
(* A thread moves: what the other threads know stays true.                  *)

\* The engine's stages only advance.
Later(r, s) ==
    /\ r \in Arrived => s \in Arrived
    /\ r \in Ended => s \in Ended
    /\ r \in Over => s \in Over

LEMMA FitsOn ==
    ASSUME NEW step \in Steps, NEW l \in Local,
           NEW R \in [Attempts -> Stages], NEW S, NEW R2 \in [Attempts -> Stages], NEW S2,
           Fits(step, l, R, S),
           \A a \in Attempts : Later(R[a], R2[a]),
           (l.job = "create" /\ l.att # None) =>
               S2[l.att] = S[l.att] /\ (R[l.att] = "unsent" => R2[l.att] = "unsent")
    PROVE  Fits(step, l, R2, S2)
<1>1. l.att \in Attempts \cup {None} /\ l.todo \in SUBSET Attempts BY DEF Local
<1>2. step \in WithAttempt => l.att \in Attempts BY <1>1 DEF Fits
<1>3. l.att # None => Later(R[l.att], R2[l.att]) BY <1>1
<1>4. \A b \in l.todo : Later(R[b], R2[b]) BY <1>1
<1> HIDE DEF Local, Stages, Steps
<1> QED BY <1>2, <1>3, <1>4 DEF Fits, Later, WithAttempt, Pending

\* What a move leaves to be shown is what it says of its own thread.
Harmless(th) ==
    /\ owner' \in [Attempts -> Tenants \cup {None}]
    /\ row' \in [Attempts -> Stages]
    /\ \A a \in Attempts : Later(row[a], row'[a])
    /\ \A a \in Attempts : owner[a] # None => owner'[a] # None
    /\ \A ot \in Threads \ {th} :
          (loc[ot].job = "create" /\ loc[ot].att # None) =>
              /\ slot'[loc[ot].att] = slot[loc[ot].att]
              /\ row[loc[ot].att] = "unsent" => row'[loc[ot].att] = "unsent"

Entitled(th, l) ==
    /\ l.att # None => owner'[l.att] # None
    /\ (l.job = "create" /\ l.att # None) =>
          owner[l.att] = None \/ (loc[th].job = "create" /\ loc[th].att = l.att)

Moved ==
    /\ pc' \in [Threads -> Steps]
    /\ loc' \in [Threads -> Local]
    /\ AllFit'
    /\ OwnAttempt'

LEMMA Move ==
    ASSUME LeaseInv, NEW th \in Threads, NEW step \in Steps, NEW l \in Local,
           Goto(th, step, l), Harmless(th), Entitled(th, l),
           Fits(step, l, row', slot')
    PROVE  Moved
<1>1. /\ pc' \in [Threads -> Steps] /\ loc' \in [Threads -> Local]
      /\ pc'[th] = step /\ loc'[th] = l
      /\ \A ot \in Threads \ {th} : pc'[ot] = pc[ot] /\ loc'[ot] = loc[ot]
  BY DEF LeaseInv, TypeOK, Goto
<1>2. AllFit'
  <2>1. ASSUME NEW ot \in Threads PROVE Fits(pc'[ot], loc'[ot], row', slot')
    <3>1. CASE ot = th BY <3>1, <1>1
    <3>2. CASE ot # th
      <4>1. pc[ot] \in Steps /\ loc[ot] \in Local /\ Fits(pc[ot], loc[ot], row, slot)
            /\ row \in [Attempts -> Stages]
        BY DEF LeaseInv, TypeOK, AllFit
      <4>2. Fits(pc[ot], loc[ot], row', slot')
        BY <3>2, <4>1, FitsOn DEF Harmless
      <4> QED BY <3>2, <4>2, <1>1
    <3> QED BY <3>1, <3>2
  <2> QED BY <2>1 DEF AllFit
<1>3. OwnAttempt'
  <2>1. ASSUME NEW ot \in Threads, loc'[ot].att # None PROVE owner'[loc'[ot].att] # None
    <3>1. CASE ot = th BY <3>1, <2>1, <1>1 DEF Entitled
    <3>2. CASE ot # th
      <4>1. loc[ot].att \in Attempts /\ owner[loc[ot].att] # None
        BY <2>1, <3>2, <1>1 DEF LeaseInv, TypeOK, OwnAttempt, Local
      <4> QED BY <3>2, <4>1, <1>1 DEF Harmless
    <3> QED BY <3>1, <3>2
  <2>2. ASSUME NEW u \in Threads, NEW v \in Threads,
               loc'[u].job = "create", loc'[v].job = "create",
               loc'[u].att # None, loc'[u].att = loc'[v].att
        PROVE u = v
    <3>1. ASSUME NEW ot \in Threads \ {th}, loc[ot].job = "create", loc[ot].att # None
          PROVE ~(l.job = "create" /\ l.att = loc[ot].att)
      BY <3>1 DEF Entitled, LeaseInv, OwnAttempt
    <3> QED BY <2>2, <3>1, <1>1 DEF LeaseInv, OwnAttempt
  <2> QED BY <2>1, <2>2 DEF OwnAttempt
<1> QED BY <1>1, <1>2, <1>3 DEF Moved

\* A move that touches neither reservations nor the engine.
LEMMA Glide ==
    ASSUME LeaseInv, NEW th \in Threads, NEW step \in Steps, NEW l \in Local,
           Goto(th, step, l), UNCHANGED <<owner, slot, row>>,
           Fits(step, l, row, slot), Entitled(th, l)
    PROVE  Moved
<1>1. Harmless(th)
  BY DEF Harmless, Later, LeaseInv, TypeOK
<1> QED BY <1>1, Move

LEMMA Leave ==
    ASSUME LeaseInv, NEW th \in Threads, Return(th), Harmless(th)
    PROVE  Moved
<1>1. NoLocal \in Local /\ "idle" \in Steps BY DEF NoLocal, Local, Steps
<1>2. Fits("idle", NoLocal, row', slot') /\ Entitled(th, NoLocal)
  BY DEF Fits, Entitled, NoLocal, WithAttempt, Pending
<1> QED BY <1>1, <1>2, Move DEF Return

-----------------------------------------------------------------------------
(* What a step may do to the tables and the engine's rows.                  *)

LEMMA InitInv == Init => LeaseInv
<1> SUFFICES ASSUME Init PROVE LeaseInv
  OBVIOUS
<1>1. TypeOK
  BY LeaseAssumption DEF Init, TypeOK, Local, NoLocal, Jobs, Steps, Stages, WithAttempt
<1>2. WithinCap
  <2>1. ASSUME NEW t \in Tenants PROVE {a \in Counted : owner[a] = t} = {}
    BY DEF Init, Counted
  <2> QED BY <2>1, FS_EmptySet, LeaseAssumption DEF WithinCap
<1>3. FreshUnused /\ LiveCounted /\ OwnAttempt /\ AllFit
  BY DEF Init, FreshUnused, LiveCounted, MayLive, OwnAttempt, AllFit, Fits, NoLocal,
         WithAttempt, Pending
<1> QED BY <1>1, <1>2, <1>3 DEF LeaseInv

\* The rest of TypeOK for a step that moved a thread.
Typed ==
    /\ state' \in [Tenants -> {"active", "disabled"}]
    /\ owner' \in [Attempts -> Tenants \cup {None}]
    /\ slot' \in [Attempts -> {"none", "open", "noted"}]
    /\ links' \subseteq Attempts
    /\ row' \in [Attempts -> Stages]
    /\ late' \subseteq Attempts
    /\ undone' \subseteq Attempts
    /\ crashes' \in 0..MaxCrashes

LEMMA MovedTyped == Moved /\ Typed => TypeOK'
BY DEF Moved, Typed, TypeOK, AllFit, Fits

LEMMA CapShrinks ==
    ASSUME LeaseInv, UNCHANGED owner, Counted' \subseteq Counted
    PROVE  WithinCap'
<1>1. ASSUME NEW t \in Tenants
      PROVE  Cardinality({a \in Counted' : owner'[a] = t}) <= Cap
  <2> DEFINE new == {a \in Counted' : owner'[a] = t}
             old == {a \in Counted : owner[a] = t}
  <2>1. old \subseteq Attempts BY DEF LeaseInv, TypeOK, Counted
  <2>2. IsFiniteSet(old) BY <2>1, LeaseAssumption, FS_Subset
  <2>3. new \subseteq old OBVIOUS
  <2>4. Cardinality(new) <= Cardinality(old) BY <2>2, <2>3, FS_Subset
  <2>5. Cardinality(old) \in Nat /\ Cardinality(new) \in Nat
    BY <2>2, <2>3, FS_Subset, FS_CardinalityType
  <2>6. Cardinality(old) <= Cap BY DEF LeaseInv, WithinCap
  <2>7. Cap \in Nat BY LeaseAssumption
  <2> HIDE DEF new, old
  <2>8. Cardinality(new) <= Cap BY <2>4, <2>5, <2>6, <2>7
  <2> QED BY <2>8 DEF new
<1> QED BY <1>1 DEF WithinCap

\* Tables and rows unchanged.
LEMMA Idle ==
    ASSUME LeaseInv, Moved, UNCHANGED <<state, owner, slot, links, row, crashes>>,
           late' \subseteq Attempts, undone' \subseteq Attempts
    PROVE  LeaseInv'
<1>1. Typed BY DEF LeaseInv, TypeOK, Typed
<1>2. WithinCap' BY CapShrinks DEF Counted
<1>3. FreshUnused' /\ LiveCounted'
  BY DEF LeaseInv, FreshUnused, LiveCounted, MayLive, Counted
<1> QED BY <1>1, <1>2, <1>3, MovedTyped DEF LeaseInv, Moved

\* An ownership row of an ended tunnel is dropped.
LEMMA Unlinks ==
    ASSUME LeaseInv, Moved, UNCHANGED <<state, owner, slot, row, late, crashes>>,
           undone' \subseteq Attempts,
           NEW a \in Attempts, row[a] \in Ended, links' = links \ {a}
    PROVE  LeaseInv'
<1>1. Typed BY DEF LeaseInv, TypeOK, Typed
<1>2. WithinCap' BY CapShrinks DEF Counted
<1>3. FreshUnused' BY DEF LeaseInv, FreshUnused
<1>4. LiveCounted' BY DEF LeaseInv, LiveCounted, MayLive, Counted, Ended, Arrived
<1> QED BY <1>1, <1>2, <1>3, <1>4, MovedTyped DEF LeaseInv, Moved

\* The engine deletes a tunnel while it serves th.
LEMMA DeleteHarmless ==
    ASSUME LeaseInv, NEW th \in Threads, NEW a \in Attempts, Deletes(a),
           UNCHANGED <<owner, slot>>
    PROVE  /\ Harmless(th) /\ row' \in [Attempts -> Stages] /\ row'[a] = "gone"
           /\ \A b \in Attempts \ {a} : row'[b] = row[b]
BY DEF Harmless, Deletes, LeaseInv, TypeOK, Later, Stages, Arrived, Ended, Over

LEMMA RowGone ==
    ASSUME LeaseInv, Moved, NEW a \in Attempts, Deletes(a),
           UNCHANGED <<state, owner, slot, links, crashes>>, undone' \subseteq Attempts
    PROVE  LeaseInv'
<1>1. Typed BY DEF LeaseInv, TypeOK, Typed, Deletes, Stages
<1>2. WithinCap' BY CapShrinks DEF Counted
<1>3. row'[a] = "gone" /\ \A b \in Attempts \ {a} : row'[b] = row[b]
  BY DEF Deletes, LeaseInv, TypeOK
<1>4. FreshUnused' BY <1>3 DEF LeaseInv, FreshUnused, Deletes
<1>5. LiveCounted' BY <1>3 DEF LeaseInv, LiveCounted, MayLive, Counted, Arrived
<1> QED BY <1>1, <1>2, <1>4, <1>5, MovedTyped DEF LeaseInv, Moved
-----------------------------------------------------------------------------
(* The invariant holds after every step.                                    *)

\* What is known of the thread that moves.
LEMMA Here ==
    ASSUME LeaseInv, NEW th \in Threads
    PROVE  /\ pc[th] \in Steps /\ loc[th] \in Local
           /\ Fits(pc[th], loc[th], row, slot)
           /\ loc[th].att \in Attempts \cup {None}
           /\ loc[th].todo \in SUBSET Attempts
           /\ pc[th] \in WithAttempt => loc[th].att \in Attempts
BY DEF LeaseInv, TypeOK, AllFit, Local

LEMMA LeaveQuietly ==
    ASSUME LeaseInv, NEW th \in Threads, Return(th), UNCHANGED <<owner, slot, row>>
    PROVE  Moved
<1>1. Harmless(th) BY DEF Harmless, Later, LeaseInv, TypeOK
<1> QED BY <1>1, Leave

\* A thread that keeps its job and its attempt is entitled to it.
LEMMA Keeps ==
    ASSUME LeaseInv, NEW th \in Threads, NEW l,
           \A a \in Attempts : owner[a] # None => owner'[a] # None,
           l.job = loc[th].job, l.att = loc[th].att
    PROVE  Entitled(th, l)
BY Here DEF Entitled, LeaseInv, OwnAttempt

LEMMA InvEnter ==
    ASSUME LeaseInv, NEW th \in Threads, NEW t \in Tenants, NEW job, Enter(th, t, job)
    PROVE  LeaseInv'
<1> DEFINE l == [NoLocal EXCEPT !.job = job, !.ten = t]
<1>1. l \in Local /\ l.att = None /\ l.ten # None /\ "scope" \in Steps
  BY LeaseAssumption DEF Enter, Local, NoLocal, Jobs, Steps
<1>2. Fits("scope", l, row, slot) /\ Entitled(th, l)
  BY <1>1 DEF Fits, Entitled, WithAttempt, Pending
<1>3. Moved
  <2> HIDE DEF l
  <2> QED BY <1>1, <1>2, Glide DEF Enter, l, dbVars, engVars
<1> QED BY <1>3, Idle DEF Enter, dbVars, engVars, sysVars, LeaseInv, TypeOK

LEMMA InvDisable ==
    ASSUME LeaseInv, NEW th \in Threads, NEW t \in Tenants, Disable(th, t)
    PROVE  LeaseInv'
<1> DEFINE l == [NoLocal EXCEPT !.job = "disable", !.ten = t]
<1>1. l \in Local /\ l.att = None /\ l.job = "disable" /\ l.ten # None /\ "mapping" \in Steps
  BY LeaseAssumption DEF Local, NoLocal, Jobs, Steps
<1>2. Fits("mapping", l, row, slot) /\ Entitled(th, l)
  BY <1>1 DEF Fits, Entitled, WithAttempt, Pending
<1>3. Moved
  <2> HIDE DEF l
  <2> QED BY <1>1, <1>2, Glide DEF Disable, l, engVars
<1>4. Typed BY DEF Disable, Typed, LeaseInv, TypeOK, engVars, sysVars
<1>5. WithinCap' BY CapShrinks DEF Counted, Disable
<1>6. FreshUnused' /\ LiveCounted'
  BY DEF Disable, engVars, LeaseInv, FreshUnused, LiveCounted, MayLive, Counted
<1> QED BY <1>3, <1>4, <1>5, <1>6, MovedTyped DEF LeaseInv, Moved

\* A thread that listed its leases goes on, to prune or to what it came for.
LEMMA MovedAfterListing ==
    ASSUME LeaseInv, NEW th \in Threads, pc[th] # "idle",
           NEW att \in Attempts \cup {None}, NEW todo \in SUBSET Attempts,
           AfterListing(th, att, todo), UNCHANGED <<owner, slot, row>>,
           loc[th].job = "create" => att = None,
           att # None => row[att] \in Arrived /\ owner[att] # None,
           \A b \in todo : row[b] \in Ended
    PROVE  Moved
<1> DEFINE onward == Onward(loc[th].job, att)
           step == IF todo = {} THEN onward ELSE "prune"
           l == [loc[th] EXCEPT !.att = att, !.todo = todo]
<1>1. CASE Return(th) BY <1>1, LeaveQuietly
<1>2. CASE Goto(th, step, l)
  <2>1. l \in Local /\ l.att = att /\ l.todo = todo /\ l.job = loc[th].job
        /\ l.ten # None
    BY Here DEF Local, Fits
  <2>2. /\ onward \in {"reserve", "delete", "idle"}
        /\ onward = "reserve" => loc[th].job = "create"
        /\ onward = "delete" => loc[th].job = "delete" /\ att # None
    BY DEF Onward
  <2>3. step \in {"reserve", "delete", "idle", "prune"} BY <2>2
  <2>4. step \in Steps BY <2>3 DEF Steps
  <2>5. Entitled(th, l) BY <2>1 DEF Entitled
  <2>6. Fits(step, l, row, slot)
    <3> HIDE DEF l, onward
    <3> QED BY <2>1, <2>2, <2>3 DEF Fits, WithAttempt, Pending
  <2> HIDE DEF l, step
  <2> QED BY <1>2, <2>1, <2>4, <2>5, <2>6, Glide
<1> QED BY <1>1, <1>2 DEF AfterListing

LEMMA InvReadScope ==
    ASSUME LeaseInv, NEW th \in Threads, ReadScope(th) PROVE LeaseInv'
<1> DEFINE scope == Linked(loc[th].ten)
           l == [loc[th] EXCEPT !.todo = scope]
<1>1. UNCHANGED <<state, owner, slot, links, row, late, undone, crashes>> /\ pc[th] = "scope"
  BY DEF ReadScope, dbVars, engVars, sysVars
<1>2. CASE AfterListing(th, None, {})
  <2>1. Moved BY <1>1, <1>2, MovedAfterListing
  <2> QED BY <1>1, <2>1, Idle DEF LeaseInv, TypeOK
<1>3. CASE Goto(th, "list", l)
  <2>1. scope \in SUBSET Attempts /\ \A b \in scope : row[b] \in Arrived
    BY DEF Linked, LeaseInv, TypeOK, LiveCounted
  <2>2. l \in Local /\ l.att = loc[th].att /\ l.job = loc[th].job /\ l.todo = scope
        /\ l.ten # None
    BY <1>1, <2>1, Here DEF Local, Fits
  <2>3. "list" \in Steps BY DEF Steps
  <2>4. Entitled(th, l) BY <1>1, <2>2, Keeps
  <2>5. Fits("list", l, row, slot)
    BY <2>1, <2>2 DEF Fits, WithAttempt, Pending
  <2> HIDE DEF l, scope
  <2>6. Moved BY <1>1, <1>3, <2>2, <2>3, <2>4, <2>5, Glide
  <2> QED BY <1>1, <2>6, Idle DEF LeaseInv, TypeOK
<1> QED BY <1>2, <1>3 DEF ReadScope

LEMMA InvListEngine ==
    ASSUME LeaseInv, NEW th \in Threads, ListEngine(th) PROVE LeaseInv'
<1> DEFINE rest == loc[th].todo \ Listed
<1>1. UNCHANGED <<state, owner, slot, links, row, late, undone, crashes>> /\ pc[th] = "list"
  BY DEF ListEngine, dbVars, engVars, sysVars
<1>2. /\ rest \in SUBSET Attempts
      /\ \A b \in rest : row[b] \in Ended
      /\ \A b \in loc[th].todo : b \in Attempts /\ row[b] \in Arrived
      /\ None \notin Attempts
  BY <1>1, Here, LeaseAssumption DEF Fits, Listed, Arrived, Ended
<1>3. CASE Return(th)
  <2>1. Moved BY <1>1, <1>3, LeaveQuietly
  <2> QED BY <1>1, <2>1, Idle DEF LeaseInv, TypeOK
<1>4. ASSUME loc[th].job = "delete", NEW a \in loc[th].todo \cap Listed,
             AfterListing(th, a, rest)
      PROVE  LeaseInv'
  <2>1. owner[a] # None BY <1>2 DEF LeaseInv, FreshUnused, Arrived
  <2> HIDE DEF rest
  <2>2. Moved BY <1>1, <1>2, <1>4, <2>1, MovedAfterListing
  <2> QED BY <1>1, <2>2, Idle DEF LeaseInv, TypeOK
<1>5. CASE AfterListing(th, None, rest)
  <2> HIDE DEF rest
  <2>1. Moved BY <1>1, <1>2, <1>5, MovedAfterListing
  <2> QED BY <1>1, <2>1, Idle DEF LeaseInv, TypeOK
<1> QED BY <1>3, <1>4, <1>5 DEF ListEngine
LEMMA InvPrune ==
    ASSUME LeaseInv, NEW th \in Threads, Prune(th) PROVE LeaseInv'
<1>1. /\ UNCHANGED <<state, owner, slot, row, late, undone, crashes>> /\ pc[th] = "prune"
  BY DEF Prune, engVars, sysVars
<1>2. PICK a \in loc[th].todo :
        links' = links \ {a} /\ AfterListing(th, loc[th].att, loc[th].todo \ {a})
  BY DEF Prune
<1>3. /\ a \in Attempts /\ row[a] \in Ended
      /\ loc[th].todo \ {a} \in SUBSET Attempts
      /\ \A b \in loc[th].todo \ {a} : row[b] \in Ended
      /\ loc[th].job = "create" => loc[th].att = None
      /\ loc[th].att # None => row[loc[th].att] \in Arrived
  BY <1>1, Here DEF Fits
<1>4. loc[th].att # None => owner[loc[th].att] # None
  BY DEF LeaseInv, OwnAttempt
<1>5. loc[th].att \in Attempts \cup {None} BY Here
<1>6. Moved BY <1>1, <1>2, <1>3, <1>4, <1>5, MovedAfterListing
<1> QED BY <1>1, <1>2, <1>3, <1>6, Unlinks DEF LeaseInv, TypeOK

\* What reserve_tunnel adds up bounds the tenant's share of what is counted.
LEMMA ShareBound ==
    ASSUME LeaseInv, NEW t \in Tenants
    PROVE  /\ IsFiniteSet({a \in Counted : owner[a] = t})
           /\ Cardinality({a \in Counted : owner[a] = t}) \in Nat
           /\ Used(t) \in Nat
           /\ Cardinality({a \in Counted : owner[a] = t}) <= Used(t)
<1> DEFINE share == {a \in Counted : owner[a] = t}
<1>1. /\ share \subseteq Attempts /\ Linked(t) \subseteq Attempts
      /\ Reserved(t) \subseteq Attempts /\ share \subseteq Linked(t) \cup Reserved(t)
  BY DEF Linked, Reserved, Counted, LeaseInv, TypeOK
<1> HIDE DEF share
<1>2. IsFiniteSet(share) /\ IsFiniteSet(Linked(t)) /\ IsFiniteSet(Reserved(t))
  BY <1>1, LeaseAssumption, FS_Subset
<1>3. /\ IsFiniteSet(Linked(t) \cup Reserved(t))
      /\ Cardinality(Linked(t) \cup Reserved(t))
           = Cardinality(Linked(t)) + Cardinality(Reserved(t))
               - Cardinality(Linked(t) \cap Reserved(t))
  BY <1>2, FS_Union
<1>4. IsFiniteSet(Linked(t) \cap Reserved(t)) BY <1>2, FS_Intersection
<1>5. /\ Cardinality(Linked(t)) \in Nat /\ Cardinality(Reserved(t)) \in Nat
      /\ Cardinality(Linked(t) \cap Reserved(t)) \in Nat
      /\ Cardinality(Linked(t) \cup Reserved(t)) \in Nat
      /\ Cardinality(share) \in Nat
  BY <1>2, <1>3, <1>4, FS_CardinalityType
<1>6. Cardinality(share) <= Cardinality(Linked(t) \cup Reserved(t))
  BY <1>1, <1>3, FS_Subset
<1>7. Used(t) \in Nat /\ Cardinality(share) <= Used(t)
  BY <1>3, <1>5, <1>6 DEF Used
<1> QED BY <1>2, <1>5, <1>7 DEF share

\* The guarded INSERT keeps the tenant within its cap.
LEMMA CapTaken ==
    ASSUME LeaseInv, NEW t \in Tenants, Used(t) < Cap, NEW a \in Attempts,
           owner[a] = None, owner' = [owner EXCEPT ![a] = t],
           slot' = [slot EXCEPT ![a] = "open"], UNCHANGED links
    PROVE  WithinCap'
<1>1. Counted' = Counted \cup {a}
  BY DEF Counted, LeaseInv, TypeOK
<1>2. a \notin Counted /\ None \notin Tenants
  BY LeaseAssumption DEF LeaseInv, FreshUnused, Counted
<1>3. ASSUME NEW u \in Tenants
      PROVE  Cardinality({b \in Counted' : owner'[b] = u}) <= Cap
  <2> DEFINE old == {b \in Counted : owner[b] = u}
             new == {b \in Counted' : owner'[b] = u}
  <2>1. Counted \subseteq Attempts BY DEF LeaseInv, TypeOK, Counted
  <2>2. CASE u # t
    <3>1. new = old BY <2>1, <2>2, <1>1, <1>2 DEF LeaseInv, TypeOK
    <3> QED BY <3>1 DEF LeaseInv, WithinCap
  <2>3. CASE u = t
    <3>1. new = old \cup {a} /\ a \notin old
      BY <2>1, <2>3, <1>1, <1>2 DEF LeaseInv, TypeOK
    <3>2. /\ IsFiniteSet(old) /\ Cardinality(old) \in Nat /\ Used(t) \in Nat
          /\ Cardinality(old) <= Used(t)
      BY <2>3, ShareBound
    <3>3. Cardinality(new) = Cardinality(old) + 1
      BY <3>1, <3>2, FS_AddElement
    <3>4. Cap \in Nat BY LeaseAssumption
    <3> HIDE DEF new, old
    <3>5. Cardinality(new) <= Cap BY <3>2, <3>3, <3>4
    <3> QED BY <3>5 DEF new
  <2> QED BY <2>2, <2>3
<1> QED BY <1>3 DEF WithinCap

LEMMA InvReserve ==
    ASSUME LeaseInv, NEW th \in Threads, Reserve(th) PROVE LeaseInv'
<1>1. pc[th] = "reserve" /\ UNCHANGED <<row, late, undone, crashes>>
  BY DEF Reserve, engVars, sysVars
<1>2. CASE Return(th) /\ UNCHANGED dbVars
  <2>1. Moved BY <1>1, <1>2, LeaveQuietly DEF dbVars
  <2> QED BY <1>1, <1>2, <2>1, Idle DEF LeaseInv, TypeOK, dbVars
<1>3. ASSUME Used(loc[th].ten) < Cap, NEW a \in Attempts,
             state[loc[th].ten] = "active",
             owner[a] = None,
             owner' = [owner EXCEPT ![a] = loc[th].ten],
             slot' = [slot EXCEPT ![a] = "open"],
             Goto(th, "send", [loc[th] EXCEPT !.att = a]),
             UNCHANGED <<state, links>>
      PROVE  LeaseInv'
  <2> DEFINE t == loc[th].ten
             l == [loc[th] EXCEPT !.att = a]
  <2>1. t \in Tenants
    BY <1>1, Here DEF Local, Fits
  <2>2. l \in Local /\ l.att = a /\ l.job = "create" /\ l.ten = t
    BY <1>1, Here DEF Local, Fits
  <2>3. a # None /\ t # None /\ None \notin Tenants BY <2>1, LeaseAssumption
  <2>4. slot[a] = "none" /\ a \notin links /\ row[a] = "unsent"
    BY <1>3 DEF LeaseInv, FreshUnused
  <2>5. /\ owner' \in [Attempts -> Tenants \cup {None}]
        /\ slot' \in [Attempts -> {"none", "open", "noted"}]
        /\ owner'[a] = t /\ slot'[a] = "open"
        /\ \A b \in Attempts \ {a} : owner'[b] = owner[b] /\ slot'[b] = slot[b]
    <3> HIDE DEF t
    <3> QED BY <1>3, <2>1 DEF LeaseInv, TypeOK, t
  <2>6. Harmless(th)
    <3>1. \A ot \in Threads : loc[ot].att # None =>
              loc[ot].att \in Attempts /\ loc[ot].att # a
      BY <1>3, Here DEF LeaseInv, OwnAttempt
    <3> HIDE DEF t, l
    <3> QED BY <1>1, <1>3, <2>3, <2>5, <3>1 DEF Harmless, LeaseInv, TypeOK, Later
  <2>7. Entitled(th, l)
    <3> HIDE DEF t, l
    <3> QED BY <1>3, <2>2, <2>3, <2>5 DEF Entitled
  <2>8. Fits("send", l, row', slot')
    <3> HIDE DEF t, l
    <3> QED BY <1>1, <2>2, <2>3, <2>4, <2>5 DEF Fits, WithAttempt, Pending
  <2>9. Moved
    <3>1. "send" \in Steps BY DEF Steps
    <3> HIDE DEF l
    <3> QED BY <3>1, <1>3, <2>2, <2>6, <2>7, <2>8, Move DEF l
  <2> HIDE DEF t, l
  <2>10. Typed BY <1>1, <1>3, <2>5 DEF Typed, LeaseInv, TypeOK
  <2>11. WithinCap' BY <1>3, <2>1, CapTaken DEF t
  <2>12. FreshUnused'
    BY <1>1, <1>3, <2>3, <2>5 DEF LeaseInv, FreshUnused
  <2>13. LiveCounted'
    BY <1>1, <1>3, <2>4, <2>5 DEF LeaseInv, LiveCounted, MayLive, Counted
  <2> QED BY <2>9, <2>10, <2>11, <2>12, <2>13, MovedTyped DEF LeaseInv, Moved
<1> QED BY <1>2, <1>3 DEF Reserve
\* A create goes on with its attempt: l is the thread's locals but for the
\* flags of the answer.
Likewise(th, l) ==
    /\ l \in Local
    /\ l.job = loc[th].job /\ l.ten = loc[th].ten
    /\ l.att = loc[th].att /\ l.todo = loc[th].todo

LEMMA LikewiseSelf ==
    ASSUME LeaseInv, NEW th \in Threads
    PROVE  /\ Likewise(th, loc[th])
           /\ \A b \in BOOLEAN : Likewise(th, [loc[th] EXCEPT !.release = b])
           /\ \A b \in BOOLEAN :
                Likewise(th, [loc[th] EXCEPT !.refused = TRUE, !.release = b])
BY Here DEF Likewise, Local

\* Only the row or the reservation of a create's own attempt changes.
LEMMA OwnHarmless ==
    ASSUME LeaseInv, NEW th \in Threads, loc[th].job = "create", loc[th].att # None,
           UNCHANGED owner, row' \in [Attempts -> Stages],
           \A a \in Attempts \ {loc[th].att} : row'[a] = row[a] /\ slot'[a] = slot[a],
           Later(row[loc[th].att], row'[loc[th].att])
    PROVE  Harmless(th)
<1>1. \A ot \in Threads \ {th} : (loc[ot].job = "create" /\ loc[ot].att # None) =>
          loc[ot].att \in Attempts \ {loc[th].att}
  BY Here DEF LeaseInv, OwnAttempt
<1> QED BY <1>1 DEF Harmless, LeaseInv, TypeOK, Later

LEMMA InvSendCreate ==
    ASSUME LeaseInv, NEW th \in Threads, SendCreate(th) PROVE LeaseInv'
<1> DEFINE a == loc[th].att
<1>1. /\ pc[th] = "send" /\ row' = [row EXCEPT ![a] = "sent"]
      /\ Goto(th, "await", loc[th])
      /\ UNCHANGED <<state, owner, slot, links, late, undone, crashes>>
  BY DEF SendCreate, dbVars, sysVars
<1>2. /\ a \in Attempts /\ loc[th].job = "create" /\ slot[a] # "none"
      /\ row[a] = "unsent" /\ a # None /\ owner[a] # None /\ a \notin links
  BY <1>1, Here DEF Fits, WithAttempt, Pending, LeaseInv, OwnAttempt, LiveCounted, Arrived
<1>3. /\ row' \in [Attempts -> Stages] /\ row'[a] = "sent"
      /\ \A b \in Attempts \ {a} : row'[b] = row[b]
  BY <1>1, <1>2 DEF LeaseInv, TypeOK, Stages
<1> HIDE DEF a
<1>4. Harmless(th)
  BY <1>1, <1>2, <1>3, OwnHarmless DEF Later, Arrived, Ended, Over, a
<1>5. Fits("await", loc[th], row', slot')
  BY <1>1, <1>2, Here DEF Fits, WithAttempt, Pending, a
<1>6. "await" \in Steps BY DEF Steps
<1>7. Entitled(th, loc[th]) BY <1>1, Keeps
<1>8. Moved BY <1>1, <1>4, <1>5, <1>6, <1>7, Here, Move
<1>9. Typed BY <1>1, <1>3 DEF Typed, LeaseInv, TypeOK
<1>10. WithinCap' BY <1>1, CapShrinks DEF Counted
<1>11. FreshUnused' BY <1>1, <1>2, <1>3 DEF LeaseInv, FreshUnused
<1>12. LiveCounted'
  BY <1>1, <1>2, <1>3 DEF LeaseInv, LiveCounted, MayLive, Counted
<1> QED BY <1>8, <1>9, <1>10, <1>11, <1>12, MovedTyped DEF LeaseInv, Moved

LEMMA InvAnswer ==
    ASSUME LeaseInv, NEW th \in Threads,
           CreateAnswered(th) \/ CreateUncertain(th) \/ CreateRejected(th)
    PROVE  LeaseInv'
<1>1. /\ pc[th] = "await"
      /\ UNCHANGED <<state, owner, slot, links, row, late, undone, crashes>>
  BY DEF CreateAnswered, CreateUncertain, CreateRejected, dbVars, engVars, sysVars
<1>2. PICK step \in {"note", "finally"}, l \in Local :
        /\ Goto(th, step, l) /\ Likewise(th, l)
        /\ step = "note" => row[loc[th].att] \in Arrived
        /\ (step = "finally" /\ l.release) => row[loc[th].att] \in Over
  <2>1. CASE CreateAnswered(th)
    BY <2>1, LikewiseSelf, Here DEF CreateAnswered, Arrived
  <2>2. CASE CreateUncertain(th)
    <3> DEFINE l == [loc[th] EXCEPT !.release = FALSE]
    <3>1. Likewise(th, l) /\ l \in Local /\ ~l.release BY LikewiseSelf, Here DEF Local
    <3> HIDE DEF l
    <3> QED BY <2>2, <3>1 DEF CreateUncertain, l
  <2>3. CASE CreateRejected(th)
    <3>1. PICK b \in {FALSE, row[loc[th].att] = "refused"} :
            Goto(th, "finally", [loc[th] EXCEPT !.refused = TRUE, !.release = b])
      BY <2>3 DEF CreateRejected
    <3> DEFINE l == [loc[th] EXCEPT !.refused = TRUE, !.release = b]
    <3>2. b \in BOOLEAN OBVIOUS
    <3>3. Likewise(th, l) /\ l \in Local /\ l.release = b BY <3>2, LikewiseSelf, Here DEF Local
    <3>4. row[loc[th].att] \in Over BY <2>3 DEF CreateRejected, Over
    <3> HIDE DEF l
    <3> QED BY <3>1, <3>3, <3>4 DEF l
  <2> QED BY <2>1, <2>2, <2>3
<1>3. step \in Steps BY DEF Steps
<1>4. Entitled(th, l) BY <1>1, <1>2, Keeps DEF Likewise
<1>5. Fits(step, l, row, slot)
  BY <1>1, <1>2, Here DEF Fits, Likewise, WithAttempt, Pending
<1>6. Moved BY <1>1, <1>2, <1>3, <1>4, <1>5, Glide DEF Likewise
<1> QED BY <1>1, <1>6, Idle DEF LeaseInv, TypeOK

LEMMA InvNote ==
    ASSUME LeaseInv, NEW th \in Threads, Note(th) PROVE LeaseInv'
<1> DEFINE a == loc[th].att
<1>1. /\ pc[th] = "note"
      /\ UNCHANGED <<state, owner, links, row, late, undone, crashes>>
  BY DEF Note, engVars, sysVars
<1>2. /\ a \in Attempts /\ loc[th].job = "create" /\ slot[a] # "none"
      /\ row[a] \in Arrived /\ a # None /\ owner[a] # None
  BY <1>1, Here DEF Fits, WithAttempt, Pending, LeaseInv, OwnAttempt
<1>3. PICK step \in {"complete", "compensate"} : Goto(th, step, loc[th])
  BY DEF Note
<1>4. /\ slot' \in [Attempts -> {"none", "open", "noted"}] /\ slot'[a] # "none"
      /\ \A b \in Attempts \ {a} : slot'[b] = slot[b]
  BY <1>2 DEF Note, LeaseInv, TypeOK
<1> HIDE DEF a
<1>5. Harmless(th)
  BY <1>1, <1>2, <1>4, OwnHarmless DEF Later, a, LeaseInv, TypeOK
<1>6. Fits(step, loc[th], row', slot')
  BY <1>1, <1>2, <1>4, Here DEF Fits, WithAttempt, Pending, a
<1>7. step \in Steps BY DEF Steps
<1>8. Entitled(th, loc[th]) BY <1>1, Keeps
<1>9. Moved BY <1>3, <1>5, <1>6, <1>7, <1>8, Here, Move
<1>10. Typed BY <1>1, <1>4 DEF Typed, LeaseInv, TypeOK
<1>11. Counted' = Counted
  BY <1>1, <1>2, <1>4 DEF Counted, LeaseInv, TypeOK
<1>12. WithinCap' BY <1>1, <1>11, CapShrinks
<1>13. FreshUnused' BY <1>1, <1>2, <1>4 DEF LeaseInv, FreshUnused
<1>14. LiveCounted' BY <1>1, <1>11 DEF LeaseInv, LiveCounted, MayLive
<1> QED BY <1>9, <1>10, <1>12, <1>13, <1>14, MovedTyped DEF LeaseInv, Moved

LEMMA InvComplete ==
    ASSUME LeaseInv, NEW th \in Threads, Complete(th) PROVE LeaseInv'
<1> DEFINE a == loc[th].att
<1>1. /\ pc[th] = "complete"
      /\ UNCHANGED <<state, owner, row, late, undone, crashes>>
  BY DEF Complete, engVars, sysVars
<1>2. /\ a \in Attempts /\ loc[th].job = "create" /\ slot[a] # "none"
      /\ row[a] \in Arrived /\ a # None /\ owner[a] # None
  BY <1>1, Here DEF Fits, WithAttempt, Pending, LeaseInv, OwnAttempt
<1>3. CASE Goto(th, "compensate", loc[th]) /\ UNCHANGED <<links, slot>>
  <2>1. "compensate" \in Steps BY DEF Steps
  <2>2. Entitled(th, loc[th]) BY <1>1, Keeps
  <2>3. Fits("compensate", loc[th], row, slot)
    BY <1>1, <1>2, Here DEF Fits, WithAttempt, Pending
  <2>4. Moved BY <1>1, <1>3, <2>1, <2>2, <2>3, Here, Glide
  <2> QED BY <1>1, <1>3, <2>4, Idle DEF LeaseInv, TypeOK
<1>4. ASSUME links' = links \cup {a}, slot' = [slot EXCEPT ![a] = "none"],
             NEW step \in {"finally", "undo"},
             Goto(th, step, [loc[th] EXCEPT !.release = TRUE])
      PROVE  LeaseInv'
  <2> DEFINE l == [loc[th] EXCEPT !.release = TRUE]
  <2>1. Likewise(th, l) BY LikewiseSelf
  <2>2. /\ slot' \in [Attempts -> {"none", "open", "noted"}] /\ slot'[a] = "none"
        /\ \A b \in Attempts \ {a} : slot'[b] = slot[b]
    BY <1>2, <1>4 DEF LeaseInv, TypeOK
  <2> HIDE DEF a
  <2>3. Harmless(th)
    BY <1>1, <1>2, <2>2, OwnHarmless DEF Later, a, LeaseInv, TypeOK
  <2>4. Entitled(th, l) BY <1>1, <2>1, Keeps DEF Likewise
  <2>5. Fits(step, l, row', slot')
    <3> HIDE DEF l
    <3> QED BY <1>1, <1>2, <2>1, <2>2, Here DEF Fits, Likewise, WithAttempt, Pending, a
  <2>6. Moved
    <3>1. step \in Steps BY DEF Steps
    <3> HIDE DEF l
    <3> QED BY <1>4, <3>1, <2>1, <2>3, <2>4, <2>5, Move DEF Likewise, l
  <2>7. Typed BY <1>1, <1>2, <1>4, <2>2 DEF Typed, LeaseInv, TypeOK
  <2>8. Counted' = Counted
    BY <1>2, <1>4, <2>2 DEF Counted, LeaseInv, TypeOK
  <2>9. WithinCap' BY <1>1, <2>8, CapShrinks
  <2>10. FreshUnused' BY <1>1, <1>2, <1>4, <2>2 DEF LeaseInv, FreshUnused
  <2>11. LiveCounted'
    BY <1>1, <1>2, <1>4, <2>8 DEF LeaseInv, LiveCounted, MayLive
  <2> QED BY <2>6, <2>7, <2>9, <2>10, <2>11, MovedTyped DEF LeaseInv, Moved
<1> QED BY <1>2, <1>3, <1>4 DEF Complete
\* The thread moves on with the engine's answer to a DELETE.
LEMMA MoveDeleted ==
    ASSUME LeaseInv, NEW th \in Threads, NEW a \in Attempts, Deletes(a),
           NEW step \in Steps, NEW l \in Local, Goto(th, step, l),
           UNCHANGED <<state, owner, slot, links, crashes>>, undone' \subseteq Attempts,
           Entitled(th, l), Fits(step, l, row', slot)
    PROVE  LeaseInv'
<1>1. Moved BY DeleteHarmless, Move
<1> QED BY <1>1, RowGone

LEMMA MoveUndeleted ==
    ASSUME LeaseInv, NEW th \in Threads, NEW a \in Attempts,
           FindsNone(a) \/ FailsToDelete(a),
           NEW step \in Steps, NEW l \in Local, Goto(th, step, l),
           UNCHANGED <<state, owner, slot, links, crashes>>, undone' \subseteq Attempts,
           Entitled(th, l), Fits(step, l, row, slot)
    PROVE  LeaseInv'
<1>1. UNCHANGED row /\ late' \subseteq Attempts
  BY DEF FindsNone, FailsToDelete, engVars, LeaseInv, TypeOK
<1>2. Moved BY <1>1, Glide
<1> QED BY <1>1, <1>2, Idle

LEMMA InvUndo ==
    ASSUME LeaseInv, NEW th \in Threads, Undo(th) PROVE LeaseInv'
<1> DEFINE a == loc[th].att
<1>1. pc[th] = "undo" /\ UNCHANGED <<state, owner, slot, links, crashes>>
  BY DEF Undo, dbVars
<1>2. /\ a \in Attempts /\ loc[th].job = "create" /\ row[a] \in Arrived
      /\ Entitled(th, loc[th]) /\ loc[th] \in Local /\ undone \subseteq Attempts
  BY <1>1, Here, Keeps DEF Fits, WithAttempt, LeaseInv, TypeOK
<1>3. CASE Deletes(a) /\ Goto(th, "unlink", loc[th]) /\ UNCHANGED undone
  <2>1. row'[a] = "gone" BY <1>2, <1>3 DEF Deletes, LeaseInv, TypeOK
  <2>2. Fits("unlink", loc[th], row', slot)
    BY <1>1, <2>1, Here DEF Fits, WithAttempt, Pending, Ended
  <2>3. "unlink" \in Steps BY DEF Steps
  <2> QED BY <1>1, <1>2, <1>3, <2>2, <2>3, MoveDeleted
<1>4. CASE /\ FindsNone(a) \/ FailsToDelete(a)
           /\ Goto(th, "finally", loc[th])
           /\ undone' = undone \cup {a}
  <2>1. loc[th].release => slot[a] = "none" BY <1>1, Here DEF Fits
  <2>2. Fits("finally", loc[th], row, slot)
    BY <1>1, <1>2, <2>1, Here DEF Fits, WithAttempt, Pending
  <2>3. "finally" \in Steps BY DEF Steps
  <2> QED BY <1>1, <1>2, <1>4, <2>2, <2>3, MoveUndeleted
<1> QED BY <1>3, <1>4 DEF Undo

LEMMA InvCompensate ==
    ASSUME LeaseInv, NEW th \in Threads, Compensate(th) PROVE LeaseInv'
<1> DEFINE a == loc[th].att
<1>1. pc[th] = "compensate"
      /\ UNCHANGED <<state, owner, slot, links, undone, crashes>>
  BY DEF Compensate, dbVars, sysVars
<1>2. /\ a \in Attempts /\ loc[th].job = "create" /\ row[a] \in Arrived
      /\ undone \subseteq Attempts /\ "finally" \in Steps
  BY <1>1, Here DEF Fits, WithAttempt, LeaseInv, TypeOK, Steps
<1>3. ASSUME NEW b \in BOOLEAN, Goto(th, "finally", [loc[th] EXCEPT !.release = b]),
             \/ Deletes(a)
             \/ b /\ FindsNone(a)
             \/ ~b /\ FailsToDelete(a)
      PROVE  LeaseInv'
  <2> DEFINE l == [loc[th] EXCEPT !.release = b]
  <2>1. Likewise(th, l) /\ l.release = b BY LikewiseSelf, Here DEF Local
  <2>2. Entitled(th, l) BY <1>1, <2>1, Keeps DEF Likewise
  <2>3. CASE Deletes(a)
    <3>1. row'[a] = "gone" BY <1>2, <2>3 DEF Deletes, LeaseInv, TypeOK
    <3>2. Fits("finally", l, row', slot)
      <4> HIDE DEF l
      <4> QED BY <1>1, <1>2, <2>1, <3>1, Here
              DEF Fits, Likewise, WithAttempt, Pending, Over
    <3> HIDE DEF l
    <3> QED BY <1>1, <1>2, <1>3, <2>1, <2>2, <2>3, <3>2, MoveDeleted DEF Likewise, l
  <2>4. CASE (b /\ FindsNone(a)) \/ (~b /\ FailsToDelete(a))
    <3>1. b => row[a] = "gone" BY <2>4 DEF FindsNone
    <3>2. Fits("finally", l, row, slot)
      <4> HIDE DEF l
      <4> QED BY <1>1, <1>2, <2>1, <3>1, Here
              DEF Fits, Likewise, WithAttempt, Pending, Over
    <3> HIDE DEF l
    <3> QED BY <1>1, <1>2, <1>3, <2>1, <2>2, <2>4, <3>2, MoveUndeleted DEF Likewise, l
  <2> QED BY <1>3, <2>3, <2>4
<1> QED BY <1>3 DEF Compensate

LEMMA InvDeleteTunnel ==
    ASSUME LeaseInv, NEW th \in Threads, DeleteTunnel(th) PROVE LeaseInv'
<1> DEFINE a == loc[th].att
<1>1. pc[th] = "delete" /\ UNCHANGED <<state, owner, slot, links, undone, crashes>>
  BY DEF DeleteTunnel, dbVars, sysVars
<1>2. /\ a \in Attempts /\ Entitled(th, loc[th]) /\ loc[th] \in Local
      /\ undone \subseteq Attempts
  BY <1>1, Here, Keeps DEF WithAttempt, LeaseInv, TypeOK
<1>3. CASE Deletes(a) /\ Goto(th, "unlink", loc[th])
  <2>1. row'[a] = "gone" BY <1>2, <1>3 DEF Deletes, LeaseInv, TypeOK
  <2>2. Fits("unlink", loc[th], row', slot)
    BY <1>1, <2>1, Here DEF Fits, WithAttempt, Pending, Ended
  <2>3. "unlink" \in Steps BY DEF Steps
  <2> QED BY <1>1, <1>2, <1>3, <2>2, <2>3, MoveDeleted
<1>4. CASE (FindsNone(a) \/ FailsToDelete(a)) /\ Return(th)
  <2>1. UNCHANGED row /\ late' \subseteq Attempts
    BY <1>2, <1>4 DEF FindsNone, FailsToDelete, engVars, LeaseInv, TypeOK
  <2>2. Moved BY <1>1, <1>4, <2>1, LeaveQuietly
  <2> QED BY <1>1, <1>2, <2>1, <2>2, Idle
<1> QED BY <1>3, <1>4 DEF DeleteTunnel

LEMMA InvUnlink ==
    ASSUME LeaseInv, NEW th \in Threads, Unlink(th) PROVE LeaseInv'
<1> DEFINE a == loc[th].att
<1>1. /\ pc[th] = "unlink"
      /\ UNCHANGED <<state, owner, slot, row, late, undone, crashes>>
  BY DEF Unlink, engVars, sysVars
<1>2. /\ a \in Attempts /\ row[a] \in Ended /\ loc[th] \in Local
      /\ links' = links \/ links' = links \ {a}
      /\ \/ Return(th)
         \/ /\ loc[th].job = "create"
            /\ \E step \in {"finally", "compensate"} : Goto(th, step, loc[th])
  BY <1>1, Here DEF Unlink, Fits, WithAttempt
<1>3. Moved
  <2>1. CASE Return(th) BY <1>1, <2>1, LeaveQuietly
  <2>2. ASSUME loc[th].job = "create", NEW step \in {"finally", "compensate"},
               Goto(th, step, loc[th])
        PROVE  Moved
    <3>1. step \in Steps BY DEF Steps
    <3>2. Entitled(th, loc[th]) BY <1>1, Keeps
    <3>3. Fits(step, loc[th], row, slot)
      BY <1>1, <1>2, <2>2, Here DEF Fits, WithAttempt, Pending, Ended, Arrived, Over
    <3> QED BY <1>1, <1>2, <2>2, <3>1, <3>2, <3>3, Glide
  <2> QED BY <1>2, <2>1, <2>2
<1>4. CASE links' = links
  BY <1>1, <1>3, <1>4, Idle DEF LeaseInv, TypeOK
<1>5. CASE links' = links \ {a}
  BY <1>1, <1>2, <1>3, <1>5, Unlinks DEF LeaseInv, TypeOK
<1> QED BY <1>2, <1>4, <1>5
LEMMA InvFinally ==
    ASSUME LeaseInv, NEW th \in Threads, Finally(th) PROVE LeaseInv'
<1> DEFINE a == loc[th].att
<1>1. /\ pc[th] = "finally" /\ Return(th)
      /\ UNCHANGED <<state, owner, links, row, late, undone, crashes>>
  BY DEF Finally, engVars, sysVars
<1>2. /\ a \in Attempts /\ loc[th].job = "create" /\ a # None /\ owner[a] # None
      /\ loc[th].release => slot[a] = "none" \/ row[a] \in Over
  BY <1>1, Here DEF Fits, WithAttempt, LeaseInv, OwnAttempt
<1>3. CASE UNCHANGED slot
  <2>1. Moved BY <1>1, <1>3, LeaveQuietly
  <2> QED BY <1>1, <1>3, <2>1, Idle DEF LeaseInv, TypeOK
<1>4. CASE loc[th].release /\ slot' = [slot EXCEPT ![a] = "none"]
  <2>1. /\ slot' \in [Attempts -> {"none", "open", "noted"}] /\ slot'[a] = "none"
        /\ \A b \in Attempts \ {a} : slot'[b] = slot[b]
    BY <1>2, <1>4 DEF LeaseInv, TypeOK
  <2>2. a \in Counted' \/ a \notin MayLive
    BY <1>1, <1>2, <1>4 DEF LeaseInv, LiveCounted, Counted, MayLive, Over
  <2> HIDE DEF a
  <2>3. Harmless(th)
    BY <1>1, <1>2, <2>1, OwnHarmless DEF Later, a, LeaseInv, TypeOK
  <2>4. Moved BY <1>1, <2>3, Leave
  <2>5. Typed BY <1>1, <2>1 DEF Typed, LeaseInv, TypeOK
  <2>6. Counted' \subseteq Counted BY <1>1, <1>2, <2>1 DEF Counted
  <2>7. WithinCap' BY <1>1, <2>6, CapShrinks
  <2>8. FreshUnused' BY <1>1, <1>2, <2>1 DEF LeaseInv, FreshUnused
  <2>9. LiveCounted'
    BY <1>1, <2>1, <2>2 DEF LeaseInv, LiveCounted, MayLive, Counted
  <2> QED BY <2>4, <2>5, <2>7, <2>8, <2>9, MovedTyped DEF LeaseInv, Moved
<1> QED BY <1>3, <1>4 DEF Finally

\* The admin's thread goes on with the tunnels it has not reached yet.
LEMMA MovedSweepOn ==
    ASSUME LeaseInv, NEW th \in Threads, pc[th] \in {"mapping", "sweep", "strike"},
           NEW todo \in SUBSET Attempts, SweepOn(th, todo),
           UNCHANGED <<owner, slot, row>>, \A b \in todo : row[b] \in Arrived
    PROVE  Moved
<1> DEFINE l == [loc[th] EXCEPT !.att = None, !.todo = todo]
<1>1. CASE Return(th) BY <1>1, LeaveQuietly
<1>2. CASE Goto(th, "sweep", l)
  <2>1. /\ l \in Local /\ l.att = None /\ l.todo = todo
        /\ l.job # "create" /\ l.ten # None
    BY Here DEF Local, Fits
  <2>2. "sweep" \in Steps BY DEF Steps
  <2> HIDE DEF l
  <2>3. Entitled(th, l) BY <2>1 DEF Entitled
  <2>4. Fits("sweep", l, row, slot)
    BY <2>1 DEF Fits, WithAttempt, Pending
  <2> QED BY <1>2, <2>1, <2>2, <2>3, <2>4, Glide
<1> QED BY <1>1, <1>2 DEF SweepOn

LEMMA InvReadMapping ==
    ASSUME LeaseInv, NEW th \in Threads, ReadMapping(th) PROVE LeaseInv'
<1>1. /\ pc[th] = "mapping" /\ SweepOn(th, Linked(loc[th].ten))
      /\ UNCHANGED <<state, owner, slot, links, row, late, undone, crashes>>
  BY DEF ReadMapping, dbVars, engVars, sysVars
<1>2. /\ Linked(loc[th].ten) \in SUBSET Attempts
      /\ \A b \in Linked(loc[th].ten) : row[b] \in Arrived
  BY DEF Linked, LeaseInv, TypeOK, LiveCounted
<1>3. Moved BY <1>1, <1>2, MovedSweepOn
<1> QED BY <1>1, <1>3, Idle DEF LeaseInv, TypeOK

LEMMA InvSweep ==
    ASSUME LeaseInv, NEW th \in Threads, Sweep(th) PROVE LeaseInv'
<1>1. pc[th] = "sweep" /\ UNCHANGED <<state, owner, slot, links, crashes>>
  BY DEF Sweep, dbVars
<1>2. PICK a \in loc[th].todo :
        \/ /\ Deletes(a) \/ FindsNone(a)
           /\ Goto(th, "strike", [loc[th] EXCEPT !.att = a, !.todo = @ \ {a}])
           /\ UNCHANGED undone
        \/ /\ FailsToDelete(a)
           /\ undone' = undone \cup {a}
           /\ SweepOn(th, loc[th].todo \ {a})
  BY DEF Sweep
<1>3. /\ a \in Attempts /\ row[a] \in Arrived /\ a # None
      /\ loc[th].todo \ {a} \in SUBSET Attempts
      /\ \A b \in loc[th].todo \ {a} : row[b] \in Arrived
      /\ undone \subseteq Attempts
  BY <1>1, Here, LeaseAssumption DEF Fits, LeaseInv, TypeOK
<1>4. CASE FailsToDelete(a) /\ undone' = undone \cup {a} /\ SweepOn(th, loc[th].todo \ {a})
  <2>1. UNCHANGED row /\ late' \subseteq Attempts
    BY <1>3, <1>4 DEF FailsToDelete, LeaseInv, TypeOK
  <2>2. Moved BY <1>1, <1>3, <1>4, <2>1, MovedSweepOn
  <2> QED BY <1>1, <1>3, <1>4, <2>1, <2>2, Idle
<1>5. CASE /\ Deletes(a) \/ FindsNone(a)
           /\ Goto(th, "strike", [loc[th] EXCEPT !.att = a, !.todo = @ \ {a}])
           /\ UNCHANGED undone
  <2> DEFINE l == [loc[th] EXCEPT !.att = a, !.todo = @ \ {a}]
  <2>1. /\ l \in Local /\ l.att = a /\ l.todo = loc[th].todo \ {a}
        /\ l.job # "create" /\ l.ten # None
    BY <1>1, <1>3, Here DEF Local, Fits
  <2>2. owner[a] # None BY <1>3 DEF LeaseInv, FreshUnused, Arrived
  <2>3. "strike" \in Steps BY DEF Steps
  <2> HIDE DEF l
  <2>4. Entitled(th, l) BY <1>1, <2>1, <2>2 DEF Entitled
  <2>5. CASE Deletes(a)
    <3>1. row'[a] = "gone" /\ \A b \in Attempts \ {a} : row'[b] = row[b]
      BY <1>3, <2>5 DEF Deletes, LeaseInv, TypeOK
    <3>2. Fits("strike", l, row', slot)
      BY <1>1, <1>3, <2>1, <3>1 DEF Fits, WithAttempt, Pending, Ended
    <3> QED BY <1>1, <1>3, <1>5, <2>1, <2>3, <2>4, <2>5, <3>2, MoveDeleted DEF l
  <2>6. CASE FindsNone(a)
    <3>1. row[a] \in Ended BY <2>6 DEF FindsNone, Ended
    <3>2. Fits("strike", l, row, slot)
      BY <1>1, <1>3, <2>1, <3>1 DEF Fits, WithAttempt, Pending
    <3> QED BY <1>1, <1>3, <1>5, <2>1, <2>3, <2>4, <2>6, <3>2, MoveUndeleted DEF l
  <2> QED BY <1>5, <2>5, <2>6
<1> QED BY <1>2, <1>4, <1>5

LEMMA InvStrike ==
    ASSUME LeaseInv, NEW th \in Threads, Strike(th) PROVE LeaseInv'
<1>1. pc[th] = "strike" /\ UNCHANGED <<state, owner, slot, row, late, crashes>>
  BY DEF Strike, engVars
<1>2. /\ loc[th].att \in Attempts /\ row[loc[th].att] \in Ended
      /\ loc[th].todo \in SUBSET Attempts /\ \A b \in loc[th].todo : row[b] \in Arrived
      /\ undone \subseteq Attempts
  BY <1>1, Here DEF Fits, WithAttempt, LeaseInv, TypeOK
<1>3. CASE links' = links \ {loc[th].att} /\ SweepOn(th, loc[th].todo) /\ UNCHANGED undone
  <2>1. Moved BY <1>1, <1>2, <1>3, MovedSweepOn
  <2> QED BY <1>1, <1>2, <1>3, <2>1, Unlinks
<1>4. CASE Return(th) /\ undone' = undone \cup loc[th].todo /\ UNCHANGED links
  <2>1. Moved BY <1>1, <1>4, LeaveQuietly
  <2>2. late \subseteq Attempts BY DEF LeaseInv, TypeOK
  <2> QED BY <1>1, <1>2, <1>4, <2>1, <2>2, Idle
<1> QED BY <1>3, <1>4 DEF Strike

LEMMA InvEngineStep ==
    ASSUME LeaseInv, NEW a \in Attempts, EngineStep(a) PROVE LeaseInv'
<1>1. /\ UNCHANGED <<state, owner, slot, links, pc, loc, undone, crashes>>
      /\ late' \subseteq Attempts
  BY DEF EngineStep, EngineRefuses, EngineSavesRow, EngineRollsBack, EngineStarts,
         HostDeletes, EngineWritesBack, EngineDeletesLate, Engine,
         dbVars, thVars, sysVars, LeaseInv, TypeOK
<1>2. PICK to \in {"creating", "up", "refused", "failed", "gone", "back"} :
        /\ row' = [row EXCEPT ![a] = to]
        /\ row[a] # "unsent" /\ Later(row[a], to)
        /\ to \in {"creating", "up"} => row[a] \in {"sent", "creating"}
        /\ row[a] \in Arrived => to \in Arrived
  BY DEF EngineStep, EngineRefuses, EngineSavesRow, EngineRollsBack, EngineStarts,
         HostDeletes, EngineWritesBack, EngineDeletesLate, Engine,
         Later, Arrived, Ended, Over
<1>3. /\ row' \in [Attempts -> Stages] /\ row'[a] = to
      /\ \A b \in Attempts \ {a} : row'[b] = row[b]
  BY <1>2 DEF LeaseInv, TypeOK, Stages
<1>4. AllFit'
  <2>1. ASSUME NEW th \in Threads PROVE Fits(pc'[th], loc'[th], row', slot')
    <3>1. \A b \in Attempts : Later(row[b], row'[b])
      BY <1>2, <1>3 DEF Later
    <3>2. \A b \in Attempts : row[b] = "unsent" => row'[b] = "unsent"
      BY <1>2, <1>3
    <3>3. row \in [Attempts -> Stages] BY DEF LeaseInv, TypeOK
    <3>4. loc[th].att # None => loc[th].att \in Attempts BY Here
    <3>5. Fits(pc[th], loc[th], row', slot)
      BY <1>3, <3>1, <3>2, <3>3, <3>4, Here, FitsOn
    <3> QED BY <1>1, <3>5
  <2> QED BY <2>1 DEF AllFit
<1>5. OwnAttempt' BY <1>1 DEF LeaseInv, OwnAttempt
<1>6. WithinCap' BY <1>1, CapShrinks DEF Counted
<1>7. FreshUnused' BY <1>1, <1>2, <1>3 DEF LeaseInv, FreshUnused
<1>8. LiveCounted'
  BY <1>1, <1>2, <1>3 DEF LeaseInv, LiveCounted, MayLive, Counted
<1>9. TypeOK' BY <1>1, <1>3 DEF LeaseInv, TypeOK
<1> QED BY <1>4, <1>5, <1>6, <1>7, <1>8, <1>9 DEF LeaseInv

LEMMA InvCrash ==
    ASSUME LeaseInv, Crash PROVE LeaseInv'
<1>1. /\ UNCHANGED <<state, owner, slot, links, row, late>>
      /\ pc' = [th \in Threads |-> "idle"] /\ loc' = [th \in Threads |-> NoLocal]
      /\ undone' \subseteq Attempts /\ crashes' \in 0..MaxCrashes
  BY LeaseAssumption DEF Crash, dbVars, engVars, LeaseInv, TypeOK
<1>2. /\ pc' \in [Threads -> Steps] /\ loc' \in [Threads -> Local]
  BY <1>1 DEF Steps, Local, NoLocal
<1>3. AllFit' /\ OwnAttempt'
  BY <1>1 DEF AllFit, OwnAttempt, Fits, NoLocal, WithAttempt, Pending
<1>4. Typed BY <1>1 DEF Typed, LeaseInv, TypeOK
<1>5. WithinCap' BY <1>1, CapShrinks DEF Counted
<1>6. FreshUnused' /\ LiveCounted'
  BY <1>1 DEF LeaseInv, FreshUnused, LiveCounted, MayLive, Counted
<1> QED BY <1>2, <1>3, <1>4, <1>5, <1>6, MovedTyped DEF LeaseInv, Moved

LEMMA InvRequest ==
    ASSUME LeaseInv, NEW th \in Threads, Request(th) PROVE LeaseInv'
BY InvEnter, InvDisable, InvReadScope, InvListEngine, InvPrune, InvReserve,
   InvSendCreate, InvAnswer, InvNote, InvComplete, InvUndo, InvUnlink,
   InvCompensate, InvFinally, InvDeleteTunnel, InvReadMapping, InvSweep, InvStrike
   DEF Request

LEMMA InvNext == LeaseInv /\ [Next]_vars => LeaseInv'
<1> SUFFICES ASSUME LeaseInv, [Next]_vars PROVE LeaseInv'
  OBVIOUS
<1>1. CASE UNCHANGED vars
  <2>1. Counted' = Counted /\ WithinCap'
    BY <1>1, CapShrinks DEF vars, Counted
  <2> QED BY <1>1, <2>1 DEF vars, LeaseInv, TypeOK, FreshUnused, LiveCounted, MayLive,
                             OwnAttempt, AllFit
<1>2. CASE \E th \in Threads : Request(th) BY <1>2, InvRequest
<1>3. CASE \E a \in Attempts : EngineStep(a) BY <1>3, InvEngineStep
<1>4. CASE Crash BY <1>4, InvCrash
<1> QED BY <1>1, <1>2, <1>3, <1>4 DEF Next

\* The inductive invariant: what a handler of app.py may rely on between two of
\* its store or engine calls, and what the tables of tenancy.db then say.
THEOREM LeaseInvariant == Spec => []LeaseInv
BY InitInv, InvNext, PTL DEF Spec

\* The types hold, and a thread past its reservation or its membership check
\* holds an attempt (create_tenant_tunnel, delete_tenant_tunnel).
THEOREM LeaseTyped == Spec => []TypeOK
<1>1. LeaseInv => TypeOK BY DEF LeaseInv
<1> QED BY <1>1, LeaseInvariant, PTL

\* No tenant ever has more tunnels running or coming than max_tunnels_per_tenant:
\* each is behind an ownership row or a reservation (LiveCounted), and
\* reserve_tunnel keeps both together within the cap (WithinCap).
THEOREM CapRespected == Spec => []CapHolds
<1>1. LeaseInv => CapHolds
  <2> SUFFICES ASSUME LeaseInv, NEW t \in Tenants
               PROVE  Cardinality({a \in MayLive : owner[a] = t}) <= Cap
    BY DEF CapHolds
  <2> DEFINE live == {a \in MayLive : owner[a] = t}
             share == {a \in Counted : owner[a] = t}
  <2>1. live \subseteq share BY DEF LeaseInv, LiveCounted, MayLive
  <2>2. IsFiniteSet(share) /\ Cardinality(share) \in Nat /\ Cardinality(share) <= Cap
    BY ShareBound DEF LeaseInv, WithinCap
  <2>3. IsFiniteSet(live) /\ Cardinality(live) <= Cardinality(share)
    BY <2>1, <2>2, FS_Subset
  <2>4. Cardinality(live) \in Nat BY <2>3, FS_CardinalityType
  <2>5. Cap \in Nat BY LeaseAssumption
  <2> HIDE DEF live, share
  <2>6. Cardinality(live) <= Cap BY <2>2, <2>3, <2>4, <2>5
  <2> QED BY <2>6 DEF live
<1> QED BY <1>1, LeaseInvariant, PTL

-----------------------------------------------------------------------------
(* The service implements the ledger.                                       *)

LEMMA LedgerInit == Init => Ledger!Init
BY DEF Init, Ledger!Init, MayLive

LEMMA LedgerStutters ==
    ASSUME UNCHANGED owner, Counted' = Counted, MayLive' = MayLive
    PROVE  UNCHANGED Ledger!vars
BY DEF Ledger!vars, Counted

LEMMA LedgerGives ==
    ASSUME LeaseInv, UNCHANGED owner, MayLive' = MayLive, NEW a \in Attempts,
           a \notin MayLive, Counted' = Counted \/ Counted' = Counted \ {a}
    PROVE  [Ledger!Next]_(Ledger!vars)
<1>1. CASE Counted' = Counted BY <1>1, LedgerStutters
<1>2. CASE Counted' = Counted \ {a} /\ a \in Counted
  <2>1. Ledger!Give(a) BY <1>2 DEF Ledger!Give, Counted
  <2> QED BY <2>1 DEF Ledger!Next
<1> QED BY <1>1, <1>2

LEMMA LedgerEnds ==
    ASSUME UNCHANGED owner, Counted' = Counted, NEW a \in Attempts,
           MayLive' = MayLive \ {a}
    PROVE  [Ledger!Next]_(Ledger!vars)
<1>1. Ledger!End(a) BY DEF Ledger!End, Counted
<1> QED BY <1>1 DEF Ledger!Next

LEMMA DeletesEnds ==
    ASSUME LeaseInv, UNCHANGED <<owner, slot, links>>, NEW a \in Attempts,
           Deletes(a) \/ FindsNone(a) \/ FailsToDelete(a)
    PROVE  [Ledger!Next]_(Ledger!vars)
<1>1. Counted' = Counted BY DEF Counted
<1>2. CASE Deletes(a)
  <2>1. MayLive' = MayLive \ {a} BY <1>2 DEF Deletes, MayLive, LeaseInv, TypeOK
  <2> QED BY <1>1, <2>1, LedgerEnds
<1>3. CASE UNCHANGED row
  <2>1. MayLive' = MayLive BY <1>3 DEF MayLive
  <2> QED BY <1>1, <2>1, LedgerStutters
<1> QED BY <1>2, <1>3 DEF FindsNone, FailsToDelete, engVars

LEMMA LedgerUnlinks ==
    ASSUME LeaseInv, UNCHANGED <<owner, slot, row>>, NEW a \in Attempts,
           row[a] \in Ended, links' = links \ {a} \/ links' = links
    PROVE  [Ledger!Next]_(Ledger!vars)
<1>1. MayLive' = MayLive /\ a \notin MayLive BY DEF MayLive, Ended
<1>2. Counted' = Counted \/ Counted' = Counted \ {a} BY DEF Counted
<1> QED BY <1>1, <1>2, LedgerGives

LEMMA SameCardinality ==
    ASSUME NEW S PROVE Ledger!Cardinality(S) = Cardinality(S)
BY DEF Ledger!Cardinality, Cardinality

\* Every step of the service is a step of the ledger or changes nothing there.
LEMMA LedgerNext == LeaseInv /\ [Next]_vars => [Ledger!Next]_(Ledger!vars)
<1> SUFFICES ASSUME LeaseInv, [Next]_vars PROVE [Ledger!Next]_(Ledger!vars)
  OBVIOUS
<1>1. ASSUME UNCHANGED <<owner, slot, links, row>> PROVE [Ledger!Next]_(Ledger!vars)
  BY <1>1, LedgerStutters DEF Counted, MayLive
<1>2. ASSUME NEW th \in Threads, Request(th) PROVE [Ledger!Next]_(Ledger!vars)
  <2> USE DEF dbVars, engVars, sysVars
  <2>1. CASE \/ \E t \in Tenants : (\E job \in Jobs : Enter(th, t, job)) \/ Disable(th, t)
             \/ ReadScope(th) \/ ListEngine(th) \/ CreateAnswered(th)
             \/ CreateUncertain(th) \/ CreateRejected(th) \/ ReadMapping(th)
    BY <2>1, <1>1 DEF Enter, Disable, ReadScope, ListEngine, CreateAnswered,
       CreateUncertain, CreateRejected, ReadMapping
  <2>2. CASE Prune(th)
    <3>1. PICK a \in loc[th].todo : links' = links \ {a}
      BY <2>2 DEF Prune
    <3>2. a \in Attempts /\ row[a] \in Ended BY <2>2, Here DEF Prune, Fits
    <3> QED BY <2>2, <3>1, <3>2, LedgerUnlinks DEF Prune
  <2>3. CASE Reserve(th)
    <3>1. CASE UNCHANGED dbVars BY <2>3, <3>1, <1>1 DEF Reserve
    <3>2. ASSUME Used(loc[th].ten) < Cap, NEW a \in Attempts, owner[a] = None,
                 owner' = [owner EXCEPT ![a] = loc[th].ten],
                 slot' = [slot EXCEPT ![a] = "open"], UNCHANGED links
          PROVE  [Ledger!Next]_(Ledger!vars)
      <4>1. loc[th].ten \in Tenants BY <2>3, Here DEF Reserve, Local, Fits
      <4>2. /\ Cardinality({b \in Counted : owner[b] = loc[th].ten}) < Cap
        BY <3>2, <4>1, ShareBound, LeaseAssumption
      <4>3. Counted' = Counted \cup {a} BY <3>2 DEF Counted, LeaseInv, TypeOK
      <4>4. MayLive' = MayLive BY <2>3 DEF Reserve, MayLive
      <4>5. Ledger!Take(loc[th].ten, a)
        BY <3>2, <4>2, <4>3, <4>4, SameCardinality
        DEF Ledger!Take, Ledger!Share, Counted
      <4> QED BY <4>1, <4>5 DEF Ledger!Next
    <3> QED BY <2>3, <3>1, <3>2 DEF Reserve
  <2>4. CASE SendCreate(th)
    <3> DEFINE a == loc[th].att
    <3>1. a \in Attempts /\ slot[a] # "none" /\ row[a] = "unsent"
      BY <2>4, Here DEF SendCreate, Fits, WithAttempt, Pending
    <3>2. MayLive' = MayLive \cup {a} /\ a \notin MayLive /\ Counted' = Counted
      BY <2>4, <3>1 DEF SendCreate, MayLive, Counted, LeaseInv, TypeOK
    <3>3. a \in Counted BY <3>1 DEF Counted
    <3>4. Ledger!Provision(a)
      BY <2>4, <3>2, <3>3 DEF SendCreate, Ledger!Provision, Counted
    <3> QED BY <3>1, <3>4 DEF Ledger!Next
  <2>5. CASE Note(th)
    <3>1. slot[loc[th].att] # "none" /\ loc[th].att \in Attempts
      BY <2>5, Here DEF Note, Fits, WithAttempt, Pending
    <3>2. Counted' = Counted /\ MayLive' = MayLive
      BY <2>5, <3>1 DEF Note, Counted, MayLive, LeaseInv, TypeOK
    <3> QED BY <2>5, <3>2, LedgerStutters DEF Note
  <2>6. CASE Complete(th)
    <3>1. slot[loc[th].att] # "none" /\ loc[th].att \in Attempts
      BY <2>6, Here DEF Complete, Fits, WithAttempt, Pending
    <3>2. Counted' = Counted /\ MayLive' = MayLive
      BY <2>6, <3>1 DEF Complete, Counted, MayLive, LeaseInv, TypeOK
    <3> QED BY <2>6, <3>2, LedgerStutters DEF Complete
  <2>7. CASE Undo(th) \/ Compensate(th) \/ DeleteTunnel(th)
    <3>1. loc[th].att \in Attempts
      BY <2>7, Here DEF Undo, Compensate, DeleteTunnel, WithAttempt
    <3> QED BY <2>7, <3>1, DeletesEnds DEF Undo, Compensate, DeleteTunnel
  <2>8. CASE Sweep(th)
    <3>1. PICK a \in loc[th].todo : Deletes(a) \/ FindsNone(a) \/ FailsToDelete(a)
      BY <2>8 DEF Sweep
    <3>2. a \in Attempts BY Here
    <3> QED BY <2>8, <3>1, <3>2, DeletesEnds DEF Sweep
  <2>9. CASE Unlink(th) \/ Strike(th)
    <3>1. loc[th].att \in Attempts /\ row[loc[th].att] \in Ended
      BY <2>9, Here DEF Unlink, Strike, Fits, WithAttempt
    <3>2. links' = links \ {loc[th].att} \/ links' = links
      BY <2>9 DEF Unlink, Strike
    <3> QED BY <2>9, <3>1, <3>2, LedgerUnlinks DEF Unlink, Strike
  <2>10. CASE Finally(th)
    <3> DEFINE a == loc[th].att
    <3>1. CASE UNCHANGED slot BY <2>10, <3>1, <1>1 DEF Finally
    <3>2. CASE loc[th].release /\ slot' = [slot EXCEPT ![a] = "none"]
      <4>1. a \in Attempts /\ (slot[a] = "none" \/ row[a] \in Over)
        BY <2>10, <3>2, Here DEF Finally, Fits, WithAttempt
      <4>2. MayLive' = MayLive BY <2>10 DEF Finally, MayLive
      <4>3. Counted' = Counted \/ Counted' = Counted \ {a}
        BY <2>10, <3>2, <4>1 DEF Finally, Counted, LeaseInv, TypeOK
      <4>4. slot[a] = "none" => Counted' = Counted
        BY <2>10, <3>2, <4>1 DEF Finally, Counted, LeaseInv, TypeOK
      <4>5. row[a] \in Over => a \notin MayLive BY DEF Over, MayLive
      <4>6. CASE slot[a] = "none"
        BY <2>10, <4>2, <4>4, <4>6, LedgerStutters DEF Finally
      <4>7. CASE row[a] \in Over
        BY <2>10, <4>1, <4>2, <4>3, <4>5, <4>7, LedgerGives DEF Finally
      <4> QED BY <4>1, <4>6, <4>7
    <3> QED BY <2>10, <3>1, <3>2 DEF Finally
  <2> QED BY <1>2, <2>1, <2>2, <2>3, <2>4, <2>5, <2>6, <2>7, <2>8, <2>9, <2>10 DEF Request
<1>3. ASSUME NEW a \in Attempts, EngineStep(a) PROVE [Ledger!Next]_(Ledger!vars)
  <2>1. UNCHANGED owner /\ Counted' = Counted
    BY <1>3 DEF EngineStep, EngineRefuses, EngineSavesRow, EngineRollsBack,
       EngineStarts, HostDeletes, EngineWritesBack, EngineDeletesLate, Engine,
       dbVars, Counted
  <2>2. MayLive' = MayLive \/ MayLive' = MayLive \ {a}
    <3>1. CASE EngineSavesRow(a) \/ EngineStarts(a) \/ EngineWritesBack(a)
      BY <3>1 DEF EngineSavesRow, EngineStarts, EngineWritesBack, Engine, MayLive,
         LeaseInv, TypeOK
    <3>2. CASE \/ EngineRefuses(a) \/ EngineRollsBack(a) \/ HostDeletes(a)
               \/ EngineDeletesLate(a)
      BY <3>2 DEF EngineRefuses, EngineRollsBack, HostDeletes, EngineDeletesLate,
         Engine, MayLive, LeaseInv, TypeOK
    <3> QED BY <1>3, <3>1, <3>2 DEF EngineStep
  <2> QED BY <2>1, <2>2, LedgerStutters, LedgerEnds
<1>4. CASE Crash
  BY <1>4, <1>1 DEF Crash, dbVars, engVars
<1>5. CASE UNCHANGED vars
  BY <1>5, <1>1 DEF vars
<1> QED BY <1>2, <1>3, <1>4, <1>5 DEF Next

\* Every behaviour of the service, seen as which attempts are counted and which
\* have or may get a tunnel, is one LeaseLedger allows.
THEOREM ControlImplementsLedger == Spec => ImplementsLedger
BY LedgerInit, LedgerNext, LeaseInvariant, PTL
   DEF Spec, ImplementsLedger, Ledger!Spec
=============================================================================
