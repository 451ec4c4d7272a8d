------------------------------ MODULE HostPick ------------------------------
(***************************************************************************)
(* Host mode of the engine: which tunnel the host should use.  A pass      *)
(* measures every running tunnel, which takes seconds, and publishes its   *)
(* pick in three assignments; GET /host reads the three without the lock   *)
(* those are made under.  Tunnels come and go meanwhile; port and user of  *)
(* an id never change, so a set of ids is the signature.  The routes       *)
(* always force a fresh measurement.                                       *)
(***************************************************************************)
EXTENDS Integers, FiniteSets

CONSTANTS
    Ids,        \* tunnel ids
    Callers,    \* request threads of the engine
    Latencies,  \* what a measurement yields
    PickTTL,    \* host_pick_ttl_s
    MaxTime,    \* bound: the time
    MaxTunnels  \* bound: tunnels created
ASSUME PickAssumption ==
    /\ IsFiniteSet(Ids) /\ Latencies \subseteq Nat /\ Latencies # {}
    /\ PickTTL \in Nat /\ MaxTime \in Nat /\ MaxTunnels \in Nat

VARIABLES
    listed,    \* the running tunnels
    pick,      \* _pick
    pickAt,    \* _pick_at
    pickSig,   \* _pick_signature
    pickHeld,  \* the thread under the lock
    caller,    \* what each thread is doing
    now,
    created    \* tunnels so far
pickVars == <<listed, pick, pickAt, pickSig, pickHeld, caller, now, created>>

NoId == "none"
NotAsking == [pc |-> "rest", tuns |-> {}, todo |-> {}, found |-> {},
              age |-> 0, torn |-> FALSE, id |-> NoId]

PickInit ==
    /\ listed = {}
    /\ pick = NoId /\ pickAt = 0 /\ pickSig = {}
    /\ pickHeld = FALSE
    /\ caller = [c \in Callers |-> NotAsking]
    /\ now = 0 /\ created = 0

\* Tunnels of the engine (TunnelEngine): ids are never used twice.
TunnelComes ==
    /\ created < MaxTunnels /\ created' = created + 1
    /\ \E t \in Ids \ (listed \cup pickSig \cup {pick}) :
        /\ \A c \in Callers : t \notin caller[c].tuns
        /\ listed' = listed \cup {t}
    /\ UNCHANGED <<pick, pickAt, pickSig, pickHeld, caller, now>>

TunnelGoes ==
    /\ \E t \in listed : listed' = listed \ {t}
    /\ UNCHANGED <<pick, pickAt, pickSig, pickHeld, caller, now, created>>

PickTick ==
    /\ now < MaxTime /\ now' = now + 1
    /\ UNCHANGED <<listed, pick, pickAt, pickSig, pickHeld, caller, created>>

Becomes(c, s) == caller' = [caller EXCEPT ![c] = s]

-----------------------------------------------------------------------------
(* pick_best, forced: POST /host/pick and a target of "auto". *)

\* The route reads the tunnels; with none of them running it answers 409.
PickLoad(c) ==
    /\ caller[c].pc = "rest"
    /\ listed # {}
    /\ Becomes(c, [NotAsking EXCEPT !.pc = "measure", !.tuns = listed, !.todo = listed])
    /\ UNCHANGED <<listed, pick, pickAt, pickSig, pickHeld, now, created>>

\* One tunnel after the other is measured or does not answer.
Measure(c) ==
    /\ caller[c].pc = "measure"
    /\ \E t \in caller[c].todo :
        \E found \in {caller[c].found} \cup {caller[c].found \cup {[id |-> t, ms |-> ms]} : ms \in Latencies} :
            Becomes(c, [caller[c] EXCEPT !.todo = @ \ {t}, !.found = found,
                                         !.pc = IF caller[c].todo = {t} THEN "rank" ELSE "measure"])
    /\ UNCHANGED <<listed, pick, pickAt, pickSig, pickHeld, now, created>>

\* Least latency; throughput settles ties.
Best(found) == {m.id : m \in {x \in found : \A y \in found : x.ms <= y.ms}}

\* Nothing answered: 409, and the last pick stays.  Otherwise _pick is written ...
Rank(c) ==
    /\ caller[c].pc = "rank"
    /\ IF caller[c].found = {}
       THEN Becomes(c, NotAsking) /\ UNCHANGED <<pick, pickHeld>>
       ELSE /\ ~pickHeld
            /\ pickHeld' = TRUE
            /\ pick' \in Best(caller[c].found)
            /\ caller' = [x \in Callers |-> IF x = c THEN [caller[c] EXCEPT !.pc = "at", !.id = pick']
                                            ELSE [caller[x] EXCEPT !.torn = TRUE]]
    /\ UNCHANGED <<listed, pickAt, pickSig, now, created>>

\* ... then _pick_at ...
StampPick(c) ==
    /\ caller[c].pc = "at"
    /\ pickAt' = now
    /\ Becomes(c, [caller[c] EXCEPT !.pc = "sign"])
    /\ UNCHANGED <<listed, pick, pickSig, pickHeld, now, created>>

\* ... then the signature of the tunnels the pass was given.
SignPick(c) ==
    /\ caller[c].pc = "sign"
    /\ pickSig' = caller[c].tuns
    /\ pickHeld' = FALSE
    /\ Becomes(c, [caller[c] EXCEPT !.pc = "resolve"])
    /\ UNCHANGED <<listed, pick, pickAt, now, created>>

\* Fault: the target is whatever was picked last.
TargetShared(c) == pick

Target(c) == caller[c].id

\* _host_apply hands the agent the endpoint of the row, if it is still there.
Apply(c) ==
    /\ caller[c].pc = "resolve"
    /\ Target(c) \in listed
    /\ Becomes(c, [caller[c] EXCEPT !.pc = "sent", !.id = Target(c)])
    /\ UNCHANGED <<listed, pick, pickAt, pickSig, pickHeld, now, created>>

-----------------------------------------------------------------------------
(* current_pick, for GET /host: the route reads the tunnels and asks the    *)
(* agent first; then three looks, none under the lock.                      *)

ShowLoad(c) ==
    /\ caller[c].pc = "rest"
    /\ listed # {}
    /\ Becomes(c, [NotAsking EXCEPT !.pc = "compare", !.tuns = listed])
    /\ UNCHANGED <<listed, pick, pickAt, pickSig, pickHeld, now, created>>

SameCandidates(c) == caller[c].tuns = pickSig

Compare(c) ==
    /\ caller[c].pc = "compare"
    /\ Becomes(c, IF pick # NoId /\ SameCandidates(c)
                  THEN [caller[c] EXCEPT !.pc = "age", !.torn = pickHeld] ELSE NotAsking)
    /\ UNCHANGED <<listed, pick, pickAt, pickSig, pickHeld, now, created>>

\* Fault: a pick is good for one TTL more.
ExpiredLate == now - pickAt > PickTTL

Expired == now - pickAt >= PickTTL

CheckAge(c) ==
    /\ caller[c].pc = "age"
    /\ Becomes(c, IF Expired THEN NotAsking
                  ELSE [caller[c] EXCEPT !.pc = "read", !.age = now - pickAt])
    /\ UNCHANGED <<listed, pick, pickAt, pickSig, pickHeld, now, created>>

Show(c) ==
    /\ caller[c].pc = "read"
    /\ Becomes(c, [caller[c] EXCEPT !.pc = "shown", !.id = pick])
    /\ UNCHANGED <<listed, pick, pickAt, pickSig, pickHeld, now, created>>

\* The answer is out: a pick, a 409, or what the agent said.
Answered(c) ==
    /\ caller[c].pc \in {"resolve", "shown", "sent"}
    /\ Becomes(c, NotAsking)
    /\ UNCHANGED <<listed, pick, pickAt, pickSig, pickHeld, now, created>>

PickNext ==
    \/ TunnelComes \/ TunnelGoes \/ PickTick
    \/ \E c \in Callers :
        \/ PickLoad(c) \/ Measure(c) \/ Rank(c) \/ StampPick(c) \/ SignPick(c)
        \/ Apply(c) \/ Answered(c)
        \/ ShowLoad(c) \/ Compare(c) \/ CheckAge(c) \/ Show(c)

PickSpec == PickInit /\ [][PickNext]_pickVars

-----------------------------------------------------------------------------
(* Properties. *)

\* GET /host never names a pick for tunnels that changed since, nor one older
\* than the TTL, unless another thread published while it looked (host.py:217
\* reads without the lock).
ShownPickIsCurrent ==
    \A c \in Callers : caller[c].pc = "shown" /\ ~caller[c].torn =>
        caller[c].id \in caller[c].tuns /\ caller[c].age < PickTTL

\* The target of "auto" answered in the pass made for this request, whatever
\* other passes publish meanwhile.
TargetAnswered ==
    \A c \in Callers : caller[c].pc = "sent" =>
        caller[c].id \in {m.id : m \in caller[c].found}
=============================================================================
