---------------------------- MODULE LeaseControl ----------------------------
(* The tenancy service: request threads that create, list and delete a      *)
(* tenant's tunnels and an admin who disables tenants, over tenancy.db and  *)
(* an engine that is a separate process.  Each store method is one          *)
(* transaction; each engine call may be lost, refused, or answered after    *)
(* the caller has given up, while the engine works on.                      *)
(* One attempt stands for one POST to the engine: its reservation id, and   *)
(* the tunnel id the engine mints for it.  Credits are CreditMeter's; here  *)
(* a create may find the balance too low at any time.                       *)
EXTENDS Integers, FiniteSets

CONSTANTS
    Tenants,    \* rows of the tenants table
    Attempts,   \* creation attempts (uuid4 reservation ids, each used once)
    Threads,    \* Flask request threads
    Cap,        \* settings.max_tunnels_per_tenant
    MaxCrashes, \* bound: how often the tenancy process dies
    None

ASSUME LeaseAssumption ==
    /\ IsFiniteSet(Attempts)
    /\ Cap \in Nat
    /\ MaxCrashes \in Nat
    /\ None \notin Tenants \cup Attempts

VARIABLES
    state,   \* tenants.state
    owner,   \* the tenant an attempt was reserved for
    slot,    \* tunnel_reservations: no row, a row, a row with its tunnel_id
    links,   \* tenant_tunnels
    row,     \* the attempt at the engine, from the POST to the row's deletion
    late,    \* tunnels with a DELETE the caller no longer waits for
    pc, loc, \* per thread: next step, local variables
    undone,  \* history: linked tunnels whose clean-up after a disable failed
    crashes  \* history: number of process deaths

dbVars  == <<state, owner, slot, links>>
engVars == <<row, late>>
thVars  == <<pc, loc>>
sysVars == <<undone, crashes>>
vars    == <<state, owner, slot, links, row, late, pc, loc, undone, crashes>>

Jobs == {"create", "read", "delete", "disable"}
Local == [job: Jobs \cup {"none"}, ten: Tenants \cup {None},
          att: Attempts \cup {None}, todo: SUBSET Attempts,
          refused: BOOLEAN, release: BOOLEAN]
NoLocal == [job |-> "none", ten |-> None, att |-> None, todo |-> {},
            refused |-> FALSE, release |-> FALSE]

\* Where an attempt stands at the engine: POSTed, row saved, container running;
\* refused without a row, rolled back, deleted, or deleted and written back.
Stages == {"unsent", "sent", "creating", "up", "refused", "failed", "gone", "back"}
Listed == {a \in Attempts : row[a] \in {"creating", "up", "back"}}
MayLive == {a \in Attempts : row[a] \in {"sent", "creating", "up"}}

Linked(t) == {a \in links : owner[a] = t}
Reserved(t) == {a \in Attempts : owner[a] = t /\ slot[a] # "none"}

\* Fault: the guarded INSERT counts tunnels only.
UsedByLinks(t) == Cardinality(Linked(t))

\* What a tenant has used up of its cap.
Used(t) == Cardinality(Linked(t)) + Cardinality(Reserved(t))

Steps == {"idle", "scope", "list", "prune", "reserve", "send", "await", "note",
          "complete", "undo", "unlink", "compensate", "finally", "delete",
          "mapping", "sweep", "strike"}

Init ==
    /\ state = [t \in Tenants |-> "active"]
    /\ owner = [a \in Attempts |-> None]
    /\ slot = [a \in Attempts |-> "none"]
    /\ links = {}
    /\ row = [a \in Attempts |-> "unsent"]
    /\ late = {}
    /\ pc = [th \in Threads |-> "idle"]
    /\ loc = [th \in Threads |-> NoLocal]
    /\ undone = {}
    /\ crashes = 0

Goto(th, step, l) ==
    /\ pc' = [pc EXCEPT ![th] = step]
    /\ loc' = [loc EXCEPT ![th] = l]
Return(th) == Goto(th, "idle", NoLocal)

-----------------------------------------------------------------------------
(* Requests of a tenant.                                                    *)

\* auth_tenant accepts the key; GET /v1/public/tunnels reads active tenants too.
Enter(th, t, job) ==
    /\ pc[th] = "idle"
    /\ state[t] = "active"
    /\ job \in {"create", "read", "delete"}
    /\ Goto(th, "scope", [NoLocal EXCEPT !.job = job, !.ten = t])
    /\ UNCHANGED <<dbVars, engVars, sysVars>>

\* Fault: DELETE goes on with an id that is not a lease of the tenant.
OnwardUnchecked(job, att) ==
    CASE job = "create" -> "reserve"
      [] job = "delete" -> "delete"
      [] OTHER -> "idle"

\* Where a handler goes on once tunnels_for_tenant returned: renew changes no
\* lease and ends like a read, as does a DELETE of an id that was not listed.
Onward(job, att) ==
    CASE job = "create" -> "reserve"
      [] job = "delete" /\ att # None -> "delete"
      [] OTHER -> "idle"

AfterListing(th, att, todo) ==
    LET onward == Onward(loc[th].job, att) IN
    IF todo = {} /\ onward = "idle"
    THEN Return(th)
    ELSE Goto(th, IF todo = {} THEN onward ELSE "prune",
              [loc[th] EXCEPT !.att = att, !.todo = todo])

ReadScope(th) ==
    /\ pc[th] = "scope"
    /\ LET scope == Linked(loc[th].ten) IN
       IF scope = {}
       THEN AfterListing(th, None, {})
       ELSE Goto(th, "list", [loc[th] EXCEPT !.todo = scope])
    /\ UNCHANGED <<dbVars, engVars, sysVars>>

\* The engine's listing, or its failure (502). A DELETE goes on with one of the
\* leases; what the scope names and the listing lacks is to be unlinked.
ListEngine(th) ==
    /\ pc[th] = "list"
    /\ LET leases == loc[th].todo \cap Listed IN
       \/ Return(th)
       \/ /\ loc[th].job = "delete"
          /\ \E a \in leases : AfterListing(th, a, loc[th].todo \ Listed)
       \/ AfterListing(th, None, loc[th].todo \ Listed)
    /\ UNCHANGED <<dbVars, engVars, sysVars>>

Prune(th) ==
    /\ pc[th] = "prune"
    /\ \E a \in loc[th].todo :
          /\ links' = links \ {a}
          /\ AfterListing(th, loc[th].att, loc[th].todo \ {a})
    /\ UNCHANGED <<state, owner, slot, engVars, sysVars>>

\* reserve_tunnel: one guarded INSERT; the refusals change nothing.
Reserve(th) ==
    /\ pc[th] = "reserve"
    /\ LET t == loc[th].ten IN
       \/ /\ Return(th)
          /\ UNCHANGED dbVars
       \/ /\ state[t] = "active"
          /\ Used(t) < Cap
          /\ \E a \in Attempts :
                /\ owner[a] = None
                /\ owner' = [owner EXCEPT ![a] = t]
                /\ slot' = [slot EXCEPT ![a] = "open"]
                /\ Goto(th, "send", [loc[th] EXCEPT !.att = a])
          /\ UNCHANGED <<state, links>>
    /\ UNCHANGED <<engVars, sysVars>>

SendCreate(th) ==
    /\ pc[th] = "send"
    /\ row' = [row EXCEPT ![loc[th].att] = "sent"]
    /\ Goto(th, "await", loc[th])
    /\ UNCHANGED <<dbVars, late, sysVars>>

CreateAnswered(th) ==
    /\ pc[th] = "await"
    /\ row[loc[th].att] \in {"up", "gone", "back"}
    /\ Goto(th, "note", loc[th])
    /\ UNCHANGED <<dbVars, engVars, sysVars>>

\* Fault: a lost answer releases the slot like a rejection.
UncertainReleases(th) ==
    /\ pc[th] = "await"
    /\ Goto(th, "finally", [loc[th] EXCEPT !.release = TRUE])
    /\ UNCHANGED <<dbVars, engVars, sysVars>>

\* No connection, a timeout, a 500 with the row left behind, a malformed 201.
CreateUncertain(th) ==
    /\ pc[th] = "await"
    /\ Goto(th, "finally", [loc[th] EXCEPT !.release = FALSE])
    /\ UNCHANGED <<dbVars, engVars, sysVars>>

\* An error answer after which the engine holds nothing: release_slot is
\* 400 <= status < 500.  The engine answers 5xx when it rolls a row back.
CreateRejected(th) ==
    /\ pc[th] = "await"
    /\ row[loc[th].att] \in {"refused", "failed"}
    /\ \E release \in {FALSE, row[loc[th].att] = "refused"} :
          Goto(th, "finally", [loc[th] EXCEPT !.refused = TRUE, !.release = release])
    /\ UNCHANGED <<dbVars, engVars, sysVars>>

\* note_reservation_tunnel, or sqlite3.Error.
Note(th) ==
    /\ pc[th] = "note"
    /\ \/ /\ slot' = [slot EXCEPT ![loc[th].att] =
                        IF @ = "none" THEN @ ELSE "noted"]
          /\ Goto(th, "complete", loc[th])
       \/ /\ Goto(th, "compensate", loc[th])
          /\ UNCHANGED slot
    /\ UNCHANGED <<state, owner, links, engVars, sysVars>>

\* Fault: the state is not read again when the reservation becomes a link.
CompleteBlind(th) ==
    /\ pc[th] = "complete"
    /\ links' = links \cup {loc[th].att}
    /\ slot' = [slot EXCEPT ![loc[th].att] = "none"]
    /\ Goto(th, "finally", [loc[th] EXCEPT !.release = TRUE])
    /\ UNCHANGED <<state, owner, engVars, sysVars>>

\* complete_reservation: the reservation becomes a link and the state is read,
\* in one transaction, or sqlite3.Error.
Complete(th) ==
    /\ pc[th] = "complete"
    /\ LET a == loc[th].att IN
       \/ /\ links' = IF slot[a] = "none" THEN links ELSE links \cup {a}
          /\ slot' = [slot EXCEPT ![a] = "none"]
          /\ Goto(th, IF slot[a] # "none" /\ state[loc[th].ten] = "active"
                      THEN "finally" ELSE "undo",
                  [loc[th] EXCEPT !.release = TRUE])
       \/ /\ Goto(th, "compensate", loc[th])
          /\ UNCHANGED <<links, slot>>
    /\ UNCHANGED <<state, owner, engVars, sysVars>>

\* engine.delete_tunnel as its caller sees it: 204, 404, or an error that
\* leaves the engine free to finish the DELETE later.
Deletes(a) ==
    /\ row[a] \in {"up", "back"}
    /\ row' = [row EXCEPT ![a] = "gone"]
    /\ UNCHANGED late
FindsNone(a) == row[a] = "gone" /\ UNCHANGED engVars
FailsToDelete(a) == late' \in {late, late \cup {a}} /\ UNCHANGED row

\* The tenant was disabled while the engine worked: take the tunnel back.
Undo(th) ==
    /\ pc[th] = "undo"
    /\ LET a == loc[th].att IN
       \/ Deletes(a) /\ Goto(th, "unlink", loc[th]) /\ UNCHANGED undone
       \/ /\ FindsNone(a) \/ FailsToDelete(a)
          /\ Goto(th, "finally", loc[th])
          /\ undone' = undone \cup {a}
    /\ UNCHANGED <<dbVars, crashes>>

\* unlink_tunnel after a DELETE went through, for a create that is undone and
\* for the tenant's own DELETE, or sqlite3.Error.
Unlink(th) ==
    /\ pc[th] = "unlink"
    /\ \/ /\ links' = links \ {loc[th].att}
          /\ IF loc[th].job = "create"
             THEN Goto(th, "finally", loc[th])
             ELSE Return(th)
       \/ /\ IF loc[th].job = "create"
             THEN Goto(th, "compensate", loc[th])
             ELSE Return(th)
          /\ UNCHANGED links
    /\ UNCHANGED <<state, owner, slot, engVars, sysVars>>

\* The ownership could not be saved: delete the tunnel, and release the slot
\* only if the engine confirms.
Compensate(th) ==
    /\ pc[th] = "compensate"
    /\ LET a == loc[th].att IN
       \/ /\ Deletes(a) \/ FindsNone(a)
          /\ Goto(th, "finally", [loc[th] EXCEPT !.release = TRUE])
       \/ /\ FailsToDelete(a)
          /\ Goto(th, "finally", [loc[th] EXCEPT !.release = FALSE])
    /\ UNCHANGED <<dbVars, sysVars>>

\* release_reservation, or sqlite3.Error out of the finally block.
Finally(th) ==
    /\ pc[th] = "finally"
    /\ \/ loc[th].release /\ slot' = [slot EXCEPT ![loc[th].att] = "none"]
       \/ UNCHANGED slot
    /\ Return(th)
    /\ UNCHANGED <<state, owner, links, engVars, sysVars>>

DeleteTunnel(th) ==
    /\ pc[th] = "delete"
    /\ LET a == loc[th].att IN
       \/ Deletes(a) /\ Goto(th, "unlink", loc[th])
       \/ (FindsNone(a) \/ FailsToDelete(a)) /\ Return(th)
    /\ UNCHANGED <<dbVars, sysVars>>

-----------------------------------------------------------------------------
(* The admin disables a tenant.                                             *)

Disable(th, t) ==
    /\ pc[th] = "idle"
    /\ state' = [state EXCEPT ![t] = "disabled"]
    /\ Goto(th, "mapping", [NoLocal EXCEPT !.job = "disable", !.ten = t])
    /\ UNCHANGED <<owner, slot, links, engVars, sysVars>>

SweepOn(th, todo) ==
    IF todo = {}
    THEN Return(th)
    ELSE Goto(th, "sweep", [loc[th] EXCEPT !.att = None, !.todo = todo])

ReadMapping(th) ==
    /\ pc[th] = "mapping"
    /\ SweepOn(th, Linked(loc[th].ten))
    /\ UNCHANGED <<dbVars, engVars, sysVars>>

Sweep(th) ==
    /\ pc[th] = "sweep"
    /\ \E a \in loc[th].todo :
       \/ /\ Deletes(a) \/ FindsNone(a)
          /\ Goto(th, "strike", [loc[th] EXCEPT !.att = a, !.todo = @ \ {a}])
          /\ UNCHANGED undone
       \/ /\ FailsToDelete(a)
          /\ undone' = undone \cup {a}
          /\ SweepOn(th, loc[th].todo \ {a})
    /\ UNCHANGED <<dbVars, crashes>>

\* unlink_tunnel, or sqlite3.Error: the handler ends with 500 half-way.
Strike(th) ==
    /\ pc[th] = "strike"
    /\ \/ /\ links' = links \ {loc[th].att}
          /\ SweepOn(th, loc[th].todo)
          /\ UNCHANGED undone
       \/ /\ Return(th)
          /\ undone' = undone \cup loc[th].todo
          /\ UNCHANGED links
    /\ UNCHANGED <<state, owner, slot, engVars, crashes>>

-----------------------------------------------------------------------------
(* The engine, as far as the tenancy service can tell: it finishes what it  *)
(* was sent whether or not the caller still waits.                          *)

Engine(a, from, to) ==
    /\ row[a] \in from
    /\ row' = [row EXCEPT ![a] = to]
    /\ UNCHANGED <<dbVars, thVars, sysVars>>

EngineRefuses(a)   == Engine(a, {"sent"}, "refused") /\ UNCHANGED late
EngineSavesRow(a)  == Engine(a, {"sent"}, "creating") /\ UNCHANGED late
EngineRollsBack(a) == Engine(a, {"creating"}, "failed") /\ UNCHANGED late
EngineStarts(a)    == Engine(a, {"creating"}, "up") /\ UNCHANGED late
\* A DELETE from the host's own panel, which shares the engine.
HostDeletes(a)     == Engine(a, {"up", "back"}, "gone") /\ UNCHANGED late
\* A pass that read the row before the DELETE writes it back (TunnelEngine,
\* DeleteIsFinal).
EngineWritesBack(a) == Engine(a, {"gone"}, "back") /\ UNCHANGED late
EngineDeletesLate(a) ==
    /\ a \in late
    /\ late' = late \ {a}
    /\ Engine(a, {"up", "back"}, "gone")

\* The tenancy process dies; tenancy.db and the engine go on.
Crash ==
    /\ crashes < MaxCrashes
    /\ crashes' = crashes + 1
    /\ pc' = [th \in Threads |-> "idle"]
    /\ loc' = [th \in Threads |-> NoLocal]
    /\ undone' = undone \cup {a \in links : \E th \in Threads :
                               loc[th].ten = owner[a] /\ state[owner[a]] = "disabled"}
    /\ UNCHANGED <<dbVars, engVars>>

-----------------------------------------------------------------------------
Request(th) ==
    \/ \E t \in Tenants : (\E job \in Jobs : Enter(th, t, job)) \/ Disable(th, t)
    \/ ReadScope(th) \/ ListEngine(th) \/ Prune(th) \/ Reserve(th) \/ SendCreate(th)
    \/ CreateAnswered(th) \/ CreateUncertain(th) \/ CreateRejected(th)
    \/ Note(th) \/ Complete(th) \/ Undo(th) \/ Unlink(th) \/ Compensate(th)
    \/ Finally(th) \/ DeleteTunnel(th)
    \/ ReadMapping(th) \/ Sweep(th) \/ Strike(th)

EngineStep(a) ==
    \/ EngineRefuses(a) \/ EngineSavesRow(a) \/ EngineRollsBack(a) \/ EngineStarts(a)
    \/ HostDeletes(a) \/ EngineWritesBack(a) \/ EngineDeletesLate(a)

Next ==
    \/ \E th \in Threads : Request(th)
    \/ \E a \in Attempts : EngineStep(a)
    \/ Crash

Spec == Init /\ [][Next]_vars

-----------------------------------------------------------------------------
(* Properties.                                                              *)

WithAttempt == {"send", "await", "note", "complete", "undo", "unlink",
                "compensate", "finally", "delete", "strike"}

\* Types; a thread past its reservation, or past the membership check of a
\* DELETE, holds an attempt (create_tenant_tunnel, delete_tenant_tunnel).
TypeOK ==
    /\ state \in [Tenants -> {"active", "disabled"}]
    /\ owner \in [Attempts -> Tenants \cup {None}]
    /\ slot \in [Attempts -> {"none", "open", "noted"}]
    /\ links \subseteq Attempts
    /\ row \in [Attempts -> Stages]
    /\ late \subseteq Attempts
    /\ pc \in [Threads -> Steps]
    /\ loc \in [Threads -> Local]
    /\ undone \subseteq Attempts
    /\ crashes \in 0..MaxCrashes
    /\ \A th \in Threads : pc[th] \in WithAttempt => loc[th].att # None

\* Whatever answers are lost and whoever else creates, lists, deletes or
\* disables meanwhile, a tenant never has more tunnels running or still coming
\* than max_tunnels_per_tenant (reserve_tunnel, release_slot).
CapHolds ==
    \A t \in Tenants : Cardinality({a \in MayLive : owner[a] = t}) <= Cap

\* When no request of a disabled tenant is under way, a tunnel of its that
\* still runs is one whose clean-up was seen to fail, or is not in the mapping
\* at all: a create that races the disable is swept or undoes itself
\* (complete_reservation reads the state with the link, admin_disable reads
\* the mapping after the state).
DisableReachesAll ==
    \A t \in Tenants :
        (state[t] = "disabled" /\ \A th \in Threads : loc[th].ten # t)
            => \A a \in Linked(t) : row[a] = "up" => a \in undone

\* Every step is one of the abstract ledger's: no slot is taken beyond the cap,
\* nothing is provisioned uncounted, and no reservation or ownership row is
\* given up while its tunnel runs or may still come.
Ledger == INSTANCE LeaseLedger WITH
    counted <- {a \in Attempts : slot[a] # "none"} \cup links,
    live <- MayLive
ImplementsLedger == Ledger!Spec

\* ADR-0012: "A definite creation rejection releases the slot."
RejectionReleases ==
    \A th \in Threads :
        (pc[th] = "finally" /\ loc[th].refused) => loc[th].release
=============================================================================
