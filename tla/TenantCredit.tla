---------------------------- MODULE TenantCredit ----------------------------
(***************************************************************************)
(* Accounts and credits of the tenancy service (ADR-0012).  The request    *)
(* threads share one connection: every store call is one transaction, and  *)
(* one step here.  A sign-up needs four of them after its count, and the   *)
(* admin routes reach a tenant from the first one on; metering a touch     *)
(* re-reads everything in its own transaction.  The clock passes between   *)
(* reading it and the transaction it is read for.                          *)
(***************************************************************************)
EXTENDS Integers, FiniteSets, Sequences, Subsequences

CONSTANTS
    Tenants,      \* ids a sign-up may draw
    Threads,      \* request threads
    MaxTenants,   \* max_tenants
    Starting,     \* starting_credits
    Interval,     \* credit_interval_s, metering on
    Keep,         \* ledger_keep
    Amounts,      \* what an admin grants
    MaxClock,     \* bound: the time
    MaxLag,       \* bound: the time between a clock reading and its transaction
    MaxAdmin,     \* bound: admin operations
    MaxFaults     \* bound: sqlite errors and process deaths
NoTenant == "none"

ASSUME CreditAssumption ==
    /\ NoTenant \notin Tenants /\ IsFiniteSet(Tenants)
    /\ IsFiniteSet(Threads) /\ Threads # {}
    /\ MaxTenants \in Nat /\ Starting \in Nat /\ Interval \in Nat \ {0} /\ Keep \in Nat
    /\ Amounts \subseteq Nat \ {0}
    /\ MaxClock \in Nat /\ MaxLag \in Nat /\ MaxAdmin \in Nat /\ MaxFaults \in Nat

VARIABLES
    row,     \* the tenants table
    ledger,  \* the ledger table, per tenant, in rowid order
    call,    \* what each thread is doing
    clock,
    audit,   \* history: what the ledger was told, also of pruned entries
    admin, faults \* counters for the bounds
creditVars == <<row, ledger, call, clock, audit, admin, faults>>

NoTime == -1
Absent == [state |-> "absent", key |-> 0, credits |-> 0, credited |-> NoTime]
Resting == [pc |-> "rest", tenant |-> NoTenant, seen |-> Absent, at |-> 0]

(* booked and metered sum what the ledger entries say was paid or granted,   *)
(* and how many periods they charged since the starting grant; issued tells  *)
(* admin_create from register; clean turns false when an admin route or a    *)
(* fault hits a sign-up between its transactions.                            *)
Unaudited == [booked |-> 0, metered |-> 0, since |-> NoTime, issued |-> FALSE, clean |-> TRUE]

CreditInit ==
    /\ row = [t \in Tenants |-> Absent]
    /\ ledger = [t \in Tenants |-> <<>>]
    /\ call = [w \in Threads |-> Resting]
    /\ clock = 0
    /\ audit = [t \in Tenants |-> Unaudited]
    /\ admin = 0 /\ faults = 0

Known == {t \in Tenants : row[t].state # "absent"}
At(w, pc) == call[w].pc = pc
Return(w) == call' = [call EXCEPT ![w] = Resting]
Since(at) == {now \in at..clock : now >= clock - MaxLag}
Now(w) == Since(call[w].at)
SigningUp(t, pcs) == \E w \in Threads : call[w].tenant = t /\ call[w].pc \in pcs

-----------------------------------------------------------------------------
(* The ledger. *)

Newer(es, i, j) == es[i].at > es[j].at \/ (es[i].at = es[j].at /\ i > j)

\* Fault: nothing is deleted.
KeptAll(es) == DOMAIN es

\* _prune_ledger keeps the newest entries, by time and then by rowid.
Kept(es) ==
    {i \in DOMAIN es : Cardinality({j \in DOMAIN es : Newer(es, j, i)}) < Keep}

Pruned(es) == Picked(es, Kept(es))

Booked(t, at, delta) ==
    ledger' = [ledger EXCEPT ![t] = Pruned(Append(@, [at |-> at, delta |-> delta]))]

-----------------------------------------------------------------------------
(* Sign-up. *)

Fresh(w, t) ==
    /\ At(w, "rest")
    /\ t \notin Known
    /\ ~\E x \in Threads : call[x].tenant = t

Enter(w, t, issued) ==
    /\ call' = [call EXCEPT ![w] = [pc |-> "save", tenant |-> t, seen |-> Absent, at |-> 0]]
    /\ audit' = [audit EXCEPT ![t].issued = issued]

\* Fault: the last seat is given twice.
CountLate(w) ==
    /\ Cardinality(Known) <= MaxTenants
    /\ \E t \in Tenants : Fresh(w, t) /\ Enter(w, t, FALSE)
    /\ UNCHANGED <<row, ledger, clock, admin, faults>>

\* register counts the tenants first ...
Count(w) ==
    /\ Cardinality(Known) < MaxTenants
    /\ \E t \in Tenants : Fresh(w, t) /\ Enter(w, t, FALSE)
    /\ UNCHANGED <<row, ledger, clock, admin, faults>>

\* ... admin_create does not.
AdminCreate(w) ==
    /\ admin < MaxAdmin
    /\ \E t \in Tenants : Fresh(w, t) /\ Enter(w, t, TRUE)
    /\ admin' = admin + 1
    /\ UNCHANGED <<row, ledger, clock, faults>>

\* save_tenant: the row Tenant.create built, without credits.
Save(w) ==
    /\ At(w, "save")
    /\ row' = [row EXCEPT ![call[w].tenant] = [Absent EXCEPT !.state = "active"]]
    /\ call' = [call EXCEPT ![w].pc = "grant", ![w].at = clock]
    /\ UNCHANGED <<ledger, clock, audit, admin, faults>>

\* grant_starting: save_tenant once more, the whole row as the handler has it.
GrantStarting(w) ==
    /\ At(w, "grant")
    /\ LET t == call[w].tenant
       IN  \E now \in Now(w) :
            /\ row' = [row EXCEPT ![t] = [state |-> "active", key |-> 0,
                                          credits |-> Starting, credited |-> now]]
            /\ audit' = [audit EXCEPT ![t].since = now]
            /\ call' = [call EXCEPT ![w].pc = "record", ![w].at = now]
    /\ UNCHANGED <<ledger, clock, admin, faults>>

\* record, which does not prune ...
Record(w) ==
    /\ At(w, "record")
    /\ LET t == call[w].tenant
       IN  /\ ledger' = [ledger EXCEPT ![t] = Append(@, [at |-> call[w].at, delta |-> Starting])]
           /\ audit' = [audit EXCEPT ![t].booked = @ + Starting]
    /\ call' = [call EXCEPT ![w].pc = "prune", ![w].at = 0]
    /\ UNCHANGED <<row, clock, admin, faults>>

\* ... and prune_ledger.
Prune(w) ==
    /\ At(w, "prune")
    /\ ledger' = [ledger EXCEPT ![call[w].tenant] = Pruned(@)]
    /\ Return(w)
    /\ UNCHANGED <<row, clock, audit, admin, faults>>

-----------------------------------------------------------------------------
(* An authenticated touch. *)

\* auth_tenant: get_by_key, the key it was given being the row's.
Lookup(w) ==
    /\ At(w, "rest")
    /\ \E t \in Known :
        /\ row[t].state = "active"
        /\ call' = [call EXCEPT ![w] = [pc |-> "drain", tenant |-> t, seen |-> row[t], at |-> clock]]
    /\ UNCHANGED <<row, ledger, clock, audit, admin, faults>>

\* Fault: the meter believes its caller.
ReadCaller(w) == call[w].seen

\* drain reads the row under the write lock.
Read(w) == row[call[w].tenant]

\* Fault: the whole row of the caller is written back.
ChargedCaller(w, r, credits, boundary) ==
    [call[w].seen EXCEPT !.credits = credits, !.credited = boundary]

Charged(w, r, credits, boundary) == [r EXCEPT !.credits = credits, !.credited = boundary]

\* Fault: the tenant goes into debt.
PaidInFull(due, credits) == due

\* A debit is at most the balance; the shortfall is only told.
Paid(due, credits) == IF due < credits THEN due ELSE credits

\* Fault: the meter restarts at the time of the touch.
BoundaryNow(credited, periods, now) == now

Boundary(credited, periods, now) == credited + periods * Interval

\* TenantsStore.drain: tick, debit and entry in one transaction.
Drain(w) ==
    /\ At(w, "drain")
    /\ \E now \in Now(w) :
        LET t == call[w].tenant
            r == Read(w)
            periods == (now - r.credited) \div Interval
            actual == Paid(periods, r.credits)
        IN  IF r.state # "active" \/ r.credited = NoTime \/ periods <= 0
            THEN UNCHANGED <<row, ledger, audit>>
            ELSE /\ row' = [row EXCEPT ![t] = Charged(w, @, r.credits - actual,
                                                      Boundary(r.credited, periods, now))]
                 /\ Booked(t, now, -actual)
                 /\ audit' = [audit EXCEPT ![t].booked = @ - actual,
                                           ![t].metered = @ + periods]
    /\ call' = [call EXCEPT ![w] = [Resting EXCEPT !.pc = "recheck"]]
    /\ UNCHANGED <<clock, admin, faults>>

\* The second get_by_key decides between the answer and a refusal.
Recheck(w) ==
    /\ At(w, "recheck")
    /\ Return(w)
    /\ UNCHANGED <<row, ledger, clock, audit, admin, faults>>

-----------------------------------------------------------------------------
(* The admin routes.  No route deletes a tenant: the lookup before each of   *)
(* them cannot go stale.                                                     *)

Touching(t) ==
    /\ admin < MaxAdmin
    /\ admin' = admin + 1
    /\ UNCHANGED <<call, clock, faults>>

\* TenantsStore.grant: balance and entry in one transaction.
Grant(t) ==
    /\ Touching(t)
    /\ \E a \in Amounts, now \in Since(0) :
        /\ row' = [row EXCEPT ![t].credits = @ + a]
        /\ Booked(t, now, a)
        /\ audit' = [audit EXCEPT ![t].booked = @ + a,
                                  ![t].clean = @ /\ ~SigningUp(t, {"grant"})]

Hit(t) == audit' = [audit EXCEPT ![t].clean = @ /\ ~SigningUp(t, {"grant"})]

Rotate(t) ==
    /\ Touching(t) /\ Hit(t)
    /\ row' = [row EXCEPT ![t].key = @ + 1]
    /\ UNCHANGED ledger

Disable(t) ==
    /\ Touching(t) /\ Hit(t)
    /\ row' = [row EXCEPT ![t].state = "disabled"]
    /\ UNCHANGED ledger

Tick ==
    /\ clock < MaxClock /\ clock' = clock + 1
    /\ UNCHANGED <<row, ledger, call, audit, admin, faults>>

\* A store call raises in one thread, or the process dies in all of them.
Break ==
    /\ faults < MaxFaults /\ faults' = faults + 1
    /\ \E ws \in {Threads} \cup {{w} : w \in Threads} :
        /\ call' = [w \in Threads |-> IF w \in ws THEN Resting ELSE call[w]]
        /\ audit' = [t \in Tenants |->
              [audit[t] EXCEPT !.clean = @ /\ ~\E w \in ws : /\ call[w].tenant = t
                                                             /\ call[w].pc \in {"grant", "record", "prune"}]]
    /\ UNCHANGED <<row, ledger, clock, admin>>

Request(w) ==
    \/ Count(w) \/ AdminCreate(w) \/ Save(w) \/ GrantStarting(w) \/ Record(w) \/ Prune(w)
    \/ Lookup(w) \/ Drain(w) \/ Recheck(w)

CreditNext ==
    \/ \E w \in Threads : Request(w)
    \/ \E t \in Known : Grant(t) \/ Rotate(t) \/ Disable(t)
    \/ Tick \/ Break

CreditSpec == CreditInit /\ [][CreditNext]_creditVars

-----------------------------------------------------------------------------
(* Properties. *)

\* Types; a balance never falls below zero, whoever charges it meanwhile.
CreditTypeOK ==
    /\ \A t \in Tenants :
        /\ row[t].state \in {"absent", "active", "disabled"}
        /\ row[t].key \in Nat /\ row[t].credits \in Nat
        /\ row[t].credited \in 0..clock \cup {NoTime}
        /\ \A i \in DOMAIN ledger[t] : ledger[t][i].at \in 0..clock
    /\ \A w \in Threads : call[w].tenant \in Tenants \cup {NoTenant}

Settled(t) == t \in Known /\ ~SigningUp(t, {"grant", "record", "prune"}) /\ audit[t].clean

\* Once a sign-up is over that nothing hit, the balance is the sum of the
\* entries ever made: racing touches and grants neither lose nor invent credits
\* (ADR-0012: "do not erase grants"; billing.py:20-21).
BalanceIsBooked == \A t \in Tenants : Settled(t) => row[t].credits = audit[t].booked

\* Every whole period since the starting grant is charged by exactly one entry,
\* however many touches meter at once (ADR-0012: "charge a boundary once").
ChargedOnce ==
    \A t \in Tenants : Settled(t) =>
        row[t].credited = audit[t].since + Interval * audit[t].metered

\* Concurrent sign-ups overshoot the cap by the other threads at most.
SeatsAreBounded ==
    Cardinality({t \in Known : ~audit[t].issued}) <= MaxTenants + Cardinality(Threads) - 1

\* Entries beyond ledger_keep are the one a sign-up has not pruned yet, or that
\* its end left behind.
LedgerIsBounded ==
    \A t \in Tenants : Len(ledger[t]) <= Keep + (IF Settled(t) THEN 0 ELSE 1)

\* Nobody but a sign-up's second save takes back what an admin did: a meter
\* that started before a disable or a rotation leaves state and key alone
\* (ADR-0012: "do not erase grants or key/state changes").
AdminStands ==
    [][\A t \in Known :
         \/ SigningUp(t, {"grant"})
         \/ /\ row'[t].key >= row[t].key
            /\ row[t].state = "disabled" => row'[t].state = "disabled"]_creditVars
=============================================================================
