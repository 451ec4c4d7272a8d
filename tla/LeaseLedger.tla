---------------------------- MODULE LeaseLedger ----------------------------
(* What the tenancy service promises about leases, without requests, tables *)
(* or failures: a creation attempt is counted against its tenant's cap      *)
(* before the engine hears of it, and stays counted for as long as it has,  *)
(* or may still get, a tunnel.  LeaseControl is checked and proved to       *)
(* implement this module.                                                   *)
EXTENDS Integers, FiniteSets

CONSTANTS Tenants, Attempts, Cap, None

VARIABLES
    owner,   \* the tenant an attempt belongs to, None before it is made
    counted, \* attempts that occupy a slot of their tenant's cap
    live     \* attempts that have a tunnel or may still get one

vars == <<owner, counted, live>>

Share(t) == {a \in counted : owner[a] = t}

Init ==
    /\ owner = [a \in Attempts |-> None]
    /\ counted = {}
    /\ live = {}

Take(t, a) ==
    /\ owner[a] = None
    /\ Cardinality(Share(t)) < Cap
    /\ owner' = [owner EXCEPT ![a] = t]
    /\ counted' = counted \cup {a}
    /\ UNCHANGED live

Provision(a) ==
    /\ a \in counted \ live
    /\ live' = live \cup {a}
    /\ UNCHANGED <<owner, counted>>

End(a) ==
    /\ live' = live \ {a}
    /\ UNCHANGED <<owner, counted>>

Give(a) ==
    /\ a \in counted \ live
    /\ counted' = counted \ {a}
    /\ UNCHANGED <<owner, live>>

Next ==
    \E a \in Attempts :
        \/ \E t \in Tenants : Take(t, a)
        \/ Provision(a) \/ End(a) \/ Give(a)

Spec == Init /\ [][Next]_vars
=============================================================================
