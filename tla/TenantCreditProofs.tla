------------------------- MODULE TenantCreditProofs -------------------------
(* Proofs about TenantCredit, for every set of tenants and threads, every    *)
(* interval, cap and ledger length, and any number of faults.                *)
EXTENDS TenantCredit, SubsequenceProofs, TLAPS

Row == [state : {"absent", "active", "disabled"}, key : Nat, credits : Nat,
        credited : Nat \cup {NoTime}]
LedgerEntry == [at : Nat, delta : Int]
Steps == {"rest", "save", "grant", "record", "prune", "drain", "recheck"}
Call == [pc : Steps, tenant : Tenants \cup {NoTenant}, seen : Row, at : Nat]
Audit == [booked : Int, metered : Nat, since : Nat \cup {NoTime},
          issued : BOOLEAN, clean : BOOLEAN]

Typed ==
    /\ row \in [Tenants -> Row]
    /\ ledger \in [Tenants -> Seq(LedgerEntry)]
    /\ call \in [Threads -> Call]
    /\ audit \in [Tenants -> Audit]
    /\ clock \in Nat /\ admin \in Nat /\ faults \in Nat

\* No time that is kept lies ahead of the clock.
NoneAhead ==
    /\ \A t \in Tenants : row[t].credited # NoTime => row[t].credited <= clock
    /\ \A t \in Tenants : \A i \in DOMAIN ledger[t] : ledger[t][i].at <= clock
    /\ \A w \in Threads : call[w].at <= clock

\* The steps of a sign-up, and those with a tenant in hand.
SignUp == {"save", "grant", "record", "prune"}
Knowing == {"grant", "record", "prune", "drain"}

\* What a thread at a step knows of its tenant.
Informed ==
    \A w \in Threads :
        /\ call[w].pc \in {"rest", "recheck"} <=> call[w].tenant = NoTenant
        /\ call[w].pc = "save" => call[w].tenant \notin Known
        /\ call[w].pc \in Knowing => call[w].tenant \in Known

\* An id is drawn by one sign-up.
OneSignUp ==
    \A w, x \in Threads :
        call[w].pc \in SignUp /\ call[x].pc \in SignUp /\ call[w].tenant = call[x].tenant
            => w = x

\* Tenants by where their sign-up stands.
Saving == {t \in Tenants : SigningUp(t, {"save"})}
Granting == {t \in Tenants : SigningUp(t, {"grant"})}
Recording == {t \in Tenants : SigningUp(t, {"record"})}
Pruning == {t \in Tenants : SigningUp(t, {"prune"})}

\* Before a tenant is saved nothing is told of it.
Unheard ==
    \A t \in Tenants \ Known :
        ledger[t] = <<>> /\ audit[t].booked = 0 /\ audit[t].metered = 0

\* The books of an account no admin and no fault hit in the middle of its
\* sign-up: nothing before the starting grant; then the balance, less a
\* starting grant not yet recorded, is what was booked, and the meter stands
\* at a whole number of periods after it.
Books ==
    \A t \in Known : audit[t].clean =>
        IF t \in Granting
        THEN /\ row[t].credits = 0 /\ row[t].credited = NoTime
             /\ audit[t].booked = 0 /\ audit[t].metered = 0
        ELSE /\ row[t].credits = audit[t].booked + (IF t \in Recording THEN Starting ELSE 0)
             /\ audit[t].since \in Nat
             /\ row[t].credited = audit[t].since + Interval * audit[t].metered

\* A ledger has one entry too many only between record and prune_ledger, or for
\* good when the sign-up ended there.
Lengths ==
    \A t \in Tenants :
        /\ Len(ledger[t]) <= Keep + 1
        /\ t \in Saving \cup Granting \cup Recording => Len(ledger[t]) <= Keep
        /\ audit[t].clean /\ t \notin Pruning => Len(ledger[t]) <= Keep

\* Seats taken by sign-ups, those not saved yet included.
Seats == {t \in Known \cup Saving : ~audit[t].issued}
SeatsLeft == Cardinality(Seats) <= MaxTenants + Cardinality(Threads) - 1

CreditInv ==
    Typed /\ NoneAhead /\ Informed /\ OneSignUp /\ Unheard /\ Books /\ Lengths /\ SeatsLeft

-----------------------------------------------------------------------------
(* The ledger. *)

\* At most Keep entries have fewer than Keep newer ones: their numbers of newer
\* entries are all different.
LEMMA KeptIsBounded ==
    ASSUME NEW es \in Seq(LedgerEntry)
    PROVE  Kept(es) \in SUBSET DOMAIN es /\ Cardinality(Kept(es)) <= Keep
<1> DEFINE After(i) == {j \in DOMAIN es : Newer(es, j, i)}
           T == 0..(Keep - 1)
           place == [i \in Kept(es) |-> Cardinality(After(i))]
<1>1. Keep \in Nat BY CreditAssumption
<1>2. DOMAIN es = 1..Len(es) /\ Len(es) \in Nat
      /\ \A i \in DOMAIN es : es[i].at \in Nat /\ i \in Nat
  <2>1. DOMAIN es = 1..Len(es) /\ Len(es) \in Nat OBVIOUS
  <2>2. \A i \in DOMAIN es : es[i] \in LedgerEntry OBVIOUS
  <2> QED BY <2>1, <2>2 DEF LedgerEntry
<1>3. IsFiniteSet(DOMAIN es)
  <2>1. 1 \in Int /\ Len(es) \in Int BY <1>2
  <2> QED BY <2>1, <1>2, FS_Interval
<1>4. \A i \in DOMAIN es : IsFiniteSet(After(i)) /\ Cardinality(After(i)) \in Nat
  <2>1. ASSUME NEW i \in DOMAIN es PROVE IsFiniteSet(After(i)) /\ Cardinality(After(i)) \in Nat
    <3>1. After(i) \subseteq DOMAIN es OBVIOUS
    <3> HIDE DEF After
    <3> QED BY <3>1, <1>3, FS_Subset, FS_CardinalityType
  <2> QED BY <2>1
<1>5. ASSUME NEW i \in DOMAIN es, NEW k \in DOMAIN es, Newer(es, k, i)
      PROVE  Cardinality(After(k)) < Cardinality(After(i))
  <2>1. After(k) \subseteq After(i) BY <1>2, <1>5 DEF Newer
  <2>2. k \in After(i) /\ k \notin After(k) BY <1>2, <1>5 DEF Newer
  <2>3. After(k) # After(i) BY <2>2
  <2> HIDE DEF After
  <2> QED BY <2>1, <2>3, <1>4, FS_Subset
<1>6. Kept(es) \subseteq DOMAIN es BY DEF Kept
<1>7. place \in [Kept(es) -> T]
  <2>1. ASSUME NEW i \in Kept(es) PROVE Cardinality(After(i)) \in T
    <3>1. i \in DOMAIN es /\ Cardinality(After(i)) < Keep BY DEF Kept
    <3> HIDE DEF After
    <3> QED BY <3>1, <1>1, <1>4
  <2> HIDE DEF After
  <2> QED BY <2>1
<1>8. ASSUME NEW i \in Kept(es), NEW k \in Kept(es), place[i] = place[k] PROVE i = k
  <2>1. i \in DOMAIN es /\ k \in DOMAIN es BY <1>6
  <2>2. i = k \/ Newer(es, k, i) \/ Newer(es, i, k) BY <2>1, <1>2 DEF Newer
  <2>3. Cardinality(After(i)) = Cardinality(After(k)) BY <1>8
  <2> HIDE DEF After, place
  <2> QED BY <2>1, <2>2, <2>3, <1>4, <1>5
<1>9. place \in Injection(Kept(es), T)
  <2> HIDE DEF place
  <2> QED BY <1>7, <1>8 DEF Injection, IsInjective
<1>10. IsFiniteSet(T) /\ Cardinality(T) = Keep
  <2>1. 0 \in Int /\ Keep - 1 \in Int BY <1>1
  <2> QED BY <2>1, <1>1, FS_Interval
<1>11. Cardinality(Kept(es)) <= Cardinality(T)
  <2> HIDE DEF place, T
  <2> QED BY <1>9, <1>10, FS_Injection
<1> QED BY <1>6, <1>10, <1>11

LEMMA PrunedIsBounded ==
    ASSUME NEW es \in Seq(LedgerEntry)
    PROVE  /\ Pruned(es) \in Seq(LedgerEntry)
           /\ Len(Pruned(es)) <= Keep
           /\ \A k \in DOMAIN Pruned(es) : \E i \in DOMAIN es : Pruned(es)[k] = es[i]
<1>1. Kept(es) \in SUBSET DOMAIN es /\ Cardinality(Kept(es)) <= Keep BY KeptIsBounded
<1>2. /\ Picked(es, Kept(es)) \in Seq(LedgerEntry)
      /\ Len(Picked(es, Kept(es))) = Cardinality(Kept(es))
      /\ \A k \in 1..Cardinality(Kept(es)) :
            Nth(Kept(es), k) \in Kept(es) /\ Picked(es, Kept(es))[k] = es[Nth(Kept(es), k)]
  BY <1>1, PickedProperties
<1>3. DOMAIN Picked(es, Kept(es)) = 1..Cardinality(Kept(es)) BY <1>2
<1> QED BY <1>1, <1>2, <1>3 DEF Pruned

\* An entry no later than the clock is added.
LEMMA EntryAdded ==
    ASSUME Typed, NoneAhead, NEW t \in Tenants, NEW at \in Nat, at <= clock, NEW delta \in Int
    PROVE  LET es == Append(ledger[t], [at |-> at, delta |-> delta])
           IN  /\ es \in Seq(LedgerEntry) /\ Len(es) = Len(ledger[t]) + 1
               /\ \A i \in DOMAIN es : es[i].at <= clock
<1> DEFINE e == [at |-> at, delta |-> delta]
           es == Append(ledger[t], e)
<1>1. ledger[t] \in Seq(LedgerEntry) /\ e \in LedgerEntry BY DEF Typed, LedgerEntry
<1>2. es \in Seq(LedgerEntry) /\ Len(es) = Len(ledger[t]) + 1 BY <1>1
<1>3. \A i \in DOMAIN es : es[i].at <= clock
  <2>1. ASSUME NEW i \in DOMAIN es PROVE es[i].at <= clock
    <3>1. i \in 1..Len(ledger[t]) + 1 BY <1>1
    <3>2. CASE i \in DOMAIN ledger[t]
      <4>1. es[i] = ledger[t][i] BY <3>2, <1>1
      <4> QED BY <3>2, <4>1 DEF NoneAhead
    <3>3. CASE i = Len(ledger[t]) + 1
      <4>1. es[i] = e BY <3>3, <1>1
      <4> QED BY <4>1
    <3> QED BY <3>1, <3>2, <3>3, <1>1
  <2> QED BY <2>1
<1> QED BY <1>2, <1>3

\* An entry is added and the ledger pruned.
LEMMA BookedKeeps ==
    ASSUME Typed, NoneAhead, NEW t \in Tenants, NEW at \in Nat, at <= clock, NEW delta \in Int,
           Booked(t, at, delta)
    PROVE  /\ ledger' \in [Tenants -> Seq(LedgerEntry)]
           /\ Len(ledger'[t]) <= Keep
           /\ \A u \in Tenants : u # t => ledger'[u] = ledger[u]
           /\ \A u \in Tenants : \A i \in DOMAIN ledger'[u] : ledger'[u][i].at <= clock
<1> DEFINE es == Append(ledger[t], [at |-> at, delta |-> delta])
<1>1. es \in Seq(LedgerEntry) BY EntryAdded
<1>2. \A i \in DOMAIN es : es[i].at <= clock BY EntryAdded
<1>3. ledger' = [ledger EXCEPT ![t] = Pruned(es)] BY DEF Booked
<1> HIDE DEF es
<1>4. /\ Pruned(es) \in Seq(LedgerEntry) /\ Len(Pruned(es)) <= Keep
      /\ \A k \in DOMAIN Pruned(es) : \E i \in DOMAIN es : Pruned(es)[k] = es[i]
  BY <1>1, PrunedIsBounded
<1>5. \A k \in DOMAIN Pruned(es) : Pruned(es)[k].at <= clock BY <1>2, <1>4
<1> QED BY <1>3, <1>4, <1>5 DEF Typed, NoneAhead

-----------------------------------------------------------------------------
(* A thread takes a step. *)

\* A sign-up moves on: it is the only one for its tenant.
LEMMA SigningMoves ==
    ASSUME CreditInv, NEW w \in Threads, NEW c, call' = [call EXCEPT ![w] = c],
           call[w].pc \in SignUp, c.pc \in SignUp => c.tenant = call[w].tenant
    PROVE  \A t \in Tenants :
               IF t = call[w].tenant
               THEN /\ (t \in Saving <=> call[w].pc = "save") /\ (t \in Saving' <=> c.pc = "save")
                    /\ (t \in Granting <=> call[w].pc = "grant") /\ (t \in Granting' <=> c.pc = "grant")
                    /\ (t \in Recording <=> call[w].pc = "record") /\ (t \in Recording' <=> c.pc = "record")
                    /\ (t \in Pruning <=> call[w].pc = "prune") /\ (t \in Pruning' <=> c.pc = "prune")
               ELSE /\ t \in Saving' <=> t \in Saving
                    /\ t \in Granting' <=> t \in Granting
                    /\ t \in Recording' <=> t \in Recording
                    /\ t \in Pruning' <=> t \in Pruning
<1>1. /\ call'[w] = c /\ \A x \in Threads \ {w} : call'[x] = call[x]
  BY DEF CreditInv, Typed
<1>2. \A x \in Threads \ {w} : call[x].pc \in SignUp => call[x].tenant # call[w].tenant
  BY DEF CreditInv, OneSignUp
<1> QED BY <1>1, <1>2 DEF Saving, Granting, Recording, Pruning, SigningUp, SignUp

\* A step that is no part of a sign-up.
LEMMA SigningStays ==
    ASSUME CreditInv, NEW w \in Threads, NEW c, call' = [call EXCEPT ![w] = c],
           call[w].pc \notin SignUp, c.pc \notin SignUp
    PROVE  Saving' = Saving /\ Granting' = Granting /\ Recording' = Recording /\ Pruning' = Pruning
<1>1. /\ call'[w] = c /\ \A x \in Threads \ {w} : call'[x] = call[x]
  BY DEF CreditInv, Typed
<1> QED BY <1>1 DEF Saving, Granting, Recording, Pruning, SigningUp, SignUp

\* What a thread leaves the others to know.
LEMMA CallStep ==
    ASSUME CreditInv, NEW w \in Threads, NEW c \in Call, call' = [call EXCEPT ![w] = c],
           c.pc \in {"rest", "recheck"} <=> c.tenant = NoTenant,
           c.pc = "save" => c.tenant \notin Known',
           c.pc \in Knowing => c.tenant \in Known',
           Known \subseteq Known',
           \A t \in Known' \ Known : call[w].pc = "save" /\ call[w].tenant = t,
           \/ c.pc \notin SignUp
           \/ call[w].pc \in SignUp /\ c.tenant = call[w].tenant
           \/ \A x \in Threads : call[x].tenant # c.tenant
    PROVE  Informed' /\ OneSignUp'
<1>1. /\ call' \in [Threads -> Call] /\ call'[w] = c
      /\ \A x \in Threads \ {w} : call'[x] = call[x]
  BY DEF CreditInv, Typed
<1>2. Informed'
  <2>1. ASSUME NEW x \in Threads
        PROVE  /\ call'[x].pc \in {"rest", "recheck"} <=> call'[x].tenant = NoTenant
               /\ call'[x].pc = "save" => call'[x].tenant \notin Known'
               /\ call'[x].pc \in Knowing => call'[x].tenant \in Known'
    <3>1. CASE x = w BY <3>1, <1>1
    <3>2. CASE x # w
      <4>1. /\ call[x].pc \in {"rest", "recheck"} <=> call[x].tenant = NoTenant
            /\ call[x].pc = "save" => call[x].tenant \notin Known
            /\ call[x].pc \in Knowing => call[x].tenant \in Known
        BY DEF CreditInv, Informed
      <4>2. call[x].pc = "save" => call[x].tenant \notin Known'
        BY <3>2, <4>1 DEF CreditInv, OneSignUp, SignUp
      <4> QED BY <3>2, <1>1, <4>1, <4>2
    <3> QED BY <3>1, <3>2
  <2> QED BY <2>1 DEF Informed
<1>3. OneSignUp'
  <2>1. ASSUME NEW x \in Threads, NEW y \in Threads,
               call'[x].pc \in SignUp, call'[y].pc \in SignUp, call'[x].tenant = call'[y].tenant
        PROVE  x = y
    <3>1. CASE x # w /\ y # w BY <3>1, <2>1, <1>1 DEF CreditInv, OneSignUp
    <3>2. CASE x = w /\ y # w BY <3>2, <2>1, <1>1 DEF CreditInv, OneSignUp
    <3>3. CASE x # w /\ y = w BY <3>3, <2>1, <1>1 DEF CreditInv, OneSignUp
    <3> QED BY <3>1, <3>2, <3>3
  <2> QED BY <2>1 DEF OneSignUp
<1> QED BY <1>2, <1>3

LEMMA SeatsShrink ==
    ASSUME SeatsLeft, Seats' \subseteq Seats
    PROVE  SeatsLeft'
<1>1. IsFiniteSet(Tenants) /\ IsFiniteSet(Threads) /\ MaxTenants \in Nat BY CreditAssumption
<1>2. IsFiniteSet(Seats) BY <1>1, FS_Subset DEF Seats, Known, Saving
<1>3. Cardinality(Seats') <= Cardinality(Seats)
      /\ Cardinality(Seats') \in Nat /\ Cardinality(Seats) \in Nat
  BY <1>2, FS_Subset, FS_CardinalityType
<1>4. Cardinality(Threads) \in Nat BY <1>1, FS_CardinalityType
<1> QED BY <1>1, <1>3, <1>4 DEF SeatsLeft

-----------------------------------------------------------------------------
(* Sign-up. *)

\* A seat is drawn.
LEMMA EnterKeeps ==
    ASSUME CreditInv, NEW w \in Threads, NEW t \in Tenants, NEW issued \in BOOLEAN,
           Fresh(w, t), Enter(w, t, issued),
           ~issued => Cardinality(Known) < MaxTenants,
           UNCHANGED <<row, ledger, clock, faults>>, admin' \in Nat
    PROVE  CreditInv'
<1> DEFINE c == [pc |-> "save", tenant |-> t, seen |-> Absent, at |-> 0]
<1>1. c = [pc |-> "save", tenant |-> t, seen |-> Absent, at |-> 0] /\ c \in Call
  <2>1. Absent \in Row BY DEF Row, Absent, NoTime
  <2> QED BY <2>1 DEF Call, Steps
<1>2. /\ call' = [call EXCEPT ![w] = c] /\ call[w].pc = "rest"
      /\ t \notin Known /\ \A x \in Threads : call[x].tenant # t
      /\ audit' = [audit EXCEPT ![t].issued = issued]
      /\ UNCHANGED <<row, ledger, clock, faults>> /\ Known' = Known
  BY DEF Enter, Fresh, At, Known
<1> HIDE DEF c
<1>3. Saving' = Saving \cup {t} /\ Granting' = Granting /\ Recording' = Recording /\ Pruning' = Pruning
  <2>1. /\ call'[w] = c /\ \A x \in Threads \ {w} : call'[x] = call[x]
    BY <1>2 DEF CreditInv, Typed
  <2> QED BY <1>1, <1>2, <2>1 DEF Saving, Granting, Recording, Pruning, SigningUp
<1>4. Typed'
  <2>1. call' \in [Threads -> Call] BY <1>1, <1>2 DEF CreditInv, Typed
  <2>2. audit' \in [Tenants -> Audit] BY <1>2 DEF CreditInv, Typed, Audit
  <2> QED BY <1>2, <2>1, <2>2 DEF CreditInv, Typed
<1>5. NoneAhead'
  <2>1. \A x \in Threads : call'[x].at <= clock BY <1>1, <1>2 DEF CreditInv, Typed, NoneAhead
  <2> QED BY <1>2, <2>1 DEF CreditInv, NoneAhead
<1>6. Informed' /\ OneSignUp'
  <2>1. c.pc = "save" /\ c.tenant = t /\ t # NoTenant BY <1>1, CreditAssumption
  <2>2. /\ c.pc \in {"rest", "recheck"} <=> c.tenant = NoTenant
        /\ c.pc = "save" => c.tenant \notin Known'
        /\ c.pc \in Knowing => c.tenant \in Known'
    BY <1>2, <2>1 DEF Knowing
  <2>3. Known \subseteq Known' /\ Known' \ Known = {} /\ \A x \in Threads : call[x].tenant # c.tenant
    BY <1>2, <2>1
  <2> QED BY <1>1, <1>2, <2>2, <2>3, CallStep
<1>7. Unheard' BY <1>2 DEF CreditInv, Typed, Unheard, Audit
<1>8. Books'
  <2>1. ASSUME NEW u \in Known PROVE audit'[u] = audit[u]
    BY <1>2 DEF Known, CreditInv, Typed
  <2> QED BY <1>2, <1>3, <2>1 DEF CreditInv, Books
<1>9. Lengths'
  <2>1. \A u \in Tenants : audit'[u].clean = audit[u].clean BY <1>2 DEF CreditInv, Typed, Audit
  <2>2. Len(ledger[t]) = 0 /\ Keep \in Nat BY <1>2, CreditAssumption DEF CreditInv, Unheard
  <2> QED BY <1>2, <1>3, <2>1, <2>2 DEF CreditInv, Lengths
<1>10. SeatsLeft'
  <2>1. CASE issued
    <3>1. audit'[t].issued /\ \A u \in Tenants : u # t => audit'[u] = audit[u]
      BY <1>2, <2>1 DEF CreditInv, Typed, Audit
    <3>2. Seats' \subseteq Seats
      BY <1>2, <1>3, <3>1 DEF Seats, Known, Saving
    <3> QED BY <3>2, SeatsShrink DEF CreditInv
  <2>2. CASE ~issued
    <3> DEFINE Others == Threads \ {w}
               Drawn == {call[x].tenant : x \in Others}
               drawn == [x \in Others |-> call[x].tenant]
               Claimed == Known \cup {t}
    <3>1. IsFiniteSet(Tenants) /\ IsFiniteSet(Threads) /\ MaxTenants \in Nat BY CreditAssumption
    <3>2. IsFiniteSet(Others) /\ Cardinality(Others) = Cardinality(Threads) - 1
      BY <3>1, FS_RemoveElement
    <3>3. drawn \in Surjection(Others, Drawn) BY DEF Surjection
    <3>4. IsFiniteSet(Drawn) /\ Cardinality(Drawn) <= Cardinality(Others)
      <4> HIDE DEF Drawn, drawn, Others
      <4> QED BY <3>2, <3>3, FS_Surjection
    <3>5. IsFiniteSet(Known) /\ Cardinality(Known) \in Nat
      BY <3>1, FS_Subset, FS_CardinalityType DEF Known
    <3>6. IsFiniteSet(Claimed) /\ Cardinality(Claimed) <= MaxTenants
      <4>1. IsFiniteSet(Claimed) /\ Cardinality(Claimed) = Cardinality(Known) + 1
        BY <3>5, <1>2, FS_AddElement
      <4> QED BY <4>1, <2>2, <3>1, <3>5
    <3>7. Seats' \subseteq Claimed \cup Drawn
      <4>1. Saving \subseteq Drawn BY <1>2 DEF Saving, SigningUp
      <4> QED BY <1>2, <1>3, <4>1 DEF Seats
    <3> HIDE DEF Drawn, Others, drawn, Claimed
    <3>8. IsFiniteSet(Claimed \cup Drawn)
          /\ Cardinality(Claimed \cup Drawn) <= Cardinality(Claimed) + Cardinality(Drawn)
      <4>1. /\ IsFiniteSet(Claimed \cup Drawn)
            /\ Cardinality(Claimed \cup Drawn)
                  = Cardinality(Claimed) + Cardinality(Drawn) - Cardinality(Claimed \cap Drawn)
        BY <3>4, <3>6, FS_Union
      <4>2. Cardinality(Claimed \cap Drawn) \in Nat
        BY <3>6, FS_Subset, FS_CardinalityType
      <4>3. Cardinality(Claimed) \in Nat /\ Cardinality(Drawn) \in Nat
        BY <3>4, <3>6, FS_CardinalityType
      <4> QED BY <4>1, <4>2, <4>3
    <3>9. Cardinality(Seats') <= Cardinality(Claimed \cup Drawn) /\ Cardinality(Seats') \in Nat
      BY <3>7, <3>8, FS_Subset, FS_CardinalityType
    <3>10. Cardinality(Claimed) \in Nat /\ Cardinality(Drawn) \in Nat
           /\ Cardinality(Threads) \in Nat /\ Cardinality(Claimed \cup Drawn) \in Nat
      BY <3>1, <3>4, <3>6, <3>8, FS_CardinalityType
    <3> QED BY <3>1, <3>2, <3>4, <3>6, <3>8, <3>9, <3>10 DEF SeatsLeft
  <2> QED BY <2>1, <2>2
<1> QED BY <1>4, <1>5, <1>6, <1>7, <1>8, <1>9, <1>10 DEF CreditInv

\* A thread past the draw has a tenant in hand.
LEMMA InHand ==
    ASSUME CreditInv, NEW w \in Threads, call[w].pc \notin {"rest", "recheck"}
    PROVE  /\ call[w] \in Call /\ call[w].tenant \in Tenants /\ call[w].tenant # NoTenant
           /\ row[call[w].tenant] \in Row /\ audit[call[w].tenant] \in Audit
           /\ ledger[call[w].tenant] \in Seq(LedgerEntry)
           /\ call[w].pc = "save" => call[w].tenant \notin Known
           /\ call[w].pc \in Knowing => call[w].tenant \in Known
<1>1. call[w] \in Call BY DEF CreditInv, Typed
<1>2. call[w].tenant # NoTenant BY DEF CreditInv, Informed
<1>3. call[w].tenant \in Tenants BY <1>1, <1>2 DEF Call
<1> QED BY <1>1, <1>2, <1>3 DEF CreditInv, Typed, Informed

\* What save_tenant writes: a row without credits.
LEMMA SaveKeeps ==
    ASSUME CreditInv, NEW w \in Threads, Save(w)
    PROVE  CreditInv'
<1> DEFINE t == call[w].tenant
           c == [call[w] EXCEPT !.pc = "grant", !.at = clock]
           r == [state |-> "active", key |-> 0, credits |-> 0, credited |-> NoTime]
<1>1. /\ call[w].pc = "save" /\ call[w] \in Call /\ t \in Tenants /\ t \notin Known /\ t # NoTenant
      /\ UNCHANGED <<ledger, clock, audit, admin, faults>>
  BY InHand DEF Save, At
<1>2. c \in Call /\ call' = [call EXCEPT ![w] = c]
      /\ c.pc = "grant" /\ c.tenant = t /\ c.at = clock
  <2>1. c \in Call /\ c.pc = "grant" /\ c.tenant = t /\ c.at = clock
    BY <1>1 DEF Call, Steps, CreditInv, Typed
  <2>2. call' = [call EXCEPT ![w] = c] BY DEF Save, CreditInv, Typed
  <2> QED BY <2>1, <2>2
<1>3. r \in Row /\ row' = [row EXCEPT ![t] = r]
  <2>1. r \in Row BY DEF Row, NoTime
  <2>2. Absent \in Row BY DEF Row, Absent, NoTime
  <2>3. Absent.key = 0 /\ Absent.credits = 0 /\ Absent.credited = NoTime BY DEF Absent
  <2>4. [Absent EXCEPT !.state = "active"] = r BY <2>2, <2>3 DEF Row
  <2>5. row' = [row EXCEPT ![t] = r] BY <2>4 DEF Save
  <2> QED BY <2>1, <2>5
<1>4. row'[t] = r /\ \A u \in Tenants : u # t => row'[u] = row[u]
  BY <1>1, <1>3 DEF CreditInv, Typed
<1>6. r.state = "active" /\ r.credits = 0 /\ r.credited = NoTime OBVIOUS
<1> HIDE DEF c, r
<1>7. Known' = Known \cup {t} BY <1>1, <1>4, <1>6 DEF Known
<1>8. \A u \in Tenants :
         IF u = t
         THEN /\ u \in Saving /\ u \notin Saving' /\ u \notin Granting /\ u \in Granting'
              /\ u \notin Recording /\ u \notin Recording' /\ u \notin Pruning /\ u \notin Pruning'
         ELSE /\ u \in Saving' <=> u \in Saving
              /\ u \in Granting' <=> u \in Granting
              /\ u \in Recording' <=> u \in Recording
              /\ u \in Pruning' <=> u \in Pruning
  BY <1>1, <1>2, SigningMoves DEF SignUp
<1>9. Typed' BY <1>1, <1>2, <1>3 DEF CreditInv, Typed
<1>10. NoneAhead'
  <2>1. \A x \in Threads : call'[x].at <= clock
    BY <1>2 DEF CreditInv, Typed, NoneAhead
  <2> QED BY <1>1, <1>4, <1>6, <2>1 DEF CreditInv, NoneAhead
<1>11. Informed' /\ OneSignUp'
  <2>1. /\ c.pc \in {"rest", "recheck"} <=> c.tenant = NoTenant
        /\ c.pc = "save" => c.tenant \notin Known'
        /\ c.pc \in Knowing => c.tenant \in Known'
        /\ call[w].pc \in SignUp /\ c.tenant = call[w].tenant
    BY <1>1, <1>2, <1>7 DEF SignUp
  <2>2. Known \subseteq Known' /\ \A u \in Known' \ Known : call[w].pc = "save" /\ call[w].tenant = u
    BY <1>1, <1>7
  <2> QED BY <1>2, <2>1, <2>2, CallStep
<1>12. Unheard' BY <1>1, <1>7 DEF CreditInv, Unheard
<1>13. Books'
  <2>1. ASSUME NEW u \in Known', audit'[u].clean
        PROVE  IF u \in Granting'
               THEN /\ row'[u].credits = 0 /\ row'[u].credited = NoTime
                    /\ audit'[u].booked = 0 /\ audit'[u].metered = 0
               ELSE /\ row'[u].credits = audit'[u].booked + (IF u \in Recording' THEN Starting ELSE 0)
                    /\ audit'[u].since \in Nat
                    /\ row'[u].credited = audit'[u].since + Interval * audit'[u].metered
    <3>1. CASE u = t BY <3>1, <1>1, <1>4, <1>6, <1>8 DEF CreditInv, Unheard
    <3>2. CASE u # t
      <4>1. u \in Known /\ u \in Tenants BY <3>2, <1>7 DEF Known
      <4> QED BY <3>2, <4>1, <2>1, <1>1, <1>4, <1>8 DEF CreditInv, Books
    <3> QED BY <3>1, <3>2
  <2> QED BY <2>1 DEF Books
<1>14. Lengths' BY <1>1, <1>8 DEF CreditInv, Lengths
<1>15. SeatsLeft'
  <2>1. Seats' \subseteq Seats BY <1>1, <1>7, <1>8 DEF Seats, Saving
  <2> QED BY <2>1, SeatsShrink DEF CreditInv
<1> QED BY <1>9, <1>10, <1>11, <1>12, <1>13, <1>14, <1>15 DEF CreditInv

\* grant_starting: balance and meter of a new account.
LEMMA GrantStartingKeeps ==
    ASSUME CreditInv, NEW w \in Threads, GrantStarting(w)
    PROVE  CreditInv'
<1> DEFINE t == call[w].tenant
<1>1. /\ call[w].pc = "grant" /\ call[w] \in Call /\ t \in Tenants /\ t \in Known /\ t # NoTenant
      /\ UNCHANGED <<ledger, clock, admin, faults>>
      /\ call[w].at \in Nat /\ call[w].at <= clock /\ clock \in Nat
  BY InHand DEF GrantStarting, At, Knowing, Call, CreditInv, NoneAhead, Typed
<1>2. PICK now \in Now(w) :
        /\ row' = [row EXCEPT ![t] = [state |-> "active", key |-> 0,
                                      credits |-> Starting, credited |-> now]]
        /\ audit' = [audit EXCEPT ![t].since = now]
        /\ call' = [call EXCEPT ![w].pc = "record", ![w].at = now]
  BY DEF GrantStarting
<1>3. now \in Nat /\ now <= clock BY <1>1 DEF Now, Since
<1> DEFINE c == [call[w] EXCEPT !.pc = "record", !.at = now]
           r == [state |-> "active", key |-> 0, credits |-> Starting, credited |-> now]
<1>4. c \in Call /\ call' = [call EXCEPT ![w] = c]
      /\ c.pc = "record" /\ c.tenant = t /\ c.at = now
  <2>1. c \in Call /\ c.pc = "record" /\ c.tenant = t /\ c.at = now
    BY <1>1, <1>3 DEF Call, Steps
  <2>2. call' = [call EXCEPT ![w] = c] BY <1>2 DEF CreditInv, Typed
  <2> QED BY <2>1, <2>2
<1>5. r \in Row /\ row' = [row EXCEPT ![t] = r]
      /\ r.state = "active" /\ r.credits = Starting /\ r.credited = now
  BY <1>2, <1>3, CreditAssumption DEF Row
<1> HIDE DEF c, r
<1>6. row'[t] = r /\ \A u \in Tenants : u # t => row'[u] = row[u]
  BY <1>1, <1>5 DEF CreditInv, Typed
<1>7. /\ audit' \in [Tenants -> Audit]
      /\ audit'[t].since = now /\ audit'[t].booked = audit[t].booked
      /\ audit'[t].metered = audit[t].metered /\ audit'[t].clean = audit[t].clean
      /\ audit'[t].issued = audit[t].issued
      /\ \A u \in Tenants : u # t => audit'[u] = audit[u]
  BY <1>1, <1>2, <1>3 DEF CreditInv, Typed, Audit
<1>8. Known' = Known BY <1>1, <1>5, <1>6 DEF Known
<1>9. \A u \in Tenants :
         IF u = t
         THEN /\ u \notin Saving /\ u \notin Saving' /\ u \in Granting /\ u \notin Granting'
              /\ u \notin Recording /\ u \in Recording' /\ u \notin Pruning /\ u \notin Pruning'
         ELSE /\ u \in Saving' <=> u \in Saving
              /\ u \in Granting' <=> u \in Granting
              /\ u \in Recording' <=> u \in Recording
              /\ u \in Pruning' <=> u \in Pruning
  BY <1>1, <1>4, SigningMoves DEF SignUp
<1>10. Typed' BY <1>1, <1>4, <1>5, <1>7 DEF CreditInv, Typed
<1>11. NoneAhead'
  <2>1. \A x \in Threads : call'[x].at <= clock
    BY <1>3, <1>4 DEF CreditInv, Typed, NoneAhead
  <2> QED BY <1>1, <1>3, <1>5, <1>6, <2>1 DEF CreditInv, NoneAhead
<1>12. Informed' /\ OneSignUp'
  <2>1. /\ c.pc \in {"rest", "recheck"} <=> c.tenant = NoTenant
        /\ c.pc = "save" => c.tenant \notin Known'
        /\ c.pc \in Knowing => c.tenant \in Known'
        /\ call[w].pc \in SignUp /\ c.tenant = call[w].tenant
    BY <1>1, <1>4, <1>8 DEF SignUp
  <2>2. Known \subseteq Known' /\ Known' \ Known = {}
    BY <1>8
  <2> QED BY <1>4, <2>1, <2>2, CallStep
<1>13. Unheard' BY <1>1, <1>7, <1>8 DEF CreditInv, Unheard
<1>14. Books'
  <2>1. \A u \in Known' : u # t => u \in Known /\ row'[u] = row[u] /\ audit'[u] = audit[u]
                                   /\ (u \in Granting' <=> u \in Granting)
                                   /\ (u \in Recording' <=> u \in Recording)
    BY <1>6, <1>7, <1>8, <1>9 DEF Known
  <2>2. /\ row'[t].credits = Starting /\ row'[t].credited = now /\ audit'[t].since = now /\ now \in Nat
        /\ audit'[t].clean => audit'[t].booked = 0 /\ audit'[t].metered = 0
    BY <1>1, <1>3, <1>5, <1>6, <1>7, <1>9 DEF CreditInv, Books
  <2>3. Interval \in Nat /\ Starting \in Nat BY CreditAssumption
  <2> QED BY <2>1, <2>2, <2>3, <1>9, <1>1 DEF CreditInv, Books
<1>15. Lengths' BY <1>1, <1>7, <1>9 DEF CreditInv, Lengths
<1>16. SeatsLeft'
  <2>1. Seats' \subseteq Seats BY <1>1, <1>7, <1>8, <1>9 DEF Seats, Known, Saving
  <2> QED BY <2>1, SeatsShrink DEF CreditInv
<1> QED BY <1>10, <1>11, <1>12, <1>13, <1>14, <1>15, <1>16 DEF CreditInv

\* record: the starting grant is told, the ledger not yet pruned.
LEMMA RecordKeeps ==
    ASSUME CreditInv, NEW w \in Threads, Record(w)
    PROVE  CreditInv'
<1> DEFINE t == call[w].tenant
           es == Append(ledger[t], [at |-> call[w].at, delta |-> Starting])
           c == [call[w] EXCEPT !.pc = "prune", !.at = 0]
<1>1. /\ call[w].pc = "record" /\ call[w] \in Call /\ t \in Tenants /\ t \in Known /\ t # NoTenant
      /\ UNCHANGED <<row, clock, admin, faults>> /\ Known' = Known
      /\ call[w].at \in Nat /\ call[w].at <= clock /\ clock \in Nat
  BY InHand DEF Record, At, Knowing, Call, CreditInv, NoneAhead, Typed, Known
<1>2. Starting \in Nat BY CreditAssumption
<1>3. /\ es \in Seq(LedgerEntry) /\ Len(es) = Len(ledger[t]) + 1
      /\ \A i \in DOMAIN es : es[i].at <= clock
  <2>1. Starting \in Int BY <1>2
  <2>2. Typed /\ NoneAhead BY DEF CreditInv
  <2> QED BY <1>1, <2>1, <2>2, EntryAdded
<1>4. c \in Call /\ call' = [call EXCEPT ![w] = c]
      /\ c.pc = "prune" /\ c.tenant = t /\ c.at = 0
  <2>1. c \in Call /\ c.pc = "prune" /\ c.tenant = t /\ c.at = 0
    BY <1>1 DEF Call, Steps
  <2>2. call' = [call EXCEPT ![w] = c] BY DEF Record, CreditInv, Typed
  <2> QED BY <2>1, <2>2
<1>5. ledger' = [ledger EXCEPT ![t] = es] BY DEF Record
<1> HIDE DEF c, es
<1>6. /\ ledger' \in [Tenants -> Seq(LedgerEntry)] /\ ledger'[t] = es
      /\ \A u \in Tenants : u # t => ledger'[u] = ledger[u]
  BY <1>1, <1>3, <1>5 DEF CreditInv, Typed
<1>7. /\ audit' \in [Tenants -> Audit]
      /\ audit'[t].since = audit[t].since /\ audit'[t].booked = audit[t].booked + Starting
      /\ audit'[t].metered = audit[t].metered /\ audit'[t].clean = audit[t].clean
      /\ audit'[t].issued = audit[t].issued
      /\ \A u \in Tenants : u # t => audit'[u] = audit[u]
  <2> DEFINE sum == audit[t].booked + Starting
  <2>1. sum \in Int BY <1>1, <1>2 DEF CreditInv, Typed, Audit
  <2>2. audit' = [audit EXCEPT ![t].booked = sum] BY DEF Record
  <2>3. sum = audit[t].booked + Starting OBVIOUS
  <2> HIDE DEF sum
  <2>4. /\ audit' \in [Tenants -> Audit]
        /\ audit'[t].since = audit[t].since /\ audit'[t].booked = sum
        /\ audit'[t].metered = audit[t].metered /\ audit'[t].clean = audit[t].clean
        /\ audit'[t].issued = audit[t].issued
        /\ \A u \in Tenants : u # t => audit'[u] = audit[u]
    BY <1>1, <2>1, <2>2 DEF CreditInv, Typed, Audit
  <2> QED BY <2>3, <2>4
<1>8. \A u \in Tenants :
         IF u = t
         THEN /\ u \notin Saving /\ u \notin Saving' /\ u \notin Granting /\ u \notin Granting'
              /\ u \in Recording /\ u \notin Recording' /\ u \notin Pruning /\ u \in Pruning'
         ELSE /\ u \in Saving' <=> u \in Saving
              /\ u \in Granting' <=> u \in Granting
              /\ u \in Recording' <=> u \in Recording
              /\ u \in Pruning' <=> u \in Pruning
  BY <1>1, <1>4, SigningMoves DEF SignUp
<1>9. Typed' BY <1>1, <1>4, <1>6, <1>7 DEF CreditInv, Typed
<1>10. NoneAhead'
  <2>1. \A x \in Threads : call'[x].at <= clock
    BY <1>1, <1>4 DEF CreditInv, Typed, NoneAhead
  <2>2. \A u \in Tenants : \A i \in DOMAIN ledger'[u] : ledger'[u][i].at <= clock
    BY <1>3, <1>6 DEF CreditInv, NoneAhead
  <2> QED BY <1>1, <2>1, <2>2 DEF CreditInv, NoneAhead
<1>11. Informed' /\ OneSignUp'
  <2>1. /\ c.pc \in {"rest", "recheck"} <=> c.tenant = NoTenant
        /\ c.pc = "save" => c.tenant \notin Known'
        /\ c.pc \in Knowing => c.tenant \in Known'
        /\ call[w].pc \in SignUp /\ c.tenant = call[w].tenant
    BY <1>1, <1>4 DEF SignUp
  <2>2. Known \subseteq Known' /\ Known' \ Known = {}
    BY <1>1
  <2> QED BY <1>4, <2>1, <2>2, CallStep
<1>12. Unheard' BY <1>1, <1>6, <1>7 DEF CreditInv, Unheard
<1>13. Books'
  <2>1. \A u \in Known' : u # t => u \in Known /\ row'[u] = row[u] /\ audit'[u] = audit[u]
                                   /\ (u \in Granting' <=> u \in Granting)
                                   /\ (u \in Recording' <=> u \in Recording)
    BY <1>1, <1>7, <1>8 DEF Known
  <2>2. audit[t] \in Audit BY <1>1 DEF CreditInv, Typed
  <2>3. audit'[t].clean =>
           /\ row'[t].credits = audit'[t].booked /\ audit'[t].since \in Nat
           /\ row'[t].credited = audit'[t].since + Interval * audit'[t].metered
    BY <1>1, <1>2, <1>7, <1>8, <2>2 DEF CreditInv, Books, Audit
  <2>4. audit'[t].booked \in Int BY <1>2, <1>7, <2>2 DEF Audit
  <2> QED BY <2>1, <2>3, <2>4, <1>8, <1>1 DEF CreditInv, Books
<1>14. Lengths'
  <2>1. Len(ledger'[t]) = Len(ledger[t]) + 1 /\ Len(ledger[t]) <= Keep /\ Keep \in Nat
        /\ Len(ledger[t]) \in Nat
    BY <1>1, <1>3, <1>6, <1>8, CreditAssumption DEF CreditInv, Lengths, Typed
  <2> QED BY <2>1, <1>1, <1>6, <1>7, <1>8 DEF CreditInv, Lengths
<1>15. SeatsLeft'
  <2>1. Seats' \subseteq Seats BY <1>1, <1>7, <1>8 DEF Seats, Known, Saving
  <2> QED BY <2>1, SeatsShrink DEF CreditInv
<1> QED BY <1>9, <1>10, <1>11, <1>12, <1>13, <1>14, <1>15 DEF CreditInv

\* prune_ledger, and the sign-up is over.
LEMMA PruneKeeps ==
    ASSUME CreditInv, NEW w \in Threads, Prune(w)
    PROVE  CreditInv'
<1> DEFINE t == call[w].tenant
           es == Pruned(ledger[t])
<1>1. /\ call[w].pc = "prune" /\ call[w] \in Call /\ t \in Tenants /\ t \in Known /\ t # NoTenant
      /\ UNCHANGED <<row, clock, audit, admin, faults>> /\ Known' = Known
      /\ ledger[t] \in Seq(LedgerEntry) /\ clock \in Nat
  BY InHand DEF Prune, At, Knowing, Call, CreditInv, Typed, Known
<1>2. es \in Seq(LedgerEntry) /\ Len(es) <= Keep /\ \A i \in DOMAIN es : es[i].at <= clock
  <2>1. /\ es \in Seq(LedgerEntry) /\ Len(es) <= Keep
        /\ \A k \in DOMAIN es : \E i \in DOMAIN ledger[t] : es[k] = ledger[t][i]
    BY <1>1, PrunedIsBounded
  <2> HIDE DEF es
  <2> QED BY <2>1, <1>1 DEF CreditInv, NoneAhead
<1>3. Resting \in Call /\ call' = [call EXCEPT ![w] = Resting]
      /\ Resting.pc = "rest" /\ Resting.tenant = NoTenant /\ Resting.at = 0
  <2>1. Absent \in Row BY DEF Row, Absent, NoTime
  <2> QED BY <2>1 DEF Prune, Return, Resting, Call, Steps
<1>4. ledger' = [ledger EXCEPT ![t] = es] BY DEF Prune
<1> HIDE DEF es
<1>5. /\ ledger' \in [Tenants -> Seq(LedgerEntry)] /\ ledger'[t] = es
      /\ \A u \in Tenants : u # t => ledger'[u] = ledger[u]
  BY <1>1, <1>2, <1>4 DEF CreditInv, Typed
<1>6. \A u \in Tenants :
         IF u = t
         THEN /\ u \notin Saving /\ u \notin Saving' /\ u \notin Granting /\ u \notin Granting'
              /\ u \notin Recording /\ u \notin Recording' /\ u \in Pruning /\ u \notin Pruning'
         ELSE /\ u \in Saving' <=> u \in Saving
              /\ u \in Granting' <=> u \in Granting
              /\ u \in Recording' <=> u \in Recording
              /\ u \in Pruning' <=> u \in Pruning
  BY <1>1, <1>3, SigningMoves DEF SignUp
<1>7. Typed' BY <1>1, <1>3, <1>5 DEF CreditInv, Typed
<1>8. NoneAhead'
  <2>1. \A x \in Threads : call'[x].at <= clock
    BY <1>1, <1>3 DEF CreditInv, Typed, NoneAhead
  <2>2. \A u \in Tenants : \A i \in DOMAIN ledger'[u] : ledger'[u][i].at <= clock
    BY <1>2, <1>5 DEF CreditInv, NoneAhead
  <2> QED BY <1>1, <2>1, <2>2 DEF CreditInv, NoneAhead
<1>9. Informed' /\ OneSignUp'
  <2>1. /\ Resting.pc \in {"rest", "recheck"} <=> Resting.tenant = NoTenant
        /\ Resting.pc = "save" => Resting.tenant \notin Known'
        /\ Resting.pc \in Knowing => Resting.tenant \in Known'
        /\ Resting.pc \notin SignUp
    BY <1>3 DEF SignUp, Knowing
  <2>2. Known \subseteq Known' /\ Known' \ Known = {}
    BY <1>1
  <2> QED BY <1>3, <2>1, <2>2, CallStep
<1>10. Unheard' BY <1>1, <1>5 DEF CreditInv, Unheard
<1>11. Books'
  <2>1. \A u \in Known : (u \in Granting' <=> u \in Granting) /\ (u \in Recording' <=> u \in Recording)
    BY <1>6 DEF Known
  <2> QED BY <2>1, <1>1 DEF CreditInv, Books
<1>12. Lengths'
  <2>1. Keep \in Nat /\ Len(es) \in Nat BY <1>2, CreditAssumption
  <2> QED BY <2>1, <1>1, <1>2, <1>5, <1>6 DEF CreditInv, Lengths
<1>13. SeatsLeft'
  <2>1. Seats' \subseteq Seats BY <1>1, <1>6 DEF Seats, Saving
  <2> QED BY <2>1, SeatsShrink DEF CreditInv
<1> QED BY <1>7, <1>8, <1>9, <1>10, <1>11, <1>12, <1>13 DEF CreditInv

-----------------------------------------------------------------------------
(* An authenticated touch. *)

\* A thread moves on and nothing else happens.
LEMMA QuietStep ==
    ASSUME CreditInv, NEW w \in Threads, NEW c \in Call, call' = [call EXCEPT ![w] = c],
           call[w].pc \notin SignUp, c.pc \notin SignUp, c.at <= clock,
           c.pc \in {"rest", "recheck"} <=> c.tenant = NoTenant,
           c.pc \in Knowing => c.tenant \in Known,
           UNCHANGED <<row, ledger, clock, audit, admin, faults>>
    PROVE  CreditInv'
<1>1. Saving' = Saving /\ Granting' = Granting /\ Recording' = Recording /\ Pruning' = Pruning
  BY SigningStays
<1>2. Known' = Known BY DEF Known
<1>3. Informed' /\ OneSignUp'
  <2>1. c.pc # "save" BY DEF SignUp
  <2>2. Known \subseteq Known' /\ Known' \ Known = {} BY <1>2
  <2> QED BY <1>2, <2>1, <2>2, CallStep
<1>4. Typed' BY DEF CreditInv, Typed
<1>5. NoneAhead' BY DEF CreditInv, Typed, NoneAhead
<1>6. Unheard' BY <1>2 DEF CreditInv, Unheard
<1>7. Books' BY <1>1, <1>2 DEF CreditInv, Books
<1>8. Lengths' BY <1>1 DEF CreditInv, Lengths
<1>9. SeatsLeft' BY <1>1, <1>2 DEF CreditInv, SeatsLeft, Seats
<1> QED BY <1>3, <1>4, <1>5, <1>6, <1>7, <1>8, <1>9 DEF CreditInv

\* The row a touch starts from.
LEMMA LookupKeeps ==
    ASSUME CreditInv, NEW w \in Threads, Lookup(w)
    PROVE  CreditInv'
<1>1. PICK t \in Known :
        call' = [call EXCEPT ![w] = [pc |-> "drain", tenant |-> t, seen |-> row[t], at |-> clock]]
  BY DEF Lookup
<1> DEFINE c == [pc |-> "drain", tenant |-> t, seen |-> row[t], at |-> clock]
<1>2. c \in Call /\ c.pc = "drain" /\ c.tenant = t /\ c.at = clock
  BY DEF Call, Steps, Known, CreditInv, Typed
<1>3. t # NoTenant /\ clock \in Nat BY CreditAssumption DEF Known, CreditInv, Typed
<1>4. call[w].pc = "rest" /\ UNCHANGED <<row, ledger, clock, audit, admin, faults>>
  BY DEF Lookup, At
<1> HIDE DEF c
<1>5. call' = [call EXCEPT ![w] = c] BY <1>1 DEF c
<1>6. /\ call[w].pc \notin SignUp /\ c.pc \notin SignUp /\ c.at <= clock
      /\ c.pc \in {"rest", "recheck"} <=> c.tenant = NoTenant
      /\ c.pc \in Knowing => c.tenant \in Known
  BY <1>2, <1>3, <1>4 DEF SignUp
<1> QED BY <1>2, <1>4, <1>5, <1>6, QuietStep

\* The answer, or the refusal.
LEMMA RecheckKeeps ==
    ASSUME CreditInv, NEW w \in Threads, Recheck(w)
    PROVE  CreditInv'
<1>1. Resting \in Call /\ call' = [call EXCEPT ![w] = Resting]
      /\ Resting.pc = "rest" /\ Resting.tenant = NoTenant /\ Resting.at = 0
  <2>1. Absent \in Row BY DEF Row, Absent, NoTime
  <2> QED BY <2>1 DEF Recheck, Return, Resting, Call, Steps
<1>2. call[w].pc = "recheck" /\ UNCHANGED <<row, ledger, clock, audit, admin, faults>>
  BY DEF Recheck, At
<1>3. clock \in Nat BY DEF CreditInv, Typed
<1>4. /\ call[w].pc \notin SignUp /\ Resting.pc \notin SignUp /\ Resting.at <= clock
      /\ Resting.pc \in {"rest", "recheck"} <=> Resting.tenant = NoTenant
      /\ Resting.pc \in Knowing => Resting.tenant \in Known
  BY <1>1, <1>2, <1>3 DEF SignUp, Knowing
<1> QED BY <1>1, <1>2, <1>4, QuietStep

\* What is charged: whole periods that have passed, and never more than is there.
LEMMA ChargeFits ==
    ASSUME NEW r \in Row, r.credited # NoTime, NEW now \in Nat,
           NEW periods, periods = (now - r.credited) \div Interval, ~(periods <= 0)
    PROVE  /\ periods \in Nat
           /\ Paid(periods, r.credits) \in Nat /\ Paid(periods, r.credits) <= r.credits
           /\ r.credits \in Nat /\ r.credited \in Nat
           /\ r.credited + periods * Interval \in Nat
           /\ r.credited + periods * Interval <= now
<1>1. r.credited \in Nat /\ r.credits \in Nat BY DEF Row
<1>2. Interval \in Nat \ {0} BY CreditAssumption
<1> DEFINE a == now - r.credited
<1>3. a \in Int BY <1>1
<1>4. (a \div Interval) \in Int /\ Interval * (a \div Interval) <= a
  <2> HIDE DEF a
  <2> QED BY <1>2, <1>3
<1>5. periods \in Nat /\ Interval * periods <= a BY <1>4
<1>6. periods * Interval = Interval * periods /\ Interval * periods \in Nat BY <1>2, <1>5
<1>7. Paid(periods, r.credits) \in Nat /\ Paid(periods, r.credits) <= r.credits
  BY <1>1, <1>5 DEF Paid
<1> QED BY <1>1, <1>5, <1>6, <1>7

\* TenantsStore.drain: the meter and the balance move together.
LEMMA DrainKeeps ==
    ASSUME CreditInv, NEW w \in Threads, Drain(w)
    PROVE  CreditInv'
<1> DEFINE t == call[w].tenant
           r == row[t]
           c == [Resting EXCEPT !.pc = "recheck"]
<1>1. /\ call[w].pc = "drain" /\ call[w] \in Call /\ t \in Tenants /\ t \in Known /\ t # NoTenant
      /\ UNCHANGED <<clock, admin, faults>> /\ r \in Row /\ audit[t] \in Audit
      /\ call[w].at \in Nat /\ call[w].at <= clock /\ clock \in Nat
  BY InHand DEF Drain, At, Knowing, Call, CreditInv, NoneAhead, Typed
<1>2. c \in Call /\ call' = [call EXCEPT ![w] = c]
      /\ c.pc = "recheck" /\ c.tenant = NoTenant /\ c.at = 0
  <2>1. Absent \in Row BY DEF Row, Absent, NoTime
  <2>2. Resting \in Call /\ Resting.tenant = NoTenant /\ Resting.at = 0
    BY <2>1 DEF Resting, Call, Steps
  <2>3. c \in Call /\ c.pc = "recheck" /\ c.tenant = NoTenant /\ c.at = 0
    BY <2>2 DEF Call, Steps
  <2>4. call' = [call EXCEPT ![w] = c] BY DEF Drain
  <2> QED BY <2>3, <2>4
<1>3. /\ call[w].pc \notin SignUp /\ c.pc \notin SignUp /\ c.at <= clock
      /\ c.pc \in {"rest", "recheck"} <=> c.tenant = NoTenant
      /\ c.pc \in Knowing => c.tenant \in Known
  BY <1>1, <1>2 DEF SignUp, Knowing
<1> HIDE DEF c
<1>4. PICK now \in Now(w) :
        LET periods == (now - r.credited) \div Interval
            actual == Paid(periods, r.credits)
        IN  IF r.state # "active" \/ r.credited = NoTime \/ periods <= 0
            THEN UNCHANGED <<row, ledger, audit>>
            ELSE /\ row' = [row EXCEPT ![t] = [r EXCEPT !.credits = r.credits - actual,
                                                        !.credited = r.credited + periods * Interval]]
                 /\ Booked(t, now, -actual)
                 /\ audit' = [audit EXCEPT ![t].booked = @ - actual,
                                           ![t].metered = @ + periods]
  BY DEF Drain, Read, Charged, Boundary
<1>5. now \in Nat /\ now <= clock BY <1>1 DEF Now, Since
<1> DEFINE periods == (now - r.credited) \div Interval
           actual == Paid(periods, r.credits)
<1>6. CASE r.state # "active" \/ r.credited = NoTime \/ periods <= 0
  <2>1. UNCHANGED <<row, ledger, audit>> BY <1>4, <1>6
  <2> QED BY <2>1, <1>1, <1>2, <1>3, QuietStep
<1>7. CASE ~(r.state # "active" \/ r.credited = NoTime \/ periods <= 0)
  <2>1. /\ row' = [row EXCEPT ![t] = [r EXCEPT !.credits = r.credits - actual,
                                               !.credited = r.credited + periods * Interval]]
        /\ Booked(t, now, -actual)
        /\ audit' = [audit EXCEPT ![t].booked = @ - actual, ![t].metered = @ + periods]
    BY <1>4, <1>7
  <2>2. /\ periods \in Nat /\ actual \in Nat /\ actual <= r.credits
        /\ r.credits \in Nat /\ r.credited \in Nat
        /\ r.credited + periods * Interval \in Nat
        /\ r.credited + periods * Interval <= now
    <3>1. r.credited # NoTime /\ ~(periods <= 0) BY <1>7
    <3> QED BY <1>1, <1>5, <3>1, ChargeFits
  <2> DEFINE charged == [r EXCEPT !.credits = r.credits - actual,
                                  !.credited = r.credited + periods * Interval]
             left == r.credits - actual
             boundary == r.credited + periods * Interval
  <2>3. left \in Nat /\ boundary \in Nat /\ boundary <= clock /\ charged = [r EXCEPT !.credits = left, !.credited = boundary]
        /\ left = r.credits - actual /\ boundary = r.credited + Interval * periods
    BY <2>2, <1>1, <1>5, CreditAssumption
  <2> HIDE DEF left, boundary, periods, actual
  <2>4. /\ row' \in [Tenants -> Row] /\ row'[t].state = r.state
        /\ row'[t].credits = left /\ row'[t].credited = boundary
        /\ \A u \in Tenants : u # t => row'[u] = row[u]
    <3>1. charged \in Row /\ charged.state = r.state /\ charged.credits = left
          /\ charged.credited = boundary
      <4> HIDE DEF charged
      <4> QED BY <2>3, <1>1 DEF Row
    <3>2. row' = [row EXCEPT ![t] = charged] BY <2>1 DEF left, boundary
    <3> HIDE DEF charged
    <3> QED BY <3>1, <3>2, <1>1 DEF CreditInv, Typed
  <2>5. /\ audit' \in [Tenants -> Audit]
        /\ audit'[t].since = audit[t].since /\ audit'[t].booked = audit[t].booked - actual
        /\ audit'[t].metered = audit[t].metered + periods /\ audit'[t].clean = audit[t].clean
        /\ audit'[t].issued = audit[t].issued
        /\ \A u \in Tenants : u # t => audit'[u] = audit[u]
    <3> DEFINE sum == audit[t].booked - actual
               metered == audit[t].metered + periods
    <3>1. sum \in Int /\ metered \in Nat BY <1>1, <2>2 DEF Audit
    <3>2. audit' = [audit EXCEPT ![t].booked = sum, ![t].metered = metered]
      BY <2>1, <1>1 DEF CreditInv, Typed, Audit
    <3>3. sum = audit[t].booked - actual /\ metered = audit[t].metered + periods OBVIOUS
    <3> HIDE DEF sum, metered
    <3>4. /\ audit' \in [Tenants -> Audit]
          /\ audit'[t].since = audit[t].since /\ audit'[t].booked = sum
          /\ audit'[t].metered = metered /\ audit'[t].clean = audit[t].clean
          /\ audit'[t].issued = audit[t].issued
          /\ \A u \in Tenants : u # t => audit'[u] = audit[u]
      BY <1>1, <3>1, <3>2 DEF CreditInv, Typed, Audit
    <3> QED BY <3>3, <3>4
  <2>6. /\ ledger' \in [Tenants -> Seq(LedgerEntry)]
        /\ Len(ledger'[t]) <= Keep
        /\ \A u \in Tenants : u # t => ledger'[u] = ledger[u]
        /\ \A u \in Tenants : \A i \in DOMAIN ledger'[u] : ledger'[u][i].at <= clock
    <3>1. -actual \in Int BY <2>2
    <3>2. Typed /\ NoneAhead BY DEF CreditInv
    <3> QED BY <1>1, <1>5, <2>1, <3>1, <3>2, BookedKeeps
  <2>7. Saving' = Saving /\ Granting' = Granting /\ Recording' = Recording /\ Pruning' = Pruning
    BY <1>2, <1>3, SigningStays
  <2>8. Known' = Known BY <1>1, <2>4 DEF Known
  <2>9. Typed' BY <1>1, <1>2, <2>4, <2>5, <2>6 DEF CreditInv, Typed
  <2>10. NoneAhead'
    <3>1. \A x \in Threads : call'[x].at <= clock
      BY <1>2, <1>3 DEF CreditInv, Typed, NoneAhead
    <3> QED BY <1>1, <2>3, <2>4, <2>6, <3>1 DEF CreditInv, NoneAhead
  <2>11. Informed' /\ OneSignUp'
    <3>1. c.pc # "save" /\ Known \subseteq Known' /\ Known' \ Known = {}
      BY <1>2, <2>8
    <3> QED BY <1>2, <1>3, <2>8, <3>1, CallStep
  <2>12. Unheard' BY <1>1, <2>5, <2>6, <2>8 DEF CreditInv, Unheard
  <2>13. Books'
    <3>1. \A u \in Known : u # t => row'[u] = row[u] /\ audit'[u] = audit[u]
      BY <2>4, <2>5 DEF Known
    <3>2. ASSUME audit'[t].clean
          PROVE  /\ t \notin Granting
                 /\ row'[t].credits = audit'[t].booked + (IF t \in Recording THEN Starting ELSE 0)
                 /\ audit'[t].since \in Nat
                 /\ row'[t].credited = audit'[t].since + Interval * audit'[t].metered
      <4>1. t \notin Granting BY <1>1, <1>7, <2>5, <3>2 DEF CreditInv, Books
      <4>2. /\ r.credits = audit[t].booked + (IF t \in Recording THEN Starting ELSE 0)
            /\ audit[t].since \in Nat
            /\ r.credited = audit[t].since + Interval * audit[t].metered
        BY <1>1, <2>5, <3>2, <4>1 DEF CreditInv, Books
      <4>3. audit[t].booked \in Int /\ audit[t].metered \in Nat BY <1>1 DEF Audit
      <4>4. Starting \in Nat /\ Interval \in Nat BY CreditAssumption
      <4>5. row'[t].credits = audit'[t].booked + (IF t \in Recording THEN Starting ELSE 0)
        BY <2>2, <2>3, <2>4, <2>5, <4>2, <4>3, <4>4
      <4>6. row'[t].credited = audit'[t].since + Interval * audit'[t].metered
        <5>1. Interval * (audit[t].metered + periods) = Interval * audit[t].metered + Interval * periods
          BY <2>2, <4>3, <4>4
        <5>2. Interval * audit[t].metered \in Nat /\ Interval * periods \in Nat
          BY <2>2, <4>3, <4>4
        <5> QED BY <2>3, <2>4, <2>5, <4>2, <5>1, <5>2
      <4> QED BY <4>1, <4>2, <4>5, <4>6, <2>5
    <3> QED BY <1>1, <2>7, <2>8, <3>1, <3>2 DEF CreditInv, Books
  <2>14. Lengths'
    <3>1. Keep \in Nat /\ Len(ledger'[t]) \in Nat BY <1>1, <2>6, CreditAssumption
    <3> QED BY <2>5, <2>6, <2>7, <3>1 DEF CreditInv, Lengths
  <2>15. SeatsLeft'
    <3>1. Seats' \subseteq Seats BY <2>5, <2>7, <2>8 DEF Seats, Known, Saving
    <3> QED BY <3>1, SeatsShrink DEF CreditInv
  <2> QED BY <2>9, <2>10, <2>11, <2>12, <2>13, <2>14, <2>15 DEF CreditInv
<1> QED BY <1>6, <1>7

-----------------------------------------------------------------------------
(* The admin routes, the clock and the faults. *)

\* The threads stand where they stood.
LEMMA CallsStand ==
    ASSUME call' = call
    PROVE  Saving' = Saving /\ Granting' = Granting /\ Recording' = Recording /\ Pruning' = Pruning
BY DEF Saving, Granting, Recording, Pruning, SigningUp

\* An admin changes a row, and a ledger at most through the booking of a grant:
\* what is given is booked, and an account is no longer clean when it is hit
\* before its starting grant.
LEMMA TouchKeeps ==
    ASSUME CreditInv, NEW t \in Known, NEW a \in Nat,
           UNCHANGED <<call, clock, faults>>, admin' \in Nat,
           row' \in [Tenants -> Row],
           row'[t].state # "absent", row'[t].credits = row[t].credits + a,
           row'[t].credited = row[t].credited,
           \A u \in Tenants : u # t => row'[u] = row[u],
           ledger' \in [Tenants -> Seq(LedgerEntry)],
           ledger'[t] = ledger[t] \/ Len(ledger'[t]) <= Keep,
           \A u \in Tenants : u # t => ledger'[u] = ledger[u],
           \A u \in Tenants : \A i \in DOMAIN ledger'[u] : ledger'[u][i].at <= clock,
           audit' \in [Tenants -> Audit],
           audit'[t].since = audit[t].since, audit'[t].booked = audit[t].booked + a,
           audit'[t].metered = audit[t].metered, audit'[t].issued = audit[t].issued,
           audit'[t].clean = (audit[t].clean /\ t \notin Granting),
           \A u \in Tenants : u # t => audit'[u] = audit[u]
    PROVE  CreditInv'
<1>1. t \in Tenants /\ audit[t] \in Audit /\ row[t] \in Row /\ ledger[t] \in Seq(LedgerEntry)
  BY DEF Known, CreditInv, Typed
<1>2. Known' = Known BY <1>1 DEF Known
<1>3. Saving' = Saving /\ Granting' = Granting /\ Recording' = Recording /\ Pruning' = Pruning
  BY CallsStand
<1>4. Typed' BY DEF CreditInv, Typed
<1>5. NoneAhead' BY DEF CreditInv, NoneAhead
<1>6. Informed' /\ OneSignUp' BY <1>2 DEF CreditInv, Informed, OneSignUp
<1>7. Unheard' BY <1>2 DEF CreditInv, Unheard
<1>8. Books'
  <2>1. \A u \in Known : u # t => row'[u] = row[u] /\ audit'[u] = audit[u] BY DEF Known
  <2>2. ASSUME audit'[t].clean
        PROVE  /\ t \notin Granting
               /\ row'[t].credits = audit'[t].booked + (IF t \in Recording THEN Starting ELSE 0)
               /\ audit'[t].since \in Nat
               /\ row'[t].credited = audit'[t].since + Interval * audit'[t].metered
    <3>1. t \notin Granting /\ audit[t].clean BY <2>2
    <3>2. /\ row[t].credits = audit[t].booked + (IF t \in Recording THEN Starting ELSE 0)
          /\ audit[t].since \in Nat
          /\ row[t].credited = audit[t].since + Interval * audit[t].metered
      BY <3>1 DEF CreditInv, Books
    <3>3. audit[t].booked \in Int /\ Starting \in Nat BY <1>1, CreditAssumption DEF Audit
    <3>4. row'[t].credits = audit'[t].booked + (IF t \in Recording THEN Starting ELSE 0)
      BY <3>2, <3>3
    <3> QED BY <3>1, <3>2, <3>4
  <2> QED BY <1>2, <1>3, <2>1, <2>2 DEF CreditInv, Books
<1>9. Lengths'
  <2>1. Keep \in Nat /\ Len(ledger'[t]) \in Nat /\ Len(ledger[t]) \in Nat
    BY <1>1, CreditAssumption
  <2>2. /\ Len(ledger[t]) <= Keep + 1
        /\ t \in Saving \cup Granting \cup Recording => Len(ledger[t]) <= Keep
        /\ audit[t].clean /\ t \notin Pruning => Len(ledger[t]) <= Keep
    BY <1>1 DEF CreditInv, Lengths
  <2>3. /\ Len(ledger'[t]) <= Keep + 1
        /\ t \in Saving \cup Granting \cup Recording => Len(ledger'[t]) <= Keep
        /\ audit'[t].clean /\ t \notin Pruning => Len(ledger'[t]) <= Keep
    <3>1. audit'[t].clean => audit[t].clean OBVIOUS
    <3>2. CASE ledger'[t] = ledger[t] BY <2>2, <3>1, <3>2
    <3>3. CASE Len(ledger'[t]) <= Keep
      <4>1. Len(ledger'[t]) <= Keep + 1 BY <2>1, <3>3
      <4> QED BY <4>1, <3>3
    <3> QED BY <3>2, <3>3
  <2> QED BY <1>3, <2>3 DEF CreditInv, Lengths
<1>10. SeatsLeft'
  <2>1. Seats' \subseteq Seats BY <1>2, <1>3 DEF Seats, Known, Saving
  <2> QED BY <2>1, SeatsShrink DEF CreditInv
<1> QED BY <1>4, <1>5, <1>6, <1>7, <1>8, <1>9, <1>10 DEF CreditInv

\* TenantsStore.grant: the balance and the entry of it.
LEMMA GrantKeeps ==
    ASSUME CreditInv, NEW t \in Known, Grant(t)
    PROVE  CreditInv'
<1>1. t \in Tenants /\ audit[t] \in Audit /\ row[t] \in Row
  BY DEF Known, CreditInv, Typed
<1>2. PICK a \in Amounts, now \in Since(0) :
        /\ row' = [row EXCEPT ![t].credits = @ + a]
        /\ Booked(t, now, a)
        /\ audit' = [audit EXCEPT ![t].booked = @ + a,
                                  ![t].clean = @ /\ ~SigningUp(t, {"grant"})]
  BY DEF Grant
<1>3. a \in Nat /\ a \in Int BY CreditAssumption
<1>4. now \in Nat /\ now <= clock BY DEF Since, CreditInv, Typed
<1>5. UNCHANGED <<call, clock, faults>> /\ admin' \in Nat
  BY DEF Grant, Touching, CreditInv, Typed
<1>6. /\ row' \in [Tenants -> Row]
      /\ row'[t].state = row[t].state /\ row'[t].credits = row[t].credits + a
      /\ row'[t].credited = row[t].credited
      /\ \A u \in Tenants : u # t => row'[u] = row[u]
  <2> DEFINE sum == row[t].credits + a
  <2>1. sum \in Nat BY <1>1, <1>3 DEF Row
  <2>2. row' = [row EXCEPT ![t].credits = sum] BY <1>2
  <2>3. sum = row[t].credits + a OBVIOUS
  <2> HIDE DEF sum
  <2>4. /\ row' \in [Tenants -> Row]
        /\ row'[t].state = row[t].state /\ row'[t].credits = sum
        /\ row'[t].credited = row[t].credited
        /\ \A u \in Tenants : u # t => row'[u] = row[u]
    BY <1>1, <2>1, <2>2 DEF CreditInv, Typed, Row
  <2> QED BY <2>3, <2>4
<1>7. /\ ledger' \in [Tenants -> Seq(LedgerEntry)]
      /\ Len(ledger'[t]) <= Keep
      /\ \A u \in Tenants : u # t => ledger'[u] = ledger[u]
      /\ \A u \in Tenants : \A i \in DOMAIN ledger'[u] : ledger'[u][i].at <= clock
  <2>1. Typed /\ NoneAhead BY DEF CreditInv
  <2> QED BY <1>1, <1>2, <1>3, <1>4, <2>1, BookedKeeps
<1>8. /\ audit' \in [Tenants -> Audit]
      /\ audit'[t].since = audit[t].since /\ audit'[t].booked = audit[t].booked + a
      /\ audit'[t].metered = audit[t].metered /\ audit'[t].issued = audit[t].issued
      /\ audit'[t].clean = (audit[t].clean /\ t \notin Granting)
      /\ \A u \in Tenants : u # t => audit'[u] = audit[u]
  <2> DEFINE sum == audit[t].booked + a
             clean == audit[t].clean /\ t \notin Granting
  <2>1. sum \in Int /\ clean \in BOOLEAN BY <1>1, <1>3 DEF Audit
  <2>2. clean = (audit[t].clean /\ ~SigningUp(t, {"grant"})) BY <1>1 DEF Granting
  <2>3. audit' = [audit EXCEPT ![t].booked = sum, ![t].clean = clean]
    BY <1>1, <1>2, <2>2 DEF CreditInv, Typed, Audit
  <2>4. sum = audit[t].booked + a /\ clean = (audit[t].clean /\ t \notin Granting) OBVIOUS
  <2> HIDE DEF sum, clean
  <2>5. /\ audit' \in [Tenants -> Audit]
        /\ audit'[t].since = audit[t].since /\ audit'[t].booked = sum
        /\ audit'[t].metered = audit[t].metered /\ audit'[t].issued = audit[t].issued
        /\ audit'[t].clean = clean
        /\ \A u \in Tenants : u # t => audit'[u] = audit[u]
    BY <1>1, <2>1, <2>3 DEF CreditInv, Typed, Audit
  <2> QED BY <2>4, <2>5
<1>9. row'[t].state # "absent" BY <1>6 DEF Known
<1> QED BY <1>3, <1>5, <1>6, <1>7, <1>8, <1>9, TouchKeeps

\* Rotate and Disable leave balance, meter and ledger alone.
LEMMA HitKeeps ==
    ASSUME CreditInv, NEW t \in Known, Touching(t), Hit(t), ledger' = ledger,
           row' \in [Tenants -> Row],
           row'[t].state # "absent", row'[t].credits = row[t].credits,
           row'[t].credited = row[t].credited,
           \A u \in Tenants : u # t => row'[u] = row[u]
    PROVE  CreditInv'
<1>1. t \in Tenants /\ audit[t] \in Audit /\ row[t] \in Row
  BY DEF Known, CreditInv, Typed
<1>2. UNCHANGED <<call, clock, faults>> /\ admin' \in Nat
  BY DEF Touching, CreditInv, Typed
<1>3. /\ audit' \in [Tenants -> Audit]
      /\ audit'[t].since = audit[t].since /\ audit'[t].booked = audit[t].booked
      /\ audit'[t].metered = audit[t].metered /\ audit'[t].issued = audit[t].issued
      /\ audit'[t].clean = (audit[t].clean /\ t \notin Granting)
      /\ \A u \in Tenants : u # t => audit'[u] = audit[u]
  <2> DEFINE clean == audit[t].clean /\ t \notin Granting
  <2>1. clean \in BOOLEAN OBVIOUS
  <2>2. clean = (audit[t].clean /\ ~SigningUp(t, {"grant"})) BY <1>1 DEF Granting
  <2>3. audit' = [audit EXCEPT ![t].clean = clean] BY <1>1, <2>2 DEF Hit
  <2>4. clean = (audit[t].clean /\ t \notin Granting) OBVIOUS
  <2> HIDE DEF clean
  <2>5. /\ audit' \in [Tenants -> Audit]
        /\ audit'[t].since = audit[t].since /\ audit'[t].booked = audit[t].booked
        /\ audit'[t].metered = audit[t].metered /\ audit'[t].issued = audit[t].issued
        /\ audit'[t].clean = clean
        /\ \A u \in Tenants : u # t => audit'[u] = audit[u]
    BY <1>1, <2>1, <2>3 DEF CreditInv, Typed, Audit
  <2> QED BY <2>4, <2>5
<1>4. 0 \in Nat /\ row'[t].credits = row[t].credits + 0 /\ audit'[t].booked = audit[t].booked + 0
  BY <1>1, <1>3 DEF Row, Audit
<1>5. /\ ledger' \in [Tenants -> Seq(LedgerEntry)]
      /\ \A u \in Tenants : \A i \in DOMAIN ledger'[u] : ledger'[u][i].at <= clock
  BY DEF CreditInv, Typed, NoneAhead
<1> QED BY <1>1, <1>2, <1>3, <1>4, <1>5, TouchKeeps

LEMMA RotateKeeps ==
    ASSUME CreditInv, NEW t \in Known, Rotate(t)
    PROVE  CreditInv'
<1>1. t \in Tenants /\ row[t] \in Row /\ row[t].state # "absent" BY DEF Known, CreditInv, Typed
<1> DEFINE key == row[t].key + 1
<1>2. key \in Nat /\ row' = [row EXCEPT ![t].key = key] BY <1>1 DEF Rotate, Row
<1> HIDE DEF key
<1>3. /\ row' \in [Tenants -> Row]
      /\ row'[t].state = row[t].state /\ row'[t].credits = row[t].credits
      /\ row'[t].credited = row[t].credited
      /\ \A u \in Tenants : u # t => row'[u] = row[u]
  BY <1>1, <1>2 DEF CreditInv, Typed, Row
<1> QED BY <1>1, <1>3, HitKeeps DEF Rotate

LEMMA DisableKeeps ==
    ASSUME CreditInv, NEW t \in Known, Disable(t)
    PROVE  CreditInv'
<1>1. t \in Tenants /\ row[t] \in Row BY DEF Known, CreditInv, Typed
<1>2. /\ row' \in [Tenants -> Row]
      /\ row'[t].state = "disabled" /\ row'[t].credits = row[t].credits
      /\ row'[t].credited = row[t].credited
      /\ \A u \in Tenants : u # t => row'[u] = row[u]
  BY <1>1 DEF Disable, CreditInv, Typed, Row
<1> QED BY <1>1, <1>2, HitKeeps DEF Disable

LEMMA TickKeeps ==
    ASSUME CreditInv, Tick
    PROVE  CreditInv'
<1>1. UNCHANGED <<row, ledger, call, audit, admin, faults>> /\ clock' = clock + 1 /\ clock \in Nat
  BY DEF Tick, CreditInv, Typed
<1>2. Saving' = Saving /\ Granting' = Granting /\ Recording' = Recording /\ Pruning' = Pruning
  BY <1>1, CallsStand
<1>3. Known' = Known BY <1>1 DEF Known
<1>4. Typed' BY <1>1 DEF CreditInv, Typed
<1>5. NoneAhead'
  <2>1. \A t \in Tenants : row[t].credited # NoTime => row[t].credited \in Nat
    BY DEF CreditInv, Typed, Row
  <2>2. \A t \in Tenants : \A i \in DOMAIN ledger[t] : ledger[t][i].at \in Nat
    <3>1. \A t \in Tenants : ledger[t] \in Seq(LedgerEntry) BY DEF CreditInv, Typed
    <3>2. \A t \in Tenants : \A i \in DOMAIN ledger[t] : ledger[t][i] \in LedgerEntry
      BY <3>1
    <3> QED BY <3>2 DEF LedgerEntry
  <2>3. \A w \in Threads : call[w].at \in Nat BY DEF CreditInv, Typed, Call
  <2> QED BY <1>1, <2>1, <2>2, <2>3 DEF CreditInv, NoneAhead
<1>6. Informed' /\ OneSignUp' BY <1>1, <1>3 DEF CreditInv, Informed, OneSignUp
<1>7. Unheard' BY <1>1, <1>3 DEF CreditInv, Unheard
<1>8. Books' BY <1>1, <1>2, <1>3 DEF CreditInv, Books
<1>9. Lengths' BY <1>1, <1>2 DEF CreditInv, Lengths
<1>10. SeatsLeft' BY <1>1, <1>2, <1>3 DEF CreditInv, SeatsLeft, Seats
<1> QED BY <1>4, <1>5, <1>6, <1>7, <1>8, <1>9, <1>10 DEF CreditInv

\* A sign-up that breaks after its first save leaves an account that is not clean.
LEMMA BreakKeeps ==
    ASSUME CreditInv, Break
    PROVE  CreditInv'
<1>1. PICK ws \in {Threads} \cup {{w} : w \in Threads} :
        /\ call' = [w \in Threads |-> IF w \in ws THEN Resting ELSE call[w]]
        /\ audit' = [t \in Tenants |->
              [audit[t] EXCEPT !.clean = @ /\ ~\E w \in ws : /\ call[w].tenant = t
                                                             /\ call[w].pc \in {"grant", "record", "prune"}]]
  BY DEF Break
<1>2. UNCHANGED <<row, ledger, clock, admin>> /\ faults' \in Nat /\ clock \in Nat /\ Known' = Known
  BY DEF Break, CreditInv, Typed, Known
<1>3. Resting \in Call /\ Resting.pc = "rest" /\ Resting.tenant = NoTenant /\ Resting.at = 0
  <2>1. Absent \in Row BY DEF Row, Absent, NoTime
  <2> QED BY <2>1 DEF Resting, Call, Steps
<1>4. /\ call' \in [Threads -> Call]
      /\ \A w \in Threads : IF w \in ws THEN call'[w] = Resting ELSE call'[w] = call[w]
  BY <1>1, <1>3 DEF CreditInv, Typed
<1> DEFINE Cut(t) == \E w \in ws : call[w].tenant = t /\ call[w].pc \in {"grant", "record", "prune"}
<1>5. /\ audit' \in [Tenants -> Audit]
      /\ \A t \in Tenants :
            /\ audit'[t].booked = audit[t].booked /\ audit'[t].metered = audit[t].metered
            /\ audit'[t].since = audit[t].since /\ audit'[t].issued = audit[t].issued
            /\ audit'[t].clean => audit[t].clean /\ ~Cut(t)
  <2> DEFINE clean(t) == audit[t].clean /\ ~Cut(t)
  <2>1. audit' = [t \in Tenants |-> [audit[t] EXCEPT !.clean = clean(t)]] BY <1>1
  <2>2. \A t \in Tenants : clean(t) \in BOOLEAN /\ audit[t] \in Audit
    BY DEF CreditInv, Typed
  <2>3. \A t \in Tenants : clean(t) => audit[t].clean /\ ~Cut(t) OBVIOUS
  <2> HIDE DEF clean, Cut
  <2>4. ASSUME NEW t \in Tenants
        PROVE  /\ audit'[t] \in Audit
               /\ audit'[t].booked = audit[t].booked /\ audit'[t].metered = audit[t].metered
               /\ audit'[t].since = audit[t].since /\ audit'[t].issued = audit[t].issued
               /\ audit'[t].clean = clean(t)
    <3>1. audit'[t] = [audit[t] EXCEPT !.clean = clean(t)] BY <2>1
    <3> QED BY <2>2, <3>1 DEF Audit
  <2>5. audit' \in [Tenants -> Audit] BY <2>1, <2>4
  <2> QED BY <2>3, <2>4, <2>5
<1>6. Saving' \subseteq Saving /\ Granting' \subseteq Granting /\ Recording' \subseteq Recording
      /\ Pruning' \subseteq Pruning
  BY <1>3, <1>4 DEF Saving, Granting, Recording, Pruning, SigningUp
<1>7. \A t \in Tenants : ~Cut(t) =>
         /\ t \in Granting <=> t \in Granting'
         /\ t \in Recording <=> t \in Recording'
         /\ t \in Pruning <=> t \in Pruning'
  BY <1>3, <1>4 DEF Granting, Recording, Pruning, SigningUp
<1>8. Typed' BY <1>2, <1>4, <1>5 DEF CreditInv, Typed
<1>9. NoneAhead' BY <1>2, <1>3, <1>4 DEF CreditInv, NoneAhead
<1>10. Informed' /\ OneSignUp'
  <2>1. Informed' BY <1>2, <1>3, <1>4 DEF CreditInv, Informed, Knowing
  <2>2. OneSignUp' BY <1>3, <1>4 DEF CreditInv, OneSignUp, SignUp
  <2> QED BY <2>1, <2>2
<1>11. Unheard' BY <1>2, <1>5 DEF CreditInv, Unheard
<1> HIDE DEF Cut
<1>12. Books' BY <1>2, <1>5, <1>7 DEF CreditInv, Books, Known
<1>13. Lengths' BY <1>2, <1>5, <1>6, <1>7 DEF CreditInv, Lengths
<1>14. SeatsLeft'
  <2>1. Seats' \subseteq Seats BY <1>2, <1>5, <1>6 DEF Seats, Known, Saving
  <2> QED BY <2>1, SeatsShrink DEF CreditInv
<1> QED BY <1>8, <1>9, <1>10, <1>11, <1>12, <1>13, <1>14 DEF CreditInv

-----------------------------------------------------------------------------
(* The invariant, and what follows from it. *)

LEMMA InvInit ==
    ASSUME CreditInit
    PROVE  CreditInv
<1>1. Absent \in Row /\ Absent.state = "absent" /\ Absent.credited = NoTime
  BY DEF Row, Absent, NoTime
<1>2. Resting \in Call /\ Resting.pc = "rest" /\ Resting.tenant = NoTenant /\ Resting.at = 0
  BY <1>1 DEF Resting, Call, Steps
<1>3. Unaudited \in Audit /\ Unaudited.booked = 0 /\ Unaudited.metered = 0
  BY DEF Unaudited, Audit, NoTime
<1>4. /\ row = [t \in Tenants |-> Absent] /\ ledger = [t \in Tenants |-> <<>>]
      /\ call = [w \in Threads |-> Resting] /\ audit = [t \in Tenants |-> Unaudited]
      /\ clock = 0 /\ admin = 0 /\ faults = 0
  BY DEF CreditInit
<1>5. Known = {} BY <1>1, <1>4 DEF Known
<1>6. Saving = {} BY <1>2, <1>4 DEF Saving, SigningUp
<1>7. Typed
  <2>1. <<>> \in Seq(LedgerEntry) OBVIOUS
  <2> QED BY <1>1, <1>2, <1>3, <1>4, <2>1 DEF Typed
<1>8. NoneAhead BY <1>1, <1>2, <1>4 DEF NoneAhead
<1>9. Informed BY <1>2, <1>4 DEF Informed, Knowing
<1>10. OneSignUp BY <1>2, <1>4 DEF OneSignUp, SignUp
<1>11. Unheard BY <1>3, <1>4 DEF Unheard
<1>12. Books BY <1>5 DEF Books
<1>13. Lengths
  <2>1. \A t \in Tenants : Len(ledger[t]) = 0 BY <1>4
  <2>2. Keep \in Nat BY CreditAssumption
  <2> QED BY <2>1, <2>2 DEF Lengths
<1>14. SeatsLeft
  <2>1. Seats = {} BY <1>5, <1>6 DEF Seats
  <2>2. MaxTenants \in Nat /\ IsFiniteSet(Threads) /\ Threads # {} BY CreditAssumption
  <2>3. Cardinality(Threads) \in Nat /\ Cardinality(Threads) # 0
    BY <2>2, FS_CardinalityType, FS_EmptySet
  <2>4. Cardinality(Seats) = 0 BY <2>1, FS_EmptySet
  <2> QED BY <2>2, <2>3, <2>4 DEF SeatsLeft
<1> QED BY <1>7, <1>8, <1>9, <1>10, <1>11, <1>12, <1>13, <1>14 DEF CreditInv

LEMMA CountKeeps ==
    ASSUME CreditInv, NEW w \in Threads, Count(w)
    PROVE  CreditInv'
<1>1. PICK t \in Tenants : Fresh(w, t) /\ Enter(w, t, FALSE) BY DEF Count
<1>2. /\ UNCHANGED <<row, ledger, clock, faults>> /\ admin' \in Nat
      /\ Cardinality(Known) < MaxTenants
  BY DEF Count, CreditInv, Typed
<1>3. FALSE \in BOOLEAN OBVIOUS
<1> QED BY <1>1, <1>2, <1>3, EnterKeeps

LEMMA AdminCreateKeeps ==
    ASSUME CreditInv, NEW w \in Threads, AdminCreate(w)
    PROVE  CreditInv'
<1>1. PICK t \in Tenants : Fresh(w, t) /\ Enter(w, t, TRUE) BY DEF AdminCreate
<1>2. UNCHANGED <<row, ledger, clock, faults>> /\ admin' \in Nat
  BY DEF AdminCreate, CreditInv, Typed
<1>3. TRUE \in BOOLEAN OBVIOUS
<1> QED BY <1>1, <1>2, <1>3, EnterKeeps

LEMMA InvNext ==
    ASSUME CreditInv, [CreditNext]_creditVars
    PROVE  CreditInv'
<1>1. ASSUME NEW w \in Threads, Request(w) PROVE CreditInv'
  <2>1. CASE Count(w) BY <2>1, CountKeeps
  <2>2. CASE AdminCreate(w) BY <2>2, AdminCreateKeeps
  <2>3. CASE Save(w) BY <2>3, SaveKeeps
  <2>4. CASE GrantStarting(w) BY <2>4, GrantStartingKeeps
  <2>5. CASE Record(w) BY <2>5, RecordKeeps
  <2>6. CASE Prune(w) BY <2>6, PruneKeeps
  <2>7. CASE Lookup(w) BY <2>7, LookupKeeps
  <2>8. CASE Drain(w) BY <2>8, DrainKeeps
  <2>9. CASE Recheck(w) BY <2>9, RecheckKeeps
  <2> QED BY <1>1, <2>1, <2>2, <2>3, <2>4, <2>5, <2>6, <2>7, <2>8, <2>9 DEF Request
<1>2. ASSUME NEW t \in Known, Grant(t) PROVE CreditInv' BY <1>2, GrantKeeps
<1>3. ASSUME NEW t \in Known, Rotate(t) PROVE CreditInv' BY <1>3, RotateKeeps
<1>4. ASSUME NEW t \in Known, Disable(t) PROVE CreditInv' BY <1>4, DisableKeeps
<1>5. CASE Tick BY <1>5, TickKeeps
<1>6. CASE Break BY <1>6, BreakKeeps
<1>7. CASE UNCHANGED creditVars
  <2>1. UNCHANGED <<row, ledger, call, clock, audit, admin, faults>> BY <1>7 DEF creditVars
  <2>2. Saving' = Saving /\ Granting' = Granting /\ Recording' = Recording /\ Pruning' = Pruning
    BY <2>1, CallsStand
  <2>3. Known' = Known BY <2>1 DEF Known
  <2>4. Typed' /\ NoneAhead' BY <2>1 DEF CreditInv, Typed, NoneAhead
  <2>5. Informed' /\ OneSignUp' BY <2>1, <2>3 DEF CreditInv, Informed, OneSignUp
  <2>6. Unheard' BY <2>1, <2>3 DEF CreditInv, Unheard
  <2>7. Books' BY <2>1, <2>2, <2>3 DEF CreditInv, Books
  <2>8. Lengths' BY <2>1, <2>2 DEF CreditInv, Lengths
  <2>9. SeatsLeft' BY <2>1, <2>2, <2>3 DEF CreditInv, SeatsLeft, Seats
  <2> QED BY <2>4, <2>5, <2>6, <2>7, <2>8, <2>9 DEF CreditInv
<1> QED BY <1>1, <1>2, <1>3, <1>4, <1>5, <1>6, <1>7 DEF CreditNext

LEMMA CreditInvHolds == CreditSpec => []CreditInv
<1>1. CreditInit => CreditInv BY InvInit
<1>2. CreditInv /\ [CreditNext]_creditVars => CreditInv' BY InvNext
<1> QED BY <1>1, <1>2, PTL DEF CreditSpec

\* Rows, ledgers and calls stay well-formed: a balance is never negative and no
\* time that is kept lies ahead of the clock.
THEOREM CreditTyped == CreditSpec => []CreditTypeOK
<1>1. CreditInv => CreditTypeOK
  <2> SUFFICES ASSUME CreditInv PROVE CreditTypeOK OBVIOUS
  <2>1. ASSUME NEW t \in Tenants
        PROVE  /\ row[t].state \in {"absent", "active", "disabled"}
               /\ row[t].key \in Nat /\ row[t].credits \in Nat
               /\ row[t].credited \in 0..clock \cup {NoTime}
               /\ \A i \in DOMAIN ledger[t] : ledger[t][i].at \in 0..clock
    <3>1. row[t] \in Row /\ ledger[t] \in Seq(LedgerEntry) /\ clock \in Nat
      BY DEF CreditInv, Typed
    <3>2. row[t].credited # NoTime => row[t].credited \in Nat /\ row[t].credited <= clock
      BY <3>1 DEF Row, CreditInv, NoneAhead
    <3>3. \A i \in DOMAIN ledger[t] : ledger[t][i].at \in Nat /\ ledger[t][i].at <= clock
      <4>1. \A i \in DOMAIN ledger[t] : ledger[t][i] \in LedgerEntry BY <3>1
      <4> QED BY <4>1 DEF LedgerEntry, CreditInv, NoneAhead
    <3> QED BY <3>1, <3>2, <3>3 DEF Row
  <2>2. \A w \in Threads : call[w].tenant \in Tenants \cup {NoTenant}
    BY DEF CreditInv, Typed, Call
  <2> QED BY <2>1, <2>2 DEF CreditTypeOK
<1> QED BY <1>1, CreditInvHolds, PTL

\* An account whose sign-up nothing hit is none of those being signed up.
LEMMA SettledIsDone ==
    ASSUME NEW t \in Tenants, Settled(t)
    PROVE  t \in Known /\ audit[t].clean /\ t \notin Granting /\ t \notin Recording /\ t \notin Pruning
BY DEF Settled, SigningUp, Granting, Recording, Pruning

\* Touches that drain and admins that grant, in any number and order, neither
\* lose nor invent credits.
THEOREM BalanceHolds == CreditSpec => []BalanceIsBooked
<1>1. CreditInv => BalanceIsBooked
  <2> SUFFICES ASSUME CreditInv, NEW t \in Tenants, Settled(t)
               PROVE  row[t].credits = audit[t].booked
    BY DEF BalanceIsBooked
  <2>1. t \in Known /\ audit[t].clean /\ t \notin Granting /\ t \notin Recording BY SettledIsDone
  <2>2. row[t].credits = audit[t].booked + 0 BY <2>1 DEF CreditInv, Books
  <2>3. audit[t].booked \in Int BY DEF CreditInv, Typed, Audit
  <2> QED BY <2>2, <2>3
<1> QED BY <1>1, CreditInvHolds, PTL

\* However many touches meter at once, a period is charged once.
THEOREM ChargesHold == CreditSpec => []ChargedOnce
<1>1. CreditInv => ChargedOnce
  <2> SUFFICES ASSUME CreditInv, NEW t \in Tenants, Settled(t)
               PROVE  row[t].credited = audit[t].since + Interval * audit[t].metered
    BY DEF ChargedOnce
  <2>1. t \in Known /\ audit[t].clean /\ t \notin Granting BY SettledIsDone
  <2> QED BY <2>1 DEF CreditInv, Books
<1> QED BY <1>1, CreditInvHolds, PTL

\* Whatever the number of concurrent sign-ups, the seats taken beyond the cap
\* are fewer than the threads.
THEOREM SeatsHold == CreditSpec => []SeatsAreBounded
<1>1. CreditInv => SeatsAreBounded
  <2> SUFFICES ASSUME CreditInv PROVE SeatsAreBounded OBVIOUS
  <2> DEFINE Taken == {t \in Known : ~audit[t].issued}
  <2>1. IsFiniteSet(Tenants) /\ IsFiniteSet(Threads) /\ MaxTenants \in Nat BY CreditAssumption
  <2>2. IsFiniteSet(Seats) BY <2>1, FS_Subset DEF Seats, Known, Saving
  <2>3. Taken \subseteq Seats BY DEF Seats
  <2> HIDE DEF Taken
  <2>4. Cardinality(Taken) <= Cardinality(Seats)
        /\ Cardinality(Taken) \in Nat /\ Cardinality(Seats) \in Nat
    BY <2>2, <2>3, FS_Subset, FS_CardinalityType
  <2>5. Cardinality(Threads) \in Nat BY <2>1, FS_CardinalityType
  <2>6. Cardinality(Taken) <= MaxTenants + Cardinality(Threads) - 1
    BY <2>1, <2>4, <2>5 DEF CreditInv, SeatsLeft
  <2> QED BY <2>6 DEF SeatsAreBounded, Taken
<1> QED BY <1>1, CreditInvHolds, PTL

\* The ledger of a settled account holds ledger_keep entries at most, and any
\* other one more.
THEOREM LedgerHolds == CreditSpec => []LedgerIsBounded
<1>1. CreditInv => LedgerIsBounded
  <2> SUFFICES ASSUME CreditInv, NEW t \in Tenants
               PROVE  Len(ledger[t]) <= Keep + (IF Settled(t) THEN 0 ELSE 1)
    BY DEF LedgerIsBounded
  <2>1. Keep \in Nat /\ Len(ledger[t]) \in Nat
    BY CreditAssumption DEF CreditInv, Typed
  <2>2. CASE Settled(t)
    <3>1. audit[t].clean /\ t \notin Pruning BY <2>2, SettledIsDone
    <3>2. Len(ledger[t]) <= Keep BY <3>1 DEF CreditInv, Lengths
    <3> QED BY <2>1, <2>2, <3>2
  <2>3. CASE ~Settled(t) BY <2>1, <2>3 DEF CreditInv, Lengths
  <2> QED BY <2>2, <2>3
<1> QED BY <1>1, CreditInvHolds, PTL

\* What a step does to the row of an account that is known.
LEMMA RowStep ==
    ASSUME CreditInv, [CreditNext]_creditVars, NEW t \in Known
    PROVE  \/ SigningUp(t, {"grant"})
           \/ /\ row'[t].key >= row[t].key
              /\ row[t].state = "disabled" => row'[t].state = "disabled"
<1>1. t \in Tenants /\ row[t] \in Row /\ row[t].key \in Nat
  BY DEF Known, CreditInv, Typed, Row
<1>2. CASE row'[t] = row[t] BY <1>1, <1>2
<1>3. ASSUME NEW w \in Threads, Save(w) PROVE row'[t] = row[t]
  <2>1. call[w].tenant # t BY <1>3, InHand DEF Save, At
  <2> QED BY <1>1, <1>3, <2>1 DEF Save, CreditInv, Typed
<1>4. ASSUME NEW w \in Threads, GrantStarting(w), row'[t] # row[t] PROVE SigningUp(t, {"grant"})
  <2>1. call[w].pc = "grant" BY <1>4 DEF GrantStarting, At
  <2>2. call[w].tenant = t BY <1>1, <1>4 DEF GrantStarting, CreditInv, Typed
  <2> QED BY <2>1, <2>2 DEF SigningUp
<1>5. ASSUME NEW w \in Threads, Drain(w), row'[t] # row[t]
      PROVE  row'[t].key >= row[t].key /\ row'[t].state = row[t].state
  <2>1. \E credits, boundary :
           row' = [row EXCEPT ![call[w].tenant] = [@ EXCEPT !.credits = credits, !.credited = boundary]]
    BY <1>5 DEF Drain, Charged
  <2>2. PICK credits, boundary :
           row' = [row EXCEPT ![call[w].tenant] = [@ EXCEPT !.credits = credits, !.credited = boundary]]
    BY <2>1
  <2>3. row'[t] = [row[t] EXCEPT !.credits = credits, !.credited = boundary]
    BY <1>1, <1>5, <2>2 DEF CreditInv, Typed
  <2>4. row'[t].key = row[t].key /\ row'[t].state = row[t].state BY <1>1, <2>3 DEF Row
  <2> QED BY <1>1, <2>4
<1>6. ASSUME NEW u \in Known, Grant(u)
      PROVE  row'[t].key >= row[t].key /\ row'[t].state = row[t].state
  <2>1. PICK a \in Amounts : row' = [row EXCEPT ![u].credits = @ + a] BY <1>6 DEF Grant
  <2>2. row'[t].key = row[t].key /\ row'[t].state = row[t].state
    BY <1>1, <2>1 DEF CreditInv, Typed, Row, Known
  <2> QED BY <1>1, <2>2
<1>7. ASSUME NEW u \in Known, Rotate(u)
      PROVE  row'[t].key >= row[t].key /\ row'[t].state = row[t].state
  <2> DEFINE key == row[u].key + 1
  <2>1. row' = [row EXCEPT ![u].key = key] BY <1>7 DEF Rotate
  <2>2. u \in Tenants /\ key = row[u].key + 1 BY DEF Known
  <2> HIDE DEF key
  <2>3. /\ row'[t].state = row[t].state
        /\ u # t => row'[t].key = row[t].key
        /\ u = t => row'[t].key = key
    BY <1>1, <2>1, <2>2 DEF CreditInv, Typed, Row
  <2> QED BY <1>1, <2>2, <2>3
<1>8. ASSUME NEW u \in Known, Disable(u)
      PROVE  row'[t].key >= row[t].key /\ (row[t].state = "disabled" => row'[t].state = "disabled")
  <2>1. row' = [row EXCEPT ![u].state = "disabled"] /\ u \in Tenants BY <1>8 DEF Disable, Known
  <2>2. row'[t].key = row[t].key /\ (row[t].state = "disabled" => row'[t].state = "disabled")
    BY <1>1, <2>1 DEF CreditInv, Typed, Row
  <2> QED BY <1>1, <2>2
<1>9. ASSUME NEW w \in Threads, Request(w), ~Save(w), ~GrantStarting(w), ~Drain(w)
      PROVE  row' = row
  BY <1>9 DEF Request, Count, AdminCreate, Record, Prune, Lookup, Recheck
<1>10. CASE Tick \/ Break \/ UNCHANGED creditVars
  BY <1>2, <1>10 DEF Tick, Break, creditVars
<1> QED BY <1>2, <1>3, <1>4, <1>5, <1>6, <1>7, <1>8, <1>9, <1>10 DEF CreditNext

\* What an admin did to an account no later step of a meter or a sign-up takes
\* back, its second save apart.
THEOREM AdminHolds == CreditSpec => AdminStands
<1>1. CreditInv /\ [CreditNext]_creditVars =>
        [\A t \in Known :
         \/ SigningUp(t, {"grant"})
         \/ /\ row'[t].key >= row[t].key
            /\ row[t].state = "disabled" => row'[t].state = "disabled"]_creditVars
  BY RowStep
<1> QED BY <1>1, CreditInvHolds, PTL DEF CreditSpec, AdminStands
=============================================================================
