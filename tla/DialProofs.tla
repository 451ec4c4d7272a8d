----------------------------- MODULE DialProofs -----------------------------
(* Proofs about one line of a feed on its way into a tunnel, and about the  *)
(* memo of failed dials the probe threads share.                            *)
EXTENDS NodeDial, DialMemo, SubsequenceProofs, TLAPS

-----------------------------------------------------------------------------
(* The memo. *)

Noted == [key : Endpoints, at : Nat]
Calls == [pc : {"idle", "refused", "dialling", "open", "failing", "failed"},
          key : Endpoints, now : Nat]

MemoTyped ==
    /\ memo \in Seq(Noted)
    /\ clock \in Nat
    /\ call \in [Threads -> Calls]
    /\ failed \in [Endpoints -> Nat \cup {Never}]

\* One entry per endpoint.
Distinct(m) == \A i, j \in DOMAIN m : m[i].key = m[j].key => i = j

\* An entry stands for a dial that failed and had begun no earlier than it says.
Vouched(m, f) == \A i \in DOMAIN m : f[m[i].key] >= m[i].at

\* So does a thread that is about to write one.
Failing == \A t \in Threads : call[t].pc = "failing" => failed[call[t].key] >= call[t].now

MemoInv ==
    /\ MemoTyped
    /\ Len(memo) <= Cap /\ Distinct(memo) /\ Vouched(memo, failed)
    /\ Failing /\ MemoRefusalIsRecent

\* A memo from which entries were taken is no worse.
LEMMA PickedMemo ==
    ASSUME NEW m \in Seq(Noted), Distinct(m), NEW f, Vouched(m, f),
           NEW I \in SUBSET DOMAIN m
    PROVE  /\ Picked(m, I) \in Seq(Noted) /\ Len(Picked(m, I)) <= Len(m)
           /\ Distinct(Picked(m, I)) /\ Vouched(Picked(m, I), f)
           /\ \A k \in DOMAIN Picked(m, I) : \E i \in I : Picked(m, I)[k] = m[i]
<1> DEFINE p == Picked(m, I)
           N == Cardinality(I)
<1>1. /\ IsFiniteSet(I) /\ I \in SUBSET Nat /\ N \in Nat /\ N <= Len(m)
      /\ p \in Seq(Noted) /\ Len(p) = N
      /\ \A k \in 1..N : Nth(I, k) \in I /\ p[k] = m[Nth(I, k)]
  BY PickedProperties
<1>2. ASSUME NEW k \in 1..N, NEW l \in 1..N, k < l PROVE Nth(I, k) < Nth(I, l)
  BY <1>1, <1>2, NthGrows
<1> HIDE DEF p, N
<1>3. DOMAIN p = 1..N BY <1>1
<1>4. \A k \in 1..N : Nth(I, k) \in Nat BY <1>1
<1>5. ASSUME NEW k \in DOMAIN p, NEW l \in DOMAIN p, p[k].key = p[l].key PROVE k = l
  <2>1. Nth(I, k) = Nth(I, l) BY <1>1, <1>3, <1>5 DEF Distinct
  <2>2. ~(k < l) /\ ~(l < k) BY <2>1, <1>2, <1>3, <1>4
  <2>3. k \in Nat /\ l \in Nat BY <1>1, <1>3
  <2> QED BY <2>2, <2>3
<1>6. Distinct(p) BY <1>5 DEF Distinct
<1>7. Vouched(p, f) BY <1>1, <1>3 DEF Vouched
<1>8. \A k \in DOMAIN p : \E i \in I : p[k] = m[i] BY <1>1, <1>3
<1> QED BY <1>1, <1>6, <1>7, <1>8 DEF p, N

\* Making room leaves room: the stale entries go first, then the oldest one.
LEMMA MakeRoomLeavesRoom ==
    ASSUME NEW m \in Seq(Noted), Len(m) <= Cap, Distinct(m), NEW f, Vouched(m, f),
           NEW now \in Nat
    PROVE  LET n == MakeRoom(m, now)
           IN  n \in Seq(Noted) /\ Len(n) < Cap /\ Distinct(n) /\ Vouched(n, f)
<1> DEFINE kept == IF Len(m) >= Cap THEN Swept(m, now) ELSE m
           n == IF Len(kept) >= Cap THEN Tail(kept) ELSE kept
<1>1. Cap \in Nat \ {0} /\ Len(m) \in Nat BY MemoAssumption
<1>2. /\ Swept(m, now) \in Seq(Noted) /\ Len(Swept(m, now)) <= Len(m)
      /\ Distinct(Swept(m, now)) /\ Vouched(Swept(m, now), f)
  <2>1. {i \in DOMAIN m : Fresh(m[i], now)} \in SUBSET DOMAIN m OBVIOUS
  <2> QED BY <2>1, PickedMemo DEF Swept
<1>3. kept \in Seq(Noted) /\ Len(kept) <= Cap /\ Distinct(kept) /\ Vouched(kept, f)
  <2>1. CASE Len(m) >= Cap
    <3>1. kept = Swept(m, now) BY <2>1
    <3>2. Len(Swept(m, now)) \in Nat BY <1>2
    <3>3. Len(Swept(m, now)) <= Cap BY <1>1, <1>2, <3>2
    <3> QED BY <1>2, <3>1, <3>3
  <2>2. CASE ~(Len(m) >= Cap) BY <2>2
  <2> QED BY <2>1, <2>2
<1>4. MakeRoom(m, now) = n BY DEF MakeRoom
<1> HIDE DEF kept
<1>5. Len(kept) \in Nat /\ DOMAIN kept = 1..Len(kept) BY <1>3
<1>6. CASE ~(Len(kept) >= Cap)
  <2>1. n = kept /\ Len(kept) < Cap BY <1>1, <1>5, <1>6
  <2> QED BY <2>1, <1>3, <1>4
<1>7. CASE Len(kept) >= Cap
  <2> DEFINE t == Tail(kept)
  <2>1. kept # <<>> BY <1>1, <1>5, <1>7
  <2>2. t \in Seq(Noted) /\ Len(t) = Len(kept) - 1 /\ \A i \in 1..Len(t) : t[i] = kept[i + 1]
    BY <2>1, <1>3
  <2>3. n = t BY <1>7
  <2> HIDE DEF t
  <2>4. DOMAIN t = 1..Len(t) BY <2>2
  <2>5. \A i \in DOMAIN t : i + 1 \in DOMAIN kept /\ t[i] = kept[i + 1] BY <2>2, <2>4, <1>5
  <2>6. ASSUME NEW i \in DOMAIN t, NEW j \in DOMAIN t, t[i].key = t[j].key PROVE i = j
    <3>1. i + 1 = j + 1 BY <2>5, <2>6, <1>3 DEF Distinct
    <3>2. i \in Nat /\ j \in Nat BY <2>4
    <3> QED BY <3>1, <3>2
  <2>7. Distinct(t) BY <2>6 DEF Distinct
  <2>8. Vouched(t, f) BY <2>5, <1>3 DEF Vouched
  <2>9. Len(t) < Cap BY <2>2, <1>1, <1>3, <1>5
  <2> QED BY <2>2, <2>3, <2>7, <2>8, <2>9, <1>4
<1> QED BY <1>6, <1>7

\* Storing keeps one entry per endpoint, and fits into the room made.
LEMMA StoreKeeps ==
    ASSUME NEW m \in Seq(Noted), Len(m) < Cap, Distinct(m), NEW f, Vouched(m, f),
           NEW key \in Endpoints, NEW at \in Nat, f[key] >= at
    PROVE  LET n == Store(m, key, at)
           IN  n \in Seq(Noted) /\ Len(n) <= Cap /\ Distinct(n) /\ Vouched(n, f)
<1> DEFINE e == [key |-> key, at |-> at]
           n == Store(m, key, at)
<1>1. Cap \in Nat \ {0} /\ Len(m) \in Nat /\ DOMAIN m = 1..Len(m) BY MemoAssumption
<1>2. e \in Noted /\ e.key = key /\ e.at = at BY DEF Noted
<1>3. \A i \in DOMAIN m : m[i] \in Noted OBVIOUS
<1>4. CASE Holds(m, key)
  <2>1. n = [i \in DOMAIN m |-> IF m[i].key = key THEN e ELSE m[i]] BY <1>4 DEF Store
  <2> HIDE DEF e, n
  <2>2. DOMAIN n = DOMAIN m /\ \A i \in DOMAIN m : n[i] \in Noted /\ n[i].key = m[i].key
    BY <2>1, <1>2, <1>3
  <2>3. n \in Seq(Noted) /\ Len(n) = Len(m)
    <3>1. n \in [1..Len(m) -> Noted] BY <2>1, <2>2, <1>1
    <3> QED BY <3>1, <1>1
  <2>4. Distinct(n) BY <2>2 DEF Distinct
  <2>5. Vouched(n, f)
    <3>1. ASSUME NEW i \in DOMAIN n PROVE f[n[i].key] >= n[i].at
      <4>1. CASE m[i].key = key BY <4>1, <2>1, <2>2, <1>2
      <4>2. CASE m[i].key # key BY <4>2, <2>1, <2>2 DEF Vouched
      <4> QED BY <4>1, <4>2
    <3> QED BY <3>1 DEF Vouched
  <2>6. Len(n) <= Cap BY <2>3, <1>1
  <2> QED BY <2>3, <2>4, <2>5, <2>6 DEF n
<1>5. CASE ~Holds(m, key)
  <2>1. n = Append(m, e) BY <1>5 DEF Store
  <2> HIDE DEF e, n
  <2>2. /\ n \in Seq(Noted) /\ Len(n) = Len(m) + 1 /\ n[Len(m) + 1] = e
        /\ \A i \in DOMAIN m : n[i] = m[i]
    BY <2>1, <1>1, <1>2
  <2>3. DOMAIN n = 1..Len(m) + 1 BY <2>2, <1>1
  <2>4. \A i \in DOMAIN n : i = Len(m) + 1 \/ i \in DOMAIN m BY <2>3, <1>1
  <2>5. \A i \in DOMAIN m : n[i].key # key BY <1>5, <2>2 DEF Holds
  <2>6. Distinct(n) BY <2>2, <2>4, <2>5, <1>2 DEF Distinct
  <2>7. Vouched(n, f) BY <2>2, <2>4, <1>2 DEF Vouched
  <2>8. Len(n) <= Cap BY <2>2, <1>1
  <2> QED BY <2>2, <2>6, <2>7, <2>8 DEF n
<1> QED BY <1>4, <1>5

\* Steps of a thread that leave the memo's stamps behind the failures.
LEMMA ThreadStep ==
    ASSUME MemoInv, NEW t \in Threads, NEW q \in Calls, call' = [call EXCEPT ![t] = q],
           UNCHANGED <<clock, failed>>,
           memo' \in Seq(Noted), Len(memo') <= Cap, Distinct(memo'), Vouched(memo', failed),
           q.pc = "failing" => failed[q.key] >= q.now,
           q.pc = "refused" => failed[q.key] # Never /\ failed[q.key] >= q.now - TTL
    PROVE  MemoInv'
<1>1. /\ call' \in [Threads -> Calls] /\ call'[t] = q
      /\ \A u \in Threads : u # t => call'[u] = call[u]
  BY DEF MemoInv, MemoTyped
<1>2. MemoTyped' BY <1>1 DEF MemoInv, MemoTyped
<1>3. Failing' BY <1>1 DEF MemoInv, Failing
<1>4. MemoRefusalIsRecent' BY <1>1 DEF MemoInv, MemoRefusalIsRecent
<1> QED BY <1>2, <1>3, <1>4 DEF MemoInv

\* A fresh entry refuses, and a dial to that endpoint failed no longer ago.
LEMMA LookKeeps ==
    ASSUME MemoInv, NEW t \in Threads, Look(t) PROVE MemoInv'
<1>1. /\ memo \in Seq(Noted) /\ Len(memo) <= Cap /\ Distinct(memo) /\ Vouched(memo, failed)
      /\ clock \in Nat /\ UNCHANGED <<clock, failed>>
      /\ failed \in [Endpoints -> Nat \cup {Never}]
  BY DEF MemoInv, MemoTyped, Look
<1>2. PICK e \in Endpoints :
        IF RefusedByMemo(memo, e, clock)
        THEN /\ call' = [call EXCEPT ![t] = [pc |-> "refused", key |-> e, now |-> clock]]
             /\ UNCHANGED memo
        ELSE /\ call' = [call EXCEPT ![t] = [pc |-> "dialling", key |-> e, now |-> clock]]
             /\ memo' = Without(memo, e)
  BY DEF Look
<1>3. CASE RefusedByMemo(memo, e, clock)
  <2> DEFINE q == [pc |-> "refused", key |-> e, now |-> clock]
  <2>1. q \in Calls /\ q.pc = "refused" /\ q.key = e /\ q.now = clock BY <1>1 DEF Calls
  <2>2. call' = [call EXCEPT ![t] = q] /\ UNCHANGED memo BY <1>2, <1>3
  <2> HIDE DEF q
  <2>3. PICK i \in DOMAIN memo : memo[i].key = e /\ Fresh(memo[i], clock)
    <3>1. Holds(memo, e) /\ Fresh(EntryOf(memo, e), clock) BY <1>3 DEF RefusedByMemo
    <3>2. \E i \in DOMAIN memo : memo[i].key = e BY <3>1 DEF Holds
    <3>3. (CHOOSE i \in DOMAIN memo : memo[i].key = e) \in DOMAIN memo
          /\ memo[CHOOSE i \in DOMAIN memo : memo[i].key = e].key = e
      BY <3>2
    <3> QED BY <3>1, <3>3 DEF EntryOf
  <2>4. failed[e] >= memo[i].at /\ memo[i].at \in Nat /\ memo[i].at >= clock - TTL
    <3>1. memo[i] \in Noted BY <1>1, <2>3
    <3> QED BY <1>1, <2>3, <3>1 DEF Vouched, Fresh, Noted
  <2>5. failed[e] # Never /\ failed[e] >= clock - TTL
    BY <1>1, <2>4, MemoAssumption DEF Never
  <2> QED BY <1>1, <2>1, <2>2, <2>5, ThreadStep
<1>4. CASE ~RefusedByMemo(memo, e, clock)
  <2> DEFINE q == [pc |-> "dialling", key |-> e, now |-> clock]
  <2>1. q \in Calls /\ q.pc = "dialling" BY <1>1 DEF Calls
  <2>2. call' = [call EXCEPT ![t] = q] /\ memo' = Without(memo, e) BY <1>2, <1>4
  <2> HIDE DEF q
  <2>3. /\ Without(memo, e) \in Seq(Noted) /\ Len(Without(memo, e)) <= Len(memo)
        /\ Distinct(Without(memo, e)) /\ Vouched(Without(memo, e), failed)
    <3>1. {i \in DOMAIN memo : memo[i].key # e} \in SUBSET DOMAIN memo OBVIOUS
    <3> QED BY <1>1, <3>1, PickedMemo DEF Without
  <2>4. Len(Without(memo, e)) <= Cap
    <3>1. Len(Without(memo, e)) \in Nat /\ Len(memo) \in Nat /\ Cap \in Nat
      BY <1>1, <2>3, MemoAssumption
    <3> QED BY <1>1, <2>3, <3>1
  <2> QED BY <1>1, <2>1, <2>2, <2>3, <2>4, ThreadStep
<1> QED BY <1>3, <1>4

\* A failed dial is noted by the history no earlier than by the memo.
LEMMA ConnectKeeps ==
    ASSUME MemoInv, NEW t \in Threads, Connect(t) PROVE MemoInv'
<1> DEFINE c == call[t]
<1>1. /\ memo \in Seq(Noted) /\ Len(memo) <= Cap /\ Distinct(memo) /\ Vouched(memo, failed)
      /\ call \in [Threads -> Calls] /\ c \in Calls
      /\ failed \in [Endpoints -> Nat \cup {Never}] /\ UNCHANGED <<memo, clock>>
  BY DEF MemoInv, MemoTyped, Connect
<1>2. CASE call' = [call EXCEPT ![t].pc = "open"] /\ UNCHANGED failed
  <2> DEFINE q == [c EXCEPT !.pc = "open"]
  <2>1. call' = [call EXCEPT ![t] = q] BY <1>1, <1>2
  <2> HIDE DEF c
  <2>2. q \in Calls /\ q.pc = "open" BY <1>1 DEF Calls
  <2> HIDE DEF q
  <2> QED BY <1>1, <1>2, <2>1, <2>2, ThreadStep
<1>3. CASE /\ call' = [call EXCEPT ![t].pc = "failing"]
           /\ failed' = [failed EXCEPT ![c.key] = IF c.now > @ THEN c.now ELSE @]
  <2> DEFINE q == [c EXCEPT !.pc = "failing"]
             last == IF c.now > failed[c.key] THEN c.now ELSE failed[c.key]
  <2>1. call' = [call EXCEPT ![t] = q] /\ failed' = [failed EXCEPT ![c.key] = last]
    BY <1>1, <1>3
  <2>2. c.key \in Endpoints /\ c.now \in Nat /\ failed[c.key] \in Nat \cup {Never}
    BY <1>1 DEF Calls
  <2>3. last \in Nat \cup {Never} /\ last >= c.now /\ last >= failed[c.key] BY <2>2 DEF Never
  <2> HIDE DEF c, last
  <2>4. q \in Calls /\ q.pc = "failing" /\ q.key = c.key /\ q.now = c.now BY <1>1 DEF Calls
  <2> HIDE DEF q
  <2>5. /\ failed' \in [Endpoints -> Nat \cup {Never}] /\ failed'[c.key] = last
        /\ \A e \in Endpoints : e # c.key => failed'[e] = failed[e]
    BY <1>1, <2>1, <2>2, <2>3
  <2>6. \A e \in Endpoints : /\ failed[e] \in Int /\ failed'[e] \in Int
                             /\ failed'[e] >= failed[e]
    <3>1. \A e \in Endpoints : failed[e] \in Int BY <1>1 DEF Never
    <3> QED BY <3>1, <2>3, <2>5 DEF Never
  <2>7. /\ call' \in [Threads -> Calls] /\ call'[t] = q
        /\ \A u \in Threads : u # t => call'[u] = call[u]
    BY <1>1, <2>1, <2>4
  <2>8. Vouched(memo, failed')
    <3>1. ASSUME NEW i \in DOMAIN memo PROVE failed'[memo[i].key] >= memo[i].at
      <4>1. memo[i].key \in Endpoints /\ memo[i].at \in Nat
        <5>1. memo[i] \in Noted BY <1>1
        <5> QED BY <5>1 DEF Noted
      <4>2. failed[memo[i].key] >= memo[i].at BY <1>1 DEF Vouched
      <4> QED BY <4>1, <4>2, <2>6
    <3> QED BY <3>1 DEF Vouched
  <2>9. Failing'
    <3>1. ASSUME NEW u \in Threads, call'[u].pc = "failing"
          PROVE  failed'[call'[u].key] >= call'[u].now
      <4>1. CASE u = t BY <4>1, <2>3, <2>4, <2>5, <2>7
      <4>2. CASE u # t
        <5>1. /\ call'[u] = call[u] /\ call[u].key \in Endpoints /\ call[u].now \in Nat
              /\ failed[call[u].key] >= call[u].now
          BY <4>2, <3>1, <1>1, <2>7 DEF Calls, MemoInv, Failing
        <5> QED BY <5>1, <2>6
      <4> QED BY <4>1, <4>2
    <3> QED BY <3>1 DEF Failing
  <2>10. MemoRefusalIsRecent'
    <3>1. ASSUME NEW u \in Threads, call'[u].pc = "refused"
          PROVE  failed'[call'[u].key] # Never /\ failed'[call'[u].key] >= call'[u].now - TTL
      <4>1. /\ u # t /\ call'[u] = call[u] /\ call[u].key \in Endpoints /\ call[u].now \in Nat
        BY <3>1, <1>1, <2>4, <2>7 DEF Calls
      <4>2. failed[call[u].key] # Never /\ failed[call[u].key] >= call[u].now - TTL
        BY <4>1, <3>1 DEF MemoInv, MemoRefusalIsRecent
      <4>3. failed[call[u].key] \in Nat /\ TTL \in Nat BY <4>1, <4>2, <1>1, MemoAssumption
      <4> QED BY <4>1, <4>2, <4>3, <2>6 DEF Never
    <3> QED BY <3>1 DEF MemoRefusalIsRecent
  <2> QED BY <1>1, <2>5, <2>7, <2>8, <2>9, <2>10 DEF MemoInv, MemoTyped
<1> QED BY <1>2, <1>3 DEF Connect

LEMMA RememberKeeps ==
    ASSUME MemoInv, NEW t \in Threads, Remember(t) PROVE MemoInv'
<1> DEFINE c == call[t]
           q == [c EXCEPT !.pc = "failed"]
           room == MakeRoom(memo, c.now)
<1>1. /\ memo \in Seq(Noted) /\ Len(memo) <= Cap /\ Distinct(memo) /\ Vouched(memo, failed)
      /\ call \in [Threads -> Calls] /\ c \in Calls /\ c.key \in Endpoints /\ c.now \in Nat
      /\ UNCHANGED <<clock, failed>> /\ failed[c.key] >= c.now
      /\ memo' = Store(room, c.key, c.now)
  BY DEF MemoInv, MemoTyped, Remember, Failing, Calls
<1>2. call' = [call EXCEPT ![t] = q] BY <1>1 DEF Remember
<1>3. room \in Seq(Noted) /\ Len(room) < Cap /\ Distinct(room) /\ Vouched(room, failed)
  BY <1>1, MakeRoomLeavesRoom
<1> HIDE DEF c, room
<1>4. q \in Calls /\ q.pc = "failed" BY <1>1 DEF Calls
<1> HIDE DEF q
<1>5. memo' \in Seq(Noted) /\ Len(memo') <= Cap /\ Distinct(memo') /\ Vouched(memo', failed)
  BY <1>1, <1>3, StoreKeeps
<1> QED BY <1>1, <1>2, <1>4, <1>5, ThreadStep

LEMMA MemoStarts == MemoInit => MemoInv
<1> SUFFICES ASSUME MemoInit PROVE MemoInv OBVIOUS
<1>1. Idle \in Calls /\ Idle.pc = "idle" BY MemoAssumption DEF Idle, Calls
<1>2. \A t \in Threads : call[t] = Idle BY DEF MemoInit
<1>3. memo = <<>> /\ DOMAIN memo = {} /\ Len(memo) = 0 BY DEF MemoInit
<1>4. MemoTyped
  <2>1. call \in [Threads -> Calls] BY <1>1 DEF MemoInit
  <2>2. failed \in [Endpoints -> Nat \cup {Never}] BY DEF MemoInit
  <2> QED BY <2>1, <2>2 DEF MemoInit, MemoTyped
<1>5. Len(memo) <= Cap BY <1>3, MemoAssumption
<1>6. Distinct(memo) /\ Vouched(memo, failed) BY <1>3 DEF Distinct, Vouched
<1>7. Failing /\ MemoRefusalIsRecent BY <1>1, <1>2 DEF Failing, MemoRefusalIsRecent
<1> QED BY <1>4, <1>5, <1>6, <1>7 DEF MemoInv

LEMMA MemoGoesOn == MemoInv /\ [MemoNext]_memoVars => MemoInv'
<1> SUFFICES ASSUME MemoInv, [MemoNext]_memoVars PROVE MemoInv' OBVIOUS
<1>1. CASE UNCHANGED memoVars
  BY <1>1 DEF MemoInv, MemoTyped, Failing, MemoRefusalIsRecent, memoVars
<1>2. CASE Tick
  <2>1. clock' \in Nat /\ UNCHANGED <<memo, call, failed>> BY <1>2 DEF Tick, MemoInv, MemoTyped
  <2> QED BY <2>1 DEF MemoInv, MemoTyped, Failing, MemoRefusalIsRecent
<1>3. ASSUME NEW t \in Threads, Return(t) PROVE MemoInv'
  <2>1. Idle \in Calls /\ Idle.pc = "idle" BY MemoAssumption DEF Idle, Calls
  <2>2. call' = [call EXCEPT ![t] = Idle] /\ UNCHANGED <<memo, clock, failed>>
    BY <1>3 DEF Return
  <2>3. /\ memo' \in Seq(Noted) /\ Len(memo') <= Cap /\ Distinct(memo')
        /\ Vouched(memo', failed)
    BY <2>2 DEF MemoInv, MemoTyped
  <2> QED BY <2>1, <2>2, <2>3, ThreadStep
<1> QED BY <1>1, <1>2, <1>3, LookKeeps, ConnectKeeps, RememberKeeps DEF MemoNext

LEMMA MemoInvHolds == MemoSpec => []MemoInv
<1>1. MemoInit => MemoInv BY MemoStarts
<1>2. MemoInv /\ [MemoNext]_memoVars => MemoInv' BY MemoGoesOn
<1> QED BY <1>1, <1>2, PTL DEF MemoSpec

\* The memo stays within its cap and names an endpoint once, whatever the
\* threads store between each other's two locked sections.
THEOREM MemoStaysBounded == MemoSpec => []MemoBounded
<1>1. MemoInv => MemoBounded BY DEF MemoInv, Distinct, MemoBounded
<1> QED BY <1>1, MemoInvHolds, PTL

\* An endpoint is refused unheard only within TTL of a dial that failed.
THEOREM RefusalsAreRecent == MemoSpec => []MemoRefusalIsRecent
<1>1. MemoInv => MemoRefusalIsRecent BY DEF MemoInv
<1> QED BY <1>1, MemoInvHolds, PTL

-----------------------------------------------------------------------------
(* One line of a feed: what the three readers of a URI agree on. *)

\* The fields the readers tell apart.
LEMMA LineFields ==
    ASSUME NEW u \in Lines
    PROVE  u.scheme \in AllSchemes /\ u.sni \in {"absent", "sni", "alt"}
BY SchemesAssumption, FieldsAssumption DEF Lines, Line, Payload, AllSchemes

\* A parsed line has a protocol of the store.
LEMMA ParsedProtocol ==
    ASSUME NEW u \in Lines, Parses(u)
    PROVE  Protocol(u) \in Protocols
<1>1. u.scheme \in AllSchemes /\ u.scheme # "https" BY LineFields DEF Parses
<1> QED BY <1>1 DEF AllSchemes, Protocol, Protocols

\* What the probe certifies has one of five protocols, and speaks plain TCP.
LEMMA ProbedProtocol ==
    ASSUME NEW u \in Lines, Probeable(u)
    PROVE  /\ Protocol(u) \in {"vless", "trojan", "http", "socks5", "ss"}
           /\ Protocol(u) = "ss" => u.plugin = "absent"
           /\ Protocol(u) # "ss" => u.transport \in {"absent", "tcp"}
BY DEF Probeable, ProbesSS

\* Only a genuine relay passes the judge, or, where there is no greeting of the
\* protocol's own, a server that answers anything with a page.
LEMMA JudgedGenuine ==
    ASSUME NEW u \in Lines, Probeable(u), NEW p \in Peers,
           NEW h \in Answers(u, p), Judge(u, h)
    PROVE  \/ Genuine(u, p)
           \/ Protocol(u) \in {"trojan", "http"} /\ p.kind = "web2xx"
<1>1. Protocol(u) \in {"vless", "trojan", "http", "socks5", "ss"} BY ProbedProtocol
<1>2. /\ h.page = "2xx"
      /\ Protocol(u) = "ss" => h.greet = "own"
      /\ Protocol(u) = "http" => h.greet \in {"own", "http2xx"}
      /\ Protocol(u) = "socks5" => h.greet = "own"
      /\ Protocol(u) = "vless" => h.greet = "own"
  BY <1>1 DEF Judge, SSGreets, ForwardGreets, RelayGreets
<1>3. /\ p.kind \in Stubs \cup {"relay"}
      /\ p.kind = "relay" => p.target \in {"2xx", "4xx", "none"}
      /\ p.kind # "relay" => p.proto = "none"
  BY DEF Peers, Stubs
<1>4. h # Nothing /\ h # Heard("noise", "noise") /\ h # Heard("echo", "echo")
      /\ h # Heard("http4xx", "4xx")
  BY <1>2 DEF Heard, Nothing
<1>5. CASE p.kind \in {"silent", "closes"} \/ (ProbeTls(u) /\ ~p.tls)
  BY <1>4, <1>5 DEF Answers
<1>6. CASE p.kind \notin {"silent", "closes"} /\ p.tls /\ ~ProbeTls(u)
  BY <1>4, <1>6 DEF Answers
<1>7. CASE p.kind \notin {"silent", "closes"} /\ (ProbeTls(u) <=> p.tls)
  <2>1. CASE p.kind = "echo" BY <2>1, <1>4, <1>7 DEF Answers
  <2>2. CASE p.kind = "web4xx" BY <2>2, <1>4, <1>7 DEF Answers
  <2>3. CASE p.kind = "web2xx"
    <3>1. h = Heard("http2xx", "2xx") BY <2>3, <1>7 DEF Answers
    <3>2. h.greet = "http2xx" BY <3>1 DEF Heard
    <3> QED BY <3>2, <2>3, <1>1, <1>2
  <2>4. CASE p.kind \in {"refuses", "relay"}
    <3>1. h \in RelayAnswers(u, p) BY <2>4, <1>7 DEF Answers
    <3>2. p.proto = Protocol(u) /\ p.wire = "tcp" /\ p.creds /\ p.target # "none"
      BY <3>1, <1>4 DEF RelayAnswers
    <3>3. h = Heard("own", p.target) BY <3>1, <3>2 DEF RelayAnswers
    <3>4. h.page = p.target BY <3>3 DEF Heard
    <3>5. p.kind = "relay" BY <2>4, <3>2, <1>1, <1>3
    <3>6. p.tls = ProbeTls(u)
      <4>1. p.tls \in BOOLEAN /\ ProbeTls(u) \in BOOLEAN BY DEF Peers, ProbeTls
      <4> QED BY <4>1, <1>7
    <3> QED BY <3>2, <3>4, <3>5, <3>6, <1>2 DEF Genuine
  <2> QED BY <2>1, <2>2, <2>3, <2>4, <1>3, <1>7 DEF Stubs
<1> QED BY <1>5, <1>6, <1>7

\* The renderer dials the port the parser wrote into the row.
LEMMA SamePort ==
    ASSUME NEW u \in Lines, Parses(u), Renders(u), ~ServerOf(u).dressed
    PROVE  RenderPort(u) = ServerOf(u).port
<1>1. u.scheme \in AllSchemes /\ u.scheme \notin {"https", "ssr", "bare"}
  BY LineFields DEF Renders, Protocol, AllSchemes
<1>2. CASE u.port = "given" BY <1>2 DEF RenderPort, ServerOf
<1>3. CASE u.port # "given"
  <2>1. u.scheme \in {"vless", "trojan"} /\ u.port = "none"
    BY <1>1, <1>3 DEF AllSchemes, Parses, ParsesSS, ParsesVmess, HostPort, DefaultPort, ServerOf
  <2> QED BY <2>1, <1>3 DEF RenderPort, ServerOf, Protocol
<1> QED BY <1>2, <1>3

\* Field by field the outbound is what the probe dialled, or a feature of the
\* line sets that field apart.
LEMMA DialledAsProbed ==
    ASSUME NEW u \in Lines, Parses(u), Renders(u), Probeable(u), ~ServerOf(u).dressed,
           NEW f \in DOMAIN Outbound(u), f \notin ReadersPart(u)
    PROVE  Outbound(u)[f] = ProbedAs(u)[f]
<1>1. /\ Protocol(u) \in {"vless", "trojan", "http", "socks5", "ss"}
      /\ Protocol(u) = "ss" => u.plugin = "absent"
      /\ Protocol(u) # "ss" => u.transport \in {"absent", "tcp"}
  BY ProbedProtocol
<1>2. /\ RenderTls(u) \in BOOLEAN /\ ProbeTls(u) \in BOOLEAN
      /\ RenderTls(u) => ProbeTls(u)
      /\ ProbeTls(u) => RenderTls(u) \/ SniAlone(u)
  BY <1>1 DEF RenderTls, ProbeTls, RequiresTls, SniAlone
<1>3. f \in {"host", "port", "transport", "plugin", "tls", "name", "reality", "check",
            "hello", "flow", "auth"}
  BY DEF Outbound
<1>4. CASE f = "host" BY <1>4 DEF Outbound, ProbedAs
<1>5. CASE f = "port"
  <2>1. RenderPort(u) = ServerOf(u).port BY SamePort
  <2> QED BY <1>5, <2>1 DEF Outbound, ProbedAs
<1>6. CASE f = "transport"
  <2>1. RenderTransport(u) = "none" BY <1>1 DEF RenderTransport
  <2> QED BY <1>6, <2>1 DEF Outbound, ProbedAs
<1>7. CASE f = "plugin"
  <2>1. (u.scheme = "ss" /\ u.plugin = "first") = FALSE BY <1>1 DEF Protocol
  <2> QED BY <1>7, <2>1 DEF Outbound, ProbedAs
<1>8. CASE f = "tls"
  <2>1. ~SniAlone(u) BY <1>8 DEF ReadersPart
  <2>2. RenderTls(u) = ProbeTls(u) BY <1>2, <2>1
  <2> QED BY <1>8, <2>2 DEF Outbound, ProbedAs
<1>9. CASE f = "name"
  <2>1. ~SniAlone(u) /\ ~(ProbeTls(u) /\ u.sni = "alt") BY <1>9 DEF ReadersPart
  <2>2. RenderTls(u) = ProbeTls(u) BY <1>2, <2>1
  <2>3. RenderName(u) = ProbeName(u) BY <2>1, <2>2, LineFields DEF RenderName, ProbeName
  <2> QED BY <1>9, <2>3 DEF Outbound, ProbedAs
<1>10. CASE f = "reality"
  <2>1. RenderReality(u) = FALSE BY <1>10 DEF ReadersPart, RenderReality
  <2> QED BY <1>10, <2>1 DEF Outbound, ProbedAs
<1>11. CASE f = "check"
  <2>1. ~(ProbeTls(u) /\ "insecure" \notin u.options) BY <1>11 DEF ReadersPart
  <2>2. RenderCheck(u) = FALSE BY <1>2, <2>1 DEF RenderCheck
  <2> QED BY <1>11, <2>2 DEF Outbound, ProbedAs
<1>12. CASE f = "hello"
  <2>1. ~(ProbeTls(u) /\ "hello" \in u.options) BY <1>12 DEF ReadersPart
  <2>2. RenderHello(u) = FALSE BY <1>2, <2>1 DEF RenderHello
  <2> QED BY <1>12, <2>2 DEF Outbound, ProbedAs
<1>13. CASE f = "flow" BY <1>13 DEF ReadersPart, RenderFlow, Outbound, ProbedAs
<1>14. CASE f = "auth" BY <1>14 DEF ReadersPart, Outbound, ProbedAs
<1> QED BY <1>3, <1>4, <1>5, <1>6, <1>7, <1>8, <1>9, <1>10, <1>11, <1>12, <1>13, <1>14

-----------------------------------------------------------------------------
(* The way of a line. *)

Stages == {"scraped", "aborted", "dropped", "untested", "connected", "measuring",
           "judged", "alive", "dead", "serving"}
Certifies(u, p) ==
    \/ Genuine(u, p)
    \/ Protocol(u) \in {"trojan", "http"} /\ p.kind = "web2xx"

DialInv ==
    /\ line \in Lines /\ stage \in Stages /\ alive \in BOOLEAN
    /\ rate \in Rates \cup {NoRate}
    /\ peer = NoPeer \/ peer \in Peers
    /\ out = NoOut \/ out = Outbound(line)
    /\ stage \notin {"scraped", "aborted", "dropped"} => Parses(line)
    /\ stage \in {"scraped", "aborted", "dropped", "untested", "connected"} => ~alive
    /\ stage = "connected" \/ alive =>
          Probeable(line) /\ ~ServerOf(line).dressed /\ peer \in Peers
    /\ alive => Certifies(line, peer)
    /\ stage \in {"alive", "serving"} => alive /\ Renders(line)
    /\ stage = "serving" => out = Outbound(line)

LEMMA DialStarts == DialInit => DialInv
BY DEF DialInit, DialInv, Stages, NoRate

LEMMA HandshakeKeeps == ASSUME DialInv, Handshake PROVE DialInv'
<1>1. /\ line \in Lines /\ peer \in Peers /\ Probeable(line) /\ ~ServerOf(line).dressed
      /\ Parses(line) /\ rate \in Rates \cup {NoRate} /\ (out = NoOut \/ out = Outbound(line))
      /\ stage = "connected" /\ UNCHANGED <<line, peer, rate, out>>
  BY DEF DialInv, Handshake
<1>2. PICK h \in Answers(line, peer) : alive' = Judge(line, h) BY DEF Handshake
<1>3. alive' \in BOOLEAN BY <1>2 DEF Judge
<1>4. ASSUME alive' PROVE Certifies(line, peer)
  <2>1. Judge(line, h) BY <1>2, <1>4
  <2>2. /\ line \in Lines /\ Probeable(line) /\ peer \in Peers
        /\ h \in Answers(line, peer)
    BY <1>1
  <2>3. \/ Genuine(line, peer)
        \/ Protocol(line) \in {"trojan", "http"} /\ peer.kind = "web2xx"
    BY <2>1, <2>2, JudgedGenuine, Zenon
  <2> QED BY <2>3 DEF Certifies
<1>5. stage' \in {"measuring", "judged"} BY DEF Handshake
<1> QED BY <1>1, <1>3, <1>4, <1>5 DEF DialInv, Stages

LEMMA DialGoesOn == DialInv /\ [DialNext]_dialVars => DialInv'
<1> SUFFICES ASSUME DialInv, [DialNext]_dialVars PROVE DialInv' OBVIOUS
<1>1. CASE UNCHANGED dialVars BY <1>1 DEF dialVars, DialInv
<1>2. CASE Parse BY <1>2 DEF Parse, DialInv, Stages
<1>3. CASE Dismiss BY <1>3 DEF Dismiss, DialInv, Stages
<1>4. CASE Dial
  <2>1. PICK p \in Peers :
          /\ peer' = p
          /\ stage' = IF ServerOf(line).dressed \/ p.kind = "refuses" \/ ChallengeRaises(line)
                      THEN "judged" ELSE "connected"
    BY <1>4 DEF Dial
  <2>2. stage' \in {"judged", "connected"} /\ (stage' = "connected" => ~ServerOf(line).dressed)
    BY <2>1
  <2>3. /\ stage = "untested" /\ Probeable(line) /\ UNCHANGED <<line, alive, rate, out>>
        /\ peer' \in Peers
    BY <1>4, <2>1 DEF Dial
  <2> QED BY <2>2, <2>3 DEF DialInv, Stages
<1>5. CASE Handshake BY <1>5, HandshakeKeeps
<1>6. CASE Measure BY <1>6 DEF Measure, DialInv, Stages
<1>7. CASE Admit BY <1>7 DEF Admit, Certified, DialInv, Stages
<1>8. CASE Render BY <1>8 DEF Render, DialInv, Stages
<1> QED BY <1>1, <1>2, <1>3, <1>4, <1>5, <1>6, <1>7, <1>8 DEF DialNext

LEMMA DialInvHolds == DialSpec => []DialInv
<1>1. DialInit => DialInv BY DialStarts
<1>2. DialInv /\ [DialNext]_dialVars => DialInv' BY DialGoesOn
<1> QED BY <1>1, <1>2, PTL DEF DialSpec

\* A line keeps its types on the way, and what is parsed has a known protocol.
THEOREM DialTypesHold == DialSpec => []DialTypeOK
<1>1. DialInv => DialTypeOK BY ParsedProtocol DEF DialInv, DialTypeOK, Stages
<1> QED BY <1>1, DialInvHolds, PTL

\* What is admitted completed its own protocol to the target, or is one of the
\* two protocols a server of pages can pass for.
THEOREM AdmissionCertifies == DialSpec => []HandshakeCertifies
<1>1. DialInv => HandshakeCertifies BY DEF DialInv, Certifies, HandshakeCertifies
<1> QED BY <1>1, DialInvHolds, PTL

\* sing-box dials what the probe dialled in every field, those excepted in
\* which a feature of the line sets the two readers apart.
THEOREM ServedAsProbed == DialSpec => []DialsAsProbed
<1>1. ASSUME DialInv, stage = "serving" , NEW f \in DOMAIN out
      PROVE  out[f] = ProbedAs(line)[f] \/ f \in ReadersPart(line)
  <2>1. /\ line \in Lines /\ Parses(line) /\ Renders(line) /\ Probeable(line)
        /\ ~ServerOf(line).dressed /\ out = Outbound(line)
    BY <1>1 DEF DialInv
  <2>2. f \in DOMAIN Outbound(line) BY <2>1, <1>1
  <2> QED BY <2>1, <2>2, DialledAsProbed
<1>2. DialInv => DialsAsProbed BY <1>1 DEF DialsAsProbed
<1> QED BY <1>2, DialInvHolds, PTL

\* The name a node has in the pool is the endpoint its outbound dials.
THEOREM RowsNameEndpoints == DialSpec => []RowNamesEndpoint
<1>1. ASSUME DialInv PROVE RowNamesEndpoint
  <2> SUFFICES ASSUME stage \notin {"scraped", "aborted", "dropped"}, Renders(line),
                      ~ServerOf(line).dressed
               PROVE  /\ Outbound(line).host = ServerOf(line).host
                      /\ Outbound(line).port = ServerOf(line).port
    BY DEF RowNamesEndpoint
  <2>1. RenderPort(line) = ServerOf(line).port BY <1>1, SamePort DEF DialInv
  <2> QED BY <2>1 DEF Outbound, ServerOf
<1> QED BY <1>1, DialInvHolds, PTL
=============================================================================
