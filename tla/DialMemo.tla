------------------------------ MODULE DialMemo ------------------------------
(***************************************************************************)
(* The memo of failed dials that all probe threads share (probe._dial): an *)
(* endpoint whose connect failed is refused without a dial for TTL.  The   *)
(* memo is an ordered dictionary read and written under a lock; the dial   *)
(* between the two is not, so the entry of one thread meets those of the   *)
(* others, and the time stamp written is the one taken before the dial.    *)
(***************************************************************************)
EXTENDS Integers, Sequences, FiniteSets, Subsequences

CONSTANTS
    Threads,     \* workers of the probe executors
    Endpoints,   \* (server, port) pairs
    TTL,         \* _DIAL_MEMO_TTL_S
    Cap,         \* _DIAL_MEMO_MAX
    MaxClock     \* bound on the clock
ASSUME MemoAssumption ==
    Endpoints # {} /\ TTL \in Nat /\ Cap \in Nat \ {0} /\ MaxClock \in Nat

VARIABLES
    memo,        \* _dial_fails in insertion order: [key, at]
    clock,
    call,        \* per thread: [pc, key, now] of the _dial it is in
    failed       \* history: when the last dial that really failed had begun
memoVars == <<memo, clock, call, failed>>

Never == -1

Idle == [pc |-> "idle", key |-> CHOOSE e \in Endpoints : TRUE, now |-> 0]

MemoInit ==
    /\ memo = <<>>
    /\ clock = 0
    /\ call = [t \in Threads |-> Idle]
    /\ failed = [e \in Endpoints |-> Never]

Fresh(entry, now) == entry.at >= now - TTL
Holds(m, key) == \E i \in DOMAIN m : m[i].key = key
EntryOf(m, key) == m[CHOOSE i \in DOMAIN m : m[i].key = key]
Without(m, key) == Picked(m, {i \in DOMAIN m : m[i].key # key})

\* A dictionary keeps the place of a key it already holds.
Store(m, key, at) ==
    IF Holds(m, key)
    THEN [i \in DOMAIN m |-> IF m[i].key = key THEN [key |-> key, at |-> at] ELSE m[i]]
    ELSE Append(m, [key |-> key, at |-> at])

Swept(m, now) == Picked(m, {i \in DOMAIN m : Fresh(m[i], now)})

\* Fault: only the stale entries make room.
MakeRoomStaleOnly(m, now) == IF Len(m) >= Cap THEN Swept(m, now) ELSE m

\* At the cap the stale entries go first, then the oldest one.
MakeRoom(m, now) ==
    LET kept == IF Len(m) >= Cap THEN Swept(m, now) ELSE m
    IN  IF Len(kept) >= Cap THEN Tail(kept) ELSE kept

\* Fault: an entry refuses until it is evicted.
RefusedByMemoForever(m, key, now) == Holds(m, key)

RefusedByMemo(m, key, now) == Holds(m, key) /\ Fresh(EntryOf(m, key), now)

\* The first lock: a fresh entry refuses, a stale one is dropped.
Look(t) ==
    /\ call[t].pc = "idle"
    /\ \E e \in Endpoints :
        IF RefusedByMemo(memo, e, clock)
        THEN /\ call' = [call EXCEPT ![t] = [pc |-> "refused", key |-> e, now |-> clock]]
             /\ UNCHANGED memo
        ELSE /\ call' = [call EXCEPT ![t] = [pc |-> "dialling", key |-> e, now |-> clock]]
             /\ memo' = Without(memo, e)
    /\ UNCHANGED <<clock, failed>>

\* socket.create_connection, without the lock; whether the endpoint listens
\* changes from one dial to the next.
Connect(t) ==
    /\ call[t].pc = "dialling"
    /\ \/ call' = [call EXCEPT ![t].pc = "open"] /\ UNCHANGED failed
       \/ /\ call' = [call EXCEPT ![t].pc = "failing"]
          /\ failed' = [failed EXCEPT ![call[t].key] = IF call[t].now > @ THEN call[t].now ELSE @]
    /\ UNCHANGED <<memo, clock>>

\* The second lock.
Remember(t) ==
    /\ call[t].pc = "failing"
    /\ memo' = Store(MakeRoom(memo, call[t].now), call[t].key, call[t].now)
    /\ call' = [call EXCEPT ![t].pc = "failed"]
    /\ UNCHANGED <<clock, failed>>

\* probe() turns the outcome into a verdict and the thread takes the next node.
Return(t) ==
    /\ call[t].pc \in {"open", "refused", "failed"}
    /\ call' = [call EXCEPT ![t] = Idle]
    /\ UNCHANGED <<memo, clock, failed>>

Tick == clock < MaxClock /\ clock' = clock + 1 /\ UNCHANGED <<memo, call, failed>>

MemoNext ==
    \/ \E t \in Threads : Look(t) \/ Connect(t) \/ Remember(t) \/ Return(t)
    \/ Tick

MemoSpec == MemoInit /\ [][MemoNext]_memoVars

-----------------------------------------------------------------------------
\* The memo never outgrows its cap, whatever the threads store between each
\* other's two locked sections, and holds one entry per endpoint
\* (probe.py:98-100: unique dead endpoints cannot grow it without bound).
MemoBounded ==
    /\ Len(memo) <= Cap
    /\ \A i, j \in DOMAIN memo : memo[i].key = memo[j].key => i = j

\* A node is judged dead without a dial only when a dial to that endpoint, begun
\* within the last TTL, really failed: no entry outlives its time through an
\* update that keeps its place or through an eviction.
MemoRefusalIsRecent ==
    \A t \in Threads :
        call[t].pc = "refused" =>
            failed[call[t].key] # Never /\ failed[call[t].key] >= call[t].now - TTL
=============================================================================
