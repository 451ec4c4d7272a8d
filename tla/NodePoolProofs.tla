--------------------------- MODULE NodePoolProofs ---------------------------
(* Proofs about the pool of nodes: for any number of nodes, sources and     *)
(* workers, however their fetches, probes and verdicts interleave.          *)
EXTENDS NodePool, FiniteSetTheorems, TLAPS

-----------------------------------------------------------------------------
(* Typing. *)

Entries == [node : Nodes, relays : BOOLEAN, stale : BOOLEAN, alive : BOOLEAN,
            rate : Rates \cup {NoRate}, full : BOOLEAN]
Rows == [uri : Uris \cup {NoUri}, source : Sources \cup {NoSource},
         state : {"absent", "untested", "alive", "dead"}, ok : Nat, total : 0..MaxWindow,
         rate : Rates \cup {NoRate}, assigned : BOOLEAN, misjudged : BOOLEAN, gated : BOOLEAN]
PCs == {"rest", "next", "load_alive", "sweep", "fetch", "select", "probe", "admit",
        "record", "apply"}
Jobs == [pc : PCs, source : Sources \cup {NoSource}, plan : SUBSET Sources,
         batch : SUBSET Entries]

PoolTyped ==
    /\ row \in [Nodes -> Rows]
    /\ due \subseteq Sources /\ refreshing \subseteq Sources
    /\ job \in [Workers -> Jobs]

-----------------------------------------------------------------------------
(* The inductive invariant. *)

\* What a row's counters, rate and gate mark say.
Sound(r) ==
    /\ r.ok <= r.total
    /\ r.state = "untested" => r.ok = 0 /\ r.total = 0 /\ r.rate = NoRate
    /\ r.state = "alive" /\ r.gated => r.uri \in Renderable \cap Certifiable /\ r.rate >= Floor

\* An entry of a batch that is not stale speaks of the URI its row has: a
\* probe may succeed only if the URI relays, and a full verdict that stayed
\* alive has passed the gate with it.
Backed(e, uri) ==
    /\ ~e.full => e.rate = NoRate
    /\ e.relays /\ ~e.stale => uri \in Certifiable
    /\ e.full /\ e.alive /\ ~e.stale => uri \in Renderable \cap Certifiable /\ e.rate >= Floor

RowsSound == \A n \in Nodes : Sound(row[n])
AllBacked == \A w \in Workers : \A e \in job[w].batch : Backed(e, row[e.node].uri)

\* A name is marked while one manual worker, and only one, has it.
Marked ==
    /\ \A w \in ManualSlots : job[w].pc = "rest" => job[w].source = NoSource
    /\ \A w \in ManualSlots : job[w].pc # "rest" => job[w].source \in refreshing
    /\ \A w, x \in ManualSlots : job[w].source = job[x].source /\ job[w].pc # "rest" => w = x
    /\ \A s \in refreshing : \E w \in ManualSlots : job[w].source = s

PoolInv == PoolTyped /\ RowsSound /\ AllBacked /\ Marked

-----------------------------------------------------------------------------
(* The transactions of the store. *)

\* One verdict keeps a row sound: the counters move together, within the
\* window, and only a full verdict that is not stale can gate a row.
LEMMA JudgedKeeps ==
    ASSUME NEW r \in Rows, Sound(r), NEW v \in Entries, Backed(v, r.uri),
           NEW counted \in BOOLEAN, NEW fold \in BOOLEAN,
           counted /\ r.total >= MaxWindow => fold
    PROVE  /\ Judged(r, v, counted, fold) \in Rows
           /\ Sound(Judged(r, v, counted, fold))
           /\ Judged(r, v, counted, fold).uri = r.uri
<1> DEFINE c == IF counted THEN Counted(r, v, fold) ELSE r
           state == IF v.alive THEN "alive" ELSE "dead"
           rate == KeptRate(r, v.rate)
           gated == /\ v.alive
                    /\ IF v.full THEN ~v.stale ELSE r.state = "alive" /\ r.gated
           j == [c EXCEPT !.state = state, !.rate = rate, !.misjudged = v.stale, !.gated = gated]
<1>1. /\ r.ok \in Nat /\ r.total \in Nat /\ r.total <= MaxWindow /\ r.ok <= r.total
      /\ MaxWindow \in Nat \ {0}
  BY PoolAssumption DEF Rows, Sound
<1>2. c \in Rows /\ c.ok <= c.total /\ c.uri = r.uri
  <2>1. CASE ~counted BY <2>1, <1>1
  <2>2. CASE counted
    <3> DEFINE base == IF fold THEN Folded(r) ELSE [ok |-> r.ok, total |-> r.total]
               ok == base.ok + (IF v.alive THEN 1 ELSE 0)
               total == base.total + 1
    <3>1. /\ base.ok \in Nat /\ base.total \in Nat /\ base.ok <= base.total
          /\ base.total + 1 <= MaxWindow
      <4>1. CASE fold
        <5>1. base.ok = r.ok \div 2 /\ base.total = r.total \div 2 BY <4>1 DEF Folded
        <5> QED BY <5>1, <1>1
      <4>2. CASE ~fold
        <5>1. base.ok = r.ok /\ base.total = r.total BY <4>2
        <5> QED BY <5>1, <4>2, <2>2, <1>1
      <4> QED BY <4>1, <4>2
    <3>2. c = [r EXCEPT !.ok = ok, !.total = total] BY <2>2 DEF Counted
    <3> HIDE DEF base, c
    <3>3. ok \in Nat /\ total \in 0..MaxWindow /\ ok <= total BY <3>1, <1>1
    <3> HIDE DEF ok, total
    <3> QED BY <3>2, <3>3 DEF Rows
  <2> QED BY <2>1, <2>2
<1> HIDE DEF c
<1>3. state \in {"alive", "dead"} /\ (state = "alive" <=> v.alive) BY DEF Entries
<1>4. rate \in Rates \cup {NoRate} BY DEF Entries, Rows, KeptRate
<1>5. gated \in BOOLEAN BY DEF Entries, Rows
<1>6. v.alive /\ gated => r.uri \in Renderable \cap Certifiable /\ rate >= Floor
  <2> SUFFICES ASSUME v.alive, gated
               PROVE  r.uri \in Renderable \cap Certifiable /\ rate >= Floor
    OBVIOUS
  <2>1. CASE v.full
    <3>1. ~v.stale BY <2>1
    <3>2. r.uri \in Renderable \cap Certifiable /\ v.rate >= Floor BY <2>1, <3>1 DEF Backed
    <3>3. v.rate # NoRate BY <3>2, PoolAssumption DEF NoRate
    <3> QED BY <3>2, <3>3 DEF KeptRate
  <2>2. CASE ~v.full
    <3>1. r.state = "alive" /\ r.gated /\ v.rate = NoRate BY <2>2 DEF Backed
    <3> QED BY <3>1 DEF Sound, KeptRate
  <2> QED BY <2>1, <2>2
<1>7. Judged(r, v, counted, fold) = j BY DEF Judged, c
<1> HIDE DEF state, rate, gated
<1>8. v.stale \in BOOLEAN BY DEF Entries
<1>9. /\ j \in Rows /\ j.uri = c.uri /\ j.ok = c.ok /\ j.total = c.total
      /\ j.state = state /\ j.rate = rate /\ j.gated = gated
  BY <1>2, <1>3, <1>4, <1>5, <1>8 DEF Rows
<1>10. Sound(j)
  <2> HIDE DEF j
  <2> QED BY <1>2, <1>3, <1>6, <1>9 DEF Sound
<1> QED BY <1>2, <1>7, <1>9, <1>10

\* Fault-free upserts: a new URI starts clean.
LEMMA UpsertedKeeps ==
    ASSUME NEW r \in Rows, Sound(r), NEW u \in Uris, NEW s \in Sources \cup {NoSource}
    PROVE  Upserted(r, u, s) \in Rows /\ Sound(Upserted(r, u, s))
<1>1. Absent \in Rows /\ Absent.ok = 0 /\ Absent.total = 0 /\ Absent.rate = NoRate
  BY PoolAssumption DEF Absent, Rows
<1>2. CASE r.state = "absent"
  <2> DEFINE a == Absent
             q == [a EXCEPT !.uri = u, !.source = s, !.state = "untested"]
  <2>1. Upserted(r, u, s) = q BY <1>2 DEF Upserted
  <2> HIDE DEF a
  <2>2. a \in Rows /\ a.ok = 0 /\ a.total = 0 /\ a.rate = NoRate BY <1>1 DEF a
  <2>3. q \in Rows /\ q.ok = 0 /\ q.total = 0 /\ q.rate = NoRate /\ q.state = "untested"
    BY <2>2 DEF Rows
  <2> HIDE DEF q
  <2> QED BY <2>1, <2>3 DEF Sound
<1>3. CASE r.state # "absent" /\ r.uri = u BY <1>3 DEF Upserted
<1>4. CASE r.state # "absent" /\ r.uri # u
  <2> DEFINE q == Renewed(r, u)
  <2>1. q \in Rows /\ q.ok = 0 /\ q.total = 0 /\ q.rate = NoRate /\ q.state = "untested"
    <3>1. 0 \in 0..MaxWindow BY PoolAssumption
    <3>2. q = [r EXCEPT !.uri = u, !.state = "untested", !.ok = 0, !.total = 0, !.rate = NoRate,
                        !.misjudged = FALSE, !.gated = FALSE]
      BY DEF Renewed
    <3> HIDE DEF q
    <3> QED BY <3>1, <3>2 DEF Rows
  <2>2. Upserted(r, u, s) = q BY <1>4 DEF Upserted
  <2> HIDE DEF q
  <2> QED BY <2>1, <2>2 DEF Sound
<1> QED BY <1>2, <1>3, <1>4

\* A batch of verdicts keeps the rows sound, and their URIs.
LEMMA ApplyKeeps ==
    ASSUME PoolInv, NEW B \in SUBSET Entries, \A e \in B : Backed(e, row[e.node].uri),
           NEW counted \in BOOLEAN, ApplyBatch(B, counted)
    PROVE  /\ row' \in [Nodes -> Rows] /\ RowsSound'
           /\ \A n \in Nodes : row'[n].uri = row[n].uri
<1>1. PICK fold \in [B -> BOOLEAN] :
        /\ \A v \in B : counted /\ row[v.node].total >= MaxWindow => fold[v]
        /\ row' = [n \in Nodes |->
                     IF \E v \in B : v.node = n
                     THEN LET v == CHOOSE x \in B : x.node = n
                          IN  Judged(row[n], v, counted, fold[v])
                     ELSE row[n]]
  BY DEF ApplyBatch
<1>2. ASSUME NEW n \in Nodes
      PROVE  row'[n] \in Rows /\ Sound(row'[n]) /\ row'[n].uri = row[n].uri
  <2>1. row[n] \in Rows /\ Sound(row[n]) BY DEF PoolInv, PoolTyped, RowsSound
  <2>2. CASE \E v \in B : v.node = n
    <3> DEFINE v == CHOOSE x \in B : x.node = n
    <3>1. v \in B /\ v.node = n BY <2>2
    <3>2. row'[n] = Judged(row[n], v, counted, fold[v]) BY <1>1, <2>2
    <3> HIDE DEF v
    <3>3. v \in Entries /\ fold[v] \in BOOLEAN /\ Backed(v, row[n].uri) BY <3>1, <1>1
    <3>4. counted /\ row[n].total >= MaxWindow => fold[v] BY <3>1, <1>1
    <3> QED BY <2>1, <3>2, <3>3, <3>4, JudgedKeeps
  <2>3. CASE ~\E v \in B : v.node = n
    <3>1. row'[n] = row[n] BY <1>1, <2>3
    <3> QED BY <2>1, <3>1
  <2> QED BY <2>2, <2>3
<1>3. row' = [n \in Nodes |-> row'[n]] BY <1>1
<1>4. row' \in [Nodes -> Rows] BY <1>2, <1>3
<1> QED BY <1>2, <1>4 DEF RowsSound

-----------------------------------------------------------------------------
(* Probes and batches. *)

\* An entry speaks of the URI that was read with it.
LEMMA EntryBacked ==
    ASSUME PoolTyped, NEW n \in Nodes
    PROVE  /\ Entry(n) \in Entries /\ Entry(n).node = n /\ Backed(Entry(n), row[n].uri)
           /\ [Entry(n) EXCEPT !.relays = FALSE] \in Entries
           /\ [Entry(n) EXCEPT !.relays = FALSE].node = n
           /\ Backed([Entry(n) EXCEPT !.relays = FALSE], row[n].uri)
<1> DEFINE e == Entry(n)
           f == [e EXCEPT !.relays = FALSE]
<1>1. /\ e \in Entries /\ e.node = n /\ (e.relays => row[n].uri \in Certifiable)
      /\ ~e.full /\ ~e.alive /\ e.rate = NoRate
  <2> DEFINE relays == row[n].uri \in Certifiable
  <2>1. relays \in BOOLEAN OBVIOUS
  <2>2. e = [node |-> n, relays |-> relays, stale |-> FALSE, alive |-> FALSE,
             rate |-> NoRate, full |-> FALSE]
    BY DEF Entry
  <2>3. relays => row[n].uri \in Certifiable OBVIOUS
  <2> HIDE DEF e, relays
  <2> QED BY <2>1, <2>2, <2>3 DEF Entries
<1> HIDE DEF e
<1>2. f \in Entries /\ f.node = n /\ ~f.relays /\ ~f.full /\ ~f.alive /\ f.rate = NoRate
  BY <1>1 DEF Entries
<1>3. Backed(e, row[n].uri) BY <1>1 DEF Backed
<1> HIDE DEF f
<1>4. Backed(f, row[n].uri) BY <1>2 DEF Backed
<1> QED BY <1>1, <1>2, <1>3, <1>4 DEF e, f

\* A probe succeeds only for a URI that relays, and only a full one measures.
LEMMA ProbedBacked ==
    ASSUME NEW e \in Entries, NEW uri, Backed(e, uri), NEW full \in BOOLEAN,
           NEW v \in Probed(e, full)
    PROVE  /\ v \in Entries /\ v.node = e.node /\ ~v.relays /\ v.stale = e.stale
           /\ v.full = full /\ (~full => v.rate = NoRate)
           /\ v.alive /\ ~v.stale => uri \in Certifiable
<1>1. PICK o \in Outcomes(e, full) :
        v = [e EXCEPT !.relays = FALSE, !.alive = o.alive, !.rate = o.rate, !.full = full]
  BY DEF Probed
<1>2. /\ o.alive \in BOOLEAN /\ (o.alive => e.relays)
      /\ o.rate \in Rates \cup {NoRate} /\ (~full => o.rate = NoRate)
  BY DEF Outcomes
<1>3. /\ v \in Entries /\ v.node = e.node /\ ~v.relays /\ v.stale = e.stale
      /\ v.full = full /\ v.rate = o.rate /\ v.alive = o.alive
  BY <1>1, <1>2 DEF Entries
<1> QED BY <1>2, <1>3 DEF Backed

\* What a batch of probes returns, and what the gate makes of it.
LEMMA BatchBacked ==
    ASSUME PoolTyped, NEW E \in SUBSET Entries, \A e \in E : Backed(e, row[e.node].uri),
           NEW full \in BOOLEAN, NEW b \in Batches(E, full)
    PROVE  /\ ~full => b \subseteq Entries /\ \A v \in b : Backed(v, row[v.node].uri)
           /\ full => Gated(b) \subseteq Entries /\ \A v \in Gated(b) : Backed(v, row[v.node].uri)
<1>1. \A v \in b : \E e \in E : v \in Probed(e, full) BY DEF Batches
<1>2. ASSUME NEW v \in b
      PROVE  /\ v \in Entries /\ ~v.relays /\ v.full = full /\ (~full => v.rate = NoRate)
             /\ v.alive /\ ~v.stale => row[v.node].uri \in Certifiable
  <2>1. PICK e \in E : v \in Probed(e, full) BY <1>1
  <2>2. e \in Entries /\ Backed(e, row[e.node].uri) OBVIOUS
  <2>3. /\ v \in Entries /\ v.node = e.node /\ ~v.relays /\ v.stale = e.stale
        /\ v.full = full /\ (~full => v.rate = NoRate)
        /\ v.alive /\ ~v.stale => row[e.node].uri \in Certifiable
    BY <2>1, <2>2, ProbedBacked
  <2> QED BY <2>3
<1>3. CASE ~full BY <1>2, <1>3 DEF Backed
<1>4. CASE full
  <2>1. ASSUME NEW v \in b
        PROVE  LET g == [v EXCEPT !.alive = @ /\ Admitted(v, row[v.node].uri)]
               IN  g \in Entries /\ Backed(g, row[g.node].uri)
    <3> DEFINE alive == v.alive /\ Admitted(v, row[v.node].uri)
               g == [v EXCEPT !.alive = alive]
    <3>1. /\ v \in Entries /\ ~v.relays /\ v.full
          /\ v.alive /\ ~v.stale => row[v.node].uri \in Certifiable
      BY <1>2, <1>4
    <3>2. alive \in BOOLEAN BY DEF Admitted, Entries
    <3>3. alive => /\ v.alive /\ row[v.node].uri \in Renderable /\ v.rate >= Floor
      BY DEF Admitted
    <3> HIDE DEF alive
    <3>4. /\ g \in Entries /\ g.alive = alive /\ g.node = v.node /\ ~g.relays /\ g.full
          /\ g.stale = v.stale /\ g.rate = v.rate
      BY <3>1, <3>2 DEF Entries
    <3> HIDE DEF g
    <3>5. Backed(g, row[g.node].uri) BY <3>1, <3>3, <3>4 DEF Backed
    <3> QED BY <3>4, <3>5 DEF g, alive
  <2> QED BY <2>1, <1>4 DEF Gated
<1> QED BY <1>3, <1>4

-----------------------------------------------------------------------------
(* Steps of one worker. *)

\* One worker moves on and no URI changes.
LEMMA JobStep ==
    ASSUME PoolInv, NEW w \in Workers, NEW q \in Jobs, job' = [job EXCEPT ![w] = q],
           \A n \in Nodes : row'[n].uri = row[n].uri,
           \A e \in q.batch : Backed(e, row[e.node].uri)
    PROVE  /\ job' \in [Workers -> Jobs] /\ AllBacked' /\ job'[w] = q
           /\ \A x \in Workers : x # w => job'[x] = job[x]
<1>1. /\ job' \in [Workers -> Jobs] /\ job'[w] = q
      /\ \A x \in Workers : x # w => job'[x] = job[x]
  BY DEF PoolInv, PoolTyped
<1>2. ASSUME NEW x \in Workers, NEW e \in job'[x].batch PROVE Backed(e, row'[e.node].uri)
  <2>1. job'[x] \in Jobs BY <1>1
  <2>2. e.node \in Nodes BY <2>1 DEF Jobs, Entries
  <2>3. Backed(e, row[e.node].uri)
    <3>1. CASE x = w BY <3>1, <1>1, <1>2
    <3>2. CASE x # w BY <3>2, <1>1, <1>2 DEF PoolInv, AllBacked
    <3> QED BY <3>1, <3>2
  <2> QED BY <2>2, <2>3
<1>3. AllBacked' BY <1>2 DEF AllBacked
<1> QED BY <1>1, <1>3

\* A worker in the middle of its job keeps its name.
LEMMA MarkStays ==
    ASSUME PoolInv, NEW w \in Workers, UNCHANGED refreshing,
           \A x \in Workers : x # w => job'[x] = job[x],
           w \in ManualSlots => /\ job'[w].source = job[w].source
                                /\ job[w].pc # "rest" /\ job'[w].pc # "rest"
    PROVE  Marked'
<1>1. ManualSlots \subseteq Workers BY DEF Workers
<1>2. \A x \in ManualSlots : /\ job'[x].source = job[x].source
                             /\ job'[x].pc = "rest" <=> job[x].pc = "rest"
  BY <1>1
<1> QED BY <1>2 DEF PoolInv, Marked

\* The end of a refresh drops the one mark the worker has.
LEMMA LeaveKeeps ==
    ASSUME PoolInv, NEW w \in Refreshers, job[w].pc # "rest", NEW done, Leave(w, done),
           UNCHANGED row
    PROVE  /\ job' \in [Workers -> Jobs] /\ AllBacked' /\ Marked'
           /\ refreshing' \subseteq Sources
<1> DEFINE j == job[w]
           k == [j EXCEPT !.pc = "next", !.source = NoSource]
           q == IF w = "loop" THEN k ELSE Resting
<1>1. /\ w \in Workers /\ job \in [Workers -> Jobs] /\ ManualSlots \subseteq Workers
      /\ "loop" \notin ManualSlots /\ "loop" \in Workers /\ (w # "loop" => w \in ManualSlots)
      /\ refreshing \subseteq Sources
  BY PoolAssumption DEF Workers, Refreshers, PoolInv, PoolTyped
<1>2. j \in Jobs /\ \A e \in j.batch : Backed(e, row[e.node].uri)
  BY <1>1 DEF PoolInv, AllBacked
<1>3. job' = [job EXCEPT ![w] = q]
  <2>1. CASE w = "loop" BY <2>1, <1>1 DEF Leave
  <2>2. CASE w # "loop" BY <2>2, <1>1 DEF Leave
  <2> QED BY <2>1, <2>2
<1>4. k \in Jobs /\ k.batch = j.batch
  <2> HIDE DEF j
  <2> QED BY <1>2 DEF Jobs, PCs
<1>5. Resting \in Jobs /\ Resting.batch = {} /\ Resting.pc = "rest" /\ Resting.source = NoSource
  BY DEF Resting, Jobs, PCs
<1>6. q \in Jobs /\ \A e \in q.batch : Backed(e, row[e.node].uri)
  <2> HIDE DEF k
  <2> QED BY <1>2, <1>4, <1>5
<1>7. w # "loop" => q.pc = "rest" /\ q.source = NoSource BY <1>5
<1> HIDE DEF q
<1>8. /\ job' \in [Workers -> Jobs] /\ AllBacked' /\ job'[w] = q
      /\ \A x \in Workers : x # w => job'[x] = job[x]
  BY <1>1, <1>3, <1>6, JobStep
<1>9. Marked'
  <2>1. CASE w = "loop"
    <3>1. UNCHANGED refreshing BY <2>1, <1>1 DEF Leave
    <3> QED BY <2>1, <3>1, <1>1, <1>8, MarkStays
  <2>2. CASE w # "loop"
    <3>1. w \in ManualSlots /\ refreshing' = refreshing \ {job[w].source}
      BY <2>2, <1>1 DEF Leave
    <3>2. job[w].source \in refreshing /\ job[w].source # NoSource
      BY <3>1, <1>1, PoolAssumption DEF PoolInv, Marked
    <3>3. \A x \in ManualSlots : x # w => job'[x] = job[x] /\ job[x].source # job[w].source
      BY <3>1, <1>1, <1>8 DEF PoolInv, Marked
    <3>4. job'[w].pc = "rest" /\ job'[w].source = NoSource BY <2>2, <1>7, <1>8
    <3>5. \A x \in ManualSlots : job'[x].pc = "rest" => job'[x].source = NoSource
      BY <3>3, <3>4 DEF PoolInv, Marked
    <3>6. \A x \in ManualSlots : job'[x].pc # "rest" => job'[x].source \in refreshing'
      BY <3>1, <3>3, <3>4 DEF PoolInv, Marked
    <3>7. ASSUME NEW x \in ManualSlots, NEW y \in ManualSlots,
                 job'[x].source = job'[y].source, job'[x].pc # "rest"
          PROVE  x = y
      <4>1. x # w /\ job'[x] = job[x] /\ job[x].source \in refreshing
        BY <3>3, <3>4, <3>7 DEF PoolInv, Marked
      <4>2. job[x].source # NoSource BY <4>1, <1>1, PoolAssumption
      <4>3. y # w /\ job'[y] = job[y] BY <3>3, <3>4, <3>7, <4>1, <4>2
      <4> QED BY <3>7, <4>1, <4>3 DEF PoolInv, Marked
    <3>8. ASSUME NEW s \in refreshing' PROVE \E x \in ManualSlots : job'[x].source = s
      <4>1. PICK x \in ManualSlots : job[x].source = s BY <3>1, <3>8 DEF PoolInv, Marked
      <4>2. x # w BY <4>1, <3>1, <3>8
      <4> QED BY <4>1, <4>2, <3>3
    <3> QED BY <3>5, <3>6, <3>7, <3>8 DEF Marked
  <2> QED BY <2>1, <2>2
<1>10. refreshing' \subseteq Sources BY <1>1 DEF Leave
<1> QED BY <1>8, <1>9, <1>10

-----------------------------------------------------------------------------
(* Who starts a refresh. *)

LEMMA JobTypes ==
    ASSUME PoolInv, NEW w \in Workers
    PROVE  /\ row \in [Nodes -> Rows] /\ job \in [Workers -> Jobs] /\ job[w] \in Jobs
           /\ job[w].batch \in SUBSET Entries /\ job[w].source \in Sources \cup {NoSource}
           /\ job[w].plan \subseteq Sources
           /\ \A e \in job[w].batch : Backed(e, row[e.node].uri)
           /\ due \subseteq Sources /\ refreshing \subseteq Sources
BY DEF PoolInv, PoolTyped, Jobs, AllBacked

LEMMA Names ==
    /\ ManualSlots \subseteq Workers /\ "loop" \in Workers
    /\ "working_set" \in Workers /\ "health" \in Workers /\ Refreshers \subseteq Workers
    /\ "loop" \notin ManualSlots /\ "working_set" \notin ManualSlots /\ "health" \notin ManualSlots
    /\ Resting \in Jobs /\ Resting.batch = {} /\ Resting.pc = "rest" /\ Resting.source = NoSource
    /\ Resting.plan = {} /\ NoSource \notin Sources
BY PoolAssumption DEF Workers, Refreshers, Resting, Jobs, PCs

\* Steps that leave rows, sources and marks alone.
LEMMA QuietStep ==
    ASSUME PoolInv, NEW w \in Workers, NEW q \in Jobs, job' = [job EXCEPT ![w] = q],
           UNCHANGED <<row, refreshing>>, due' \subseteq Sources,
           \A e \in q.batch : Backed(e, row[e.node].uri),
           w \in ManualSlots => /\ q.source = job[w].source
                                /\ job[w].pc # "rest" /\ q.pc # "rest"
    PROVE  PoolInv'
<1>1. /\ job' \in [Workers -> Jobs] /\ AllBacked' /\ job'[w] = q
      /\ \A x \in Workers : x # w => job'[x] = job[x]
  BY JobStep
<1>2. Marked' BY <1>1, MarkStays
<1> QED BY <1>1, <1>2 DEF PoolInv, PoolTyped, RowsSound

LEMMA LoopWakeKeeps ==
    ASSUME PoolInv, LoopWake PROVE PoolInv'
<1> DEFINE r == Resting
           q == [r EXCEPT !.pc = "next", !.plan = due]
<1>1. r \in Jobs /\ r.batch = {} BY Names
<1>2. job' = [job EXCEPT !["loop"] = q] BY DEF LoopWake
<1> HIDE DEF r
<1>3. due \subseteq Sources BY DEF PoolInv, PoolTyped
<1>4. q \in Jobs /\ q.batch = {} BY <1>1, <1>3 DEF Jobs, PCs
<1> HIDE DEF q
<1>5. \A e \in q.batch : Backed(e, row[e.node].uri) BY <1>4
<1> QED BY <1>2, <1>3, <1>4, <1>5, Names, QuietStep DEF LoopWake

LEMMA LoopNextKeeps ==
    ASSUME PoolInv, LoopNext PROVE PoolInv'
<1> DEFINE j == job["loop"]
<1>1. /\ job \in [Workers -> Jobs] /\ j \in Jobs /\ j.plan \subseteq Sources
      /\ \A e \in j.batch : Backed(e, row[e.node].uri)
      /\ due \subseteq Sources
  BY Names, JobTypes
<1>2. UNCHANGED <<row, due, refreshing>> BY DEF LoopNext
<1>3. CASE j.plan = {}
  <2>1. job' = [job EXCEPT !["loop"] = Resting] BY <1>3 DEF LoopNext
  <2>2. \A e \in Resting.batch : Backed(e, row[e.node].uri) BY Names
  <2> QED BY <2>1, <2>2, <1>1, <1>2, Names, QuietStep
<1>4. CASE j.plan # {}
  <2>1. PICK s \in j.plan :
          job' = [job EXCEPT !["loop"].pc = "load_alive", !["loop"].source = s,
                             !["loop"].plan = @ \ {s}]
    BY <1>4 DEF LoopNext
  <2> DEFINE plan == j.plan \ {s}
             q == [j EXCEPT !.pc = "load_alive", !.source = s, !.plan = plan]
  <2>2. job' = [job EXCEPT !["loop"] = q] BY <2>1, <1>1, Names
  <2>3. plan \subseteq Sources /\ s \in Sources BY <1>1
  <2> HIDE DEF j, plan
  <2>4. q \in Jobs /\ q.batch = j.batch BY <1>1, <2>3 DEF Jobs, PCs
  <2> HIDE DEF q
  <2> QED BY <1>1, <1>2, <2>2, <2>4, Names, QuietStep
<1> QED BY <1>3, <1>4

\* A request takes a free worker and marks its name; a marked name has one.
LEMMA RequestKeeps ==
    ASSUME PoolInv, NEW s \in Sources, Request(s) PROVE PoolInv'
<1>1. PICK w \in ManualSlots :
        MayStart(w) /\ job' = [job EXCEPT ![w] = [Resting EXCEPT !.pc = "load_alive", !.source = s]]
  BY DEF Request
<1>2. /\ s \notin refreshing /\ refreshing' = refreshing \cup {s} /\ UNCHANGED <<row, due>>
      /\ job[w].pc = "rest"
  BY <1>1 DEF Request, MayStart
<1> DEFINE r == Resting
           q == [r EXCEPT !.pc = "load_alive", !.source = s]
<1>3. r \in Jobs /\ r.batch = {} BY Names
<1>4. job' = [job EXCEPT ![w] = q] BY <1>1
<1> HIDE DEF r
<1>5. q \in Jobs /\ q.batch = {} /\ q.pc = "load_alive" /\ q.source = s BY <1>3 DEF Jobs, PCs
<1> HIDE DEF q
<1>6. w \in Workers /\ \A e \in q.batch : Backed(e, row[e.node].uri) BY Names, <1>5
<1>7. /\ job' \in [Workers -> Jobs] /\ AllBacked' /\ job'[w] = q
      /\ \A x \in Workers : x # w => job'[x] = job[x]
  BY <1>2, <1>4, <1>5, <1>6, JobStep
<1>8. \A x \in ManualSlots : x # w => job'[x] = job[x] BY <1>7, Names
<1>9. \A x \in ManualSlots : x # w => job[x].source # s
  <2> SUFFICES ASSUME NEW x \in ManualSlots, job[x].source = s PROVE FALSE OBVIOUS
  <2>1. job[x].pc # "rest" BY Names DEF PoolInv, Marked
  <2> QED BY <2>1, <1>2 DEF PoolInv, Marked
<1>10. Marked'
  <2>1. \A x \in ManualSlots : job'[x].pc = "rest" => job'[x].source = NoSource
    BY <1>5, <1>7, <1>8 DEF PoolInv, Marked
  <2>2. \A x \in ManualSlots : job'[x].pc # "rest" => job'[x].source \in refreshing'
    BY <1>2, <1>5, <1>7, <1>8 DEF PoolInv, Marked
  <2>3. ASSUME NEW x \in ManualSlots, NEW y \in ManualSlots,
               job'[x].source = job'[y].source, job'[x].pc # "rest"
        PROVE  x = y
    <3>1. CASE x = w BY <3>1, <2>3, <1>5, <1>7, <1>8, <1>9
    <3>2. CASE x # w
      <4>1. y # w BY <3>2, <2>3, <1>5, <1>7, <1>8, <1>9
      <4> QED BY <4>1, <3>2, <2>3, <1>8 DEF PoolInv, Marked
    <3> QED BY <3>1, <3>2
  <2>4. ASSUME NEW t \in refreshing' PROVE \E x \in ManualSlots : job'[x].source = t
    <3>1. CASE t = s BY <3>1, <1>5, <1>7
    <3>2. CASE t # s
      <4>1. PICK x \in ManualSlots : job[x].source = t BY <3>2, <2>4, <1>2 DEF PoolInv, Marked
      <4>2. t \in Sources BY <3>2, <2>4, <1>2 DEF PoolInv, PoolTyped
      <4>3. x # w BY <4>1, <4>2, <1>2, Names DEF PoolInv, Marked
      <4> QED BY <4>1, <4>3, <1>8
    <3> QED BY <3>1, <3>2
  <2> QED BY <2>1, <2>2, <2>3, <2>4 DEF Marked
<1> QED BY <1>2, <1>7, <1>10 DEF PoolInv, PoolTyped, RowsSound

-----------------------------------------------------------------------------
(* refresh_source. *)

LEMMA LoadAliveKeeps ==
    ASSUME PoolInv, NEW w \in Refreshers, LoadAlive(w) PROVE PoolInv'
<1> DEFINE j == job[w]
           pc == IF Strays = {} THEN "fetch" ELSE "sweep"
           batch == {[Entry(n) EXCEPT !.relays = FALSE] : n \in Strays}
           q == [j EXCEPT !.pc = pc, !.batch = batch]
<1>1. job \in [Workers -> Jobs] /\ j \in Jobs /\ w \in Workers /\ due \subseteq Sources
  BY Names, JobTypes
<1>2. job' = [job EXCEPT ![w] = q] /\ j.pc = "load_alive" /\ UNCHANGED <<row, due, refreshing>>
  BY <1>1 DEF LoadAlive
<1>3. batch \subseteq Entries /\ \A e \in batch : Backed(e, row[e.node].uri)
  <2>1. ASSUME NEW n \in Strays
        PROVE  /\ [Entry(n) EXCEPT !.relays = FALSE] \in Entries
               /\ [Entry(n) EXCEPT !.relays = FALSE].node = n
               /\ Backed([Entry(n) EXCEPT !.relays = FALSE], row[n].uri)
    <3>1. n \in Nodes BY DEF Strays, InState
    <3> QED BY <3>1, EntryBacked DEF PoolInv
  <2> QED BY <2>1
<1>4. pc \in {"fetch", "sweep"} OBVIOUS
<1> HIDE DEF pc, batch, j
<1>5. q \in Jobs /\ q.pc = pc /\ q.batch = batch /\ q.source = j.source
  BY <1>1, <1>3, <1>4 DEF Jobs, PCs
<1>6. q.pc # "rest" /\ j.pc # "rest" BY <1>2, <1>4, <1>5
<1> HIDE DEF q
<1> QED BY <1>1, <1>2, <1>3, <1>5, <1>6, QuietStep DEF j

LEMMA SweepKeeps ==
    ASSUME PoolInv, NEW w \in Refreshers, Sweep(w) PROVE PoolInv'
<1>1. PICK e \in job[w].batch :
        /\ ApplyBatch({e}, FALSE)
        /\ job' = [job EXCEPT ![w].batch = @ \ {e},
                              ![w].pc = IF job[w].batch = {e} THEN "fetch" ELSE "sweep"]
  BY DEF Sweep
<1> DEFINE j == job[w]
           pc == IF job[w].batch = {e} THEN "fetch" ELSE "sweep"
           batch == j.batch \ {e}
           q == [j EXCEPT !.batch = batch, !.pc = pc]
<1>2. /\ job \in [Workers -> Jobs] /\ j \in Jobs /\ w \in Workers /\ due \subseteq Sources
      /\ j.batch \in SUBSET Entries /\ \A x \in j.batch : Backed(x, row[x.node].uri)
      /\ refreshing \subseteq Sources
  BY Names, JobTypes
<1>3. job' = [job EXCEPT ![w] = q] /\ j.pc = "sweep" /\ UNCHANGED <<due, refreshing>>
  BY <1>1, <1>2 DEF Sweep
<1>4. /\ row' \in [Nodes -> Rows] /\ RowsSound'
      /\ \A n \in Nodes : row'[n].uri = row[n].uri
  <2>1. {e} \in SUBSET Entries /\ \A x \in {e} : Backed(x, row[x.node].uri) BY <1>1, <1>2
  <2> QED BY <2>1, <1>1, ApplyKeeps
<1>5. pc \in {"fetch", "sweep"} /\ batch \subseteq j.batch OBVIOUS
<1> HIDE DEF pc, batch, j
<1>6. q \in Jobs /\ q.pc = pc /\ q.batch = batch /\ q.source = j.source
  BY <1>2, <1>5 DEF Jobs, PCs
<1>7. q.pc # "rest" /\ j.pc # "rest" BY <1>3, <1>5, <1>6
<1> HIDE DEF q
<1>8. \A x \in q.batch : Backed(x, row[x.node].uri) BY <1>2, <1>5, <1>6
<1>9. /\ job' \in [Workers -> Jobs] /\ AllBacked' /\ job'[w] = q
      /\ \A x \in Workers : x # w => job'[x] = job[x]
  BY <1>2, <1>3, <1>4, <1>6, <1>8, JobStep
<1>10. Marked' BY <1>2, <1>3, <1>6, <1>7, <1>9, MarkStays DEF j
<1> QED BY <1>2, <1>3, <1>4, <1>9, <1>10 DEF PoolInv, PoolTyped

LEMMA FetchNothingKeeps ==
    ASSUME PoolInv, NEW w \in Refreshers, FetchNothing(w) PROVE PoolInv'
<1> DEFINE j == job[w]
           q == [j EXCEPT !.pc = "select"]
<1>1. /\ job \in [Workers -> Jobs] /\ j \in Jobs /\ w \in Workers /\ due \subseteq Sources
      /\ \A x \in j.batch : Backed(x, row[x.node].uri)
  BY Names, JobTypes
<1>2. job' = [job EXCEPT ![w] = q] /\ j.pc = "fetch" /\ UNCHANGED <<row, due, refreshing>>
  BY <1>1 DEF FetchNothing, Goto
<1> HIDE DEF j
<1>3. q \in Jobs /\ q.pc = "select" /\ q.batch = j.batch /\ q.source = j.source
  BY <1>1 DEF Jobs, PCs
<1> HIDE DEF q
<1> QED BY <1>1, <1>2, <1>3, QuietStep DEF j

\* A feed changes one row, and outdates what is in flight about it.
LEMMA FetchKeeps ==
    ASSUME PoolInv, NEW w \in Refreshers, Fetch(w) PROVE PoolInv'
<1>1. PICK n \in Nodes, u \in Uris :
        /\ row' = [row EXCEPT ![n] = Upserted(row[n], u, job[w].source)]
        /\ job' = [x \in Workers |-> Outdated(job[x], n)]
  BY DEF Fetch
<1>2. UNCHANGED <<due, refreshing>> BY DEF Fetch
<1>3. /\ w \in Workers /\ row \in [Nodes -> Rows] /\ job[w].source \in Sources \cup {NoSource}
      /\ due \subseteq Sources /\ refreshing \subseteq Sources
  BY Names, JobTypes
<1> DEFINE r == Upserted(row[n], u, job[w].source)
<1>4. r \in Rows /\ Sound(r)
  <2>1. row[n] \in Rows /\ Sound(row[n]) BY <1>3 DEF PoolInv, RowsSound
  <2> QED BY <2>1, <1>3, UpsertedKeeps
<1> HIDE DEF r
<1>5. row' = [row EXCEPT ![n] = r] BY <1>1 DEF r
<1>6. /\ row' \in [Nodes -> Rows] /\ row'[n] = r
      /\ \A m \in Nodes : m # n => row'[m] = row[m]
  BY <1>3, <1>4, <1>5
<1>7. RowsSound' BY <1>4, <1>6 DEF PoolInv, RowsSound
<1>8. ASSUME NEW e \in Entries, Backed(e, row[e.node].uri)
      PROVE  LET f == IF e.node = n THEN [e EXCEPT !.stale = TRUE] ELSE e
             IN  f \in Entries /\ Backed(f, row'[f.node].uri)
  <2>1. CASE e.node = n
    <3> DEFINE f == [e EXCEPT !.stale = TRUE]
    <3>1. f \in Entries /\ f.stale /\ f.full = e.full /\ f.rate = e.rate /\ f.node = n
      BY <2>1 DEF Entries
    <3> HIDE DEF f
    <3>2. Backed(f, row'[f.node].uri) BY <3>1, <1>8 DEF Backed
    <3> QED BY <2>1, <3>1, <3>2 DEF f
  <2>2. CASE e.node # n
    <3>1. row'[e.node] = row[e.node] BY <2>2, <1>6 DEF Entries
    <3> QED BY <2>2, <3>1, <1>8
  <2> QED BY <2>1, <2>2
<1>9. ASSUME NEW x \in Workers
      PROVE  /\ job'[x] \in Jobs /\ job'[x].pc = job[x].pc /\ job'[x].source = job[x].source
             /\ \A f \in job'[x].batch : Backed(f, row'[f.node].uri)
  <2> DEFINE j == job[x]
             aged(e) == IF e.node = n THEN [e EXCEPT !.stale = TRUE] ELSE e
             batch == {aged(e) : e \in j.batch}
             q == [j EXCEPT !.batch = batch]
  <2>1. /\ j \in Jobs /\ j.batch \in SUBSET Entries
        /\ \A e \in j.batch : Backed(e, row[e.node].uri)
    BY JobTypes
  <2>2. job'[x] = q BY <1>1 DEF Outdated
  <2>3. \A e \in j.batch : aged(e) \in Entries /\ Backed(aged(e), row'[aged(e).node].uri)
    BY <2>1, <1>8
  <2> HIDE DEF aged
  <2>4. batch \subseteq Entries /\ \A f \in batch : Backed(f, row'[f.node].uri) BY <2>3
  <2> HIDE DEF j, batch
  <2>5. q \in Jobs /\ q.pc = j.pc /\ q.source = j.source /\ q.batch = batch
    BY <2>1, <2>4 DEF Jobs
  <2> QED BY <2>2, <2>4, <2>5 DEF j
<1>10. job' \in [Workers -> Jobs]
  <2>1. job' = [x \in Workers |-> job'[x]] BY <1>1
  <2> QED BY <2>1, <1>9
<1>11. AllBacked' BY <1>9 DEF AllBacked
<1>12. Marked'
  <2>1. \A x \in ManualSlots : job'[x].pc = job[x].pc /\ job'[x].source = job[x].source
    BY <1>9, Names
  <2> QED BY <2>1, <1>2 DEF PoolInv, Marked
<1> QED BY <1>2, <1>3, <1>6, <1>7, <1>10, <1>11, <1>12 DEF PoolInv, PoolTyped

LEMMA FetchRaisesKeeps ==
    ASSUME PoolInv, NEW w \in Refreshers, FetchRaises(w) PROVE PoolInv'
<1>1. Leave(w, FALSE) /\ UNCHANGED <<row, due>> /\ job[w].pc # "rest" BY DEF FetchRaises
<1>2. /\ job' \in [Workers -> Jobs] /\ AllBacked' /\ Marked' /\ refreshing' \subseteq Sources
  BY <1>1, LeaveKeeps
<1> QED BY <1>1, <1>2 DEF PoolInv, PoolTyped, RowsSound

LEMMA SelectKeeps ==
    ASSUME PoolInv, NEW w \in Refreshers, Select(w) PROVE PoolInv'
<1> DEFINE j == job[w]
           chosen == SelectUntested \cup SelectDead(job[w].source)
           batch == {Entry(n) : n \in chosen}
           q == [j EXCEPT !.pc = "probe", !.batch = batch]
<1>1. job \in [Workers -> Jobs] /\ j \in Jobs /\ w \in Workers /\ due \subseteq Sources
  BY Names, JobTypes
<1>2. job' = [job EXCEPT ![w] = q] /\ j.pc = "select" /\ UNCHANGED <<row, due, refreshing>>
  BY <1>1 DEF Select
<1>3. chosen \subseteq Nodes BY DEF SelectUntested, SelectDead, DeadOf, InState
<1> HIDE DEF chosen
<1>4. batch \subseteq Entries /\ \A e \in batch : Backed(e, row[e.node].uri)
  <2>1. \A n \in chosen : Entry(n) \in Entries /\ Entry(n).node = n /\ Backed(Entry(n), row[n].uri)
    BY <1>3, EntryBacked DEF PoolInv
  <2> QED BY <2>1
<1> HIDE DEF batch, j
<1>5. q \in Jobs /\ q.pc = "probe" /\ q.batch = batch /\ q.source = j.source
  BY <1>1, <1>4 DEF Jobs, PCs
<1> HIDE DEF q
<1> QED BY <1>1, <1>2, <1>4, <1>5, QuietStep DEF j

LEMMA CertifyKeeps ==
    ASSUME PoolInv, NEW w \in Refreshers, Certify(w) PROVE PoolInv'
<1>1. PICK b \in Batches(job[w].batch, TRUE) :
          job' = [job EXCEPT ![w].pc = "admit", ![w].batch = Gated(b)]
  BY DEF Certify
<1> DEFINE j == job[w]
           batch == Gated(b)
           q == [j EXCEPT !.pc = "admit", !.batch = batch]
<1>2. /\ job \in [Workers -> Jobs] /\ j \in Jobs /\ w \in Workers /\ due \subseteq Sources
      /\ j.batch \in SUBSET Entries /\ \A e \in j.batch : Backed(e, row[e.node].uri)
  BY Names, JobTypes
<1>3. job' = [job EXCEPT ![w] = q] /\ j.pc = "probe" /\ UNCHANGED <<row, due, refreshing>>
  BY <1>1, <1>2 DEF Certify
<1>4. batch \subseteq Entries /\ \A e \in batch : Backed(e, row[e.node].uri)
  BY <1>1, <1>2, BatchBacked DEF PoolInv
<1> HIDE DEF batch, j
<1>5. q \in Jobs /\ q.pc = "admit" /\ q.batch = batch /\ q.source = j.source
  BY <1>2, <1>4 DEF Jobs, PCs
<1> HIDE DEF q
<1> QED BY <1>2, <1>3, <1>4, <1>5, QuietStep DEF j

\* A batch of verdicts is written, and the worker moves on without it.
LEMMA BatchWritten ==
    ASSUME PoolInv, NEW w \in Workers, ApplyBatch(job[w].batch, Stability),
           NEW q \in Jobs, job' = [job EXCEPT ![w] = q], q.batch = {},
           UNCHANGED <<due, refreshing>>,
           w \in ManualSlots => /\ q.source = job[w].source
                                /\ job[w].pc # "rest" /\ q.pc # "rest"
    PROVE  PoolInv'
<1>1. /\ job[w].batch \in SUBSET Entries /\ \A e \in job[w].batch : Backed(e, row[e.node].uri)
      /\ due \subseteq Sources /\ refreshing \subseteq Sources
  BY JobTypes
<1>2. Stability \in BOOLEAN BY PoolAssumption
<1>3. /\ row' \in [Nodes -> Rows] /\ RowsSound'
      /\ \A n \in Nodes : row'[n].uri = row[n].uri
  BY <1>1, <1>2, ApplyKeeps
<1>4. \A e \in q.batch : Backed(e, row[e.node].uri) OBVIOUS
<1>5. /\ job' \in [Workers -> Jobs] /\ AllBacked' /\ job'[w] = q
      /\ \A x \in Workers : x # w => job'[x] = job[x]
  BY <1>3, <1>4, JobStep
<1>6. Marked' BY <1>5, MarkStays
<1> QED BY <1>1, <1>3, <1>5, <1>6 DEF PoolInv, PoolTyped

LEMMA AdmitKeeps ==
    ASSUME PoolInv, NEW w \in Refreshers, Admit(w) PROVE PoolInv'
<1> DEFINE j == job[w]
           q == [j EXCEPT !.pc = "record", !.batch = {}]
<1>1. job \in [Workers -> Jobs] /\ j \in Jobs /\ w \in Workers
  BY Names, JobTypes
<1>2. job' = [job EXCEPT ![w] = q] /\ j.pc = "admit" /\ UNCHANGED <<due, refreshing>>
  BY <1>1 DEF Admit
<1> HIDE DEF j
<1>3. q \in Jobs /\ q.pc = "record" /\ q.batch = {} /\ q.source = j.source
  BY <1>1 DEF Jobs, PCs
<1> HIDE DEF q
<1>4. ApplyBatch(job[w].batch, Stability) BY DEF Admit
<1> QED BY <1>1, <1>2, <1>3, <1>4, BatchWritten DEF j

LEMMA RecordFetchKeeps ==
    ASSUME PoolInv, NEW w \in Refreshers, RecordFetch(w) PROVE PoolInv'
<1>1. /\ Leave(w, TRUE) /\ UNCHANGED row /\ due' = due \ {job[w].source} /\ job[w].pc # "rest"
  BY DEF RecordFetch
<1>2. /\ job' \in [Workers -> Jobs] /\ AllBacked' /\ Marked' /\ refreshing' \subseteq Sources
  BY <1>1, LeaveKeeps
<1> QED BY <1>1, <1>2 DEF PoolInv, PoolTyped, RowsSound

-----------------------------------------------------------------------------
(* The handshake-only passes. *)

LEMMA LoadKeeps ==
    ASSUME PoolInv, NEW w \in {"working_set", "health"}, NEW ns \in SUBSET Nodes,
           job' = [job EXCEPT ![w].pc = "probe", ![w].batch = {Entry(n) : n \in ns}],
           UNCHANGED <<row, due, refreshing>>
    PROVE  PoolInv'
<1> DEFINE j == job[w]
           batch == {Entry(n) : n \in ns}
           q == [j EXCEPT !.pc = "probe", !.batch = batch]
<1>1. /\ job \in [Workers -> Jobs] /\ j \in Jobs /\ w \in Workers /\ w \notin ManualSlots
      /\ due \subseteq Sources
  BY Names, JobTypes
<1>2. job' = [job EXCEPT ![w] = q] BY <1>1
<1>3. batch \subseteq Entries /\ \A e \in batch : Backed(e, row[e.node].uri)
  <2>1. \A n \in ns : Entry(n) \in Entries /\ Entry(n).node = n /\ Backed(Entry(n), row[n].uri)
    BY EntryBacked DEF PoolInv
  <2> QED BY <2>1
<1> HIDE DEF batch, j
<1>4. q \in Jobs /\ q.batch = batch BY <1>1, <1>3 DEF Jobs, PCs
<1> HIDE DEF q
<1> QED BY <1>1, <1>2, <1>3, <1>4, QuietStep

LEMMA LoadWorkingSetKeeps ==
    ASSUME PoolInv, LoadWorkingSet PROVE PoolInv'
<1>1. PICK ns \in SUBSET Free :
        job' = [job EXCEPT !["working_set"].pc = "probe",
                           !["working_set"].batch = {Entry(n) : n \in ns}]
  BY DEF LoadWorkingSet
<1>2. ns \in SUBSET Nodes BY DEF Free, InState
<1> QED BY <1>1, <1>2, LoadKeeps DEF LoadWorkingSet

LEMMA LoadAssignedKeeps ==
    ASSUME PoolInv, LoadAssigned PROVE PoolInv'
<1> DEFINE ns == {n \in Nodes : row[n].assigned}
<1>1. job' = [job EXCEPT !["health"].pc = "probe", !["health"].batch = {Entry(n) : n \in ns}]
  BY DEF LoadAssigned
<1>2. ns \in SUBSET Nodes OBVIOUS
<1> HIDE DEF ns
<1> QED BY <1>1, <1>2, LoadKeeps DEF LoadAssigned

LEMMA ReprobeKeeps ==
    ASSUME PoolInv, NEW w \in {"working_set", "health"}, Reprobe(w) PROVE PoolInv'
<1>1. PICK b \in Batches(job[w].batch, FALSE) :
          job' = [job EXCEPT ![w].pc = "apply", ![w].batch = b]
  BY DEF Reprobe
<1> DEFINE j == job[w]
           q == [j EXCEPT !.pc = "apply", !.batch = b]
<1>2. /\ job \in [Workers -> Jobs] /\ j \in Jobs /\ w \in Workers /\ due \subseteq Sources
      /\ j.batch \in SUBSET Entries /\ \A e \in j.batch : Backed(e, row[e.node].uri)
      /\ w \notin ManualSlots
  BY Names, JobTypes
<1>3. job' = [job EXCEPT ![w] = q] /\ UNCHANGED <<row, due, refreshing>>
  BY <1>1, <1>2 DEF Reprobe
<1>4. b \subseteq Entries /\ \A e \in b : Backed(e, row[e.node].uri)
  BY <1>1, <1>2, BatchBacked DEF PoolInv
<1> HIDE DEF j
<1>5. q \in Jobs /\ q.batch = b BY <1>2, <1>4 DEF Jobs, PCs
<1> HIDE DEF q
<1> QED BY <1>2, <1>3, <1>4, <1>5, QuietStep

LEMMA PassApplyKeeps ==
    ASSUME PoolInv, NEW w \in {"working_set", "health"}, Apply(w) PROVE PoolInv'
<1>1. /\ ApplyBatch(job[w].batch, Stability) /\ job' = [job EXCEPT ![w] = Resting]
      /\ UNCHANGED <<due, refreshing>>
  BY DEF Apply
<1>2. w \in Workers /\ w \notin ManualSlots BY Names
<1> QED BY <1>1, <1>2, Names, BatchWritten

\* Assigning a node says nothing about its evidence.
LEMMA AssignedKeeps ==
    ASSUME PoolInv, NEW n \in Nodes, NEW a \in BOOLEAN, row' = [row EXCEPT ![n].assigned = a],
           UNCHANGED <<due, refreshing, job>>
    PROVE  PoolInv'
<1> DEFINE r == row[n]
           q == [r EXCEPT !.assigned = a]
<1>1. row \in [Nodes -> Rows] /\ r \in Rows /\ Sound(r) BY DEF PoolInv, PoolTyped, RowsSound
<1>2. row' = [row EXCEPT ![n] = q] BY <1>1
<1> HIDE DEF r
<1>3. /\ q \in Rows /\ q.uri = r.uri /\ q.state = r.state /\ q.ok = r.ok /\ q.total = r.total
      /\ q.rate = r.rate /\ q.gated = r.gated
  BY <1>1 DEF Rows
<1> HIDE DEF q
<1>4. Sound(q) BY <1>1, <1>3 DEF Sound
<1>5. /\ row' \in [Nodes -> Rows] /\ row'[n] = q /\ \A m \in Nodes : m # n => row'[m] = row[m]
  BY <1>1, <1>2, <1>3
<1>6. \A m \in Nodes : row'[m].uri = row[m].uri /\ Sound(row'[m])
  BY <1>3, <1>4, <1>5 DEF r, PoolInv, RowsSound
<1>7. ASSUME NEW w \in Workers, NEW e \in job[w].batch PROVE Backed(e, row'[e.node].uri)
  <2>1. e.node \in Nodes BY JobTypes DEF Entries
  <2> QED BY <2>1, <1>6 DEF PoolInv, AllBacked
<1>8. AllBacked' BY <1>7 DEF AllBacked
<1> QED BY <1>5, <1>6, <1>8 DEF PoolInv, PoolTyped, RowsSound, Marked

-----------------------------------------------------------------------------
(* The invariant, and the theorems. *)

LEMMA PoolStarts == PoolInit => PoolInv
<1> SUFFICES ASSUME PoolInit PROVE PoolInv OBVIOUS
<1>1. /\ Absent \in Rows /\ Absent.ok = 0 /\ Absent.total = 0 /\ Absent.rate = NoRate
      /\ Absent.state = "absent"
  BY PoolAssumption DEF Absent, Rows
<1>2. Sound(Absent) BY <1>1 DEF Sound
<1>3. row \in [Nodes -> Rows] /\ \A n \in Nodes : row[n] = Absent BY <1>1 DEF PoolInit
<1>4. job \in [Workers -> Jobs] /\ \A w \in Workers : job[w] = Resting BY Names DEF PoolInit
<1>5. PoolTyped BY <1>3, <1>4 DEF PoolInit, PoolTyped
<1>6. RowsSound BY <1>2, <1>3 DEF RowsSound
<1>7. AllBacked BY <1>4, Names DEF AllBacked
<1>8. Marked
  <2>1. \A w \in ManualSlots : job[w].pc = "rest" /\ job[w].source = NoSource BY <1>4, Names
  <2>2. refreshing = {} BY DEF PoolInit
  <2> QED BY <2>1, <2>2 DEF Marked
<1> QED BY <1>5, <1>6, <1>7, <1>8 DEF PoolInv

LEMMA PoolGoesOn == PoolInv /\ [PoolNext]_poolVars => PoolInv'
<1> SUFFICES ASSUME PoolInv, [PoolNext]_poolVars PROVE PoolInv' OBVIOUS
<1>1. CASE UNCHANGED poolVars
  BY <1>1 DEF PoolInv, PoolTyped, RowsSound, AllBacked, Marked, poolVars
<1>2. CASE Tick
  <2>1. due' \subseteq Sources /\ UNCHANGED <<row, refreshing, job>>
    BY <1>2 DEF Tick, PoolInv, PoolTyped
  <2> QED BY <2>1 DEF PoolInv, PoolTyped, RowsSound, AllBacked, Marked
<1>3. ASSUME NEW w \in Refreshers, Refresh(w) PROVE PoolInv'
  BY <1>3, LoadAliveKeeps, SweepKeeps, FetchNothingKeeps, FetchKeeps, FetchRaisesKeeps,
     SelectKeeps, CertifyKeeps, AdmitKeeps, RecordFetchKeeps DEF Refresh
<1>4. CASE Assign
  <2>1. PICK n \in Nodes : row' = [row EXCEPT ![n].assigned = TRUE] BY <1>4 DEF Assign, Free, InState
  <2> QED BY <2>1, <1>4, AssignedKeeps DEF Assign
<1>5. CASE Release
  <2>1. PICK n \in Nodes : row' = [row EXCEPT ![n].assigned = FALSE] BY <1>5 DEF Release
  <2> QED BY <2>1, <1>5, AssignedKeeps DEF Release
<1>6. CASE LoopWake BY <1>6, LoopWakeKeeps
<1>7. CASE LoopNext BY <1>7, LoopNextKeeps
<1>8. ASSUME NEW s \in Sources, Request(s) PROVE PoolInv' BY <1>8, RequestKeeps
<1>9. CASE LoadWorkingSet BY <1>9, LoadWorkingSetKeeps
<1>10. CASE LoadAssigned BY <1>10, LoadAssignedKeeps
<1>11. ASSUME NEW w \in {"working_set", "health"}, Reprobe(w) \/ Apply(w) PROVE PoolInv'
  BY <1>11, ReprobeKeeps, PassApplyKeeps
<1> QED BY <1>1, <1>2, <1>3, <1>4, <1>5, <1>6, <1>7, <1>8, <1>9, <1>10, <1>11 DEF PoolNext

LEMMA PoolInvHolds == PoolSpec => []PoolInv
<1>1. PoolInit => PoolInv BY PoolStarts
<1>2. PoolInv /\ [PoolNext]_poolVars => PoolInv' BY PoolGoesOn
<1> QED BY <1>1, <1>2, PTL DEF PoolSpec

\* The counters of a row never say that it succeeded more often than it was
\* probed, however verdicts, folds and new URIs interleave.
THEOREM PoolTypesHold == PoolSpec => []PoolTypeOK
<1>1. ASSUME PoolInv PROVE PoolTypeOK
  <2>1. ASSUME NEW n \in Nodes
        PROVE  /\ row[n].uri \in Uris \cup {NoUri}
               /\ row[n].state \in {"absent", "untested", "alive", "dead"}
               /\ row[n].ok \in 0..row[n].total /\ row[n].total \in 0..MaxWindow
               /\ row[n].rate \in Rates \cup {NoRate}
               /\ row[n].assigned \in BOOLEAN
    <3>1. row[n] \in Rows /\ row[n].ok <= row[n].total
      BY <1>1 DEF PoolInv, PoolTyped, RowsSound, Sound
    <3>2. row[n].ok \in Nat /\ row[n].total \in 0..MaxWindow BY <3>1 DEF Rows
    <3>3. row[n].ok \in 0..row[n].total BY <3>1, <3>2, PoolAssumption
    <3> QED BY <3>1, <3>2, <3>3 DEF Rows
  <2>2. due \subseteq Sources /\ refreshing \subseteq Sources BY <1>1 DEF PoolInv, PoolTyped
  <2>3. \A w \in Workers : job[w].plan \subseteq Sources BY <1>1, JobTypes
  <2> QED BY <2>1, <2>2, <2>3 DEF PoolTypeOK
<1> QED BY <1>1, PoolInvHolds, PTL

\* A row that waits for its first probe carries no evidence of an old endpoint.
THEOREM UntestedStaysClean == PoolSpec => []UntestedIsClean
<1>1. PoolInv => UntestedIsClean BY DEF PoolInv, RowsSound, Sound, UntestedIsClean
<1> QED BY <1>1, PoolInvHolds, PTL

\* A row the gate let in renders, certifies and reached the floor, whatever
\* verdicts were in flight when its URI was replaced.
THEOREM GateStaysTight == PoolSpec => []GateIsTight
<1>1. PoolInv => GateIsTight BY DEF PoolInv, RowsSound, Sound, GateIsTight
<1> QED BY <1>1, PoolInvHolds, PTL

\* A name is marked exactly while one manual worker refreshes it.
THEOREM MarksHold == PoolSpec => []MarksMatchWorkers
<1>1. ASSUME PoolInv PROVE MarksMatchWorkers
  <2>1. ASSUME NEW s \in Sources
        PROVE  Cardinality({w \in ManualSlots : job[w].source = s})
                   = IF s \in refreshing THEN 1 ELSE 0
    <3> DEFINE running == {w \in ManualSlots : job[w].source = s}
    <3>1. \A w \in running : job[w].pc # "rest" /\ s \in refreshing
      BY <1>1, Names DEF PoolInv, Marked
    <3>2. CASE s \in refreshing
      <4>1. PICK w \in ManualSlots : job[w].source = s BY <1>1, <3>2 DEF PoolInv, Marked
      <4>2. running = {w} BY <1>1, <3>1, <4>1 DEF PoolInv, Marked
      <4> HIDE DEF running
      <4>3. Cardinality(running) = 1 BY <4>2, FS_Singleton
      <4> QED BY <3>2, <4>3 DEF running
    <3>3. CASE s \notin refreshing
      <4>1. running = {} BY <3>1, <3>3
      <4> HIDE DEF running
      <4>2. Cardinality(running) = 0 BY <4>1, FS_EmptySet
      <4> QED BY <3>3, <4>2 DEF running
    <3> QED BY <3>2, <3>3
  <2> QED BY <2>1 DEF MarksMatchWorkers
<1> QED BY <1>1, PoolInvHolds, PTL
=============================================================================
