------------------------------ MODULE NodePool ------------------------------
(***************************************************************************)
(* The pool of nodes: rows of the store that three kinds of workers write  *)
(* while their probes are in flight.  A source refresh (the source loop or *)
(* a manual request) sweeps, fetches, upserts, probes and admits; the      *)
(* working-set loop and the health passes re-probe by handshake only.      *)
(* Every transaction of the store is one step; a verdict is written by     *)
(* node id, seconds after the URI it is about was read.                    *)
(*                                                                         *)
(* URIs are the offers of NodeDial: Renderable and Certifiable are what    *)
(* Renders and Probeable say of them there.  A feed changes one row at a   *)
(* time; rows are independent of each other.                               *)
(***************************************************************************)
EXTENDS Integers, FiniteSets

CONSTANTS
    Nodes,        \* node ids, numbered in the order they were first seen
    Uris,         \* the URIs feeds offer for a node
    Renderable,   \* those _outbound_from_node accepts
    Certifiable,  \* those probeable() accepts
    ProbeTier,    \* _PROBE_TIERS: the tier of each URI's protocol
    Sources,
    ManualSlots,  \* threads that manual refreshes may run on
    Rates, Floor, \* measured rates, throughput_min_kb_s
    Stability,    \* stability_enabled
    Budget,       \* probe_budget_per_refresh
    RetestBudget, \* dead_retest_budget
    WorkingSet,   \* stability_working_set
    MaxWindow,    \* bound: verdicts within one counter window
    MaxChanges,   \* bound: new URIs the feeds bring
    MaxPoison,    \* bound: feeds whose parse raises
    MaxBesides    \* bound: workers at work besides the source loop
NoSource == "none"
ASSUME PoolAssumption ==
    /\ Nodes \subseteq Nat /\ IsFiniteSet(Nodes)
    /\ Renderable \subseteq Uris /\ Certifiable \subseteq Uris
    /\ ProbeTier \in [Uris -> Nat]
    /\ Rates \subseteq Nat /\ Floor \in Nat
    /\ Stability \in BOOLEAN
    /\ Budget \in Nat \ {0} /\ RetestBudget \in Nat \ {0}
    /\ WorkingSet \in Nat /\ MaxWindow \in Nat \ {0}
    /\ MaxChanges \in Nat /\ MaxPoison \in Nat /\ MaxBesides \in Nat
    /\ NoSource \notin Sources
    /\ ManualSlots \cap {"loop", "working_set", "health"} = {}

VARIABLES
    row,         \* the nodes table
    due,         \* sources whose cadence has passed since last_fetch_s
    refreshing,  \* _refreshing: names a manual refresh runs for
    job,         \* what each worker is doing
    changes, poison \* how much the feeds have done, for the bounds
poolVars == <<row, due, refreshing, job, changes, poison>>

Workers == {"loop", "working_set", "health"} \cup ManualSlots
Refreshers == {"loop"} \cup ManualSlots
NoUri == "none"
NoRate == -1

(* misjudged says that the last verdict written was about a URI the row no   *)
(* longer had; gated that the row became alive through the admission gate by *)
(* a verdict about its present URI.  Both are history, like the stale mark   *)
(* of a batch entry: the program does not keep them.                         *)
Absent == [uri |-> NoUri, source |-> NoSource, state |-> "absent", ok |-> 0, total |-> 0,
           rate |-> NoRate, assigned |-> FALSE, misjudged |-> FALSE, gated |-> FALSE]
Resting == [pc |-> "rest", source |-> NoSource, plan |-> {}, batch |-> {}]

PoolInit ==
    /\ row = [n \in Nodes |-> Absent]
    /\ due = Sources
    /\ refreshing = {}
    /\ job = [w \in Workers |-> Resting]
    /\ changes = 0
    /\ poison = 0

InState(s) == {n \in Nodes : row[n].state = s}

-----------------------------------------------------------------------------
(* The transactions of the store. *)

\* Fault: the counters survive a new URI.
RenewedCounting(r, u) ==
    [r EXCEPT !.uri = u, !.state = "untested", !.rate = NoRate,
              !.misjudged = FALSE, !.gated = FALSE]

\* upsert_candidates on a known row whose URI or protocol changed; the
\* assignment stays.
Renewed(r, u) ==
    [r EXCEPT !.uri = u, !.state = "untested", !.ok = 0, !.total = 0, !.rate = NoRate,
              !.misjudged = FALSE, !.gated = FALSE]

Upserted(r, u, s) ==
    IF r.state = "absent"
    THEN [Absent EXCEPT !.uri = u, !.source = s, !.state = "untested"]
    ELSE IF r.uri = u THEN r ELSE Renewed(r, u)

\* Fault: only one of the two counters is halved.
FoldedTotal(r) == [ok |-> r.ok, total |-> r.total \div 2]

\* The window fold of apply_probe_results.
Folded(r) == [ok |-> r.ok \div 2, total |-> r.total \div 2]

\* COALESCE(?, throughput_kb_s).
KeptRate(r, rate) == IF rate = NoRate THEN r.rate ELSE rate

Counted(r, v, fold) ==
    LET base == IF fold THEN Folded(r) ELSE [ok |-> r.ok, total |-> r.total]
    IN  [r EXCEPT !.ok = base.ok + (IF v.alive THEN 1 ELSE 0), !.total = base.total + 1]

\* One row of apply_probe_results: by node id, whatever URI the row has now.
Judged(r, v, counted, fold) ==
    LET c == IF counted THEN Counted(r, v, fold) ELSE r
    IN  [c EXCEPT !.state = IF v.alive THEN "alive" ELSE "dead",
                  !.rate = KeptRate(r, v.rate),
                  !.misjudged = v.stale,
                  !.gated = /\ v.alive
                            /\ IF v.full THEN ~v.stale
                               ELSE r.state = "alive" /\ r.gated]

\* The window may have expired at any verdict; at MaxWindow it must.
ApplyBatch(batch, counted) ==
    \E fold \in [batch -> BOOLEAN] :
        /\ \A v \in batch : counted /\ row[v.node].total >= MaxWindow => fold[v]
        /\ row' = [n \in Nodes |->
                     IF \E v \in batch : v.node = n
                     THEN LET v == CHOOSE x \in batch : x.node = n
                          IN  Judged(row[n], v, counted, fold[v])
                     ELSE row[n]]

-----------------------------------------------------------------------------
(* Probes.  An entry of a batch is a node as it was read, then its verdict.  *)

Entry(n) == [node |-> n, relays |-> row[n].uri \in Certifiable, stale |-> FALSE,
             alive |-> FALSE, rate |-> NoRate, full |-> FALSE]

\* What probe() may return: only a full probe of a relay that answers measures
\* the download as well.
Outcomes(e, full) ==
    {o \in [alive : BOOLEAN, rate : Rates \cup {NoRate}] :
        /\ o.alive => e.relays
        /\ o.rate # NoRate => full /\ o.alive}

Probed(e, full) ==
    {[e EXCEPT !.relays = FALSE, !.alive = o.alive, !.rate = o.rate, !.full = full] :
        o \in Outcomes(e, full)}

Batches(entries, full) ==
    {b \in SUBSET UNION {Probed(e, full) : e \in entries} :
        /\ Cardinality(b) = Cardinality(entries)
        /\ \A e \in entries : \E v \in b : v.node = e.node}

\* Fault: a handshake without a download is let in.
AdmittedUnmeasured(v, uri) == uri \in Renderable /\ (v.rate # NoRate => v.rate >= Floor)

\* _admit_batch: the renderer is tried on the row's present URI.
Admitted(v, uri) == uri \in Renderable /\ v.rate # NoRate /\ v.rate >= Floor

Gated(b) == {[v EXCEPT !.alive = @ /\ Admitted(v, row[v.node].uri)] : v \in b}

\* A worker other than the source loop may start.
MayStart(w) ==
    /\ job[w].pc = "rest"
    /\ Cardinality({x \in Workers \ {"loop"} : job[x].pc # "rest"}) < MaxBesides

Goto(w, pc) == job' = [job EXCEPT ![w].pc = pc]

-----------------------------------------------------------------------------
(* Who starts a refresh. *)

\* _refresh_due reads the summaries once; the pass then works through them.
LoopWake ==
    /\ job["loop"].pc = "rest"
    /\ due # {}
    /\ job' = [job EXCEPT !["loop"] = [Resting EXCEPT !.pc = "next", !.plan = due]]
    /\ UNCHANGED <<row, due, refreshing, changes, poison>>

LoopNext ==
    /\ job["loop"].pc = "next"
    /\ IF job["loop"].plan = {} THEN job' = [job EXCEPT !["loop"] = Resting]
       ELSE \E s \in job["loop"].plan :
              job' = [job EXCEPT !["loop"].pc = "load_alive", !["loop"].source = s,
                                 !["loop"].plan = @ \ {s}]
    /\ UNCHANGED <<row, due, refreshing, changes, poison>>

\* request_source_refresh: acknowledged but not stacked while the name is marked.
Request(s) ==
    /\ s \notin refreshing
    /\ \E w \in ManualSlots :
        /\ MayStart(w)
        /\ job' = [job EXCEPT ![w] = [Resting EXCEPT !.pc = "load_alive", !.source = s]]
    /\ refreshing' = refreshing \cup {s}
    /\ UNCHANGED <<row, due, changes, poison>>

\* The cadence passes, or the clock of a source that was never recorded runs.
Tick ==
    /\ \E s \in Sources \ due : due' = due \cup {s}
    /\ UNCHANGED <<row, refreshing, job, changes, poison>>

-----------------------------------------------------------------------------
(* refresh_source. *)

\* Fault: nodes in use are spared.
StraysUnassigned == {n \in InState("alive") : row[n].uri \notin Renderable \cap Certifiable
                                               /\ ~row[n].assigned}

\* What demote_unrenderable looks for.
Strays == {n \in InState("alive") : row[n].uri \notin Renderable \cap Certifiable}

\* demote_unrenderable reads the alive set ...
LoadAlive(w) ==
    /\ w \in Refreshers /\ job[w].pc = "load_alive"
    /\ job' = [job EXCEPT ![w].pc = IF Strays = {} THEN "fetch" ELSE "sweep", ![w].batch = {[Entry(n) EXCEPT !.relays = FALSE] : n \in Strays}]
    /\ UNCHANGED <<row, due, refreshing, changes, poison>>

\* ... and writes one dead verdict per stray, without touching its counters.
Sweep(w) ==
    /\ w \in Refreshers /\ job[w].pc = "sweep"
    /\ \E e \in job[w].batch :
        /\ ApplyBatch({e}, FALSE)
        /\ job' = [job EXCEPT ![w].batch = @ \ {e},
                              ![w].pc = IF job[w].batch = {e} THEN "fetch" ELSE "sweep"]
    /\ UNCHANGED <<due, refreshing, changes, poison>>

\* Fault: a source without a feed is left at once.
FetchNothingLeaves(w) ==
    /\ w \in Refreshers /\ job[w].pc = "fetch"
    /\ Goto(w, "record")
    /\ UNCHANGED <<row, due, refreshing, changes, poison>>

\* No feed is left that fetch_text gets, or that lists anything new.
FetchNothing(w) ==
    /\ w \in Refreshers /\ job[w].pc = "fetch"
    /\ Goto(w, "select")
    /\ UNCHANGED <<row, due, refreshing, changes, poison>>

\* The entries in flight for a node whose URI is replaced are stale from now on.
Outdated(j, n) ==
    [j EXCEPT !.batch = {IF e.node = n THEN [e EXCEPT !.stale = TRUE] ELSE e : e \in @}]

\* parse_feed, dedup, upsert_candidates; another feed of the source may follow.
Fetch(w) ==
    /\ w \in Refreshers /\ job[w].pc = "fetch"
    /\ changes < MaxChanges
    /\ \E n \in Nodes, u \in Uris :
        /\ row[n].uri # u
        /\ row' = [row EXCEPT ![n] = Upserted(@, u, job[w].source)]
        /\ job' = [x \in Workers |-> Outdated(job[x], n)]
    /\ changes' = changes + 1
    /\ UNCHANGED <<due, refreshing, poison>>

\* Fault: the mark is dropped on the way out of a refresh that went well only.
LeaveMarked(w, done) ==
    /\ job' = [job EXCEPT ![w] = IF w = "loop" THEN [@ EXCEPT !.pc = "next", !.source = NoSource]
                                 ELSE Resting]
    /\ refreshing' = IF w \in ManualSlots /\ done THEN refreshing \ {job[w].source}
                     ELSE refreshing

\* The loop goes on with its plan; a manual worker's finally drops its mark.
Leave(w, done) ==
    /\ job' = [job EXCEPT ![w] = IF w = "loop" THEN [@ EXCEPT !.pc = "next", !.source = NoSource]
                                 ELSE Resting]
    /\ refreshing' = IF w \in ManualSlots THEN refreshing \ {job[w].source} ELSE refreshing

\* parse_feed raises (a vmess payload that is JSON but no object, NodeDial):
\* the exception leaves refresh_source before it probes or records the fetch.
FetchRaises(w) ==
    /\ w \in Refreshers /\ job[w].pc = "fetch"
    /\ poison < MaxPoison
    /\ poison' = poison + 1
    /\ Leave(w, FALSE)
    /\ UNCHANGED <<row, due, changes>>

\* _probe_new: untested nodes by tier, then by age, up to the budget ...
Precedes(m, n) ==
    \/ ProbeTier[row[m].uri] < ProbeTier[row[n].uri]
    \/ ProbeTier[row[m].uri] = ProbeTier[row[n].uri] /\ m < n

SelectUntested ==
    {n \in InState("untested") :
        Cardinality({m \in InState("untested") : Precedes(m, n)}) < Budget}

\* ... and the oldest dead nodes of this source.
DeadOf(s) == {n \in InState("dead") : row[n].source = s}
SelectDead(s) == {n \in DeadOf(s) : Cardinality({m \in DeadOf(s) : m < n}) < RetestBudget}

Select(w) ==
    /\ w \in Refreshers /\ job[w].pc = "select"
    /\ job' = [job EXCEPT ![w].pc = "probe",
                          ![w].batch = {Entry(n) : n \in SelectUntested \cup SelectDead(job[w].source)}]
    /\ UNCHANGED <<row, due, refreshing, changes, poison>>

\* batch_probe, and the first half of _admit_batch: the gate reads the rows.
Certify(w) ==
    /\ w \in Refreshers /\ job[w].pc = "probe"
    /\ \E b \in Batches(job[w].batch, TRUE) :
          job' = [job EXCEPT ![w].pc = "admit", ![w].batch = Gated(b)]
    /\ UNCHANGED <<row, due, refreshing, changes, poison>>

Admit(w) ==
    /\ w \in Refreshers /\ job[w].pc = "admit"
    /\ ApplyBatch(job[w].batch, Stability)
    /\ job' = [job EXCEPT ![w].pc = "record", ![w].batch = {}]
    /\ UNCHANGED <<due, refreshing, changes, poison>>

RecordFetch(w) ==
    /\ w \in Refreshers /\ job[w].pc = "record"
    /\ due' = due \ {job[w].source}
    /\ Leave(w, TRUE)
    /\ UNCHANGED <<row, changes, poison>>

Refresh(w) ==
    \/ LoadAlive(w) \/ Sweep(w)
    \/ FetchNothing(w) \/ Fetch(w) \/ FetchRaises(w)
    \/ Select(w) \/ Certify(w) \/ Admit(w) \/ RecordFetch(w)

-----------------------------------------------------------------------------
(* The handshake-only passes. *)

Free == {n \in InState("alive") : ~row[n].assigned}

\* _working_set_pass: the best free nodes by cached availability, less those
\* probed within stability_reprobe_min_s: any few of them.
LoadWorkingSet ==
    /\ Stability
    /\ MayStart("working_set")
    /\ \E ns \in SUBSET Free :
        /\ ns # {} /\ Cardinality(ns) <= WorkingSet
        /\ job' = [job EXCEPT !["working_set"].pc = "probe",
                              !["working_set"].batch = {Entry(n) : n \in ns}]
    /\ UNCHANGED <<row, due, refreshing, changes, poison>>

\* _run_health_pass reads the nodes assigned to its tunnel, whatever their state.
LoadAssigned ==
    /\ MayStart("health")
    /\ LET ns == {n \in Nodes : row[n].assigned}
       IN  /\ ns # {}
           /\ job' = [job EXCEPT !["health"].pc = "probe",
                                 !["health"].batch = {Entry(n) : n \in ns}]
    /\ UNCHANGED <<row, due, refreshing, changes, poison>>

Reprobe(w) ==
    /\ w \in {"working_set", "health"} /\ job[w].pc = "probe"
    /\ \E b \in Batches(job[w].batch, FALSE) :
          job' = [job EXCEPT ![w].pc = "apply", ![w].batch = b]
    /\ UNCHANGED <<row, due, refreshing, changes, poison>>

Apply(w) ==
    /\ w \in {"working_set", "health"} /\ job[w].pc = "apply"
    /\ ApplyBatch(job[w].batch, Stability)
    /\ job' = [job EXCEPT ![w] = Resting]
    /\ UNCHANGED <<due, refreshing, changes, poison>>

\* The assigner hands out free nodes and the engine releases them (TunnelEngine).
Assign ==
    /\ \E n \in Free : row' = [row EXCEPT ![n].assigned = TRUE]
    /\ UNCHANGED <<due, refreshing, job, changes, poison>>

Release ==
    /\ \E n \in Nodes : row[n].assigned /\ row' = [row EXCEPT ![n].assigned = FALSE]
    /\ UNCHANGED <<due, refreshing, job, changes, poison>>

PoolNext ==
    \/ LoopWake \/ LoopNext \/ Tick
    \/ \E s \in Sources : Request(s)
    \/ \E w \in Refreshers : Refresh(w)
    \/ LoadWorkingSet \/ LoadAssigned
    \/ \E w \in {"working_set", "health"} : Reprobe(w) \/ Apply(w)
    \/ Assign \/ Release

PoolSpec == PoolInit /\ [][PoolNext]_poolVars

\* The source loop is a thread that never stops and its fetches time out; the
\* cadence of a source passes again and again.
PoolFairSpec ==
    /\ PoolSpec
    /\ WF_poolVars(LoopWake) /\ WF_poolVars(LoopNext) /\ WF_poolVars(Refresh("loop"))
    /\ WF_poolVars(Tick)

-----------------------------------------------------------------------------
(* Properties. *)

\* Types, and the counters of a row: no fold or reset of one without the other
\* makes a node succeed more often than it was probed.
PoolTypeOK ==
    /\ \A n \in Nodes :
        /\ row[n].uri \in Uris \cup {NoUri}
        /\ row[n].state \in {"absent", "untested", "alive", "dead"}
        /\ row[n].ok \in 0..row[n].total /\ row[n].total \in 0..MaxWindow
        /\ row[n].rate \in Rates \cup {NoRate}
        /\ row[n].assigned \in BOOLEAN
    /\ due \subseteq Sources /\ refreshing \subseteq Sources
    /\ \A w \in Workers : job[w].plan \subseteq Sources

\* An untested row carries no evidence: whatever verdicts were in flight when a
\* feed replaced the URI, the counters and the rate of the old endpoint are
\* never what the new one starts from (db.py:296-299).
UntestedIsClean ==
    \A n \in Nodes : row[n].state = "untested" =>
        row[n].ok = 0 /\ row[n].total = 0 /\ row[n].rate = NoRate

\* A node that came alive through the admission gate, by a verdict about the
\* URI it has, renders, and its download reached the floor; later handshake-only
\* passes do not take that away (docs/scraping.md, second stage of admission).
GateIsTight ==
    \A n \in Nodes : row[n].state = "alive" /\ row[n].gated =>
        /\ row[n].uri \in Renderable \cap Certifiable
        /\ row[n].rate >= Floor

\* A name is marked exactly while one manual worker refreshes it, also when the
\* refresh raises: requests neither stack nor are refused for ever.
MarksMatchWorkers ==
    \A s \in Sources :
        LET running == {w \in ManualSlots : job[w].source = s}
        IN  Cardinality(running) = IF s \in refreshing THEN 1 ELSE 0

\* The evidence for an alive row is about the URI it has now (docs/scraping.md:
\* "evidence for the old URI cannot certify the new one").
EvidenceIsCurrent ==
    \A n \in Nodes : row[n].state = "alive" => ~row[n].misjudged

\* Once the feeds are quiet every untested node is probed: neither the budget,
\* nor the tiers, nor failing fetches starve one.
QueueDrains ==
    \A n \in Nodes : row[n].state = "untested" ~> row[n].state # "untested"

\* An alive node that the renderer or the probe would reject, which would make
\* every redeploy of its tunnel raise, does not stay alive: each refresh sweeps,
\* whoever revives it in between.
Broken(n) == row[n].state = "alive" /\ row[n].uri \notin Renderable \cap Certifiable
StraysAreSwept == \A n \in Nodes : Broken(n) ~> ~Broken(n)
=============================================================================
