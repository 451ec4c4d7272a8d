---------------------------- MODULE PanelStream ----------------------------
(***************************************************************************)
(* The panel: one crawl at a time reads the engine, publishes what it read *)
(* under the condition, and adds a sample to the history; event streams    *)
(* send the state whenever its sequence number moved, which only grows: a  *)
(* stream is due or not.  Crawls come from the poll thread, while somebody *)
(* watches, and from GET /api/snapshot.  The engine is a counter: the      *)
(* version of its tunnels.                                                 *)
(***************************************************************************)
EXTENDS Integers, FiniteSets, Sequences, Subsequences

CONSTANTS
    Viewers,     \* event streams that may be open
    Requests,    \* threads that serve /api/snapshot
    Window,      \* history_seconds
    MaxSamples,  \* max_samples
    MaxVersion,  \* bound: changes of the engine
    MaxBad,      \* bound: crawls the engine fails or garbles
    MaxTicks     \* bound: the time
ASSUME PanelAssumption ==
    /\ IsFiniteSet(Viewers) /\ Window \in Nat /\ MaxSamples \in Nat \ {0}
    /\ MaxVersion \in Nat /\ MaxBad \in Nat /\ MaxTicks \in Nat

VARIABLES
    version,   \* of the engine's tunnels
    board,     \* state: what the last crawl published
    crawler,   \* what each crawling thread is doing
    crawling,  \* crawl_lock is taken
    samples,   \* SnapshotHistory: the times of its samples
    stream,    \* the open streams: seq # last_seq, and what was sent last
    watchers,  \* sse_watchers
    ticks, bad
panelVars == <<version, board, crawler, crawling, samples, stream, watchers, ticks, bad>>

Poller == "poller"
Crawlers == {Poller} \cup Requests
Asleep == [pc |-> "rest", read |-> 0]
Closed == [open |-> FALSE, due |-> FALSE, version |-> -1]

PanelInit ==
    /\ version = 0
    /\ board = [version |-> 0, reachable |-> FALSE]
    /\ crawler = [c \in Crawlers |-> Asleep]
    /\ crawling = FALSE
    /\ samples = <<>>
    /\ stream = [v \in Viewers |-> Closed]
    /\ watchers = 0
    /\ ticks = 0 /\ bad = 0

EngineChanges ==
    /\ version < MaxVersion /\ version' = version + 1
    /\ UNCHANGED <<board, crawler, crawling, samples, stream, watchers, ticks, bad>>

PanelTick ==
    /\ ticks < MaxTicks /\ ticks' = ticks + 1
    /\ UNCHANGED <<version, board, crawler, crawling, samples, stream, watchers, bad>>

-----------------------------------------------------------------------------
(* crawl_once. *)

\* Fault: crawls overlap.
MayCrawlAnyway(c) == TRUE

\* crawl_lock.acquire(blocking=False); the poll thread crawls while watched.
MayCrawl(c) == ~crawling /\ (c = Poller => watchers > 0)

BeginCrawl(c) ==
    /\ crawler[c].pc = "rest"
    /\ MayCrawl(c)
    /\ crawling' = TRUE
    /\ crawler' = [crawler EXCEPT ![c].pc = "read"]
    /\ UNCHANGED <<version, board, samples, stream, watchers, ticks, bad>>

\* client.status() and client.tunnels().
ReadEngine(c) ==
    /\ crawler[c].pc = "read"
    /\ crawler' = [crawler EXCEPT ![c] = [pc |-> "publish", read |-> version]]
    /\ UNCHANGED <<version, board, crawling, samples, stream, watchers, ticks, bad>>

\* The condition is notified, and every stream is due again.
Moved == stream' = [v \in Viewers |-> [stream[v] EXCEPT !.due = stream[v].open]]

PublishCrawl(c) ==
    /\ crawler[c].pc = "publish"
    /\ board' = [version |-> crawler[c].read, reachable |-> TRUE]
    /\ Moved
    /\ crawler' = [crawler EXCEPT ![c] = [pc |-> "sample", read |-> 0]]
    /\ UNCHANGED <<version, crawling, samples, watchers, ticks, bad>>

EndCrawl(c) == crawling' = FALSE /\ crawler' = [crawler EXCEPT ![c] = Asleep]

\* An EngineError is published; the last status and tunnels stay.
CrawlFails(c) ==
    /\ crawler[c].pc = "read" /\ bad < MaxBad /\ bad' = bad + 1
    /\ board' = [board EXCEPT !.reachable = FALSE]
    /\ Moved
    /\ EndCrawl(c)
    /\ UNCHANGED <<version, samples, watchers, ticks>>

\* Fault: an unexpected exception keeps the lock.
CrawlRaisesLocked(c) ==
    /\ crawler[c].pc # "rest" /\ bad < MaxBad /\ bad' = bad + 1
    /\ crawler' = [crawler EXCEPT ![c] = Asleep]
    /\ UNCHANGED <<version, board, crawling, samples, stream, watchers, ticks>>

\* Any other exception (an answer of another shape) leaves what was published.
CrawlRaises(c) ==
    /\ crawler[c].pc # "rest" /\ bad < MaxBad /\ bad' = bad + 1
    /\ EndCrawl(c)
    /\ UNCHANGED <<version, board, samples, stream, watchers, ticks>>

Capped(s) == IF Len(s) > MaxSamples THEN SubSeq(s, Len(s) - MaxSamples + 1, Len(s)) ELSE s

\* Fault: one sample goes for one that comes.
YoungButOne(s, t) == IF Head(s) < t - Window THEN Tail(s) ELSE s

\* SnapshotHistory.add drops from the front what left the window.
Young(s, t) == Picked(s, {i \in DOMAIN s : s[i] >= t - Window})

AddSample(c) ==
    /\ crawler[c].pc = "sample"
    /\ samples' = Capped(Young(Append(samples, ticks), ticks))
    /\ EndCrawl(c)
    /\ UNCHANGED <<version, board, stream, watchers, ticks, bad>>

-----------------------------------------------------------------------------
(* GET /api/events. *)

Open(v) ==
    /\ ~stream[v].open
    /\ stream' = [stream EXCEPT ![v] = [Closed EXCEPT !.open = TRUE, !.due = TRUE]]
    /\ watchers' = watchers + 1
    /\ UNCHANGED <<version, board, crawler, crawling, samples, ticks, bad>>

Send(v) ==
    /\ stream[v].open
    /\ stream[v].due
    /\ stream' = [stream EXCEPT ![v] = [open |-> TRUE, due |-> FALSE, version |-> board.version]]
    /\ UNCHANGED <<version, board, crawler, crawling, samples, watchers, ticks, bad>>

\* The browser is gone: the generator's finally counts down.
Close(v) ==
    /\ stream[v].open
    /\ stream' = [stream EXCEPT ![v] = Closed]
    /\ watchers' = watchers - 1
    /\ UNCHANGED <<version, board, crawler, crawling, samples, ticks, bad>>

Crawl(c) ==
    \/ BeginCrawl(c) \/ ReadEngine(c) \/ PublishCrawl(c)
    \/ CrawlFails(c) \/ CrawlRaises(c) \/ AddSample(c)

PanelNext ==
    \/ EngineChanges \/ PanelTick
    \/ \E c \in Crawlers : Crawl(c)
    \/ \E v \in Viewers : Open(v) \/ Send(v) \/ Close(v)

\* The poll thread sleeps a few seconds and goes on; every call times out; a
\* stream looks at the state five times a second.
PanelFairness ==
    /\ WF_panelVars(Crawl(Poller))
    /\ \A c \in Requests : WF_panelVars(crawler[c].pc # "rest" /\ Crawl(c))
    /\ \A v \in Viewers : WF_panelVars(Send(v))

PanelSpec == PanelInit /\ [][PanelNext]_panelVars /\ PanelFairness

-----------------------------------------------------------------------------
(* Properties. *)

\* Types; the poll thread's condition counts the open streams; the history is
\* in order, within its window of the newest sample, and bounded.
PanelTypeOK ==
    /\ board.version \in 0..version
    /\ watchers = Cardinality({v \in Viewers : stream[v].open})
    /\ \A c \in Crawlers : crawler[c].pc \in {"rest", "read", "publish", "sample"}
    /\ Len(samples) <= MaxSamples
    /\ \A i \in 1..Len(samples) :
        /\ i > 1 => samples[i - 1] <= samples[i]
        /\ samples[i] >= samples[Len(samples)] - Window

\* What is published, and so what an open stream sends, never goes back to an
\* older state of the engine, whoever crawls.
BoardNeverGoesBack ==
    [][/\ board'.version >= board.version
       /\ \A v \in Viewers : stream[v].open /\ stream'[v].open =>
              stream'[v].version >= stream[v].version]_panelVars

\* Whoever keeps a stream open is shown every state of the engine or a later
\* one, once the engine answers again: no failure kills the polling
\* (panel/app.py:122-125) or keeps the lock.
WatchedIsFresh ==
    \A v \in Viewers, k \in 0..MaxVersion :
        stream[v].open /\ version = k ~> ~stream[v].open \/ stream[v].version >= k
=============================================================================
