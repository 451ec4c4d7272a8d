# InfinityProxy: specification, model checking and proofs

InfinityProxy scrapes public proxy nodes, probes them, and serves *tunnels*: each
tunnel is one sing-box container with a stable port that dials a set of nodes
reserved for it.  This directory holds TLA+ models of the services' control logic,
the TLC instances that check them, and proofs of the results that matter most.

## 1. The system

| Part | Source | State it keeps | Operations |
| --- | --- | --- | --- |
| Assigner | `engine/assigner.py` | none of its own; reads and writes the store | allocate a port, assign free nodes, top up, release |
| Store | `engine/db.py` | SQLite: `tunnels`, `nodes` (with `assigned_to`, `state`, verdict history), `sources`; one connection, one lock per call | one transaction per method |
| Scheduler | `engine/scheduler.py` | `_strikes`, `_rendered`, `_health_busy`, `_pending_redeploy` under `_lock`; three daemon threads | boot reconciliation, health pass, redeploy, self-heal, forget, source refresh, working set |
| Container controller | `engine/tunnel/container.py` | Docker containers named after tunnel ids | start, update (remove + run), stop, reconcile, is_running |
| Engine API | `engine/app.py` | Flask threads; a 1 s status cache | POST, DELETE, renew of tunnels; status; host routes |
| Node pool | `engine/pool.py`, `engine/filter/runner.py` | rows of `nodes` | refresh a source, admit candidates in batches, working-set probes, demote |
| Probes, scraper, renderer | `engine/filter/probe.py`, `engine/scraper/`, `engine/tunnel/config.py` | a bounded dial memo | handshakes, parsing, config rendering |
| Stability | `engine/stability.py` | none (pure) | tiers, percentile score, ranking |
| Host mode | `engine/host.py`, `hostagent/` | last pick; system proxy and TUN container | pick best tunnel, switch proxy or TUN |
| Tenancy | `tenancy/` | tenants, tunnel links, reservations, credits in SQLite | register, lease a tunnel, release, drain credits, grant, disable |
| Panel | `panel/` | latest snapshot with a sequence number, history | crawl, stream events, egress test |

How they interact: the panel and the tenancy service call the engine over HTTP; a
request thread of the engine calls the assigner, the controller and the scheduler;
the scheduler's threads share the store and the in-memory sets with the request
threads.  `Store._lock` makes one method atomic and nothing more; `Engine._lock`
covers strike bookkeeping, swaps and top-ups, but neither probes nor container
calls, and the assigner's create path does not take it at all.

What is hard here:

* a verdict is written by node id, seconds after the URI it judges was read, while a
  refresh of the same feed may have given the node another one;
* parser, probe and renderer read one URI with three different readers;
* a create, a delete, a renew and the health loop interleave between any two store
  calls, each holding row objects read earlier and written back whole;
* a pass spends seconds in probes and container calls outside the lock, while the
  tunnel it serves may be deleted;
* the process may die between any two steps: rows, assignments and containers
  survive, the four in-memory sets do not;
* Docker and sing-box fail in the middle of a create or a redeploy, and only some
  failures are rolled back or retried;
* the tenancy service reserves a slot, calls the engine, and must settle the slot
  whatever answer comes back, or none.

What makes each part correct:

* *Assigner, store*: a node serves one tunnel; an assignment has a row; the granted
  count covers the nodes held.
* *Scheduler*: one pass per tunnel; nothing touches a tunnel under construction; a
  dead container is brought back; a failed redeploy is retried; a deleted tunnel stays deleted.
* *Boot*: whatever the crash left behind is reconciled before the API serves.
* *Node pool*: no node is served on no evidence, on the admission of another URI or on a
  failed gate; a feed that never answers or garbles its data does not stop the queue.
* *Probes, renderer*: a certified endpoint really relays, and the tunnel dials it as it was
  probed but for what a feature of the line is known to set apart; the dial memo is bounded
  and forgets.
* *Tenancy*: never more live tunnels than the cap, no lease given up while its tunnel
  may run, a disable that reaches every tunnel in the mapping; no period charged twice,
  a balance the ledger explains, an admin's decision that stands.
* *Host agent, host mode*: the mode answered is the real one, a refused request runs no
  container of its own, a target handed out did answer.
* *Panel*: a viewer never goes back to an older snapshot and sees the newest in the end.

`PROJECT.json` lists every component with its status, and every hazard at its line
with the property that covers it or the reason none does yet.

## 2. Modules

### `TunnelEngine`: assigner, scheduler, controller, store and tunnel routes

The module composes what the engine runs together; splitting it would lose the very
interleavings it is about.

State.  `owner`, `alive`, `row` are the database (`nodes.assigned_to`, the `alive`
predicate of the assigner's query, the `tunnels` table); `cont` is Docker's view of
the tunnel containers (up or not, the nodes its config dials, its port); `lock`,
`strikes`, `rendered`, `busy`, `pending` are the fields of `Engine`; `queue` is what
is left of the list the health loop is walking; `pc[w]` and `loc[w]` are where a
thread stands and the Python locals it carries across the next store call (the
object it will save back, the node set it will assign or dial).  `boot`, `minted`,
`deleted`, `crashes`, `upsets` are the boot phase, the ids used, and history.

Granularity.  One action is one transaction, one container exchange, one probe
round, or one critical section without a store call that matters; a run of reads
with nothing written in between is one action with the write it decides or with the
local it fills.  So `_bump_granted` is `BumpRead` then `BumpSave`, `top_up` is
`TopUpPick` then `TopUpAssign`, `update` is `RollRemove` then `RollRun`.

| Actions | Code |
| --- | --- |
| `CreateRequest` … `CreateCache` | `create_tunnel`, `create_tunnel_config`, `assign_new`, `start` |
| `DeleteRequest`, `DeleteStop`, `ReleaseNodes` … `DropRow`, `ForgetTunnel` | `delete_tunnel`, `release_tunnel`, `forget_tunnel`; the middle four also roll a failed create back |
| `LoadTunnels`, `LoopNext`, `RenewRequest` | `_health_loop`, the renew route |
| `EnterPass` … `LeaveLock`, `ExitPass` | `health_check`, `_run_health_pass`, `_apply_health_verdicts`, `_after_provision` |
| `PlanRoll` … `RollDone`, `SelfHeal`, `SelfHealBlind` | `_redeploy`, `update`, `_self_heal`, `is_running` |
| `PoolVerdict`, `ContainerStops`, `Crash` | the working-set threads, the daemon, the process |
| `BootContainers`, `BootOrphans`, `BootMark` | `Engine.reconcile` |

Abstractions.  A node is a value with one bit, *alive and of a protocol sing-box can
dial*; the ranking of free nodes is any choice of `k` of them, since no property
depends on the order; credentials and the config text are gone (a config is the set
of nodes it dials); a port is free on the host unless a running container holds it
or, by choice, some other program does; ids are never reused (`secrets.token_hex`
collisions are left out).  `stopped` and `stopping` are never assigned in the source, so
they are no values of `row[t].state`.  `auto_renew` is stored but no code of the
scheduler reads it, so it is absent.  SQLite itself does not fail.

Faults.  Docker may fail a call before, in the middle of, or after its effect, with
the exception the engine catches or with another one; `render_config` may reject a
node set; a probe may fail; a container may be stopped from outside; the process may
die.  `MaxUpsets` and `MaxCrashes` bound how often in one run.

### `MCTunnelEngine`

The instance for TLC, with the symmetry of nodes, tunnels, ports and workers (none is
compared or ordered).  Liveness runs do not use it.

### `NodeDial`: one feed line on its way into a tunnel

State.  `stage` says how far the line came; `line`, `peer`, `alive`, `rate` and `out` are
the line, the machine behind its endpoint, the probe's verdict, the measured download, and
the outbound that `_outbound_from_node` wrote.

| Actions | Code |
| --- | --- |
| `Parse` (`Parses`, `Protocol`, `ServerOf`) | `parse_feed` and the per-scheme parsers of `scraper/parse.py` |
| `Dismiss`, `Dial` (`Probeable`, `ProbeTls`, `ProbedAs`) | `probeable` and the dial of `filter/probe.py` |
| `Handshake` (`Answers`, `Judge`), `Measure` | the SOCKS, HTTP, trojan, VLESS and Shadowsocks handshakes; the measured download |
| `Admit` | `_admit_batch` of `pool.py` |
| `Render` (`Renders`, `Outbound` with `RenderTls`, `RenderReality` and the like) | `_outbound_from_node` and `render_config` of `tunnel/config.py` |

Abstractions.  A URI is the set of features one of its three readers branches on: the
scheme, whether the authority names a user and a port and how they are spelled, transport,
security, SNI, how the payload of `ss`, `ssr` and `vmess` is encoded, and the `options` among
`allowInsecure`, ALPN or fingerprint (`hello`), REALITY key (`pbk`) and `flow`.  An outbound is a
record of what sing-box will do about each, and `ProbedAs` says the same of the probe, so
that `DialsAsProbed` compares them field by field.  `Render` is a tunnel with this node only;
a URI that was replaced after it was certified, for which `render_config` can raise, is
`NodePool`'s matter (`GateIsTight`, `StraysAreSwept`).
Each reader is a `CASE` whose arms exclude one another, in the order in which the code tests.  A peer is what it is (relays, or not) and what it
answers at each layer: TLS, a greeting, an echo, a canned HTTP 200, silence.  Bytes of the
handshakes and cryptography are out.

### `DialMemo`, `MCNodeDial`

`_dial` of `probe.py` with the two locked sections it consists of and the dial between
them; `memo` is the ordered dictionary.  `MCNodeDial` runs `NodeDial` and `DialMemo` side
by side: one moves while the other waits in its first state, so the state spaces add up.

### `NodePool`: rows of nodes and the workers that write them

State.  `row` is the `nodes` table; `due` and `refreshing` are the sources' cadence and
`_refreshing`; `job[w]` is what a worker (source loop, working-set loop, health passes, a
manual refresh) carries between two transactions: its plan and the batch in flight.
Three history fields say what the program does not remember: that a verdict was about
another URI than the row has (`misjudged`), that the row became alive through the gate
(`gated`), and that a batch entry is out of date (`stale`).

| Actions | Code |
| --- | --- |
| `LoopWake`, `LoopNext`, `Request`, `Tick` | the source loop, `request_source_refresh`, the cadence |
| `LoadAlive`, `Sweep` | `demote_unrenderable` |
| `Fetch`, `FetchNothing`, `FetchRaises` | the fetch, `parse_feed`, `upsert_candidates`; with `Leave` for the way out, also by an exception |
| `Select`, `Certify`, `Admit`, `RecordFetch` | `_probe_new`, the batch probe, `_admit_batch` with `apply_probe_results`, the record of the fetch |
| `LoadWorkingSet`, `LoadAssigned`, `Reprobe`, `Apply` | `_working_set_pass` and the probes of health passes |
| `Assign`, `Release` | what the assigner and the engine do to a row (`TunnelEngine`) |

A feed changes one row at a time, since rows are independent; several such steps may follow
each other before the refresh goes on.  One batch stands for the batches of a refresh.
The counter window may expire at any verdict.  `MCNodePool` names its two URIs.
The measured download is always required (`throughput_enabled`); `NodeDial` has the switch.
`TunnelEngine` sees of all this only that `alive` flips at any time (`PoolVerdict`).

### `LeaseLedger`: what the tenancy service promises about leases

Without requests, tables or failures: an attempt to create a tunnel is *counted* against
its tenant's cap before the engine hears of it, and stays counted for as long as it has,
or may still get, a tunnel.

### `LeaseControl`: the tenancy service's tunnel routes

State.  `state`, `links`, `slot` are the columns of `tenancy.db` that matter
(`tenants.state`, `tenant_tunnels`, `tunnel_reservations` with or without a
`tunnel_id`); `owner` says for which tenant an attempt was reserved, `row` where the
attempt stands at the engine, `late` which tunnels have a DELETE under way that its
caller no longer waits for; `pc` and `loc` are a Flask thread's position and locals.
`undone` records the clean-ups that were seen to fail, `crashes` the process deaths.
An attempt is one POST: its reservation id and the tunnel id the engine mints for it are
one value, since the code makes each once and never for anything else.

Granularity.  One action is one store method (one transaction under `_lock`) or one
engine call.  An engine call is never atomic for its caller: the POST is sent, the engine
works, and the answer, an error, or nothing comes back at any time.

| Actions | Code |
| --- | --- |
| `Enter`, `ReadScope`, `ListEngine`, `Prune` | `auth_tenant`, `tunnels_for_tenant` |
| `Reserve`, `SendCreate`, `CreateAnswered`, `CreateUncertain`, `CreateRejected` | `create_tenant_tunnel` up to the engine's answer |
| `Note`, `Complete`, `Undo`, `Unlink`, `Compensate`, `Finally` | its success path, its `except` and `finally` clauses |
| `DeleteTunnel`, `Unlink` | `delete_tenant_tunnel` |
| `Disable`, `ReadMapping`, `Sweep`, `Strike` | `admin_disable` |
| `EngineRefuses` … `EngineDeletesLate`, `HostDeletes` | `create_tunnel`, `delete_tunnel` of the engine's API |
| `EngineWritesBack` | a health pass that saves a row a DELETE has removed (see `DeleteIsFinal` of `TunnelEngine`) |
| `Crash` | the tenancy process |

Abstractions.  The engine is what its API and `TunnelEngine` allow: a refusal without a
row, a row rolled back, a row that gets a container, a deletion, and a deleted row
written back.  A tunnel written back (`"back"`) is no longer one the tenancy service was
told about, so `CapHolds` does not count it; it is listed, can be deleted again and is
pruned like any other.  A deletion by the host while `POST` is still building is undone by
the `save_tunnel` that ends the POST, so it changes nothing here.  Credits
are in `TenantCredit`: here a create may find the balance too low at `Reserve`
at any time.  Renew and the reads change no lease and end after the listing.  A key rotation
changes nothing a request under way reads again.  `sqlite3.Error` may strike every write;
one that nothing catches ends the handler.

### `MCLeaseControl`

The instance for TLC, symmetric in tenants, attempts and threads.

### `TenantCredit`: accounts and credits

State.  `row` and `ledger` are the two tables; `call[w]` is where a request stands and the
whole row object or clock reading it carries into its next transaction.  `audit` is
history: what was booked in the ledger, also by entries since pruned, and which sign-ups
were disturbed.

| Actions | Code |
| --- | --- |
| `Count` or `AdminCreate`, `Save`, `GrantStarting`, `Record`, `Prune` | `register`, `admin_create`, `grant_starting` |
| `Lookup`, `Drain`, `Recheck` | `auth_tenant`, `TenantsStore.drain` |
| `Grant`, `Rotate`, `Disable` | the admin's routes |
| `Break` | an sqlite error in one thread, or the death of the process |

A tenant's key is a number that a rotation increases.  `MCTenantCredit` is the instance.  Leases and requests that change no balance are
`LeaseControl`'s.

### `HostAgent`, `HostPick`, `PanelStream`, `MCEdges`

`HostAgent` is the privileged agent: `box` is the TUN container as docker has it, `desktop`
what the session really uses, `tun` and `proxy` what the agent believes, `held` the lock.
Every docker call can fail before or after its effect, with the exception the code expects
or another; the agent may restart.  `containers.create` is two requests of the SDK, so an
API error of it, too, may come after the container is there (`FailsAsCarriedOut`).  `HostPick` is `engine/host.py`: a pass that measures
tunnels one by one while they come and go, publishes its pick in three assignments, and is
read in three looks.  `PanelStream` is the panel: one crawl at a time, a condition with the
newest board, a bounded history, and event streams.

`MCEdges` checks them side by side.  `focus` says which one moves; TUN mode and desktop
proxy of the agent are two foci, as they meet only where saving the proxy waits for the
lock.  (An earlier form was checked with both together: 1.5 million states, no error.)

### `Subsequences`

`Picked`, a sequence at a set of its positions: what a `DELETE` leaves of a table in rowid
order, or a dictionary or deque after entries were dropped.  `DialMemo`, `PanelStream` and
`TenantCredit` use it.

### Proof modules

`TunnelEngineProofs`, `LeaseControlProofs`, `LeaseDisableProofs`, `NodePoolProofs`,
`TenantCreditProofs`, `DialProofs` (`NodeDial` and `DialMemo`), `EdgeProofs` (`HostAgent`,
`HostPick`, `PanelStream`) and `SubsequenceProofs` hold the theorems of section 4.

## 3. Runs

Deadlock is checked in the lease runs.  The others switch it off: once every id is minted
and the budgets of crashes, failures, feeds or time are used up, a bounded instance may
rightly stop.

| Run | Instance | Question |
| --- | --- | --- |
| `engine_pool` | 2 nodes, 2 tunnels, 2 ports, 1 client, 1 upset | Do types hold, and does the granted count of a tunnel at rest cover its nodes and stay within the request, whatever updates were lost? |
| `engine_clients` | 1 node, 1 tunnel, 2 clients, 1 crash | Is there one pass per tunnel, does the creator work alone, and is the state clean whenever the API opens? |
| `engine_live` | 1 node, 1 tunnel, 1 crash, 1 upset, fairness | Does a live tunnel get a running container again, and is a failed redeploy retried until it succeeds? |
| `engine_exclusive` | 1 node, 2 tunnels | **Violated.** Two running configs dial one node. |
| `engine_delete` | 1 node, 1 tunnel, 2 clients | **Violated.** A `POST` still waiting for its container starts it after `DELETE` was answered. |
| `lease_service` | 1 tenant, 3 attempts, 2 threads, cap 2, 1 crash | Do types hold, is the cap kept, is every step a ledger step, and does a disable reach every tunnel in the mapping, whoever races it? |
| `lease_reject` | 1 tenant, 2 attempts, 1 thread, cap 1 | **Violated.** A create the engine definitely rejected keeps its slot. |
| `node_pool` | 2 nodes, a URI that renders and one that does not, 1 source, 1 manual slot, 2 new URIs, 1 garbled feed, fairness | Is no node alive without evidence or past the gate, do the marks match the workers, and is every row probed and every stray swept in the end? |
| `pool_stale` | the same, one rate | **Violated.** A verdict about a node's old URI lands on its new one. |
| `node_dial` | every scheme; the memo with 2 threads, 3 endpoints, cap 2 | Does a certified peer relay, does the tunnel dial as was probed but for the named fields, is the row's endpoint the one dialled; is the memo bounded and its refusals recent? |
| `tenant_credit` | 3 tenant ids, 2 threads, `max_tenants` 1, interval 2, 1 kept entry, clock to 4, 1 admin operation, 1 fault | Is the balance what was booked, no period charged twice, the number of seats bounded, the ledger pruned, and does an admin's decision stand? |
| `edges` | 2 threads each, 2 tunnels, 2 streams, 2 failures | Is the mode answered the real one, does a refused switch run nothing of its own, is the pick shown current, the target one that answered; does a stream never go back and reach the newest board? |

In `engine_delete` the row is visible as `starting` from `assigner.py:166` on, so a `DELETE`
finds it and is answered 204 before the `POST` reaches `controller.start` (`app.py:280`); the next statement
saves the row back as `running`.  The same property fails with one client, through a
redeploy `_self_heal` planned before the `DELETE` (`scheduler.py:318`): one race is shown, and
both need a look at the row under a lock that `DELETE` takes as well.

The violated ones are statements of the repository's own documents or comments, quoted
under `findings`; each counterexample is a behaviour of the code as written.

Why the bounds suffice.  The conflicts are between two threads over one tunnel or two
tunnels over one node, so one client beside the health loop (two clients where two
requests must meet) and one or two tunnels reach them; two nodes let a swap and a
top-up differ.  `MaxMisses = 1` makes every failed probe a swap, `MaxMisses = 2` keeps a
strike across passes.  One upset is one failure at every place it can strike; with one
crash, which forgets the signatures, it lets the redeploy that follows fail and be retried.

`node_pool` needs two rows for one to wait behind the other under a budget of one, a second
worker beside the source loop, and two changes of URI: one before and one during a batch;
one verdict per counter window makes the fold happen.  Rates below and above the floor
let the gate refuse.  `node_dial` takes one line at a time, since lines do not meet, and all
combinations of what its readers look at; three endpoints over a cap of two make the memo
evict.  `tenant_credit` has more ids than seats; its clock passes two intervals, so a
period may be charged twice, and the lag of one lets a reading be older than another's
transaction.  In `edges` two failures let an undo fail as well.

The lease runs have one tenant: tenants share nothing but the engine, and every store
method is keyed by the tenant.  Three attempts over a cap of two let one slot be given up
and taken again while another is uncertain; two threads let a create meet another create,
a delete, a listing or a disable, and the proofs of section 4 lift the bound.  One crash is enough, since it forgets all threads.
They do not deadlock: `Enter` is open only while a tenant is active, but an admin may
always repeat a disable.

Fairness (`Fairness` of `TunnelEngine`; `LeaseControl` has only safety properties and
assumes none).  Threads keep running (weak fairness of each thread's step, of
the loop and of boot).  `threading.Lock` gives no order among waiters, but a waiter that
finds it free again and again gets it (strong fairness of the four steps that wait for it).
A tunnel's redeploy does not fail every single time it is tried (strong fairness of its
four successful steps): `restart: always`, an endless health loop and a bounded number
of upsets are what this rests on.  Nothing is assumed of clients.
`PoolFairSpec`: the source loop is an endless thread whose fetches and probes time out, and
a source's cadence passes; that feeds answer, that a manual refresh gets on, or that anyone asks for a refresh, is not assumed.  `PanelFairness`: the poll thread catches what a crawl
raises and goes on, HTTP reads of the engine time out, and an open stream sends what is
due; that anyone watches is not assumed.

Each property of a passing run has a mutant: a *Fault* operator in the module, next to
the definition it replaces, that a plausible mistake in that code would produce.

Behaviours met while modelling that the models contain, but that no run is spent on:

* a container is adopted at boot by its name alone, whatever config it runs; the loser of a
  race for a port raises after taking nodes, which stay taken until the next boot; a lost
  connection to Docker in `POST` leaves a row `starting` that nobody creates; `POST` writes
  its signature outside the lock, so a redeploy back to it may be skipped as unchanged;
* the first failed probe marks a node dead in the pool, where `docs/scraping.md:170` says
  two consecutive ones do; only the swap out of a tunnel waits for `max_misses`;
* a bare `host:port` line is certified by nobody and never renders; a server name in
  brackets, behind a second `@` or with a slash in its port never dials; a peer that
  answers 200 to anything passes as an HTTP or trojan relay;
* what the probe certified the tunnel may dial otherwise (`ReadersPart`): a VLESS line with an
  `sni` and no `security` is probed over TLS and rendered without; the `serverName` spelling is
  read by the renderer alone; sing-box verifies the certificate unless `allowInsecure` is set
  (`config.py:212-214`) while the probe never does (`probe.py:270-272`), so a certified server
  with a self-signed certificate carries no traffic; REALITY, uTLS and ALPN, the VLESS
  `flow`, and the credentials of `http` and `socks5` lines are rendered and never probed;
* an API error of `containers.create` that comes after the agent's TUN container was made leaves it
  behind, never started: every later enable is refused with 502 for the name that is taken, until a disable
  removes it (`RefusalIsUndone` names that one case);
* a `vmess` payload that is JSON but no object raises out of `parse_feed` and ends that
  refresh;
* a sign-up saves its row a second time after the starting grant, from the object built
  before it: a key rotation, disable or grant that slipped in between is undone
  (`docs/api.md:443` says the old key "becomes 401 immediately").  `AdminStands` and
  `BalanceIsBooked` except exactly that window.  A crash between the two saves
  leaves `credited_s` NULL, and such an account is never metered.

## 4. Proofs

Every safety invariant and action property of the passing runs is a theorem.  The proofs
have one form: the types of the state and, with them, an inductive invariant; one lemma per
action; the property as a consequence.  TLC finds each inductive
invariant true of the instance of its run (`GrantInv` see below).  The constants are arbitrary but for the named `ASSUME` of
each module: the bounds on clocks, faults, crashes and requests are any numbers.

### The engine: `TunnelEngineProofs`

For every finite set of nodes and every number of tunnels,
ports, threads, crashes and upsets, from `EngineAssumption` and `NoneIsNoRow` alone
(the pool is finite, `max_misses` positive, a request asks for at least one node, the loop
is no request thread, NULL is no id and no row):

* `TypeCorrect`: `Spec => []TypeOK`.  `TypeOK` is not inductive: a step reads the locals
  an earlier one left.  `CallInv` adds what a thread's call, position, id and row object
  have to do with each other, `MintInv` that ids are minted before they are used.
  There is one lemma per action, over the frame lemmas `GotoStep`, `Move` and `Stop`.
* `OnePassPerTunnel`: `Spec => []SingleFlight`, with `FlightInv`: a thread between entering
  and leaving a pass has its tunnel in `busy`, or that tunnel has been deleted; and two
  such threads share a tunnel only if it has been deleted.
* `CreatorWorksAlone`: `Spec => []CreatorAlone`, with `CreatorInv`: while `POST` builds a
  tunnel, its row can only say `starting`, so every renew that picks it up and every list
  the health loop loads carries that state, so `_run_health_pass` returns at once; the only
  other writers are deletes, and the row they write back says `starting` too.  The name is
  free because ids are fresh and nobody else rolls a container for it.
* `BootReconciles`: `Spec => BootClean`, with `MarkInv` about the state between the second
  and the third step of `reconcile`.

* `GrantsCover`: `Spec => []GrantCoversOwned`.  A create, a pass and a `DELETE` count nodes
  in turn, each through a row it read some store calls earlier, and `GrantCoversOwned`
  looks at the tunnel only when nobody works on it.  `GrantInv` says what holds in between:
  - `CountInv`: every tunnel is `Sound` that is not `Doomed`, that is, deleted or in the
    hands of a `DELETE` past its point of no return.  A sound row covers its nodes unless a
    pass has assigned some that the row does not count yet, and each thread at the tunnel
    `Fits`: after `SwapOut` there is one node fewer than the row says until `DropSave`
    writes it; between `TopUpAssign` and `AddSave` the row and the nodes in hand together
    cover what the tunnel owns and stay within the request; what `POST` picked is what its row
    grants.
  - `FreshInv`: only a tunnel that was not `starting` when it was handed to a pass (`stale`
    is false) is worked on, and its row, once past `starting`, stays until a `DELETE`.
  - `PortsDiffer`, since `AddSave` could lose its count to the UNIQUE constraint of the
    port; `OwnMinted`, since a fresh id owns nothing.

  That no two threads count at once is `FlightInv` and `CreatorInv`: the lemmas build on
  those of the theorems above.  A crash ends the claim (`crashes = 0`): a process that dies
  between `TopUpAssign` and `AddSave` leaves a row that counts too few, which no code corrects.

`TypeOK`, `CallInv`, `FlightInv`, `CreatorInv` and `MarkInv` were checked on
`engine_clients` with a crash and an upset added, `GrantInv` on all of `engine_pool` and,
to depth 50 and more, with a second request thread and with a third node.

### Leases: `LeaseControlProofs`, `LeaseDisableProofs`

For every set of tenants and threads,
every finite set of attempts, every cap and any number of crashes (`LeaseAssumption`):

* `LeaseTyped`, `CapRespected`: `Spec => []TypeOK`, `Spec => []CapHolds`.  `CapHolds` speaks
  of the engine, the code of tables, so the invariant `LeaseInv` joins them: what runs or
  may still come has an ownership row or a reservation (`LiveCounted`); both together stay
  within the cap (`WithinCap`), because only `Reserve` adds to them and it counts both;
  two creates never share an attempt (`OwnAttempt`); and each step knows what the engine's
  answer it acts on was worth (`AllFit`): at `finally` with `release_slot`, the reservation
  is gone or the engine's work is over; a tunnel about to be unlinked is gone.  Engine
  rows only advance (`Later`), so what one thread knows of a row survives the others' steps
  (`FitsOn`, `Move`).  One lemma per action.
* `ControlImplementsLedger`: `Spec => Ledger!Spec`, step by step from the same invariant.
* `DisableIsThorough`: `Spec => []DisableReachesAll`.  The invariant `Swept` says that a
  running, linked tunnel of a disabled tenant is in `undone` or is some thread's business:
  a disable that has not read the mapping yet, one that has the tunnel on its list, or a
  create about to undo itself.  `Go` reduces a step to what its own thread leaves behind.

`LeaseInv` and `Swept` were checked by TLC on the instances above before they were proved.

### The pool: `NodePoolProofs`

For every finite set of nodes, all sets of URIs, sources and manual slots, all rates, floors
and budgets (`PoolAssumption`; node ids are numbers, since the plans order by them):
`PoolTypesHold`, `UntestedStaysClean`, `GateStaysTight`, `MarksHold`.  A verdict is written to
a row that may have got another URI since it was measured, so nothing about rows is
inductive by itself.  `PoolInv` adds `AllBacked`: an entry of a batch that is not `stale`
speaks of the URI its row has now, and if it is a full verdict that stayed alive, that URI
renders, certifies and reached the floor; every action that changes a URI marks the
entries of all batches.  `Marked` is stronger than `MarksMatchWorkers`: it also says
that two manual workers never have one source.

### Credits: `TenantCreditProofs`

For every finite set of tenants and threads, any interval, cap, ledger length and starting
credits (`CreditAssumption`): `CreditTyped`, `BalanceHolds`, `ChargesHold`, `SeatsHold`,
`LedgerHolds`, `AdminHolds`.  `CreditInv` has eight parts.  `Books` gives the balance and the
meter at every step of an undisturbed sign-up: they are settled only when it is over, and a
starting grant is in the balance one transaction before it is in the ledger.  `OneSignUp`
and `Informed` tie a step to its tenant, `NoneAhead` keeps every time within the
clock, which makes the number of whole periods a drain charges a natural number
whatever reading it was given.  `SeatsLeft` counts seats not saved yet: a thread that
counted may be followed by all others before it saves, hence the threads but one above the cap.
`Lengths` needs that what `prune_ledger` keeps is bounded: `KeptIsBounded`, where entries with
equal times are told apart by rowid.

### Probing and rendering: `DialProofs`

`NodeDial`, for every set of schemes, transports, ports, rates and any floor, gate on or off:
`DialTypesHold`, `AdmissionCertifies`, `ServedAsProbed`,
`RowsNameEndpoints`.  `DialInv` says what each stage has established of a line; the work is
in the lemmas about the readers: what the prober accepts has a protocol (`ProbedProtocol`), and
a field of the outbound equals that of the dial unless the line has the feature that
`ReadersPart` names for it (`DialledAsProbed`, one case per field).
An earlier form of the readers had `CASE` arms that overlapped, for which TLC takes the first
and the logic either: the proof failed there, and the arms were made disjoint.

`DialMemo`, for every number of threads and endpoints, any TTL and cap (`MemoAssumption`):
`MemoStaysBounded`, `RefusalsAreRecent`.  `MemoInv` adds that an endpoint has one entry
(`Distinct`) and that an entry, or a thread about to write one, stands for a dial that
failed and had not begun before the time it carries (`Vouched`, `Failing`).

### Host mode and panel: `EdgeProofs`

* `HostAgent`, any number of handlers, failures and restarts: `AgentTypesHold`, `TunAckIsKept`,
  `RefusalsAreUndone`, `ProxyTellsTrue`.  `TunInv` says what container a switch finds at each
  of its steps; the lock makes it local to one thread.  `RefusalsAreUndone` says of a 502 that
  the container is the one found or none, but for a create that failed once it was done
  (the answer keeps the step it was given at); even that one was never started.  The proxy routes take no such lock:
  `ProxyInv` holds while no two requests overlapped.
* `HostPick`, any number of callers: `ShownIsCurrent`, `TargetsAnswered`.  `PickInv` says that
  between two publications the pick is among the tunnels it was signed for, and that
  a look no publication disturbed still sees what it compared.
* `PanelStream`, any number of viewers and crawlers: `PanelTypesHold`, `BoardGoesOn`.
  `PanelInv` says that a crawl in flight read no state older than the board (`Crawled`), no
  stream is ahead of the board (`Behind`), and the history is in order and in its window.

### Sequences: `SubsequenceProofs`

`PickedProperties` and `NthGrows` say what `Picked` returns: its length, that its elements are
those at the chosen positions, and that they keep their order.  Ranks are numbers of smaller positions,
so this follows from the theorems on cardinalities, without induction.

### Only model-checked

The five liveness properties (`HealServes`, `PendingIsRetried`, `QueueDrains`,
`StraysAreSwept`, `WatchedIsFresh`): fairness needs ENABLED, which the prover does not have.
The four violated statements are no theorems: TLC's counterexamples refute them.

## 5. Not modelled, and the plan

Next to state and prove: what the engine promises about nodes and tunnels as a
specification of its own (a tunnel holds a set of nodes within its request; it is created,
mended and deleted), with `TunnelEngine` shown to implement it; the same for the pool
(`alive` only by a verdict of the gate or of a probe).  Then the exclusion that does hold
in the database, and how far a running config may lag behind it (`engine_exclusive` shows that
it may).

Not modelled: stability tiers, percentile score and ranking (pure formulas over floats; the models let any
eligible node be chosen); the status cache of the engine API, whose readers see a status
at most one TTL old; the 24 h event counters and counting queries, which only report;
schema migration; decoding of HTTP, HTML, base64 and JSON, and the bytes and cryptography
of the handshakes (their outcomes are modelled); environment parsing and entry points; the
browser front end and documentation viewer; the demo builder and the bench scripts.
