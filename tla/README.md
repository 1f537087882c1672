# FastVIP: TLA+ models, model checks and proofs

FastVIP is a daemon that keeps the Linux kernel's IPVS table, and for full-NAT
services two iptables chains, in line with a configuration file and with the
health of the backends. This directory holds TLA+ models of the parts that
carry that promise, TLC configurations that check them on small instances, and
TLAPS proofs of the safety properties for every size. Paths below are relative
to the repository's root.

## 1. The system

| Component | State | Operations | Correct when |
|---|---|---|---|
| `lvs.Reconciler` (`pkg/lvs/reconciler.go`, `types.go`, `manager.go`) | `r.managed`, behind `r.mu`; the kernel's IPVS table | `Reconcile(list)`, `Cleanup()` | nil means the kernel is in sync; nothing it created is forgotten; foreign services are not touched |
| SNAT manager (`pkg/snat/manager_linux.go`) | `managed`, `managedForward`; the chains `EZLB-SNAT`, `EZLB-FORWARD` | `NewManager`, `Reconcile`, `ReconcileForward`, `Cleanup` | the chain has the desired rules and no others |
| `config.Manager` (`pkg/config/config.go`) | `current`, channel `onChange` (1 element) | `Load`, `Validate`, `Reload`, `WatchConfig` | the last valid file becomes current and is noticed |
| `healthcheck.Manager` (`pkg/healthcheck/manager.go`) | `statuses`, `services`, one goroutine per backend | `UpdateTargets`, `handleCheckResult`, `Stop`, `IsHealthy` | every tracked backend is probed; a change calls back |
| `server.Server` (`pkg/server/server.go`) | none of its own | `Run`, `triggerReconcile`, `shutdown`, `RunOnce` | the kernel follows configuration and health; exit leaves nothing |
| `trafficlog.Collector` (`pkg/trafficlog/collector.go`) | previous counters, absence counts | poll, `UpdateConfig` | Prometheus counters grow by the traffic there was |
| HTTP proxy (`pkg/http`: `selector.go`, `handler.go`, `proxy.go`, `transport.go`, `pool.go`) | the round robin's next backend, idle connections | `nextBackend`, `RoundTrip`, `connBody.Close`, `get`, `put`, `discard`, `cleanup` | connections are neither leaked nor shared; a response goes to its request |
| `http.Manager` (`pkg/http/manager.go`) | services, servers | start, stop | started once, before the event loop |
| admin server, metrics, kernel parameter check, CLI, logging | - | I/O | - |

How they interact. `Run` is one goroutine: it registers the health targets,
reconciles, starts the file watcher and then waits for a configuration change
or the end. The watcher and each `POST /reload` call `Reload` in goroutines of
their own; they store the configuration and put a token in `onChange`. Each
backend's check goroutine calls `triggerReconcile` itself when the status
changes. So `Reconcile` is called by many goroutines; `r.mu` serialises them,
but the configuration is read before the mutex and the health, one backend at a
time, under it while it may change. The kernel and the chains survive the
process, the maps that say what belongs to it do not.

The HTTP proxy stands apart: its services are started once and learn of neither
reloads nor verdicts. A service's handler goroutines and its cleaner share
one pool of idle connections.

What is hard: these interleavings; kernel and iptables calls that fail one by
one in the middle of a pass; restart on what an earlier process left; an
administrator who uses `ipvsadm` at the same time; counters that wrap, vanish
and come back; cancelled check goroutines whose results come late; pooled
connections that the backend closes at any time. `PROJECT.json` lists each such hazard with its line.

## 2. Modules

| Module | Models | Steps |
|---|---|---|
| `SnatChain` | one chain and its map | one action per manager operation; a `Reconcile` is one step (it holds the mutex and nobody else writes the chain) with any set of failing calls |
| `Reconciler` | `Reconcile` and `Cleanup` on the IPVS table | one action per kernel call |
| `KernelSync` | what the reconciler promises of the table, abstractly | begin, a change of one service towards the goal, finish |
| `Server` | the goroutines, `config.Manager`, the health of one service, `r.mu` | one action per access to shared state |
| `HealthCheck` | `healthcheck.Manager` with several services and thresholds | one action per call that holds `m.mu`, one per probe |
| `HttpProxy` | one HTTP service: handler, transport, pool | one action per connection operation or section under `pool.mu` |
| `TrafficCollector` | polls of one counter per key | snapshot and update are two steps, the kernel moves between them |
| `MC*` | values for the constants | |
| `*Proofs` | theorems about the module of that name; `SyncProofs` and `NatProofs` about `Reconciler` | |

**SnatChain.** `rules` is the chain, `managed` the Go map. `ManagedAfter` is
what a pass makes of a key's entry, given which calls succeed. The histories
`leftover` (rules in the chain when the map became empty: found at start, or
not cleared by a `Cleanup`) and `half` (deleted, then not added) name the two
ways the map and the chain part. `EZLB-FORWARD` is the instance with a
single target.

**Reconciler.** `ipvs` is the kernel's table, from the in-memory handle
`ipvs_handle_fake.go`, which refuses what the kernel refuses. The locals of the
pass are variables; `pc` is where it stands. A configuration entry has a key, a
scheduler, a weight per backend, whether it is checked, whether it converts,
and its full-NAT target. Addresses are model values; `Canon` maps the spelling
in the file to the one `net.IP.String()` gives, and is not the identity
where the two differ. Histories: `ours` (services this process created and
that still exist), `configured`, `disturbed`, `faulted`, `flipped`.

**KernelSync.** The abstract specification of `Reconcile` and `Cleanup`. A pass
has a goal; its steps change one service each, and only `Towards` the goal, so
that nothing desired is taken away on the way, not even for a moment; a pass that
reports success undisturbed has reached the goal and left nothing else of its
own. `Reconciler!Sync` is the refinement mapping: `table` is `ipvs`, `goal` what
`buildDesiredState` returned (the empty table for `Cleanup`), `busy` that `pc` is
inside a pass.

**Server.** A configuration is the backend set of one checked full-NAT service;
a file that `Load` rejects is `BadFile`. `Reload` is three steps
(load, store, notify), a pass is: wait for the mutex, read each health, program
IPVS, read each health again, program SNAT. A worker is a `runCheck` goroutine;
a cancelled one stays until it sees its context. A pass ends before its first
call (`AbortPass`: the list does not convert, or the table cannot be read) or
goes on to SNAT although a call failed; either way nothing is known of the
kernel until a pass succeeds (`UnknownKernel`). The content of the diff is in
`Reconciler`. `cleanup_on_exit` has its default, true.

**HealthCheck.** `statuses` and `cancel` are `m.statuses`, keyed by address across
services, and `services` is `m.services`. `check` holds what a `runCheck` goroutine
was started with and keeps. The loop of `UpdateTargets` is stated by its result:
`DeletedAt` is the last place in the list where the status of a backend is
deleted, `Starters` the services after it that start the check again. The
consecutive counts stop at `MaxCount`, above which no threshold tells them
apart. A TCP or HTTP check finds out whether the backend is alive; a UDP check
always passes (`CheckPasses`). Histories: `off` (services that the latest
`UpdateTargets` switched off), `suspect` (addresses that were dead, or got a
cancelled goroutine's failure, since their check began or its goroutine last
reported a success that left them up).

**HttpProxy.** `link` is what is on an open connection: requests the backend has
to answer, responses nobody has read, the rest of a body. The backend is external:
it answers in order, may send an interim response first or something that
cannot be parsed, and may close at any time. What it would send unasked on an
idle connection is not in the model. `maxIdle` never changes; a behaviour
begins with any of `MaxIdles`. `idle` is the pool, `old` the connections past their idle timeout,
`expired` the cleaner's local between the mutex and the `Close` calls. A response is
the name of its request; one that outlives it is `Stale`. `Only` is the loop of
`cleanup` over one backend's list, as a recursive function.

**TrafficCollector.** `count` is the kernel's counter modulo `Width`; a removed
destination keeps it in the trash until it is destroyed, as the comment in
`updateMetrics` describes. `total` is the traffic there really was.

## 3. Runs

| Run | Question | Result |
|---|---|---|
| `snat_chain` | do map and chain stay related, whatever calls fail? | holds |
| `snat_sentence` | after a pass without a failing call, is at least one half of "Rules not in the desired set are removed; missing rules are added" true? | violated: findings 1 and 2 |
| `reconciler` | is nil honest, is nothing forgotten, is nothing foreign touched, is Cleanup complete, do the two walks (IPVS, SNAT) agree, is every kernel call a step of `KernelSync`? | holds |
| `spelling` | does the diff trip over itself when an address is spelled as the kernel does not print it? | violated: finding 3 |
| `server` | does the kernel follow the health, does the channel lose a configuration, does the watcher keep `current` on the file; does a dead backend leave the kernel, is an edit reconciled, in the end? | holds (the last two under fairness) |
| `server_reload` | the same about `current` with `POST /reload` as a second reloader | violated: finding 4 |
| `server_stale` | is the kernel in sync once nothing is under way? | violated: finding 5 |
| `server_exit` | does exit leave nothing? | violated: finding 6 |
| `traffic` | are counters ever too large, is traffic missed, is a removed key forgotten? | holds (the last under fairness) |
| `health` | does every status have one live goroutine, does a backend that answers stay up, does a bad verdict survive reloads, does the verdict settle? | holds (the last under fairness) |
| `health_sync` | after `UpdateTargets`, is what must be checked checked, or what must be healthy healthy? | violated: findings 7 and 8 |
| `http` | has a connection one owner, a request its own response; are stale connections not blamed, bodies sent once, idle connections reaped, requests ended? | holds (the last two under fairness) |

`snat_sentence` and `health_sync` check a disjunction: each half is what a comment
says, and a state in which both are false refutes both. What is true in place of
the two sentences is checked by `snat_chain` and `health` and proved.

Deadlock is checked except in the `server` runs, where the process may exit.
`reconciler` is the largest (943,372 states, a minute and a half on two
workers); `http` (212,368), `health` (118,508) and `server` (116,656) take about
two minutes each, for liveness.
Each property of a passing run has a mutant in `PROJECT.json`: a plausible slip in
the code, as an operator beside the definition it replaces, that violates it.

### Findings

1. A replaced SNAT rule whose insertion fails stays in `m.managed`; changing
   `snat_ip` back never adds it (`pkg/snat/manager_linux.go:152`).
2. SNAT rules that the map does not hold are never removed: those an earlier
   process left in the chain, and those a failed `Cleanup` left
   (`pkg/snat/manager_linux.go:43`).
3. A listen address that is not spelled as the kernel prints it is created again
   by every pass, which fails (`pkg/lvs/types.go:93`); `Cleanup` forgets such a
   service and returns nil (`pkg/lvs/reconciler.go:162`).
4. Two concurrent `Reload`s can store the older file last
   (`pkg/config/config.go:493`).
5. A health callback that read the configuration before a reload can write the
   old one to the kernel after it (`pkg/server/server.go:167`).
6. `shutdown` does not wait for a callback, whose pass may follow `Cleanup` and
   leave IPVS services (`pkg/server/server.go:266`). SNAT rules are not left: the
   chain is deleted by then, or will be.
7. A backend that moves from an enabled service to one whose check is off stays
   checked and can be reported unhealthy (`pkg/healthcheck/manager.go:90`).
8. A service that turns its check off deletes the status of a backend it shares;
   a service earlier in the list whose check is on then has it unchecked, and
   reported healthy, until the next reload (`pkg/healthcheck/manager.go:83`).

Two more disagreements with a sentence of the repository have no run of their
own; they are exceptions that a passing property makes, and without the
exception that property fails.

- An edit between the first load and `WatchConfig` is not loaded before the next
  one (`missed` in `CurrentIsFile`, `pkg/server/server.go:121`), although
  `README.md:12` says that "File changes automatically trigger reconciliation".
- `http.ReadResponse` takes an interim response for the final one, so that the
  final one is the next request's on that connection (`interim` in
  `ResponseIsOwn`, `pkg/http/transport.go:161`), although line 78 says that
  `RoundTrip` returns "a Response for the provided Request".

The following are exceptions too, which contradict no sentence that we found.

- After a pass that failed nothing is claimed of the kernel until the next one
  that succeeds (`kernel.ok` in `KernelFollowsHealth` and `DownLeavesKernel`):
  nothing retries it.
- The late failure of a cancelled goroutine is credited to the check that
  replaced it (`suspect` in `AliveStaysUp`); it can take down a backend that
  answers, until that check's next success.
- A UDP check cannot find a backend dead (`Probed` in `VerdictSettles`,
  `pkg/healthcheck/checker.go:62`).
- A request with a body that meets a stale connection is answered 502, as its body
  is spent; one without a body may reach the backend twice
  (`StaleIsNotBlamed`, `UploadedOnce`, `pkg/http/transport.go:114`).
- Once somebody else has changed the table during a pass (`disturbed`),
  `KernelSync` asks little of the rest of that pass: a call may then be matched
  by an interference. `OursIsManaged` and `OthersUntouched` are not relaxed.
- `NatCoversIpvs` compares the two walks when no health changed between them
  (`flipped`); that the change's own callback repairs the rest is
  `KernelFollowsHealth`.

### Bounds and why they are enough

- SnatChain: two keys, two targets. A key's rules are independent of the
  others'; two targets are what a replacement needs.
- Reconciler: two services, two backends, two schedulers and weights, three
  lists (create; change of scheduler, weight, backend set and a second service;
  a list that is rejected), with and without full NAT, over two protocols. Each
  kernel call occurs with each outcome, and the administrator and kills occur
  between any two. The administrator touches one of the two services
  (`AdminKeys`); the code treats keys alike. `BadBackends` is empty in the runs:
  a port that does not convert is met by the proofs only.
- Server: two backends in two configurations of one each, two workers, two
  edits, passes that may fail. A worker slot is a goroutine: two are needed for a
  callback that waits while another pass runs, and for a cancelled goroutine
  beside its successor; the slots are interchangeable. Two edits make the channel
  coalesce. `MaxEdits` bounds the operator only. A pass over several backends,
  whose healths are read one by one, is met by the proofs only. `UpdateTargets`
  waits when no slot is free, which Go does not; fairness of `WorkerEnds` ends
  the wait. In the three violation runs no
  pass fails, and a configuration has one backend or both.
- TrafficCollector: one key (keys do not interact), `Width` 4 with up to nine
  units of traffic wraps twice, eviction after two polls. `MaxTotal` bounds the
  traffic and cuts the metric off above it.
- HealthCheck: two services, a shared and an unshared backend, five files (both
  checked; one switched off after and before the other in the list; one
  removed; one that `Validate` rejects), thresholds 1 and 2, one backend that
  dies and returns (`Flaky`; backends do not interact except through the list).
  Two goroutines: a cancelled one and its successor. As in `Server`,
  `UpdateTargets` waits for a slot, which Go does not. `health_sync` has a third
  service, to which a backend moves, and two lists.
- HttpProxy: two requests at a time for one backend (pools of different backends
  do not interact), two connections, a pool with room for one, so that it is full
  when two requests end, or for two, so that a connection lies below one that is
  taken and put back. `Uploads` and `Chatty` name the request that may have a
  body and the one that may get an interim response. `Conns` bounds the
  connections, which Go does not: a dial waits for a name.

### Fairness

`Server!Fairness`: weak fairness of each goroutine's next step is the Go
scheduler's; strong fairness of main's and the callbacks' steps, `Acquire` among
them, is `sync.Mutex`'s starvation mode, which hands the mutex to a goroutine
that waits longer than 1 ms; strong fairness of `WorkerEnds` is the random choice
of `select` between a tick and `ctx.Done`. Edits, requests, status changes,
failures and the shutdown are never required. A failed pass is not retried, so
`DownLeavesKernel` says nothing while the latest one has failed.
`TrafficCollector!FairSpec`: the ticker ticks and `run` handles it.

`HealthCheck!Fairness`: the event loop's and the goroutines' steps, as above;
the ticker of a live check fires; a cancelled goroutine ends (strong, the
choice of `select`). Reloads, status flips and `Stop` are never required.

`HttpProxy!Fairness`: handler goroutines, the cleaner and time go on. A backend
answers what it got or closes the connection: this is assumed of the backends,
as `RoundTrip` sets no deadline, and `RequestEnds` does not hold for a backend that
keeps a connection open in silence. It also assumes that the client of the proxy
sends the body it announced and reads its response, or goes away: `req.Write`
and the copy to the client block on it, and the `http.Server`
(`pkg/http/manager.go:107`) has no timeouts. Strong fairness of `Dial` undoes the bound
`Conns`: without it a dial could lose every free name to another request.

## 4. Proofs

All theorems hold for every value of the constants allowed by the named
assumptions (`AbsentAssumption`, `ReconcilerAssumptions`, `ServerAssumptions`,
`TrafficAssumptions`, `HealthAssumptions`, `HttpAssumptions`), which only say
that sentinels differ from values and that parameters have their types;
`HealthAssumptions` also says that the model's cap `MaxCount` is not below a
threshold.

| Module | Inductive invariant | Theorems |
|---|---|---|
| `SnatChainProofs` | `ChainInv` | `SnatTypeCorrect`, `NoRuleLeaks`, `CleanPassesConverge` |
| `ReconcilerProofs` | `PassInv` | `TypeCorrect`, `NothingForgotten`, `OkIsInSync`, `ErrorsAreTheKernels`, `CleanupIsComplete`, `ForeignServicesUntouched` |
| `SyncProofs` | `PassInv` | `ReconcilerImplementsSync` |
| `NatProofs` | `PassInv`, `NatInv` | `NatIsCovered` |
| `ServerProofs` | `ServerInv` | `ServerTypeCorrect`, `ChannelLosesNothing`, `WatcherKeepsUp` |
| | `ServerInv`, `RulesFollow` | `NoStatusLost` |
| `HealthProofs` | `HealthInv` | `HealthTypeCorrect`, `EveryStatusIsChecked`, `DownIsKept`, `AnsweringIsUp` |
| `HttpProofs` | `HttpInv` | `HttpTypeCorrect`, `ConnectionsHaveOneOwner`, `ResponsesAreOwn`, `StaleConnectionsAreNotBlamed`, `BodiesAreSentOnce` |
| `TrafficProofs` | `TrafficInv` | `TrafficTypeCorrect`, `MetricsNeverOvercount`, `MetricsMissNothing` |

- `ChainInv` adds to `NoOrphanRule` its converse: a managed rule is in the chain
  unless a replacement of its key half failed; and that after a clean pass the
  map is the desired one. Convergence follows from the three.
- `PassInv` is a loop invariant. `SnapshotFresh`: what has not been visited
  is in the kernel as in the snapshot. `CurrentService` and `VisitedInSync`: what
  has been visited without an error is as desired. All three end when the
  administrator acts (`disturbed`). `CleanupCoversOurs` and `WritesConfigured`
  hold always. The theorems assume `Canonical`: every address is spelled as the
  kernel prints it. Without it `NoSelfInflictedError` is false, which the
  run `spelling` shows, and so is `CleanupRemovesOurs`.
- `ReconcilerImplementsSync` is the refinement, one lemma per kind of step:
  `EnsureRefines`, `DestinationRefines` and `DeletionRefines` show that each kernel
  call is a `Write` towards the goal or a stutter, `FinishRefines` that nil may be
  returned (from `VisitedInSync` and `OursIsManaged`).
- `NatInv` remembers what both walks were made from, as long as no health changed
  between them (`flipped`); `WalksAgree` is the fact about the two pure
  definitions, `buildDesiredState` and `DesiredSNAT`.
- `WatcherKeepsUp` assumes that the watcher is the only reloader; with a second one
  the property is false, which the run `server_reload` shows.
- `ServerInv` needs `MainIsInformed`: from the moment the event loop has read
  the configuration, what it read is current unless a token is in the channel or a
  `Reload` is about to send one; and `HolderIsWaiting`: the holder of `r.mu` is
  in a call of `Reconcile`, so that only main's return starts the watcher.
- `TrafficInv` follows a count from the kernel through the snapshot to the base
  line: `OwedBounded` says that the metric and all that the polls in progress
  and to come will add stay below the traffic; `Exact` says that they are equal
  as long as the counter never went back.

- `NoStatusLost` says that no status change is lost between the health reads of a
  pass. `KernelFollowsHealth` speaks of the rest state only; `RulesFollow` carries
  it through a pass: as long as no other thread is `Due` to reconcile, what the
  holder of `r.mu` has read so far (`seen`) is the health of what it has read,
  and what it has programmed is too. A status that changes in the middle makes
  its goroutine `Due` in the same step, since `handleCheckResult` calls back.
- `HealthInv` adds to the checked invariants that a free goroutine slot is
  at the start of its loop, and `NoFailureComing`: the live goroutine of a backend
  that is not suspect carries no failure. `AnsweringIsUp` is about what a live
  goroutine's own success guarantees, and excepts the late failure of a cancelled one.
  `DownIsKept` goes action by action: only `HandleResult` of a success,
  `UpdateTargets` and `Stop` can make a backend healthy. The lemmas on
  `UpdateTargets` reason about the last deletion and the first start in a list of
  any length.
- `HttpInv` splits `OneOwner` in the pool (`PoolOK`, with one lemma each for what `get`,
  `put` and `cleanup` make of it) and the other owners (`Owners`). `NothingIsLeft` is
  the heart of `ResponsesAreOwn`: a connection without interim responses carries
  the request of its holder, or the response to it, or the rest of that response's
  body, and nothing when it is pooled or just taken; so the drain in
  `connBody.Close` is enough, and the order in which a backend answers matters only
  within one request. `RequestState` counts the attempts: at most one before a new
  connection is dialled. `GoneIsFaulty`: a new connection that is gone is the
  backend's fault.
- What the loop of `cleanup` keeps (`OnlyKeepsGood`) is an induction over the list.
  It is done without the library's induction theorems, whose operator
  parameter the provers cannot instantiate: a set of counterexamples has
  a least one (`LeastNumber`, from the well-foundedness of `<`), and an iteration
  (`StepKeepsGood`) refutes it. `LoopExists` shows in the same way that the recursive
  function of `Only` is defined.

Only model-checked: the liveness properties (`DownLeavesKernel`,
`EditIsReconciled`, `GoneIsForgotten`, `VerdictSettles`, `IdleIsReaped`,
`RequestEnds`), which are outside the prover's reach. Every invariant and action
property of a passing run, and the refinement, is a theorem.

## 5. Not modelled

- `Validate`'s rules on single fields, defaults and the conversion of ports; in
  `Server` `Validate` is a predicate, in `HealthCheck` the rules that checks rely
  on. The rules are independent tests of one entry without state.
- Durations: intervals and timeouts are "some time later".
- The health gauge (`updateHealthMetrics`): its writes by overlapping callbacks
  exceed TLC's reach beside several services and lingering goroutines.
- `http.Manager`: `AddService` and `StartService` run once, one after the other,
  before the event loop; `StopService`, `RemoveService` and `Transport.Close` (and
  with it `connPool.Close`) have no caller in the daemon.
- Headers and the copy to the client in the proxy.
- The failure of a single iptables call in `Server`, which `SnatChain` has, and
  the pass on the IPVS table there, which `Reconciler` has.
- The concurrent use of one viper instance by two `Load`s, a data race in
  a library.
- Probes, netlink, iptables output parsing (statistics), metrics registration,
  command line, kernel parameter check, logging: I/O and text without state of their
  own. The in-memory SNAT manager is a map that cannot fail.

## 6. Plan

1. State what `UpdateTargets` leaves of each list as a lemma about the Go loop
   itself (a recursive function over the entries, as `Only` is for `cleanup`), so that
   `DeletedAt` and `Starters` are derived rather than stated.
2. Safety halves of the liveness properties, for every size: that the
   cleaner takes out of the pool whatever is past its idle timeout, and that a
   request takes at most two attempts.
3. `Server` above `Reconciler`: that a pass in `Server` is a run of `KernelSync` with
   the configuration the thread carries.
