# TLA+ models of the ClusterHealthCheck relevance predicates

This project models `src/controllers/clusterhealthcheck_predicates.go` of
healthcheck-manager, together with the machinery around it that decides
whether the predicates are enough. The predicates are pure functions.
Whether they are correct depends on how they are called: which
notifications the informer delivers, in what order, and what the
reconciler reads afterwards. So the model has two layers:

1. the predicates themselves, checked against the spec's decision table;
2. the whole path from an API server write to the reconciler's reading,
   checked for lost triggers, eventual consistency and queue flooding,
   and shown to implement an abstract contract (`ReconcilerContract`)
   that states what the watches promise the reconciler.

## Inventory

| Component | State | Operations | Where |
|---|---|---|---|
| Relevance predicates | none (pure) | `Create`, `Update`, `Delete`, `Generic` for Cluster, Machine, SveltosCluster, ClusterSummary, HealthCheckReport, HealthCheck | `src/controllers/clusterhealthcheck_predicates.go` |
| Notification | kind, operation, old and new object | built per watch callback | controller-runtime `event.*Event` |
| Predicate registry | kind → predicate set, fixed at start-up | `evaluate` (dispatch, TRUE for an unregistered kind) | controller setup, outside `src/` (spec 4.2); not modelled, see below |
| Informer + watch | per-object store, undelivered watch events, per-kind handler buffer | deliver (store update, then notification), handle (predicate, enqueue), re-list after a broken watch, periodic resync | controller-runtime / client-go (external) |
| Work queue | set of keys, one worker per key | add (dedup), get | controller-runtime (external) |
| ClusterHealthCheck reconciler | what it last read | reconcile: read every watched object from the store; fail part-way and be requeued | outside `src/` |
| Build (`src/Makefile`) | — | build, generate, test targets | not modelled |

How they interact:

- An API server write reaches the informer over a watch stream. Each
  object's changes arrive in order.
- The informer updates its store, then calls the kind's predicate with the
  stored copy as old and the event object as new. If the object is new to
  the store, it calls Create. If the object is gone, it calls Delete.
- A TRUE verdict adds the ClusterHealthCheck key to the work queue. Adds
  are deduplicated, and a key added while it is being processed is
  processed again afterwards.
- The reconciler reads every watched object from the informer store. That
  is its only view of the fleet.

What makes this hard:

- **Suppression.** Some transitions are dropped on purpose: pausing, losing
  readiness, a machine leaving Running or being deleted, a summary being
  created. The reconciler's reading can therefore lag. The design is
  correct only if every change the reconciler depends on is still reported
  somehow, whatever the order of writes, deliveries and reads.
- **Watch gaps.** After a broken watch, the informer re-lists. Changes it
  had not delivered are merged into one notification from the stored copy
  to the current object. That can be a Create, an Update with old = new,
  or a Delete.
- **Interleaving.** The reconciler reads objects one at a time while the
  informer keeps delivering. The informer updates its store first and
  runs the handler (predicate and enqueue) later, on the kind's handler
  goroutine, so a reconcile can read a new copy before its notification
  is judged.
- **Flooding.** The periodic resync re-delivers every stored object as an
  Update with old = new. A predicate that returns TRUE on it floods the
  queue.

What makes each part correct:

- **Predicates:** they match spec 4.1 on every input. An absent old object
  is handled, not a fault. Labels are compared by content.
- **Pipeline:**
  - It implements `ReconcilerContract`: the reconciler only reads values
    the store still holds, only a write creates work, and work is only
    used up when the reading is current. The last point is "no lost
    trigger": whenever the reading is out of date, some work is owed.
  - Eventual consistency: once writes stop, the reading becomes current.
  - No-op notifications never enqueue.

## Modules

| Module | Models |
|---|---|
| `Predicates.tla` | One operator per handler of the Go file, with the same names (`ClusterUpdate`, `MachineCreate`, `SveltosClusterUpdate`, ...). Snapshots are records of the fields a handler reads. The two Go nils are `NilPtr` (a typed nil pointer) and `NilIface` (an untyped nil interface; `AssertOld` turns it into `Panic`). `reflect.DeepEqual` is equality of abstract values. `Evaluate` models the predicate.Funcs dispatch of each watched kind to its own handlers. Faulty variants used as mutants come first, marked as such. |
| `PredicateTable.tla` | The decision table of spec 4.1, written from the spec. `SameLabels` compares label maps by content. |
| `MCPredicateTable.tla` | Each state is one notification from small value sets plus the verdict `Evaluate` returns for it. The invariants compare the verdict with the table. |
| `WatchPipeline.tla` | Composes `Predicates` with the informer, the work queue and the reconciler's reads. It instantiates `ReconcilerContract` under a refinement mapping. |
| `ReconcilerContract.tla` | The abstract specification: writes, values "in flight", reads of an in-flight value, and a debt (`owed`) that only writes create. `Current` states what the reconciler depends on. |
| `MCWatchPipeline.tla` | The objects (model values), their kinds and machine ownership. |

In `WatchPipeline` the variables correspond to the code as follows:

- `world`: the API server's objects.
- `pending`: each object's undelivered watch events.
- `cache`: the informer store.
- `notes`: per kind, the notifications (`Note(o, old, new)`) the informer
  has queued for the kind's event handler and the handler has not yet run.
- `queued`: the ClusterHealthCheck key is in the work queue.
- `toRead`: the objects the running reconcile has not read yet.
- `view`: each object as the reconciler last read it.

Actions:

- `Mutate`: an API server write. A new object has an empty status: a
  SveltosCluster starts not ready, a Machine in phase `Unknown`, a summary
  with no feature summaries.
- `Deliver`: in-order watch delivery. `Publish` updates the store and
  queues the notification (old = the store's previous copy) for the
  kind's handler.
- `Handle(k)`: the kind's handler takes its oldest notification, runs the
  predicate through `Triggers` and `Evaluate`, and enqueues
  the key on TRUE.
- `Relist`: a broken watch. The undelivered events are dropped and one
  notification from store to current is published.
- `Resync`: an Update with old = new, published only while the kind's
  handler is idle (the bound that keeps the buffer finite).
- `StartReconcile`: the worker takes the key.
- `ReadObject`: the reconcile reads one object from the store.
- `ReconcileFail`: the reconcile returns an error part-way through its
  reads. What it read stays read, and the key is requeued. Bounded by
  `MaxFailures`.
- `Restart`: the controller process restarts, bounded by `MaxRestarts`.
  - Lost: the informer stores, the handler buffers, the work queue and a
    running reconcile.
  - Kept: the reconciler's last reading, which lives in the API server.
  - After the restart, every store holds the current objects. Each
    handler gets a Create for every existing object. The
    ClusterHealthCheck's own watch enqueues its key from its initial
    list.

`Init` is any quiescent state: the informer is in sync, and the last
reconcile read the store after its last change.

What the reconciler depends on is given by `ReconcilerContract`'s
`Active` and `Current` (`ViewCurrent` in `WatchPipeline`), following
spec 4.1:

- a cluster takes part when it exists, is not paused and is ready;
- a SveltosCluster is ready by `Status.Ready`;
- a CAPI Cluster is ready when one of its Machines is Running;
- labels decide membership;
- summaries, reports and health checks count by their content.

Transitions that are dropped by design (pausing, losing readiness, a
machine stopping or being deleted) are not required to be reported.
`ViewCurrent` asks only that becoming active is seen.

### Refinement

`ReconcilerContract` has four variables: `world`, `inflight`, `view` and
`owed`. Its steps are:

- `Write(o)`: the object changes. The new value joins `inflight[o]`, and
  `owed` becomes TRUE.
- `Advance(o)`: older values stop being readable. The current value stays
  readable.
- `Read(o)`: `view[o]` takes some in-flight value.
- `Reset`: everything is re-read from scratch. Only the current values
  stay readable, and a reconcile is owed. `Restart` maps onto it.

Every step other than a write or a reset obeys `Settle`: it never raises `owed`, and
it lowers `owed` only if the reading is `Current` afterwards.

`WatchPipeline` maps onto it as follows:

- `world` and `view` map to themselves;
- `inflight[o]` is the store's copy plus the undelivered events of `o`;
- `owed` is `Outstanding`: a pending event, a queued notification whose
  verdict is TRUE, the queued key, or a reconcile in progress.

`ImplementsContract == Contract!Spec` is checked as a PROPERTY. It is
stronger than "no lost trigger". It also fails if a resync or a failed
reconcile creates work without a write, or if the store skips the current
value.

## Runs

| Run | Config | Expect | Shows |
|---|---|---|---|
| predicate_table | `MCPredicateTable.cfg` | pass | `MatchesTable`: all 24 handlers agree with spec 4.1 on 329 notifications. These are all kinds and operations over two pause and readiness values, three label maps, four phases, three feature values and two specs. Old objects are typed nil or present. Labels are nil or non-empty, which is what the API server decodes. |
| predicate_nil_old | `MCPredicateTableNilOld.cfg` | violation | `AbsentOldIsRelevant`: an untyped nil old object panics in the untyped handlers. |
| predicate_empty_labels | `MCPredicateTableEmptyLabels.cfg` | violation | `UnchangedClusterIgnored`: a change from a nil to an empty label map triggers. |
| watch_sveltos | `MCWatchSveltos.cfg` | pass | `ImplementsContract`, `EnqueueNeedsChange` and `EventuallyCurrent` for a SveltosCluster. Three writes and one broken watch (about 176k states). |
| watch_capi | `MCWatchCapi.cfg` | pass | `ImplementsContract` and `EnqueueNeedsChange` for a CAPI Cluster with one Machine. Three writes from any synced state, and one broken watch (about 547k states). |
| watch_liveness | `MCWatchLiveness.cfg` | pass | `EventuallyCurrent` and `ContractQuiesces` for the CAPI pair with two writes, one broken watch and one failed reconcile. (About 99k states.) `ContractQuiesces` is the contract's `Quiesces`: `owed` is eventually FALSE for good, so resyncs, which never stop, never keep the reconciler busy. |
| watch_status | `MCWatchStatus.cfg` | pass | `ImplementsContract`, `EnqueueNeedsChange` for a ClusterSummary, a HealthCheckReport and a HealthCheck. Two writes, report and health-check watches that may break once, and one failed reconcile (about 617k states). |
| watch_two_machines | `MCWatchTwoMachines.cfg` | pass | `ImplementsContract` for a CAPI Cluster with two Machines, a broken machine watch and a failed reconcile (about 1.25M states). |
| watch_restart | `MCWatchRestart.cfg` | pass | `ImplementsContract` and `EventuallyCurrent` for a ClusterSummary and a HealthCheckReport with three writes and one controller restart (about 550k states). It shows recovery after a restart, and eventual consistency of the status kinds. |
| watch_summary_relist | `MCWatchSummaryRelist.cfg` | violation | `NoLostTrigger` for a lone ClusterSummary whose watch breaks. |

### Findings

- **ClusterSummary created during a watch gap.** `ClusterSummaryPredicates`
  `CreateFunc` (line 297) always returns false. Spec 4.1.3 agrees: a new
  summary has no status yet. But if the summary is created and given its
  `FeatureSummaries` while the watch is broken, the re-list delivers one
  Create that already carries the status. That Create is dropped, and the
  reconciler never reads those feature summaries until some later change.
  TLC's trace has four states: the summary is created, its status is set,
  the watch re-lists, and no work is owed while the reading is stale.
- **Untyped nil old object.** The untyped handlers assert
  `e.ObjectOld.(*T)` before their `old == nil` check, so a nil interface
  panics. Spec 3 and 8 say it must return TRUE. controller-runtime filters
  such events out before the predicate runs. Direct callers do not.
- **Nil vs empty labels.** `reflect.DeepEqual` tells a nil label map from
  an empty one, which contradicts spec 4.1's equality by content. The cost
  is one extra reconcile.

### Bounds and why they are enough

- The pipeline starts from **any** synced state, so one or two writes
  already reach every transition a predicate distinguishes:
  - unpause;
  - readiness false→true;
  - label change;
  - a machine's Failed→Running and Unknown→Running;
  - create, delete, and recreate;
  - a re-list that coalesces two writes.
- The failure bound is one: a failed reconcile leaves a partly updated
  reading and a requeued key. A second failure repeats the same shape.
- The SveltosCluster and the CAPI pair are checked in separate runs. They
  share nothing but the work queue and the reconcile, and the CAPI pair
  already has two objects that interleave. Together the three objects
  make the state space 6.4M states, about 12 minutes of checking.
- Two machines on one cluster (`watch_two_machines`) cover readiness
  that rests on either machine: one leaves Running unreported while the
  other enters it.
- Two label values, three phases and two payloads are enough: the
  predicates only compare values for equality, or test for Running.
- The mutants show the bounds reach the interesting cases. Each one
  removes a single check, and each is caught by its property under its
  run's own bounds:
  - the readiness check;
  - the phase-changed check;
  - the early return;
  - the DeepEqual;
  - one variant that only reports a machine leaving `Unknown`;
  - a failed reconcile that drops its key instead of requeuing it;
  - a readiness test on the new state instead of the transition;
  - a restart that does not enqueue the ClusterHealthCheck key. It is
    caught because the initial list's Create of a ClusterSummary is
    dropped (line 297).

### Fairness

Weak fairness holds for `Deliver`, `Handle`, `ReadObject` and
`StartReconcile`.
`ReconcileFail` and `Restart` have none: an error and a crash are the
environment's choice. The
informer's goroutines, the handlers and the controller's worker run
whenever they have work. Writes, broken watches and resyncs get no fairness: they are the
environment. `CHECK_DEADLOCK FALSE` is set because, once the write budget
is spent and the queue has drained, the controller is idle, which is a
legitimate state.

## Not modelled

- Rate limiting and backoff of the work queue. A failed reconcile is
  requeued (`ReconcileFail`), but the delay is not modelled.
- Sharding and leader election (spec: non-goals).
- The reconciler's membership and notification logic (outside `src/`).
- **The predicate registry.** The registry and its start-up wiring live
  outside `src/`. The duplicate check is one fatal step with no state to
  explore. Every kind the reconciler watches has a registered predicate,
  so the registry's TRUE fallback for an unknown kind is never taken.
  Spec 7 accepts the extra reconciles that fallback would cost.
  `Triggers` therefore calls each kind's predicate directly.
- **Machine deletion and lost readiness.** Machine Delete (line 166), a
  machine leaving Running, and a SveltosCluster pausing or losing
  readiness are never reported, so the reading may keep a cluster
  active after it has stopped being so. Spec 4.1 makes this choice on
  purpose and spec 9 leaves it open. `ReconcilerContract` allows it
  (`Current` only asks that active clusters be seen active), so no
  property claims otherwise.
- **The type invariant.** `TypeOK` in `WatchPipeline` describes the
  state space, but no run checks it. It says nothing about the code that
  the refinement does not.
- The handler buffer is modelled per kind, and the watch per object.
  Within a kind, client-go delivers in one order across objects. The
  model also allows every other cross-object order.
- A broken watch is modelled per object. A real re-list covers every
  object of a kind at once, which is the same set of per-object
  notifications delivered together.

- **Generic events.** Every Generic handler returns false, and the table
  check confirms it. Whether any source delivers Generic events is
  decided by the controller setup, which is outside `src/` and not
  described by the spec. There is nothing more to explore.
- **Several ClusterHealthCheck keys.** Which keys a notification
  enqueues is decided by mapping functions outside `src/`, and the spec
  does not describe them (spec 6 leaves the enqueue to the external
  Trigger Sink). A model of several keys would invent that mapping, so
  one key stands for every ClusterHealthCheck.
- **Two CAPI Clusters.** Clusters share only the work queue and the
  reconcile, and the CAPI pair already interleaves two objects on both.
  A second cluster multiplies the state space without adding a
  behaviour the predicates tell apart.
- **Build (`src/Makefile`).** It has no runtime state.

## What was built

- the predicates and the table check;
- the pipeline for clusters and machines, and for status kinds;
- the re-list finding;
- reconcile failure with requeue;
- the refinement to `ReconcilerContract`;
- two machines on one cluster;
- the contract's liveness (`Quiesces`);
- the informer split into store update and asynchronous handler;
- controller restart, and liveness for SveltosCluster and the status
  kinds.
