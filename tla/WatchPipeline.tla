---------------------------- MODULE WatchPipeline ----------------------------
(***************************************************************************)
(* The ClusterHealthCheck reconciler's watches, end to end:                *)
(*   API server objects (world) change;                                    *)
(*   each object's watch stream (pending) delivers the changes in order to *)
(*   the informer, which updates its store (cache) and calls the kind's   *)
(*   relevance predicate (module Predicates) with old = store, new = event;*)
(*   a TRUE verdict adds the ClusterHealthCheck key to the work queue      *)
(*   (queued, a set of one key: adds are deduplicated);                    *)
(*   the reconciler takes the key and reads every object from the store,   *)
(*   one at a time (toRead), into what it last saw (view).                 *)
(* A broken watch is re-listed: the stream's undelivered changes are       *)
(* dropped and one notification from the store's copy to the current      *)
(* object is delivered instead.  The informer's periodic resync re-delivers *)
(* the store's copy as an Update with old = new.                           *)
(***************************************************************************)
EXTENDS Predicates, Naturals, Sequences, FiniteSets

Seqs == INSTANCE SequencesExt

CONSTANTS
    Objects,        \* the watched objects
    Kind,           \* Kind[o] \in Kinds
    Owner,          \* Owner[m]: the CAPI Cluster a Machine belongs to
    LabelValues,    \* label maps
    FeatureValues,  \* Status.FeatureSummaries values
    NoFeatures,     \* the FeatureSummaries of a summary whose status is unset
    Payloads,       \* Spec values of reports and health checks
    Phases,         \* machine phases, "Unknown" and Running among them
    MaxMutations,   \* bound on API server writes
    MaxRelists,     \* bound on broken watches
    RelistKinds,    \* the kinds whose watches may break
    MaxFailures,    \* bound on reconciles that return an error
    MaxRestarts     \* bound on controller restarts

ASSUME \A o \in Objects : Kind[o] \in Kinds
ASSUME NoFeatures \in FeatureValues /\ {"Unknown", Running} \subseteq Phases
ASSUME MaxMutations \in Nat /\ MaxRelists \in Nat /\ MaxFailures \in Nat
ASSUME MaxRestarts \in Nat

\* An object that does not exist (in the API server, the store or the view).
Absent == [absent |-> TRUE]

ObjectsOf(k) == {o \in Objects : Kind[o] = k}
Clusters  == ObjectsOf("Cluster") \cup ObjectsOf("SveltosCluster")
Machines  == ObjectsOf("Machine")
Summaries == ObjectsOf("ClusterSummary")
Specs     == ObjectsOf("HealthCheckReport") \cup ObjectsOf("HealthCheck")
ASSUME \A x \in Machines : Owner[x] \in ObjectsOf("Cluster")

States(k) ==
    CASE k = "Cluster"        -> [paused : BOOLEAN, labels : LabelValues]
      [] k = "SveltosCluster" -> [paused : BOOLEAN, ready : BOOLEAN,
                                  labels : LabelValues]
      [] k = "Machine"        -> [phase : Phases]
      [] k = "ClusterSummary" -> [features : FeatureValues]
      [] OTHER                -> [spec : Payloads]

\* The API server ignores status on create: a new object's status is empty.
Created(k) ==
    CASE k = "SveltosCluster" -> {s \in States(k) : ~s.ready}
      [] k = "Machine"        -> [phase : {"Unknown"}]
      [] k = "ClusterSummary" -> [features : {NoFeatures}]
      [] OTHER                -> States(k)

VARIABLES
    world,       \* world[o]: the object in the API server
    pending,     \* pending[o]: changes of o not yet delivered to the informer
    cache,       \* cache[o]: the informer store's copy of o
    notes,       \* notes[k]: notifications of kind k's informer its
                 \*   event handler has not yet processed
    queued,      \* the ClusterHealthCheck key is in the work queue
    toRead,      \* objects the running reconcile has still to read
    view,        \* view[o]: o as the reconciler last read it
    mutations,   \* API server writes so far
    relists,     \* broken watches so far
    failures,    \* failed reconciles so far
    restarts     \* controller restarts so far

informer == <<pending, cache, notes>>
worker   == <<queued, toRead, view>>
budgets  == <<mutations, relists, failures, restarts>>
vars     == <<world, informer, worker, budgets>>

WatchedKinds == {Kind[o] : o \in Objects}

Snapshot == [Objects -> UNION {States(k) : k \in Kinds} \cup {Absent}]

\* A notification the informer hands to its event handler: the store's
\* copy before (old) and after (new) the store update.
Note(o, old, new) == [obj |-> o, old |-> old, new |-> new]

TypeOK ==
    /\ world \in Snapshot /\ cache \in Snapshot /\ view \in Snapshot
    /\ \A o \in Objects : pending[o] \in Seq(States(Kind[o]) \cup {Absent})
    /\ \A k \in WatchedKinds :
          \A i \in DOMAIN notes[k] : notes[k][i].obj \in ObjectsOf(k)
    /\ queued \in BOOLEAN
    /\ toRead \subseteq Objects
    /\ mutations \in 0..MaxMutations /\ relists \in 0..MaxRelists
    /\ failures \in 0..MaxFailures /\ restarts \in 0..MaxRestarts

\* Any quiescent state: the informer is in sync with the API server and the
\* last reconcile read the store after its last change.
Init ==
    /\ world \in [Objects -> {Absent}] \cup
                 {w \in Snapshot : \A o \in Objects : w[o] \in States(Kind[o]) \cup {Absent}}
    /\ pending = [o \in Objects |-> <<>>]
    /\ cache = world
    /\ notes = [k \in WatchedKinds |-> <<>>]
    /\ view = world
    /\ queued = FALSE
    /\ toRead = {}
    /\ mutations = 0 /\ relists = 0 /\ failures = 0 /\ restarts = 0

(***************************************************************************)
(* The event handler: which handler a store transition calls (no event    *)
(* when the object neither was nor is in the store), and the verdict of   *)
(* the kind's predicate.                                                   *)
(***************************************************************************)
Triggers(k, old, new) ==
    CASE old = Absent /\ new = Absent -> FALSE
      [] old = Absent -> Evaluate(k, "Create", NilIface, new)
      [] new = Absent -> Evaluate(k, "Delete", NilIface, old)
      [] OTHER        -> Evaluate(k, "Update", old, new)

\* The informer updates its store to new and queues the notification for
\* the kind's handler; the handler runs later, on its own goroutine.
Publish(o, new) ==
    /\ cache' = [cache EXCEPT ![o] = new]
    /\ notes' = [notes EXCEPT ![Kind[o]] = Append(@, Note(o, cache[o], new))]

(* Environment: a create, update or delete of o in the API server. *)
Mutate(o) ==
    /\ mutations < MaxMutations
    /\ \E s \in IF world[o] = Absent THEN Created(Kind[o])
                ELSE (States(Kind[o]) \cup {Absent}) \ {world[o]} :
          /\ world' = [world EXCEPT ![o] = s]
          /\ pending' = [pending EXCEPT ![o] = Append(@, s)]
    /\ mutations' = mutations + 1
    /\ UNCHANGED <<cache, notes, worker, relists, failures, restarts>>

(* The watch delivers o's oldest undelivered change to the informer. *)
Deliver(o) ==
    /\ pending[o] # <<>>
    /\ Publish(o, Head(pending[o]))
    /\ pending' = [pending EXCEPT ![o] = Tail(@)]
    /\ UNCHANGED <<world, worker, budgets>>

(* The watch breaks; the re-list replaces the store's copy by the current *)
(* object, skipping the undelivered intermediate changes.                 *)
Relist(o) ==
    /\ relists < MaxRelists
    /\ Kind[o] \in RelistKinds
    /\ pending[o] # <<>>
    /\ Publish(o, world[o])
    /\ pending' = [pending EXCEPT ![o] = <<>>]
    /\ relists' = relists + 1
    /\ UNCHANGED <<world, worker, mutations, failures, restarts>>

(* Periodic resync: the store's copy is re-queued for the handler as an  *)
(* Update.  Bound: a resync only finds the kind's handler idle.          *)
Resync(o) ==
    /\ pending[o] = <<>>
    /\ cache[o] # Absent
    /\ notes[Kind[o]] = <<>>
    /\ Publish(o, cache[o])
    /\ UNCHANGED <<world, pending, worker, budgets>>

(* The kind's handler runs the predicate on its oldest notification and  *)
(* enqueues the key on a TRUE verdict.                                    *)
Handle(k) ==
    /\ notes[k] # <<>>
    /\ LET n == Head(notes[k])
       IN  queued' = (queued \/ Triggers(k, n.old, n.new))
    /\ notes' = [notes EXCEPT ![k] = Tail(@)]
    /\ UNCHANGED <<world, pending, cache, toRead, view, budgets>>

(* A worker takes the key; the work queue never hands a key to two workers. *)
StartReconcile ==
    /\ queued
    /\ toRead = {}
    /\ queued' = FALSE
    /\ toRead' = Objects
    /\ UNCHANGED <<world, informer, view, budgets>>

(* The reconcile reads o from the informer store; the last read ends it. *)
ReadObject(o) ==
    /\ o \in toRead
    /\ view' = [view EXCEPT ![o] = cache[o]]
    /\ toRead' = toRead \ {o}
    /\ UNCHANGED <<world, informer, queued, budgets>>

\* A failed reconcile whose key is dropped instead of requeued.
ReconcileFailNoRequeue ==
    /\ toRead # {}
    /\ failures < MaxFailures
    /\ toRead' = {}
    /\ failures' = failures + 1
    /\ UNCHANGED <<world, informer, queued, view, mutations, relists,
                   restarts>>

(* The reconcile returns an error after reading part of the store: what  *)
(* it read stays read, the rest is not, and the work queue re-adds the key *)
(* (rate-limited requeue of a failed reconcile).                           *)
ReconcileFail ==
    /\ toRead # {}
    /\ failures < MaxFailures
    /\ toRead' = {}
    /\ queued' = TRUE
    /\ failures' = failures + 1
    /\ UNCHANGED <<world, informer, view, mutations, relists, restarts>>

\* A restart after which only the informers' initial lists are handled:
\* the ClusterHealthCheck key is not enqueued by its own watch.
RestartNoPrimaryEnqueue ==
    /\ restarts < MaxRestarts
    /\ pending' = [o \in Objects |-> <<>>]
    /\ cache' = world
    /\ notes' = [k \in WatchedKinds |->
                   Seqs!SetToSeq({Note(o, Absent, world[o]) :
                                  o \in {x \in ObjectsOf(k) : world[x] # Absent}})]
    /\ queued' = FALSE
    /\ toRead' = {}
    /\ restarts' = restarts + 1
    /\ UNCHANGED <<world, view, mutations, relists, failures>>

(* The controller process restarts.  The informer stores, the handlers'  *)
(* buffers, the work queue and a running reconcile are lost; what the    *)
(* reconciler last derived stays (it is kept in the API server).  Workers *)
(* start once the new informers have synced their initial lists, which   *)
(* the handlers receive as a Create of every existing object; the         *)
(* ClusterHealthCheck's own initial list enqueues its key.               *)
Restart ==
    /\ restarts < MaxRestarts
    /\ pending' = [o \in Objects |-> <<>>]
    /\ cache' = world
    /\ notes' = [k \in WatchedKinds |->
                   Seqs!SetToSeq({Note(o, Absent, world[o]) :
                                  o \in {x \in ObjectsOf(k) : world[x] # Absent}})]
    /\ queued' = TRUE
    /\ toRead' = {}
    /\ restarts' = restarts + 1
    /\ UNCHANGED <<world, view, mutations, relists, failures>>

Next ==
    \/ StartReconcile
    \/ Restart
    \/ ReconcileFail
    \/ \E k \in WatchedKinds : Handle(k)
    \/ \E o \in Objects :
          \/ Mutate(o) \/ Deliver(o) \/ Relist(o) \/ Resync(o)
          \/ ReadObject(o)

\* The informer goroutines, the handlers and the worker always make
\* progress; writes, broken watches and resyncs are never owed.
Fairness ==
    /\ \A o \in Objects : WF_vars(Deliver(o)) /\ WF_vars(ReadObject(o))
    /\ \A k \in WatchedKinds : WF_vars(Handle(k))
    /\ WF_vars(StartReconcile)

Spec == Init /\ [][Next]_vars /\ Fairness

\* Work still owed to the reconciler: an undelivered watch event, a queued
\* notification the handler will turn into an enqueue, the key in the
\* work queue, or a reconcile in progress.
Outstanding ==
    \/ queued
    \/ toRead # {}
    \/ \E o \in Objects : pending[o] # <<>>
    \/ \E k \in WatchedKinds :
          \E i \in DOMAIN notes[k] :
             Triggers(k, notes[k][i].old, notes[k][i].new) = TRUE

(***************************************************************************)
(* The pipeline implements ReconcilerContract: a value of o is in flight  *)
(* while it is the store's copy or an undelivered event, and a reconcile  *)
(* is owed while work is outstanding.                                      *)
(***************************************************************************)
Contract == INSTANCE ReconcilerContract WITH
    Values   <- [o \in Objects |-> States(Kind[o]) \cup {Absent}],
    inflight <- [o \in Objects |-> {cache[o]} \cup
                                    {pending[o][i] : i \in DOMAIN pending[o]}],
    owed     <- Outstanding

\* What the reconciler depends on (spec 4.1), Contract!Current: every
\* active cluster was seen active, the labels of every cluster seen are
\* current, deleted clusters were seen deleted, and summaries, reports
\* and health checks are current.  Pausing, losing readiness and a
\* machine leaving Running are not reported by design, so a cluster seen
\* active may since have become inactive.
ViewCurrent == Contract!Current

\* No trigger is lost: whenever the reconciler's reading is out of date,
\* some work that will refresh it is still owed - an undelivered watch
\* event, the key in the work queue, or a reconcile in progress.  Breaks
\* when a predicate suppresses a change the reconciler depends on, in any
\* order of deliveries, reads and re-lists.
NoLostTrigger == ~ViewCurrent => Outstanding

\* The pipeline refines the contract: the reconciler only reads values the
\* object has had and the store has not yet overwritten, only a write
\* creates outstanding work (a resync or a re-list that finds nothing new
\* never enqueues), and work is only ever used up with the reading current.
ImplementsContract == Contract!Spec

\* Once the API server stops changing, the reconciler's reading eventually
\* becomes and stays current (eventual consistency of the aggregate).
EventuallyCurrent == <>[]ViewCurrent

\* The pipeline eventually stops working: every write is delivered and
\* reconciled, and resyncs, which never stop, never enqueue again.
\* Breaks if a predicate returns true on a resync's old = new Update.
ContractQuiesces == Contract!Quiesces

\* The work queue is never flooded by no-op notifications: the key is only
\* added by the handler of a notification whose old and new copies differ
\* (resyncs and re-lists that find nothing new never enqueue), by the
\* requeue of a failed reconcile, or by a restart.
EnqueueNeedsChange ==
    [][~queued /\ queued' =>
         \/ \E k \in WatchedKinds :
               /\ notes[k] # <<>> /\ notes'[k] = Tail(notes[k])
               /\ Head(notes[k]).old # Head(notes[k]).new
         \/ failures' > failures
         \/ restarts' > restarts]_vars

=============================================================================
