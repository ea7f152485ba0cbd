------------------------- MODULE ReconcilerContract -------------------------
(***************************************************************************)
(* What the watches and predicates promise the ClusterHealthCheck          *)
(* reconciler, with the informer, the work queue and the predicates        *)
(* abstracted away.  Objects change in the API server (world); every value *)
(* an object has taken that a reconcile may still read is "in flight"; the *)
(* reconciler's reading (view) only ever takes an in-flight value; a write *)
(* or a restart leaves a reconcile owed, and the debt is only discharged  *)
(* when the reading is current.  Nothing else creates a debt.              *)
(***************************************************************************)
CONSTANTS
    Objects,        \* the watched objects
    Kind,           \* Kind[o]: the object's kind
    Owner,          \* Owner[m]: the CAPI Cluster a Machine belongs to
    Values,         \* Values[o]: the values o can take, Absent among them
    Absent,         \* the value of an object that does not exist
    NoFeatures,     \* the FeatureSummaries of a summary that does not exist
    Running         \* the running machine phase

VARIABLES
    world,      \* world[o]: the object in the API server
    inflight,   \* inflight[o]: values of o a reconcile may still read
    view,       \* view[o]: o as the reconciler last read it
    owed        \* a reconcile is owed

cvars == <<world, inflight, view, owed>>

ObjectsOf(k) == {o \in Objects : Kind[o] = k}
Clusters  == ObjectsOf("Cluster") \cup ObjectsOf("SveltosCluster")
Machines  == ObjectsOf("Machine")
Summaries == ObjectsOf("ClusterSummary")
Specs     == ObjectsOf("HealthCheckReport") \cup ObjectsOf("HealthCheck")

\* A cluster takes part in the fleet (spec 4.1): it exists, is not paused
\* and is ready - a SveltosCluster by Status.Ready, a CAPI Cluster by one
\* of its Machines running.
Active(st, c) ==
    /\ st[c] # Absent
    /\ ~st[c].paused
    /\ IF Kind[c] = "SveltosCluster" THEN st[c].ready
       ELSE \E m \in Machines : Owner[m] = c /\ st[m] # Absent
                                            /\ st[m].phase = Running

FeaturesOf(st, s) == IF st[s] = Absent THEN NoFeatures ELSE st[s].features

\* The reading agrees with the API server on everything the predicates
\* report: activation, deletion and labels of clusters, and the content of
\* summaries, reports and health checks.
Current ==
    /\ \A c \in Clusters :
          /\ Active(world, c) => Active(view, c)
          /\ world[c] = Absent => view[c] = Absent
          /\ world[c] # Absent /\ view[c] # Absent
                => view[c].labels = world[c].labels
    /\ \A s \in Summaries : FeaturesOf(view, s) = FeaturesOf(world, s)
    /\ \A r \in Specs : view[r] = world[r]

Init ==
    /\ world \in {w \in [Objects -> UNION {Values[x] : x \in Objects}] :
                    \A x \in Objects : w[x] \in Values[x]}
    /\ inflight = [o \in Objects |-> {world[o]}]
    /\ view = world
    /\ owed = FALSE

\* A step other than a write or a reset never creates a debt, and discharges one only
\* when it leaves the reading current.
Settle == /\ owed' => owed
          /\ ~owed' => Current'

(* An object is created, updated or deleted. *)
Write(o) ==
    /\ \E s \in Values[o] \ {world[o]} :
          /\ world' = [world EXCEPT ![o] = s]
          /\ inflight' = [inflight EXCEPT ![o] = @ \cup {s}]
    /\ owed' = TRUE
    /\ UNCHANGED view

(* Older values of o stop being readable; the current one stays readable. *)
Advance(o) ==
    /\ \E keep \in SUBSET inflight[o] :
          /\ world[o] \in keep
          /\ inflight' = [inflight EXCEPT ![o] = keep]
    /\ Settle
    /\ UNCHANGED <<world, view>>

(* The reconciler reads some in-flight value of o. *)
Read(o) ==
    /\ \E v \in inflight[o] : view' = [view EXCEPT ![o] = v]
    /\ Settle
    /\ UNCHANGED <<world, inflight>>

(* The reconciler's inputs are all re-read from scratch: only the current *)
(* values stay readable, and a reconcile is owed.                          *)
Reset ==
    /\ inflight' = [o \in Objects |-> {world[o]}]
    /\ owed' = TRUE
    /\ UNCHANGED <<world, view>>

Next == Reset \/ \E o \in Objects : Write(o) \/ Advance(o) \/ Read(o)

Spec == Init /\ [][Next]_cvars

\* Every debt is eventually paid for good: with finitely many writes, no
\* other step keeps the reconciler busy forever.
Quiesces == <>[]~owed

=============================================================================
