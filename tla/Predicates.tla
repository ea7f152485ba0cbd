----------------------------- MODULE Predicates -----------------------------
(***************************************************************************)
(* The relevance predicates of controllers/clusterhealthcheck_predicates.go *)
(* as pure operators, one per handler.  An object snapshot is a record     *)
(* holding only the fields the predicate reads:                            *)
(*   Cluster (CAPI)      [paused, labels]                                  *)
(*   SveltosCluster      [paused, ready, labels]                           *)
(*   Machine             [phase]                                           *)
(*   ClusterSummary      [features]   (Status.FeatureSummaries)            *)
(*   HealthCheckReport   [spec]       (Spec)                               *)
(*   HealthCheck         [spec]       (Spec)                               *)
(* reflect.DeepEqual on labels, feature summaries and specs is equality of *)
(* the abstract values: two distinct values stand for two representations *)
(* DeepEqual tells apart (e.g. a nil and an empty label map).              *)
(*                                                                         *)
(* A handler's verdict is TRUE, FALSE, or Panic when the Go code panics.   *)
(***************************************************************************)

\* The two Go "absent object" values: a typed nil pointer (*T)(nil), and an
\* untyped nil interface, for which e.ObjectOld.(*T) panics.
NilPtr   == [nil |-> "ptr"]
NilIface == [nil |-> "iface"]
IsNil(o) == o \in {NilPtr, NilIface}

CONSTANT Panic   \* the outcome of a handler that panics (a model value)

\* clusterv1.MachinePhaseRunning
Running == "Running"

Kinds == {"Cluster", "SveltosCluster", "Machine", "ClusterSummary",
          "HealthCheckReport", "HealthCheck"}
Ops   == {"Create", "Update", "Delete", "Generic"}

\* The single-value type assertion e.ObjectOld.(*T) of the untyped
\* predicate.Funcs handlers: a nil interface panics before any check runs.
AssertOld(old, verdict) == IF old = NilIface THEN Panic ELSE verdict

(***************************************************************************)
(* Plausible faults of the handlers below, each the handler with one check *)
(* changed; used to confirm the properties can tell them apart.           *)
(***************************************************************************)
\* MachinePredicate.Update without the early return on a non-running machine.
MachineUpdateNoEarlyReturn(old, new) == old = NilPtr \/ old.phase # new.phase

\* MachinePredicate.Update that only reports a machine leaving "Unknown".
MachineUpdateFromUnknown(old, new) ==
    new.phase = Running /\ (old = NilPtr \/ old.phase = "Unknown")

\* MachinePredicate.Update without the phase-changed check.
MachineUpdateAnyRunning(old, new) == new.phase = Running

\* SveltosCluster UpdateFunc without the Status.Ready check.
SveltosClusterUpdateNoReady(old, new) ==
    AssertOld(old,
        \/ old = NilPtr
        \/ old.paused /\ ~new.paused
        \/ old.labels # new.labels)

\* SveltosCluster UpdateFunc testing the new readiness, not its transition.
SveltosClusterUpdateReadyLevel(old, new) ==
    AssertOld(old,
        \/ old = NilPtr
        \/ old.paused /\ ~new.paused
        \/ new.ready
        \/ old.labels # new.labels)

\* HealthCheckReport UpdateFunc comparing oldHCR.Spec with itself.
HealthCheckReportUpdateSelf(old, new) ==
    AssertOld(old, old = NilPtr \/ old.spec # old.spec)

\* HealthCheck UpdateFunc without the DeepEqual check.
HealthCheckUpdateAlways(old, new) == AssertOld(old, TRUE)

(* ClusterPredicate: typed handlers for clusterv1.Cluster. *)
ClusterCreate(obj) == ~obj.paused

ClusterUpdate(old, new) ==
    \/ old = NilPtr
    \/ old.paused /\ ~new.paused
    \/ old.labels # new.labels

ClusterDelete(obj) == TRUE

ClusterGeneric(obj) == FALSE

(* MachinePredicate: typed handlers for clusterv1.Machine.  Update returns *)
(* early on a non-running new machine, before looking at the old one.      *)
MachineCreate(obj) == obj.phase = Running

MachineUpdate(old, new) ==
    /\ new.phase = Running
    /\ \/ old = NilPtr
       \/ old.phase # new.phase

MachineDelete(obj) == FALSE

MachineGeneric(obj) == FALSE

(* SveltosClusterPredicates: untyped predicate.Funcs. *)
SveltosClusterUpdate(old, new) ==
    AssertOld(old,
        \/ old = NilPtr
        \/ old.paused /\ ~new.paused
        \/ ~old.ready /\ new.ready
        \/ old.labels # new.labels)

SveltosClusterCreate(obj) == ~obj.paused

SveltosClusterDelete(obj) == TRUE

SveltosClusterGeneric(obj) == FALSE

(* ClusterSummaryPredicates: only Status.FeatureSummaries is compared. *)
ClusterSummaryUpdate(old, new) ==
    AssertOld(old, old = NilPtr \/ old.features # new.features)

ClusterSummaryCreate(obj) == FALSE

ClusterSummaryDelete(obj) == TRUE

ClusterSummaryGeneric(obj) == FALSE

(* HealthCheckReportPredicates: Spec is compared. *)
HealthCheckReportUpdate(old, new) ==
    AssertOld(old, old = NilPtr \/ old.spec # new.spec)

HealthCheckReportCreate(obj) == TRUE

HealthCheckReportDelete(obj) == TRUE

HealthCheckReportGeneric(obj) == FALSE

(* HealthCheckPredicates: Spec is compared. *)
HealthCheckUpdate(old, new) ==
    AssertOld(old, old = NilPtr \/ old.spec # new.spec)

HealthCheckCreate(obj) == TRUE

HealthCheckDelete(obj) == TRUE

HealthCheckGeneric(obj) == FALSE

(***************************************************************************)
(* The watch wiring of the ClusterHealthCheck reconciler (outside src/):  *)
(* each watched kind is bound to its predicate set, and a notification is *)
(* dispatched by operation.  Create, Delete and Generic see one object,   *)
(* passed as new.                                                          *)
(***************************************************************************)
Evaluate(kind, op, old, new) ==
    \* The predicate.Funcs / TypedFuncs shape: one handler per operation.
    LET H(Create(_), Update(_, _), Delete(_), Generic(_)) ==
            CASE op = "Create"  -> Create(new)
              [] op = "Update"  -> Update(old, new)
              [] op = "Delete"  -> Delete(new)
              [] op = "Generic" -> Generic(new)
    IN
    CASE kind = "Cluster" ->
            H(ClusterCreate, ClusterUpdate, ClusterDelete, ClusterGeneric)
      [] kind = "SveltosCluster" ->
            H(SveltosClusterCreate, SveltosClusterUpdate,
              SveltosClusterDelete, SveltosClusterGeneric)
      [] kind = "Machine" ->
            H(MachineCreate, MachineUpdate, MachineDelete, MachineGeneric)
      [] kind = "ClusterSummary" ->
            H(ClusterSummaryCreate, ClusterSummaryUpdate,
              ClusterSummaryDelete, ClusterSummaryGeneric)
      [] kind = "HealthCheckReport" ->
            H(HealthCheckReportCreate, HealthCheckReportUpdate,
              HealthCheckReportDelete, HealthCheckReportGeneric)
      [] kind = "HealthCheck" ->
            H(HealthCheckCreate, HealthCheckUpdate,
              HealthCheckDelete, HealthCheckGeneric)

=============================================================================
