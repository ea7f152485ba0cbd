--------------------------- MODULE PredicateTable ---------------------------
(***************************************************************************)
(* The decision table of spec section 4.1, written independently of the   *)
(* code: the reference the predicates of module Predicates are checked     *)
(* against.  Labels are compared by content: NilLabels and EmptyLabels     *)
(* are two representations of the same, empty, label map.                  *)
(***************************************************************************)
EXTENDS Predicates

CONSTANTS
    NilLabels,      \* a nil labels map
    EmptyLabels     \* a non-nil, empty labels map

\* Label maps compared as key/value sets (spec 4.1, "Equality semantics").
SameLabels(a, b) ==
    LET Content(l) == IF l = EmptyLabels THEN NilLabels ELSE l
    IN  Content(a) = Content(b)

ClusterKinds == {"Cluster", "SveltosCluster"}

\* Update row of the table: an absent old state is always relevant, except
\* for a machine that is not running (its rule looks at the new phase first).
TableUpdate(kind, old, new) ==
    IF kind = "Machine"
    THEN new.phase = Running /\ (IsNil(old) \/ old.phase # Running)
    ELSE \/ IsNil(old)
         \/ /\ kind \in ClusterKinds
            /\ \/ old.paused /\ ~new.paused
               \/ kind = "SveltosCluster" /\ ~old.ready /\ new.ready
               \/ ~SameLabels(old.labels, new.labels)
         \/ kind = "ClusterSummary" /\ old.features # new.features
         \/ kind \in {"HealthCheckReport", "HealthCheck"} /\ old.spec # new.spec

TableCreate(kind, obj) ==
    CASE kind \in ClusterKinds -> ~obj.paused
      [] kind = "Machine"      -> obj.phase = Running
      [] kind = "ClusterSummary" -> FALSE
      [] OTHER                 -> TRUE

TableVerdict(kind, op, old, new) ==
    CASE op = "Generic" -> FALSE
      [] op = "Delete"  -> kind # "Machine"
      [] op = "Create"  -> TableCreate(kind, new)
      [] op = "Update"  -> TableUpdate(kind, old, new)

=============================================================================
