-------------------------- MODULE MCPredicateTable --------------------------
(***************************************************************************)
(* Checks the predicates of module Predicates against the decision table   *)
(* of module PredicateTable over every notification built from small      *)
(* value sets.  Each state holds one notification and the verdict the     *)
(* registry dispatch (Evaluate) returns for it.                            *)
(***************************************************************************)
EXTENDS Predicates, TLC

CONSTANTS
    NilLabels, EmptyLabels, \* the two representations of an empty label map
    OtherLabels,            \* non-empty label maps
    UseEmptyLabels,         \* whether a non-nil empty label map occurs
    UseNilInterface         \* whether an Update may carry an untyped nil old object

T == INSTANCE PredicateTable

LabelValues == {NilLabels} \cup OtherLabels
                 \cup (IF UseEmptyLabels THEN {EmptyLabels} ELSE {})
Phases      == {"Unknown", "Pending", "Running", "Failed"}
Features    == {"nil", "f1", "f2"}     \* Status.FeatureSummaries values
Payloads    == {"p1", "p2"}            \* Spec values

Snapshots(kind) ==
    CASE kind = "Cluster"        -> [paused : BOOLEAN, labels : LabelValues]
      [] kind = "SveltosCluster" -> [paused : BOOLEAN, ready : BOOLEAN,
                                     labels : LabelValues]
      [] kind = "Machine"        -> [phase : Phases]
      [] kind = "ClusterSummary" -> [features : Features]
      [] OTHER                   -> [spec : Payloads]

\* Cluster and Machine use the typed handlers: their old object is a *T, so
\* only a nil pointer can stand for "absent".
AbsentOld(kind) ==
    IF UseNilInterface /\ kind \notin {"Cluster", "Machine"}
    THEN {NilPtr, NilIface} ELSE {NilPtr}

Notifications ==
    UNION { { [kind |-> k, op |-> o, old |-> NilIface, new |-> s] :
                 o \in Ops \ {"Update"}, s \in Snapshots(k) }
            \cup
            { [kind |-> k, op |-> "Update", old |-> o, new |-> s] :
                 o \in Snapshots(k) \cup AbsentOld(k), s \in Snapshots(k) }
          : k \in Kinds }

VARIABLES notif, verdict
vars == <<notif, verdict>>

Receive(n) ==
    /\ notif' = n
    /\ verdict' = Evaluate(n.kind, n.op, n.old, n.new)

Init == \E n \in Notifications : notif = n /\ verdict = Evaluate(n.kind, n.op, n.old, n.new)
Next == \E n \in Notifications : Receive(n)
Spec == Init /\ [][Next]_vars

\* Every handler of clusterhealthcheck_predicates.go returns, for every
\* notification the informer can deliver, the verdict of the spec's table.
MatchesTable == verdict = T!TableVerdict(notif.kind, notif.op, notif.old, notif.new)

\* Spec 8: an Update whose old object is absent is relevant, for every kind
\* whose predicate inspects the old object first (all but Machine); the Go
\* type assertion e.ObjectOld.(*T) must not turn it into a panic.
AbsentOldIsRelevant ==
    (notif.op = "Update" /\ IsNil(notif.old) /\ notif.kind # "Machine")
        => verdict = TRUE

\* Spec 8: a cluster Update that neither unpauses, becomes ready, nor
\* changes the label map's content is not relevant (reflect.DeepEqual on
\* Labels must not tell a nil map from an empty one).
UnchangedClusterIgnored ==
    LET o == notif.old  n == notif.new IN
    (/\ notif.kind \in T!ClusterKinds /\ notif.op = "Update" /\ ~IsNil(o)
     /\ ~n.paused /\ o.paused = n.paused
     /\ notif.kind = "SveltosCluster" => o.ready = n.ready
     /\ T!SameLabels(o.labels, n.labels))
        => verdict = FALSE

=============================================================================
