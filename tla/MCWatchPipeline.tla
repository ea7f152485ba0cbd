-------------------------- MODULE MCWatchPipeline --------------------------
(***************************************************************************)
(* Instances of WatchPipeline for TLC: the objects, their kinds and the    *)
(* machine ownership are fixed by definitions the .cfg files select.       *)
(***************************************************************************)
EXTENDS WatchPipeline, TLC

CONSTANTS sc, cc, m, m2, cs, hcr, hc

\* Both machines belong to the CAPI Cluster.
MachineOwner   == (m :> cc) @@ (m2 :> cc)

\* A SveltosCluster on its own.
SveltosObjects == {sc}

\* A CAPI Cluster with one Machine.
CapiObjects    == {cc, m}

\* A CAPI Cluster with two Machines.
TwoMachineObjects == {cc, m, m2}

\* A ClusterSummary, a HealthCheckReport and a HealthCheck.
StatusObjects  == {cs, hcr, hc}

\* A ClusterSummary and a HealthCheckReport.
RestartObjects == {cs, hcr}

\* A ClusterSummary on its own.
SummaryObjects == {cs}

ObjectKind     == (sc :> "SveltosCluster") @@ (cc :> "Cluster") @@ (m :> "Machine")
                    @@ (m2 :> "Machine")
                    @@ (cs :> "ClusterSummary") @@ (hcr :> "HealthCheckReport")
                    @@ (hc :> "HealthCheck")

\* A registry wired without the SveltosCluster predicate.

PhaseValues    == {"Unknown", "Running", "Failed"}
FeatureSet     == {"nil", "f1", "f2"}

=============================================================================
