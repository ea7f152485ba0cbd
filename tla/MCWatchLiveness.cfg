\* Eventual consistency of the reconciler's reading of a CAPI Cluster and its
\* Machine, through watches that may break once and a reconcile that may fail.
CONSTANTS
    Panic = Panic
    sc = sc  cc = cc  m = m  m2 = m2  cs = cs  hcr = hcr  hc = hc
    Objects <- CapiObjects
    Kind <- ObjectKind
    Owner <- MachineOwner
    LabelValues = {l1, l2}
    FeatureValues <- FeatureSet
    NoFeatures = "nil"
    Payloads = {p1, p2}
    Phases <- PhaseValues
    MaxMutations = 2
    MaxRelists = 1
    RelistKinds = {"Cluster", "SveltosCluster", "Machine"}
    MaxFailures = 1
    MaxRestarts = 0
SPECIFICATION Spec
PROPERTY EventuallyCurrent
PROPERTY ContractQuiesces
CHECK_DEADLOCK FALSE
