\* A ClusterSummary whose watch may break once: a summary created and given
\* its status during the gap reaches the informer as one Create carrying the
\* status.
CONSTANTS
    Panic = Panic
    sc = sc  cc = cc  m = m  m2 = m2  cs = cs  hcr = hcr  hc = hc
    Objects <- SummaryObjects
    Kind <- ObjectKind
    Owner <- MachineOwner
    LabelValues = {l1, l2}
    FeatureValues <- FeatureSet
    NoFeatures = "nil"
    Payloads = {p1, p2}
    Phases <- PhaseValues
    MaxMutations = 3
    MaxRelists = 1
    RelistKinds = {"ClusterSummary"}
    MaxFailures = 0
    MaxRestarts = 0
SPECIFICATION Spec
INVARIANT NoLostTrigger
CHECK_DEADLOCK FALSE
