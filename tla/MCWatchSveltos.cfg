\* A SveltosCluster alone, through a watch that may break once.
CONSTANTS
    Panic = Panic
    sc = sc  cc = cc  m = m  m2 = m2  cs = cs  hcr = hcr  hc = hc
    Objects <- SveltosObjects
    Kind <- ObjectKind
    Owner <- MachineOwner
    LabelValues = {l1, l2}
    FeatureValues <- FeatureSet
    NoFeatures = "nil"
    Payloads = {p1, p2}
    Phases <- PhaseValues
    MaxMutations = 3
    MaxRelists = 1
    RelistKinds = {"Cluster", "SveltosCluster", "Machine"}
    MaxFailures = 0
    MaxRestarts = 0
SPECIFICATION Spec
PROPERTY ImplementsContract
PROPERTY EnqueueNeedsChange
PROPERTY EventuallyCurrent
CHECK_DEADLOCK FALSE
