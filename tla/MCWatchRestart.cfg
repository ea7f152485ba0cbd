\* A ClusterSummary and a HealthCheckReport across a controller restart.
CONSTANTS
    Panic = Panic
    sc = sc  cc = cc  m = m  m2 = m2  cs = cs  hcr = hcr  hc = hc
    Objects <- RestartObjects
    Kind <- ObjectKind
    Owner <- MachineOwner
    LabelValues = {l1, l2}
    FeatureValues <- FeatureSet
    NoFeatures = "nil"
    Payloads = {p1, p2}
    Phases <- PhaseValues
    MaxMutations = 3
    MaxRelists = 0
    RelistKinds = {}
    MaxFailures = 0
    MaxRestarts = 1
SPECIFICATION Spec
PROPERTY ImplementsContract
PROPERTY EventuallyCurrent
CHECK_DEADLOCK FALSE
