\* ClusterSummary, HealthCheckReport and HealthCheck notifications; the report
\* and health-check watches may break once.
CONSTANTS
    Panic = Panic
    sc = sc  cc = cc  m = m  m2 = m2  cs = cs  hcr = hcr  hc = hc
    Objects <- StatusObjects
    Kind <- ObjectKind
    Owner <- MachineOwner
    LabelValues = {l1, l2}
    FeatureValues <- FeatureSet
    NoFeatures = "nil"
    Payloads = {p1, p2}
    Phases <- PhaseValues
    MaxMutations = 2
    MaxRelists = 1
    RelistKinds = {"HealthCheckReport", "HealthCheck"}
    MaxFailures = 1
    MaxRestarts = 0
SPECIFICATION Spec
PROPERTY ImplementsContract
PROPERTY EnqueueNeedsChange
CHECK_DEADLOCK FALSE
