\* A CAPI Cluster with two Machines whose phases change independently.
CONSTANTS
    Panic = Panic
    sc = sc  cc = cc  m = m  m2 = m2  cs = cs  hcr = hcr  hc = hc
    Objects <- TwoMachineObjects
    Kind <- ObjectKind
    Owner <- MachineOwner
    LabelValues = {l1, l2}
    FeatureValues <- FeatureSet
    NoFeatures = "nil"
    Payloads = {p1, p2}
    Phases <- PhaseValues
    MaxMutations = 2
    MaxRelists = 1
    RelistKinds = {"Machine"}
    MaxFailures = 1
    MaxRestarts = 0
SPECIFICATION Spec
PROPERTY ImplementsContract
CHECK_DEADLOCK FALSE
