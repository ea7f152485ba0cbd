\* Cluster label maps that are nil or non-nil but empty.
CONSTANTS
    Panic = Panic
    NilLabels = NilLabels
    EmptyLabels = EmptyLabels
    OtherLabels = {la}
    UseEmptyLabels = TRUE
    UseNilInterface = FALSE
SPECIFICATION Spec
INVARIANT UnchangedClusterIgnored
