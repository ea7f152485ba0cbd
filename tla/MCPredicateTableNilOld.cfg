\* An Update whose old object is an untyped nil interface.
CONSTANTS
    Panic = Panic
    NilLabels = NilLabels
    EmptyLabels = EmptyLabels
    OtherLabels = {la}
    UseEmptyLabels = FALSE
    UseNilInterface = TRUE
SPECIFICATION Spec
INVARIANT AbsentOldIsRelevant
