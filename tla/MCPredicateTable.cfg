\* The predicates against the spec's decision table, over the notifications
\* the informer delivers: old objects are never an untyped nil and label
\* maps decoded from the API server are never empty-but-non-nil.
CONSTANTS
    Panic = Panic
    NilLabels = NilLabels
    EmptyLabels = EmptyLabels
    OtherLabels = {la, lb}
    UseEmptyLabels = FALSE
    UseNilInterface = FALSE
SPECIFICATION Spec
INVARIANT MatchesTable
