CONSTANTS
    ProjectIds <- MCProjectIds
    Names <- MCNames
    Nil = Nil
    MaxAllocs = 2
SPECIFICATION Spec
INVARIANTS TypeOK ObjectsUnshared ListComplete ListCoversScopes
