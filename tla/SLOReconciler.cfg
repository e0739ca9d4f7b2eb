CONSTANTS
    Apps = {a1}
    NoAnn = NoAnn
    Junk = Junk
    NaNText = NaNText
    NaN = NaN
    ObjAnnotations <- MCObjAnnotations
    ThrAnnotations <- MCThrAnnotations
    StoredObjectives <- MCStoredObjectives
    DefaultBuckets <- MCDefaultBuckets
    MaxAnnChanges = 1
    MaxSaveFailures = 1
SPECIFICATION Spec
INVARIANTS TypeOK ReconciledWithAnnotations
PROPERTIES Converges
