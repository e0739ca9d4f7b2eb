CONSTANTS
    Apps = {a1}
    NoAnn = NoAnn
    Junk = Junk
    NaNText = NaNText
    NaN = NaN
    ObjAnnotations <- MCObjAnnotationsNaN
    ThrAnnotations <- MCThrAnnotationsValid
    StoredObjectives <- MCStoredObjectives
    DefaultBuckets <- MCDefaultBuckets
    MaxAnnChanges = 1
    MaxSaveFailures = 1
SPECIFICATION Spec

PROPERTIES IdempotentReapply
