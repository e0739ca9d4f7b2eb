------------------------- MODULE MC_SLOReconciler --------------------------
EXTENDS SLOReconciler

\* Percentages and durations (ms) the annotations and the store may hold.
MCObjAnnotations == {NoAnn, Junk, 0, 99}
MCObjAnnotationsNaN == {NoAnn, NaNText, 99}
MCThrAnnotations == {NoAnn, Junk, 100, 300}
MCThrAnnotationsValid == {NoAnn, 300}
MCStoredObjectives == {0, 95}
MCDefaultBuckets == <<100, 250, 500>>
=============================================================================
