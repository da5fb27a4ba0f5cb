\* Two tasks, either of them the other's child, over shared artifact keys.
CONSTANTS
    t1 = t1
    t2 = t2
    TaskIds = {t1, t2}
    Actors = {a1}
    LeaseIds = {l1, l2}
    ArtifactKeys = {k1, k2}
    Digests = {d1}
    None = None
    MaxRevision <- MCMaxRevision
SPECIFICATION Spec
SYMMETRY MCSymmetry
VIEW MCView
INVARIANTS TypeOK ReviewBindsContract DoneWasReviewed RefsResolve
PROPERTIES LiveClaimIsExclusive ParentWaits RecordsStay
CHECK_DEADLOCK FALSE
