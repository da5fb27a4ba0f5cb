\* The documented read-back promise, against a reused operation id.
CONSTANTS
    t1 = t1
    t2 = t2
    TaskIds = {t1, t2}
    Actors = {a1}
    LeaseIds = {l1}
    ArtifactKeys = {k1, k2}
    Digests = {d1}
    None = None
    MaxRevision <- MCMaxRevision
SPECIFICATION Spec
INVARIANTS TasksReadable
CHECK_DEADLOCK FALSE
