\* The documented identity of the active run, across crashes.
SPECIFICATION Spec
CONSTANTS
    e1 = e1
    e2 = e2
    t1 = t1
    t2 = t2
    None = None
    TaskIds = {t1}
    Executions = {e1}
    Computers = {c1}
    ConnLeases = {l1}
    Capabilities = {p1}
    Order <- MCAlone
    Worker = w
    Reviewers = {r1}
    Creator = creator
    CancelOps = {}
    Manual = manual
    MaxAttempts = 1
    Quiet = 0
    MaxRevision = 20
    Disturbances = {{"crash", "reject", "needs_human", "failure", "error"}}
    MaxMoves = 0
    Parents <- MCNoParents
SYMMETRY MCSymmetry
INVARIANTS ActiveHasCommand
