\* A parent task and its child, each dispatched by an execution of its own, until
\* both come to rest.
SPECIFICATION FairSpec
CONSTANTS
    e1 = e1
    e2 = e2
    t1 = t1
    t2 = t2
    None = None
    TaskIds = {t1, t2}
    Executions = {e1, e2}
    Computers = {c1}
    ConnLeases = {l1}
    Capabilities = {p1}
    Order <- MCBoth
    Worker = w
    Reviewers = {r1}
    Creator = creator
    CancelOps = {o1}
    Manual = manual
    MaxAttempts = 1
    Quiet = 0
    MaxRevision = 20
    Disturbances = {{"cancel", "reject", "needs_human", "failure", "error"}}
    MaxMoves = 0
    Parents <- MCFamily
PROPERTIES ExecutionsSettle
