\* One execution with retries.  Either the process dies, requests are given up,
\* and the task is closed or the execution cancelled; or people work on the task
\* themselves, while its claim runs out, and runs are judged or fail; or computers
\* lose their connection, run leases lapse and agents are moved.
SPECIFICATION Spec
CONSTANTS
    e1 = e1
    e2 = e2
    t1 = t1
    t2 = t2
    None = None
    TaskIds = {t1}
    Executions = {e1}
    Computers = {c1, c2}
    ConnLeases = {l1, l2}
    Capabilities = {p1}
    Order <- MCAlone
    Worker = w
    Reviewers = {r1, r2}
    Creator = creator
    CancelOps = {o1}
    Manual = manual
    MaxAttempts = 2
    Quiet = 5
    MaxRevision = 20
    Disturbances <- MCDisturbances
    MaxMoves = 1
    Parents <- MCNoParents
SYMMETRY MCSymmetry
INVARIANTS TypeOK EndsWithTask HandoffBeforeReview ResultsWereReported RunsAreCounted RunsStayHome
PROPERTIES LateResultsIgnored
