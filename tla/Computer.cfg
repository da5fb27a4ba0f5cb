\* One agent and two runs, moving between two computers whose connections
\* break, expire and come back with another capability.
CONSTANTS
    Computers = {c1, c2}
    Agents = {a1}
    Runs = {r1, r2}
    ConnLeases = {l1, l2, l3}
    RunLeaseIds = {x1}
    Capabilities = {p1, p2}
    Terms = {m1}
    Outcomes = {done}
    Ops = {o1, o2, o3, o4, o5, o6}
    None = None
SPECIFICATION Spec
SYMMETRY MCSymmetry
VIEW MCView
INVARIANTS TypeOK RunLeasesHold InOrder RunsOnPromisedCapability
PROPERTIES MovesAreSafe StaleCallsAreVoid
CHECK_DEADLOCK FALSE
