\* What is left of the archive when a line is written in part.
CONSTANTS
    c1 = c1
    c2 = c2
    t1 = t1
    t2 = t2
    alice = alice
    bob = bob
    general = general
    review = review
    code = code
    lease = lease
    r1 = r1
    r2 = r2
    m1 = m1
    m2 = m2
    talk = talk
    w1 = w1
    w2 = w2
    glyph = glyph
    Moving = {"window"}
    JobIds = {1, 2}
    Owners = {alice}
    NoOwner = NoOwner
    ClaimLimit = 2
    MaxClaims = 1
    MaxJobCrashes = 1
    Calls = {c1, c2}
    Attempts = {t1, t2}
    MaxTries = 3
    MaxApprovalCrashes = 1
    Agents = {alice, bob}
    Conversations = {general, review}
    Ranks = {0, 1}
    Leases = {lease}
    NoLease = NoLease
    MaxRecipients = 1
    MaxMessages = 3
    MaxDrafts = 1
    MaxMarks = 3
    Automations = {1, 2}
    Every = 1
    Threshold = 2
    LastTime = 1
    MaxResumes = 1
    MaxCuts = 1
    MaxMisreads = 1
    Models = {1, 2}
    Capabilities = {code}
    MaxOperations = 4
    Roles = {1, 2}
    Budgets = {2}
    MaxLockfiles = 1
    Runs = {r1, r2}
    Seconds = 2
    Nanoseconds = 1000000000
    Quickest = 0
    MaxConcurrent = 1
    MaxBreaks = 1
    AnyLength = {r1}
    Events = {m1, m2}
    Chats = {talk}
    Workers = {w1, w2}
    QueueSize = 1
    MaxAttempts = 2
    MaxStops = 1
    None = None
    Sizes = {1, 3, 6}
    MarkerSize = 2
    Long = 2
    MaxTool = 4
    Budget = 10
    RecentMessages = 2
    MinTail = 2
    Tears = TRUE
    MaxTurns = 3
    Letter = glyph
    MaxFile = 4
    MaxFragment = 3
    Replacements <- MCReplacements
    OperationIds = {1, 2}
    Contents = {3, 4}
    MaxRevision = 3
SPECIFICATION Spec
INVARIANTS NothingIsLost
CHECK_DEADLOCK FALSE
