\* Two turns of a session, the first sent two inputs, with a crash of the
\* server or a commit that fails, retries of the turn and resumed runs, up to
\* two turns of the loop.
CONSTANTS
    o1 = o1
    o2 = o2
    i1 = i1
    i2 = i2
    NoOp = NoOp
    Ops = {o1, o2}
    InputsOf <- MCInputsOf
    MaxTurns = 2
    ClaimLimit = 1
    MaxConcurrent = 1
    Thinking = TRUE
    MaxAdmissions = 2
    Failing = {"admit", "shrink", "reflect", "answer", "observe"}
    MaxFaults = 1
SPECIFICATION FairSpec
VIEW MCView
INVARIANTS TypeOK UncutRunsReplay ConversationIsTurns
PROPERTIES EventNumbersRise DeliversInputs TurnsEnd
CHECK_DEADLOCK FALSE
