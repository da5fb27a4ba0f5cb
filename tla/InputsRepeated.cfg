\* The commit that takes in a claim fails, and the one after it does not.
CONSTANTS
    o1 = o1
    o2 = o2
    i1 = i1
    i2 = i2
    NoOp = NoOp
    Ops = {o1}
    InputsOf <- MCInputsOf
    MaxTurns = 1
    ClaimLimit = 1
    MaxConcurrent = 1
    Thinking = FALSE
    MaxAdmissions = 2
    Failing = {"take"}
    MaxFaults = 1
SPECIFICATION Spec
INVARIANTS CommittedInputsAreGone
CHECK_DEADLOCK FALSE
