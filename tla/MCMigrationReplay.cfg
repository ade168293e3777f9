CONSTANTS
    v1 = v1
    m1 = m1
    Nil = Nil
    Validators = {v1}
    MadIDs = {m1}
    MaxEpoch = 1
    SetHorizon = 0
    MaxDeposits = 1
    Word = 65536
    MaxRuns = 2
SPECIFICATION Spec
CHECK_DEADLOCK FALSE
INVARIANTS
    NoResendAfterReceipt
