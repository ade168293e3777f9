CONSTANTS
    v1 = v1
    v2 = v2
    m1 = m1
    m2 = m2
    Nil = Nil
    Validators = {v1}
    MadIDs = {m1}
    MaxEpoch = 2
    SetHorizon = 0
    MaxDeposits = 1
    Word = 65536
SPECIFICATION PSpec
CHECK_DEADLOCK FALSE
INVARIANTS
    FinalizeMigratesAllDeposits
