CONSTANTS
    v1 = v1
    v2 = v2
    m1 = m1
    m2 = m2
    Nil = Nil
    Validators = {v1}
    MadIDs = {m1}
    MaxEpoch = 7
    SetHorizon = 0
    MaxDeposits = 0
    Word = 65536
SPECIFICATION PSpec
CHECK_DEADLOCK FALSE
INVARIANTS
    LatestSnapshotsMigrated
