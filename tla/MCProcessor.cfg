CONSTANTS
    v1 = v1
    v2 = v2
    m1 = m1
    m2 = m2
    Nil = Nil
    Validators <- MCValidators
    MadIDs <- MCMadIDs
    MaxEpoch = 3
    SetHorizon = 1
    MaxDeposits = 1
    Word = 65536
SPECIFICATION PSpec
CHECK_DEADLOCK FALSE
INVARIANTS
    TypeOK
    RewardsFromLastMigration
