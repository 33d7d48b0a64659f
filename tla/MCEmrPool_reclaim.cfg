SPECIFICATION FairSpec
CONSTANTS
    Runner <- MCRunner
    Terminator <- MCTerminator
    Nobody = Nobody
    Flow <- MCFlow
    NumSteps <- MCNumSteps
    MaxSteps = 2
    PoolWaits <- MCPoolWaits
    SyncWait = 1
    Expiry = 1
PROPERTY
    OldLocksReclaimed
