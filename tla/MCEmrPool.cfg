SPECIFICATION FairSpec
CONSTANTS
    Runner <- MCRunner
    Terminator <- MCTerminator
    Nobody = Nobody
    Flow <- MCFlow
    NumSteps <- MCNumSteps
    MaxSteps = 2
    PoolWaits <- MCPoolWaits
    SyncWait = 2
    Expiry = 0
INVARIANTS
    TypeOK
    OneOwner
    ViewIsCurrent
PROPERTIES
    SearchesShorten
    
