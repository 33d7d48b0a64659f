SPECIFICATION FairSpec
CONSTANTS
    FirstDay = 3
    LastDay = 4
    MinDate = 2
    Letters = 3
INVARIANTS
    TypeOK
    GapsAreFailures
    LettersButTheLast
PROPERTIES
    ImplementsDateArchive
    CatchesUp
