SPECIFICATION FairSpec
CONSTANTS
    NoDate = NoDate
    NoOutput = NoOutput
    MaxMovies = 2
    Year <- MCYear
    Tasks <- MCTasks
INVARIANTS
    TypeOK
    CountsExact
    WrittenBetweenBeginAndNow
    ExactWhenNoneLate
    FaultMeansNewYear
PROPERTIES
    ImplementsHostedJob
    EveryStepShortens
    JobEnds
    CallbacksEnd
    KnownYearsComplete
