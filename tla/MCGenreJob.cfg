SPECIFICATION FairSpec
CONSTANTS
    drama = drama
    comedy = comedy
    NoOutput = NoOutput
    MaxGenres = 2
    Genre <- MCGenre
    Directories <- MCDirectories
INVARIANTS
    TypeOK
    CountsExact
    ExactWhenNoneLate
PROPERTIES
    ImplementsAtomicTally
    ImplementsHostedJob
    EveryStepShortens
    JobEnds
    CallbacksEnd
    QuietJobCompletes
