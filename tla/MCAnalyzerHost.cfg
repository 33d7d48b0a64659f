SPECIFICATION FairSpec
CONSTANTS
    Job <- MCJob
    GenreJobs <- MCGenreJobs
    FileCounts <- MCFileCounts
    MaxWorkers = 3
INVARIANTS
    SettledAfterLoop
PROPERTIES
    JobsAsAlone
    LoopEnds
