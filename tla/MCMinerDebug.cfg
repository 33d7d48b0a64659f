SPECIFICATION Spec
CONSTANTS
    FirstDay = 3
    LastDay = 5
    MinDate = 2
    Letters = 3
INVARIANTS
    TypeOK
    OneFilePerFolder
    FirstAnswerStopsPass
PROPERTIES
    FilesFinal
    EmptyFolderBlocks
    ImplementsDateArchive
