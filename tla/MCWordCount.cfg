SPECIFICATION Spec
CONSTANTS
    Word <- MCWord
    Count <- MCCount
    Malformed = Malformed
    Missing = Missing
    None = None
    MaxLines = 4
INVARIANTS
    SumsAgree
    OnlyLastMissing
CHECK_DEADLOCK FALSE
