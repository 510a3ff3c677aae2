\* Two jobs over one index and one memory file, and one death of the process.
SPECIFICATION Spec
CONSTANTS
    Jobs = {j1, j2}
    Pages <- MCPages
    Settings <- MCSettings
    Invalid = {"x"}
    Unwanted = {"b"}
    Budget = 2
    Attempts = 2
    MaxConsecutiveErrors = 2
    MaxCrashes = 1
INVARIANTS
    TypeOK
    CursorAccountsForPages
PROPERTIES
    NeverServedTwice
    WalksEnd
CHECK_DEADLOCK FALSE
