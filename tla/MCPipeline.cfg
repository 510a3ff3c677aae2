\* One candidate, every combination of optional gates, one rewrite of the task.
SPECIFICATION Spec
CONSTANTS
    Checks <- MCChecks
    Late <- MCLate
    Delegate = "cannot-delegate"
    Bite = "channels-bite"
    MaxRewrites = 1
INVARIANTS
    TypeOK
    EmittedIsEstablished
    EvidenceIsKept
    MarksAreEarned
    NamedOutageIsOurs
PROPERTIES
    ReplayEvidenceIsForTheseBytes
    ImplementsContract
CHECK_DEADLOCK FALSE
