\* One job, no crash: is what was not fetched, or read and not yielded, still there for a later walk?
\* TLC refutes each, and stops at the first: leave the one to look at.
SPECIFICATION Spec
CONSTANTS
    Jobs = {j1}
    Pages <- MCApart
    Settings <- MCEnds
    Invalid = {}
    Unwanted = {}
    Budget = 2
    Attempts = 2
    MaxConsecutiveErrors = 2
    MaxCrashes = 0
INVARIANTS
    FailedPageIsNotRetired
    UnyieldedStaysAvailable
