\* The same batch: is every task about the candidate it was built for?
SPECIFICATION Spec
CONSTANTS
    Count = 2
    Limits = {2}
    MaxRestarts = 0
INVARIANT TaskDescribesItsCandidate
CHECK_DEADLOCK FALSE
