\* One job, no crash, no deadline: does a walk over an index like that of Go modules end?
SPECIFICATION Spec
CONSTANTS
    Jobs = {j1}
    Pages <- MCPages
    Settings <- MCEndless
    Invalid = {"x"}
    Unwanted = {"b"}
    Budget = 2
    Attempts = 2
    MaxConsecutiveErrors = 2
    MaxCrashes = 0
PROPERTY StreamHasAnEnd
CHECK_DEADLOCK FALSE
