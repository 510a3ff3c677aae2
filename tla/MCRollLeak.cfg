\* One slot, and one candidate whose set-up raises: does the roll move on?
SPECIFICATION Spec
CONSTANTS
    Jobs <- MCJobs
    Supply <- MCSupply
    Repositories = {"x", "y"}
    RepositoryOf <- MCRepositoryOf
    Scales = {"module", "repo"}
    ScaleOf <- MCScaleOf
    Target = 2
    AttemptLimit = 3
    Ask = 3
    Workers = 2
    Slots = 1
    Cap = 2
    SetUpFailures = 1
PROPERTY RollsFinish
CHECK_DEADLOCK FALSE
