\* Two rolls of different scales over two slots, one of which a failing set-up may lose.
SPECIFICATION Spec
CONSTANTS
    Jobs <- MCJobs
    Supply <- MCSupply
    Repositories = {"x", "y"}
    RepositoryOf <- MCRepositoryOf
    Scales = {"module", "repo"}
    ScaleOf <- MCScaleOf
    Target = 2
    AttemptLimit = 3
    Ask = 3
    Workers = 2
    Slots = 2
    Cap = 2
    SetUpFailures = 1
INVARIANTS
    RollStaysInBounds
    CapHolds
    SlotsAreAccountedFor
    StopsOnlyForAReason
PROPERTY RollsFinish
