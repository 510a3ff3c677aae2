\* A subject that repeats itself: who is charged when a chunk of one run is lost?
SPECIFICATION Spec
CONSTANTS
    InputOf <- MCInputOfLong
    Kinds = {"u", "v"}
    MutantKinds = {"u"}
    Runs = 2
    ChunkSize = 2
    TimedCount = 1
    DiscardInverse = 4
    MutationAttempts = 2
INVARIANT DiscardsAreTheSubjects
