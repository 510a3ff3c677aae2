\* Four probes, two runs, every way for the subject to meet them and for the wire to fail.
SPECIFICATION Spec
CONSTANTS
    InputOf <- MCInputOf
    Kinds = {"u", "v", "refusal", "flaky", "exits", "crashes"}
    MutantKinds = {"u", "crashes"}
    Runs = 2
    ChunkSize = 2
    TimedCount = 1
    DiscardInverse = 4
    MutationAttempts = 2
INVARIANTS
    TypeOK
    GradedIsWhatTheSubjectSays
    TimedAreAnswers
    DeterministicIsKept
