\* A subject that repeats itself: is it the mutant that E3 concludes from, and is the holdout new?
\* TLC refutes each, and stops at the first: leave the one to look at.
SPECIFICATION Spec
CONSTANTS
    InputOf <- MCInputOf
    Kinds = {"u", "v"}
    MutantKinds = {"u"}
    Runs = 2
    ChunkSize = 2
    TimedCount = 1
    DiscardInverse = 4
    MutationAttempts = 2
INVARIANTS
    BiteIsTheMutants
    HoldoutIsNew
