\* What a corpus asks of an operation, what a name is unique for, and what a mutant serves.
\* TLC refutes each, and stops at the first: leave the one to look at.
SPECIFICATION Spec
CONSTANTS
    Jobs = {"a", "b"}
    Slots = 1
    Spaced = TRUE
    MaxAttempts = 3
    Patience = 3
    Gateway = {"good", "bad", "misshapen", "not json", "refused", "busy", "hot", "silent"}
    Candidates <- MCCandidates
    Batches <- MCBatches
    Titles <- MCTitles
    Endings = {"opt", "optimization", "optimisation", "perf", "faster", "rewrite"}
    Battery <- MCBattery
    Floor = 7
    ProbeCount = 8
    Coverage = 2
    MinOps = 2
    Sampled <- MCSampled
INVARIANTS
    EveryOperationIsAskedTwice
    UniquenessIsStructural
    MutantIsServed
CHECK_DEADLOCK FALSE
