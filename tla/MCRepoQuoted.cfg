\* What it means to depend on an input, to be timed for it, and to be repaired.
\* TLC refutes each, and stops at the first: leave the one to look at.
SPECIFICATION Spec
CONSTANTS
    Line <- MCLine
    Scenario <- MCScenario
    Script <- MCScript
    Projects <- MCProjects
    Backends = {"remote", "local-process"}
    Foreign <- MCForeign
    Spans <- MCSpans
    Runs = 2
    HarvestLimit = 4
    PerFamily = 2
INVARIANTS
    SensitiveMeansRead
    TimedWasSensitive
    RepairProposes
CHECK_DEADLOCK FALSE
