SPECIFICATION Spec
CONSTANTS
    Line <- MCLine
    Scenario <- MCScenario
    Script <- MCScript
    Projects <- MCProjects
    Backends = {"remote", "local-process"}
    Foreign <- MCForeign
    Spans <- MCSpans
    Runs = 2
    HarvestLimit = 4
    PerFamily = 2
INVARIANTS
    IgnoredInputIsNoWorkload
    HeldOutWorkloads
    FullMarksMeanTheReference
CHECK_DEADLOCK FALSE
