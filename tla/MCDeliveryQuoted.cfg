\* Whose a build on a failing wire is, and what the name of a delivery names.
\* TLC refutes each, and stops at the first: leave the one to look at.
SPECIFICATION Spec
CONSTANTS
    Subjects <- MCSubjects
    Exporter = {a, b}
    MaxFaults = 1
    MaxExports = 3
    MaxRewrites = 1
    MaxCrashes = 1
INVARIANTS
    BuildWireIsInconclusive
    NamedIsDriven
SYMMETRY Exporters
CHECK_DEADLOCK FALSE
