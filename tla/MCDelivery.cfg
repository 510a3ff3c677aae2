SPECIFICATION Spec
CONSTANTS
    Subjects <- MCSubjects
    Exporter = {a, b}
    MaxFaults = 1
    MaxExports = 3
    MaxRewrites = 1
    MaxCrashes = 1
INVARIANTS
    MetadataIsOneExport
    DeliveredWasDriven
SYMMETRY Exporters
CHECK_DEADLOCK FALSE
