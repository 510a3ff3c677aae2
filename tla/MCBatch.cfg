\* Two candidates, one permit or two, two restarts over the same checkpoint.
SPECIFICATION Spec
CONSTANTS
    Count = 2
    Limits = {1, 2}
    MaxRestarts = 2
INVARIANTS
    TypeOK
    PermitsAddUp
    OneAtATimeIsItsOwn
PROPERTIES
    SettledIsNotRepeated
    StopMeansStop
    BatchEnds
CHECK_DEADLOCK FALSE
