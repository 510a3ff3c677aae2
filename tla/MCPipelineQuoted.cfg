\* What the attestation is of, where the image gate asks its question, and whose the wire is.
\* TLC refutes each, and stops at the first: leave the one to look at.
SPECIFICATION Spec
CONSTANTS
    Checks <- MCChecks
    Late <- MCLate
    Delegate = "cannot-delegate"
    Bite = "channels-bite"
    MaxRewrites = 1
INVARIANTS
    StampMeansEmitted
    WhatShipsWasDriven
    WireIsNotTheMaterial
CHECK_DEADLOCK FALSE
