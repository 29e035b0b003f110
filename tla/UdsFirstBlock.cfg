SPECIFICATION Spec
CONSTANTS
    Modulus = 256
    Services = {"download"}
    Adapter = TRUE
    Faults = FALSE
    Functional = FALSE
    MaxBlocks = 3
INVARIANT
    FirstBlockAccepted
