\* A signal read in two pieces is never recognised.
CONSTANTS
    NumCommands = 1
    MaxAttempts = 1
    Faults = FALSE
    Tearing = TRUE
SPECIFICATION FairSpec
PROPERTIES Returns
CHECK_DEADLOCK FALSE
