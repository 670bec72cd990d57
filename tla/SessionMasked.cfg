\* No fault at all: an error returned while the shell exits is lost.
CONSTANTS
    NumCommands = 1
    MaxAttempts = 1
    Faults = FALSE
    Tearing = FALSE
SPECIFICATION Spec
INVARIANTS ErrorIsReturned
