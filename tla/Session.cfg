\* Two commands, in a row as in the manifest attempts or with retries as in the
\* push of two tags, with every fault.
CONSTANTS
    NumCommands = 2
    MaxAttempts = 4
    Faults = TRUE
    Tearing = TRUE
SPECIFICATION FairSpec
INVARIANTS IInv OwnOutput TrustedResult
PROPERTIES ContractSpec ReturnsUnlessTorn LeftoversEnd
