\* The failure of a login is overwritten by the success of another worker.
CONSTANTS
    NumWorkers = 2
    Registries = {r1}
    BuildNumber <- OlderFirst
SPECIFICATION Spec
INVARIANTS LoginFailureIsReported
