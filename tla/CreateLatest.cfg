\* os_build is recorded as 0 for every worker.
CONSTANTS
    NumWorkers = 2
    Registries = {r1}
    BuildNumber <- OlderFirst
SPECIFICATION Spec
INVARIANTS LatestManifests
