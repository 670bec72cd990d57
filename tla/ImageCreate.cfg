\* Two workers, two registries: every order of the login goroutines.
CONSTANTS
    NumWorkers = 2
    Registries = {r1, r2}
    BuildNumber <- OlderFirst
SPECIFICATION FairSpec
INVARIANTS IInv IdBehindShipping LostToASuccess LeaksFromDialLoop
PROPERTIES ShippedOnce Returns
