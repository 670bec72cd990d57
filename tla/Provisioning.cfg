\* Every host that never had docker or has one that works, and four attempts:
\* the script, its repetitions, a restart of the host, the confirmation.
CONSTANT MaxAttempts = 4
SPECIFICATION SpecProvisioning
INVARIANTS IInv HostIInv NilIsReady OneConnection LeakIsAbandoned ReadyRunsNew LeftRepeatable
PROPERTIES ProvisionedOnce Returns
