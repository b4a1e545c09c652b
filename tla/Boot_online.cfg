SPECIFICATION FairSpec
CONSTANTS
    MaximumRetry = 2
    MaxMishaps = 2
    RetryCount = 2
    Targets <- MCTargets
INVARIANTS TypeOK VerdictIsTrue LokMeansReady
PROPERTIES BootCompletes Discoverable StaysOnline Listens
CHECK_DEADLOCK FALSE
