CONSTANTS
    j1 = j1
    j2 = j2
    w1 = w1
    w2 = w2
    w3 = w3
    Job = {j1, j2}
    Email = {j1}
    Worker = {w1, w2, w3}
    NoJob = NoJob
    NoWorker = NoWorker
    MaxAttempts <- MCMaxAttempts
    LockTimeout = 2
    BaseDelay = 1
    MaxDelay = 2
    Horizon = 1
SPECIFICATION LiveSpec
INVARIANTS
    TypeOK
    AttemptsAreSound
PROPERTIES
    EveryJobSettles
    ImplementsPromise
