SPECIFICATION FairSpec
CONSTANTS
    t1 = t1
    t2 = t2
    f1 = f1
    w1 = w1
    w2 = w2
    NoJob = NoJob
    Tasks <- MCTasks
    Fingerprints <- MCFingerprints
    Fp <- MCFp
    Workers <- MCWorkers
    MaxRetries = 3
    MaxFaults = 0
PROPERTIES
    RetryIsNotDuplicate
CHECK_DEADLOCK FALSE
