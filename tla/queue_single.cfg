SPECIFICATION FairSpec
CONSTANTS
    Worker = {w1}
    Job = {j1, j2}
    Requeued = {j2}
    MaxAttempts = 3
    Faults = {"run_crash", "any_crash", "redis_error"}
    MaxFaults = 1
    MaxBacklog = 3
    NoRaw = NoRaw
INVARIANTS NoJobLost AttemptsBounded HeartbeatHasEntry WorkIsRecoverable OneEntryPerJob
PROPERTIES EveryJobSettles
