SPECIFICATION Spec
CONSTANTS
    Worker = {w1}
    Job = {j1}
    Requeued = {}
    MaxAttempts = 2
    Faults = {"backoff_crash"}
    MaxFaults = 1
    MaxBacklog = 2
    NoRaw = NoRaw
INVARIANTS NoJobLost
