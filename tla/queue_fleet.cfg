SPECIFICATION Spec
CONSTANTS
    Worker = {w1, w2}
    Job = {j1}
    Requeued = {j1}
    MaxAttempts = 2
    Faults = {"any_crash", "slow_job", "resent"}
    MaxFaults = 1
    MaxBacklog = 1
    NoRaw = NoRaw
SYMMETRY Symmetry
INVARIANTS AttemptsBounded
PROPERTIES ImplementsDelivery
