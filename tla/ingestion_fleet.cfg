SPECIFICATION SpecAll
CONSTANTS
    Worker = {w1, w2}
    Job = {j1, j2}
    Requeued = {j2}
    MaxAttempts = 2
    Faults = {}
    MaxFaults = 0
    MaxBacklog = 1
    NoRaw = NoRaw
    Document = {d1}
    DocumentOf <- OneDocument
    Backends = {"qdrant", "pgvector"}
    DataFaults = {}
    MaxVersion = 4
INVARIANTS ReadyIsSearchable
