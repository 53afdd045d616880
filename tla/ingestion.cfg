SPECIFICATION SpecAll
CONSTANTS
    Worker = {w1}
    Job = {j1, j2}
    Requeued = {j2}
    MaxAttempts = 2
    Faults = {"run_crash", "any_crash", "redis_error", "ghost_job"}
    MaxFaults = 1
    MaxBacklog = 3
    NoRaw = NoRaw
    Document = {d1}
    DocumentOf <- OneDocument
    Backends = {"qdrant", "pgvector"}
    DataFaults = {"torn_delete"}
    MaxVersion = 3
INVARIANTS TypeOKData ReadyIsSearchable NoDoubledCorpus NoStrandedDocument
