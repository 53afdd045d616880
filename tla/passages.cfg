SPECIFICATION Spec
CONSTANTS
    Target = 20
    Overlap = 5
    MinChunk = 6
    MinText = 2
    RrfK = 60
    MaxRank = 4
    MaxPerDocument = 2
    MaxTerms = 2
    MaxTurns = 2
    Floor = 2
    MaxQuotes = 3
    MaxClosest = 1
    Insignificant = {"the", "it", "QUOTE"}
    Short = {"the", "it", "QUOTE", "cat"}
    Skip = {0, 4}
    Limit = {1, 2, 3, 4}
    File <- MCFile
    Ranking <- MCRanking
    Corpus <- MCCorpus
    Answer <- MCAnswer
    Prompt <- MCPrompt
    Query <- MCQuery
    Source <- MCSource
    Golden <- MCGolden
INVARIANTS
    TextKept ChunksWellSized AgreementFirst SelectionDiverse
    CitationsResolve PromptFaithful MetricsAgree
CHECK_DEADLOCK FALSE
