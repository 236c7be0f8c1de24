\* chunk_size is raised while a document is being enriched.
CONSTANTS
    Workers = {"e1"}
    Configs = {"small", "large"}
    Chunking <- FiveOrOne
    EmbedSize = 2
    UpsertSize = 3
    Answers = {"lease"}
    Unannounced = Unannounced
    NoPoint = NoPoint
SPECIFICATION EnrichmentSpec
INVARIANTS
    AnnouncedIsSearchable
CHECK_DEADLOCK FALSE
