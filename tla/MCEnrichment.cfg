\* Two workers with one configuration and one document of five chunks.
CONSTANTS
    Workers = {"e1", "e2"}
    Configs = {"small"}
    Chunking <- FiveOrOne
    EmbedSize = 2
    UpsertSize = 3
    Answers = {"lease", "unknown"}
    Unannounced = Unannounced
    NoPoint = NoPoint
SPECIFICATION EnrichmentSpec
INVARIANTS
    EnrichmentTypeOK
    VectorsMatchTexts
    AnnouncedIsSearchable
PROPERTIES
    AnnouncedOnce
    ImplementsReadSide
CHECK_DEADLOCK FALSE
