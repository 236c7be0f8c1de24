\* An extraction worker and two enrichment workers that start together.
CONSTANTS
    Workers = {"x", "e1", "e2"}
    Enrichers = {"e1", "e2"}
    FailureThreshold = 2
    MaxBlocks = 1
SPECIFICATION FairSupervisionSpec
INVARIANTS
    SupervisionTypeOK
    ConsumesWithStores
PROPERTIES
    BackToWork
CHECK_DEADLOCK FALSE
