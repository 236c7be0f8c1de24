\* One worker, which may hang.
CONSTANTS
    Workers = {"e1"}
    Enrichers = {"e1"}
    FailureThreshold = 3
    MaxBlocks = 1
SPECIFICATION FairSupervisionSpec
PROPERTIES
    HungIsRestarted
CHECK_DEADLOCK FALSE
