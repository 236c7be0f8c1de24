\* One document, two enrichment workers the partition moves between, faults of
\* every kind.
CONSTANTS
    Docs = {"d1"}
    Topics = {"ingested", "extracted", "enriched"}
    Partitions = {1}
    PartitionOf <- OnePartition
    MaxAttempts = 2
    NoMessage = NoMessage
    FaultKinds = {"crash", "rebalance", "lostAck", "lostSession"}
    MaxFaults = 1
    Workers = {"x", "e", "e2", "p"}
    WorkerTopic <- TwoEnrichers
    Relays = {r1}
    BatchSize = 2
    Payloads <- AnyPayload
    Oversized = {}
    MaxRollbacks = 1
    Batches <- TwoBatches
    Results = {lease, invoice}
    NoResult = NoResult
    NoJob = NoJob
    ServiceFaults = {"upload", "markFailed"}
SYMMETRY ResultSymmetry
SPECIFICATION PipelineSpec
INVARIANTS
    PipelineTypeOK
    OneEventPerStage
    AnnouncedIsStored
    ReadModelAgrees
    StatusMatchesEvents
    FailedIsParked
    NothingStranded
PROPERTIES
    ImplementsContract
    ImplementsReadSide
    ResultsAreFinal
CHECK_DEADLOCK FALSE
