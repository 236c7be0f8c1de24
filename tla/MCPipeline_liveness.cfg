\* One document, one worker per topic, fair processes, faults of every kind.
CONSTANTS
    Docs = {"d1"}
    Topics = {"ingested", "extracted", "enriched"}
    Partitions = {1}
    PartitionOf <- OnePartition
    MaxAttempts = 2
    NoMessage = NoMessage
    FaultKinds = {"crash", "rebalance", "lostAck", "lostSession"}
    MaxFaults = 2
    Workers = {"x", "e", "p"}
    WorkerTopic <- WorkerPerTopic
    Relays = {r1}
    BatchSize = 2
    Payloads <- AnyPayload
    Oversized = {}
    MaxRollbacks = 0
    Batches <- OneBatch
    Results = {lease}
    NoResult = NoResult
    NoJob = NoJob
    ServiceFaults = {"createUnacked", "markFailed"}
SPECIFICATION FairPipelineSpec
PROPERTIES
    ImplementsFairContract
    JobsSettle
CHECK_DEADLOCK FALSE
