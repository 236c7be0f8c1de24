\* Two fair relay replicas, batches smaller than the backlog, rollbacks; every
\* row within the size the producer takes.
CONSTANTS
    Docs = {"d1", "d2"}
    Topics = {"ingested"}
    Partitions = {1}
    PartitionOf <- OnePartition
    MaxAttempts = 2
    NoMessage = NoMessage
    Relays = {r1, r2}
    BatchSize = 2
    Payloads = {"text"}
    Oversized = {}
    MaxRollbacks = 1
    MaxRows = 3
    MaxRefusals = 0
    MaxRetries = 1
SPECIFICATION FairOutboxSpec
INVARIANTS
    OutboxTypeOK
    PublishedIsOnBus
    BusHasRows
    RepublishedOnlyAfterRollback
PROPERTIES
    StagedIsPublished
CHECK_DEADLOCK FALSE
