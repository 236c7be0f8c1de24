\* Two relay replicas, and a row the producer refuses with others ahead of it in
\* the batch.
CONSTANTS
    Docs = {"d1", "d2"}
    Topics = {"enriched"}
    Partitions = {1}
    PartitionOf <- OnePartition
    MaxAttempts = 2
    NoMessage = NoMessage
    Relays = {r1, r2}
    BatchSize = 2
    Payloads = {"text"}
    Oversized <- SecondRefused
    MaxRollbacks = 1
    MaxRows = 3
    MaxRefusals = 2
    MaxRetries = 0
SPECIFICATION MCOutboxSpec
INVARIANTS
    PublishedIsOnBus
    RepublishedOnlyAfterRollback
CHECK_DEADLOCK FALSE
