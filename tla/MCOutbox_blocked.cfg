\* One fair relay, and a row the producer refuses.
CONSTANTS
    Docs = {"d1", "d2"}
    Topics = {"enriched"}
    Partitions = {1}
    PartitionOf <- OnePartition
    MaxAttempts = 2
    NoMessage = NoMessage
    Relays = {r1}
    BatchSize = 1
    Payloads = {"text"}
    Oversized <- SecondRefused
    MaxRollbacks = 0
    MaxRows = 3
    MaxRefusals = 0
    MaxRetries = 0
SPECIFICATION FairOutboxSpec
PROPERTIES
    StagedIsPublished
CHECK_DEADLOCK FALSE
