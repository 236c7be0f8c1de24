\* Two extraction workers that share two partitions, fair, every fault kind.
CONSTANTS
    Docs = {"d1", "d2"}
    Topics = {"ingested"}
    Partitions = {1, 2}
    PartitionOf <- PartitionPerDoc
    MaxAttempts = 2
    NoMessage = NoMessage
    FaultKinds = {"crash", "rebalance", "lostAck", "lostSession"}
    MaxFaults = 2
    Workers = {"x1", "x2"}
    WorkerTopic <- TwoExtractors
    MaxEvents = 2
    MaxDeliveries = 2
SPECIFICATION FairDeliverySpec
INVARIANTS
    DeliveryTypeOK
    NoEventLost
    RetriesBounded
    TriesCounted
PROPERTIES
    NoProgressLost
    WorkedOnce
    EventuallySettled
CHECK_DEADLOCK FALSE
