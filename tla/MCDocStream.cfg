\* One document, one client, one worker per topic, a fault of any kind.
CONSTANTS
    Docs = {"d1"}
    Topics = {"ingested", "extracted", "enriched"}
    Partitions = {1}
    PartitionOf <- OnePartition
    MaxAttempts = 2
    NoMessage = NoMessage
    FaultKinds = {"crash", "rebalance", "lostAck", "lostSession"}
    MaxFaults = 1
    Workers = {"x", "e", "p"}
    WorkerTopic <- WorkerPerTopic
    Relays = {r1}
    BatchSize = 2
    Payloads <- AnyPayload
    Oversized = {}
    MaxRollbacks = 0
    Batches <- TwoBatches
    Results = {lease}
    NoResult = NoResult
    NoJob = NoJob
    ServiceFaults = {"markFailed"}
    Chunks <- ThreeChunks
    UpsertSize = 2
    Questions = {"q"}
    Blank = " "
    NoFilter = NoFilter
    Rank <- SecondFirst
    Score <- SecondFirstScores
    MinScore = 20
    RelativeCutoff = 50
    Clients = {"c1"}
    Requests <- OneSearch
    NoRequest = NoRequest
    PoolSize = 1
SPECIFICATION SystemSpec
INVARIANTS
    FindsWhatIsShown
    CitedIsExtracted
PROPERTIES
    ImplementsQuery
CHECK_DEADLOCK FALSE
