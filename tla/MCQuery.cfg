\* Two clients that share one connection, while two documents come in.
CONSTANTS
    Docs = {"a", "b"}
    Size <- TwoAndFour
    Questions = {"q", "crowded"}
    Blank = " "
    NoFilter = NoFilter
    Rank <- AboutBoth
    Score <- AboutBothScores
    MinScore = 20
    RelativeCutoff = 50
    Clients = {"c1", "c2"}
    Requests <- SomeRequests
    NoRequest = NoRequest
    PoolSize = 1
SPECIFICATION FairQuerySpec
INVARIANTS
    QueryTypeOK
    ShownIsFound
    NamesAreCurrent
    PoolBalanced
PROPERTIES
    EveryRequestEnds
CHECK_DEADLOCK FALSE
