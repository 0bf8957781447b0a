SPECIFICATION FairSpec
CONSTANTS
    TransactionIds = {1, 2, 3}
    Half = 2
    Shards = {"A"}
    Accounts = {"x"}
    HomeOf <- MCHomeOf
    NoAccount = "none"
    Diffs <- Deposit
    Established = {}
    Setup = 1
    Opening = 1
    MaxOps = 1
    MaxIncarnations = 3
INVARIANTS
    TypeOK
    TentativeAboveCommitted
    ReadsStayValid
    ResolvedLeavesNothing
    WaitsForOlder
PROPERTIES
    CommittedTimestampsOnlyGrow
    ReapKeepsCommitted
    ResolvesUnlessStranded
    OldestResolves
