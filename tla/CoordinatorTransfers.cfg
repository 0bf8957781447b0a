SPECIFICATION CoordinatorSpec
CONSTANTS
    TransactionIds = {1, 2, 3}
    Half = 8
    Shards = {"A", "B"}
    Accounts = {"a", "b"}
    HomeOf <- MCHomeOf
    NoAccount = "none"
    Diffs <- Withdraw
    Established = {"a", "b"}
    Setup = 1
    Opening = 1
    MaxOps = 2
    MaxIncarnations = 1
    CoordinatorOf <- OddOnA
    Leaving = {}
INVARIANTS
    CallsDoNotOverlap
    NoStrayResponse
    Serializable
