SPECIFICATION CoordinatorSpec
CONSTANTS
    TransactionIds = {1, 2, 3}
    Half = 8
    Shards = {"A", "B", "C"}
    Accounts = {"b"}
    HomeOf <- MCHomeOf
    NoAccount = "none"
    Diffs <- Either
    Established = {"b"}
    Setup = 1
    Opening = 0
    MaxOps = 1
    MaxIncarnations = 1
    CoordinatorOf <- OddOnA
    Leaving = {}
INVARIANTS
    AllOrNothing
    ReplyIsOutcome
