SPECIFICATION CoordinatorFairSpec
CONSTANTS
    TransactionIds = {1, 2}
    Half = 2
    Shards = {"A", "B"}
    Accounts = {"a", "b"}
    HomeOf <- MCHomeOf
    NoAccount = "none"
    Diffs <- Either
    Established = {}
    Setup = 1
    Opening = 1
    MaxOps = 1
    MaxIncarnations = 2
    CoordinatorOf <- OddOnA
    Leaving = {1}
INVARIANTS
    CoordinatorTypeOK
    AnswersFindTheirClient
PROPERTIES
    ImplementsAtomicCommit
    EveryClientAnswered
