SPECIFICATION Spec
CONSTANTS
    TransactionIds = {1, 2, 3}
    Half = 8
    Shards = {"A"}
    Accounts = {"x", "y"}
    HomeOf <- MCHomeOf
    NoAccount = "none"
    Diffs <- DepositOrWithdraw
    Established = {"x", "y"}
    Setup = 1
    Opening = 1
    MaxOps = 2
    MaxIncarnations = 2
INVARIANTS
    Serializable
    CommittedWritesInstalled
    PreparedCommits
    SingleWriter
    BalancesAddUp
