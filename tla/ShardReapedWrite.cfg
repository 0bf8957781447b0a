SPECIFICATION Spec
CONSTANTS
    TransactionIds = {1, 2}
    Half = 8
    Shards = {"A"}
    Accounts = {"x"}
    HomeOf <- MCHomeOf
    NoAccount = "none"
    Diffs <- DepositOrWithdraw
    Established = {}
    Setup = 1
    Opening = 1
    MaxOps = 1
    MaxIncarnations = 2
INVARIANTS
    CommittedWritesInstalled
