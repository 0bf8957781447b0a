------------------------------ MODULE MCShard ------------------------------
(***************************************************************************)
(* Small instances of Shard: one shard, "A", and accounts on it.           *)
(***************************************************************************)
EXTENDS Shard, FiniteSetsExt

MCHomeOf == [a \in Accounts |-> "A"]
Deposit == {1}
DepositOrWithdraw == {1, -1}

\* The committed balance of an account is the sum of the balance changes its
\* committed transactions were told had succeeded: no update is lost.
BalancesAddUp ==
    \A a \in Accounts : objects[a] # 0 =>
        heap[a][objects[a]].value =
            MapThenSumSet(LAMBDA t : credit[t][a], versions[a])
=============================================================================
