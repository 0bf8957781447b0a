--------------------------- MODULE MCCoordinator ---------------------------
(***************************************************************************)
(* Small instances of Coordinator: servers "A" and "B" (and "C"), accounts *)
(* "a" and "b" on the server of their letter.                              *)
(***************************************************************************)
EXTENDS Coordinator

MCHomeOf == [a \in Accounts |-> IF a = "a" THEN "A" ELSE "B"]
OddOnA == [t \in TransactionIds |-> IF t % 2 = 1 THEN "A" ELSE "B"]
Withdraw == {-1}
Either == {1, -1}
=============================================================================
