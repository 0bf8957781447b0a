-------------------------- MODULE MCTransactionId --------------------------
(***************************************************************************)
(* Instances of the generator: a clock that ticks slower than ids are      *)
(* drawn, and one that ticks faster.                                       *)
(***************************************************************************)
EXTENDS TransactionId

CoarseReadings == {10, 14, 20, 30, 40}
FineReadings == 10 .. 14
=============================================================================
