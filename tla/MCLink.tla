------------------------------- MODULE MCLink -------------------------------
(***************************************************************************)
(* A small instance of Link: as many clients as it takes to fill the       *)
(* buffers of the stream between two servers.                              *)
(***************************************************************************)
EXTENDS Link

TwoEach == [c \in 1 .. 4 |-> IF c <= 2 THEN "A" ELSE "B"]
=============================================================================
