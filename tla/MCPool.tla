------------------------------- MODULE MCPool -------------------------------
(***************************************************************************)
(* A small instance of Pool: three servers, of which the last may restart, *)
(* and two clients that together can fill the group of a server which      *)
(* still waits for the others.  The first goes to the server that only     *)
(* listens or to the one that only dials, the second to the former, which  *)
(* keeps the instance small.                                               *)
(***************************************************************************)
EXTENDS Pool

CONSTANTS v, w

ABC == <<"A", "B", "C">>
LastRestarts == [n \in {"A", "B", "C"} |-> IF n = "C" THEN 2 ELSE 1]
TwoClients == <<v, w>>
ListenerOrDialer ==
    [u \in {v, w} |-> IF u = v THEN {"A", "C"} ELSE {"A"}]
DepositAndBalance ==
    [u \in {v, w} |-> IF u = v THEN "WriteBalance" ELSE "ReadBalance"]
=============================================================================
