------------------------------ MODULE Channel ------------------------------
(***************************************************************************)
(* What the servers expect of the streams between them, and what module    *)
(* Coordinator takes for granted (its variable net): between every two     *)
(* servers and in each direction a queue that loses, repeats and reorders  *)
(* nothing.                                                                *)
(***************************************************************************)
EXTENDS Naturals, Sequences

CONSTANTS Nodes, Messages

VARIABLE queue   \* sender -> receiver -> messages not handled yet

Init == queue = [n \in Nodes |-> [m \in Nodes |-> <<>>]]

\* r is q with a message put at its end.
IsPut(q, r) ==
    /\ Len(r) = Len(q) + 1
    /\ SubSeq(r, 1, Len(q)) = q
    /\ r[Len(r)] \in Messages

\* Server n sends, to no server, to one or to several at once; what was in the
\* queues before is in q.
Send(n, q) ==
    \A k, m \in Nodes :
        queue'[k][m] = q[k][m] \/ (k = n /\ IsPut(q[k][m], queue'[k][m]))

\* Server n handles the oldest message of m, and may send in answer to it.
Handle(m, n) ==
    /\ queue[m][n] # <<>>
    /\ Send(n, [queue EXCEPT ![m][n] = Tail(@)])

Next == \E n \in Nodes : Send(n, queue) \/ \E m \in Nodes : Handle(m, n)

Spec == Init /\ [][Next]_queue
=============================================================================
