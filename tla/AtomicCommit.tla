---------------------------- MODULE AtomicCommit ----------------------------
(***************************************************************************)
(* What the coordinators and the shards promise about every transaction,   *)
(* whatever messages they exchange to keep it: a shard commits its part    *)
(* only when every shard is prepared to, aborts it only when none has      *)
(* committed, and the client learns the outcome when it is settled.        *)
(***************************************************************************)
CONSTANTS Transactions, Participants

VARIABLES
    part,   \* transaction -> participant -> how far its part is
    told    \* transaction -> what its client was told

vars == <<part, told>>

Parts == {"working", "prepared", "refused", "committed", "aborted"}

TypeOK ==
    /\ part \in [Transactions -> [Participants -> Parts]]
    /\ told \in [Transactions -> {"nothing", "committed", "aborted"}]

Init ==
    /\ part = [t \in Transactions |-> [p \in Participants |-> "working"]]
    /\ told = [t \in Transactions |-> "nothing"]

Becomes(t, p, value) ==
    /\ part' = [part EXCEPT ![t][p] = value]
    /\ UNCHANGED told

AllBound(t) == \A p \in Participants : part[t][p] \in {"prepared", "committed"}
NoneCommitted(t) == \A p \in Participants : part[t][p] # "committed"
AllAborted(t) == \A p \in Participants : part[t][p] = "aborted"

\* check_commit, or an operation, has ended at p.
Vote(t, p) ==
    /\ part[t][p] = "working"
    /\ Becomes(t, p, "prepared") \/ Becomes(t, p, "refused")

Commit(t, p) ==
    /\ part[t][p] = "prepared"
    /\ AllBound(t)
    /\ Becomes(t, p, "committed")

Abort(t, p) ==
    /\ part[t][p] \in {"working", "prepared", "refused"}
    /\ NoneCommitted(t)
    /\ Becomes(t, p, "aborted")

\* The final response: COMMIT OK as soon as the outcome is certain, ABORTED
\* when every part is undone.
Tell(t) ==
    /\ told[t] = "nothing"
    /\ \/ /\ AllBound(t) /\ ~NoneCommitted(t)
          /\ told' = [told EXCEPT ![t] = "committed"]
       \/ /\ AllAborted(t)
          /\ told' = [told EXCEPT ![t] = "aborted"]
    /\ UNCHANGED part

Next ==
    \E t \in Transactions :
        \/ Tell(t)
        \/ \E p \in Participants : Vote(t, p) \/ Commit(t, p) \/ Abort(t, p)

Spec == Init /\ [][Next]_vars

\* Nobody commits what another participant has refused or aborted, and what
\* a client is told stays true.
Consistent ==
    \A t \in Transactions :
        /\ ~NoneCommitted(t) => AllBound(t)
        /\ told[t] = "committed" => AllBound(t) /\ ~NoneCommitted(t)
        /\ told[t] = "aborted" => AllAborted(t)
=============================================================================
