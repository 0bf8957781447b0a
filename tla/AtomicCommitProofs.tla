------------------------- MODULE AtomicCommitProofs -------------------------
(***************************************************************************)
(* The abstract commit protocol keeps its promise for any number of        *)
(* transactions and participants; Coordinator implements it.               *)
(***************************************************************************)
EXTENDS AtomicCommit, TLAPS

\* AtomicCommit keeps its types.
LEMMA TypeInvariant == Spec => []TypeOK
<1>1. Init => TypeOK
  BY DEF Init, TypeOK, Parts
<1>2. TypeOK /\ [Next]_vars => TypeOK'
  <2> SUFFICES ASSUME TypeOK, [Next]_vars
               PROVE  TypeOK'
    OBVIOUS
  <2>1. CASE UNCHANGED vars
    BY <2>1 DEF vars, TypeOK
  <2>2. ASSUME NEW t \in Transactions, Tell(t)
        PROVE  TypeOK'
    BY <2>2 DEF Tell, TypeOK
  <2>3. ASSUME NEW t \in Transactions, NEW p \in Participants,
               NEW value \in Parts, Becomes(t, p, value)
        PROVE  TypeOK'
    BY <2>3 DEF Becomes, TypeOK
  <2> QED
    BY <2>1, <2>2, <2>3 DEF Next, Vote, Commit, Abort, Parts
<1> QED
  BY <1>1, <1>2, PTL DEF Spec

\* What commit and do_abort of the shards and the final response of the
\* handlers amount to, once they are shown to implement this module: no
\* transaction is committed on one shard and refused or undone on another,
\* and no client is told otherwise.
THEOREM CommitIsConsistent == Spec => []Consistent
<1>1. Init => Consistent
  BY DEF Init, Consistent, NoneCommitted
<1>2. TypeOK /\ Consistent /\ [Next]_vars => Consistent'
  <2> SUFFICES ASSUME TypeOK, Consistent, [Next]_vars
               PROVE  Consistent'
    OBVIOUS
  <2> USE DEF Consistent, AllBound, NoneCommitted, AllAborted
  <2>1. CASE UNCHANGED vars
    BY <2>1 DEF vars
  <2>2. ASSUME NEW t \in Transactions, Tell(t)
        PROVE  Consistent'
    BY <2>2 DEF Tell, TypeOK
  <2>3. ASSUME NEW t \in Transactions, NEW p \in Participants, Vote(t, p)
        PROVE  Consistent'
    <3>1. part[t][p] = "working" /\ NoneCommitted(t) /\ told[t] = "nothing"
      BY <2>3 DEF Vote, TypeOK
    <3>2. PICK value \in {"prepared", "refused"} : Becomes(t, p, value)
      BY <2>3 DEF Vote
    <3>3. /\ told' = told
          /\ \A u \in Transactions, q \in Participants :
                part'[u][q] = IF u = t /\ q = p THEN value ELSE part[u][q]
      BY <3>2 DEF Becomes, TypeOK
    <3> QED
      BY <3>1, <3>3
  <2>4. ASSUME NEW t \in Transactions, NEW p \in Participants, Commit(t, p)
        PROVE  Consistent'
    BY <2>4 DEF Commit, Becomes, TypeOK
  <2>5. ASSUME NEW t \in Transactions, NEW p \in Participants, Abort(t, p)
        PROVE  Consistent'
    BY <2>5 DEF Abort, Becomes, TypeOK
  <2> QED
    BY <2>1, <2>2, <2>3, <2>4, <2>5 DEF Next
<1> QED
  BY <1>1, <1>2, TypeInvariant, PTL DEF Spec
=============================================================================
