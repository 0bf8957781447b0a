------------------------- MODULE TimestampedObject -------------------------
(***************************************************************************)
(* One account of a shard, sharding/object.rs: the last committed value    *)
(* with its timestamp, the timestamps of the transactions that have read   *)
(* it and the tentative writes of the unresolved ones.  Every method runs  *)
(* under the object's mutex, so each is a function of the object alone; a  *)
(* method with several results is one predicate per result and one         *)
(* operator for the object it leaves behind.                               *)
(*                                                                         *)
(* A transaction id (timestamp, then coordinator) is modelled by its rank  *)
(* in the total order the derived Ord gives: a positive number.  0 is      *)
(* TransactionId::default, which is below every id ever issued.            *)
(***************************************************************************)
EXTENDS Integers

CONSTANTS
    TransactionIds,  \* ids of the transactions that may touch the object
    Half             \* half the range of an Amount: 2^63 for the code's i64

ASSUME IdsArePositive == TransactionIds \subseteq Nat \ {0}
ASSUME HalfIsPositive == Half \in Nat \ {0}

\* A nonempty BTreeMap has a first key.  True of every set of naturals, and
\* stated because induction over them is beyond the provers.
ASSUME IdsAreWellOrdered ==
    \A S \in SUBSET TransactionIds :
        S # {} => \E first \in S : \A w \in S : first <= w

-----------------------------------------------------------------------------
(* Amount = i64.  The Makefile builds with --release, where + wraps.       *)

Amounts == -Half .. Half - 1

\* Mutant: the sum is not kept to the width of the type.
AddUnbounded(x, y) == x + y

Add(x, y) == ((x + y + Half) % (2 * Half)) - Half

\* Checkable for Amount: no negative balance may be committed.
Check(amount) == amount >= 0

-----------------------------------------------------------------------------
(* The object.  tentative_writes is a function whose domain is the set of  *)
(* transactions with a tentative write.                                    *)

Default == 0
Timestamps == TransactionIds \cup {Default}

TentativeWrites == UNION {[S -> Amounts] : S \in SUBSET TransactionIds}

Objects == [value : Amounts,
            committed_timestamp : Timestamps,
            read_timestamps : SUBSET TransactionIds,
            tentative_writes : TentativeWrites]

DefaultObject == [value |-> 0,
                  committed_timestamp |-> Default,
                  read_timestamps |-> {},
                  tentative_writes |-> [t \in {} |-> 0]]

Writers(o) == DOMAIN o.tentative_writes

-----------------------------------------------------------------------------
(* read                                                                    *)

\* Mutant: the range has no upper end, so it holds newer writers too.
WritersAfterCommitted(o, id) == {w \in Writers(o) : o.committed_timestamp < w}

\* The tentative writes after the committed version, up to the reader.
WritersUpTo(o, id) == {w \in Writers(o) : o.committed_timestamp < w /\ w <= id}

\* Err(Abort): a newer transaction has committed the object.
ReadTooLate(o, id) == id <= o.committed_timestamp

\* Err(AbortedNotFound): nothing committed and nothing to wait for.
ReadNotFound(o, id) ==
    /\ id > o.committed_timestamp
    /\ WritersUpTo(o, id) = {}
    /\ o.committed_timestamp = Default

\* Err(WaitFor(w)): w is the latest write the reader should see.
ReadWaitsFor(o, id, w) ==
    /\ id > o.committed_timestamp
    /\ w \in WritersUpTo(o, id)
    /\ \A u \in WritersUpTo(o, id) : u <= w
    /\ w # id

\* Ok: the reader sees its own write, or else the committed version.
ReadOk(o, id) ==
    /\ id > o.committed_timestamp
    /\ \/ id \in Writers(o)
       \/ /\ WritersUpTo(o, id) = {}
          /\ o.committed_timestamp # Default

ReadValue(o, id) ==
    IF id \in Writers(o) THEN o.tentative_writes[id] ELSE o.value

\* Mutant: the read timestamp is not registered.
AfterReadUnregistered(o, id) == o

AfterRead(o, id) == [o EXCEPT !.read_timestamps = @ \cup {id}]

-----------------------------------------------------------------------------
(* write                                                                   *)

\* Mutant: the maximum read timestamp is not consulted.
WriteOkDespiteReads(o, id) == id > o.committed_timestamp

\* Ok; otherwise Err(Abort).
WriteOk(o, id) ==
    /\ \A mrt \in o.read_timestamps : id >= mrt
    /\ id > o.committed_timestamp

AfterWrite(o, id, amount) ==
    [o EXCEPT !.tentative_writes =
        [w \in Writers(o) \cup {id} |-> IF w = id THEN amount
                                        ELSE o.tentative_writes[w]]]

-----------------------------------------------------------------------------
(* check_commit and commit.  A transaction with no tentative write has     *)
(* NothingToCommit: none of the three predicates below holds of it.        *)

\* Mutant: any tentative write may be committed, not just the first.
IsAnyWriter(o, id) == id \in Writers(o)

IsFirst(o, id) == id \in Writers(o) /\ \A w \in Writers(o) : id <= w

\* Mutant: a commit waits for any other writer.
CommitWaitsForAnyone(o, id, first) ==
    id \in Writers(o) /\ first # id /\ first \in Writers(o)

\* Err(WaitFor(first))
CommitWaitsFor(o, id, first) ==
    id \in Writers(o) /\ first # id /\ IsFirst(o, first)

\* Err(ConsistencyCheckFailed)
CommitInconsistent(o, id) == IsFirst(o, id) /\ ~Check(o.tentative_writes[id])

\* Ok(CommitValue)
CommitValue(o, id) == IsFirst(o, id) /\ Check(o.tentative_writes[id])

DropWrite(o, id) == [w \in Writers(o) \ {id} |-> o.tentative_writes[w]]

AfterCommit(o, id) ==
    IF CommitValue(o, id)
    THEN [o EXCEPT !.value = o.tentative_writes[id],
                   !.committed_timestamp = id,
                   !.tentative_writes = DropWrite(o, id)]
    ELSE o

-----------------------------------------------------------------------------
(* abort and can_reap                                                      *)

\* Mutant: the tentative write survives the abort.
AfterAbortKeepsWrite(o, id) == [o EXCEPT !.read_timestamps = @ \ {id}]

\* Mutant: the read timestamps survive the abort.
AfterAbortKeepsRead(o, id) == [o EXCEPT !.tentative_writes = DropWrite(o, id)]

AfterAbort(o, id) ==
    [o EXCEPT !.tentative_writes = DropWrite(o, id),
              !.read_timestamps = @ \ {id}]

\* Mutant: the committed timestamp is not consulted.
CanReapCommitted(o, aborting_id) == Writers(o) \subseteq {aborting_id}

CanReap(o, aborting_id) ==
    /\ o.committed_timestamp = Default
    /\ Writers(o) \subseteq {aborting_id}
=============================================================================
