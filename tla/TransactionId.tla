--------------------------- MODULE TransactionId ---------------------------
(***************************************************************************)
(* The timestamp generator of one coordinator, sharding/transaction_id.rs. *)
(* A reading of the system clock may be equal to an earlier one, and       *)
(* SystemTime may be set back, so each call sees any reading at all.       *)
(***************************************************************************)
EXTENDS Integers

CONSTANTS
    Readings,  \* what SystemTime::now() may return, in nanoseconds
    MaxBurst   \* bound: calls in a row that see no new time

ASSUME ReadingsArePositive == Readings \subseteq Nat \ {0}
ASSUME MaxBurstIsNatural == MaxBurst \in Nat

VARIABLES
    last_systime,  \* the latest reading used as it was
    last_count,    \* calls since then
    newest,        \* history: the timestamp issued last; 0 before the first
    issued         \* history: every timestamp issued

vars == <<last_systime, last_count, newest, issued>>

Init ==
    /\ last_systime = 0
    /\ last_count = 0
    /\ newest = 0
    /\ issued = {}

Issue(ts) ==
    /\ newest' = ts
    /\ issued' = issued \cup {ts}

\* Mutant: a reading equal to the last one counts as new.
NextIdOnTie(ts) ==
    \/ /\ ts < last_systime
       /\ last_count < MaxBurst
       /\ last_count' = last_count + 1
       /\ Issue(last_systime + last_count + 1)
       /\ UNCHANGED last_systime
    \/ /\ ts >= last_systime
       /\ last_count' = 0
       /\ last_systime' = ts
       /\ Issue(ts)

\* Mutant: the count is not reset when the clock has advanced.
NextIdNoReset(ts) ==
    /\ last_count' = last_count + 1
    /\ last_systime' = IF ts > last_systime THEN ts ELSE last_systime
    /\ Issue(IF ts > last_systime THEN ts ELSE last_systime + last_count + 1)

\* next(), when the clock reads ts
NextId(ts) ==
    \/ /\ ts <= last_systime
       /\ last_count < MaxBurst
       /\ last_count' = last_count + 1
       /\ Issue(last_systime + last_count + 1)
       /\ UNCHANGED last_systime
    \/ /\ ts > last_systime
       /\ last_count' = 0
       /\ last_systime' = ts
       /\ Issue(ts)

\* The clock has nothing more to show and the bound is reached.
Exhausted ==
    /\ last_count = MaxBurst
    /\ \A ts \in Readings : ts <= last_systime
    /\ UNCHANGED vars

Next == Exhausted \/ \E ts \in Readings : NextId(ts)

Spec == Init /\ [][Next]_vars

-----------------------------------------------------------------------------
TypeOK ==
    /\ last_systime \in Nat
    /\ last_count \in 0 .. MaxBurst
    /\ newest \in Nat
    /\ issued \subseteq Nat \ {0}

\* The clock advances by more than the ids drawn from one reading.
CoarseClock == \A p, q \in Readings : p < q => p + MaxBurst < q

\* test_unique_id_generation: ids of one generator increase strictly, so
\* transactions that a coordinator accepts later are newer, and no two of
\* them share the id that keys its clients map and every shard's state.
IdsIncrease == [][newest' > newest /\ \A ts \in issued : newest' > ts]_vars

\* The rule the README gives: a call of next() that reads ts issues ts, unless
\* ts is not above the last timestamp issued, and then that timestamp plus 1.
DocumentedRule ==
    [][\A ts \in Readings :
          NextId(ts) => newest' = IF ts <= newest THEN newest + 1 ELSE ts]_vars
=============================================================================
