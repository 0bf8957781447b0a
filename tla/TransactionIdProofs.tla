------------------------ MODULE TransactionIdProofs ------------------------
(***************************************************************************)
(* The generator keeps the documented rule, and its ids increase, whenever *)
(* the clock advances by more than the ids drawn from one reading.         *)
(***************************************************************************)
EXTENDS TransactionId, TLAPS

\* next() keeps its counters natural numbers and never issues timestamp 0,
\* whatever the clock does, set back included.
THEOREM IdTypeCorrect == Spec => []TypeOK
  <1>1. Init => TypeOK
    BY MaxBurstIsNatural DEF Init, TypeOK
  <1>2. ASSUME TypeOK, [Next]_vars
        PROVE  TypeOK'
    <2>1. ASSUME NEW ts \in Readings, NextId(ts)
          PROVE  TypeOK'
      <3>1. CASE ts <= last_systime
        <4>1. /\ last_systime' = last_systime /\ last_count' = last_count + 1
              /\ last_count < MaxBurst /\ last_systime \in Nat /\ last_count \in Nat
              /\ newest' = last_systime + last_count + 1
              /\ issued' = issued \cup {newest'}
          BY <1>2, <2>1, <3>1, ReadingsArePositive DEF TypeOK, NextId, Issue
        <4>2. newest' \in Nat \ {0} /\ last_count' \in 0 .. MaxBurst
          BY <4>1, MaxBurstIsNatural
        <4> QED
          BY <1>2, <4>1, <4>2 DEF TypeOK
      <3>2. CASE ts > last_systime
        <4>1. /\ last_systime' = ts /\ last_count' = 0 /\ newest' = ts
              /\ issued' = issued \cup {ts} /\ ts \in Nat \ {0}
          BY <1>2, <2>1, <3>2, ReadingsArePositive DEF TypeOK, NextId, Issue
        <4> QED
          BY <1>2, <4>1, MaxBurstIsNatural DEF TypeOK
      <3> QED
        BY <1>2, <3>1, <3>2, ReadingsArePositive DEF TypeOK
    <2>2. CASE UNCHANGED vars
      BY <1>2, <2>2 DEF TypeOK, vars
    <2> QED
      BY <1>2, <2>1, <2>2 DEF Next, Exhausted
  <1> QED
    BY <1>1, <1>2, PTL DEF Spec

\* The last timestamp issued is the reading it started from plus the count;
\* before the first call both are 0.
IdInv ==
    /\ TypeOK
    /\ newest = last_systime + last_count
    /\ \A ts \in issued : ts <= newest
    /\ last_systime \in Readings \cup {0}
    /\ last_systime = 0 => last_count = 0

LEMMA IdInvInit == Init => IdInv
  BY MaxBurstIsNatural DEF Init, IdInv, TypeOK

\* With a coarse clock a new reading is above everything issued before it.
LEMMA ReadingIsNew ==
    ASSUME CoarseClock, IdInv, NEW ts \in Readings, ts > last_systime
    PROVE  ts > newest
  <1>1. CASE last_systime = 0
    BY <1>1, ReadingsArePositive DEF IdInv, TypeOK
  <1>2. CASE last_systime \in Readings
    BY <1>2, ReadingsArePositive, MaxBurstIsNatural DEF IdInv, TypeOK, CoarseClock
  <1> QED
    BY <1>1, <1>2 DEF IdInv

\* Every call of next() keeps the invariant.
LEMMA IdInvNext ==
    ASSUME CoarseClock, IdInv, [Next]_vars
    PROVE  IdInv'
  <1>1. ASSUME NEW ts \in Readings, NextId(ts)
        PROVE  IdInv'
    <2>1. ts \in Nat \ {0}
      BY ReadingsArePositive
    <2>2. CASE ts <= last_systime
      <3>1. /\ last_systime \in Nat \ {0} /\ last_systime' = last_systime
            /\ last_count \in Nat /\ last_count < MaxBurst
            /\ last_count' = last_count + 1
            /\ newest' = newest + 1 /\ newest \in Nat
            /\ issued' = issued \cup {newest'}
        BY <1>1, <2>1, <2>2 DEF IdInv, TypeOK, NextId, Issue
      <3>2. TypeOK'
        BY <3>1, MaxBurstIsNatural DEF IdInv, TypeOK
      <3>3. \A u \in issued' : u <= newest'
        BY <3>1 DEF IdInv, TypeOK
      <3> QED
        BY <3>1, <3>2, <3>3 DEF IdInv
    <2>3. CASE ts > last_systime
      <3>1. ts > newest
        BY <2>3, ReadingIsNew
      <3>2. /\ last_systime' = ts /\ last_count' = 0
            /\ newest' = ts /\ newest \in Nat
            /\ issued' = issued \cup {ts}
        BY <1>1, <2>1, <2>3 DEF IdInv, TypeOK, NextId, Issue
      <3>3. TypeOK'
        BY <2>1, <3>2, MaxBurstIsNatural DEF IdInv, TypeOK
      <3>4. \A u \in issued' : u <= newest'
        BY <2>1, <3>1, <3>2 DEF IdInv, TypeOK
      <3> QED
        BY <2>1, <3>2, <3>3, <3>4 DEF IdInv
    <2> QED
      BY <2>1, <2>2, <2>3 DEF IdInv, TypeOK
  <1>2. CASE UNCHANGED vars
    BY <1>2 DEF IdInv, TypeOK, vars
  <1> QED
    BY <1>1, <1>2 DEF Next, Exhausted

LEMMA IdInvAlways ==
    ASSUME CoarseClock
    PROVE  Spec => []IdInv
  <1>1. IdInv /\ [Next]_vars => IdInv'
    BY IdInvNext
  <1> QED
    BY <1>1, IdInvInit, PTL DEF Spec

\* next() never issues an id that is not above all it has issued before, as
\* test_unique_id_generation expects.
THEOREM IdsIncreaseOnCoarseClock ==
    ASSUME CoarseClock
    PROVE  Spec => IdsIncrease
  <1>1. IdInv /\ [Next]_vars => [newest' > newest /\ \A ts \in issued : newest' > ts]_vars
    <2> SUFFICES ASSUME IdInv, NEW ts \in Readings, NextId(ts)
                 PROVE  newest' > newest /\ \A u \in issued : newest' > u
      BY DEF Next, Exhausted
    <2>1. newest' > newest
      BY ReadingIsNew, ReadingsArePositive DEF IdInv, TypeOK, NextId, Issue
    <2>2. newest \in Nat /\ newest' \in Nat /\ \A u \in issued : u \in Nat /\ u <= newest
      BY ReadingsArePositive DEF IdInv, TypeOK, NextId, Issue
    <2> QED
      BY <2>1, <2>2
  <1> QED
    BY <1>1, IdInvAlways, PTL DEF Spec, IdsIncrease

\* next() compares the clock with the last reading, the README with the last
\* timestamp: on a coarse clock both issue the same for every reading.
THEOREM DocumentedRuleOnCoarseClock ==
    ASSUME CoarseClock
    PROVE  Spec => DocumentedRule
  <1>1. IdInv /\ [Next]_vars
          => [\A ts \in Readings :
                NextId(ts) => newest' = IF ts <= newest THEN newest + 1 ELSE ts]_vars
    <2> SUFFICES ASSUME IdInv, NEW ts \in Readings, NextId(ts)
                 PROVE  newest' = IF ts <= newest THEN newest + 1 ELSE ts
      OBVIOUS
    <2>1. CASE ts <= last_systime
      BY <2>1, ReadingsArePositive DEF IdInv, TypeOK, NextId, Issue
    <2>2. CASE ts > last_systime
      <3>1. ts > newest
        BY <2>2, ReadingIsNew
      <3> QED
        BY <2>2, <3>1, ReadingsArePositive DEF IdInv, TypeOK, NextId, Issue
    <2> QED
      BY <2>1, <2>2, ReadingsArePositive DEF IdInv, TypeOK
  <1> QED
    BY <1>1, IdInvAlways, PTL DEF Spec, DocumentedRule
=============================================================================
