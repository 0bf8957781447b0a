---------------------------- MODULE ShardProofs -----------------------------
(***************************************************************************)
(* The shards, for any number of shards, accounts and transactions: the    *)
(* state is well-typed, transactions become visible in timestamp order on  *)
(* every object, a task waits for older transactions only, and a resolved  *)
(* transaction has left nothing of its own in the map.                     *)
(***************************************************************************)
EXTENDS Shard, TLAPS

\* Zenon first, which is quick on the many steps without arithmetic; the steps on
\* which it is not cite SMTT(30).
USE ZenonT(20), SMTT(30)

-----------------------------------------------------------------------------
(* Objects                                                                 *)

\* Wrapping addition stays within the type.
LEMMA AddIsAmount ==
    ASSUME NEW x \in Amounts, NEW y \in Amounts
    PROVE  Add(x, y) \in Amounts
  BY HalfIsPositive DEF Add, Amounts

\* A map from some transactions to amounts is a set of tentative writes,
LEMMA TentativeWritesDef ==
    ASSUME NEW S \in SUBSET TransactionIds, NEW f \in [S -> Amounts]
    PROVE  f \in TentativeWrites
  BY DEF TentativeWrites

\* and the other way round.
LEMMA TentativeWritesType ==
    ASSUME NEW f \in TentativeWrites
    PROVE  /\ DOMAIN f \subseteq TransactionIds
           /\ f \in [DOMAIN f -> Amounts]
  <1> PICK S \in SUBSET TransactionIds : f \in [S -> Amounts]
    BY DEF TentativeWrites
  <1> QED
    OBVIOUS

\* Every method leaves a well-formed object behind.
LEMMA ObjectTypes ==
    ASSUME NEW o \in Objects, NEW t \in TransactionIds, NEW v \in Amounts
    PROVE  /\ Writers(o) \subseteq TransactionIds
           /\ ReadValue(o, t) \in Amounts
           /\ AfterRead(o, t) \in Objects
           /\ AfterWrite(o, t, v) \in Objects
           /\ AfterCommit(o, t) \in Objects
           /\ AfterAbort(o, t) \in Objects
  <1>1. /\ Writers(o) \subseteq TransactionIds
        /\ o.tentative_writes \in [Writers(o) -> Amounts]
    BY TentativeWritesType DEF Objects, Writers
  <1>2. DropWrite(o, t) \in TentativeWrites
    <2>1. DropWrite(o, t) \in [Writers(o) \ {t} -> Amounts]
      BY <1>1 DEF DropWrite
    <2> QED
      BY <1>1, <2>1, TentativeWritesDef
  <1>3. ReadValue(o, t) \in Amounts
    BY <1>1 DEF ReadValue, Objects
  <1>4. AfterRead(o, t) \in Objects
    BY DEF AfterRead, Objects
  <1>5. AfterWrite(o, t, v) \in Objects
    <2> DEFINE f == [w \in Writers(o) \cup {t} |-> IF w = t THEN v
                                                   ELSE o.tentative_writes[w]]
    <2>1. f \in [Writers(o) \cup {t} -> Amounts]
      BY <1>1
    <2>2. f \in TentativeWrites
      BY <1>1, <2>1, TentativeWritesDef
    <2>3. AfterWrite(o, t, v) = [o EXCEPT !.tentative_writes = f]
      BY DEF AfterWrite
    <2> HIDE DEF f
    <2> QED
      BY <2>2, <2>3 DEF Objects
  <1>6. AfterCommit(o, t) \in Objects
    <2>1. CASE CommitValue(o, t)
      <3>1. o.tentative_writes[t] \in Amounts
        BY <1>1, <2>1 DEF CommitValue, IsFirst
      <3> QED
        BY <1>2, <2>1, <3>1 DEF AfterCommit, Objects, Timestamps
    <2> QED
      BY <2>1 DEF AfterCommit
  <1>7. AfterAbort(o, t) \in Objects
    BY <1>2 DEF AfterAbort, Objects
  <1> QED
    BY <1>1, <1>3, <1>4, <1>5, <1>6, <1>7

-----------------------------------------------------------------------------
(* Type correctness.  TypeOK needs to know what a task holds at each point *)
(* of its code.                                                            *)

TaskShape(k) ==
    /\ call[k].op \in {"read", "change"} =>
          call[k].acct \in Accounts /\ HomeOf[call[k].acct] = k[1]
    /\ pc[k] \in {"find", "read"} => call[k].op \in {"read", "change"}
    /\ pc[k] \in {"insert", "write"} => call[k].op = "change"
    /\ pc[k] \in {"read", "write"} => ref[k] \in Incarnations
    /\ pc[k] \in {"subscribe", "held", "waiting"} =>
          wait[k].on \in TransactionIds
          /\ call[k].op \in {"read", "change", "check", "commit"}
    /\ pc[k] \in {"snapshot", "scan"} => call[k].op \in {"check", "commit", "abort"}
    /\ pc[k] = "notify" => call[k].op = "abort"
    /\ pc[k] \in Outcomes => call[k].op = "none"

Shape == \A k \in Tasks : TaskShape(k)

\* The inductive invariant behind type correctness
TInv == TypeOK /\ Shape

LEMMA TInvInit == Init => TInv
  <1> SUFFICES ASSUME Init PROVE TInv
    OBVIOUS
  <1>1. DefaultObject \in Objects
    <2>1. [t \in {} |-> 0] \in [{} -> Amounts]
      OBVIOUS
    <2>2. [t \in {} |-> 0] \in TentativeWrites
      BY <2>1, TentativeWritesDef
    <2> QED
      BY SMTT(30), <2>2, HalfIsPositive
      DEF DefaultObject, Objects, Amounts, Timestamps
  <1>2. Established # {} => OpenedObject \in Objects
    BY <1>1, ShardConstants, SetupIsOldest
    DEF OpenedObject, Objects, Timestamps
  <1>3. StoreTypes
    BY SMTT(30), <1>1, <1>2, ShardConstants DEF Init, StoreTypes, Incarnations
  <1>4. TaskTypes
    BY SMTT(30), ShardConstants, HalfIsPositive
    DEF Init, TaskTypes, Tasks, Running, Outcomes, Calls, NoCall, Ops, Amounts,
        Waits, NoWait, Results, Nothing
  <1>5. HistoryTypes
    BY SMTT(30), ShardConstants, SetupIsOldest
    DEF Init, HistoryTypes, IsSetup, Amounts
  <1>6. Shape
    BY DEF Init, Shape, TaskShape, Outcomes, NoCall
  <1> QED
    BY <1>3, <1>4, <1>5, <1>6 DEF TInv, TypeOK

\* What a task runs when it runs nothing is a call too.
LEMMA NoCallType == NoCall \in Calls
  BY HalfIsPositive DEF NoCall, Calls, Ops, Amounts

\* A task is its shard and its transaction.
LEMMA TaskTuple ==
    ASSUME NEW s \in Shards, NEW t \in TransactionIds
    PROVE  <<s, t>> \in Tasks /\ <<s, t>>[1] = s /\ <<s, t>>[2] = t
  BY DEF Tasks

\* Beginning a call
LEMMA TInvBegin ==
    ASSUME TInv, NEW s \in Shards, NEW t \in TransactionIds,
           NEW label \in {"find", "snapshot"}, NEW c \in Calls,
           label = "find" => c.op \in {"read", "change"},
           label = "snapshot" => c.op \in {"check", "commit", "abort"},
           c.op \in {"read", "change"} => c.acct \in Accounts /\ HomeOf[c.acct] = s,
           Begin(s, t, label, c), ops' \in [TransactionIds -> 0 .. MaxOps]
    PROVE  TInv'
  <1>1. StoreTypes' /\ HistoryTypes'
    BY DEF TInv, TypeOK, Begin, StoreTypes, HistoryTypes
  <1>2. TaskTypes'
    BY TaskTuple DEF TInv, TypeOK, Begin, Goto, TaskTypes, Running
  <1>3. Shape'
    BY SMTT(30), TaskTuple DEF TInv, TypeOK, Begin, Goto, TaskTypes, Shape, TaskShape, Outcomes
  <1> QED
    BY <1>1, <1>2, <1>3 DEF TInv, TypeOK

\* A call begins.
LEMMA TInvCall ==
    ASSUME TInv, NEW s \in Shards, NEW t \in TransactionIds, Call(s, t)
    PROVE  TInv'
  <1>1. ASSUME NEW a \in Accounts, BeginRead(s, t, a)
        PROVE  TInv'
    <2> DEFINE c == [NoCall EXCEPT !.op = "read", !.acct = a]
    <2>1. c \in Calls /\ c.op = "read" /\ c.acct = a
      BY NoCallType DEF Calls, Ops
    <2>2. ops' \in [TransactionIds -> 0 .. MaxOps]
      BY SMTT(30), <1>1, ShardConstants DEF BeginRead, TInv, TypeOK, HistoryTypes
    <2>3. Begin(s, t, "find", c) /\ HomeOf[a] = s
      BY <1>1 DEF BeginRead
    <2> HIDE DEF c
    <2> QED
      BY <2>1, <2>2, <2>3, TInvBegin
  <1>2. ASSUME NEW a \in Accounts, NEW d \in Diffs, BeginChange(s, t, a, d)
        PROVE  TInv'
    <2> DEFINE c == [NoCall EXCEPT !.op = "change", !.acct = a, !.amount = d]
    <2>1. c \in Calls /\ c.op = "change" /\ c.acct = a
      BY NoCallType, ShardConstants DEF Calls, Ops
    <2>2. ops' \in [TransactionIds -> 0 .. MaxOps]
      BY SMTT(30), <1>2, ShardConstants DEF BeginChange, TInv, TypeOK, HistoryTypes
    <2>3. Begin(s, t, "find", c) /\ HomeOf[a] = s
      BY <1>2 DEF BeginChange
    <2> HIDE DEF c
    <2> QED
      BY <2>1, <2>2, <2>3, TInvBegin
  <1>3. ASSUME NEW op \in {"check", "commit", "abort"},
               Begin(s, t, "snapshot", [NoCall EXCEPT !.op = op]), UNCHANGED ops
        PROVE  TInv'
    <2> DEFINE c == [NoCall EXCEPT !.op = op]
    <2>1. c \in Calls /\ c.op = op
      BY NoCallType DEF Calls, Ops
    <2>2. ops' \in [TransactionIds -> 0 .. MaxOps]
      BY <1>3 DEF TInv, TypeOK, HistoryTypes
    <2>3. Begin(s, t, "snapshot", c)
      BY <1>3
    <2> HIDE DEF c
    <2> QED
      BY <2>1, <2>2, <2>3, TInvBegin
  <1> QED
    BY <1>1, <1>2, <1>3 DEF Call, Finish, BeginCheck, BeginCommit, BeginAbort

\* Updating a function at one point
LEMMA UpdateType ==
    ASSUME NEW S, NEW T, NEW f \in [S -> T], NEW i \in S, NEW x \in T
    PROVE  [f EXCEPT ![i] = x] \in [S -> T]
  OBVIOUS

\* An update of one field of a set-valued function keeps its type.
LEMMA UpdateSetType ==
    ASSUME NEW S, NEW T, NEW f \in [S -> SUBSET T], NEW i \in S, NEW x \in T
    PROVE  [f EXCEPT ![i] = @ \cup {x}] \in [S -> SUBSET T]
  OBVIOUS

\* The same for a function of functions
LEMMA UpdateNestedType ==
    ASSUME NEW S, NEW R, NEW T, NEW f \in [S -> [R -> T]],
           NEW i \in S, NEW j \in R, NEW x \in T
    PROVE  [f EXCEPT ![i][j] = x] \in [S -> [R -> T]]
  OBVIOUS

\* A step of one task leaves the shape of the others alone.
LEMMA ShapeOfOthers ==
    ASSUME TInv, NEW k \in Tasks, TaskShape(k)',
           \A j \in Tasks \ {k} : /\ pc'[j] = pc[j] /\ call'[j] = call[j]
                                  /\ ref'[j] = ref[j] /\ wait'[j] = wait[j]
    PROVE  Shape'
  BY SMTT(30) DEF TInv, Shape, TaskShape

\* A call that returns leaves nothing behind.
LEMMA TInvReturn ==
    ASSUME TInv, NEW s \in Shards, NEW t \in TransactionIds,
           NEW outcome \in Outcomes, Return(s, t, outcome),
           UNCHANGED <<wait, scan>>, found' \in [Tasks -> Results]
    PROVE  TaskTypes' /\ Shape'
  <1> DEFINE k == <<s, t>>
  <1>1. k \in Tasks
    BY TaskTuple
  <1>2. TaskTypes
    BY DEF TInv, TypeOK
  <1>3. pc' \in [Tasks -> Running \cup Outcomes]
    BY <1>1, <1>2 DEF TaskTypes, Return, Goto
  <1>4. call' \in [Tasks -> Calls]
    BY <1>1, <1>2, NoCallType, UpdateType DEF TaskTypes, Return
  <1>5. ref' \in [Tasks -> 0 .. MaxIncarnations]
    BY SMTT(30), <1>1, <1>2, ShardConstants DEF TaskTypes, Return
  <1>6. TaskTypes'
    BY <1>2, <1>3, <1>4, <1>5 DEF TaskTypes
  <1>7. pc'[k] = outcome /\ call'[k] = NoCall
    BY <1>1, <1>2 DEF TaskTypes, Return, Goto
  <1>8. TaskShape(k)'
    BY <1>7 DEF TaskShape, NoCall, Outcomes
  <1>9. \A j \in Tasks \ {k} : /\ pc'[j] = pc[j] /\ call'[j] = call[j]
                                /\ ref'[j] = ref[j] /\ wait'[j] = wait[j]
    BY <1>2 DEF TaskTypes, Return, Goto
  <1> QED
    BY <1>1, <1>6, <1>8, <1>9, ShapeOfOthers

\* A step within a call moves task (s, t) on to label, with the call c, the
\* object n and the wait w.
Moves(s, t, label, c, n, w) ==
    /\ pc' = [pc EXCEPT ![<<s, t>>] = label]
    /\ call' = [call EXCEPT ![<<s, t>>] = c]
    /\ ref' = [ref EXCEPT ![<<s, t>>] = n]
    /\ wait' = [wait EXCEPT ![<<s, t>>] = w]

\* A task of shard s may be at label with these.
Fits(s, label, c, n, w) ==
    /\ label \in Running /\ c \in Calls /\ n \in 0 .. MaxIncarnations /\ w \in Waits
    /\ c.op \in {"read", "change"} => c.acct \in Accounts /\ HomeOf[c.acct] = s
    /\ label \in {"find", "read"} => c.op \in {"read", "change"}
    /\ label \in {"insert", "write"} => c.op = "change"
    /\ label \in {"read", "write"} => n \in Incarnations
    /\ label \in {"subscribe", "held", "waiting"} =>
          w.on \in TransactionIds /\ c.op \in {"read", "change", "check", "commit"}
    /\ label \in {"snapshot", "scan"} => c.op \in {"check", "commit", "abort"}
    /\ label = "notify" => c.op = "abort"

\* A step that moves one task and keeps its call keeps the invariant.
LEMMA TInvMoves ==
    ASSUME TInv, NEW s \in Shards, NEW t \in TransactionIds,
           NEW label, NEW c, NEW n, NEW w,
           Moves(s, t, label, c, n, w), Fits(s, label, c, n, w),
           scan' \in [Tasks -> SUBSET (Accounts \X Incarnations)],
           found' \in [Tasks -> Results]
    PROVE  TaskTypes' /\ Shape'
  <1> DEFINE k == <<s, t>>
  <1>1. k \in Tasks /\ k[1] = s
    BY TaskTuple
  <1>2. TaskTypes
    BY DEF TInv, TypeOK
  <1>3. label \in Running \cup Outcomes /\ c \in Calls /\ n \in 0 .. MaxIncarnations
        /\ w \in Waits
    BY DEF Fits
  <1>4. TaskTypes'
    BY <1>1, <1>2, <1>3 DEF TaskTypes, Moves
  <1>5. pc'[k] = label /\ call'[k] = c /\ ref'[k] = n /\ wait'[k] = w
    BY <1>1, <1>2 DEF TaskTypes, Moves
  <1>6. label \notin Outcomes
    BY DEF Fits, Running, Outcomes
  <1>7. TaskShape(k)'
    BY <1>1, <1>5, <1>6 DEF TaskShape, Fits
  <1>8. \A j \in Tasks \ {k} : /\ pc'[j] = pc[j] /\ call'[j] = call[j]
                                /\ ref'[j] = ref[j] /\ wait'[j] = wait[j]
    BY <1>2 DEF TaskTypes, Moves
  <1> QED
    BY <1>1, <1>4, <1>7, <1>8, ShapeOfOthers

\* What a running task may rely on
LEMMA TaskFacts ==
    ASSUME TInv, NEW s \in Shards, NEW t \in TransactionIds, NEW k, k = <<s, t>>
    PROVE  /\ k \in Tasks
           /\ StoreTypes /\ TaskTypes /\ HistoryTypes
           /\ TaskShape(k)
           /\ pc[k] \in Running \cup Outcomes
           /\ call[k] \in Calls
           /\ ref[k] \in 0 .. MaxIncarnations
           /\ wait[k] \in Waits
           /\ found[k] \in Results
           /\ scan[k] \subseteq Accounts \X Incarnations
           /\ call' = call => call' = [call EXCEPT ![k] = call[k]]
           /\ ref' = ref => ref' = [ref EXCEPT ![k] = ref[k]]
           /\ wait' = wait => wait' = [wait EXCEPT ![k] = wait[k]]
           /\ call[k].op \in {"read", "change"} =>
                 call[k].acct \in Accounts /\ HomeOf[call[k].acct] = s
  <1>1. k \in Tasks /\ k[1] = s
    BY TaskTuple
  <1>2. StoreTypes /\ TaskTypes /\ HistoryTypes /\ TaskShape(k)
    BY <1>1 DEF TInv, TypeOK, Shape
  <1>3. call[k].op \in {"read", "change"} =>
           call[k].acct \in Accounts /\ HomeOf[call[k].acct] = s
    BY <1>1, <1>2 DEF TaskShape
  <1> QED
    BY <1>1, <1>2, <1>3 DEF TaskTypes

\* The steps of a task, one by one
LEMMA TInvFindObject ==
    ASSUME TInv, NEW s \in Shards, NEW t \in TransactionIds, FindObject(s, t)
    PROVE  TInv'
  <1> DEFINE k == <<s, t>>
             a == call[k].acct
  <1>1. /\ k \in Tasks /\ StoreTypes /\ TaskTypes /\ HistoryTypes
        /\ TaskShape(k) /\ call[k] \in Calls /\ ref[k] \in 0 .. MaxIncarnations
        /\ wait[k] \in Waits
        /\ pc[k] = "find" /\ call[k].op \in {"read", "change"} /\ a \in Accounts
        /\ HomeOf[a] = s
        /\ scan' \in [Tasks -> SUBSET (Accounts \X Incarnations)]
        /\ found' \in [Tasks -> Results]
        /\ wait' = [wait EXCEPT ![k] = wait[k]]
    BY SMTT(30), TaskFacts DEF FindObject, TaskShape, TaskTypes
  <1>2. StoreTypes'
    BY <1>1 DEF FindObject, StoreTypes
  <1>3. CASE /\ objects[a] # 0
             /\ ref' = [ref EXCEPT ![k] = objects[a]]
             /\ Goto(s, t, "read")
             /\ UNCHANGED <<call, seen>>
    <2>1. HistoryTypes'
      BY <1>1, <1>3 DEF FindObject, HistoryTypes
    <2>2. objects[a] \in 0 .. MaxIncarnations /\ objects[a] \in Incarnations
      BY SMTT(30), <1>1, <1>3, ShardConstants DEF StoreTypes, Incarnations
    <2>3. Moves(s, t, "read", call[k], objects[a], wait[k])
      BY <1>1, <1>3 DEF Moves, Goto, TaskTypes
    <2>4. Fits(s, "read", call[k], objects[a], wait[k])
      BY <1>1, <2>2 DEF Fits, Running
    <2>5. TaskTypes' /\ Shape'
      BY <1>1, <2>3, <2>4, TInvMoves
    <2> QED
      BY <1>2, <2>1, <2>5 DEF TInv, TypeOK
  <1>4. CASE Return(s, t, "not_found") /\ UNCHANGED seen
    <2>1. HistoryTypes'
      BY <1>1, <1>4 DEF FindObject, HistoryTypes
    <2>2. TaskTypes' /\ Shape'
      BY <1>1, <1>4, TInvReturn DEF FindObject, Outcomes
    <2> QED
      BY <1>2, <2>1, <2>2 DEF TInv, TypeOK
  <1>5. CASE /\ call[k].op = "change"
             /\ call' = [call EXCEPT ![k].value = call[k].amount]
             /\ seen' = [seen EXCEPT ![t] = @ \cup {<<a, Default>>}]
             /\ Goto(s, t, "insert")
             /\ UNCHANGED ref
    <2>1. seen' \in [TransactionIds -> SUBSET (Accounts \X Timestamps)]
      BY SMTT(30), <1>1, <1>5, UpdateSetType DEF HistoryTypes, Timestamps
    <2>2. HistoryTypes'
      BY <1>1, <2>1 DEF FindObject, HistoryTypes
    <2> DEFINE c == [call[k] EXCEPT !.value = call[k].amount]
    <2>3. c \in Calls /\ c.op = call[k].op /\ c.acct = call[k].acct
      BY <1>1 DEF Calls
    <2>4. Moves(s, t, "insert", c, ref[k], wait[k])
      BY <1>1, <1>5 DEF TaskTypes, Moves, Goto
    <2> HIDE DEF c
    <2>5. Fits(s, "insert", c, ref[k], wait[k])
      BY <1>1, <1>5, <2>3 DEF Fits, Running
    <2>6. TaskTypes' /\ Shape'
      BY <1>1, <2>4, <2>5, TInvMoves
    <2> QED
      BY <1>2, <2>2, <2>6 DEF TInv, TypeOK
  <1> QED
    BY <1>3, <1>4, <1>5 DEF FindObject

LEMMA TInvReadObject ==
    ASSUME TInv, NEW s \in Shards, NEW t \in TransactionIds, ReadObject(s, t)
    PROVE  TInv'
  <1> DEFINE k == <<s, t>>
             a == call[k].acct
             n == ref[k]
             o == heap[a][n]
  <1>1. /\ k \in Tasks /\ StoreTypes /\ TaskTypes /\ HistoryTypes
        /\ TaskShape(k) /\ call[k] \in Calls /\ wait[k] \in Waits
        /\ pc[k] = "read" /\ call[k].op \in {"read", "change"} /\ a \in Accounts
        /\ HomeOf[a] = s
        /\ n \in Incarnations
        /\ scan' \in [Tasks -> SUBSET (Accounts \X Incarnations)]
        /\ found' \in [Tasks -> Results]
    <2>1. pc[k] = "read" /\ UNCHANGED <<scan, found>>
      BY DEF ReadObject
    <2>2. TaskShape(k) /\ k \in Tasks
      BY TaskFacts
    <2>3. call[k].op \in {"read", "change"} /\ n \in Incarnations
      BY <2>1, <2>2 DEF TaskShape
    <2> QED
      BY <2>1, <2>2, <2>3, TaskFacts DEF TaskTypes
  <1>2. o \in Objects /\ o.committed_timestamp \in Timestamps
    BY <1>1 DEF StoreTypes, Objects
  <1>3. /\ AfterRead(o, t) \in Objects
        /\ Writers(o) \subseteq TransactionIds
        /\ Add(ReadValue(o, t), call[k].amount) \in Amounts
    BY <1>1, <1>2, ObjectTypes, AddIsAmount DEF Calls
  <1>4. 0 \in 0 .. MaxIncarnations
    BY SMTT(30), ShardConstants
  <1>5. CASE /\ heap' = [heap EXCEPT ![a][n] = AfterRead(o, t)]
             /\ seen' = IF t \in Writers(o) THEN seen
                        ELSE [seen EXCEPT ![t] = @ \cup {<<a, o.committed_timestamp>>}]
             /\ \/ Return(s, t, "idle")
                \/ /\ call[k].op = "change"
                   /\ call' = [call EXCEPT ![k].value =
                                 Add(ReadValue(o, t), call[k].amount)]
                   /\ Goto(s, t, "insert")
                   /\ ref' = [ref EXCEPT ![k] = 0]
             /\ UNCHANGED wait
    <2>1. heap' \in [Accounts -> [Incarnations -> Objects]]
      BY <1>1, <1>3, <1>5, UpdateNestedType DEF StoreTypes
    <2>2. StoreTypes'
      BY <1>1, <2>1 DEF ReadObject, StoreTypes
    <2>3. seen' \in [TransactionIds -> SUBSET (Accounts \X Timestamps)]
      <3>1. <<a, o.committed_timestamp>> \in Accounts \X Timestamps
        BY <1>1, <1>2
      <3> QED
        BY <1>1, <1>5, <3>1, UpdateSetType DEF HistoryTypes
    <2>4. HistoryTypes'
      BY <1>1, <2>3 DEF ReadObject, HistoryTypes
    <2>5. CASE Return(s, t, "idle")
      <3>1. TaskTypes' /\ Shape'
        BY <1>1, <1>5, <2>5, TInvReturn DEF ReadObject, Outcomes
      <3> QED
        BY <2>2, <2>4, <3>1 DEF TInv, TypeOK
    <2>6. CASE /\ call[k].op = "change"
               /\ call' = [call EXCEPT ![k].value =
                             Add(ReadValue(o, t), call[k].amount)]
               /\ Goto(s, t, "insert")
               /\ ref' = [ref EXCEPT ![k] = 0]
      <3> DEFINE c == [call[k] EXCEPT !.value = Add(ReadValue(o, t), call[k].amount)]
      <3>1. c \in Calls /\ c.op = call[k].op /\ c.acct = call[k].acct
        BY <1>1, <1>3 DEF Calls
      <3>2. Moves(s, t, "insert", c, 0, wait[k])
        BY <1>1, <1>5, <2>6 DEF TaskTypes, Moves, Goto
      <3> HIDE DEF c
      <3>3. Fits(s, "insert", c, 0, wait[k])
        BY <1>1, <1>4, <2>6, <3>1 DEF Fits, Running
      <3>4. TaskTypes' /\ Shape'
        BY <1>1, <3>2, <3>3, TInvMoves
      <3> QED
        BY <2>2, <2>4, <3>4 DEF TInv, TypeOK
    <2> QED
      BY <1>5, <2>5, <2>6
  <1>6. CASE Return(s, t, "failed") /\ UNCHANGED <<heap, seen, wait>>
    <2>1. StoreTypes' /\ HistoryTypes'
      BY <1>1, <1>6 DEF ReadObject, StoreTypes, HistoryTypes
    <2>2. TaskTypes' /\ Shape'
      BY <1>1, <1>6, TInvReturn DEF ReadObject, Outcomes
    <2> QED
      BY <2>1, <2>2 DEF TInv, TypeOK
  <1>7. CASE /\ \E w \in Writers(o) : ReadWaitsFor(o, t, w) /\ WaitFor(s, t, w)
             /\ ref' = [ref EXCEPT ![k] = 0]
             /\ UNCHANGED <<heap, seen, call>>
    <2>1. StoreTypes' /\ HistoryTypes'
      BY <1>1, <1>7 DEF ReadObject, StoreTypes, HistoryTypes
    <2>2. PICK w \in Writers(o) : WaitFor(s, t, w)
      BY <1>7
    <2> DEFINE v == [on |-> w, handle |-> 0]
    <2>3. v \in Waits /\ v.on \in TransactionIds
      BY <1>3 DEF Waits
    <2>4. Moves(s, t, "subscribe", call[k], 0, v)
      BY <1>1, <1>7, <2>2 DEF WaitFor, Moves, Goto, TaskTypes
    <2> HIDE DEF v
    <2>5. Fits(s, "subscribe", call[k], 0, v)
      BY <1>1, <1>4, <2>3 DEF Fits, Running
    <2>6. TaskTypes' /\ Shape'
      BY <1>1, <2>4, <2>5, TInvMoves
    <2> QED
      BY <2>1, <2>6 DEF TInv, TypeOK
  <1> QED
    BY <1>5, <1>6, <1>7 DEF ReadObject

LEMMA TInvGetNotification ==
    ASSUME TInv, NEW s \in Shards, NEW t \in TransactionIds, GetNotification(s, t)
    PROVE  TInv'
  <1> DEFINE k == <<s, t>>
             w == [wait[k] EXCEPT !.handle = notifications[s][wait[k].on]]
  <1>1. /\ k \in Tasks /\ StoreTypes /\ TaskTypes /\ HistoryTypes /\ TaskShape(k)
        /\ call[k] \in Calls /\ ref[k] \in 0 .. MaxIncarnations /\ wait[k] \in Waits
        /\ pc[k] = "subscribe"
        /\ call[k].op \in {"read", "change"} =>
              call[k].acct \in Accounts /\ HomeOf[call[k].acct] = s
    BY TaskFacts DEF GetNotification
  <1>2. /\ call[k].op \in {"read", "change", "check", "commit"}
        /\ wait[k].on \in TransactionIds
    BY <1>1 DEF TaskShape
  <1>3. StoreTypes' /\ HistoryTypes'
    BY <1>1 DEF GetNotification, StoreTypes, HistoryTypes, history
  <1>4. notifications[s][wait[k].on] \in Nat
    BY <1>1, <1>2 DEF StoreTypes
  <1>5. w \in Waits /\ w.on \in TransactionIds
    BY <1>1, <1>2, <1>4 DEF Waits
  <1>6. Moves(s, t, "held", call[k], ref[k], w)
    BY <1>1 DEF GetNotification, Moves, Goto, TaskTypes
  <1>7. /\ scan' \in [Tasks -> SUBSET (Accounts \X Incarnations)]
        /\ found' \in [Tasks -> Results]
    BY <1>1 DEF GetNotification, TaskTypes
  <1> HIDE DEF w
  <1>8. Fits(s, "held", call[k], ref[k], w)
    BY <1>1, <1>2, <1>5 DEF Fits, Running
  <1>9. TaskTypes' /\ Shape'
    BY <1>6, <1>7, <1>8, TInvMoves
  <1> QED
    BY <1>3, <1>9 DEF TInv, TypeOK

LEMMA TInvNotified ==
    ASSUME TInv, NEW s \in Shards, NEW t \in TransactionIds, Notified(s, t)
    PROVE  TInv'
  <1> DEFINE k == <<s, t>>
  <1>1. /\ k \in Tasks /\ StoreTypes /\ TaskTypes /\ HistoryTypes /\ TaskShape(k)
        /\ call[k] \in Calls /\ ref[k] \in 0 .. MaxIncarnations /\ wait[k] \in Waits
        /\ pc[k] = "held"
        /\ call[k].op \in {"read", "change"} =>
              call[k].acct \in Accounts /\ HomeOf[call[k].acct] = s
    BY TaskFacts DEF Notified
  <1>2. /\ call[k].op \in {"read", "change", "check", "commit"}
        /\ wait[k].on \in TransactionIds
    BY <1>1 DEF TaskShape
  <1>3. StoreTypes' /\ HistoryTypes'
    BY <1>1 DEF Notified, StoreTypes, HistoryTypes, history
  <1>4. Moves(s, t, "waiting", call[k], ref[k], wait[k])
    BY <1>1 DEF Notified, Moves, Goto, TaskTypes
  <1>5. /\ scan' \in [Tasks -> SUBSET (Accounts \X Incarnations)]
        /\ found' \in [Tasks -> Results]
    BY <1>1 DEF Notified, TaskTypes
  <1>6. Fits(s, "waiting", call[k], ref[k], wait[k])
    BY <1>1, <1>2 DEF Fits, Running
  <1>7. TaskTypes' /\ Shape'
    BY <1>4, <1>5, <1>6, TInvMoves
  <1> QED
    BY <1>3, <1>7 DEF TInv, TypeOK

LEMMA TInvInsertObject ==
    ASSUME TInv, NEW s \in Shards, NEW t \in TransactionIds, InsertObject(s, t)
    PROVE  TInv'
  <1> DEFINE k == <<s, t>>
             a == call[k].acct
             Goes(n) == ref' = [ref EXCEPT ![k] = n] /\ Goto(s, t, "write")
                        /\ UNCHANGED call
  <1>1. /\ k \in Tasks /\ StoreTypes /\ TaskTypes /\ HistoryTypes /\ TaskShape(k)
        /\ call[k] \in Calls /\ wait[k] \in Waits /\ pc[k] = "insert"
        /\ UNCHANGED <<wait, scan, found>>
    BY TaskFacts DEF InsertObject
  <1>2. call[k].op = "change" /\ a \in Accounts /\ HomeOf[a] = s
    BY <1>1, TaskTuple DEF TaskShape
  <1>3. HistoryTypes'
    BY <1>1 DEF InsertObject, HistoryTypes, history
  <1>4. /\ scan' \in [Tasks -> SUBSET (Accounts \X Incarnations)]
        /\ found' \in [Tasks -> Results]
    BY <1>1 DEF TaskTypes
  <1>5. ASSUME NEW n \in Incarnations, Goes(n)
        PROVE  TaskTypes' /\ Shape'
    <2>1. Moves(s, t, "write", call[k], n, wait[k])
      BY <1>1, <1>5 DEF Moves, Goto, TaskTypes
    <2>2. Fits(s, "write", call[k], n, wait[k])
      BY SMTT(30), <1>1, <1>2, ShardConstants DEF Fits, Running, Incarnations
    <2> QED
      BY <1>4, <2>1, <2>2, TInvMoves
  <1>6. CASE objects[a] # 0 /\ Goes(objects[a]) /\ UNCHANGED <<objects, created>>
    <2>1. StoreTypes'
      BY <1>1, <1>6 DEF InsertObject, StoreTypes
    <2>2. objects[a] \in Incarnations
      BY SMTT(30), <1>1, <1>2, <1>6, ShardConstants DEF StoreTypes, Incarnations
    <2>3. TaskTypes' /\ Shape'
      BY <1>5, <1>6, <2>2
    <2> QED
      BY <1>3, <2>1, <2>3 DEF TInv, TypeOK
  <1>7. CASE /\ created[a] < MaxIncarnations
             /\ created' = [created EXCEPT ![a] = @ + 1]
             /\ objects' = [objects EXCEPT ![a] = created[a] + 1]
             /\ Goes(created[a] + 1)
    <2>1. created[a] + 1 \in Incarnations /\ created[a] + 1 \in 0 .. MaxIncarnations
      BY SMTT(30), <1>1, <1>2, <1>7, ShardConstants DEF StoreTypes, Incarnations
    <2>2. /\ objects' \in [Accounts -> 0 .. MaxIncarnations]
          /\ created' \in [Accounts -> 0 .. MaxIncarnations]
      BY <1>1, <1>2, <1>7, <2>1 DEF StoreTypes
    <2>3. StoreTypes'
      BY <1>1, <2>2 DEF InsertObject, StoreTypes
    <2>4. TaskTypes' /\ Shape'
      BY <1>5, <1>7, <2>1
    <2> QED
      BY <1>3, <2>3, <2>4 DEF TInv, TypeOK
  <1>8. CASE Return(s, t, "not_found") /\ UNCHANGED <<objects, created>>
    <2>1. StoreTypes'
      BY <1>1, <1>8 DEF InsertObject, StoreTypes
    <2>2. TaskTypes' /\ Shape'
      BY <1>1, <1>4, <1>8, TInvReturn DEF Outcomes
    <2> QED
      BY <1>3, <2>1, <2>2 DEF TInv, TypeOK
  <1> QED
    BY <1>6, <1>7, <1>8 DEF InsertObject

LEMMA TInvWriteObject ==
    ASSUME TInv, NEW s \in Shards, NEW t \in TransactionIds, WriteObject(s, t)
    PROVE  TInv'
  <1> DEFINE k == <<s, t>>
             a == call[k].acct
             n == ref[k]
             o == heap[a][n]
  <1>1. /\ k \in Tasks /\ StoreTypes /\ TaskTypes /\ HistoryTypes /\ TaskShape(k)
        /\ call[k] \in Calls /\ wait[k] \in Waits /\ pc[k] = "write"
        /\ UNCHANGED <<wait, scan, found>>
    BY TaskFacts DEF WriteObject
  <1>2. call[k].op = "change" /\ a \in Accounts /\ n \in Incarnations
    BY <1>1 DEF TaskShape
  <1>3. found' \in [Tasks -> Results]
    BY <1>1 DEF TaskTypes
  <1>4. CASE /\ heap' = [heap EXCEPT ![a][n] = AfterWrite(o, t, call[k].value)]
             /\ acked' = [acked EXCEPT ![t] = @ \cup {a}]
             /\ credit' = [credit EXCEPT ![t][a] = @ + call[k].amount]
             /\ Return(s, t, "idle")
    <2>1. o \in Objects /\ call[k].value \in Amounts /\ call[k].amount \in Amounts
      BY <1>1, <1>2 DEF StoreTypes, Calls
    <2>2. AfterWrite(o, t, call[k].value) \in Objects
      BY <2>1, ObjectTypes
    <2>3. heap' \in [Accounts -> [Incarnations -> Objects]]
      BY <1>1, <1>2, <1>4, <2>2, UpdateNestedType DEF StoreTypes
    <2>4. StoreTypes'
      BY <1>1, <2>3 DEF WriteObject, StoreTypes
    <2>5. acked' \in [TransactionIds -> SUBSET Accounts]
      BY SMTT(30), <1>1, <1>2, <1>4, UpdateSetType DEF HistoryTypes
    <2>6. credit' \in [TransactionIds -> [Accounts -> Int]]
      <3>1. credit[t][a] + call[k].amount \in Int
        BY SMTT(30), <1>1, <1>2, <2>1, HalfIsPositive DEF HistoryTypes, Amounts
      <3>2. credit' = [credit EXCEPT ![t][a] = credit[t][a] + call[k].amount]
        BY <1>4
      <3> QED
        BY <1>1, <1>2, <3>1, <3>2, UpdateNestedType DEF HistoryTypes
    <2>7. HistoryTypes'
      BY <1>1, <2>5, <2>6 DEF WriteObject, HistoryTypes
    <2>8. TaskTypes' /\ Shape'
      BY <1>1, <1>3, <1>4, TInvReturn DEF Outcomes
    <2> QED
      BY <2>4, <2>7, <2>8 DEF TInv, TypeOK
  <1>5. CASE Return(s, t, "failed") /\ UNCHANGED <<heap, acked, credit>>
    <2>1. StoreTypes' /\ HistoryTypes'
      BY <1>1, <1>5 DEF WriteObject, StoreTypes, HistoryTypes
    <2>2. TaskTypes' /\ Shape'
      BY <1>1, <1>3, <1>5, TInvReturn DEF Outcomes
    <2> QED
      BY <2>1, <2>2 DEF TInv, TypeOK
  <1> QED
    BY <1>4, <1>5 DEF WriteObject

\* The objects in the map are objects of the heap.
LEMMA InMapType ==
    ASSUME StoreTypes, NEW s
    PROVE  InMap(s) \subseteq Accounts \X Incarnations
  BY SMTT(30), ShardConstants DEF InMap, StoreTypes, Incarnations

\* An empty collection of results has the type of results.
LEMMA NothingType == Nothing \in Results
  BY DEF Nothing, Results

\* A task that starts to visit the objects of its shard
LEMMA TInvScan ==
    ASSUME TInv, NEW s \in Shards, NEW t \in TransactionIds, NEW k, k = <<s, t>>,
           pc[k] = "snapshot", Goto(s, t, "scan"),
           UNCHANGED <<call, ref, wait>>,
           scan' = [scan EXCEPT ![k] = InMap(s)], found' \in [Tasks -> Results]
    PROVE  TaskTypes' /\ Shape'
  <1>1. /\ k \in Tasks /\ StoreTypes /\ TaskTypes /\ TaskShape(k)
        /\ call[k] \in Calls /\ ref[k] \in 0 .. MaxIncarnations /\ wait[k] \in Waits
    BY TaskFacts
  <1>2. call[k].op \in {"check", "commit", "abort"}
    BY <1>1 DEF TaskShape
  <1>3. Moves(s, t, "scan", call[k], ref[k], wait[k])
    BY <1>1 DEF Moves, Goto, TaskTypes
  <1>4. Fits(s, "scan", call[k], ref[k], wait[k])
    BY <1>1, <1>2 DEF Fits, Running
  <1>5. scan' \in [Tasks -> SUBSET (Accounts \X Incarnations)]
    BY <1>1, InMapType DEF TaskTypes
  <1> QED
    BY <1>3, <1>4, <1>5, TInvMoves

LEMMA TInvSnapshot ==
    ASSUME TInv, NEW s \in Shards, NEW t \in TransactionIds, Snapshot(s, t)
    PROVE  TInv'
  <1>1. <<s, t>> \in Tasks /\ StoreTypes /\ TaskTypes /\ HistoryTypes
    BY TaskFacts
  <1>2. StoreTypes' /\ HistoryTypes'
    BY <1>1 DEF Snapshot, StoreTypes, HistoryTypes, history
  <1>3. found' \in [Tasks -> Results]
    BY <1>1, NothingType DEF Snapshot, TaskTypes
  <1>4. TaskTypes' /\ Shape'
    BY <1>3, TInvScan DEF Snapshot
  <1> QED
    BY <1>2, <1>4 DEF TInv, TypeOK

LEMMA TInvLockForAbort ==
    ASSUME TInv, NEW s \in Shards, NEW t \in TransactionIds, LockForAbort(s, t)
    PROVE  TInv'
  <1>1. <<s, t>> \in Tasks /\ StoreTypes /\ TaskTypes /\ HistoryTypes
    BY TaskFacts
  <1>2. StoreTypes' /\ HistoryTypes'
    BY <1>1 DEF LockForAbort, StoreTypes, HistoryTypes, history
  <1>3. found' \in [Tasks -> Results]
    BY <1>1 DEF LockForAbort, TaskTypes
  <1>4. TaskTypes' /\ Shape'
    BY <1>3, TInvScan DEF LockForAbort
  <1> QED
    BY <1>2, <1>4 DEF TInv, TypeOK

\* A visit to one object
LEMMA TInvVisit ==
    ASSUME TInv, NEW s \in Shards, NEW t \in TransactionIds, NEW k, k = <<s, t>>,
           NEW x \in scan[k], scan' = [scan EXCEPT ![k] = @ \ {x}],
           NEW r \in Results, found' = [found EXCEPT ![k] = r],
           UNCHANGED <<pc, call, ref, wait>>
    PROVE  TaskTypes' /\ Shape'
  <1>1. k \in Tasks /\ TaskTypes
    BY TaskFacts
  <1>2. scan' \in [Tasks -> SUBSET (Accounts \X Incarnations)]
    BY <1>1 DEF TaskTypes
  <1>3. TaskTypes'
    BY <1>1, <1>2 DEF TaskTypes
  <1>4. Shape'
    BY DEF TInv, Shape, TaskShape
  <1> QED
    BY <1>3, <1>4

\* An object that is visited is in the heap.
LEMMA VisitedType ==
    ASSUME TInv, NEW s \in Shards, NEW t \in TransactionIds, NEW x \in scan[<<s, t>>]
    PROVE  /\ x[1] \in Accounts /\ x[2] \in Incarnations
           /\ heap[x[1]][x[2]] \in Objects
           /\ CheckResult(found[<<s, t>>], heap[x[1]][x[2]], t) \in Results
           /\ AfterCommit(heap[x[1]][x[2]], t) \in Objects
           /\ AfterAbort(heap[x[1]][x[2]], t) \in Objects
  <1> DEFINE o == heap[x[1]][x[2]]
             r == found[<<s, t>>]
  <1>1. /\ StoreTypes /\ r \in Results
        /\ scan[<<s, t>>] \subseteq Accounts \X Incarnations
    BY TaskFacts
  <1>2. x[1] \in Accounts /\ x[2] \in Incarnations
    BY <1>1
  <1>3. o \in Objects
    BY <1>1, <1>2 DEF StoreTypes
  <1>4. 0 \in Amounts
    BY HalfIsPositive DEF Amounts
  <1>5. /\ Writers(o) \subseteq TransactionIds
        /\ AfterCommit(o, t) \in Objects /\ AfterAbort(o, t) \in Objects
    BY <1>3, <1>4, ObjectTypes
  <1>6. CommitInconsistent(o, t) \in BOOLEAN
    BY DEF CommitInconsistent
  <1>7. CheckResult(r, o, t) \in Results
    BY <1>1, <1>5, <1>6 DEF CheckResult, Results
  <1> QED
    BY <1>2, <1>3, <1>5, <1>7

LEMMA TInvCheckObject ==
    ASSUME TInv, NEW s \in Shards, NEW t \in TransactionIds, CheckObject(s, t)
    PROVE  TInv'
  <1> DEFINE k == <<s, t>>
  <1>1. StoreTypes /\ HistoryTypes /\ TaskTypes /\ k \in Tasks
    BY TaskFacts
  <1>2. StoreTypes' /\ HistoryTypes'
    BY <1>1 DEF CheckObject, StoreTypes, HistoryTypes, history
  <1>3. PICK x \in scan[k] :
           /\ scan' = [scan EXCEPT ![k] = @ \ {x}]
           /\ found' = [found EXCEPT ![k] = CheckResult(@, heap[x[1]][x[2]], t)]
    BY DEF CheckObject
  <1> DEFINE r == CheckResult(found[k], heap[x[1]][x[2]], t)
  <1>4. r \in Results
    BY VisitedType
  <1>5. /\ found' = [found EXCEPT ![k] = r]
        /\ scan' = [scan EXCEPT ![k] = @ \ {x}]
        /\ UNCHANGED <<pc, call, ref, wait>>
    BY <1>3 DEF CheckObject
  <1> HIDE DEF r
  <1>6. TaskTypes' /\ Shape'
    BY <1>4, <1>5, TInvVisit
  <1> QED
    BY <1>2, <1>6 DEF TInv, TypeOK

LEMMA TInvCommitObject ==
    ASSUME TInv, NEW s \in Shards, NEW t \in TransactionIds, CommitObject(s, t)
    PROVE  TInv'
  <1> DEFINE k == <<s, t>>
  <1>1. StoreTypes /\ HistoryTypes /\ TaskTypes /\ k \in Tasks
    BY TaskFacts
  <1>2. PICK x \in scan[k] :
           /\ scan' = [scan EXCEPT ![k] = @ \ {x}]
           /\ found' = [found EXCEPT ![k] = CheckResult(@, heap[x[1]][x[2]], t)]
           /\ heap' = [heap EXCEPT ![x[1]][x[2]] = AfterCommit(heap[x[1]][x[2]], t)]
           /\ \/ versions' = [versions EXCEPT ![x[1]] = @ \cup {t}]
              \/ versions' = versions
    BY DEF CommitObject
  <1> DEFINE r == CheckResult(found[k], heap[x[1]][x[2]], t)
  <1>3. /\ x[1] \in Accounts /\ x[2] \in Incarnations /\ r \in Results
        /\ AfterCommit(heap[x[1]][x[2]], t) \in Objects
    BY VisitedType
  <1>4. heap' \in [Accounts -> [Incarnations -> Objects]]
    BY <1>1, <1>2, <1>3, UpdateNestedType DEF StoreTypes
  <1>5. versions' \in [Accounts -> SUBSET TransactionIds]
    <2>1. versions \in [Accounts -> SUBSET TransactionIds]
      BY <1>1 DEF HistoryTypes
    <2>2. [versions EXCEPT ![x[1]] = @ \cup {t}] \in [Accounts -> SUBSET TransactionIds]
      BY SMTT(30), <1>3, <2>1, UpdateSetType
    <2> QED
      BY <1>2, <2>1, <2>2
  <1>6. StoreTypes' /\ HistoryTypes'
    BY <1>1, <1>4, <1>5 DEF CommitObject, StoreTypes, HistoryTypes
  <1>7. /\ found' = [found EXCEPT ![k] = r]
        /\ scan' = [scan EXCEPT ![k] = @ \ {x}]
        /\ UNCHANGED <<pc, call, ref, wait>>
    BY <1>2 DEF CommitObject
  <1> HIDE DEF r
  <1>8. TaskTypes' /\ Shape'
    BY <1>3, <1>7, TInvVisit
  <1> QED
    BY <1>6, <1>8 DEF TInv, TypeOK

LEMMA TInvAbortObject ==
    ASSUME TInv, NEW s \in Shards, NEW t \in TransactionIds, AbortObject(s, t)
    PROVE  TInv'
  <1> DEFINE k == <<s, t>>
  <1>1. /\ StoreTypes /\ HistoryTypes /\ TaskTypes /\ k \in Tasks
        /\ found[k] \in Results
    BY TaskFacts
  <1>2. PICK x \in scan[k] :
           /\ scan' = [scan EXCEPT ![k] = @ \ {x}]
           /\ heap' = [heap EXCEPT ![x[1]][x[2]] = AfterAbort(heap[x[1]][x[2]], t)]
           /\ \/ found' = [found EXCEPT ![k].reap = @ \cup {x[1]}]
              \/ found' = [found EXCEPT ![k].reap = @]
    BY DEF AbortObject
  <1>3. /\ x[1] \in Accounts /\ x[2] \in Incarnations
        /\ AfterAbort(heap[x[1]][x[2]], t) \in Objects
    BY VisitedType
  <1>4. heap' \in [Accounts -> [Incarnations -> Objects]]
    BY <1>1, <1>2, <1>3, UpdateNestedType DEF StoreTypes
  <1>5. StoreTypes' /\ HistoryTypes'
    BY <1>1, <1>4 DEF AbortObject, StoreTypes, HistoryTypes, history
  <1>6. PICK r \in Results : found' = [found EXCEPT ![k] = r]
    <2>1. [found[k] EXCEPT !.reap = @ \cup {x[1]}] \in Results
      BY <1>1, <1>3 DEF Results
    <2>2. [found[k] EXCEPT !.reap = @] \in Results
      BY <1>1 DEF Results
    <2> QED
      BY <1>2, <2>1, <2>2
  <1>7. TaskTypes' /\ Shape'
    BY <1>2, <1>6, TInvVisit DEF AbortObject
  <1> QED
    BY <1>5, <1>7 DEF TInv, TypeOK

\* A task that has joined its visits and found a transaction to wait for
LEMMA TInvWait ==
    ASSUME TInv, NEW s \in Shards, NEW t \in TransactionIds, NEW k, k = <<s, t>>,
           pc[k] = "scan", call[k].op \in {"check", "commit"},
           NEW w \in found[k].waits, WaitFor(s, t, w), UNCHANGED <<call, ref, scan>>,
           found' \in [Tasks -> Results]
    PROVE  TaskTypes' /\ Shape'
  <1> DEFINE v == [on |-> w, handle |-> 0]
  <1>1. /\ k \in Tasks /\ TaskTypes /\ call[k] \in Calls
        /\ ref[k] \in 0 .. MaxIncarnations /\ found[k] \in Results
    BY TaskFacts
  <1>2. v \in Waits /\ v.on \in TransactionIds
    BY <1>1 DEF Waits, Results
  <1>3. Moves(s, t, "subscribe", call[k], ref[k], v)
    BY <1>1 DEF WaitFor, Moves, Goto, TaskTypes
  <1>4. scan' \in [Tasks -> SUBSET (Accounts \X Incarnations)]
    BY <1>1 DEF TaskTypes
  <1> HIDE DEF v
  <1>5. Fits(s, "subscribe", call[k], ref[k], v)
    BY <1>1, <1>2 DEF Fits, Running
  <1> QED
    BY <1>3, <1>4, <1>5, TInvMoves

LEMMA TInvJoinCheck ==
    ASSUME TInv, NEW s \in Shards, NEW t \in TransactionIds, JoinCheck(s, t)
    PROVE  TInv'
  <1> DEFINE k == <<s, t>>
  <1>1. /\ k \in Tasks /\ StoreTypes /\ TaskTypes /\ HistoryTypes
        /\ call[k] \in Calls /\ ref[k] \in 0 .. MaxIncarnations
        /\ found[k] \in Results
    BY TaskFacts
  <1>2. StoreTypes' /\ HistoryTypes'
    BY <1>1 DEF JoinCheck, StoreTypes, HistoryTypes, history
  <1>3. /\ scan' = scan /\ scan' \in [Tasks -> SUBSET (Accounts \X Incarnations)]
        /\ found' \in [Tasks -> Results]
    BY <1>1, NothingType DEF JoinCheck, TaskTypes
  <1>4. ASSUME NEW outcome \in Outcomes, Return(s, t, outcome), UNCHANGED wait
        PROVE  TaskTypes' /\ Shape'
    BY <1>3, <1>4, TInvReturn
  <1>5. ASSUME NEW w \in found[k].waits, WaitFor(s, t, w), UNCHANGED <<call, ref>>
        PROVE  TaskTypes' /\ Shape'
    BY <1>1, <1>3, <1>5, TInvWait DEF JoinCheck
  <1>6. TaskTypes' /\ Shape'
    BY <1>4, <1>5 DEF JoinCheck, Outcomes
  <1> QED
    BY <1>2, <1>6 DEF TInv, TypeOK

LEMMA TInvNotifyAndRemove ==
    ASSUME TInv, NEW s \in Shards, NEW t \in TransactionIds,
           NEW outcome \in Outcomes, NotifyAndRemove(s, t, outcome),
           UNCHANGED <<ref, scan>>
    PROVE  /\ notifications' \in [Shards -> [TransactionIds -> Nat]]
           /\ TaskTypes' /\ Shape'
  <1> DEFINE k == <<s, t>>
  <1>1. k \in Tasks /\ StoreTypes /\ TaskTypes
    BY TaskFacts
  <1>2. notifications' \in [Shards -> [TransactionIds -> Nat]]
    <2>1. /\ notifications[s][t] + 1 \in Nat
          /\ notifications' = [notifications EXCEPT ![s][t] = notifications[s][t] + 1]
      BY SMTT(30), <1>1 DEF NotifyAndRemove, StoreTypes
    <2> QED
      BY <1>1, <2>1, UpdateNestedType DEF StoreTypes
  <1>3. pc' \in [Tasks -> Running \cup Outcomes]
    BY <1>1 DEF NotifyAndRemove, LoopHead, TaskTypes, Running
  <1>4. call' \in [Tasks -> Calls]
    BY <1>1, NoCallType, UpdateType DEF NotifyAndRemove, TaskTypes
  <1>5. wait' \in [Tasks -> Waits]
    BY <1>1 DEF NotifyAndRemove, TaskTypes, Waits, NoWait
  <1>6. found' \in [Tasks -> Results]
    BY <1>1, NothingType, UpdateType DEF NotifyAndRemove, TaskTypes
  <1>7. TaskTypes'
    BY <1>1, <1>3, <1>4, <1>5, <1>6 DEF TaskTypes
  <1>8. ASSUME NEW j \in Tasks
        PROVE  TaskShape(j)'
    <2>1. TaskShape(j) /\ ref'[j] = ref[j]
      BY DEF TInv, Shape
    <2>2. CASE j = k
      <3>1. pc'[j] = outcome /\ call'[j] = NoCall
        BY <1>1, <2>2 DEF NotifyAndRemove, TaskTypes
      <3>2. call'[j].op = "none"
        BY <3>1 DEF NoCall
      <3>3. pc'[j] \notin {"find", "insert", "read", "write", "subscribe", "held",
                           "waiting", "snapshot", "scan", "notify"}
        BY <3>1 DEF Outcomes
      <3>4. call'[j].op \notin {"read", "change"}
        BY <3>2
      <3> QED
        BY <3>2, <3>3, <3>4 DEF TaskShape
    <2>3. CASE j # k /\ j \in Woken(s, t)
      <3>1. pc'[j] = LoopHead(j) /\ call'[j] = call[j] /\ pc[j] = "waiting"
        BY <1>1, <2>3 DEF NotifyAndRemove, TaskTypes, Woken
      <3> QED
        BY <2>1, <3>1 DEF TaskShape, LoopHead, Outcomes
    <2>4. CASE j # k /\ j \notin Woken(s, t)
      <3>1. pc'[j] = pc[j] /\ call'[j] = call[j] /\ wait'[j] = wait[j]
        BY <1>1, <2>4 DEF NotifyAndRemove, TaskTypes
      <3> QED
        BY <2>1, <3>1 DEF TaskShape
    <2> QED
      BY <2>2, <2>3, <2>4
  <1> QED
    BY <1>2, <1>7, <1>8 DEF Shape, Tasks

LEMMA TInvJoinCommit ==
    ASSUME TInv, NEW s \in Shards, NEW t \in TransactionIds, JoinCommit(s, t)
    PROVE  TInv'
  <1> DEFINE k == <<s, t>>
  <1>1. k \in Tasks /\ StoreTypes /\ TaskTypes /\ HistoryTypes
    BY TaskFacts
  <1>2. HistoryTypes' /\ UNCHANGED <<objects, created, heap, map_lock>>
    BY <1>1 DEF JoinCommit, HistoryTypes, history
  <1>3. CASE /\ \E w \in found[k].waits : WaitFor(s, t, w)
             /\ found' = [found EXCEPT ![k] = Nothing]
             /\ UNCHANGED <<notifications, call>>
    <2>1. StoreTypes'
      BY <1>1, <1>2, <1>3 DEF StoreTypes
    <2>2. /\ scan' = scan /\ found' \in [Tasks -> Results] /\ UNCHANGED <<call, ref>>
          /\ pc[k] = "scan" /\ call[k].op = "commit"
      BY <1>1, <1>3, NothingType DEF JoinCommit, TaskTypes
    <2>3. TaskTypes' /\ Shape'
      BY <1>3, <2>2, TInvWait
    <2> QED
      BY <1>2, <2>1, <2>3 DEF TInv, TypeOK
  <1>4. ASSUME NEW outcome \in Outcomes, NotifyAndRemove(s, t, outcome)
        PROVE  TInv'
    <2>1. /\ notifications' \in [Shards -> [TransactionIds -> Nat]]
          /\ TaskTypes' /\ Shape'
      BY <1>4, TInvNotifyAndRemove DEF JoinCommit
    <2>2. StoreTypes'
      BY <1>1, <1>2, <2>1 DEF StoreTypes
    <2> QED
      BY <1>2, <2>1, <2>2 DEF TInv, TypeOK
  <1>5. (IF found[k].bad THEN "failed" ELSE "committed") \in Outcomes
    BY DEF Outcomes
  <1> QED
    BY <1>3, <1>4, <1>5 DEF JoinCommit

LEMMA TInvNotifyAbort ==
    ASSUME TInv, NEW s \in Shards, NEW t \in TransactionIds, NotifyAbort(s, t)
    PROVE  TInv'
  <1>1. StoreTypes /\ HistoryTypes
    BY TaskFacts
  <1>2. /\ notifications' \in [Shards -> [TransactionIds -> Nat]]
        /\ TaskTypes' /\ Shape'
    BY TInvNotifyAndRemove DEF NotifyAbort, Outcomes
  <1>3. StoreTypes' /\ HistoryTypes'
    BY <1>1, <1>2 DEF NotifyAbort, StoreTypes, HistoryTypes, history
  <1> QED
    BY <1>2, <1>3 DEF TInv, TypeOK

LEMMA TInvReap ==
    ASSUME TInv, NEW s \in Shards, NEW t \in TransactionIds, Reap(s, t)
    PROVE  TInv'
  <1> DEFINE k == <<s, t>>
  <1>1. /\ k \in Tasks /\ StoreTypes /\ TaskTypes /\ HistoryTypes
        /\ call[k] \in Calls /\ ref[k] \in 0 .. MaxIncarnations /\ wait[k] \in Waits
    BY TaskFacts
  <1>2. objects' \in [Accounts -> 0 .. MaxIncarnations]
    BY SMTT(30), <1>1, ShardConstants DEF Reap, StoreTypes
  <1>3. map_lock' \in [Shards -> TransactionIds \cup {0}]
    BY <1>1 DEF Reap, StoreTypes
  <1>4. StoreTypes' /\ HistoryTypes'
    BY <1>1, <1>2, <1>3 DEF Reap, StoreTypes, HistoryTypes, history
  <1>5. /\ scan' \in [Tasks -> SUBSET (Accounts \X Incarnations)]
        /\ found' \in [Tasks -> Results]
    BY <1>1, NothingType DEF Reap, TaskTypes
  <1>6. Moves(s, t, "notify", call[k], ref[k], wait[k])
    BY <1>1 DEF Reap, Moves, Goto, TaskTypes
  <1>7. Fits(s, "notify", call[k], ref[k], wait[k])
    BY <1>1 DEF Reap, Fits, Running
  <1>8. TaskTypes' /\ Shape'
    BY <1>5, <1>6, <1>7, TInvMoves
  <1> QED
    BY <1>4, <1>8 DEF TInv, TypeOK

\* Every step keeps the types and the shapes.
LEMMA TInvNext == TInv /\ [Next]_vars => TInv'
  <1> SUFFICES ASSUME TInv, [Next]_vars PROVE TInv'
    OBVIOUS
  <1>1. ASSUME NEW s \in Shards, NEW t \in TransactionIds, TaskStep(s, t)
        PROVE  TInv'
    BY <1>1, TInvFindObject, TInvReadObject, TInvGetNotification, TInvNotified,
       TInvInsertObject, TInvWriteObject, TInvSnapshot, TInvCheckObject,
       TInvJoinCheck, TInvCommitObject, TInvJoinCommit, TInvLockForAbort,
       TInvAbortObject, TInvReap, TInvNotifyAbort
    DEF TaskStep
  <1>2. ASSUME UNCHANGED vars
        PROVE  TInv'
    BY <1>2
    DEF TInv, TypeOK, StoreTypes, TaskTypes, HistoryTypes, Shape, TaskShape,
        vars, tasks, history
  <1> QED
    BY <1>1, <1>2, TInvCall DEF Next, Quiescent

\* Every step of every task, of every shard and any number of transactions,
\* accounts and objects, leaves well-typed state behind: the objects stay
\* TimestampedObjects whose balances fit in an i64 (with Half = 2^63).
THEOREM TypeCorrect == Spec => []TypeOK
  <1>1. TInv => TypeOK
    BY DEF TInv
  <1> QED
    BY <1>1, TInvInit, TInvNext, PTL DEF Spec

-----------------------------------------------------------------------------
(* Which steps a task can take, and what they leave alone                  *)

\* The point a task is at decides which of its steps it can take.
LEMMA Where ==
    ASSUME NEW s, NEW t, TaskStep(s, t) \/ Call(s, t)
    PROVE  LET k == <<s, t>> IN
           \/ Call(s, t) /\ pc[k] \in {"idle", "failed", "not_found", "ready"}
           \/ FindObject(s, t) /\ pc[k] = "find"
           \/ ReadObject(s, t) /\ pc[k] = "read"
           \/ GetNotification(s, t) /\ pc[k] = "subscribe"
           \/ Notified(s, t) /\ pc[k] = "held"
           \/ InsertObject(s, t) /\ pc[k] = "insert"
           \/ WriteObject(s, t) /\ pc[k] = "write"
           \/ Snapshot(s, t) /\ pc[k] = "snapshot" /\ call[k].op \in {"check", "commit"}
           \/ LockForAbort(s, t) /\ pc[k] = "snapshot" /\ call[k].op = "abort"
           \/ /\ CheckObject(s, t) \/ JoinCheck(s, t)
              /\ pc[k] = "scan" /\ call[k].op = "check"
           \/ /\ CommitObject(s, t) \/ JoinCommit(s, t)
              /\ pc[k] = "scan" /\ call[k].op = "commit"
           \/ /\ AbortObject(s, t) \/ Reap(s, t)
              /\ pc[k] = "scan" /\ call[k].op = "abort"
           \/ NotifyAbort(s, t) /\ pc[k] = "notify"
  <1> DEFINE k == <<s, t>>
  <1>1. Call(s, t) => pc[k] \in {"idle", "failed", "not_found", "ready"}
    BY DEF Call, Finish, BeginRead, BeginChange, BeginCheck, BeginCommit, BeginAbort
  <1>2. /\ FindObject(s, t) => pc[k] = "find"
        /\ InsertObject(s, t) => pc[k] = "insert"
        /\ WriteObject(s, t) => pc[k] = "write"
        /\ GetNotification(s, t) => pc[k] = "subscribe"
        /\ Notified(s, t) => pc[k] = "held"
        /\ NotifyAbort(s, t) => pc[k] = "notify"
    BY DEF FindObject, InsertObject, WriteObject, GetNotification, Notified, NotifyAbort
  <1>3. ReadObject(s, t) => pc[k] = "read"
    BY DEF ReadObject
  <1>4. /\ Snapshot(s, t) => pc[k] = "snapshot" /\ call[k].op \in {"check", "commit"}
        /\ LockForAbort(s, t) => pc[k] = "snapshot" /\ call[k].op = "abort"
    BY DEF Snapshot, LockForAbort
  <1>5. CheckObject(s, t) \/ JoinCheck(s, t) => pc[k] = "scan" /\ call[k].op = "check"
    BY DEF CheckObject, JoinCheck
  <1>6. CommitObject(s, t) \/ JoinCommit(s, t) => pc[k] = "scan" /\ call[k].op = "commit"
    BY DEF CommitObject, JoinCommit
  <1>7. AbortObject(s, t) \/ Reap(s, t) => pc[k] = "scan" /\ call[k].op = "abort"
    BY DEF AbortObject, Reap
  <1> QED
    BY <1>1, <1>2, <1>3, <1>4, <1>5, <1>6, <1>7 DEF TaskStep

\* What only a few of the steps touch
LEMMA Frame ==
    ASSUME NEW s, NEW t, TaskStep(s, t) \/ Call(s, t)
    PROVE  /\ \/ ReadObject(s, t) \/ WriteObject(s, t) \/ CommitObject(s, t)
              \/ AbortObject(s, t) \/ UNCHANGED heap
           /\ \/ Snapshot(s, t) \/ LockForAbort(s, t) \/ CheckObject(s, t)
              \/ CommitObject(s, t) \/ AbortObject(s, t) \/ UNCHANGED scan
           /\ CommitObject(s, t) \/ UNCHANGED versions
           /\ FindObject(s, t) \/ ReadObject(s, t) \/ UNCHANGED seen
           /\ WriteObject(s, t) \/ UNCHANGED acked
  <1>1. Call(s, t) => UNCHANGED <<heap, scan, versions, seen, acked>>
    BY DEF Call, Finish, BeginRead, BeginChange, BeginCheck, BeginCommit, BeginAbort,
       Begin
  <1>2. FindObject(s, t) => UNCHANGED <<heap, scan, versions, acked>>
    BY DEF FindObject
  <1>3. ReadObject(s, t) => UNCHANGED <<scan, versions, acked>>
    BY DEF ReadObject
  <1>4. WriteObject(s, t) => UNCHANGED <<scan, versions, seen>>
    BY DEF WriteObject
  <1>5. CommitObject(s, t) => UNCHANGED <<seen, acked>>
    BY DEF CommitObject
  <1>6. \/ Snapshot(s, t) \/ LockForAbort(s, t) \/ CheckObject(s, t) \/ AbortObject(s, t)
        => UNCHANGED <<versions, seen, acked>>
    BY DEF Snapshot, LockForAbort, CheckObject, AbortObject, history
  <1>7. \/ GetNotification(s, t) \/ Notified(s, t) \/ InsertObject(s, t) \/ JoinCheck(s, t)
        \/ JoinCommit(s, t) \/ Reap(s, t) \/ NotifyAbort(s, t)
        => UNCHANGED <<heap, scan, versions, seen, acked>>
    BY DEF GetNotification, Notified, InsertObject, JoinCheck, JoinCommit, Reap,
                 NotifyAbort, history
  <1>8. \/ Snapshot(s, t) \/ LockForAbort(s, t) \/ CheckObject(s, t) => UNCHANGED heap
    BY DEF Snapshot, LockForAbort, CheckObject
  <1> QED
    BY <1>1, <1>2, <1>3, <1>4, <1>5, <1>6, <1>7, <1>8 DEF TaskStep

-----------------------------------------------------------------------------
(* What the methods do to the tentative writes and the committed timestamp *)

\* The tentative writes of an object are younger than its committed version.
Ordered(o) == \A w \in Writers(o) : w > o.committed_timestamp

\* An object may be replaced by p in a step.
Advances(o, p) ==
    /\ Ordered(o) => Ordered(p)
    /\ Ordered(o) => p.committed_timestamp >= o.committed_timestamp

\* Timestamps are natural numbers.
LEMMA TimestampsAreNat == Timestamps \subseteq Nat
  BY IdsArePositive DEF Timestamps, Default

\* No method of an object takes its committed timestamp back.
LEMMA MethodsAdvance ==
    ASSUME NEW o \in Objects, NEW t \in TransactionIds, NEW v \in Amounts
    PROVE  /\ Advances(o, o)
           /\ Advances(o, AfterRead(o, t))
           /\ WriteOk(o, t) => Advances(o, AfterWrite(o, t, v))
           /\ Advances(o, AfterCommit(o, t))
           /\ Advances(o, AfterAbort(o, t))
  <1>1. /\ o.committed_timestamp \in Nat
        /\ Writers(o) \subseteq TransactionIds
        /\ TransactionIds \subseteq Nat
    BY ObjectTypes, TimestampsAreNat, IdsArePositive DEF Objects
  <1>2. Advances(o, o)
    BY <1>1 DEF Advances
  <1>3. Advances(o, AfterRead(o, t))
    <2>1. /\ Writers(AfterRead(o, t)) = Writers(o)
          /\ AfterRead(o, t).committed_timestamp = o.committed_timestamp
      BY DEF AfterRead, Writers, Objects
    <2> QED
      BY <1>1, <2>1 DEF Advances, Ordered
  <1>4. ASSUME WriteOk(o, t) PROVE Advances(o, AfterWrite(o, t, v))
    <2>1. /\ Writers(AfterWrite(o, t, v)) = Writers(o) \cup {t}
          /\ AfterWrite(o, t, v).committed_timestamp = o.committed_timestamp
      BY DEF AfterWrite, Writers, Objects
    <2> QED
      BY <1>1, <1>4, <2>1 DEF Advances, Ordered, WriteOk
  <1>5. Advances(o, AfterCommit(o, t))
    <2>1. CASE ~CommitValue(o, t)
      BY <1>2, <2>1 DEF AfterCommit
    <2>2. CASE CommitValue(o, t)
      <3>1. /\ Writers(AfterCommit(o, t)) = Writers(o) \ {t}
            /\ AfterCommit(o, t).committed_timestamp = t
        BY <2>2 DEF AfterCommit, DropWrite, Writers, Objects
      <3>2. t \in Writers(o) /\ \A w \in Writers(o) : t <= w
        BY <2>2 DEF CommitValue, IsFirst
      <3> QED
        BY SMTT(30), <1>1, <3>1, <3>2 DEF Advances, Ordered
    <2> QED
      BY <2>1, <2>2
  <1>6. Advances(o, AfterAbort(o, t))
    <2>1. /\ Writers(AfterAbort(o, t)) = Writers(o) \ {t}
          /\ AfterAbort(o, t).committed_timestamp = o.committed_timestamp
      BY DEF AfterAbort, DropWrite, Writers, Objects
    <2> QED
      BY <1>1, <2>1 DEF Advances, Ordered
  <1> QED
    BY <1>2, <1>3, <1>4, <1>5, <1>6

-----------------------------------------------------------------------------
(* Every step advances every object.                                       *)

\* No object of the heap goes back.
HeapAdvances ==
    \A a \in Accounts, n \in Incarnations : Advances(heap[a][n], heap'[a][n])

\* A step that leaves the heap alone takes nothing back,
LEMMA UnchangedHeapAdvances ==
    ASSUME TInv, UNCHANGED heap
    PROVE  HeapAdvances
  <1>1. \A a \in Accounts, n \in Incarnations : heap[a][n] \in Objects
    BY DEF TInv, TypeOK, StoreTypes
  <1>2. 0 \in Amounts
    BY HalfIsPositive DEF Amounts
  <1>3. ASSUME NEW o \in Objects
        PROVE  Advances(o, o)
    <2>1. o.committed_timestamp \in Nat
      BY TimestampsAreNat DEF Objects
    <2> QED
      BY <2>1 DEF Advances
  <1> QED
    BY <1>1, <1>3 DEF HeapAdvances

\* Only one object changes.
LEMMA OneObjectAdvances ==
    ASSUME TInv, NEW a \in Accounts, NEW n \in Incarnations, NEW p,
           heap' = [heap EXCEPT ![a][n] = p], Advances(heap[a][n], p)
    PROVE  HeapAdvances
  <1>1. heap \in [Accounts -> [Incarnations -> Objects]]
    BY DEF TInv, TypeOK, StoreTypes
  <1> SUFFICES ASSUME NEW b \in Accounts, NEW m \in Incarnations
               PROVE  Advances(heap[b][m], heap'[b][m])
    BY DEF HeapAdvances
  <1>2. CASE b = a /\ m = n
    BY <1>1, <1>2
  <1>3. CASE ~(b = a /\ m = n)
    <2>1. heap'[b][m] = heap[b][m] /\ heap[b][m] \in Objects
      BY <1>1, <1>3
    <2>2. heap[b][m].committed_timestamp \in Nat
      BY <2>1, TimestampsAreNat DEF Objects
    <2> QED
      BY <2>1, <2>2 DEF Advances
  <1> QED
    BY <1>2, <1>3

\* nor does any step of a task,
LEMMA TaskStepAdvances ==
    ASSUME TInv, NEW s \in Shards, NEW t \in TransactionIds, TaskStep(s, t)
    PROVE  HeapAdvances
  <1> DEFINE k == <<s, t>>
             a == call[k].acct
             n == ref[k]
             o == heap[a][n]
  <1>1. /\ StoreTypes /\ TaskShape(k) /\ call[k] \in Calls
        /\ call[k].op \in {"read", "change"} => a \in Accounts
    BY TaskFacts
  <1>2. 0 \in Amounts /\ call[k].value \in Amounts
    BY SMTT(30), <1>1, HalfIsPositive DEF Amounts, Calls
  <1>3. pc[k] \in {"read", "write"} => a \in Accounts /\ n \in Incarnations
    BY <1>1 DEF TaskShape
  <1>4. pc[k] \in {"read", "write"} => o \in Objects
    BY <1>1, <1>3 DEF StoreTypes
  <1>5. CASE ReadObject(s, t)
    <2>1. CASE heap' = [heap EXCEPT ![a][n] = AfterRead(o, t)]
      <3>1. pc[k] = "read"
        BY <1>5 DEF ReadObject
      <3>2. Advances(o, AfterRead(o, t))
        BY <1>2, <1>4, <3>1, MethodsAdvance
      <3> QED
        BY <1>3, <2>1, <3>1, <3>2, OneObjectAdvances
    <2>2. heap' = heap \/ heap' = [heap EXCEPT ![a][n] = AfterRead(o, t)]
      BY <1>5 DEF ReadObject
    <2> QED
      BY <2>1, <2>2, UnchangedHeapAdvances
  <1>6. CASE WriteObject(s, t)
    <2> DEFINE p == AfterWrite(o, t, call[k].value)
    <2>1. CASE WriteOk(o, t) /\ heap' = [heap EXCEPT ![a][n] = p]
      <3>1. pc[k] = "write"
        BY <1>6 DEF WriteObject
      <3>2. Advances(o, p)
        BY <1>2, <1>4, <2>1, <3>1, MethodsAdvance
      <3> HIDE DEF p
      <3> QED
        BY <1>3, <2>1, <3>1, <3>2, OneObjectAdvances
    <2>2. heap' = heap \/ (WriteOk(o, t) /\ heap' = [heap EXCEPT ![a][n] = p])
      BY <1>6 DEF WriteObject
    <2> QED
      BY <2>1, <2>2, UnchangedHeapAdvances
  <1>7. CASE CommitObject(s, t)
    <2>1. PICK x \in scan[k] :
             heap' = [heap EXCEPT ![x[1]][x[2]] = AfterCommit(heap[x[1]][x[2]], t)]
      BY <1>7 DEF CommitObject
    <2>2. x[1] \in Accounts /\ x[2] \in Incarnations /\ heap[x[1]][x[2]] \in Objects
      BY VisitedType
    <2>3. Advances(heap[x[1]][x[2]], AfterCommit(heap[x[1]][x[2]], t))
      BY <1>2, <2>2, MethodsAdvance
    <2> QED
      BY <2>1, <2>2, <2>3, OneObjectAdvances
  <1>8. CASE AbortObject(s, t)
    <2>1. PICK x \in scan[k] :
             heap' = [heap EXCEPT ![x[1]][x[2]] = AfterAbort(heap[x[1]][x[2]], t)]
      BY <1>8 DEF AbortObject
    <2>2. x[1] \in Accounts /\ x[2] \in Incarnations /\ heap[x[1]][x[2]] \in Objects
      BY VisitedType
    <2>3. Advances(heap[x[1]][x[2]], AfterAbort(heap[x[1]][x[2]], t))
      BY <1>2, <2>2, MethodsAdvance
    <2> QED
      BY <2>1, <2>2, <2>3, OneObjectAdvances
  <1>9. CASE UNCHANGED heap
    BY <1>9, UnchangedHeapAdvances
  <1>10. \/ ReadObject(s, t) \/ WriteObject(s, t)
         \/ CommitObject(s, t) \/ AbortObject(s, t) \/ UNCHANGED heap
    BY Frame
  <1> QED
    BY <1>5, <1>6, <1>7, <1>8, <1>9, <1>10

\* nor any step of the shards.
LEMMA StepAdvances ==
    ASSUME TInv, [Next]_vars
    PROVE  HeapAdvances
  <1>1. ASSUME NEW s \in Shards, NEW t \in TransactionIds, Call(s, t)
        PROVE  UNCHANGED heap
    BY <1>1
    DEF Call, Finish, BeginRead, BeginChange, BeginCheck, BeginCommit, BeginAbort, Begin
  <1>2. UNCHANGED vars => UNCHANGED heap
    BY DEF vars
  <1> QED
    BY <1>1, <1>2, TaskStepAdvances, UnchangedHeapAdvances DEF Next, Quiescent

-----------------------------------------------------------------------------

LEMMA OrderedInit == Init => TentativeAboveCommitted
  <1> SUFFICES ASSUME Init PROVE TentativeAboveCommitted
    OBVIOUS
  <1>1. Writers(DefaultObject) = {} /\ Writers(OpenedObject) = {}
    BY DEF Writers, DefaultObject, OpenedObject
  <1>2. \A a \in Accounts, n \in Incarnations :
           heap[a][n] = DefaultObject \/ heap[a][n] = OpenedObject
    BY DEF Init
  <1> QED
    BY <1>1, <1>2 DEF TentativeAboveCommitted

\* Whoever still has a tentative write on an object is newer than its
\* committed version: the write rule (object.rs write) admits no other, and
\* commit installs the first tentative write only.
THEOREM TentativeStaysAbove == Spec => []TentativeAboveCommitted
  <1>1. TInv /\ TentativeAboveCommitted /\ [Next]_vars => TentativeAboveCommitted'
    BY StepAdvances DEF HeapAdvances, Advances, Ordered, TentativeAboveCommitted
  <1> QED
    BY <1>1, OrderedInit, TInvInit, TInvNext, PTL DEF Spec

\* commit never installs an older version over a newer one, whatever the
\* order in which the spawned per-object tasks run.
THEOREM CommittedTimestampsGrow == Spec => CommittedTimestampsOnlyGrow
  <1>1. TInv /\ TentativeAboveCommitted /\ [Next]_vars =>
           [\A a \in Accounts, n \in Incarnations :
               heap'[a][n].committed_timestamp >= heap[a][n].committed_timestamp]_vars
    BY StepAdvances DEF HeapAdvances, Advances, Ordered, TentativeAboveCommitted
  <1> QED
    BY <1>1, TentativeStaysAbove, TInvInit, TInvNext, PTL
    DEF Spec, CommittedTimestampsOnlyGrow

-----------------------------------------------------------------------------
(* The shards' books.  An object is untouched until it is allocated for    *)
(* an account; a task holds only objects that were, visits only objects of *)
(* its own shard, and has heard only of older writers; and the map is      *)
(* locked by an abort exactly while it visits the objects.                 *)

\* Objects are allocated in order, and an unallocated one is a new one.
Allocated(a) ==
    /\ objects[a] <= created[a]
    /\ \A n \in Incarnations : n > created[a] => heap[a][n] = DefaultObject

\* What a task in the middle of a call holds
Knows(k) ==
    /\ pc[k] \in {"read", "write"} => ref[k] <= created[call[k].acct]
    /\ \A x \in scan[k] : HomeOf[x[1]] = k[1] /\ x[2] <= created[x[1]]
    /\ pc[k] # "scan" => scan[k] = {} /\ found[k] = Nothing
    /\ \A w \in found[k].waits : w < k[2]
    /\ pc[k] \in {"subscribe", "held", "waiting"} => wait[k].on < k[2]

\* An abort is visiting the objects.
Sweeps(k) == pc[k] = "scan" /\ call[k].op = "abort"

\* The map is locked by the transaction whose abort visits the objects.
LockHeld(k) == map_lock[k[1]] = k[2] <=> Sweeps(k)

\* A step of one task leaves the state of the other tasks alone.
LEMMA OthersKept ==
    ASSUME TInv, NEW s \in Shards, NEW t \in TransactionIds,
           TaskStep(s, t) \/ Call(s, t), NEW j \in Tasks, j # <<s, t>>
    PROVE  /\ call'[j] = call[j] /\ ref'[j] = ref[j]
           /\ scan'[j] = scan[j] /\ found'[j] = found[j]
           /\ \/ pc'[j] = pc[j] /\ wait'[j] = wait[j]
              \/ pc[j] = "waiting" /\ pc'[j] = LoopHead(j)
  <1>1. TaskTypes
    BY DEF TInv, TypeOK
  <1>2. CASE Call(s, t)
    BY <1>1, <1>2 DEF TaskTypes, Call, Finish, BeginRead, BeginChange, BeginCheck,
       BeginCommit, BeginAbort, Begin, Goto
  <1>3. CASE FindObject(s, t) \/ ReadObject(s, t) \/ InsertObject(s, t) \/ WriteObject(s, t)
    BY <1>1, <1>3 DEF TaskTypes, FindObject, ReadObject, InsertObject, WriteObject,
       Goto, Return, WaitFor
  <1>4. CASE GetNotification(s, t) \/ Notified(s, t) \/ Snapshot(s, t) \/ CheckObject(s, t)
             \/ JoinCheck(s, t) \/ CommitObject(s, t)
    BY <1>1, <1>4 DEF TaskTypes, GetNotification, Notified, Snapshot, CheckObject,
       JoinCheck, CommitObject, Goto, Return, WaitFor
  <1>5. CASE LockForAbort(s, t) \/ AbortObject(s, t) \/ Reap(s, t)
    BY <1>1, <1>5 DEF TaskTypes, LockForAbort, AbortObject, Reap, Goto
  <1>6. CASE JoinCommit(s, t)
    BY <1>1, <1>6 DEF TaskTypes, JoinCommit, NotifyAndRemove, WaitFor, Goto, Woken
  <1>7. CASE NotifyAbort(s, t)
    BY <1>1, <1>7 DEF TaskTypes, NotifyAbort, NotifyAndRemove, Goto, Woken
  <1> QED
    BY <1>2, <1>3, <1>4, <1>5, <1>6, <1>7 DEF TaskStep

\* What task (s, t) may do to one object, given as o before and p after.
Changes(k, a, n) ==
    LET o == heap[a][n]
        p == heap'[a][n]
        t == k[2]
    IN
    \/ p = o
    \/ /\ pc[k] = "read" /\ call[k].acct = a /\ ref[k] = n
       /\ ReadOk(o, t) /\ p = AfterRead(o, t)
    \/ /\ pc[k] = "write" /\ call[k].acct = a /\ ref[k] = n
       /\ WriteOk(o, t) /\ p = AfterWrite(o, t, call[k].value)
    \/ /\ pc[k] = "scan" /\ call[k].op = "commit" /\ <<a, n>> \in scan[k]
       /\ p = AfterCommit(o, t)
    \/ /\ pc[k] = "scan" /\ call[k].op = "abort" /\ <<a, n>> \in scan[k]
       /\ p = AfterAbort(o, t)

\* What an assignment to one object does to the heap
LEMMA UpdateObject ==
    ASSUME TInv, NEW a \in Accounts, NEW n \in Incarnations, NEW p,
           heap' = [heap EXCEPT ![a][n] = p],
           NEW b \in Accounts, NEW m \in Incarnations
    PROVE  heap'[b][m] = IF b = a /\ m = n THEN p ELSE heap[b][m]
  BY DEF TInv, TypeOK, StoreTypes

\* A step writes at most the object its task is at.
LEMMA ObjectStep ==
    ASSUME TInv, NEW s \in Shards, NEW t \in TransactionIds,
           TaskStep(s, t) \/ Call(s, t),
           NEW b \in Accounts, NEW m \in Incarnations
    PROVE  Changes(<<s, t>>, b, m)
  <1> DEFINE k == <<s, t>>
             a == call[k].acct
             n == ref[k]
             o == heap[a][n]
  <1>1. /\ TaskShape(k) /\ k[2] = t
        /\ call[k].op \in {"read", "change"} => a \in Accounts
    BY TaskFacts
  <1>2. pc[k] \in {"read", "write"} => a \in Accounts /\ n \in Incarnations
    BY <1>1 DEF TaskShape
  <1>3. CASE UNCHANGED heap
    BY <1>3 DEF Changes
  <1>4. CASE ReadObject(s, t) /\ ~UNCHANGED heap
    <2>1. pc[k] = "read" /\ ReadOk(o, t)
      BY <1>4 DEF ReadObject
    <2>2. heap' = [heap EXCEPT ![a][n] = AfterRead(o, t)]
      BY <1>4 DEF ReadObject
    <2>3. \/ heap'[b][m] = heap[b][m]
          \/ b = a /\ m = n /\ heap'[b][m] = AfterRead(heap[b][m], t)
      <3>1. a \in Accounts /\ n \in Incarnations
        BY <1>2, <2>1
      <3>2. heap'[b][m] = IF b = a /\ m = n THEN AfterRead(o, t) ELSE heap[b][m]
        BY <2>2, <3>1 DEF TInv, TypeOK, StoreTypes
      <3> QED
        BY <3>2
    <2> QED
      BY <1>1, <2>1, <2>3 DEF Changes
  <1>5. CASE WriteObject(s, t) /\ ~UNCHANGED heap
    <2>1. pc[k] = "write" /\ WriteOk(o, t)
      BY <1>5 DEF WriteObject
    <2>2. heap' = [heap EXCEPT ![a][n] = AfterWrite(o, t, call[k].value)]
      BY <1>5 DEF WriteObject
    <2>3. \/ heap'[b][m] = heap[b][m]
          \/ b = a /\ m = n /\ heap'[b][m] = AfterWrite(heap[b][m], t, call[k].value)
      <3>1. a \in Accounts /\ n \in Incarnations
        BY <1>2, <2>1
      <3>2. heap'[b][m] = IF b = a /\ m = n THEN AfterWrite(o, t, call[k].value)
                                           ELSE heap[b][m]
        BY <2>2, <3>1 DEF TInv, TypeOK, StoreTypes
      <3> QED
        BY <3>2
    <2> QED
      BY <1>1, <2>1, <2>3 DEF Changes
  <1>6. CASE CommitObject(s, t)
    <2>1. PICK x \in scan[k] :
             heap' = [heap EXCEPT ![x[1]][x[2]] = AfterCommit(heap[x[1]][x[2]], t)]
      BY <1>6 DEF CommitObject
    <2>2. x[1] \in Accounts /\ x[2] \in Incarnations /\ x = <<x[1], x[2]>>
      BY SMTT(30), TaskFacts
    <2>3. \/ heap'[b][m] = heap[b][m]
          \/ x = <<b, m>> /\ heap'[b][m] = AfterCommit(heap[b][m], t)
      BY SMTT(30), <2>1, <2>2, UpdateObject
    <2>4. pc[k] = "scan" /\ call[k].op = "commit"
      BY <1>6 DEF CommitObject
    <2> QED
      BY <1>1, <2>2, <2>3, <2>4 DEF Changes
  <1>7. CASE AbortObject(s, t)
    <2>1. PICK x \in scan[k] :
             heap' = [heap EXCEPT ![x[1]][x[2]] = AfterAbort(heap[x[1]][x[2]], t)]
      BY <1>7 DEF AbortObject
    <2>2. x[1] \in Accounts /\ x[2] \in Incarnations /\ x = <<x[1], x[2]>>
      BY SMTT(30), TaskFacts
    <2>3. \/ heap'[b][m] = heap[b][m]
          \/ x = <<b, m>> /\ heap'[b][m] = AfterAbort(heap[b][m], t)
      BY SMTT(30), <2>1, <2>2, UpdateObject
    <2>4. pc[k] = "scan" /\ call[k].op = "abort"
      BY <1>7 DEF AbortObject
    <2> QED
      BY <1>1, <2>2, <2>3, <2>4 DEF Changes
  <1>8. \/ ReadObject(s, t) \/ WriteObject(s, t)
        \/ CommitObject(s, t) \/ AbortObject(s, t) \/ UNCHANGED heap
    BY Frame
  <1> QED
    BY <1>3, <1>4, <1>5, <1>6, <1>7, <1>8

\* What the methods do to the parts of an object the isolation argument is about
LEMMA ReadEffect ==
    ASSUME NEW o \in Objects, NEW t, NEW p, p = AfterRead(o, t)
    PROVE  /\ p.tentative_writes = o.tentative_writes /\ Writers(p) = Writers(o)
           /\ p.committed_timestamp = o.committed_timestamp
           /\ p.read_timestamps = o.read_timestamps \cup {t}
  BY DEF AfterRead, Writers, Objects

\* What write does to the fields of an object,
LEMMA WriteEffect ==
    ASSUME NEW o \in Objects, NEW t, NEW v, NEW p, p = AfterWrite(o, t, v)
    PROVE  /\ Writers(p) = Writers(o) \cup {t}
           /\ \A w \in Writers(o) \ {t} : p.tentative_writes[w] = o.tentative_writes[w]
           /\ p.tentative_writes[t] = v
           /\ p.committed_timestamp = o.committed_timestamp
           /\ p.read_timestamps = o.read_timestamps
  BY DEF AfterWrite, Writers, Objects

\* what commit does,
LEMMA CommitEffect ==
    ASSUME NEW o \in Objects, NEW t, NEW p, p = AfterCommit(o, t)
    PROVE  /\ CommitValue(o, t) => /\ p.committed_timestamp = t
                                   /\ Writers(p) = Writers(o) \ {t}
           /\ ~CommitValue(o, t) => p = o
           /\ \A w \in Writers(p) : p.tentative_writes[w] = o.tentative_writes[w]
           /\ p.read_timestamps = o.read_timestamps
  BY DEF AfterCommit, DropWrite, Writers, Objects

\* and what abort does.
LEMMA AbortEffect ==
    ASSUME NEW o \in Objects, NEW t, NEW p, p = AfterAbort(o, t)
    PROVE  /\ Writers(p) = Writers(o) \ {t}
           /\ \A w \in Writers(p) : p.tentative_writes[w] = o.tentative_writes[w]
           /\ p.committed_timestamp = o.committed_timestamp
           /\ p.read_timestamps = o.read_timestamps \ {t}
  BY DEF AfterAbort, DropWrite, Writers, Objects

\* What it may do to the map
Remaps(k, a) ==
    \/ objects'[a] = objects[a] /\ created'[a] = created[a]
    \/ /\ pc[k] = "insert" /\ call[k].acct = a /\ objects[a] = 0 /\ map_lock[k[1]] = 0
       /\ created[a] < MaxIncarnations
       /\ created'[a] = created[a] + 1 /\ objects'[a] = created[a] + 1
       /\ UNCHANGED <<heap, versions, seen>>
    \/ /\ pc[k] = "scan" /\ call[k].op = "abort" /\ scan[k] = {}
       /\ a \in found[k].reap /\ objects'[a] = 0 /\ created'[a] = created[a]
       /\ UNCHANGED <<heap, versions, seen>>

\* What a step does to the map
LEMMA MapStep ==
    ASSUME TInv, NEW s \in Shards, NEW t \in TransactionIds,
           TaskStep(s, t) \/ Call(s, t), NEW b \in Accounts
    PROVE  Remaps(<<s, t>>, b)
  <1> DEFINE k == <<s, t>>
  <1>1. objects \in [Accounts -> 0 .. MaxIncarnations]
        /\ created \in [Accounts -> 0 .. MaxIncarnations]
    BY DEF TInv, TypeOK, StoreTypes
  <1>2. CASE UNCHANGED <<objects, created>>
    BY <1>2 DEF Remaps
  <1>3. CASE InsertObject(s, t)
    BY <1>1, <1>3 DEF InsertObject, MapUnlocked, Remaps, history
  <1>4. CASE Reap(s, t)
    BY <1>1, <1>4 DEF Reap, Remaps, history
  <1>5. InsertObject(s, t) \/ Reap(s, t) \/ UNCHANGED <<objects, created>>
    BY DEF TaskStep, FindObject, ReadObject, GetNotification, Notified, WriteObject,
           Snapshot, CheckObject, JoinCheck, CommitObject, JoinCommit, LockForAbort,
           AbortObject, NotifyAbort,
           Call, Finish, BeginRead, BeginChange, BeginCheck, BeginCommit, BeginAbort, Begin
  <1> QED
    BY <1>2, <1>3, <1>4, <1>5

-----------------------------------------------------------------------------
(* What tasks hold                                                         *)

\* The invariant that the proofs below start from
Base ==
    /\ TInv
    /\ \A a \in Accounts : Allocated(a)
    /\ \A k \in Tasks : Knows(k) /\ LockHeld(k)

LEMMA BaseInit == Init => Base
  <1> SUFFICES ASSUME Init PROVE Base
    OBVIOUS
  <1>1. TInv
    BY TInvInit
  <1>2. \A a \in Accounts : Allocated(a)
    BY SMTT(30), ShardConstants DEF Init, Allocated, Incarnations
  <1>3. \A k \in Tasks : Knows(k)
    BY DEF Init, Knows, Nothing
  <1>4. \A k \in Tasks : LockHeld(k)
    BY IdsArePositive DEF Init, LockHeld, Sweeps, Tasks
  <1> QED
    BY <1>1, <1>2, <1>3, <1>4 DEF Base

\* What it says of a step of one task
LEMMA BaseFacts ==
    ASSUME Base, NEW s \in Shards, NEW t \in TransactionIds, NEW k, k = <<s, t>>
    PROVE  /\ k \in Tasks /\ k[1] = s /\ k[2] = t /\ t \in Nat
           /\ TInv /\ StoreTypes /\ TaskTypes /\ TaskShape(k) /\ Knows(k) /\ LockHeld(k)
           /\ call[k] \in Calls /\ found[k] \in Results
           /\ scan[k] \subseteq Accounts \X Incarnations
  BY TaskFacts, IdsArePositive DEF Base

\* Objects that exist go on to exist.
LEMMA AllocatedStep ==
    ASSUME Base, NEW s \in Shards, NEW t \in TransactionIds,
           TaskStep(s, t) \/ Call(s, t), NEW a \in Accounts
    PROVE  Allocated(a)'
  <1> DEFINE k == <<s, t>>
  <1>1. Allocated(a) /\ Remaps(k, a) /\ Knows(k)
    BY BaseFacts, MapStep DEF Base
  <1>2. /\ objects[a] \in 0 .. MaxIncarnations /\ created[a] \in 0 .. MaxIncarnations
        /\ MaxIncarnations \in Nat
    BY ShardConstants DEF Base, TInv, TypeOK, StoreTypes
  <1>3. objects'[a] <= created'[a] /\ created'[a] >= created[a]
    BY SMTT(30), <1>1, <1>2 DEF Allocated, Remaps
  <1>4. ASSUME NEW n \in Incarnations, n > created'[a]
        PROVE  heap'[a][n] = DefaultObject
    <2>1. n > created[a] /\ created'[a] \in Nat
      BY <1>1, <1>2, <1>3, <1>4 DEF Incarnations, Remaps
    <2>2. Changes(k, a, n)
      BY ObjectStep DEF Base
    <2>3. ~(n <= created[a])
      BY <1>2, <2>1 DEF Incarnations
    <2>4. heap'[a][n] = heap[a][n]
      BY <1>1, <2>2, <2>3 DEF Changes, Knows
    <2> QED
      BY <1>1, <2>1, <2>4 DEF Allocated
  <1> QED
    BY <1>3, <1>4 DEF Allocated

\* What the other tasks know stays true,
LEMMA KnowsOthers ==
    ASSUME Base, NEW s \in Shards, NEW t \in TransactionIds,
           TaskStep(s, t) \/ Call(s, t), NEW j \in Tasks, j # <<s, t>>
    PROVE  Knows(j)'
  <1>1. Knows(j) /\ TaskShape(j)
    BY DEF Base, TInv, Shape
  <1>2. /\ call'[j] = call[j] /\ ref'[j] = ref[j]
        /\ scan'[j] = scan[j] /\ found'[j] = found[j]
        /\ \/ pc'[j] = pc[j] /\ wait'[j] = wait[j]
           \/ pc[j] = "waiting" /\ pc'[j] = LoopHead(j)
    BY OthersKept DEF Base
  <1>3. /\ \A a \in Accounts : created[a] \in Nat /\ created'[a] \in Nat
                               /\ created'[a] >= created[a]
        /\ scan[j] \subseteq Accounts \X Incarnations
        /\ ref[j] \in Nat
    <2>1. \A a \in Accounts : created[a] \in Nat
      BY SMTT(30) DEF Base, TInv, TypeOK, StoreTypes
    <2>2. ASSUME NEW a \in Accounts
          PROVE  created'[a] = created[a] \/ created'[a] = created[a] + 1
      <3>1. Remaps(<<s, t>>, a)
        BY MapStep DEF Base
      <3> QED
        BY <3>1 DEF Remaps
    <2>3. scan[j] \subseteq Accounts \X Incarnations /\ ref[j] \in Nat
      BY SMTT(30) DEF Base, TInv, TypeOK, TaskTypes
    <2> QED
      BY <2>1, <2>2, <2>3
  <1>4. pc[j] \in {"read", "write"} => call[j].acct \in Accounts
    BY <1>1 DEF TaskShape
  <1>5. \A x \in scan[j] : x[1] \in Accounts /\ x[2] \in Nat
    BY <1>3 DEF Incarnations
  <1>6. LoopHead(j) \in {"find", "snapshot"}
    BY DEF LoopHead
  <1>7. \A x \in scan'[j] : HomeOf[x[1]] = j[1] /\ x[2] <= created'[x[1]]
    BY <1>1, <1>2, <1>3, <1>5 DEF Knows
  <1>8. pc'[j] \in {"read", "write"} => ref'[j] <= created'[call'[j].acct]
    BY SMTT(30), <1>1, <1>2, <1>3, <1>4, <1>6 DEF Knows
  <1> QED
    BY <1>1, <1>2, <1>6, <1>7, <1>8 DEF Knows

\* An outcome or a label at which a task holds no object
LEMMA KnowsNothing ==
    ASSUME NEW k, pc'[k] \notin {"read", "write", "scan"}, scan'[k] = {}, found'[k] = Nothing,
           pc'[k] \in {"subscribe", "held", "waiting"} => wait'[k].on < k[2]
    PROVE  Knows(k)'
  BY DEF Knows, Nothing

\* Where a task goes to wait
LEMMA WaitForEffect ==
    ASSUME TaskTypes, NEW s \in Shards, NEW t \in TransactionIds, NEW w, WaitFor(s, t, w)
    PROVE  pc'[<<s, t>>] = "subscribe" /\ wait'[<<s, t>>].on = w
  BY TaskTuple DEF TaskTypes, WaitFor, Goto

\* and the task of the step knows what it needs to.
LEMMA KnowsOwn ==
    ASSUME Base, NEW s \in Shards, NEW t \in TransactionIds,
           TaskStep(s, t) \/ Call(s, t)
    PROVE  Knows(<<s, t>>)'
  <1> DEFINE k == <<s, t>>
             a == call[k].acct
             o == heap[a][ref[k]]
  <1>1. /\ k \in Tasks /\ k[1] = s /\ k[2] = t /\ TaskTypes /\ StoreTypes /\ TaskShape(k) /\ Knows(k)
        /\ scan[k] \subseteq Accounts \X Incarnations /\ t \in Nat
    BY BaseFacts
  <1>2. pc[k] \in {"find", "read", "insert", "write"} => a \in Accounts
    BY <1>1 DEF TaskShape
  <1>3. CASE Call(s, t)
    <2>1. /\ pc[k] \in Outcomes /\ pc'[k] \in {"find", "snapshot"}
          /\ scan'[k] = scan[k] /\ found'[k] = found[k]
      BY <1>1, <1>3 DEF TaskTypes, Call, Finish, BeginRead, BeginChange, BeginCheck,
         BeginCommit, BeginAbort, Begin, Goto, Outcomes
    <2> QED
      BY <1>1, <2>1, KnowsNothing DEF Knows, Outcomes
  <1>4. CASE FindObject(s, t)
    <2>1. pc[k] = "find" /\ scan'[k] = scan[k] /\ found'[k] = found[k] /\ created' = created
      BY <1>4 DEF FindObject
    <2>2. \/ pc'[k] \in {"not_found", "insert"}
          \/ pc'[k] = "read" /\ ref'[k] = objects[a] /\ call'[k] = call[k]
      BY <1>1, <1>4 DEF FindObject, Return, Goto, TaskTypes
    <2>3. objects[a] <= created[a]
      BY <1>2, <2>1 DEF Base, Allocated
    <2> QED
      BY <1>1, <2>1, <2>2, <2>3 DEF Knows
  <1>5. CASE ReadObject(s, t)
    <2>1. pc[k] = "read" /\ scan'[k] = scan[k] /\ found'[k] = found[k]
      BY <1>5 DEF ReadObject
    <2>2. o \in Objects
      BY <1>1, <1>2, <2>1 DEF StoreTypes, TaskShape
    <2>3. ASSUME NEW w \in Writers(o), ReadWaitsFor(o, t, w), WaitFor(s, t, w)
          PROVE  pc'[k] = "subscribe" /\ wait'[k].on < t
      <3>1. w \in Nat
        BY <2>2, ObjectTypes, IdsArePositive, TentativeWritesType DEF Writers, Objects
      <3>2. w < t
        BY <1>1, <2>3, <3>1 DEF ReadWaitsFor, WritersUpTo
      <3> QED
        BY <1>1, <2>3, <3>2, WaitForEffect
    <2>4. \/ pc'[k] \in {"idle", "insert", "failed"}
          \/ \E w \in Writers(o) : ReadWaitsFor(o, t, w) /\ WaitFor(s, t, w)
      BY <1>1, <1>5 DEF ReadObject, Return, Goto, TaskTypes
    <2> QED
      BY <1>1, <2>1, <2>3, <2>4 DEF Knows
  <1>6. CASE InsertObject(s, t)
    <2>2. \/ pc'[k] = "not_found"
          \/ pc'[k] = "write" /\ ref'[k] = objects'[a] /\ call'[k] = call[k]
      <3>1. pc[k] = "insert" /\ a \in Accounts
        BY <1>2, <1>6 DEF InsertObject
      <3>2. CASE objects[a] # 0 /\ UNCHANGED objects
        BY <1>1, <1>6, <3>1, <3>2 DEF InsertObject, Goto, TaskTypes
      <3>3. CASE Return(s, t, "not_found")
        BY <1>1, <3>3 DEF Return, Goto, TaskTypes
      <3>4. CASE /\ objects' = [objects EXCEPT ![a] = created[a] + 1]
                 /\ ref' = [ref EXCEPT ![k] = created[a] + 1]
                 /\ Goto(s, t, "write") /\ UNCHANGED call
        BY <1>1, <3>1, <3>4 DEF Goto, TaskTypes, StoreTypes
      <3> QED
        BY <1>6, <3>2, <3>3, <3>4 DEF InsertObject
    <2>3. pc[k] = "insert" /\ scan'[k] = scan[k] /\ found'[k] = found[k]
      BY <1>6 DEF InsertObject
    <2>4. objects'[a] <= created'[a]
      BY <1>2, <2>3, AllocatedStep DEF Allocated
    <2> QED
      BY <1>1, <2>2, <2>3, <2>4 DEF Knows
  <1>7. CASE WriteObject(s, t)
    <2>1. pc[k] = "write" /\ pc'[k] \in {"idle", "failed"}
          /\ scan'[k] = scan[k] /\ found'[k] = found[k]
      BY <1>1, <1>7 DEF WriteObject, Return, Goto, TaskTypes
    <2> QED
      BY <1>1, <2>1 DEF Knows
  <1>8. CASE GetNotification(s, t) \/ Notified(s, t)
    <2>1. /\ pc[k] \in {"subscribe", "held"} /\ pc'[k] \in {"held", "waiting"}
          /\ scan'[k] = scan[k] /\ found'[k] = found[k]
      BY <1>1, <1>8 DEF GetNotification, Notified, Goto, TaskTypes
    <2>2. wait'[k].on = wait[k].on
      <3>1. wait[k] \in Waits
        BY <1>1 DEF TaskTypes
      <3>2. CASE Notified(s, t)
        BY <3>2 DEF Notified
      <3>3. CASE GetNotification(s, t)
        <4>1. wait'[k] = [wait[k] EXCEPT !.handle = notifications[s][wait[k].on]]
          BY <1>1, <3>3 DEF GetNotification, TaskTypes
        <4> QED
          BY <3>1, <4>1 DEF Waits
      <3> QED
        BY <1>8, <3>2, <3>3
    <2> QED
      BY <1>1, <2>1, <2>2 DEF Knows
  <1>9. CASE Snapshot(s, t) \/ LockForAbort(s, t)
    <2>1. /\ pc'[k] = "scan" /\ scan'[k] = InMap(s) /\ found'[k] = Nothing /\ created' = created
      BY <1>1, <1>9 DEF Snapshot, LockForAbort, Goto, TaskTypes, Knows
    <2>2. \A x \in InMap(s) : HomeOf[x[1]] = s /\ x[2] <= created[x[1]]
      BY SMTT(30) DEF InMap, Base, Allocated
    <2> QED
      BY <1>1, <2>1, <2>2 DEF Knows, Nothing
  <1>10. CASE CheckObject(s, t) \/ CommitObject(s, t)
    <2>1. PICK x \in scan[k] :
            /\ scan'[k] = scan[k] \ {x}
            /\ found'[k] = CheckResult(found[k], heap[x[1]][x[2]], t)
            /\ created' = created /\ pc'[k] = "scan"
      BY <1>1, <1>10 DEF CheckObject, CommitObject, TaskTypes
    <2>2. heap[x[1]][x[2]] \in Objects
      BY VisitedType DEF Base
    <2>3. \A w \in Writers(heap[x[1]][x[2]]) : w \in Nat
      BY <2>2, IdsArePositive, TentativeWritesType DEF Writers, Objects
    <2>4. \A w \in Writers(heap[x[1]][x[2]]) : CommitWaitsFor(heap[x[1]][x[2]], t, w) => w < t
      BY SMTT(30), <1>1, <2>3 DEF CommitWaitsFor, IsFirst
    <2>5. \A w \in found'[k].waits : w < t
      <3>1. found[k] \in Results /\ \A w \in found[k].waits : w < t
        BY <1>1 DEF Knows, TaskTypes
      <3>2. found'[k].waits = found[k].waits \cup
              {w \in Writers(heap[x[1]][x[2]]) : CommitWaitsFor(heap[x[1]][x[2]], t, w)}
        BY <2>1, <3>1 DEF CheckResult, Results
      <3> QED
        BY <2>4, <3>1, <3>2
    <2> QED
      BY <1>1, <2>1, <2>5 DEF Knows
  <1>11. CASE JoinCheck(s, t)
    <2>1. scan'[k] = {} /\ found'[k] = Nothing
      BY <1>1, <1>11 DEF JoinCheck, TaskTypes
    <2>2. \/ pc'[k] \in {"failed", "ready"}
          \/ \E w \in found[k].waits : WaitFor(s, t, w)
      BY SMTT(30), <1>1, <1>11 DEF JoinCheck, Return, Goto, TaskTypes
    <2>3. pc'[k] \in {"failed", "ready"} \/ (pc'[k] = "subscribe" /\ wait'[k].on < t)
      BY SMTT(30), <1>1, <2>2, WaitForEffect DEF Knows
    <2> QED
      BY <1>1, <2>1, <2>3, KnowsNothing
  <1>12. CASE JoinCommit(s, t)
    <2>1. scan'[k] = {} /\ found'[k] = Nothing
      BY <1>1, <1>12 DEF JoinCommit, NotifyAndRemove, TaskTypes
    <2>2. \/ pc'[k] \in {"failed", "committed"}
          \/ \E w \in found[k].waits : WaitFor(s, t, w)
      BY <1>1, <1>12 DEF JoinCommit, NotifyAndRemove, TaskTypes
    <2>3. pc'[k] \in {"failed", "committed"} \/ (pc'[k] = "subscribe" /\ wait'[k].on < t)
      BY SMTT(30), <1>1, <2>2, WaitForEffect DEF Knows
    <2> QED
      BY <1>1, <2>1, <2>3, KnowsNothing
  <1>13. CASE AbortObject(s, t)
    <2>1. /\ scan'[k] \subseteq scan[k] /\ found'[k].waits = found[k].waits
          /\ created' = created /\ pc'[k] = "scan"
      BY SMTT(30), <1>1, <1>13 DEF AbortObject, TaskTypes, Results
    <2> QED
      BY <1>1, <2>1 DEF Knows
  <1>14. CASE Reap(s, t)
    <2>1. scan'[k] = {} /\ found'[k] = Nothing /\ pc'[k] = "notify"
      BY <1>1, <1>14 DEF Reap, Goto, TaskTypes
    <2> QED
      BY <2>1, KnowsNothing
  <1>15. CASE NotifyAbort(s, t)
    <2>1. pc[k] = "notify" /\ scan'[k] = scan[k] /\ found'[k] = Nothing /\ pc'[k] = "aborted"
      BY <1>1, <1>15 DEF NotifyAbort, NotifyAndRemove, TaskTypes
    <2> QED
      BY <1>1, <2>1, KnowsNothing DEF Knows
  <1> QED
    BY <1>3, <1>4, <1>5, <1>6, <1>7, <1>8, <1>9, <1>10, <1>11, <1>12, <1>13, <1>14,
       <1>15 DEF TaskStep

\* The map of s is locked and unlocked by aborts only.
LockMoves(s, t) ==
    /\ \A r \in Shards \ {s} : map_lock'[r] = map_lock[r]
    /\ \/ map_lock'[s] = map_lock[s] /\ (Sweeps(<<s, t>>)' <=> Sweeps(<<s, t>>))
       \/ map_lock[s] = 0 /\ map_lock'[s] = t /\ Sweeps(<<s, t>>)'
       \/ map_lock'[s] = 0 /\ Sweeps(<<s, t>>) /\ ~Sweeps(<<s, t>>)'

\* Who takes and who releases the lock of the map
LEMMA LockStep ==
    ASSUME Base, NEW s \in Shards, NEW t \in TransactionIds,
           TaskStep(s, t) \/ Call(s, t)
    PROVE  LockMoves(s, t)
  <1> DEFINE k == <<s, t>>
  <1>1. k \in Tasks /\ TaskTypes /\ StoreTypes /\ TaskShape(k)
    BY BaseFacts
  <1>2. CASE LockForAbort(s, t)
    BY <1>1, <1>2 DEF LockForAbort, MapUnlocked, Goto, TaskTypes, StoreTypes,
       LockMoves, Sweeps
  <1>3. CASE Reap(s, t)
    BY <1>1, <1>3 DEF Reap, Goto, TaskTypes, StoreTypes, LockMoves, Sweeps
  <1>4. CASE AbortObject(s, t)
    BY <1>1, <1>4 DEF AbortObject, LockMoves, Sweeps
  <1>5. ASSUME UNCHANGED map_lock, ~Sweeps(k), ~Sweeps(k)'
        PROVE  LockMoves(s, t)
    BY <1>5 DEF LockMoves
  <1>6. CASE Call(s, t)
    <2>1. pc'[k] \in {"find", "snapshot"} /\ pc[k] \in Outcomes /\ UNCHANGED map_lock
      BY <1>1, <1>6 DEF TaskTypes, Call, Finish, BeginRead, BeginChange, BeginCheck,
         BeginCommit, BeginAbort, Begin, Goto, Outcomes
    <2> QED
      BY <1>5, <2>1 DEF Outcomes, Sweeps
  <1>7. CASE FindObject(s, t) \/ ReadObject(s, t) \/ InsertObject(s, t) \/ WriteObject(s, t)
    <2>1. pc[k] # "scan" /\ pc'[k] # "scan" /\ UNCHANGED map_lock
      BY <1>1, <1>7 DEF TaskTypes, FindObject, ReadObject, InsertObject, WriteObject,
         Goto, Return, WaitFor
    <2> QED
      BY <1>5, <2>1 DEF Sweeps
  <1>8. CASE GetNotification(s, t) \/ Notified(s, t) \/ NotifyAbort(s, t)
    <2>1. pc[k] # "scan" /\ pc'[k] # "scan" /\ UNCHANGED map_lock
      BY <1>1, <1>8 DEF TaskTypes, GetNotification, Notified, NotifyAbort,
         NotifyAndRemove, Goto
    <2> QED
      BY <1>5, <2>1 DEF Sweeps
  <1>9. CASE Snapshot(s, t) \/ CheckObject(s, t) \/ CommitObject(s, t)
    <2>1. call[k].op # "abort" /\ UNCHANGED <<call, map_lock>>
      BY <1>9 DEF Snapshot, CheckObject, CommitObject
    <2> QED
      BY <1>5, <2>1 DEF Sweeps
  <1>10. CASE JoinCheck(s, t) \/ JoinCommit(s, t)
    <2>1. call[k].op # "abort" /\ UNCHANGED map_lock /\ pc'[k] # "scan"
      BY <1>1, <1>10 DEF JoinCheck, JoinCommit, NotifyAndRemove, TaskTypes, Return,
         WaitFor, Goto
    <2> QED
      BY <1>5, <2>1 DEF Sweeps
  <1> QED
    BY <1>2, <1>3, <1>4, <1>6, <1>7, <1>8, <1>9, <1>10 DEF TaskStep

\* One task at most holds it.
LEMMA LockHeldStep ==
    ASSUME Base, NEW s \in Shards, NEW t \in TransactionIds,
           TaskStep(s, t) \/ Call(s, t), NEW j \in Tasks
    PROVE  LockHeld(j)'
  <1> DEFINE k == <<s, t>>
  <1>1. LockHeld(j) /\ LockHeld(k) /\ k[1] = s /\ k[2] = t /\ t # 0
    BY BaseFacts, IdsArePositive DEF Base
  <1>2. /\ j[1] \in Shards /\ j[2] \in TransactionIds /\ j[2] # 0
        /\ j = <<j[1], j[2]>>
    BY IdsArePositive DEF Tasks
  <1>3. LockMoves(s, t)
    BY LockStep
  <1>4. CASE j = k
    BY <1>1, <1>3, <1>4 DEF LockMoves, LockHeld
  <1>5. CASE j # k
    <2>1. Sweeps(j)' <=> Sweeps(j)
      BY <1>5, OthersKept DEF Base, Sweeps, LoopHead
    <2>2. j[1] = s => j[2] # t
      BY <1>2, <1>5
    <2> QED
      BY <1>1, <1>2, <1>3, <2>1, <2>2 DEF LockMoves, LockHeld
  <1> QED
    BY <1>4, <1>5

LEMMA BaseNext == Base /\ [Next]_vars => Base'
  <1> SUFFICES ASSUME Base, [Next]_vars PROVE Base'
    OBVIOUS
  <1>1. TInv'
    BY TInvNext DEF Base
  <1>2. ASSUME NEW s \in Shards, NEW t \in TransactionIds, TaskStep(s, t) \/ Call(s, t)
        PROVE  Base'
    <2>1. \A a \in Accounts : Allocated(a)'
      BY <1>2, AllocatedStep
    <2>2. \A k \in Tasks : Knows(k)'
      BY <1>2, KnowsOwn, KnowsOthers
    <2>3. \A k \in Tasks : LockHeld(k)'
      BY <1>2, LockHeldStep
    <2> QED
      BY <1>1, <2>1, <2>2, <2>3 DEF Base, Tasks
  <1>3. CASE UNCHANGED vars
    BY <1>1, <1>3 DEF Base, Allocated, Knows, LockHeld, Sweeps, Tasks, vars, tasks
  <1> QED
    BY <1>2, <1>3 DEF Next, Quiescent

\* Older transactions never wait on newer ones (README), whatever a task saw
\* of the objects before it waits.
THEOREM WaitsAreForOlder == Spec => []WaitsForOlder
  <1>1. Base => WaitsForOlder
    BY DEF Base, Knows, WaitsForOlder
  <1> QED
    BY <1>1, BaseInit, BaseNext, PTL DEF Spec

-----------------------------------------------------------------------------
(* What a step does to the object in the map                               *)

\* What the invariant says of an object
LEMMA ObjectFacts ==
    ASSUME Base, NEW a \in Accounts, NEW n \in Incarnations
    PROVE  /\ heap[a][n] \in Objects
           /\ Writers(heap[a][n]) \subseteq TransactionIds
           /\ Writers(heap[a][n]) \subseteq Nat
           /\ heap[a][n].committed_timestamp \in Nat
           /\ heap[a][n].read_timestamps \subseteq TransactionIds
  <1>1. heap[a][n] \in Objects
    BY DEF Base, TInv, TypeOK, StoreTypes
  <1> QED
    BY <1>1, IdsArePositive, TentativeWritesType, TimestampsAreNat DEF Writers, Objects

\* A tentative write that neither waits nor fails its check is committed.
LEMMA CommitDecides ==
    ASSUME NEW o \in Objects, NEW t \in Writers(o),
           \A w \in Writers(o) : ~CommitWaitsFor(o, t, w)
    PROVE  IsFirst(o, t)
  <1>1. Writers(o) \subseteq TransactionIds /\ Writers(o) # {}
    BY TentativeWritesType DEF Writers, Objects
  <1>2. PICK m \in Writers(o) : \A w \in Writers(o) : m <= w
    BY <1>1, IdsAreWellOrdered
  <1>3. IsFirst(o, m)
    BY <1>2 DEF IsFirst
  <1> QED
    BY <1>3 DEF CommitWaitsFor

\* A task changes nobody else's marks on an object, and those of its own
\* transaction on its own shard's objects only.
LEMMA MarksOfOthers ==
    ASSUME Base, NEW s \in Shards, NEW t \in TransactionIds,
           TaskStep(s, t) \/ Call(s, t),
           NEW a \in Accounts, NEW n \in Incarnations, NEW u \in TransactionIds,
           <<HomeOf[a], u>> # <<s, t>>
    PROVE  /\ u \in Writers(heap'[a][n]) <=> u \in Writers(heap[a][n])
           /\ u \in heap'[a][n].read_timestamps <=> u \in heap[a][n].read_timestamps
           /\ u \in Writers(heap[a][n]) =>
                 heap'[a][n].tentative_writes[u] = heap[a][n].tentative_writes[u]
  <1> DEFINE k == <<s, t>>
             o == heap[a][n]
             p == heap'[a][n]
  <1>1. /\ Changes(k, a, n) /\ k[1] = s /\ k[2] = t /\ Knows(k) /\ TaskShape(k)
        /\ call[k] \in Calls /\ o \in Objects
    BY ObjectStep, BaseFacts, ObjectFacts DEF Base
  <1>2. CASE u = t
    <2>1. HomeOf[a] # s
      BY <1>2
    <2>2. p = o
      BY <1>1, <2>1 DEF Changes, Knows, TaskShape
    <2> QED
      BY <2>2
  <1>3. CASE u # t
    <2>1. call[k].value \in Amounts
      BY <1>1 DEF Calls
    <2>2. \/ p = o \/ p = AfterRead(o, t) \/ p = AfterWrite(o, t, call[k].value)
          \/ p = AfterCommit(o, t) \/ p = AfterAbort(o, t)
      BY <1>1 DEF Changes
    <2>3. CASE p = AfterRead(o, t)
      BY SMTT(30), <1>1, <1>3, <2>3, ReadEffect
    <2>4. CASE p = AfterWrite(o, t, call[k].value)
      BY SMTT(30), <1>1, <1>3, <2>4, WriteEffect
    <2>5. CASE p = AfterCommit(o, t)
      BY SMTT(30), <1>1, <1>3, <2>5, CommitEffect
    <2>6. CASE p = AfterAbort(o, t)
      BY SMTT(30), <1>1, <1>3, <2>6, AbortEffect
    <2> QED
      BY <2>2, <2>3, <2>4, <2>5, <2>6
  <1> QED
    BY <1>2, <1>3

\* The object in the map after a step was there before, or is a fresh one.
LEMMA InMapAfter ==
    ASSUME Base, NEW s \in Shards, NEW t \in TransactionIds,
           TaskStep(s, t) \/ Call(s, t), NEW a \in Accounts, objects'[a] # 0
    PROVE  \/ objects'[a] = objects[a] /\ objects[a] \in Incarnations
           \/ /\ objects[a] = 0 /\ objects'[a] \in Incarnations
              /\ heap'[a][objects'[a]] = DefaultObject
              /\ UNCHANGED <<heap, versions, seen>>
  <1> DEFINE k == <<s, t>>
  <1>1. /\ Remaps(k, a) /\ Allocated(a)
        /\ objects[a] \in 0 .. MaxIncarnations /\ created[a] \in 0 .. MaxIncarnations
        /\ MaxIncarnations \in Nat
    BY MapStep, ShardConstants DEF Base, TInv, TypeOK, StoreTypes
  <1>2. CASE objects'[a] = objects[a]
    BY <1>1, <1>2 DEF Incarnations
  <1>3. CASE /\ objects[a] = 0 /\ created[a] < MaxIncarnations
             /\ objects'[a] = created[a] + 1 /\ UNCHANGED <<heap, versions, seen>>
    <2>1. objects'[a] \in Incarnations /\ objects'[a] > created[a]
      BY <1>1, <1>3 DEF Incarnations
    <2> QED
      BY <1>1, <1>3, <2>1 DEF Allocated
  <1> QED
    BY <1>1, <1>2, <1>3 DEF Remaps

\* A new object carries nothing of anybody.
LEMMA DefaultIsBlank ==
    /\ Writers(DefaultObject) = {} /\ DefaultObject.read_timestamps = {}
    /\ DefaultObject.committed_timestamp = Default
  BY DEF DefaultObject, Writers

-----------------------------------------------------------------------------
(* A resolved transaction leaves nothing                                   *)

\* What t has left on the object of a in the map: nothing, once it is resolved
\* on the shard or, during the visit of a commit or an abort, once that visit
\* is past the object.
Leaves(a, t) ==
    LET k == <<HomeOf[a], t>>
        o == heap[a][objects[a]]
    IN
    objects[a] # 0 =>
    /\ pc[k] = "committed" => t \notin Writers(o)
    /\ pc[k] \in {"notify", "aborted"} =>
          t \notin Writers(o) /\ t \notin o.read_timestamps
    /\ (pc[k] = "scan" /\ <<a, objects[a]>> \notin scan[k]) =>
          /\ (call[k].op = "commit" /\ ~found[k].bad /\ found[k].waits = {})
                 => t \notin Writers(o)
          /\ call[k].op = "abort" =>
                 t \notin Writers(o) /\ t \notin o.read_timestamps

Swept == \A a \in Accounts, t \in TransactionIds : Leaves(a, t)

\* A step of another transaction brings nothing of t back.
LEMMA LeavesOthers ==
    ASSUME Base, Swept, NEW s \in Shards, NEW t \in TransactionIds,
           TaskStep(s, t) \/ Call(s, t),
           NEW a \in Accounts, NEW u \in TransactionIds, <<HomeOf[a], u>> # <<s, t>>,
           objects'[a] = objects[a], objects[a] \in Incarnations
    PROVE  Leaves(a, u)'
  <1> DEFINE j == <<HomeOf[a], u>>
             o == heap[a][objects[a]]
             p == heap'[a][objects[a]]
  <1>1. j \in Tasks
    BY ShardConstants DEF Tasks
  <1>2. Leaves(a, u)
    BY DEF Swept
  <1>3. /\ u \in Writers(p) <=> u \in Writers(o)
        /\ u \in p.read_timestamps <=> u \in o.read_timestamps
    BY SMTT(30), MarksOfOthers
  <1>4. /\ call'[j] = call[j] /\ scan'[j] = scan[j] /\ found'[j] = found[j]
        /\ pc'[j] = pc[j] \/ pc'[j] \in {"find", "snapshot"}
    BY <1>1, OthersKept DEF Base, LoopHead
  <1> QED
    BY <1>2, <1>3, <1>4 DEF Leaves

\* A step of t itself takes what it must take.
LEMMA LeavesOwn ==
    ASSUME Base, Swept, NEW s \in Shards, NEW t \in TransactionIds,
           TaskStep(s, t) \/ Call(s, t), NEW a \in Accounts, HomeOf[a] = s,
           objects'[a] = objects[a], objects[a] \in Incarnations
    PROVE  Leaves(a, t)'
  <1> DEFINE k == <<s, t>>
             n == objects[a]
             o == heap[a][n]
             p == heap'[a][n]
  <1>1. /\ k \in Tasks /\ k[1] = s /\ k[2] = t /\ TInv /\ TaskTypes /\ TaskShape(k) /\ Knows(k)
        /\ found[k] \in Results /\ o \in Objects /\ Leaves(a, t) /\ n # 0
    BY BaseFacts, ObjectFacts DEF Swept, Incarnations
  <1>2. ASSUME pc'[k] \notin {"committed", "notify", "aborted", "scan"}
        PROVE  Leaves(a, t)'
    BY <1>2 DEF Leaves
  <1>3. CASE Call(s, t)
    <2>1. pc'[k] \in {"find", "snapshot"}
      BY <1>1, <1>3 DEF TaskTypes, Call, Finish, BeginRead, BeginChange, BeginCheck,
         BeginCommit, BeginAbort, Begin, Goto
    <2> QED
      BY <1>2, <2>1
  <1>4. CASE \/ FindObject(s, t) \/ ReadObject(s, t) \/ InsertObject(s, t)
             \/ WriteObject(s, t) \/ GetNotification(s, t) \/ Notified(s, t) \/ JoinCheck(s, t)
    <2>1. pc'[k] \notin {"committed", "notify", "aborted", "scan"}
      <3>1. CASE FindObject(s, t)
        BY <1>1, <3>1 DEF TaskTypes, FindObject, Goto, Return
      <3>2. CASE ReadObject(s, t)
        <4>1. \E l \in {"idle", "insert", "failed", "subscribe"} : Goto(s, t, l)
          BY <3>2 DEF ReadObject, Return, WaitFor
        <4> QED
          BY <1>1, <4>1 DEF TaskTypes, Goto
      <3>3. CASE \/ InsertObject(s, t) \/ WriteObject(s, t)
                 \/ GetNotification(s, t) \/ Notified(s, t)
        BY <1>1, <3>3 DEF TaskTypes, InsertObject, WriteObject, GetNotification,
           Notified, Goto, Return
      <3>4. CASE JoinCheck(s, t)
        <4>1. \E l \in {"failed", "ready", "subscribe"} : Goto(s, t, l)
          BY <3>4 DEF JoinCheck, Return, WaitFor
        <4> QED
          BY <1>1, <4>1 DEF TaskTypes, Goto
      <3> QED
        BY <1>4, <3>1, <3>2, <3>3, <3>4
    <2> QED
      BY <1>2, <2>1
  <1>5. CASE Snapshot(s, t) \/ LockForAbort(s, t)
    <2>1. scan'[k] = InMap(s) /\ pc'[k] = "scan" /\ <<a, n>> \in InMap(s)
      BY <1>1, <1>5 DEF TaskTypes, Snapshot, LockForAbort, Goto, InMap
    <2> QED
      BY <2>1 DEF Leaves
  <1>6. CASE CheckObject(s, t)
    <2>1. pc'[k] = "scan" /\ call'[k].op = "check"
      BY <1>6 DEF CheckObject
    <2> QED
      BY <2>1 DEF Leaves
  <1>7. CASE CommitObject(s, t)
    <2>1. PICK x \in scan[k] :
            /\ scan'[k] = scan[k] \ {x}
            /\ found'[k] = CheckResult(found[k], heap[x[1]][x[2]], t)
            /\ heap' = [heap EXCEPT ![x[1]][x[2]] = AfterCommit(heap[x[1]][x[2]], t)]
      BY <1>1, <1>7 DEF CommitObject, TaskTypes
    <2>2. x[1] \in Accounts /\ x[2] \in Incarnations /\ x = <<x[1], x[2]>>
      BY SMTT(30), TaskFacts DEF Base
    <2>3. \/ p = o /\ x # <<a, n>>
          \/ p = AfterCommit(o, t) /\ x = <<a, n>>
      <3>1. CASE x = <<a, n>>
        <4>1. heap' = [heap EXCEPT ![a][n] = AfterCommit(o, t)]
          BY <2>1, <3>1
        <4>2. heap \in [Accounts -> [Incarnations -> Objects]]
          BY <1>1 DEF TInv, TypeOK, StoreTypes
        <4>3. p = AfterCommit(o, t)
          BY <4>1, <4>2
        <4> QED
          BY <3>1, <4>3
      <3>2. CASE x # <<a, n>>
        <4>1. ~(a = x[1] /\ n = x[2])
          BY <2>2, <3>2
        <4> QED
          BY SMTT(30), <1>1, <2>1, <2>2, <3>2, <4>1, UpdateObject
      <3> QED
        BY <3>1, <3>2
    <2>4. /\ pc[k] = "scan" /\ pc'[k] = "scan" /\ call[k].op = "commit"
          /\ call'[k].op = "commit"
      BY <1>7 DEF CommitObject
    <2>5. /\ found'[k].bad <=> found[k].bad \/ CommitInconsistent(heap[x[1]][x[2]], t)
          /\ found'[k].waits = found[k].waits \cup
                {w \in Writers(heap[x[1]][x[2]]) : CommitWaitsFor(heap[x[1]][x[2]], t, w)}
      BY <1>1, <2>1 DEF CheckResult, Results
    <2>6. CASE x # <<a, n>>
      <3>1. p = o /\ (<<a, n>> \in scan'[k] <=> <<a, n>> \in scan[k])
        BY <2>1, <2>2, <2>3, <2>6
      <3> QED
        BY <1>1, <2>4, <2>5, <3>1 DEF Leaves
    <2>7. CASE x = <<a, n>>
      <3>1. p = AfterCommit(o, t)
        BY <2>3, <2>7
      <3>2. ASSUME ~found'[k].bad, found'[k].waits = {}
            PROVE  t \notin Writers(p)
        <4>1. ~CommitInconsistent(o, t) /\ \A w \in Writers(o) : ~CommitWaitsFor(o, t, w)
          BY <2>5, <2>7, <3>2
        <4>2. t \in Writers(o) => CommitValue(o, t)
          BY <1>1, <4>1, CommitDecides DEF CommitInconsistent, CommitValue
        <4>3. /\ CommitValue(o, t) => Writers(p) = Writers(o) \ {t}
              /\ ~CommitValue(o, t) => p = o
          BY SMTT(30), <1>1, <3>1, CommitEffect
        <4> QED
          BY <4>2, <4>3
      <3> QED
        BY <2>4, <3>2 DEF Leaves
    <2> QED
      BY <2>6, <2>7
  <1>8. CASE JoinCommit(s, t)
    <2>1. /\ pc[k] = "scan" /\ call[k].op = "commit" /\ scan[k] = {} /\ p = o
      BY <1>8 DEF JoinCommit
    <2>2. \/ pc'[k] = "subscribe"
          \/ /\ found[k].bad \/ found[k].waits = {}
             /\ pc'[k] = IF found[k].bad THEN "failed" ELSE "committed"
      BY <1>1, <1>8 DEF JoinCommit, NotifyAndRemove, WaitFor, Goto, TaskTypes
    <2> QED
      BY <1>1, <2>1, <2>2 DEF Leaves
  <1>9. CASE AbortObject(s, t)
    <2>1. PICK x \in scan[k] :
            /\ scan'[k] = scan[k] \ {x}
            /\ heap' = [heap EXCEPT ![x[1]][x[2]] = AfterAbort(heap[x[1]][x[2]], t)]
      BY <1>1, <1>9 DEF AbortObject, TaskTypes
    <2>2. x[1] \in Accounts /\ x[2] \in Incarnations /\ x = <<x[1], x[2]>>
      BY SMTT(30), TaskFacts DEF Base
    <2>3. \/ p = o /\ x # <<a, n>>
          \/ p = AfterAbort(o, t) /\ x = <<a, n>>
      <3>1. CASE x = <<a, n>>
        <4>1. heap' = [heap EXCEPT ![a][n] = AfterAbort(o, t)]
          BY <2>1, <3>1
        <4>2. heap \in [Accounts -> [Incarnations -> Objects]]
          BY <1>1 DEF TInv, TypeOK, StoreTypes
        <4>3. p = AfterAbort(o, t)
          BY <4>1, <4>2
        <4> QED
          BY <3>1, <4>3
      <3>2. CASE x # <<a, n>>
        <4>1. ~(a = x[1] /\ n = x[2])
          BY <2>2, <3>2
        <4> QED
          BY SMTT(30), <1>1, <2>1, <2>2, <3>2, <4>1, UpdateObject
      <3> QED
        BY <3>1, <3>2
    <2>4. /\ pc[k] = "scan" /\ pc'[k] = "scan" /\ call[k].op = "abort"
          /\ call'[k].op = "abort"
      BY <1>9 DEF AbortObject
    <2>5. t \notin Writers(AfterAbort(o, t)) /\ t \notin AfterAbort(o, t).read_timestamps
      BY SMTT(30), <1>1, AbortEffect
    <2>6. CASE x # <<a, n>>
      BY <1>1, <2>1, <2>2, <2>3, <2>4, <2>6 DEF Leaves
    <2>7. CASE x = <<a, n>>
      BY <2>3, <2>4, <2>5, <2>7 DEF Leaves
    <2> QED
      BY <2>6, <2>7
  <1>10. CASE Reap(s, t) \/ NotifyAbort(s, t)
    <2>1. /\ p = o
          /\ \/ pc[k] = "scan" /\ call[k].op = "abort" /\ scan[k] = {} /\ pc'[k] = "notify"
             \/ pc[k] = "notify" /\ pc'[k] = "aborted"
      BY <1>1, <1>10 DEF Reap, NotifyAbort, NotifyAndRemove, Goto, TaskTypes
    <2> QED
      BY <1>1, <2>1 DEF Leaves
  <1> QED
    BY <1>3, <1>4, <1>5, <1>6, <1>7, <1>8, <1>9, <1>10 DEF TaskStep

LEMMA SweptInit == Init => Swept
  <1> SUFFICES ASSUME Init, NEW a \in Accounts, NEW t \in TransactionIds
               PROVE  Leaves(a, t)
    BY DEF Swept
  <1>1. <<HomeOf[a], t>> \in Tasks
    BY ShardConstants DEF Tasks
  <1>2. pc[<<HomeOf[a], t>>] \in {"committed", "idle"}
    BY <1>1 DEF Init
  <1>3. objects[a] # 0 => Writers(heap[a][objects[a]]) = {}
    BY SMTT(30), ShardConstants DEF Init, Incarnations, OpenedObject, DefaultObject, Writers
  <1> QED
    BY <1>2, <1>3 DEF Leaves

LEMMA SweptNext == Base /\ Swept /\ [Next]_vars => Swept'
  <1> SUFFICES ASSUME Base, Swept, [Next]_vars,
                      NEW a \in Accounts, NEW u \in TransactionIds
               PROVE  Leaves(a, u)'
    BY DEF Swept
  <1>1. ASSUME NEW s \in Shards, NEW t \in TransactionIds, TaskStep(s, t) \/ Call(s, t)
        PROVE  Leaves(a, u)'
    <2>1. CASE objects'[a] = 0
      BY <2>1 DEF Leaves
    <2>2. CASE objects'[a] = objects[a] /\ objects[a] \in Incarnations
      <3>1. CASE <<HomeOf[a], u>> = <<s, t>>
        BY <1>1, <2>2, <3>1, LeavesOwn
      <3> QED
        BY <1>1, <2>2, <3>1, LeavesOthers
    <2>3. CASE heap'[a][objects'[a]] = DefaultObject
      BY <2>3, DefaultIsBlank DEF Leaves
    <2> QED
      BY <1>1, <2>1, <2>2, <2>3, InMapAfter
  <1>2. CASE UNCHANGED vars
    BY <1>2 DEF Swept, Leaves, vars, tasks
  <1> QED
    BY <1>1, <1>2 DEF Next, Quiescent

\* Once a transaction is resolved on a shard none of its tentative writes is
\* left in the map, and none of its read timestamps if it aborted: commit and
\* abort (shard.rs) visit every object the transaction can have touched,
\* although the map changes while they do.
THEOREM ResolvedIsClean == Spec => []ResolvedLeavesNothing
  <1>1. Swept => ResolvedLeavesNothing
    BY DEF Swept, Leaves, ResolvedLeavesNothing, Resolved
  <1> QED
    BY <1>1, BaseInit, BaseNext, SweptInit, SweptNext, PTL DEF Spec
=============================================================================
