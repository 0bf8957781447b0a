---------------------------- MODULE SerialProofs ----------------------------
(***************************************************************************)
(* What a transaction has read stays valid: no version is ever installed   *)
(* between the one it read and itself.  On the way, the reap of an abort   *)
(* spares every committed account, although it acts on earlier answers,    *)
(* and a commit finds nothing to refuse that the vote had not seen.        *)
(*                                                                         *)
(* Then accounts that have been committed before.  On such an account a    *)
(* balance change registers its read before it writes, so the write rule   *)
(* admits one tentative write at a time.  From this follows that a         *)
(* committed transaction has installed every change it was told had        *)
(* succeeded, and that committed transactions are serializable in          *)
(* timestamp order.                                                        *)
(***************************************************************************)
EXTENDS ShardProofs

\* Zenon first, which is quick on the many steps without arithmetic; the steps on
\* which it is not cite SMTT(30).
USE ZenonT(20), SMTT(30)

-----------------------------------------------------------------------------
(* What an abort has marked for the reap is still reapable                 *)

\* Task k has not had its vote and cannot get it without looking at the map.
Unvoted(k) ==
    /\ pc[k] # "ready"
    /\ call[k].op # "commit"
    /\ call[k].op = "check" => pc[k] = "snapshot"

\* Nobody has committed the object of a in the map, and nobody who wrote it
\* can before the abort of k lets go of the map.
Reapable(k, a) ==
    /\ HomeOf[a] = k[1]
    /\ objects[a] # 0
    /\ <<a, objects[a]>> \notin scan[k]
    /\ heap[a][objects[a]].committed_timestamp = Default
    /\ \A u \in Writers(heap[a][objects[a]]) : Unvoted(<<k[1], u>>)

\* What an abort still visits is in the map, and what it marks is reapable.
Marks(k) == Sweeps(k) =>
    /\ \A x \in scan[k] : objects[x[1]] = x[2]
    /\ \A a \in found[k].reap : Reapable(k, a)

Marked == \A k \in Tasks : Marks(k)

\* Two aborts never hold the map of one shard.
LEMMA OneSweeper ==
    ASSUME Base, NEW j \in Tasks, NEW k \in Tasks, j[1] = k[1], Sweeps(j), Sweeps(k)
    PROVE  j = k
  <1>1. map_lock[j[1]] = j[2] /\ map_lock[k[1]] = k[2]
    BY DEF Base, LockHeld
  <1> QED
    BY <1>1 DEF Tasks

\* While an abort sweeps a shard nobody else changes its map.
LEMMA LockedMap ==
    ASSUME Base, Marked, NEW s \in Shards, NEW t \in TransactionIds,
           TaskStep(s, t) \/ Call(s, t), NEW j \in Tasks, j # <<s, t>>, Sweeps(j),
           NEW a \in Accounts, HomeOf[a] = j[1]
    PROVE  objects'[a] = objects[a]
  <1> DEFINE k == <<s, t>>
  <1>1. k \in Tasks /\ k[1] = s /\ TaskShape(k) /\ Remaps(k, a) /\ Marks(k)
    BY BaseFacts, MapStep DEF Base, Marked
  <1>2. map_lock[j[1]] # 0
    BY IdsArePositive DEF Base, LockHeld, Tasks
  <1>3. ASSUME pc[k] = "insert", call[k].acct = a, map_lock[k[1]] = 0
        PROVE  FALSE
    BY <1>1, <1>2, <1>3 DEF TaskShape
  <1>4. ASSUME pc[k] = "scan", call[k].op = "abort", a \in found[k].reap
        PROVE  FALSE
    <2>1. Sweeps(k) /\ HomeOf[a] = k[1]
      BY <1>1, <1>4 DEF Marks, Reapable, Sweeps
    <2> QED
      BY <1>1, <2>1, OneSweeper
  <1> QED
    BY <1>1, <1>3, <1>4 DEF Remaps

\* The calls, and what a task then does
LEMMA BeginsOp ==
    ASSUME Base, NEW s \in Shards, NEW t \in TransactionIds
    PROVE  LET k == <<s, t>> IN
           /\ \A a \in Accounts : BeginRead(s, t, a) =>
                 /\ pc[k] = "idle" /\ pc'[k] = "find"
                 /\ call'[k].op = "read" /\ call'[k].acct = a
           /\ \A a \in Accounts, d \in Diffs : BeginChange(s, t, a, d) =>
                 /\ pc[k] = "idle" /\ pc'[k] = "find"
                 /\ call'[k].op = "change" /\ call'[k].acct = a
           /\ BeginCheck(s, t) =>
                 pc[k] = "idle" /\ pc'[k] = "snapshot" /\ call'[k].op = "check"
           /\ BeginCommit(s, t) =>
                 pc[k] = "ready" /\ pc'[k] = "snapshot" /\ call'[k].op = "commit"
           /\ BeginAbort(s, t) =>
                 /\ pc[k] \in {"idle", "failed", "not_found", "ready"}
                 /\ pc'[k] = "snapshot" /\ call'[k].op = "abort"
  <1> DEFINE k == <<s, t>>
  <1>1. k \in Tasks /\ TaskTypes
    BY BaseFacts
  <1>2. ASSUME NEW label, NEW c, Begin(s, t, label, c)
        PROVE  pc'[k] = label /\ call'[k] = c
    BY <1>1, <1>2 DEF Begin, Goto, TaskTypes
  <1>3. ASSUME NEW a \in Accounts, BeginRead(s, t, a)
        PROVE  /\ pc[k] = "idle" /\ pc'[k] = "find"
               /\ call'[k].op = "read" /\ call'[k].acct = a
    <2>1. pc'[k] = "find" /\ call'[k] = [NoCall EXCEPT !.op = "read", !.acct = a]
      BY <1>2, <1>3 DEF BeginRead
    <2> QED
      BY <1>3, <2>1 DEF BeginRead, NoCall
  <1>4. ASSUME NEW a \in Accounts, NEW d \in Diffs, BeginChange(s, t, a, d)
        PROVE  /\ pc[k] = "idle" /\ pc'[k] = "find"
               /\ call'[k].op = "change" /\ call'[k].acct = a
    <2>1. pc'[k] = "find"
          /\ call'[k] = [NoCall EXCEPT !.op = "change", !.acct = a, !.amount = d]
      BY <1>2, <1>4 DEF BeginChange
    <2> QED
      BY <1>4, <2>1 DEF BeginChange, NoCall
  <1>5. ASSUME NEW op, Begin(s, t, "snapshot", [NoCall EXCEPT !.op = op])
        PROVE  pc'[k] = "snapshot" /\ call'[k].op = op
    <2>1. pc'[k] = "snapshot" /\ call'[k] = [NoCall EXCEPT !.op = op]
      BY <1>2, <1>5
    <2> QED
      BY <2>1 DEF NoCall
  <1> QED
    BY <1>3, <1>4, <1>5 DEF BeginCheck, BeginCommit, BeginAbort

\* A task gets its vote only by taking another look at the map.
LEMMA UnvotedStays ==
    ASSUME Base, NEW s \in Shards, NEW t \in TransactionIds,
           TaskStep(s, t) \/ Call(s, t), Unvoted(<<s, t>>), map_lock[s] # 0
    PROVE  Unvoted(<<s, t>>)'
  <1> DEFINE k == <<s, t>>
  <1>1. k \in Tasks /\ TaskTypes /\ TaskShape(k) /\ call[k] \in Calls
    BY BaseFacts
  <1>2. CASE Call(s, t)
    <2>1. CASE \/ \E a \in Accounts : BeginRead(s, t, a)
               \/ \E a \in Accounts, d \in Diffs : BeginChange(s, t, a, d)
      BY <2>1, BeginsOp DEF Unvoted
    <2>2. CASE Finish(s, t)
      <3>1. ~BeginCommit(s, t)
        BY DEF BeginCommit, Unvoted
      <3> QED
        BY <2>2, <3>1, BeginsOp DEF Finish, Unvoted
    <2> QED
      BY <1>2, <2>1, <2>2 DEF Call
  <1>3. ASSUME UNCHANGED call, pc'[k] \notin Outcomes, call[k].op \notin {"check", "commit"}
        PROVE  Unvoted(k)'
    BY <1>3 DEF Unvoted, Outcomes
  <1>4. ASSUME call'[k].op = "none", pc'[k] # "ready"
        PROVE  Unvoted(k)'
    BY <1>4 DEF Unvoted
  <1>5. CASE FindObject(s, t) \/ InsertObject(s, t)
    BY <1>5 DEF FindObject, InsertObject, MapUnlocked
  <1>6. CASE ReadObject(s, t)
    <2>1. call[k].op \in {"read", "change"}
      BY <1>1, <1>6 DEF ReadObject, TaskShape
    <2>2. pc'[k] # "ready"
      BY <1>1, <1>6 DEF ReadObject, TaskTypes, Return, WaitFor, Goto
    <2> DEFINE v == Add(ReadValue(heap[call[k].acct][ref[k]], t), call[k].amount)
    <2>3. \/ call' = [call EXCEPT ![k] = NoCall] \/ call' = call
          \/ call' = [call EXCEPT ![k].value = v]
      BY <1>6 DEF ReadObject, Return
    <2> HIDE DEF v
    <2>4. call'[k].op \in {"none", "read", "change"}
      <3>1. call \in [Tasks -> Calls] /\ call[k] \in Calls
        BY <1>1 DEF TaskTypes
      <3>2. call'[k] = NoCall \/ call'[k] = call[k] \/ call'[k] = [call[k] EXCEPT !.value = v]
        BY <1>1, <2>3, <3>1
      <3> QED
        BY SMTT(30), <2>1, <3>1, <3>2 DEF NoCall, Calls
    <2> QED
      BY <2>2, <2>4 DEF Unvoted
  <1>7. CASE WriteObject(s, t)
    <2>1. pc'[k] # "ready" /\ call'[k].op = "none"
      BY SMTT(30), <1>1, <1>7 DEF WriteObject, TaskTypes, Return, Goto, NoCall
    <2> QED
      BY <1>4, <2>1
  <1>8. CASE GetNotification(s, t) \/ Notified(s, t)
    <2>1. pc[k] \in {"subscribe", "held"} /\ pc'[k] \in {"held", "waiting"} /\ UNCHANGED call
      BY <1>1, <1>8 DEF GetNotification, Notified, Goto, TaskTypes
    <2> QED
      BY <2>1 DEF Unvoted
  <1>9. CASE Snapshot(s, t) \/ LockForAbort(s, t)
    BY <1>9 DEF Snapshot, LockForAbort, MapUnlocked
  <1>10. CASE CheckObject(s, t) \/ JoinCheck(s, t) \/ CommitObject(s, t) \/ JoinCommit(s, t)
    BY <1>10 DEF CheckObject, JoinCheck, CommitObject, JoinCommit, Unvoted
  <1>11. CASE AbortObject(s, t) \/ Reap(s, t)
    <2>1. call[k].op = "abort" /\ UNCHANGED call /\ pc'[k] # "ready"
      BY <1>1, <1>11 DEF AbortObject, Reap, Goto, TaskTypes
    <2> QED
      BY <2>1 DEF Unvoted
  <1>12. CASE NotifyAbort(s, t)
    <2>1. call'[k].op = "none" /\ pc'[k] = "aborted"
      BY <1>1, <1>12 DEF NotifyAbort, NotifyAndRemove, TaskTypes, NoCall
    <2> QED
      BY <1>4, <2>1
  <1> QED
    BY <1>2, <1>5, <1>6, <1>7, <1>8, <1>9, <1>10, <1>11, <1>12 DEF TaskStep

\* The same of every task of the shard
LEMMA UnvotedOthers ==
    ASSUME Base, NEW s \in Shards, NEW t \in TransactionIds,
           TaskStep(s, t) \/ Call(s, t), NEW j \in Tasks, j # <<s, t>>, Unvoted(j)
    PROVE  Unvoted(j)'
  <1>1. /\ call'[j] = call[j]
        /\ pc'[j] = pc[j] \/ (pc[j] = "waiting" /\ pc'[j] = LoopHead(j))
    BY OthersKept DEF Base
  <1> QED
    BY <1>1 DEF Unvoted, LoopHead

\* A step of another task spoils nothing that is marked,
LEMMA MarksOthers ==
    ASSUME Base, Marked, NEW s \in Shards, NEW t \in TransactionIds,
           TaskStep(s, t) \/ Call(s, t), NEW j \in Tasks, j # <<s, t>>
    PROVE  Marks(j)'
  <1> DEFINE k == <<s, t>>
  <1>1. /\ call'[j] = call[j] /\ scan'[j] = scan[j] /\ found'[j] = found[j]
        /\ pc'[j] = pc[j] \/ pc'[j] \in {"find", "snapshot"}
    BY OthersKept DEF Base, LoopHead
  <1> SUFFICES ASSUME Sweeps(j), pc'[j] = pc[j]
               PROVE  Marks(j)'
    BY <1>1 DEF Marks, Sweeps
  <1>2. /\ Marks(j) /\ Knows(j) /\ LockHeld(j) /\ k \in Tasks /\ k[1] = s /\ k[2] = t
        /\ TInv /\ TaskTypes /\ TaskShape(k) /\ Knows(k) /\ call[k] \in Calls
        /\ j[1] \in Shards /\ j[2] \in TransactionIds
    BY BaseFacts DEF Base, Marked, Tasks
  <1>3. scan[j] \subseteq Accounts \X Incarnations /\ found[j].reap \subseteq Accounts
    BY <1>2 DEF TaskTypes, Results
  <1>4. \A x \in scan'[j] : objects'[x[1]] = x[2]
    BY SMTT(30), <1>1, <1>2, <1>3, LockedMap DEF Marks, Knows
  <1>5. ASSUME NEW a \in found[j].reap
        PROVE  Reapable(j, a)'
    <2> DEFINE n == objects[a]
               o == heap[a][n]
               p == heap'[a][n]
    <2>1. a \in Accounts /\ Reapable(j, a)
      BY <1>2, <1>3, <1>5 DEF Marks
    <2>2. /\ HomeOf[a] = j[1] /\ n # 0 /\ <<a, n>> \notin scan[j]
          /\ o.committed_timestamp = Default
          /\ \A u \in Writers(o) : Unvoted(<<j[1], u>>)
      BY <2>1 DEF Reapable
    <2>3. objects'[a] = n /\ n \in Incarnations
      <3>1. n \in 0 .. MaxIncarnations
        BY <1>2, <2>1 DEF TInv, TypeOK, StoreTypes
      <3> QED
        BY SMTT(30), <2>1, <2>2, <3>1, LockedMap, ShardConstants DEF Incarnations
    <2>4. o \in Objects /\ Writers(o) \subseteq TransactionIds /\ Changes(k, a, n)
      BY <1>2, <2>1, <2>3, ObjectFacts, ObjectStep
    <2>5. map_lock[j[1]] # 0
      BY <1>2, IdsArePositive DEF LockHeld
    <2>6. ASSUME pc[k] = "scan", call[k].op = "commit", <<a, n>> \in scan[k],
                 CommitValue(o, t)
          PROVE  FALSE
      <3>1. HomeOf[a] = s
        BY <1>2, <2>6 DEF Knows
      <3>2. Unvoted(k)
        BY <2>2, <2>6, <3>1 DEF CommitValue, IsFirst
      <3> QED
        BY <2>6, <3>2 DEF Unvoted
    <2>7. call[k].value \in Amounts
      BY <1>2 DEF Calls
    <2>8. /\ p.committed_timestamp = o.committed_timestamp
          /\ \A u \in Writers(p) : u \in Writers(o) \/ (u = t /\ pc[k] = "write" /\ call[k].acct = a)
      <3>1. \/ p = o \/ p = AfterRead(o, t) \/ p = AfterAbort(o, t)
            \/ /\ pc[k] = "write" /\ call[k].acct = a
               /\ p = AfterWrite(o, t, call[k].value)
            \/ p = AfterCommit(o, t) /\ ~CommitValue(o, t)
        BY <1>2, <2>4, <2>6 DEF Changes
      <3>2. CASE p = AfterRead(o, t)
        BY SMTT(30), <2>4, <3>2, ReadEffect
      <3>3. CASE pc[k] = "write" /\ call[k].acct = a /\ p = AfterWrite(o, t, call[k].value)
        BY SMTT(30), <2>4, <3>3, WriteEffect
      <3>4. CASE p = AfterCommit(o, t) /\ ~CommitValue(o, t)
        BY SMTT(30), <2>4, <3>4, CommitEffect
      <3>5. CASE p = AfterAbort(o, t)
        BY SMTT(30), <2>4, <3>5, AbortEffect
      <3> QED
        BY <3>1, <3>2, <3>3, <3>4, <3>5
    <2>9. ASSUME NEW u \in Writers(p)
          PROVE  Unvoted(<<j[1], u>>)'
      <3>1. CASE u \in Writers(o)
        <4>1. Unvoted(<<j[1], u>>) /\ <<j[1], u>> \in Tasks
          BY <1>2, <2>2, <2>4, <3>1 DEF Tasks
        <4>2. CASE <<j[1], u>> # k
          BY <4>1, <4>2, UnvotedOthers
        <4>3. CASE <<j[1], u>> = k
          BY <2>5, <4>1, <4>3, UnvotedStays
        <4> QED
          BY <4>2, <4>3
      <3>2. CASE u = t /\ pc[k] = "write" /\ call[k].acct = a
        <4>1. HomeOf[a] = s
          BY <1>2, <3>2 DEF TaskShape
        <4>2. Unvoted(k)
          BY <1>2, <3>2 DEF Unvoted, TaskShape
        <4> QED
          BY <2>2, <2>5, <3>2, <4>1, <4>2, UnvotedStays
      <3> QED
        BY <2>8, <3>1, <3>2
    <2> QED
      BY <1>1, <2>1, <2>2, <2>3, <2>8, <2>9 DEF Reapable
  <1> QED
    BY <1>1, <1>4, <1>5 DEF Marks

\* and the abort itself marks only what is reapable.
LEMMA MarksOwn ==
    ASSUME Base, Marked, NEW s \in Shards, NEW t \in TransactionIds,
           TaskStep(s, t) \/ Call(s, t)
    PROVE  Marks(<<s, t>>)'
  <1> DEFINE k == <<s, t>>
  <1>1. /\ Marks(k) /\ Knows(k) /\ LockHeld(k) /\ k \in Tasks /\ k[1] = s /\ k[2] = t
        /\ TInv /\ TaskTypes /\ TaskShape(k) /\ found[k] \in Results
        /\ scan[k] \subseteq Accounts \X Incarnations
    BY BaseFacts DEF Base, Marked
  <1>2. CASE LockForAbort(s, t)
    <2>1. /\ found'[k] = Nothing /\ scan'[k] = InMap(s) /\ UNCHANGED objects
      BY <1>1, <1>2 DEF LockForAbort, TaskTypes, Knows
    <2> QED
      BY <2>1 DEF Marks, Nothing, InMap
  <1>3. CASE AbortObject(s, t)
    <2>1. PICK x \in scan[k] :
            /\ scan'[k] = scan[k] \ {x}
            /\ heap' = [heap EXCEPT ![x[1]][x[2]] = AfterAbort(heap[x[1]][x[2]], t)]
            /\ found'[k] = [found[k] EXCEPT !.reap =
                 IF CanReap(AfterAbort(heap[x[1]][x[2]], t), t) THEN @ \cup {x[1]} ELSE @]
      BY <1>1, <1>3 DEF AbortObject, TaskTypes
    <2> DEFINE o == heap[x[1]][x[2]]
               p == heap'[x[1]][x[2]]
    <2>2. x[1] \in Accounts /\ x[2] \in Incarnations /\ x = <<x[1], x[2]>> /\ o \in Objects
      BY <1>1, ObjectFacts
    <2>3. Sweeps(k) /\ UNCHANGED <<objects, call, pc>> /\ Sweeps(k)'
      BY <1>3 DEF AbortObject, Sweeps
    <2>4. objects[x[1]] = x[2] /\ HomeOf[x[1]] = s
      BY <1>1, <2>3 DEF Marks, Knows
    <2>5. p = AfterAbort(o, t)
      BY <1>1, <2>1, <2>2 DEF TInv, TypeOK, StoreTypes
    <2>6. \A a \in found'[k].reap : a \in found[k].reap \/ (a = x[1] /\ CanReap(p, t))
      BY SMTT(30), <1>1, <2>1, <2>5 DEF Results
    <2>7. ASSUME NEW a \in found[k].reap
          PROVE  Reapable(k, a)'
      <3>1. Reapable(k, a) /\ a \in Accounts
        BY <1>1, <2>3 DEF Marks, Results
      <3>2. objects[a] \in Incarnations
        <4>1. objects[a] \in 0 .. MaxIncarnations /\ objects[a] # 0
          BY <1>1, <3>1 DEF TInv, TypeOK, StoreTypes, Reapable
        <4> QED
          BY SMTT(30), <4>1, ShardConstants DEF Incarnations
      <3>3. heap'[a][objects[a]] = heap[a][objects[a]]
        <4>1. ~(a = x[1] /\ objects[a] = x[2])
          BY <2>2, <3>1 DEF Reapable
        <4> QED
          BY SMTT(30), <1>1, <2>1, <2>2, <3>1, <3>2, <4>1, UpdateObject
      <3>4. \A u : Unvoted(<<k[1], u>>)' <=> Unvoted(<<k[1], u>>)
        BY <2>3 DEF Unvoted
      <3> QED
        BY <2>1, <2>3, <3>1, <3>3, <3>4 DEF Reapable
    <2>8. CanReap(p, t) => Reapable(k, x[1])'
      <3>1. t \notin Writers(p)
        BY SMTT(30), <2>2, <2>5, AbortEffect
      <3>2. CanReap(p, t) => Writers(p) = {} /\ p.committed_timestamp = Default
        BY <3>1 DEF CanReap
      <3>3. objects'[x[1]] = x[2] /\ x[2] # 0 /\ x \notin scan'[k]
        BY SMTT(30), <2>1, <2>2, <2>3, <2>4 DEF Incarnations
      <3> QED
        BY <1>1, <2>2, <2>4, <3>2, <3>3 DEF Reapable
    <2>9. \A y \in scan'[k] : objects'[y[1]] = y[2]
      BY <1>1, <2>1, <2>3 DEF Marks
    <2> QED
      BY <2>6, <2>7, <2>8, <2>9 DEF Marks
  <1>4. CASE ~LockForAbort(s, t) /\ ~AbortObject(s, t)
    <2>1. ~Sweeps(k)'
      <3>1. CASE Call(s, t)
        BY <3>1, BeginsOp DEF Call, Finish, Sweeps
      <3>2. CASE FindObject(s, t) \/ ReadObject(s, t) \/ InsertObject(s, t) \/ WriteObject(s, t)
        BY <1>1, <3>2 DEF Sweeps, TaskTypes, FindObject, ReadObject, InsertObject,
           WriteObject, Goto, Return, WaitFor
      <3>3. CASE GetNotification(s, t) \/ Notified(s, t) \/ NotifyAbort(s, t) \/ Reap(s, t)
        BY <1>1, <3>3 DEF Sweeps, TaskTypes, GetNotification, Notified, NotifyAbort,
           NotifyAndRemove, Reap, Goto
      <3>4. CASE Snapshot(s, t) \/ CheckObject(s, t) \/ CommitObject(s, t)
        BY <3>4 DEF Sweeps, Snapshot, CheckObject, CommitObject
      <3>5. CASE JoinCheck(s, t) \/ JoinCommit(s, t)
        BY <1>1, <3>5 DEF Sweeps, JoinCheck, JoinCommit, NotifyAndRemove, TaskTypes,
           Return, WaitFor, Goto
      <3> QED
        BY <1>4, <3>1, <3>2, <3>3, <3>4, <3>5 DEF TaskStep
    <2> QED
      BY <2>1 DEF Marks
  <1> QED
    BY <1>2, <1>3, <1>4

LEMMA MarkedInit == Init => Marked
  BY DEF Init, Marked, Marks, Sweeps

LEMMA MarkedNext == Base /\ Marked /\ [Next]_vars => Marked'
  <1> SUFFICES ASSUME Base, Marked, [Next]_vars, NEW j \in Tasks
               PROVE  Marks(j)'
    BY DEF Marked, Tasks
  <1>1. CASE UNCHANGED vars
    BY SMTT(30), <1>1 DEF Marked, Marks, Sweeps, Reapable, Unvoted, vars, tasks
  <1> QED
    BY <1>1, MarksOwn, MarksOthers DEF Next, Quiescent

\* The reap of an abort (shard.rs abort) never removes a committed account,
\* although it acts on can_reap answers collected before other objects were
\* visited: who writes to the object in between cannot commit it before the
\* map is unlocked.
THEOREM ReapSparesCommitted == Spec => ReapKeepsCommitted
  <1>1. Base /\ Marked /\ [Next]_vars =>
           [\A a \in Accounts : (objects[a] # 0 /\ objects'[a] = 0)
               => heap[a][objects[a]].committed_timestamp = Default]_vars
    <2> SUFFICES ASSUME Base, Marked, [Next]_vars, NEW a \in Accounts,
                        objects[a] # 0, objects'[a] = 0
                 PROVE  heap[a][objects[a]].committed_timestamp = Default
      OBVIOUS
    <2>1. ~UNCHANGED vars
      BY DEF vars
    <2>2. PICK s \in Shards, t \in TransactionIds : TaskStep(s, t) \/ Call(s, t)
      BY <2>1 DEF Next, Quiescent
    <2>3. Remaps(<<s, t>>, a) /\ <<s, t>> \in Tasks /\ created[a] \in Nat
      BY SMTT(30), <2>2, MapStep DEF Base, Tasks, TInv, TypeOK, StoreTypes
    <2>4. Sweeps(<<s, t>>) /\ a \in found[<<s, t>>].reap
      BY <2>3 DEF Remaps, Sweeps
    <2> QED
      BY <2>3, <2>4 DEF Marked, Marks, Reapable
  <1> QED
    BY <1>1, BaseInit, BaseNext, MarkedInit, MarkedNext, PTL DEF Spec, ReapKeepsCommitted

-----------------------------------------------------------------------------
(* The committed version of an account is in the map                       *)

\* A commit visits no object that has been reaped under it and that it
\* would still install.
CommitsInMap(k) == call[k].op = "commit" =>
    \A x \in scan[k] : k[2] \in Writers(heap[x[1]][x[2]]) => objects[x[1]] = x[2]

\* A committed object is the one in the map, and the latest version.
Versioned(a, n) ==
    LET o == heap[a][n] IN
    o.committed_timestamp # Default =>
    /\ objects[a] = n
    /\ o.committed_timestamp \in versions[a]
    /\ \A u \in versions[a] : u <= o.committed_timestamp

\* An account with a version has a committed object in the map.
HasVersion(a) == versions[a] # {} =>
    objects[a] # 0 /\ heap[a][objects[a]].committed_timestamp # Default

\* The recorded versions agree with the objects.
Recorded ==
    /\ \A k \in Tasks : CommitsInMap(k)
    /\ \A a \in Accounts : HasVersion(a)
    /\ \A a \in Accounts, n \in Incarnations : Versioned(a, n)

LEMMA RecordedInit == Init => Recorded
  <1> SUFFICES ASSUME Init PROVE Recorded
    OBVIOUS
  <1>1. \A k \in Tasks : CommitsInMap(k)
    BY DEF Init, CommitsInMap
  <1>2. /\ DefaultObject.committed_timestamp = Default
        /\ Established # {} => /\ OpenedObject.committed_timestamp = Setup /\ Setup # Default
                               /\ Setup <= Setup
    BY SetupIsOldest, IdsArePositive DEF DefaultObject, OpenedObject, Default
  <1>3. ASSUME NEW a \in Accounts
        PROVE  HasVersion(a)
    BY SMTT(30), <1>2, ShardConstants DEF Init, HasVersion, Incarnations
  <1>4. ASSUME NEW a \in Accounts, NEW n \in Incarnations
        PROVE  Versioned(a, n)
    BY <1>2, ShardConstants DEF Init, Versioned
  <1> QED
    BY <1>1, <1>3, <1>4 DEF Recorded

\* An account's versions and committed timestamps change only when a commit
\* installs a tentative write, n being the object it is installed in.
Installs(k, a, n) ==
    /\ pc[k] = "scan" /\ call[k].op = "commit" /\ <<a, n>> \in scan[k]
    /\ CommitValue(heap[a][n], k[2])
    /\ heap'[a][n] = AfterCommit(heap[a][n], k[2])
    /\ heap'[a][n].committed_timestamp = k[2]
    /\ versions'[a] = IF objects[a] = n THEN versions[a] \cup {k[2]} ELSE versions[a]
    /\ \A m \in Incarnations \ {n} : heap'[a][m] = heap[a][m]
    /\ objects' = objects /\ seen' = seen

\* Versions change only when a commit installs one.
LEMMA VersionStep ==
    ASSUME Base, NEW s \in Shards, NEW t \in TransactionIds,
           TaskStep(s, t) \/ Call(s, t), NEW a \in Accounts
    PROVE  \/ /\ versions'[a] = versions[a]
              /\ \A n \in Incarnations :
                    heap'[a][n].committed_timestamp = heap[a][n].committed_timestamp
           \/ \E n \in Incarnations : Installs(<<s, t>>, a, n)
  <1> DEFINE k == <<s, t>>
  <1>1. k \in Tasks /\ k[1] = s /\ k[2] = t /\ TInv /\ TaskTypes /\ TaskShape(k) /\ Knows(k)
    BY BaseFacts
  <1>2. CASE CommitObject(s, t)
    <2>1. PICK x \in scan[k] :
            /\ heap' = [heap EXCEPT ![x[1]][x[2]] = AfterCommit(heap[x[1]][x[2]], t)]
            /\ versions' = IF CommitValue(heap[x[1]][x[2]], t) /\ objects[x[1]] = x[2]
                           THEN [versions EXCEPT ![x[1]] = @ \cup {t}]
                           ELSE versions
      BY <1>2 DEF CommitObject
    <2>2. /\ x[1] \in Accounts /\ x[2] \in Incarnations /\ x = <<x[1], x[2]>>
          /\ heap[x[1]][x[2]] \in Objects
      BY SMTT(30), TaskFacts, ObjectFacts DEF Base
    <2>3. versions \in [Accounts -> SUBSET TransactionIds]
      BY <1>1 DEF TInv, TypeOK, HistoryTypes
    <2> DEFINE n == x[2]
               o == heap[x[1]][n]
    <2>4. /\ heap'[x[1]][n] = AfterCommit(o, t)
          /\ \A m \in Incarnations : heap'[a][m] = heap[a][m] \/ (a = x[1] /\ m = n)
      BY <1>1, <2>1, <2>2 DEF TInv, TypeOK, StoreTypes
    <2>5. CASE a # x[1] \/ ~CommitValue(o, t)
      <3>1. versions'[a] = versions[a]
        BY <2>1, <2>3, <2>5
      <3>2. ~CommitValue(o, t) => AfterCommit(o, t) = o
        BY DEF AfterCommit
      <3> QED
        BY <2>4, <2>5, <3>1, <3>2
    <2>6. CASE a = x[1] /\ CommitValue(o, t)
      <3>1. versions'[a] = IF objects[a] = n THEN versions[a] \cup {t} ELSE versions[a]
        BY <2>1, <2>3, <2>6
      <3>2. heap'[a][n] = AfterCommit(o, t) /\ \A m \in Incarnations \ {n} : heap'[a][m] = heap[a][m]
        BY <2>2, <2>4, <2>6
      <3>3. AfterCommit(o, t).committed_timestamp = t
        BY SMTT(30), <2>2, <2>6, CommitEffect
      <3>4. pc[k] = "scan" /\ call[k].op = "commit" /\ objects' = objects /\ seen' = seen
        BY <1>2 DEF CommitObject
      <3>5. Installs(k, a, n)
        BY <1>1, <2>2, <2>6, <3>1, <3>2, <3>3, <3>4 DEF Installs
      <3> QED
        BY <2>2, <3>5
    <2> QED
      BY <2>5, <2>6
  <1>3. CASE ~CommitObject(s, t)
    <2>1. versions' = versions
      BY <1>3, Frame
    <2>2. ASSUME NEW n \in Incarnations
          PROVE  heap'[a][n].committed_timestamp = heap[a][n].committed_timestamp
      <3>1. Changes(k, a, n) /\ heap[a][n] \in Objects /\ call[k].value \in Amounts
        BY <1>1, ObjectStep, ObjectFacts, BaseFacts DEF Calls
      <3>2. CASE /\ pc[k] = "scan" /\ call[k].op = "commit"
        <4>1. UNCHANGED heap
          <5>1. ~ReadObject(s, t) /\ ~WriteObject(s, t) /\ ~AbortObject(s, t)
            BY <3>2 DEF ReadObject, WriteObject, AbortObject
          <5> QED
            BY <1>3, <5>1, Frame
        <4> QED
          BY <4>1
      <3>3. CASE ~(pc[k] = "scan" /\ call[k].op = "commit")
        <4>1. \/ heap'[a][n] = heap[a][n] \/ heap'[a][n] = AfterRead(heap[a][n], t)
              \/ heap'[a][n] = AfterWrite(heap[a][n], t, call[k].value)
              \/ heap'[a][n] = AfterAbort(heap[a][n], t)
          BY <1>1, <3>1, <3>3 DEF Changes
        <4> QED
          BY SMTT(30), <3>1, <4>1, ReadEffect, WriteEffect, AbortEffect
      <3> QED
        BY <3>2, <3>3
    <2> QED
      BY <2>1, <2>2
  <1> QED
    BY <1>2, <1>3

\* The object a commit is about to write stays in the map,
LEMMA CommitsInMapOthers ==
    ASSUME Base, Marked, Recorded, NEW s \in Shards, NEW t \in TransactionIds,
           TaskStep(s, t) \/ Call(s, t), NEW j \in Tasks, j # <<s, t>>
    PROVE  CommitsInMap(j)'
  <1> DEFINE k == <<s, t>>
  <1>1. call'[j] = call[j] /\ scan'[j] = scan[j]
    BY OthersKept DEF Base
  <1>2. /\ CommitsInMap(j) /\ Knows(j) /\ k \in Tasks /\ k[1] = s
        /\ j[1] \in Shards /\ j[2] \in TransactionIds /\ j = <<j[1], j[2]>>
        /\ scan[j] \subseteq Accounts \X Incarnations
    BY BaseFacts DEF Base, Recorded, Tasks, TInv, TypeOK, TaskTypes
  <1> SUFFICES ASSUME call[j].op = "commit", NEW x \in scan[j],
                      j[2] \in Writers(heap'[x[1]][x[2]])
               PROVE  objects'[x[1]] = x[2]
    BY <1>1 DEF CommitsInMap
  <1>3. x[1] \in Accounts /\ x[2] \in Incarnations /\ x[2] # 0 /\ HomeOf[x[1]] = j[1]
    BY <1>2 DEF Knows, Incarnations
  <1>4. j[2] \in Writers(heap[x[1]][x[2]])
    BY SMTT(30), <1>2, <1>3, MarksOfOthers
  <1>5. objects[x[1]] = x[2]
    BY <1>2, <1>4 DEF CommitsInMap
  <1>6. ASSUME pc[k] = "scan", call[k].op = "abort", x[1] \in found[k].reap
        PROVE  FALSE
    <2>1. Reapable(k, x[1])
      BY <1>2, <1>6 DEF Marked, Marks, Sweeps
    <2>2. Unvoted(j)
      BY <1>2, <1>3, <1>4, <1>5, <2>1 DEF Reapable
    <2> QED
      BY <2>2 DEF Unvoted
  <1>7. Remaps(k, x[1])
    BY <1>3, MapStep DEF Base
  <1> QED
    BY <1>3, <1>5, <1>6, <1>7 DEF Remaps

\* and is the one in the map when the commit gets to it.
LEMMA CommitsInMapOwn ==
    ASSUME Base, Recorded, NEW s \in Shards, NEW t \in TransactionIds,
           TaskStep(s, t) \/ Call(s, t)
    PROVE  CommitsInMap(<<s, t>>)'
  <1> DEFINE k == <<s, t>>
  <1>1. /\ CommitsInMap(k) /\ Knows(k) /\ k \in Tasks /\ k[1] = s /\ k[2] = t
        /\ TInv /\ TaskTypes /\ TaskShape(k) /\ scan[k] \subseteq Accounts \X Incarnations
    BY BaseFacts DEF Base, Recorded
  <1>2. CASE Snapshot(s, t)
    <2>1. scan'[k] = InMap(s) /\ UNCHANGED objects
      BY <1>1, <1>2 DEF Snapshot, TaskTypes
    <2> QED
      BY SMTT(30), <2>1 DEF CommitsInMap, InMap
  <1>3. CASE CommitObject(s, t)
    <2>1. scan'[k] \subseteq scan[k] /\ UNCHANGED objects /\ call[k].op = "commit" /\ pc[k] = "scan"
      BY SMTT(30), <1>1, <1>3 DEF CommitObject, TaskTypes
    <2>2. ASSUME NEW x \in scan[k], t \in Writers(heap'[x[1]][x[2]])
          PROVE  t \in Writers(heap[x[1]][x[2]])
      <3>1. x[1] \in Accounts /\ x[2] \in Incarnations
        BY <1>1
      <3>2. heap[x[1]][x[2]] \in Objects /\ Changes(k, x[1], x[2])
        BY <1>1, <3>1, ObjectFacts, ObjectStep
      <3>3. \/ heap'[x[1]][x[2]] = heap[x[1]][x[2]]
            \/ heap'[x[1]][x[2]] = AfterCommit(heap[x[1]][x[2]], t)
        BY <1>1, <2>1, <3>2 DEF Changes
      <3> QED
        BY SMTT(30), <2>2, <3>2, <3>3, CommitEffect
    <2> QED
      BY <1>1, <2>1, <2>2 DEF CommitsInMap
  <1>4. CASE ~Snapshot(s, t) /\ ~CommitObject(s, t)
    <2>1. CASE pc[k] # "scan"
      <3>1. LockForAbort(s, t) \/ UNCHANGED scan
        BY <1>4, <2>1, Frame DEF CheckObject, AbortObject
      <3>2. LockForAbort(s, t) => call'[k].op # "commit"
        BY DEF LockForAbort
      <3>3. scan[k] = {}
        BY <1>1, <2>1 DEF Knows
      <3> QED
        BY <3>1, <3>2, <3>3 DEF CommitsInMap
    <2>2. CASE pc[k] = "scan"
      <3>1. \/ CheckObject(s, t) \/ JoinCheck(s, t) \/ JoinCommit(s, t)
            \/ AbortObject(s, t) \/ Reap(s, t)
        BY <1>4, <2>2, Where
      <3>2. JoinCommit(s, t) => scan'[k] = {}
        BY DEF JoinCommit
      <3>3. CheckObject(s, t) \/ AbortObject(s, t) \/ Reap(s, t) => call'[k].op # "commit"
        BY DEF CheckObject, AbortObject, Reap
      <3>4. JoinCheck(s, t) => call'[k].op # "commit"
        BY SMTT(30), <1>1 DEF JoinCheck, Return, TaskTypes, NoCall
      <3> QED
        BY <3>1, <3>2, <3>3, <3>4 DEF CommitsInMap
    <2> QED
      BY <2>1, <2>2
  <1> QED
    BY <1>2, <1>3, <1>4

\* A committed object stays in the map.
LEMMA CommittedStays ==
    ASSUME Base, Marked, NEW s \in Shards, NEW t \in TransactionIds,
           TaskStep(s, t) \/ Call(s, t), NEW a \in Accounts, objects[a] # 0,
           heap[a][objects[a]].committed_timestamp # Default
    PROVE  objects'[a] = objects[a]
  <1> DEFINE k == <<s, t>>
  <1>1. Remaps(k, a) /\ Marks(k)
    BY BaseFacts, MapStep DEF Base, Marked
  <1> QED
    BY <1>1 DEF Remaps, Marks, Sweeps, Reapable

\* A commit installs its version in the object in the map.
LEMMA InstallsInMap ==
    ASSUME Base, Recorded, TentativeAboveCommitted, NEW k \in Tasks,
           NEW a \in Accounts, NEW n \in Incarnations, Installs(k, a, n)
    PROVE  /\ objects[a] = n /\ objects'[a] = n
           /\ versions'[a] = versions[a] \cup {k[2]}
           /\ k[2] \in Writers(heap[a][n])
           /\ k[2] > heap[a][n].committed_timestamp
  <1>1. k[2] \in Writers(heap[a][n])
    BY DEF Installs, CommitValue, IsFirst
  <1>2. CommitsInMap(k)
    BY DEF Recorded
  <1>3. objects[a] = n
    BY <1>1, <1>2 DEF Installs, CommitsInMap
  <1> QED
    BY <1>1, <1>3 DEF Installs, TentativeAboveCommitted

\* The recorded versions go on to agree with the objects.
LEMMA VersionedStep ==
    ASSUME Base, Marked, Recorded, TentativeAboveCommitted,
           NEW s \in Shards, NEW t \in TransactionIds,
           TaskStep(s, t) \/ Call(s, t), NEW a \in Accounts
    PROVE  HasVersion(a)' /\ \A n \in Incarnations : Versioned(a, n)'
  <1> DEFINE k == <<s, t>>
  <1>1. /\ k \in Tasks /\ k[2] = t /\ t \in Nat /\ t # Default /\ HasVersion(a)
        /\ \A n \in Incarnations : Versioned(a, n)
        /\ objects[a] \in 0 .. MaxIncarnations /\ MaxIncarnations \in Nat
        /\ versions[a] \subseteq Nat
    BY BaseFacts, IdsArePositive, ShardConstants
    DEF Base, Recorded, Default, TInv, TypeOK, StoreTypes, HistoryTypes
  <1>2. \A n \in Incarnations : heap[a][n].committed_timestamp \in Nat /\ n # 0
    BY ObjectFacts DEF Incarnations
  <1>3. objects[a] # 0 => objects[a] \in Incarnations
    BY <1>1 DEF Incarnations
  <1>4. CASE /\ versions'[a] = versions[a]
             /\ \A n \in Incarnations :
                   heap'[a][n].committed_timestamp = heap[a][n].committed_timestamp
    <2>1. HasVersion(a)'
      BY <1>1, <1>3, <1>4, CommittedStays DEF HasVersion
    <2>2. ASSUME NEW n \in Incarnations
          PROVE  Versioned(a, n)'
      BY <1>1, <1>2, <1>4, CommittedStays DEF Versioned
    <2> QED
      BY <2>1, <2>2
  <1>5. ASSUME NEW n \in Incarnations, Installs(k, a, n)
        PROVE  HasVersion(a)' /\ \A m \in Incarnations : Versioned(a, m)'
    <2>1. /\ objects[a] = n /\ objects'[a] = n
          /\ versions'[a] = versions[a] \cup {t}
          /\ t > heap[a][n].committed_timestamp
      BY <1>1, <1>5, InstallsInMap
    <2>2. heap'[a][n].committed_timestamp = t
      BY <1>1, <1>5 DEF Installs
    <2>3. HasVersion(a)'
      BY <1>1, <1>2, <2>1, <2>2 DEF HasVersion
    <2>4. \A u \in versions[a] : u < t
      BY SMTT(30), <1>1, <1>2, <2>1 DEF HasVersion, Versioned
    <2>5. Versioned(a, n)'
      BY SMTT(30), <1>1, <2>1, <2>2, <2>4 DEF Versioned
    <2>6. ASSUME NEW m \in Incarnations \ {n}
          PROVE  Versioned(a, m)'
      <3>1. heap'[a][m] = heap[a][m]
        BY <1>5 DEF Installs
      <3>2. heap[a][m].committed_timestamp = Default
        BY <1>1, <2>1 DEF Versioned
      <3> QED
        BY <3>1, <3>2 DEF Versioned
    <2> QED
      BY <2>3, <2>5, <2>6
  <1> QED
    BY <1>4, <1>5, VersionStep

LEMMA RecordedNext ==
    Base /\ Marked /\ Recorded /\ TentativeAboveCommitted /\ [Next]_vars => Recorded'
  <1> SUFFICES ASSUME Base, Marked, Recorded, TentativeAboveCommitted, [Next]_vars
               PROVE  Recorded'
    OBVIOUS
  <1>1. ASSUME NEW s \in Shards, NEW t \in TransactionIds, TaskStep(s, t) \/ Call(s, t)
        PROVE  Recorded'
    <2>1. \A k \in Tasks : CommitsInMap(k)'
      BY <1>1, CommitsInMapOwn, CommitsInMapOthers
    <2>2. \A a \in Accounts : HasVersion(a)' /\ \A n \in Incarnations : Versioned(a, n)'
      BY <1>1, VersionedStep
    <2> QED
      BY <2>1, <2>2 DEF Recorded, Tasks, Incarnations
  <1>2. CASE UNCHANGED vars
    BY <1>2 DEF Recorded, CommitsInMap, HasVersion, Versioned, Tasks, Incarnations, vars,
       tasks, history
  <1> QED
    BY <1>1, <1>2 DEF Next, Quiescent

-----------------------------------------------------------------------------
(* Reads stay valid                                                        *)

\* A transaction that has begun to abort on a shard stays aborting there.
LEMMA AbortingStays ==
    ASSUME Base, NEW s \in Shards, NEW t \in TransactionIds,
           TaskStep(s, t) \/ Call(s, t),
           NEW r \in Shards, NEW u \in TransactionIds, Aborting(r, u)
    PROVE  Aborting(r, u)'
  <1> DEFINE k == <<s, t>>
             j == <<r, u>>
  <1>1. j \in Tasks /\ k \in Tasks /\ TaskTypes /\ TaskShape(k)
    BY BaseFacts
  <1>2. CASE j # k
    <2>1. call'[j] = call[j] /\ (pc[j] = "aborted" => pc'[j] = "aborted")
      BY <1>1, <1>2, OthersKept DEF Base
    <2> QED
      BY <2>1 DEF Aborting
  <1>3. CASE j = k
    <2>1. pc[k] = "aborted" \/ call[k].op = "abort"
      BY <1>3 DEF Aborting
    <2>2. pc[k] \in {"snapshot", "scan", "notify"} /\ call[k].op = "abort"
      BY <1>1, <2>1, Where DEF TaskShape, Outcomes
    <2>3. \/ LockForAbort(s, t) \/ AbortObject(s, t) \/ Reap(s, t) \/ NotifyAbort(s, t)
      BY <2>2, Where
    <2>4. call'[k].op = "abort" \/ pc'[k] = "aborted"
      BY <1>1, <2>1, <2>2, <2>3 DEF LockForAbort, AbortObject, Reap, NotifyAbort,
         NotifyAndRemove, TaskTypes
    <2> QED
      BY <1>3, <2>4 DEF Aborting
  <1> QED
    BY <1>2, <1>3

\* What a transaction has read after a step it had read before, or reads now.
LEMMA SeenStep ==
    ASSUME Base, NEW s \in Shards, NEW t \in TransactionIds,
           TaskStep(s, t) \/ Call(s, t),
           NEW u \in TransactionIds, NEW r \in seen'[u], r[2] # Default
    PROVE  \/ r \in seen[u]
           \/ LET k == <<s, t>>
                  a == call[k].acct
                  o == heap[a][ref[k]]
              IN  /\ u = t /\ pc[k] = "read" /\ ReadOk(o, t) /\ t \notin Writers(o)
                  /\ heap'[a][ref[k]] = AfterRead(o, t)
                  /\ r = <<a, o.committed_timestamp>>
                  /\ UNCHANGED <<objects, versions>>
  <1> DEFINE k == <<s, t>>
             a == call[k].acct
             o == heap[a][ref[k]]
  <1>1. seen \in [TransactionIds -> SUBSET (Accounts \X Timestamps)] /\ TInv
    BY DEF Base, TInv, TypeOK, HistoryTypes
  <1>2. CASE FindObject(s, t)
    <2>1. seen' = seen \/ seen' = [seen EXCEPT ![t] = @ \cup {<<a, Default>>}]
      BY <1>2 DEF FindObject
    <2> QED
      BY SMTT(30), <1>1, <2>1
  <1>3. CASE ReadObject(s, t)
    <2>1. CASE seen' = seen
      BY <2>1
    <2>2. CASE seen' # seen
      <3>1. /\ pc[k] = "read" /\ ReadOk(o, t) /\ t \notin Writers(o)
            /\ seen' = [seen EXCEPT ![t] = @ \cup {<<a, o.committed_timestamp>>}]
            /\ heap' = [heap EXCEPT ![a][ref[k]] = AfterRead(o, t)]
            /\ UNCHANGED <<objects, versions>>
        BY <1>3, <2>2 DEF ReadObject
      <3>2. r \in seen[u] \/ (u = t /\ r = <<a, o.committed_timestamp>>)
        BY <1>1, <3>1
      <3>3. a \in Accounts /\ ref[k] \in Incarnations
        BY <3>1, BaseFacts DEF TaskShape
      <3>4. heap'[a][ref[k]] = AfterRead(o, t)
        BY <1>1, <3>1, <3>3 DEF TInv, TypeOK, StoreTypes
      <3> QED
        BY <3>1, <3>2, <3>4
    <2> QED
      BY <2>1, <2>2
  <1>4. CASE ~FindObject(s, t) /\ ~ReadObject(s, t)
    <2>1. seen' = seen
      BY <1>4, Frame
    <2> QED
      BY <2>1
  <1> QED
    BY <1>2, <1>3, <1>4

\* While t does not abort, the object it read keeps its read timestamp, and
\* whoever could still install a version on it is newer than t.
Protected(t, r) ==
    LET a == r[1]
        o == heap[a][objects[a]]
    IN
    (r[2] # Default /\ ~Aborting(HomeOf[a], t)) =>
    /\ objects[a] # 0
    /\ r[2] \in versions[a]
    /\ \A u \in versions[a] : u <= r[2] \/ u >= t
    /\ t \in o.read_timestamps
    /\ \A w \in Writers(o) : w >= t

Valid == \A t \in TransactionIds : \A r \in seen[t] : Protected(t, r)

\* Tentative writes are added by write, read timestamps removed by abort.
Overwrites(k, a, n) ==
    LET o == heap[a][n]
        p == heap'[a][n]
    IN
    /\ \A w \in Writers(p) : \/ w \in Writers(o)
                             \/ w = k[2] /\ pc[k] = "write" /\ WriteOk(o, w)
    /\ \A u \in o.read_timestamps :
          \/ u \in p.read_timestamps
          \/ u = k[2] /\ pc[k] = "scan" /\ call[k].op = "abort" /\ <<a, n>> \in scan[k]

\* A committed version is overwritten by a commit only.
LEMMA OverwritesStep ==
    ASSUME Base, NEW s \in Shards, NEW t \in TransactionIds,
           TaskStep(s, t) \/ Call(s, t), NEW a \in Accounts, NEW n \in Incarnations
    PROVE  Overwrites(<<s, t>>, a, n)
  <1> DEFINE k == <<s, t>>
             o == heap[a][n]
             p == heap'[a][n]
  <1>1. k[2] = t /\ o \in Objects /\ Changes(k, a, n) /\ call[k].value \in Amounts
    BY BaseFacts, ObjectStep, ObjectFacts DEF Base, Calls
  <1>2. CASE p = o
    BY <1>2 DEF Overwrites
  <1>3. CASE p = AfterRead(o, t)
    BY SMTT(30), <1>1, <1>3, ReadEffect DEF Overwrites
  <1>4. CASE pc[k] = "write" /\ WriteOk(o, t) /\ p = AfterWrite(o, t, call[k].value)
    <2>1. Writers(p) = Writers(o) \cup {t} /\ p.read_timestamps = o.read_timestamps
      BY SMTT(30), <1>1, <1>4, WriteEffect
    <2> QED
      BY <1>1, <1>4, <2>1 DEF Overwrites
  <1>5. CASE p = AfterCommit(o, t)
    <2>1. Writers(p) \subseteq Writers(o) /\ p.read_timestamps = o.read_timestamps
      BY SMTT(30), <1>1, <1>5, CommitEffect
    <2> QED
      BY <2>1 DEF Overwrites
  <1>6. CASE /\ pc[k] = "scan" /\ call[k].op = "abort" /\ <<a, n>> \in scan[k]
             /\ p = AfterAbort(o, t)
    <2>1. Writers(p) \subseteq Writers(o) /\ p.read_timestamps = o.read_timestamps \ {t}
      BY SMTT(30), <1>1, <1>6, AbortEffect
    <2> QED
      BY <1>1, <1>6, <2>1 DEF Overwrites
  <1> QED
    BY <1>1, <1>2, <1>3, <1>4, <1>5, <1>6 DEF Changes

\* What a step has just read is protected,
LEMMA ProtectedNew ==
    ASSUME Base, Recorded, TentativeAboveCommitted,
           NEW s \in Shards, NEW t \in TransactionIds,
           NEW a \in Accounts, NEW n \in Incarnations,
           ReadOk(heap[a][n], t), t \notin Writers(heap[a][n]),
           heap[a][n].committed_timestamp # Default,
           heap'[a][n] = AfterRead(heap[a][n], t), UNCHANGED <<objects, versions>>,
           NEW r, r = <<a, heap[a][n].committed_timestamp>>
    PROVE  Protected(t, r)'
  <1> DEFINE o == heap[a][n]
             p == heap'[a][n]
             v == o.committed_timestamp
  <1>1. /\ o \in Objects /\ Writers(o) \subseteq Nat /\ v \in Nat /\ t \in Nat
        /\ Versioned(a, n) /\ n # 0
    BY SMTT(30), ObjectFacts, IdsArePositive DEF Recorded, Incarnations
  <1>2. /\ objects'[a] = n /\ v \in versions'[a]
        /\ \A u \in versions'[a] : u <= v
    BY <1>1 DEF Versioned
  <1>3. t \in p.read_timestamps /\ Writers(p) = Writers(o)
    BY SMTT(30), <1>1, ReadEffect
  <1>4. \A w \in Writers(o) : w >= t
    BY <1>1 DEF ReadOk, WritersUpTo, TentativeAboveCommitted
  <1> QED
    BY <1>1, <1>2, <1>3, <1>4 DEF Protected

\* and what was read before stays so.
LEMMA ProtectedOld ==
    ASSUME Base, Marked, Recorded, TentativeAboveCommitted,
           NEW s \in Shards, NEW t \in TransactionIds,
           TaskStep(s, t) \/ Call(s, t),
           NEW u \in TransactionIds, NEW r \in Accounts \X Timestamps, Protected(u, r)
    PROVE  Protected(u, r)'
  <1> DEFINE k == <<s, t>>
             a == r[1]
             n == objects[a]
             o == heap[a][n]
             p == heap'[a][n]
  <1>1. /\ k \in Tasks /\ k[1] = s /\ k[2] = t /\ TInv /\ Knows(k) /\ TaskShape(k)
        /\ a \in Accounts /\ HomeOf[a] \in Shards /\ u \in Nat /\ t \in Nat
        /\ call[k].value \in Amounts
    BY BaseFacts, ShardConstants, IdsArePositive DEF Calls
  <1>2. Aborting(HomeOf[a], u) => Aborting(HomeOf[a], u)'
    BY <1>1, AbortingStays
  <1> SUFFICES ASSUME r[2] # Default, ~Aborting(HomeOf[a], u)
               PROVE  /\ objects'[a] # 0
                      /\ r[2] \in versions'[a]
                      /\ \A v \in versions'[a] : v <= r[2] \/ v >= u
                      /\ u \in heap'[a][objects'[a]].read_timestamps
                      /\ \A w \in Writers(heap'[a][objects'[a]]) : w >= u
    BY <1>2 DEF Protected
  <1>3. /\ n # 0 /\ r[2] \in versions[a]
        /\ \A v \in versions[a] : v <= r[2] \/ v >= u
        /\ u \in o.read_timestamps
        /\ \A w \in Writers(o) : w >= u
    BY DEF Protected
  <1>4. n \in Incarnations
    <2>1. n \in 0 .. MaxIncarnations
      BY <1>1 DEF TInv, TypeOK, StoreTypes
    <2> QED
      BY SMTT(30), <1>3, <2>1, ShardConstants DEF Incarnations
  <1>5. objects'[a] = n
    <2>1. o.committed_timestamp # Default
      BY <1>1, <1>3 DEF Recorded, HasVersion
    <2> QED
      BY <1>1, <1>3, <2>1, CommittedStays
  <1>6. Overwrites(k, a, n)
    BY <1>1, <1>4, OverwritesStep
  <1>7. u \in p.read_timestamps
    <2>1. ASSUME u = t, pc[k] = "scan", call[k].op = "abort", <<a, n>> \in scan[k]
          PROVE  FALSE
      BY <1>1, <2>1 DEF Knows, Aborting
    <2> QED
      BY <1>1, <1>3, <1>6, <2>1 DEF Overwrites
  <1>8. \A w \in Writers(p) : w >= u
    BY <1>1, <1>3, <1>6 DEF Overwrites, WriteOk
  <1>9. r[2] \in versions'[a] /\ \A v \in versions'[a] : v <= r[2] \/ v >= u
    <2>1. CASE versions'[a] = versions[a]
      BY <1>3, <2>1
    <2>2. ASSUME NEW m \in Incarnations, Installs(k, a, m)
          PROVE  r[2] \in versions'[a] /\ \A v \in versions'[a] : v <= r[2] \/ v >= u
      <3>1. m = n /\ versions'[a] = versions[a] \cup {t} /\ t \in Writers(o)
        BY SMTT(30), <1>1, <2>2, InstallsInMap
      <3> QED
        BY <1>3, <3>1
    <2> QED
      BY <1>1, <2>1, <2>2, VersionStep
  <1> QED
    BY <1>3, <1>5, <1>7, <1>8, <1>9

LEMMA ValidNext ==
    /\ Base /\ Marked /\ Recorded /\ TentativeAboveCommitted /\ Valid
    /\ [Next]_vars
    => Valid'
  <1> SUFFICES ASSUME Base, Marked, Recorded, TentativeAboveCommitted, Valid,
                      [Next]_vars, NEW u \in TransactionIds, NEW r \in seen'[u]
               PROVE  Protected(u, r)'
    BY DEF Valid
  <1>1. ASSUME NEW s \in Shards, NEW t \in TransactionIds, TaskStep(s, t) \/ Call(s, t)
        PROVE  Protected(u, r)'
    <2>1. CASE r[2] = Default
      BY <2>1 DEF Protected
    <2>2. CASE r[2] # Default /\ r \in seen[u]
      <3>1. r \in Accounts \X Timestamps
        BY <2>2 DEF Base, TInv, TypeOK, HistoryTypes
      <3> QED
        BY <1>1, <2>2, <3>1, ProtectedOld DEF Valid
    <2>3. CASE r[2] # Default /\ r \notin seen[u]
      <3> DEFINE k == <<s, t>>
                 a == call[k].acct
                 n == ref[k]
      <3>1. /\ u = t /\ pc[k] = "read" /\ ReadOk(heap[a][n], t) /\ t \notin Writers(heap[a][n])
            /\ heap'[a][n] = AfterRead(heap[a][n], t)
            /\ r = <<a, heap[a][n].committed_timestamp>>
            /\ UNCHANGED <<objects, versions>>
        BY <1>1, <2>3, SeenStep
      <3>2. a \in Accounts /\ n \in Incarnations
        BY <3>1, BaseFacts DEF TaskShape
      <3>3. heap[a][n].committed_timestamp # Default
        BY <2>3, <3>1
      <3> QED
        BY <1>1, <3>1, <3>2, <3>3, ProtectedNew
    <2> QED
      BY <2>1, <2>2, <2>3
  <1>2. CASE UNCHANGED vars
    BY <1>2 DEF Valid, Protected, Aborting, vars, tasks, history
  <1> QED
    BY <1>1, <1>2 DEF Next, Quiescent

\* The read and write rules (object.rs read, write) protect every read of a
\* committed version until the reader aborts: what it read has been
\* committed and nobody commits a version between that one and the reader.
THEOREM ReadsAreValid == Spec => []ReadsStayValid
  <1>1. Valid => ReadsStayValid
    BY DEF Valid, Protected, ReadsStayValid
  <1>2. Init => Valid
    BY DEF Init, Valid
  <1> QED
    BY <1>1, <1>2, BaseInit, BaseNext, MarkedInit, MarkedNext, RecordedInit, RecordedNext,
       TentativeStaysAbove, ValidNext, PTL DEF Spec

-----------------------------------------------------------------------------
(* How a task gets to where it is                                          *)

\* The point a task has come to tells which step has brought it there.
LEMMA Leads ==
    ASSUME Base, NEW s \in Shards, NEW t \in TransactionIds,
           TaskStep(s, t) \/ Call(s, t), NEW k, k = <<s, t>>,
           NEW a, a = call[k].acct
    PROVE  /\ pc'[k] = "read" => call'[k] = call[k] /\ ref'[k] = objects[a]
           /\ pc'[k] = "insert" =>
                 /\ call'[k].acct = a
                 /\ \/ pc[k] = "find" /\ objects[a] = 0
                    \/ /\ pc[k] = "read" /\ ReadOk(heap[a][ref[k]], t)
                       /\ heap' = [heap EXCEPT ![a][ref[k]] = AfterRead(heap[a][ref[k]], t)]
           /\ pc'[k] = "write" =>
                 pc[k] = "insert" /\ call'[k] = call[k] /\ ref'[k] = objects'[a]
           /\ pc'[k] = "ready" =>
                 /\ pc[k] = "scan" /\ call[k].op = "check"
                 /\ scan[k] = {} /\ ~found[k].bad /\ found[k].waits = {}
           /\ call'[k].op = "commit" => call[k].op = "commit" \/ pc[k] = "ready"
           /\ pc'[k] = "scan" /\ call'[k].op = "check" =>
                 Snapshot(s, t) \/ CheckObject(s, t)
  <1>1. k \in Tasks /\ TaskTypes /\ StoreTypes /\ TaskShape(k) /\ call[k] \in Calls
    BY BaseFacts
  <1>2. CASE Call(s, t)
    <2>1. /\ pc'[k] \in {"find", "snapshot"}
          /\ call'[k].op = "commit" => pc[k] = "ready"
      BY <1>2, BeginsOp DEF Call, Finish
    <2> QED
      BY <2>1
  <1>3. CASE FindObject(s, t)
    <2>1. CASE call' = call /\ ref' = [ref EXCEPT ![k] = objects[a]] /\ Goto(s, t, "read")
      BY <1>1, <2>1 DEF Goto, TaskTypes
    <2>2. CASE Return(s, t, "not_found")
      BY <1>1, <2>2 DEF Return, Goto, TaskTypes, NoCall
    <2>3. CASE /\ objects[a] = 0 /\ Goto(s, t, "insert") /\ call[k].op = "change"
               /\ call' = [call EXCEPT ![k].value = call[k].amount]
      <3>1. call'[k] = [call[k] EXCEPT !.value = call[k].amount] /\ pc'[k] = "insert"
        BY <1>1, <2>3 DEF Goto, TaskTypes
      <3>2. call'[k].op = "change" /\ call'[k].acct = a
        BY SMTT(30), <1>1, <2>3, <3>1 DEF Calls
      <3> QED
        BY <1>3, <2>3, <3>1, <3>2 DEF FindObject
    <2> QED
      BY <1>3, <2>1, <2>2, <2>3 DEF FindObject
  <1>4. CASE ReadObject(s, t)
    <2> DEFINE o == heap[a][ref[k]]
               v == Add(ReadValue(o, t), call[k].amount)
    <2>1. pc[k] = "read" /\ call[k].op \in {"read", "change"}
      BY <1>1, <1>4 DEF ReadObject, TaskShape
    <2>2. CASE Return(s, t, "idle") \/ Return(s, t, "failed")
      BY SMTT(30), <1>1, <2>2 DEF Return, Goto, TaskTypes, NoCall
    <2>3. CASE (\E w \in Writers(o) : WaitFor(s, t, w)) /\ UNCHANGED call
      BY <1>1, <2>1, <2>3 DEF WaitFor, Goto, TaskTypes
    <2>4. CASE /\ ReadOk(o, t) /\ Goto(s, t, "insert")
               /\ heap' = [heap EXCEPT ![a][ref[k]] = AfterRead(o, t)]
               /\ call' = [call EXCEPT ![k].value = v]
      <3> HIDE DEF v
      <3>1. call'[k] = [call[k] EXCEPT !.value = v] /\ pc'[k] = "insert"
        BY <1>1, <2>4 DEF Goto, TaskTypes
      <3>2. call'[k].op = call[k].op /\ call'[k].acct = a
        BY <1>1, <3>1 DEF Calls
      <3> QED
        BY <2>1, <2>4, <3>1, <3>2
    <2> QED
      BY <1>4, <2>2, <2>3, <2>4 DEF ReadObject
  <1>5. CASE InsertObject(s, t)
    <2>1. pc[k] = "insert" /\ call[k].op = "change"
      BY <1>1, <1>5 DEF InsertObject, TaskShape
    <2>2. CASE Return(s, t, "not_found")
      BY <1>1, <2>2 DEF Return, Goto, TaskTypes, NoCall
    <2>3. CASE Goto(s, t, "write") /\ call' = call /\ ref'[k] = objects'[a]
      BY <1>1, <2>1, <2>3 DEF Goto, TaskTypes
    <2>4. a \in Accounts
      BY <1>1, <2>1 DEF TaskShape
    <2>5. Return(s, t, "not_found") \/ (Goto(s, t, "write") /\ call' = call /\ ref'[k] = objects'[a])
      BY <1>1, <1>5, <2>4 DEF InsertObject, TaskTypes, StoreTypes
    <2> QED
      BY <2>2, <2>3, <2>5
  <1>6. CASE WriteObject(s, t)
    BY SMTT(30), <1>1, <1>6 DEF WriteObject, Return, Goto, TaskTypes, NoCall
  <1>7. CASE GetNotification(s, t) \/ Notified(s, t)
    <2>1. pc'[k] \in {"held", "waiting"} /\ call' = call
      BY <1>1, <1>7 DEF GetNotification, Notified, Goto, TaskTypes
    <2> QED
      BY <2>1
  <1>8. CASE CommitObject(s, t) \/ LockForAbort(s, t) \/ AbortObject(s, t) \/ Reap(s, t)
    <2>1. pc'[k] \in {"scan", "notify"} /\ call' = call /\ call[k].op # "check"
      BY <1>1, <1>8 DEF CommitObject, LockForAbort, AbortObject, Reap, Goto, TaskTypes
    <2> QED
      BY <2>1
  <1>9. CASE Snapshot(s, t) \/ CheckObject(s, t)
    <2>1. pc'[k] = "scan" /\ call' = call
      BY <1>1, <1>9 DEF Snapshot, CheckObject, Goto, TaskTypes
    <2> QED
      BY <1>9, <2>1
  <1>10. CASE JoinCheck(s, t)
    <2>1. pc[k] = "scan" /\ call[k].op = "check" /\ scan[k] = {}
      BY <1>10 DEF JoinCheck
    <2>2. CASE Return(s, t, "failed")
      BY <1>1, <2>2 DEF Return, Goto, TaskTypes, NoCall
    <2>3. CASE (\E w \in found[k].waits : WaitFor(s, t, w)) /\ UNCHANGED call
      BY <1>1, <2>1, <2>3 DEF WaitFor, Goto, TaskTypes
    <2>4. CASE Return(s, t, "ready") /\ ~found[k].bad /\ found[k].waits = {}
      BY <1>1, <2>1, <2>4 DEF Return, Goto, TaskTypes, NoCall
    <2> QED
      BY <1>10, <2>2, <2>3, <2>4 DEF JoinCheck
  <1>11. CASE JoinCommit(s, t) \/ NotifyAbort(s, t)
    <2>1. /\ pc'[k] \in {"subscribe", "failed", "committed", "aborted"}
          /\ call'[k] = NoCall \/ call' = call
      BY <1>1, <1>11 DEF JoinCommit, NotifyAbort, NotifyAndRemove, WaitFor, Goto, TaskTypes
    <2> QED
      BY <2>1 DEF NoCall
  <1> QED
    BY <1>2, <1>3, <1>4, <1>5, <1>6, <1>7, <1>8, <1>9, <1>10, <1>11 DEF TaskStep

-----------------------------------------------------------------------------
(* One tentative write at a time                                           *)

\* The object of an established account has been committed and stays in the
\* map.
Kept(a) == objects[a] = 1 /\ heap[a][1].committed_timestamp # Default

\* It has one tentative write at most, by a transaction that has read it.
OneWriter(a) ==
    LET o == heap[a][1] IN
    /\ Writers(o) \subseteq o.read_timestamps
    /\ \A v, w \in Writers(o) : v = w

\* A balance change of a that is past its read has registered it, and since
\* then no older transaction can have written.
Registered(a, t) ==
    LET k == <<HomeOf[a], t>>
        o == heap[a][1]
    IN
    call[k].acct = a =>
    /\ pc[k] \in {"read", "write"} => ref[k] = 1
    /\ pc[k] \in {"insert", "write"} =>
          t \in o.read_timestamps /\ \A w \in Writers(o) : w >= t

\* The invariant of accounts that have been committed before
Settled ==
    \A a \in Established :
        Kept(a) /\ OneWriter(a) /\ \A t \in TransactionIds : Registered(a, t)

\* All that has been established before, as one induction hypothesis.
Known == Base /\ Marked /\ Recorded /\ TentativeAboveCommitted

LEMMA KnownHolds == Spec => []Known
  BY BaseInit, BaseNext, MarkedInit, MarkedNext, RecordedInit, RecordedNext,
     TentativeStaysAbove, PTL DEF Spec, Known

\* The types of such an account
LEMMA EstablishedFacts ==
    ASSUME Base, NEW a \in Established
    PROVE  /\ a \in Accounts /\ 1 \in Incarnations /\ HomeOf[a] \in Shards
           /\ heap[a][1] \in Objects
           /\ Writers(heap[a][1]) \subseteq TransactionIds
           /\ Writers(heap[a][1]) \subseteq Nat
           /\ heap[a][1].committed_timestamp \in Nat
  BY SMTT(30), ObjectFacts, ShardConstants DEF Incarnations

\* It stays in the map, committed.
LEMMA KeptStep ==
    ASSUME Known, Settled, NEW s \in Shards, NEW t \in TransactionIds,
           TaskStep(s, t) \/ Call(s, t), NEW a \in Established
    PROVE  Kept(a)'
  <1>1. /\ a \in Accounts /\ 1 \in Incarnations /\ objects[a] = 1
        /\ heap[a][1].committed_timestamp # Default
    BY EstablishedFacts DEF Known, Settled, Kept
  <1>2. objects'[a] = 1
    BY SMTT(30), <1>1, CommittedStays DEF Known
  <1>3. t # Default /\ <<s, t>>[2] = t
    BY IdsArePositive DEF Default
  <1>4. \A n \in Incarnations : Installs(<<s, t>>, a, n) =>
            heap'[a][1].committed_timestamp \in {t, heap[a][1].committed_timestamp}
    BY <1>1, <1>3 DEF Installs
  <1> QED
    BY <1>1, <1>2, <1>3, <1>4, VersionStep DEF Known, Kept

\* The write rule admits one tentative write at a time.
LEMMA OneWriterStep ==
    ASSUME Known, Settled, NEW s \in Shards, NEW t \in TransactionIds,
           TaskStep(s, t) \/ Call(s, t), NEW a \in Established
    PROVE  OneWriter(a)'
  <1> DEFINE k == <<s, t>>
             o == heap[a][1]
             p == heap'[a][1]
  <1>1. /\ k[1] = s /\ k[2] = t /\ t \in Nat /\ o \in Objects /\ Writers(o) \subseteq Nat
        /\ TaskShape(k) /\ Knows(k) /\ OneWriter(a) /\ Registered(a, t)
    BY BaseFacts, EstablishedFacts DEF Known, Settled
  <1>2. Changes(k, a, 1)
    BY ObjectStep, EstablishedFacts DEF Known, Base
  <1>3. CASE p = o
    BY <1>1, <1>3 DEF OneWriter
  <1>4. CASE p = AfterRead(o, t)
    BY SMTT(30), <1>1, <1>4, ReadEffect DEF OneWriter
  <1>5. CASE /\ pc[k] = "write" /\ call[k].acct = a
             /\ WriteOk(o, t) /\ p = AfterWrite(o, t, call[k].value)
    <2>1. HomeOf[a] = s
      BY <1>1, <1>5 DEF TaskShape
    <2>2. t \in o.read_timestamps /\ \A w \in Writers(o) : w >= t
      BY <1>1, <1>5, <2>1 DEF Registered
    <2>3. \A w \in Writers(o) : w = t
      BY SMTT(30), <1>1, <1>5, <2>2 DEF OneWriter, WriteOk
    <2>4. Writers(p) = Writers(o) \cup {t} /\ p.read_timestamps = o.read_timestamps
      BY SMTT(30), <1>1, <1>5, WriteEffect
    <2> QED
      BY <1>1, <2>2, <2>3, <2>4 DEF OneWriter
  <1>6. CASE p = AfterCommit(o, t)
    <2>1. Writers(p) \subseteq Writers(o) /\ p.read_timestamps = o.read_timestamps
      BY SMTT(30), <1>1, <1>6, CommitEffect
    <2> QED
      BY <1>1, <2>1 DEF OneWriter
  <1>7. CASE p = AfterAbort(o, t)
    <2>1. Writers(p) = Writers(o) \ {t} /\ p.read_timestamps = o.read_timestamps \ {t}
      BY SMTT(30), <1>1, <1>7, AbortEffect
    <2> QED
      BY <1>1, <2>1 DEF OneWriter
  <1> QED
    BY <1>1, <1>2, <1>3, <1>4, <1>5, <1>6, <1>7 DEF Changes

\* A task that goes on to write has registered its read,
LEMMA RegisteredOwn ==
    ASSUME Known, Settled, NEW s \in Shards, NEW t \in TransactionIds,
           TaskStep(s, t) \/ Call(s, t), NEW a \in Established, HomeOf[a] = s
    PROVE  Registered(a, t)'
  <1> DEFINE k == <<s, t>>
             o == heap[a][1]
             p == heap'[a][1]
  <1>1. /\ k \in Tasks /\ k[2] = t /\ t \in Nat /\ a \in Accounts /\ 1 \in Incarnations
        /\ o \in Objects /\ Writers(o) \subseteq Nat /\ o.committed_timestamp \in Nat
        /\ TInv /\ Registered(a, t) /\ Kept(a) /\ Kept(a)' /\ OneWriter(a)
    BY BaseFacts, EstablishedFacts, KeptStep DEF Known, Settled
  <1>2. Changes(k, a, 1)
    BY <1>1, ObjectStep
  <1>3. CASE pc'[k] = "read"
    <2>1. call'[k] = call[k] /\ ref'[k] = objects[call[k].acct]
      BY SMTT(30), <1>3, Leads DEF Known
    <2> QED
      BY <1>1, <1>3, <2>1 DEF Registered, Kept
  <1>4. CASE pc'[k] = "insert" /\ call'[k].acct = a
    <2>1. /\ pc[k] = "read" /\ call[k].acct = a /\ ReadOk(heap[a][ref[k]], t)
          /\ heap' = [heap EXCEPT ![a][ref[k]] = AfterRead(heap[a][ref[k]], t)]
      BY SMTT(30), <1>1, <1>4, Leads DEF Known, Kept
    <2>2. ref[k] = 1
      BY <1>1, <2>1 DEF Registered
    <2>3. ReadOk(o, t) /\ p = AfterRead(o, t)
      BY <1>1, <2>1, <2>2 DEF TInv, TypeOK, StoreTypes
    <2>4. \A w \in Writers(o) : w >= t
      <3>1. CASE t \in Writers(o)
        BY SMTT(30), <1>1, <3>1 DEF OneWriter
      <3>2. CASE WritersUpTo(o, t) = {}
        BY <1>1, <3>2 DEF WritersUpTo, Known, TentativeAboveCommitted
      <3> QED
        BY <2>3, <3>1, <3>2 DEF ReadOk
    <2>5. t \in p.read_timestamps /\ Writers(p) = Writers(o)
      BY SMTT(30), <1>1, <2>3, ReadEffect
    <2> QED
      BY <1>4, <2>4, <2>5 DEF Registered
  <1>5. CASE pc'[k] = "write" /\ call'[k].acct = a
    <2>1. pc[k] = "insert" /\ call[k].acct = a /\ ref'[k] = objects'[a]
      BY SMTT(30), <1>5, Leads DEF Known
    <2>2. p = o
      BY <1>2, <2>1 DEF Changes
    <2> QED
      BY <1>1, <1>5, <2>1, <2>2 DEF Registered, Kept
  <1> QED
    BY <1>3, <1>4, <1>5 DEF Registered

\* and no step of another task undoes that.
LEMMA RegisteredOthers ==
    ASSUME Known, Settled, NEW s \in Shards, NEW t \in TransactionIds,
           TaskStep(s, t) \/ Call(s, t), NEW a \in Established,
           NEW u \in TransactionIds, <<HomeOf[a], u>> # <<s, t>>
    PROVE  Registered(a, u)'
  <1> DEFINE k == <<s, t>>
             j == <<HomeOf[a], u>>
             o == heap[a][1]
             p == heap'[a][1]
  <1>1. /\ j \in Tasks /\ a \in Accounts /\ 1 \in Incarnations /\ Registered(a, u)
    BY BaseFacts, EstablishedFacts DEF Known, Settled
  <1>2. /\ call'[j] = call[j] /\ ref'[j] = ref[j]
        /\ pc'[j] = pc[j] \/ pc'[j] \in {"find", "snapshot"}
    BY <1>1, OthersKept DEF Known, Base, LoopHead
  <1>3. u \in o.read_timestamps => u \in p.read_timestamps
    BY SMTT(30), <1>1, MarksOfOthers DEF Known
  <1>4. ASSUME u \in o.read_timestamps, \A w \in Writers(o) : w >= u
        PROVE  \A w \in Writers(p) : w >= u
    <2>1. Overwrites(k, a, 1)
      BY <1>1, OverwritesStep DEF Known
    <2> QED
      BY <1>4, <2>1 DEF Overwrites, WriteOk
  <1> QED
    BY <1>1, <1>2, <1>3, <1>4 DEF Registered

LEMMA SettledInit == Init => Settled
  <1> SUFFICES ASSUME Init, NEW a \in Established PROVE
               Kept(a) /\ OneWriter(a) /\ \A t \in TransactionIds : Registered(a, t)
    BY DEF Settled
  <1>1. /\ a \in Accounts /\ 1 \in Incarnations /\ HomeOf[a] \in Shards
        /\ heap[a][1] = OpenedObject /\ objects[a] = 1 /\ Setup # Default
    BY SMTT(30), ShardConstants, SetupIsOldest, IdsArePositive DEF Init, Incarnations, Default
  <1>2. OpenedObject.committed_timestamp = Setup /\ Writers(OpenedObject) = {}
    BY DEF OpenedObject, DefaultObject, Writers
  <1>3. ASSUME NEW t \in TransactionIds
        PROVE  Registered(a, t)
    BY <1>1 DEF Init, Registered, Tasks, IsSetup
  <1> QED
    BY <1>1, <1>2, <1>3 DEF Kept, OneWriter

LEMMA SettledNext == Known /\ Settled /\ [Next]_vars => Settled'
  <1> SUFFICES ASSUME Known, Settled, [Next]_vars PROVE Settled'
    OBVIOUS
  <1>1. ASSUME NEW s \in Shards, NEW t \in TransactionIds, TaskStep(s, t) \/ Call(s, t)
        PROVE  Settled'
    <2>1. ASSUME NEW a \in Established, NEW u \in TransactionIds
          PROVE  Registered(a, u)'
      <3>1. CASE <<HomeOf[a], u>> = <<s, t>>
        BY <1>1, <3>1, RegisteredOwn
      <3>2. CASE <<HomeOf[a], u>> # <<s, t>>
        BY <1>1, <3>2, RegisteredOthers
      <3> QED
        BY <3>1, <3>2
    <2>2. \A a \in Established : Kept(a)' /\ OneWriter(a)'
      BY <1>1, KeptStep, OneWriterStep
    <2> QED
      BY <2>1, <2>2 DEF Settled
  <1>2. CASE UNCHANGED vars
    BY <1>2 DEF Settled, Kept, OneWriter, Registered, vars, tasks
  <1> QED
    BY <1>1, <1>2 DEF Next, Quiescent

LEMMA SettledHolds == Spec => []Settled
  BY KnownHolds, SettledInit, SettledNext, PTL DEF Spec

\* On an account that has been committed before, at most one transaction has
\* a tentative write (object.rs write against the read that Shard::read has
\* registered): nobody ever waits for a commit lock there.
THEOREM OnlyOneWriter == Spec => []SingleWriter
  <1>1. Settled => SingleWriter
    BY DEF Settled, OneWriter, SingleWriter
  <1> QED
    BY <1>1, SettledHolds, PTL

-----------------------------------------------------------------------------
(* A vote is kept                                                          *)

\* A tentative write, on the object in the map, that the transaction's shard
\* has voted for or is about to vote for passes its consistency check.
Voted(a, t) ==
    LET k == <<HomeOf[a], t>>
        n == objects[a]
        o == heap[a][n]
    IN
    (n # 0 /\ t \in Writers(o)) =>
    /\ (pc[k] = "scan" /\ call[k].op = "check" /\ ~found[k].bad /\ found[k].waits = {})
           => <<a, n>> \in scan[k] \/ Check(o.tentative_writes[t])
    /\ (pc[k] = "ready" \/ call[k].op = "commit") => Check(o.tentative_writes[t])

AllVoted == \A a \in Accounts, t \in TransactionIds : Voted(a, t)

\* A step of another task takes nothing from what a vote rests on,
LEMMA VotedOthers ==
    ASSUME Known, AllVoted, NEW s \in Shards, NEW t \in TransactionIds,
           TaskStep(s, t) \/ Call(s, t), NEW a \in Accounts, NEW n \in Incarnations,
           n = objects[a], n # 0, objects'[a] = n,
           NEW u \in TransactionIds, <<HomeOf[a], u>> # <<s, t>>
    PROVE  Voted(a, u)'
  <1> DEFINE j == <<HomeOf[a], u>>
             o == heap[a][n]
             p == heap'[a][n]
  <1>1. j \in Tasks /\ Voted(a, u)
    BY BaseFacts, ShardConstants DEF Known, AllVoted
  <1>2. /\ call'[j] = call[j] /\ scan'[j] = scan[j] /\ found'[j] = found[j]
        /\ pc'[j] = pc[j] \/ pc'[j] \in {"find", "snapshot"}
    BY <1>1, OthersKept DEF Known, Base, LoopHead
  <1>3. u \in Writers(p) => /\ u \in Writers(o)
                            /\ p.tentative_writes[u] = o.tentative_writes[u]
    BY SMTT(30), MarksOfOthers DEF Known
  <1> QED
    BY <1>1, <1>2, <1>3 DEF Voted

\* and a task votes only when it has it.
LEMMA VotedOwn ==
    ASSUME Known, AllVoted, NEW s \in Shards, NEW t \in TransactionIds,
           TaskStep(s, t) \/ Call(s, t), NEW a \in Accounts, HomeOf[a] = s,
           NEW n \in Incarnations, n = objects[a], n # 0, objects'[a] = n
    PROVE  Voted(a, t)'
  <1> DEFINE k == <<s, t>>
             o == heap[a][n]
             p == heap'[a][n]
  <1>1. /\ k \in Tasks /\ k[2] = t /\ o \in Objects /\ TInv /\ TaskTypes /\ TaskShape(k)
        /\ found[k] \in Results /\ scan[k] \subseteq Accounts \X Incarnations
        /\ Voted(a, t)
    BY BaseFacts, ObjectFacts DEF Known, AllVoted
  <1>2. Changes(k, a, n)
    BY <1>1, ObjectStep
  <1> SUFFICES ASSUME t \in Writers(p) PROVE Voted(a, t)'
    BY DEF Voted
  <1>3. CASE pc'[k] = "scan" /\ call'[k].op = "check"
    <2>1. CASE Snapshot(s, t)
      <3>1. scan'[k] = InMap(s)
        BY <1>1, <2>1 DEF Snapshot, TaskTypes
      <3>2. <<a, n>> \in scan'[k]
        BY <3>1 DEF InMap
      <3> QED
        BY <1>3, <3>2 DEF Voted
    <2>2. CASE CheckObject(s, t)
      <3>1. PICK x \in scan[k] : /\ scan'[k] = scan[k] \ {x}
                                 /\ found'[k] = CheckResult(found[k], heap[x[1]][x[2]], t)
        BY <1>1, <2>2 DEF CheckObject, TaskTypes
      <3> DEFINE q == heap[x[1]][x[2]]
      <3>2. /\ found'[k].bad = (found[k].bad \/ CommitInconsistent(q, t))
            /\ found'[k].waits = found[k].waits \cup {w \in Writers(q) : CommitWaitsFor(q, t, w)}
        BY <1>1, <3>1 DEF CheckResult, Results
      <3>3. p = o /\ pc[k] = "scan" /\ call[k].op = "check"
        BY <2>2 DEF CheckObject
      <3>4. ASSUME ~found'[k].bad, found'[k].waits = {}, x = <<a, n>>
            PROVE  Check(o.tentative_writes[t])
        <4>1. ~CommitInconsistent(o, t) /\ \A w \in Writers(o) : ~CommitWaitsFor(o, t, w)
          BY <3>2, <3>4
        <4>2. IsFirst(o, t)
          BY <1>1, <3>3, <4>1, CommitDecides
        <4> QED
          BY <4>1, <4>2 DEF CommitInconsistent
      <3>5. ~found'[k].bad /\ found'[k].waits = {} =>
               <<a, n>> \in scan'[k] \/ Check(o.tentative_writes[t])
        BY <1>1, <3>1, <3>2, <3>3, <3>4 DEF Voted
      <3> QED
        BY <1>3, <3>3, <3>5 DEF Voted
    <2> QED
      BY <1>3, <2>1, <2>2, Leads DEF Known
  <1>4. CASE pc'[k] = "ready"
    <2>1. /\ pc[k] = "scan" /\ call[k].op = "check" /\ scan[k] = {}
          /\ ~found[k].bad /\ found[k].waits = {}
      BY SMTT(30), <1>4, Leads DEF Known
    <2>2. p = o
      BY <1>2, <2>1 DEF Changes
    <2> QED
      BY <1>1, <1>4, <2>1, <2>2 DEF Voted
  <1>5. CASE call'[k].op = "commit"
    <2>1. call[k].op = "commit" \/ pc[k] = "ready"
      BY SMTT(30), <1>5, Leads DEF Known
    <2>2. p = o \/ p = AfterCommit(o, t)
      BY <1>1, <1>2, <2>1 DEF Changes, TaskShape, Outcomes
    <2>3. p = o
      BY SMTT(30), <1>1, <2>2, CommitEffect
    <2> QED
      BY <1>1, <1>5, <2>1, <2>3 DEF Voted
  <1> QED
    BY <1>3, <1>4, <1>5 DEF Voted

LEMMA AllVotedInit == Init => AllVoted
  <1> SUFFICES ASSUME Init, NEW a \in Accounts, NEW t \in TransactionIds, objects[a] # 0
               PROVE  Voted(a, t)
    BY DEF AllVoted, Voted
  <1>1. heap[a][objects[a]] = OpenedObject
    BY SMTT(30), ShardConstants DEF Init, Incarnations
  <1> QED
    BY SMTT(30), <1>1 DEF Voted, OpenedObject, DefaultObject, Writers

LEMMA AllVotedNext == Known /\ AllVoted /\ [Next]_vars => AllVoted'
  <1> SUFFICES ASSUME Known, AllVoted, [Next]_vars,
                      NEW a \in Accounts, NEW u \in TransactionIds
               PROVE  Voted(a, u)'
    BY DEF AllVoted
  <1>1. ASSUME NEW s \in Shards, NEW t \in TransactionIds, TaskStep(s, t) \/ Call(s, t)
        PROVE  Voted(a, u)'
    <2>1. CASE objects'[a] = 0
      BY <2>1 DEF Voted
    <2>2. CASE objects'[a] # 0 /\ heap'[a][objects'[a]] = DefaultObject
      BY <2>2, DefaultIsBlank DEF Voted
    <2>3. CASE objects'[a] = objects[a] /\ objects[a] \in Incarnations
      <3>1. objects[a] # 0
        BY <2>3 DEF Incarnations
      <3>2. CASE <<HomeOf[a], u>> = <<s, t>>
        BY <1>1, <2>3, <3>1, <3>2, VotedOwn
      <3>3. CASE <<HomeOf[a], u>> # <<s, t>>
        BY <1>1, <2>3, <3>1, <3>3, VotedOthers
      <3> QED
        BY <3>2, <3>3
    <2> QED
      BY <1>1, <2>1, <2>2, <2>3, InMapAfter DEF Known
  <1>2. CASE UNCHANGED vars
    BY <1>2 DEF AllVoted, Voted, vars, tasks
  <1> QED
    BY <1>1, <1>2 DEF Next, Quiescent

LEMMA AllVotedHolds == Spec => []AllVoted
  BY KnownHolds, AllVotedInit, AllVotedNext, PTL DEF Spec

\* What a commit finds on an object it visits
LEMMA CommitFinds ==
    ASSUME Known, AllVoted, NEW s \in Shards, NEW t \in TransactionIds,
           NEW k, k = <<s, t>>, call[k].op = "commit",
           NEW x \in scan[k], NEW o, o = heap[x[1]][x[2]]
    PROVE  /\ t \in Writers(o) => objects[x[1]] = x[2] /\ x[1] \in Accounts
           /\ ~CommitInconsistent(o, t)
  <1>1. /\ k \in Tasks /\ k[1] = s /\ k[2] = t /\ x[1] \in Accounts /\ x[2] \in Incarnations
        /\ HomeOf[x[1]] = s /\ CommitsInMap(k)
    BY SMTT(30), BaseFacts DEF Known, Recorded, Knows
  <1>2. t \in Writers(o) => objects[x[1]] = x[2]
    BY <1>1 DEF CommitsInMap
  <1>3. Voted(x[1], t) /\ <<HomeOf[x[1]], t>> = k /\ x[2] # 0
    BY <1>1 DEF AllVoted, Incarnations
  <1>4. t \in Writers(o) => Check(o.tentative_writes[t])
    BY <1>2, <1>3 DEF Voted
  <1> QED
    BY <1>1, <1>2, <1>4 DEF CommitInconsistent, IsFirst

\* A commit finds no failing check.
Sound(k) == call[k].op = "commit" => ~found[k].bad

AllSound == \A k \in Tasks : Sound(k)

\* A commit finds nothing that the vote had not seen.
LEMMA SoundOwn ==
    ASSUME Known, AllVoted, AllSound, NEW s \in Shards, NEW t \in TransactionIds,
           TaskStep(s, t) \/ Call(s, t)
    PROVE  Sound(<<s, t>>)'
  <1> DEFINE k == <<s, t>>
  <1>1. /\ k \in Tasks /\ TaskTypes /\ TaskShape(k) /\ Knows(k) /\ found[k] \in Results
        /\ Sound(k)
    BY BaseFacts DEF Known, AllSound
  <1> SUFFICES ASSUME call'[k].op = "commit" PROVE ~found'[k].bad
    BY DEF Sound
  <1>2. CASE found'[k] = Nothing
    BY <1>2 DEF Nothing
  <1>3. CASE found' = found /\ pc[k] # "scan"
    BY <1>1, <1>2, <1>3 DEF Knows
  <1>4. CASE CommitObject(s, t)
    <2>1. PICK x \in scan[k] : found'[k] = CheckResult(found[k], heap[x[1]][x[2]], t)
      BY <1>1, <1>4 DEF CommitObject, TaskTypes
    <2>2. call[k].op = "commit"
      BY <1>4 DEF CommitObject
    <2>3. ~CommitInconsistent(heap[x[1]][x[2]], t) /\ ~found[k].bad
      BY <1>1, <2>2, CommitFinds DEF Sound
    <2> QED
      BY <1>1, <2>1, <2>3 DEF CheckResult, Results
  <1>5. CASE CheckObject(s, t) \/ AbortObject(s, t)
    BY <1>5 DEF CheckObject, AbortObject
  <1>6. \/ found'[k] = Nothing \/ (found' = found /\ pc[k] # "scan")
        \/ CommitObject(s, t) \/ CheckObject(s, t) \/ AbortObject(s, t)
    <2>1. CASE Call(s, t)
      BY <2>1, Where DEF Call, Finish, BeginRead, BeginChange, BeginCheck, BeginCommit,
         BeginAbort, Begin
    <2>2. CASE FindObject(s, t) \/ InsertObject(s, t) \/ WriteObject(s, t)
      BY <2>2 DEF FindObject, InsertObject, WriteObject
    <2>3. CASE ReadObject(s, t)
      BY <2>3 DEF ReadObject
    <2>4. CASE GetNotification(s, t) \/ Notified(s, t) \/ LockForAbort(s, t)
      BY <2>4 DEF GetNotification, Notified, LockForAbort
    <2>5. CASE Snapshot(s, t) \/ JoinCheck(s, t) \/ Reap(s, t)
      BY <1>1, <2>5 DEF Snapshot, JoinCheck, Reap, TaskTypes
    <2>6. CASE JoinCommit(s, t) \/ NotifyAbort(s, t)
      BY <1>1, <2>6 DEF JoinCommit, NotifyAbort, NotifyAndRemove, TaskTypes
    <2> QED
      BY <2>1, <2>2, <2>3, <2>4, <2>5, <2>6 DEF TaskStep
  <1> QED
    BY <1>2, <1>3, <1>4, <1>5, <1>6

LEMMA AllSoundNext == Known /\ AllVoted /\ AllSound /\ [Next]_vars => AllSound'
  <1> SUFFICES ASSUME Known, AllVoted, AllSound, [Next]_vars, NEW j \in Tasks
               PROVE  Sound(j)'
    BY DEF AllSound, Tasks
  <1>1. ASSUME NEW s \in Shards, NEW t \in TransactionIds, TaskStep(s, t) \/ Call(s, t)
        PROVE  Sound(j)'
    <2>1. CASE j = <<s, t>>
      BY <1>1, <2>1, SoundOwn
    <2>2. CASE j # <<s, t>>
      BY <1>1, <2>2, OthersKept DEF Known, Base, AllSound, Sound
    <2> QED
      BY <2>1, <2>2
  <1>2. CASE UNCHANGED vars
    BY <1>2 DEF AllSound, Sound, vars, tasks
  <1> QED
    BY <1>1, <1>2 DEF Next, Quiescent

\* Whatever the accounts, a shard that has voted for a commit does not refuse
\* it: Shard::commit finds no failing check.
LEMMA AllSoundHolds == Spec => []AllSound
  <1>1. Init => AllSound
    BY SMTT(30) DEF Init, AllSound, Sound, NoCall
  <1> QED
    BY <1>1, AllVotedHolds, KnownHolds, AllSoundNext, PTL DEF Spec

\* On established accounts it also has nobody to wait for, and so it never
\* leaves its straight path.
Straight(k) == call[k].op = "commit" =>
    pc[k] \in {"snapshot", "scan"} /\ found[k].waits = {}

AllStraight == \A k \in Tasks : Straight(k)

\* A commit waits for nobody when all accounts have been committed before.
LEMMA StraightOwn ==
    ASSUME Known, Settled, AllVoted, AllStraight, Established = Accounts,
           NEW s \in Shards, NEW t \in TransactionIds, TaskStep(s, t) \/ Call(s, t)
    PROVE  Straight(<<s, t>>)'
  <1> DEFINE k == <<s, t>>
  <1>1. /\ k \in Tasks /\ TaskTypes /\ TaskShape(k) /\ Knows(k) /\ found[k] \in Results
        /\ Straight(k)
    BY BaseFacts DEF Known, AllStraight
  <1> SUFFICES ASSUME call'[k].op = "commit" PROVE Straight(k)'
    BY DEF Straight
  <1>2. CASE Call(s, t)
    <2>1. pc[k] = "ready" /\ pc'[k] = "snapshot"
      BY <1>2, BeginsOp DEF Known, Call, Finish
    <2>2. found' = found
      BY <1>2 DEF Call, Finish, BeginRead, BeginChange, BeginCheck, BeginCommit,
         BeginAbort, Begin
    <2>3. found[k] = Nothing
      BY <1>1, <2>1 DEF Knows
    <2> QED
      BY <2>1, <2>2, <2>3 DEF Straight, Nothing
  <1>3. CASE TaskStep(s, t)
    <2>1. call[k].op = "commit"
      <3>1. pc[k] # "ready"
        BY <1>3 DEF TaskStep, FindObject, ReadObject, GetNotification, Notified,
           InsertObject, WriteObject, Snapshot, CheckObject, JoinCheck, CommitObject,
           JoinCommit, LockForAbort, AbortObject, Reap, NotifyAbort
      <3> QED
        BY SMTT(30), <3>1, Leads DEF Known
    <2>2. pc[k] \in {"snapshot", "scan"} /\ found[k].waits = {}
      BY <1>1, <2>1 DEF Straight
    <2>3. CASE Snapshot(s, t)
      BY <1>1, <2>3 DEF Snapshot, Goto, TaskTypes, Straight, Nothing
    <2>4. CASE CommitObject(s, t)
      <3>1. PICK x \in scan[k] : found'[k] = CheckResult(found[k], heap[x[1]][x[2]], t)
        BY <1>1, <2>4 DEF CommitObject, TaskTypes
      <3> DEFINE o == heap[x[1]][x[2]]
      <3>2. t \in Writers(o) => objects[x[1]] = x[2] /\ x[1] \in Established
        BY <2>1, CommitFinds
      <3>3. t \in Writers(o) => \A w \in Writers(o) : w = t
        BY <3>2 DEF Settled, OneWriter, Kept
      <3>4. \A w \in Writers(o) : ~CommitWaitsFor(o, t, w)
        BY <3>3 DEF CommitWaitsFor
      <3>5. found'[k].waits = {}
        BY <1>1, <2>2, <3>1, <3>4 DEF CheckResult, Results
      <3>6. pc' = pc
        BY <2>4 DEF CommitObject
      <3> QED
        BY <2>2, <3>5, <3>6 DEF Straight
    <2>5. CASE JoinCommit(s, t)
      <3>1. call'[k] = NoCall
        BY <1>1, <2>2, <2>5 DEF JoinCommit, NotifyAndRemove, TaskTypes
      <3> QED
        BY <3>1 DEF NoCall
    <2> QED
      BY <1>3, <2>1, <2>2, <2>3, <2>4, <2>5, Where
  <1> QED
    BY <1>2, <1>3

LEMMA AllStraightNext ==
    ASSUME Established = Accounts
    PROVE  Known /\ Settled /\ AllVoted /\ AllStraight /\ [Next]_vars => AllStraight'
  <1> SUFFICES ASSUME Known, Settled, AllVoted, AllStraight, [Next]_vars, NEW j \in Tasks
               PROVE  Straight(j)'
    BY DEF AllStraight, Tasks
  <1>1. ASSUME NEW s \in Shards, NEW t \in TransactionIds, TaskStep(s, t) \/ Call(s, t)
        PROVE  Straight(j)'
    <2>1. CASE j = <<s, t>>
      BY <1>1, <2>1, StraightOwn
    <2>2. CASE j # <<s, t>>
      <3>1. /\ call'[j] = call[j] /\ found'[j] = found[j]
            /\ pc'[j] = pc[j] \/ pc[j] = "waiting"
        BY <1>1, <2>2, OthersKept DEF Known, Base
      <3> QED
        BY <3>1 DEF AllStraight, Straight
    <2> QED
      BY <2>1, <2>2
  <1>2. CASE UNCHANGED vars
    BY <1>2 DEF AllStraight, Straight, vars, tasks
  <1> QED
    BY <1>1, <1>2 DEF Next, Quiescent

\* check_commit keeps its word when every account has been committed before:
\* Shard::commit finds no conflict and no failing check that the vote had not
\* seen, so the branches logged as SHOULD NOT BE HERE are dead.
THEOREM VotesAreKept ==
    ASSUME Established = Accounts
    PROVE  Spec => []PreparedCommits
  <1>1. Init => AllStraight
    BY SMTT(30) DEF Init, AllStraight, Straight, NoCall
  <1>2. AllStraight /\ AllSound => PreparedCommits
    BY DEF AllStraight, Straight, AllSound, Sound, PreparedCommits
  <1>3. Known /\ Settled /\ AllVoted /\ AllStraight /\ [Next]_vars => AllStraight'
    BY AllStraightNext
  <1> QED
    BY <1>1, <1>2, <1>3, KnownHolds, SettledHolds, AllVotedHolds, AllSoundHolds, PTL DEF Spec

-----------------------------------------------------------------------------
(* What a committed transaction was told it had written is installed       *)

\* A change the client was told has succeeded is there until t aborts, as a
\* tentative write or as a version.
Lasting(a, t) ==
    (a \in acked[t] /\ ~Aborting(HomeOf[a], t))
        => t \in Writers(heap[a][1]) \/ t \in versions[a]

AllLasting == \A a \in Established, t \in TransactionIds : Lasting(a, t)

\* A change is acknowledged by the write itself.
LEMMA AckedStep ==
    ASSUME Known, Settled, NEW s \in Shards, NEW t \in TransactionIds,
           TaskStep(s, t) \/ Call(s, t), NEW a \in Established,
           NEW u \in TransactionIds, a \in acked'[u], a \notin acked[u]
    PROVE  u \in Writers(heap'[a][1])
  <1> DEFINE k == <<s, t>>
             b == call[k].acct
             o == heap[b][ref[k]]
  <1>1. TInv /\ TaskShape(k) /\ k[1] = s /\ acked \in [TransactionIds -> SUBSET Accounts]
    BY BaseFacts DEF Known, TInv, TypeOK, HistoryTypes
  <1>2. WriteObject(s, t)
    BY Frame
  <1>3. /\ pc[k] = "write" /\ acked' = [acked EXCEPT ![t] = @ \cup {b}]
        /\ heap' = [heap EXCEPT ![b][ref[k]] = AfterWrite(o, t, call[k].value)]
    BY <1>2 DEF WriteObject
  <1>4. u = t /\ b = a
    BY <1>1, <1>3
  <1>5. HomeOf[a] = s
    BY <1>1, <1>3, <1>4 DEF TaskShape
  <1>6. ref[k] = 1 /\ a \in Accounts /\ 1 \in Incarnations /\ heap[a][1] \in Objects
    BY <1>3, <1>4, <1>5, EstablishedFacts DEF Known, Settled, Registered
  <1>7. heap'[a][1] = AfterWrite(heap[a][1], t, call[k].value)
    BY <1>1, <1>3, <1>4, <1>6 DEF TInv, TypeOK, StoreTypes
  <1> QED
    BY SMTT(30), <1>4, <1>6, <1>7, WriteEffect

\* A change that succeeded stays tentative until it is committed or aborted.
LEMMA LastingStep ==
    ASSUME Known, Settled, AllLasting, NEW s \in Shards, NEW t \in TransactionIds,
           TaskStep(s, t) \/ Call(s, t), NEW a \in Established, NEW u \in TransactionIds
    PROVE  Lasting(a, u)'
  <1> DEFINE k == <<s, t>>
             o == heap[a][1]
             p == heap'[a][1]
  <1>1. /\ k \in Tasks /\ k[1] = s /\ k[2] = t /\ t \in Nat /\ Knows(k) /\ TaskShape(k)
        /\ a \in Accounts /\ 1 \in Incarnations /\ HomeOf[a] \in Shards
        /\ o \in Objects /\ Lasting(a, u) /\ objects[a] = 1
        /\ o.committed_timestamp \in Nat
    BY BaseFacts, EstablishedFacts DEF Known, AllLasting, Settled, Kept
  <1> SUFFICES ASSUME a \in acked'[u], ~Aborting(HomeOf[a], u)'
               PROVE  u \in Writers(p) \/ u \in versions'[a]
    BY DEF Lasting
  <1>2. ~Aborting(HomeOf[a], u)
    BY <1>1, AbortingStays DEF Known
  <1>3. CASE a \notin acked[u]
    BY <1>3, AckedStep
  <1>4. \/ /\ versions'[a] = versions[a]
           /\ p.committed_timestamp = o.committed_timestamp
        \/ versions'[a] = versions[a] \cup {t}
    <2>1. ASSUME NEW n \in Incarnations, Installs(k, a, n)
          PROVE  versions'[a] = versions[a] \cup {t}
      BY <1>1, <2>1, InstallsInMap DEF Known
    <2> QED
      BY <1>1, <2>1, VersionStep DEF Known
  <1>5. CASE u \in versions[a]
    BY <1>4, <1>5
  <1>6. CASE u \in Writers(o)
    <2>1. CASE <<HomeOf[a], u>> # k
      BY SMTT(30), <1>1, <1>6, <2>1, MarksOfOthers DEF Known
    <2>2. CASE <<HomeOf[a], u>> = k
      <3>1. u = t /\ HomeOf[a] = s /\ call[k].op # "abort"
        BY <1>2, <2>2 DEF Aborting
      <3>2. Changes(k, a, 1)
        BY <1>1, ObjectStep DEF Known, Base
      <3>3. CASE p = AfterRead(o, t) \/ p = AfterWrite(o, t, call[k].value)
        BY SMTT(30), <1>1, <1>6, <3>1, <3>3, ReadEffect, WriteEffect
      <3>4. CASE p = AfterCommit(o, t)
        <4>1. CASE ~CommitValue(o, t)
          BY SMTT(30), <1>1, <1>6, <3>4, <4>1, CommitEffect
        <4>2. CASE CommitValue(o, t)
          <5>1. p.committed_timestamp = t
            BY SMTT(30), <1>1, <3>4, <4>2, CommitEffect
          <5>2. t > o.committed_timestamp
            BY <1>1, <1>6, <3>1 DEF Known, TentativeAboveCommitted
          <5> QED
            BY SMTT(30), <1>1, <1>4, <3>1, <5>1, <5>2
        <4> QED
          BY <4>1, <4>2
      <3> QED
        BY <1>1, <1>6, <3>1, <3>2, <3>3, <3>4 DEF Changes
    <2> QED
      BY <2>1, <2>2
  <1> QED
    BY <1>1, <1>2, <1>3, <1>5, <1>6 DEF Lasting

LEMMA AllLastingInit == Init => AllLasting
  <1> SUFFICES ASSUME Init, NEW a \in Established, NEW t \in TransactionIds, a \in acked[t]
               PROVE  t \in versions[a]
    BY DEF AllLasting, Lasting
  <1>1. t = Setup
    BY DEF Init, IsSetup
  <1> QED
    BY <1>1, ShardConstants DEF Init

LEMMA AllLastingHolds == Spec => []AllLasting
  <1>1. Known /\ Settled /\ AllLasting /\ [Next]_vars => AllLasting'
    <2> SUFFICES ASSUME Known, Settled, AllLasting, [Next]_vars,
                        NEW a \in Established, NEW u \in TransactionIds
                 PROVE  Lasting(a, u)'
      BY DEF AllLasting
    <2>1. CASE UNCHANGED vars
      BY <2>1 DEF AllLasting, Lasting, Aborting, vars, tasks, history
    <2> QED
      BY <2>1, LastingStep DEF Next, Quiescent
  <1> QED
    BY <1>1, KnownHolds, SettledHolds, AllLastingInit, PTL DEF Spec

\* Every balance change that the client was told succeeded is committed by the
\* object in the map once Shard::commit returns, if every account has been
\* committed before.
THEOREM ChangesAreInstalled ==
    ASSUME Established = Accounts
    PROVE  Spec => []CommittedWritesInstalled
  <1>1. Known /\ Settled /\ AllLasting /\ ResolvedLeavesNothing => CommittedWritesInstalled
    <2> SUFFICES ASSUME Known, Settled, AllLasting, ResolvedLeavesNothing,
                        NEW t \in TransactionIds, NEW a \in acked[t],
                        pc[<<HomeOf[a], t>>] = "committed"
                 PROVE  t \in versions[a]
      BY DEF CommittedWritesInstalled
    <2>1. a \in Established /\ a \in Accounts
      BY DEF Known, Base, TInv, TypeOK, HistoryTypes
    <2>2. ~Aborting(HomeOf[a], t)
      BY SMTT(30), <2>1, BaseFacts, EstablishedFacts DEF Known, Aborting, TaskShape, Outcomes
    <2>3. t \notin Writers(heap[a][1])
      BY SMTT(30), <2>1 DEF ResolvedLeavesNothing, Resolved, Settled, Kept
    <2> QED
      BY <2>1, <2>2, <2>3 DEF AllLasting, Lasting
  <1> QED
    BY <1>1, KnownHolds, SettledHolds, AllLastingHolds, ResolvedIsClean, PTL

-----------------------------------------------------------------------------
(* Committed transactions are serializable                                 *)

\* Everything a transaction has read is a committed version.
ReadsVersions == \A t \in TransactionIds : \A r \in seen[t] : r[2] # Default

\* What a transaction has read stays a version of the account.
LEMMA ReadsVersionsNext ==
    ASSUME Established = Accounts
    PROVE  Known /\ Settled /\ ReadsVersions /\ [Next]_vars => ReadsVersions'
  <1> SUFFICES ASSUME Known, Settled, ReadsVersions, [Next]_vars,
                      NEW u \in TransactionIds, NEW r \in seen'[u]
               PROVE  r[2] # Default
    BY DEF ReadsVersions
  <1>1. ASSUME NEW s \in Shards, NEW t \in TransactionIds, TaskStep(s, t) \/ Call(s, t)
        PROVE  r[2] # Default
    <2> DEFINE k == <<s, t>>
               a == call[k].acct
               v == heap[a][ref[k]].committed_timestamp
    <2>1. seen \in [TransactionIds -> SUBSET (Accounts \X Timestamps)] /\ TaskShape(k) /\ k[1] = s
      BY <1>1, BaseFacts DEF Known, TInv, TypeOK, HistoryTypes
    <2>2. CASE seen' = seen
      BY <2>2 DEF ReadsVersions
    <2>3. CASE FindObject(s, t)
      <3>1. a \in Established
        BY <2>1, <2>3 DEF FindObject, TaskShape
      <3>2. objects[a] # 0
        BY SMTT(30), <3>1 DEF Settled, Kept
      <3> QED
        BY <2>2, <2>3, <3>2 DEF FindObject
    <2>4. CASE ReadObject(s, t) /\ seen' # seen
      <3>1. pc[k] = "read" /\ seen' = [seen EXCEPT ![t] = @ \cup {<<a, v>>}]
        BY <2>4 DEF ReadObject
      <3>2. a \in Established /\ HomeOf[a] = s
        BY <2>1, <3>1 DEF TaskShape
      <3>3. v # Default
        BY <1>1, <3>1, <3>2 DEF Settled, Kept, Registered
      <3>4. r \in seen[u] \/ r = <<a, v>>
        BY <2>1, <3>1
      <3> QED
        BY <3>3, <3>4 DEF ReadsVersions
    <2> QED
      BY <1>1, <2>2, <2>3, <2>4, Frame
  <1>2. CASE UNCHANGED vars
    BY <1>2 DEF ReadsVersions, vars, history
  <1> QED
    BY <1>1, <1>2 DEF Next, Quiescent

\* Committed transactions are serializable in timestamp order if every account
\* has been committed before: no transaction commits a version between the one
\* a committed transaction has read and that transaction itself.
THEOREM TransactionsSerialize ==
    ASSUME Established = Accounts
    PROVE  Spec => []Serializable
  <1>1. Known /\ ReadsVersions /\ ReadsStayValid => Serializable
    <2> SUFFICES ASSUME Known, ReadsVersions, ReadsStayValid,
                        NEW t \in TransactionIds, NEW r \in seen[t],
                        pc[<<HomeOf[r[1]], t>>] = "committed"
                 PROVE  \A u \in versions[r[1]] : u <= r[2] \/ u >= t
      BY DEF Serializable
    <2>1. r[1] \in Accounts
      BY SMTT(30) DEF Known, Base, TInv, TypeOK, HistoryTypes
    <2>2. ~Aborting(HomeOf[r[1]], t)
      BY SMTT(30), <2>1, BaseFacts, ShardConstants DEF Known, Aborting, TaskShape, Outcomes
    <2> QED
      BY <2>2 DEF ReadsVersions, ReadsStayValid
  <1>2. Init => ReadsVersions
    BY DEF Init, ReadsVersions
  <1>3. Known /\ Settled /\ ReadsVersions /\ [Next]_vars => ReadsVersions'
    BY ReadsVersionsNext
  <1> QED
    BY <1>1, <1>2, <1>3, KnownHolds, SettledHolds, ReadsAreValid, PTL DEF Spec
=============================================================================
