------------------------- MODULE CoordinatorProofs -------------------------
(***************************************************************************)
(* The theorems about the whole system, for any servers, clients and       *)
(* accounts.  The invariant of the shards and the invariant of the servers *)
(* need each other: the shards keep theirs if the servers call them in     *)
(* order (ShardsStep), and the servers theirs if a shard that voted for a  *)
(* commit does not refuse it (AllSound).                                   *)
(***************************************************************************)
EXTENDS TwoPhaseCommitProofs, SerialProofs, FiniteSetTheorems

\* Zenon first, which is quick on the many steps without arithmetic; the steps on
\* which it is not cite SMTT(30).
USE ZenonT(20), SMTT(30)

-----------------------------------------------------------------------------
(* What the servers need of the shards                                     *)

ShardInv == Known /\ AllVoted /\ AllSound

LEMMA ShardInvInit == Init => ShardInv
  <1> SUFFICES ASSUME Init PROVE ShardInv
    OBVIOUS
  <1>1. Known
    BY BaseInit, MarkedInit, RecordedInit, OrderedInit DEF Known
  <1>2. AllSound
    BY DEF Init, AllSound, Sound, NoCall
  <1> QED
    BY <1>1, <1>2, AllVotedInit DEF ShardInv

\* It is inductive.
LEMMA ShardInvNext == ShardInv /\ [Next]_vars => ShardInv'
  <1> SUFFICES ASSUME ShardInv, [Next]_vars PROVE ShardInv'
    OBVIOUS
  <1>1. Known /\ AllVoted /\ AllSound /\ Base /\ Marked /\ Recorded /\ TInv
        /\ TentativeAboveCommitted
    BY DEF ShardInv, Known, Base
  <1>2. TentativeAboveCommitted'
    BY <1>1, StepAdvances DEF HeapAdvances, Advances, Ordered, TentativeAboveCommitted
  <1>3. Base' /\ Marked' /\ Recorded'
    BY <1>1, BaseNext, MarkedNext, RecordedNext
  <1>4. Known'
    BY <1>2, <1>3 DEF Known
  <1>5. AllVoted' /\ AllSound'
    BY <1>1, AllVotedNext, AllSoundNext
  <1> QED
    BY <1>4, <1>5 DEF ShardInv

\* A shard in shape is one the servers can rely on.
LEMMA ShapeFollows ==
    ASSUME TInv
    PROVE  InShape
  <1>1. TaskTypes /\ \A k \in Tasks : TaskShape(k)
    BY DEF TInv, TypeOK, Shape
  <1>2. ASSUME NEW k \in Tasks
        PROVE  pc[k] \in Outcomes <=> call[k].op = "none"
    <2>1. TaskShape(k) /\ pc[k] \in Running \cup Outcomes
      BY <1>1 DEF TaskTypes
    <2> QED
      BY <2>1 DEF TaskShape, Running, Outcomes
  <1> QED
    BY <1>1, <1>2 DEF InShape, TaskTypes

-----------------------------------------------------------------------------
(* How a step of a task moves the stages                                   *)

\* The steps that stay within the call
LEMMA StaysInCall ==
    ASSUME TInv, NEW s \in Shards, NEW t \in TransactionIds,
           pc[<<s, t>>] \in Running,
           (\E label \in Running : Goto(s, t, label)) \/ UNCHANGED pc,
           \A j \in Tasks : call'[j].op = call[j].op
    PROVE  StageMoves(s, t)
  <1> DEFINE k == <<s, t>>
  <1>1. k \in Tasks /\ TaskTypes
    BY DEF Tasks, TInv, TypeOK
  <1>2. pc'[k] \in Running
    BY <1>1 DEF TaskTypes, Goto
  <1>3. \A j \in Tasks : j # k => pc'[j] = pc[j]
    BY <1>1 DEF TaskTypes, Goto
  <1> QED
    BY <1>1, <1>2, <1>3 DEF StageMoves, Stage

\* The steps that end the call
LEMMA EndsCall ==
    ASSUME TInv, NEW s \in Shards, NEW t \in TransactionIds,
           pc[<<s, t>>] \in Running, NEW o \in Outcomes, Return(s, t, o)
    PROVE  /\ Stage(<<s, t>>) = call[<<s, t>>].op /\ Stage(<<s, t>>)' = o
           /\ \A j \in Tasks : j # <<s, t>> => Stage(j)' = Stage(j)
  <1> DEFINE k == <<s, t>>
  <1>1. k \in Tasks /\ TaskTypes
    BY DEF Tasks, TInv, TypeOK
  <1>2. pc'[k] = o /\ o \notin Running
    BY <1>1 DEF TaskTypes, Return, Goto, Running, Outcomes
  <1>3. \A j \in Tasks : j # k => pc'[j] = pc[j] /\ call'[j] = call[j]
    BY <1>1 DEF TaskTypes, Return, Goto
  <1> QED
    BY <1>2, <1>3 DEF Stage

\* So does the step that wakes other tasks, which stay within their calls.
LEMMA NotifyEndsCall ==
    ASSUME TInv, NEW s \in Shards, NEW t \in TransactionIds,
           pc[<<s, t>>] \in Running \ {"waiting"},
           NEW o \in Outcomes, NotifyAndRemove(s, t, o)
    PROVE  /\ Stage(<<s, t>>) = call[<<s, t>>].op /\ Stage(<<s, t>>)' = o
           /\ \A j \in Tasks : j # <<s, t>> => Stage(j)' = Stage(j)
  <1> DEFINE k == <<s, t>>
  <1>1. k \in Tasks /\ TaskTypes
    BY DEF Tasks, TInv, TypeOK
  <1>2. pc'[k] = o /\ o \notin Running
    BY <1>1 DEF NotifyAndRemove, Running, Outcomes
  <1>3. ASSUME NEW j \in Tasks, j # k
        PROVE  Stage(j)' = Stage(j)
    <2>1. call'[j] = call[j]
      BY <1>1, <1>3 DEF TaskTypes, NotifyAndRemove
    <2>2. CASE j \in Woken(s, t)
      <3>1. pc[j] = "waiting" /\ pc'[j] = LoopHead(j)
        BY <1>3, <2>2 DEF NotifyAndRemove, Woken
      <3> QED
        BY <2>1, <3>1 DEF Stage, LoopHead, Running
    <2>3. CASE j \notin Woken(s, t)
      <3>1. pc'[j] = pc[j]
        BY <1>3, <2>3 DEF NotifyAndRemove
      <3> QED
        BY <2>1, <3>1 DEF Stage
    <2> QED
      BY <2>2, <2>3
  <1> QED
    BY <1>2, <1>3 DEF Stage

\* A balance change keeps its operation while its value is worked out.
LEMMA ValueKeepsOp ==
    ASSUME TInv, NEW k \in Tasks, NEW v, call' = [call EXCEPT ![k].value = v]
    PROVE  \A j \in Tasks : call'[j].op = call[j].op
  <1>1. call \in [Tasks -> Calls]
    BY DEF TInv, TypeOK, TaskTypes
  <1>2. call'[k] = [call[k] EXCEPT !.value = v]
    BY <1>1
  <1>3. call'[k].op = call[k].op
    BY <1>1, <1>2 DEF Calls
  <1>4. \A j \in Tasks : j # k => call'[j] = call[j]
    BY <1>1
  <1> QED
    BY <1>3, <1>4

\* Shard::read and Shard::write
LEMMA ReadWriteMoves ==
    ASSUME TInv, NEW s \in Shards, NEW t \in TransactionIds,
           FindObject(s, t) \/ ReadObject(s, t) \/ InsertObject(s, t) \/ WriteObject(s, t)
    PROVE  StageMoves(s, t)
  <1> DEFINE k == <<s, t>>
  <1>1. k \in Tasks /\ TaskShape(k)
    BY DEF Tasks, TInv, Shape
  <1>2. pc[k] \in {"find", "read", "insert", "write"}
    BY DEF FindObject, ReadObject, InsertObject, WriteObject
  <1>3. pc[k] \in Running /\ call[k].op \in {"read", "change"}
    BY <1>1, <1>2 DEF TaskShape, Running
  <1>4. CASE \E o \in {"idle", "failed", "not_found"} : Return(s, t, o)
    <2>1. PICK o \in {"idle", "failed", "not_found"} : Return(s, t, o)
      BY <1>4
    <2>2. o \in Outcomes
      BY DEF Outcomes
    <2>3. /\ Stage(k) = call[k].op /\ Stage(k)' = o
          /\ \A j \in Tasks : j # k => Stage(j)' = Stage(j)
      BY <1>3, <2>1, <2>2, EndsCall
    <2> QED
      BY <1>3, <2>3 DEF StageMoves
  <1>5. CASE UNCHANGED call /\ \E label \in Running : Goto(s, t, label)
    BY <1>3, <1>5, StaysInCall
  <1>6. CASE Goto(s, t, "insert") /\ \E v : call' = [call EXCEPT ![k].value = v]
    <2>1. PICK v : call' = [call EXCEPT ![k].value = v]
      BY <1>6
    <2>2. \A j \in Tasks : call'[j].op = call[j].op
      BY <1>1, <2>1, ValueKeepsOp
    <2>3. "insert" \in Running
      BY DEF Running
    <2> QED
      BY <1>3, <1>6, <2>2, <2>3, StaysInCall
  <1>7. {"read", "insert", "write", "subscribe"} \subseteq Running
    BY DEF Running
  <1>8. CASE FindObject(s, t)
    BY <1>4, <1>5, <1>6, <1>7, <1>8 DEF FindObject
  <1>9. CASE ReadObject(s, t)
    <2>1. \/ Return(s, t, "idle") \/ Return(s, t, "failed")
          \/ UNCHANGED call /\ Goto(s, t, "subscribe")
          \/ Goto(s, t, "insert") /\ \E v : call' = [call EXCEPT ![k].value = v]
      BY <1>9 DEF ReadObject, WaitFor
    <2> QED
      BY <1>4, <1>5, <1>6, <1>7, <2>1
  <1>10. CASE InsertObject(s, t) \/ WriteObject(s, t)
    BY <1>4, <1>5, <1>7, <1>10 DEF InsertObject, WriteObject
  <1> QED
    BY <1>8, <1>9, <1>10

\* Shard::check_commit and Shard::commit, which does not fail: the shard has
\* voted for it.
LEMMA CommitMoves ==
    ASSUME TInv, AllSound, NEW s \in Shards, NEW t \in TransactionIds,
           JoinCheck(s, t) \/ JoinCommit(s, t)
    PROVE  StageMoves(s, t)
  <1> DEFINE k == <<s, t>>
  <1>1. k \in Tasks /\ pc[k] \in Running \ {"waiting"} /\ "subscribe" \in Running
    BY DEF Tasks, JoinCheck, JoinCommit, Running
  <1>2. CASE UNCHANGED call /\ \E w : WaitFor(s, t, w)
    BY <1>1, <1>2, StaysInCall DEF WaitFor
  <1>3. CASE JoinCheck(s, t) /\ \E o \in {"ready", "failed"} : Return(s, t, o)
    <2>1. PICK o \in {"ready", "failed"} : Return(s, t, o)
      BY <1>3
    <2>2. o \in Outcomes
      BY DEF Outcomes
    <2>3. /\ Stage(k) = call[k].op /\ Stage(k)' = o
          /\ \A j \in Tasks : j # k => Stage(j)' = Stage(j)
      BY <1>1, <2>1, <2>2, EndsCall
    <2> QED
      BY <1>3, <2>3 DEF StageMoves, JoinCheck
  <1>4. CASE JoinCommit(s, t) /\ NotifyAndRemove(s, t, IF found[k].bad THEN "failed"
                                                                   ELSE "committed")
    <2>1. call[k].op = "commit" /\ ~found[k].bad
      BY <1>1, <1>4 DEF JoinCommit, AllSound, Sound
    <2>2. NotifyAndRemove(s, t, "committed") /\ "committed" \in Outcomes
      BY <1>4, <2>1 DEF Outcomes
    <2>3. /\ Stage(k) = call[k].op /\ Stage(k)' = "committed"
          /\ \A j \in Tasks : j # k => Stage(j)' = Stage(j)
      BY <1>1, <2>2, NotifyEndsCall
    <2> QED
      BY <2>1, <2>3 DEF StageMoves
  <1>5. CASE JoinCheck(s, t)
    BY <1>2, <1>3, <1>5 DEF JoinCheck
  <1>6. CASE JoinCommit(s, t)
    BY <1>2, <1>4, <1>6 DEF JoinCommit
  <1> QED
    BY <1>5, <1>6

\* A step inside a shard is one that the protocol expects.
LEMMA TaskMovesStage ==
    ASSUME TInv, AllSound, NEW s \in Shards, NEW t \in TransactionIds, TaskStep(s, t)
    PROVE  StageMoves(s, t)
  <1> DEFINE k == <<s, t>>
  <1>1. k \in Tasks /\ TaskShape(k)
    BY DEF Tasks, TInv, Shape
  <1>2. CASE \/ GetNotification(s, t) \/ Notified(s, t) \/ Snapshot(s, t)
             \/ LockForAbort(s, t) \/ Reap(s, t)
    <2>1. UNCHANGED call /\ pc[k] \in Running
      BY <1>2 DEF GetNotification, Notified, Snapshot, LockForAbort, Reap, Running
    <2>2. \E label \in {"held", "waiting", "scan", "notify"} : Goto(s, t, label)
      BY <1>2 DEF GetNotification, Notified, Snapshot, LockForAbort, Reap
    <2>3. \E label \in Running : Goto(s, t, label)
      BY <2>2 DEF Running
    <2> QED
      BY <2>1, <2>3, StaysInCall
  <1>3. CASE CheckObject(s, t) \/ CommitObject(s, t) \/ AbortObject(s, t)
    <2>1. UNCHANGED <<pc, call>> /\ pc[k] \in Running
      BY <1>3 DEF CheckObject, CommitObject, AbortObject, Running
    <2> QED
      BY <2>1, StaysInCall
  <1>4. CASE NotifyAbort(s, t)
    <2>1. /\ pc[k] = "notify" /\ pc[k] \in Running \ {"waiting"} /\ "aborted" \in Outcomes
          /\ NotifyAndRemove(s, t, "aborted")
      BY <1>4 DEF NotifyAbort, Running, Outcomes
    <2>2. call[k].op = "abort"
      BY <1>1, <2>1 DEF TaskShape
    <2>3. /\ Stage(k) = call[k].op /\ Stage(k)' = "aborted"
          /\ \A j \in Tasks : j # k => Stage(j)' = Stage(j)
      BY <2>1, NotifyEndsCall
    <2> QED
      BY <2>2, <2>3 DEF StageMoves
  <1> QED
    BY <1>2, <1>3, <1>4, ReadWriteMoves, CommitMoves DEF TaskStep

-----------------------------------------------------------------------------
(* The invariant of the system                                             *)

SystemInv == ShardInv /\ Carriers /\ Protocols

\* The library's theorems about cardinalities
LEMMA CardinalitiesHold == Cardinalities
  BY FS_CardinalityType, FS_EmptySet, FS_RemoveElement, FS_Subset, FS_Singleton
     DEF Cardinalities

LEMMA SystemInvInit == CoordinatorInit => SystemInv
  BY ShardInvInit, ProtocolInit, CardinalitiesHold DEF CoordinatorInit, SystemInv

\* What the two halves give to each other
LEMMA SystemInvFacts ==
    ASSUME SystemInv
    PROVE  /\ TypeOK /\ SInv
           /\ \A s \in Shards, t \in TransactionIds : TaskStep(s, t) => StageMoves(s, t)
  <1>1. TInv /\ AllSound /\ TypeOK
    BY DEF SystemInv, ShardInv, Known, Base, TInv
  <1>2. SInv
    BY <1>1, ShapeFollows, CardinalitiesHold DEF SystemInv, SInv
  <1> QED
    BY <1>1, <1>2, TaskMovesStage

\* Every step of the system keeps the invariant and is one that Shard allows.
LEMMA SystemInvNext ==
    ASSUME SystemInv, [CoordinatorNext]_allVars
    PROVE  SystemInv' /\ [Next]_vars
  <1>1. SInv /\ \A s \in Shards, t \in TransactionIds : TaskStep(s, t) => StageMoves(s, t)
    BY SystemInvFacts
  <1>2. [Next]_vars
    BY <1>1, ShardsStep
  <1>3. Carriers' /\ Protocols'
    BY <1>1, ProtocolNext
  <1>4. ShardInv'
    BY <1>2, ShardInvNext DEF SystemInv
  <1> QED
    BY <1>2, <1>3, <1>4 DEF SystemInv

LEMMA SystemInvHolds == CoordinatorSpec => []SystemInv
  <1>1. SystemInv /\ [CoordinatorNext]_allVars => SystemInv'
    BY SystemInvNext
  <1> QED
    BY <1>1, SystemInvInit, PTL DEF CoordinatorSpec

\* The servers' half of it, before and after a step
LEMMA SystemInvSInv == SystemInv => SInv
  BY SystemInvFacts

LEMMA SystemInvSInvNext == SystemInv' => SInv'
  BY SystemInvSInv, PTL

-----------------------------------------------------------------------------
(* The theorems                                                            *)

\* Type correctness of the servers (coordinator/client.rs, coordinator/mod.rs)
THEOREM CoordinatorTypeCorrect == CoordinatorSpec => []CoordinatorTypeOK
  <1>1. SystemInv => CoordinatorTypeOK
    BY SystemInvFacts, TypesFollow
  <1> QED
    BY <1>1, SystemInvHolds, PTL

\* The servers call the shards only as module Shard lets them: whatever Shard
\* promises to callers that keep to its rules it promises to these servers,
\* so that the theorems about Spec are theorems about the whole system.
THEOREM ServersCallInOrder == CoordinatorSpec => Spec
  <1>1. CoordinatorInit => Init
    BY DEF CoordinatorInit
  <1>2. SystemInv /\ [CoordinatorNext]_allVars => [Next]_vars
    BY SystemInvNext
  <1> QED
    BY <1>1, <1>2, SystemInvHolds, PTL DEF CoordinatorSpec, Spec

\* In the whole system, whatever the messages and the servers do: committed
\* transactions are serializable in the order of their timestamps, and what they
\* wrote is installed, if every account has been committed before.
THEOREM SystemSerializes ==
    ASSUME Established = Accounts
    PROVE  CoordinatorSpec => [](Serializable /\ CommittedWritesInstalled)
  BY ServersCallInOrder, TransactionsSerialize, ChangesAreInstalled, PTL

\* No transaction commits on one shard and aborts on another, although the
\* handler decides on votes that come in one by one (client.rs commit) and the
\* other servers act on messages alone.
THEOREM CommitsAreAtomic == CoordinatorSpec => []AllOrNothing
  <1>1. SystemInv => AllOrNothing
    BY SystemInvSInv, AllOrNothingFollows
  <1> QED
    BY <1>1, SystemInvHolds, PTL

\* The final response tells the client what happened to its transaction.
THEOREM RepliesAreOutcomes == CoordinatorSpec => []ReplyIsOutcome
  <1>1. SystemInv => ReplyIsOutcome
    BY SystemInvSInv, ReplyIsOutcomeFollows
  <1> QED
    BY <1>1, SystemInvHolds, PTL

\* A handler finds in its channel only answers to what it has asked.
THEOREM ResponsesAreExpected == CoordinatorSpec => []NoStrayResponse
  <1>1. SystemInv => NoStrayResponse
    BY SystemInvSInv, NoStrayResponseFollows
  <1> QED
    BY <1>1, SystemInvHolds, PTL

\* A shard is given one call of a transaction at a time.
THEOREM CallsAreInOrder == CoordinatorSpec => []CallsDoNotOverlap
  <1>1. SystemInv => CallsDoNotOverlap
    BY SystemInvSInv, CallsDoNotOverlapFollows
  <1> QED
    BY <1>1, SystemInvHolds, PTL

\* Whatever answers a request reaches a coordinator that still knows the
\* client it is for.
THEOREM AnswersAreDelivered == CoordinatorSpec => []AnswersFindTheirClient
  <1>1. SystemInv => AnswersFindTheirClient
    BY SystemInvSInv, AnswersFindTheirClientFollows
  <1> QED
    BY <1>1, SystemInvHolds, PTL

\* Two-phase commit is atomic: every step of a handler, a loop or a shard is a
\* vote, a commit, an abort or a final response that AtomicCommit allows, or
\* changes nothing that AtomicCommit sees.
THEOREM CommitIsAtomicCommit == CoordinatorSpec => ImplementsAtomicCommit
  <1>1. SystemInv /\ SystemInv' /\ [CoordinatorNext]_allVars => [AC!Next]_(AC!vars)
    <2> SUFFICES ASSUME SystemInv, SystemInv', [CoordinatorNext]_allVars
                 PROVE  [AC!Next]_(AC!vars)
      OBVIOUS
    <2>1. SInv /\ \A s \in Shards, t \in TransactionIds : TaskStep(s, t) => StageMoves(s, t)
      BY SystemInvFacts
    <2>2. SInv'
      BY SystemInvSInvNext
    <2> QED
      BY <2>1, <2>2, AtomicNext
  <1>2. CoordinatorInit => AC!Init
    BY AtomicInit
  <1> QED
    BY <1>1, <1>2, SystemInvHolds, PTL DEF CoordinatorSpec, ImplementsAtomicCommit, AC!Spec
=============================================================================
