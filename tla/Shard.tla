------------------------------- MODULE Shard -------------------------------
(***************************************************************************)
(* The shards, sharding/shard.rs: each owns a map from account names to    *)
(* mutex-protected objects and a map from transaction ids to notifications *)
(* and runs one task per request.  A task is interleaved with the others   *)
(* at every .await, so an action is what one task does between two awaits: *)
(* one critical section of the objects map, of one object or of the        *)
(* notifications map.                                                      *)
(*                                                                         *)
(* The coordinator (Client in coordinator/client.rs, handle_remote_request *)
(* in coordinator/mod.rs) makes one call of a transaction at a time on a   *)
(* shard, so a task is named by the shard and the transaction.  The Begin  *)
(* actions are those calls: any order a coordinator may issue them in.     *)
(***************************************************************************)
EXTENDS TimestampedObject

CONSTANTS
    Shards,           \* the servers, one shard each
    Accounts,         \* account names
    HomeOf,           \* account -> shard: the first letter of the name
    NoAccount,        \* placeholder for a call without an account
    Diffs,            \* amounts a client deposits (> 0) or withdraws (< 0)
    Established,      \* accounts that exist initially ...
    Setup,            \* ... created and committed by this transaction ...
    Opening,          \* ... with this balance
    MaxOps,           \* bound: reads and balance changes per transaction
    MaxIncarnations   \* bound: objects ever allocated for one account

ASSUME ShardConstants ==
    /\ HomeOf \in [Accounts -> Shards]
    /\ NoAccount \notin Accounts
    /\ Diffs \subseteq Amounts
    /\ Established \subseteq Accounts
    /\ Opening \in Amounts /\ Check(Opening)
    /\ MaxOps \in Nat
    /\ MaxIncarnations \in Nat \ {0}

ASSUME SetupIsOldest ==
    Established # {} => Setup \in TransactionIds
                        /\ \A t \in TransactionIds : Setup <= t

VARIABLES
    objects,        \* account -> which of its objects is in the map; 0: none
    created,        \* account -> how many objects were ever allocated for it
    heap,           \* account -> allocated object -> its contents
    map_lock,       \* shard -> transaction whose abort holds the map; 0: free
    notifications,  \* shard -> transaction -> how many of its Notify handles
                    \*   were removed; the next one handed out has this number
    pc,             \* task -> its next critical section, or its outcome
    call,           \* task -> the call in progress
    ref,            \* task -> the object (Arc) it took from the map; 0: none
    wait,           \* task -> transaction it waits for, and its Notify handle
    scan,           \* task -> objects whose spawned per-object task is pending
    found           \* task -> what those per-object tasks have returned

\* History variables, read by the properties only.
VARIABLES
    ops,            \* transaction -> reads and balance changes begun
    seen,           \* transaction -> <<account, version>> pairs it has read
    acked,          \* transaction -> accounts it was told it has written
    credit,         \* transaction -> account -> sum of its acked changes
    versions        \* account -> transactions that committed the object

tasks == <<pc, call, ref, wait, scan, found>>
history == <<ops, seen, acked, credit, versions>>
vars == <<objects, created, heap, map_lock, notifications, tasks, history>>

Tasks == Shards \X TransactionIds
Incarnations == 1 .. MaxIncarnations

Ops == {"none", "read", "change", "check", "commit", "abort"}

Running == {"find", "read", "insert", "write", "snapshot", "scan",
            "subscribe", "held", "waiting", "notify"}
Outcomes == {"idle", "failed", "not_found", "ready", "committed", "aborted"}

NoCall == [op |-> "none", acct |-> NoAccount, amount |-> 0, value |-> 0]
NoWait == [on |-> 0, handle |-> 0]
Nothing == [bad |-> FALSE, waits |-> {}, reap |-> {}]

Calls == [op : Ops, acct : Accounts \cup {NoAccount}, amount : Amounts,
          value : Amounts]
Waits == [on : TransactionIds \cup {0}, handle : Nat]
Results == [bad : BOOLEAN, waits : SUBSET TransactionIds, reap : SUBSET Accounts]

StoreTypes ==
    /\ objects \in [Accounts -> 0 .. MaxIncarnations]
    /\ created \in [Accounts -> 0 .. MaxIncarnations]
    /\ heap \in [Accounts -> [Incarnations -> Objects]]
    /\ map_lock \in [Shards -> TransactionIds \cup {0}]
    /\ notifications \in [Shards -> [TransactionIds -> Nat]]

TaskTypes ==
    /\ pc \in [Tasks -> Running \cup Outcomes]
    /\ call \in [Tasks -> Calls]
    /\ ref \in [Tasks -> 0 .. MaxIncarnations]
    /\ wait \in [Tasks -> Waits]
    /\ scan \in [Tasks -> SUBSET (Accounts \X Incarnations)]
    /\ found \in [Tasks -> Results]

HistoryTypes ==
    /\ ops \in [TransactionIds -> 0 .. MaxOps]
    /\ seen \in [TransactionIds -> SUBSET (Accounts \X Timestamps)]
    /\ acked \in [TransactionIds -> SUBSET Accounts]
    /\ credit \in [TransactionIds -> [Accounts -> Int]]
    /\ versions \in [Accounts -> SUBSET TransactionIds]

TypeOK == StoreTypes /\ TaskTypes /\ HistoryTypes

-----------------------------------------------------------------------------
(* The accounts in Established were created by Setup, which has committed. *)

IsSetup(t) == Established # {} /\ t = Setup

OpenedObject == [DefaultObject EXCEPT !.value = Opening,
                                      !.committed_timestamp = Setup]

Init ==
    /\ objects = [a \in Accounts |-> IF a \in Established THEN 1 ELSE 0]
    /\ created = objects
    /\ heap = [a \in Accounts |-> [n \in Incarnations |->
                 IF a \in Established /\ n = 1 THEN OpenedObject
                                               ELSE DefaultObject]]
    /\ map_lock = [s \in Shards |-> 0]
    /\ notifications = [s \in Shards |-> [t \in TransactionIds |-> 0]]
    /\ pc = [k \in Tasks |-> IF IsSetup(k[2]) THEN "committed" ELSE "idle"]
    /\ call = [k \in Tasks |-> NoCall]
    /\ ref = [k \in Tasks |-> 0]
    /\ wait = [k \in Tasks |-> NoWait]
    /\ scan = [k \in Tasks |-> {}]
    /\ found = [k \in Tasks |-> Nothing]
    /\ ops = [t \in TransactionIds |-> 0]
    /\ seen = [t \in TransactionIds |-> {}]
    /\ acked = [t \in TransactionIds |-> IF IsSetup(t) THEN Established ELSE {}]
    /\ credit = [t \in TransactionIds |-> [a \in Accounts |->
                   IF IsSetup(t) /\ a \in Established THEN Opening ELSE 0]]
    /\ versions = [a \in Accounts |-> IF a \in Established THEN {Setup} ELSE {}]

-----------------------------------------------------------------------------
(* Helpers                                                                 *)

Goto(s, t, label) == pc' = [pc EXCEPT ![<<s, t>>] = label]

\* The call of (s, t) returns; the task ends with this outcome.
Return(s, t, outcome) ==
    /\ Goto(s, t, outcome)
    /\ call' = [call EXCEPT ![<<s, t>>] = NoCall]
    /\ ref' = [ref EXCEPT ![<<s, t>>] = 0]

MapUnlocked(s) == map_lock[s] = 0

\* The objects in the map of s, as the values() or iter() of the HashMap.
InMap(s) == {<<a, objects[a]>> : a \in {b \in Accounts : HomeOf[b] = s
                                                        /\ objects[b] # 0}}

\* A task that must wait for w: it has released its locks and knows w.
WaitFor(s, t, w) ==
    /\ Goto(s, t, "subscribe")
    /\ wait' = [wait EXCEPT ![<<s, t>>] = [on |-> w, handle |-> 0]]

\* The tasks of s that notify_waiters wakes on the current Notify of id:
\* those that have called notified() on that very handle.
Woken(s, id) ==
    {k \in Tasks : /\ k[1] = s
                   /\ pc[k] = "waiting"
                   /\ wait[k] = [on |-> id, handle |-> notifications[s][id]]}

\* A woken task goes round its loop again.
LoopHead(k) == IF call[k].op \in {"read", "change"} THEN "find" ELSE "snapshot"

\* notify_and_remove(t), after which the caller, task (s, t), returns.
NotifyAndRemove(s, t, outcome) ==
    /\ notifications' = [notifications EXCEPT ![s][t] = @ + 1]
    /\ pc' = [k \in Tasks |-> IF k = <<s, t>> THEN outcome
                              ELSE IF k \in Woken(s, t) THEN LoopHead(k)
                              ELSE pc[k]]
    /\ wait' = [k \in Tasks |-> IF k \in Woken(s, t) THEN NoWait ELSE wait[k]]
    /\ call' = [call EXCEPT ![<<s, t>>] = NoCall]
    /\ found' = [found EXCEPT ![<<s, t>>] = Nothing]

-----------------------------------------------------------------------------
(* The calls                                                               *)

Begin(s, t, label, c) ==
    /\ Goto(s, t, label)
    /\ call' = [call EXCEPT ![<<s, t>>] = c]
    /\ UNCHANGED <<objects, created, heap, map_lock, notifications, ref, wait,
                   scan, found, seen, acked, credit, versions>>

\* BALANCE a
BeginRead(s, t, a) ==
    /\ pc[<<s, t>>] = "idle"
    /\ HomeOf[a] = s
    /\ ops[t] < MaxOps
    /\ ops' = [ops EXCEPT ![t] = @ + 1]
    /\ Begin(s, t, "find", [NoCall EXCEPT !.op = "read", !.acct = a])

\* DEPOSIT a d or WITHDRAW a -d: a read followed by a write.
BeginChange(s, t, a, d) ==
    /\ pc[<<s, t>>] = "idle"
    /\ HomeOf[a] = s
    /\ ops[t] < MaxOps
    /\ ops' = [ops EXCEPT ![t] = @ + 1]
    /\ Begin(s, t, "find",
             [NoCall EXCEPT !.op = "change", !.acct = a, !.amount = d])

\* The first phase of COMMIT
BeginCheck(s, t) ==
    /\ pc[<<s, t>>] = "idle"
    /\ Begin(s, t, "snapshot", [NoCall EXCEPT !.op = "check"])
    /\ UNCHANGED ops

\* The second phase, if every shard was ready
BeginCommit(s, t) ==
    /\ pc[<<s, t>>] = "ready"
    /\ Begin(s, t, "snapshot", [NoCall EXCEPT !.op = "commit"])
    /\ UNCHANGED ops

\* ABORT, a failed call, or a failed check here or on another shard
BeginAbort(s, t) ==
    /\ pc[<<s, t>>] \in {"idle", "failed", "not_found", "ready"}
    /\ Begin(s, t, "snapshot", [NoCall EXCEPT !.op = "abort"])
    /\ UNCHANGED ops

-----------------------------------------------------------------------------
(* Shard::read, which is also the first half of a balance change           *)

\* get_object.  A balance change goes on to create a missing account.
FindObject(s, t) ==
    LET a == call[<<s, t>>].acct IN
    /\ pc[<<s, t>>] = "find"
    /\ MapUnlocked(s)
    /\ \/ /\ objects[a] # 0
          /\ ref' = [ref EXCEPT ![<<s, t>>] = objects[a]]
          /\ Goto(s, t, "read")
          /\ UNCHANGED <<call, seen>>
       \/ /\ objects[a] = 0
          /\ call[<<s, t>>].op = "read"
          /\ Return(s, t, "not_found")
          /\ UNCHANGED seen
       \/ /\ objects[a] = 0
          /\ call[<<s, t>>].op = "change"
          /\ call' = [call EXCEPT ![<<s, t>>].value = call[<<s, t>>].amount]
          /\ seen' = [seen EXCEPT ![t] = @ \cup {<<a, Default>>}]
          /\ Goto(s, t, "insert")
          /\ UNCHANGED ref
    /\ UNCHANGED <<objects, created, heap, map_lock, notifications, wait, scan,
                   found, ops, acked, credit, versions>>

\* TimestampedObject::read under the object's lock
ReadObject(s, t) ==
    LET a == call[<<s, t>>].acct
        o == heap[a][ref[<<s, t>>]]
    IN
    /\ pc[<<s, t>>] = "read"
    /\ \/ /\ ReadOk(o, t)
          /\ heap' = [heap EXCEPT ![a][ref[<<s, t>>]] = AfterRead(o, t)]
          /\ seen' = IF t \in Writers(o) THEN seen
                     ELSE [seen EXCEPT ![t] = @ \cup {<<a, o.committed_timestamp>>}]
          /\ \/ call[<<s, t>>].op = "read" /\ Return(s, t, "idle")
             \/ /\ call[<<s, t>>].op = "change"
                /\ call' = [call EXCEPT ![<<s, t>>].value =
                              Add(ReadValue(o, t), call[<<s, t>>].amount)]
                /\ Goto(s, t, "insert")
                /\ ref' = [ref EXCEPT ![<<s, t>>] = 0]
          /\ UNCHANGED wait
       \/ /\ ReadTooLate(o, t) \/ ReadNotFound(o, t)
          /\ Return(s, t, "failed")
          /\ UNCHANGED <<heap, seen, wait>>
       \/ /\ \E w \in Writers(o) : ReadWaitsFor(o, t, w) /\ WaitFor(s, t, w)
          /\ ref' = [ref EXCEPT ![<<s, t>>] = 0]
          /\ UNCHANGED <<heap, seen, call>>
    /\ UNCHANGED <<objects, created, map_lock, notifications, scan, found, ops,
                   acked, credit, versions>>

-----------------------------------------------------------------------------
(* get_notification(w).await.notified().await                              *)

\* The notifications map hands out the Notify of w.
GetNotification(s, t) ==
    /\ pc[<<s, t>>] = "subscribe"
    /\ wait' = [wait EXCEPT ![<<s, t>>].handle = notifications[s][wait[<<s, t>>].on]]
    /\ Goto(s, t, "held")
    /\ UNCHANGED <<objects, created, heap, map_lock, notifications, call, ref,
                   scan, found, history>>

\* notified() on the handle: from here on notify_waiters reaches the task,
\* if it has not been called on this handle already.
Notified(s, t) ==
    /\ pc[<<s, t>>] = "held"
    /\ Goto(s, t, "waiting")
    /\ UNCHANGED <<objects, created, heap, map_lock, notifications, call, ref,
                   wait, scan, found, history>>

-----------------------------------------------------------------------------
(* Shard::write, the second half of a balance change                       *)

\* get_object_or_insert_if_valid
InsertObject(s, t) ==
    LET a == call[<<s, t>>].acct IN
    /\ pc[<<s, t>>] = "insert"
    /\ MapUnlocked(s)
    /\ \/ /\ objects[a] # 0
          /\ ref' = [ref EXCEPT ![<<s, t>>] = objects[a]]
          /\ Goto(s, t, "write")
          /\ UNCHANGED <<objects, created, call>>
       \/ /\ objects[a] = 0
          /\ Check(call[<<s, t>>].value)
          /\ created[a] < MaxIncarnations
          /\ created' = [created EXCEPT ![a] = @ + 1]
          /\ objects' = [objects EXCEPT ![a] = created[a] + 1]
          /\ ref' = [ref EXCEPT ![<<s, t>>] = created[a] + 1]
          /\ Goto(s, t, "write")
          /\ UNCHANGED call
       \/ /\ objects[a] = 0
          /\ ~Check(call[<<s, t>>].value)
          /\ Return(s, t, "not_found")
          /\ UNCHANGED <<objects, created>>
    /\ UNCHANGED <<heap, map_lock, notifications, wait, scan, found, history>>

\* TimestampedObject::write under the object's lock
WriteObject(s, t) ==
    LET a == call[<<s, t>>].acct
        o == heap[a][ref[<<s, t>>]]
    IN
    /\ pc[<<s, t>>] = "write"
    /\ \/ /\ WriteOk(o, t)
          /\ heap' = [heap EXCEPT ![a][ref[<<s, t>>]] =
                        AfterWrite(o, t, call[<<s, t>>].value)]
          /\ acked' = [acked EXCEPT ![t] = @ \cup {a}]
          /\ credit' = [credit EXCEPT ![t][a] = @ + call[<<s, t>>].amount]
          /\ Return(s, t, "idle")
       \/ /\ ~WriteOk(o, t)
          /\ Return(s, t, "failed")
          /\ UNCHANGED <<heap, acked, credit>>
    /\ UNCHANGED <<objects, created, map_lock, notifications, wait, scan, found,
                   ops, seen, versions>>

-----------------------------------------------------------------------------
(* Shard::check_commit and Shard::commit: spawn one task per object in the *)
(* map, join them all, look at the results in no particular order.         *)

Snapshot(s, t) ==
    /\ pc[<<s, t>>] = "snapshot"
    /\ call[<<s, t>>].op \in {"check", "commit"}
    /\ MapUnlocked(s)
    /\ scan' = [scan EXCEPT ![<<s, t>>] = InMap(s)]
    /\ found' = [found EXCEPT ![<<s, t>>] = Nothing]
    /\ Goto(s, t, "scan")
    /\ UNCHANGED <<objects, created, heap, map_lock, notifications, call, ref,
                   wait, history>>

\* What check_commit of object o adds to the results.
CheckResult(r, o, t) ==
    [r EXCEPT !.bad = @ \/ CommitInconsistent(o, t),
              !.waits = @ \cup {w \in Writers(o) : CommitWaitsFor(o, t, w)}]

CheckObject(s, t) ==
    /\ pc[<<s, t>>] = "scan"
    /\ call[<<s, t>>].op = "check"
    /\ \E x \in scan[<<s, t>>] :
          /\ scan' = [scan EXCEPT ![<<s, t>>] = @ \ {x}]
          /\ found' = [found EXCEPT ![<<s, t>>] =
                         CheckResult(@, heap[x[1]][x[2]], t)]
    /\ UNCHANGED <<objects, created, heap, map_lock, notifications, pc, call,
                   ref, wait, history>>

CommitObject(s, t) ==
    /\ pc[<<s, t>>] = "scan"
    /\ call[<<s, t>>].op = "commit"
    /\ \E x \in scan[<<s, t>>] :
          LET a == x[1]
              o == heap[a][x[2]]
          IN
          /\ scan' = [scan EXCEPT ![<<s, t>>] = @ \ {x}]
          /\ found' = [found EXCEPT ![<<s, t>>] = CheckResult(@, o, t)]
          /\ heap' = [heap EXCEPT ![a][x[2]] = AfterCommit(o, t)]
          /\ versions' = IF CommitValue(o, t) /\ objects[a] = x[2]
                         THEN [versions EXCEPT ![a] = @ \cup {t}]
                         ELSE versions
    /\ UNCHANGED <<objects, created, map_lock, notifications, pc, call, ref,
                   wait, ops, seen, acked, credit>>

\* Any one of several errors may come first in the joined results.
JoinCheck(s, t) ==
    /\ pc[<<s, t>>] = "scan"
    /\ call[<<s, t>>].op = "check"
    /\ scan[<<s, t>>] = {}
    /\ \/ /\ found[<<s, t>>].bad
          /\ Return(s, t, "failed")
          /\ UNCHANGED wait
       \/ /\ \E w \in found[<<s, t>>].waits : WaitFor(s, t, w)
          /\ UNCHANGED <<call, ref>>
       \/ /\ ~found[<<s, t>>].bad /\ found[<<s, t>>].waits = {}
          /\ Return(s, t, "ready")
          /\ UNCHANGED wait
    /\ found' = [found EXCEPT ![<<s, t>>] = Nothing]
    /\ UNCHANGED <<objects, created, heap, map_lock, notifications, scan, history>>

\* Waiting again is what the code logs as SHOULD NOT BE HERE.
JoinCommit(s, t) ==
    /\ pc[<<s, t>>] = "scan"
    /\ call[<<s, t>>].op = "commit"
    /\ scan[<<s, t>>] = {}
    /\ \/ /\ \E w \in found[<<s, t>>].waits : WaitFor(s, t, w)
          /\ found' = [found EXCEPT ![<<s, t>>] = Nothing]
          /\ UNCHANGED <<notifications, call>>
       \/ /\ found[<<s, t>>].bad \/ found[<<s, t>>].waits = {}
          /\ NotifyAndRemove(s, t, IF found[<<s, t>>].bad THEN "failed"
                                                      ELSE "committed")
    /\ UNCHANGED <<objects, created, heap, map_lock, ref, scan, history>>

-----------------------------------------------------------------------------
(* Shard::abort: the map stays locked until the reap is done               *)

LockForAbort(s, t) ==
    /\ pc[<<s, t>>] = "snapshot"
    /\ call[<<s, t>>].op = "abort"
    /\ MapUnlocked(s)
    /\ map_lock' = [map_lock EXCEPT ![s] = t]
    /\ scan' = [scan EXCEPT ![<<s, t>>] = InMap(s)]
    /\ Goto(s, t, "scan")
    /\ UNCHANGED <<objects, created, heap, notifications, call, ref, wait,
                   found, history>>

AbortObject(s, t) ==
    /\ pc[<<s, t>>] = "scan"
    /\ call[<<s, t>>].op = "abort"
    /\ \E x \in scan[<<s, t>>] :
          LET o == AfterAbort(heap[x[1]][x[2]], t) IN
          /\ scan' = [scan EXCEPT ![<<s, t>>] = @ \ {x}]
          /\ heap' = [heap EXCEPT ![x[1]][x[2]] = o]
          /\ found' = [found EXCEPT ![<<s, t>>].reap =
                         IF CanReap(o, t) THEN @ \cup {x[1]} ELSE @]
    /\ UNCHANGED <<objects, created, map_lock, notifications, pc, call, ref,
                   wait, history>>

Reap(s, t) ==
    /\ pc[<<s, t>>] = "scan"
    /\ call[<<s, t>>].op = "abort"
    /\ scan[<<s, t>>] = {}
    /\ objects' = [a \in Accounts |-> IF a \in found[<<s, t>>].reap THEN 0
                                                                ELSE objects[a]]
    /\ map_lock' = [map_lock EXCEPT ![s] = 0]
    /\ found' = [found EXCEPT ![<<s, t>>] = Nothing]
    /\ Goto(s, t, "notify")
    /\ UNCHANGED <<created, heap, notifications, call, ref, wait, scan, history>>

NotifyAbort(s, t) ==
    /\ pc[<<s, t>>] = "notify"
    /\ NotifyAndRemove(s, t, "aborted")
    /\ UNCHANGED <<objects, created, heap, map_lock, ref, scan, history>>

-----------------------------------------------------------------------------
(* The specification                                                       *)

TaskStep(s, t) ==
    \/ FindObject(s, t) \/ ReadObject(s, t)
    \/ GetNotification(s, t) \/ Notified(s, t)
    \/ InsertObject(s, t) \/ WriteObject(s, t)
    \/ Snapshot(s, t)
    \/ CheckObject(s, t) \/ JoinCheck(s, t)
    \/ CommitObject(s, t) \/ JoinCommit(s, t)
    \/ LockForAbort(s, t) \/ AbortObject(s, t) \/ Reap(s, t) \/ NotifyAbort(s, t)

\* A client ends its transaction: COMMIT or ABORT, and what follows from it.
Finish(s, t) == BeginCheck(s, t) \/ BeginCommit(s, t) \/ BeginAbort(s, t)

Call(s, t) ==
    \/ \E a \in Accounts : BeginRead(s, t, a)
    \/ \E a \in Accounts, d \in Diffs : BeginChange(s, t, a, d)
    \/ Finish(s, t)

\* No task has anything left to do.
Quiescent ==
    /\ \A k \in Tasks : pc[k] \in {"committed", "aborted", "waiting"}
    /\ UNCHANGED vars

Next ==
    \/ \E s \in Shards, t \in TransactionIds : TaskStep(s, t) \/ Call(s, t)
    \/ Quiescent

Spec == Init /\ [][Next]_vars

\* The runtime polls tasks that can run, and clients end their transactions:
\* tx-client sends Abort when its input ends.  It is enough to assume that
\* something happens while something can, since no behaviour is infinite:
\* every wake-up takes the end of a transaction.
FairSpec ==
    /\ Spec
    /\ WF_vars(\E s \in Shards, t \in TransactionIds : TaskStep(s, t) \/ Finish(s, t))

-----------------------------------------------------------------------------
(* Safety                                                                  *)

Resolved(s, t) == pc[<<s, t>>] \in {"committed", "aborted"}
Aborting(s, t) == call[<<s, t>>].op = "abort" \/ pc[<<s, t>>] = "aborted"

\* Transactions become visible in timestamp order: whoever still has a
\* tentative write on an object is newer than its committed version, so
\* commit (object.rs) can only ever move the object forward.
TentativeAboveCommitted ==
    \A a \in Accounts, n \in Incarnations :
        \A w \in Writers(heap[a][n]) : w > heap[a][n].committed_timestamp

\* commit, the only writer of committed_timestamp, never installs an older
\* version over a newer one.
CommittedTimestampsOnlyGrow ==
    [][\A a \in Accounts, n \in Incarnations :
          heap'[a][n].committed_timestamp >= heap[a][n].committed_timestamp]_vars

\* The read and write rules (object.rs read, write) protect every read of a
\* committed version: unless the reader aborts, no version between the one
\* it read and the reader's own timestamp is committed, before or after.
ReadsStayValid ==
    \A t \in TransactionIds : \A r \in seen[t] :
        (r[2] # Default /\ ~Aborting(HomeOf[r[1]], t))
            => /\ r[2] \in versions[r[1]]
               /\ \A u \in versions[r[1]] : u <= r[2] \/ u >= t

\* The same for every read, the balance change of a missing account included
\* (its base is the balance 0 of an account nobody has created): committed
\* transactions are serializable in timestamp order.
Serializable ==
    \A t \in TransactionIds : \A r \in seen[t] :
        pc[<<HomeOf[r[1]], t>>] = "committed"
            => \A u \in versions[r[1]] : u <= r[2] \/ u >= t

\* Every balance change that the client was told succeeded is committed by
\* the object in the map once Shard::commit returns.
CommittedWritesInstalled ==
    \A t \in TransactionIds : \A a \in acked[t] :
        pc[<<HomeOf[a], t>>] = "committed" => t \in versions[a]

\* check_commit keeps its word: Shard::commit finds no conflict and no failing
\* check that the vote had not seen, whoever ran in between.  Its two other
\* branches are those the code logs as SHOULD NOT BE HERE.
PreparedCommits ==
    \A k \in Tasks : call[k].op = "commit" =>
        /\ pc[k] \notin {"subscribe", "held", "waiting"}
        /\ ~found[k].bad

\* Once a transaction is resolved on a shard none of its tentative writes is
\* left in the map, and if it aborted, none of its read timestamps either:
\* abort and commit visit every object the transaction can have touched.
ResolvedLeavesNothing ==
    \A a \in Accounts, t \in TransactionIds :
        LET o == heap[a][objects[a]] IN
        (objects[a] # 0 /\ Resolved(HomeOf[a], t)) =>
            /\ t \notin Writers(o)
            /\ pc[<<HomeOf[a], t>>] = "aborted" => t \notin o.read_timestamps

\* The reap of an abort (shard.rs abort) never removes a committed account,
\* although it acts on can_reap answers collected earlier.
ReapKeepsCommitted ==
    [][\A a \in Accounts :
          (objects[a] # 0 /\ objects'[a] = 0)
              => heap[a][objects[a]].committed_timestamp = Default]_vars

\* On an account that has been committed before, a balance change registers
\* its read before it writes, and the write rule then admits one tentative
\* write at a time: nobody ever waits for a commit lock.
SingleWriter ==
    \A a \in Established : \A v, w \in Writers(heap[a][1]) : v = w

\* A task waits for an older transaction only, whatever happened between its
\* look at the object and its wait (README: older transactions never wait on
\* newer ones), so waiting tasks never form a cycle.
WaitsForOlder ==
    \A k \in Tasks : pc[k] \in {"subscribe", "held", "waiting"}
                        => wait[k].on < k[2]

-----------------------------------------------------------------------------
(* Liveness                                                                *)

\* A waiter nobody will wake, although nothing is in its way any more: the
\* transaction was resolved before the task had called notified() on the
\* handle that notify_and_remove removed.
Stranded(k) ==
    /\ pc[k] = "waiting"
    /\ Resolved(k[1], wait[k].on)
    /\ \A x \in InMap(k[1]) : wait[k].on \notin Writers(heap[x[1]][x[2]])

\* Every transaction resolves: timestamp ordering leaves no deadlock.
EveryTransactionResolves == <>(\A k \in Tasks : Resolved(k[1], k[2]))

\* A lost wake-up is the only thing that can keep a transaction from ending.
ResolvesUnlessStranded ==
    <>((\A k \in Tasks : Resolved(k[1], k[2])) \/ (\E k \in Tasks : Stranded(k)))

\* The oldest transaction waits for nobody and always ends.
OldestResolves ==
    \A t \in TransactionIds : (\A u \in TransactionIds : t <= u)
        => <>(\A s \in Shards : Resolved(s, t))
=============================================================================
