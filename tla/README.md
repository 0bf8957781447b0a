# A TLA+ model of sharded distributed transactions

The program (`src/`, Rust) is a bank spread over a handful of servers. Each
server owns the accounts whose name starts with its letter and also coordinates
the transactions of the clients that connect to it. Concurrency control is
optimistic timestamp ordering per account; transactions that touch several
servers end with a two-phase commit.

This directory models the program from the start of its servers to the last
response to a client: whether balances are right, whether every client gets an
answer, whether the servers find each other and stop together. TLC checks the
models on small instances; TLAPS proves most safety properties for any number of
servers, clients, accounts and messages.

## The system

| Part | Source | State | Operations | Talks to |
|---|---|---|---|---|
| timestamped object | `tx-server/src/sharding/object.rs`, balance check in `lib.rs` | value, committed timestamp, read timestamps, tentative writes | `read`, `write`, `check_commit`, `commit`, `can_reap`, `abort` | the shard, under the object's mutex |
| shard | `tx-server/src/sharding/shard.rs` | map of objects behind a mutex, map of `Notify` handles behind another | `read`, `write`, `check_commit`, `commit`, `abort`, each an async function run by a task of its own | handlers and request tasks; its own spawned per-object tasks |
| transaction ids | `tx-server/src/sharding/transaction_id.rs` | last clock reading, count since | `next` | the server loop, once per client |
| client handler | `tx-server/src/coordinator/client.rs` | position in the request, abort count, channel `forward_rcv` | the four requests, `do_abort`, `do_commit` | the client, the local shard, the server loop |
| server loop | `tx-server/src/coordinator/mod.rs`, `protocol.rs` | `clients` with vote count and status, channels | `accept`, `handle_client_state`, `handle_remote_request`, `handle_two_phase_commit`, `handle_server_state` | handlers, peers |
| connection pool | `tx-server/src/pool/` | group of peers, one member loop each | connect, accept, handshake, timeout; send, receive, disconnect | peers over TCP |
| command line client | `tx-client/src/main.rs` | one request at a time | read a line, send, await the response | one server |
| message framing, configuration | `tx-common/src/` | none that changes | encode, decode, parse | everybody |

What makes it hard:

* every `.await` in the shard is a point where all other tasks may run: what a
  task saw under the map's lock or an object's lock may be stale when it acts;
* an account that was never committed can be removed (reaped) by an abort while
  other tasks still hold a reference to its object;
* a task that must wait gives up its locks first and subscribes to the
  notification afterwards;
* `check_commit` and `commit` visit a snapshot of the map with one spawned task
  per object and take the results in no particular order;
* one channel carries every kind of answer to a handler, and the loop ends the
  process when an answer finds no handler;
* during start-up whoever connects is taken for a server, afterwards for a client,
  and servers may crash, come back and dial again at any moment;
* a member loop that sends does not receive, over streams with bounded buffers;
* timestamps come from a clock that ties and can be set back;
* balances are `i64` and wrap in the release build the `Makefile` makes; the models wrap
  likewise, and nothing in the code, or in the properties, speaks against a balance that
  wrapped and passes the check.

`PROJECT.json` lists each of these hazards at its line.

## Modules

| Module | Models | How |
|---|---|---|
| `TimestampedObject` | one object | pure operators: when each method succeeds or fails (`ReadOk`, `ReadWaitsFor`, `WriteOk`, `CommitWaitsFor`, `CanReap` ...) and the object it leaves (`AfterRead`, `AfterWrite` ...). `Add` is addition that wraps at `Half`, which stands for 2^63. |
| `Shard` | all shards | a task is a pair of a shard and a transaction, because a coordinator has one call of a transaction on a shard at a time (`CallsDoNotOverlap`; theorem `ServersCallInOrder`). An action is what a task does between two awaits. |
| `TransactionId` | the generator of one coordinator | one action per call, for any clock reading |
| `Coordinator` | servers on top of `Shard` | extends `Shard`; handlers, loops and FIFO queues drive the calls that `Shard` alone lets happen in any order |
| `Pool` | starting, connecting, losing and restarting servers; early clients | one process per start of a server, one connection per dial, a stage for each of its two ends |
| `Link` | the stream between two connected servers | the hops of a message: channel, send, buffers, receive, channel |
| `AtomicCommit` | | abstract: what two-phase commit promises. `Coordinator` implements it (`ImplementsAtomicCommit`) |
| `Channel` | | abstract: FIFO queues between servers. `Link` implements it (`ImplementsChannel`), `Coordinator` relies on it (`net`) |
| `ShardProofs`, `SerialProofs` | | the theorems about `Shard`; the second has those that lead to serializability |
| `TwoPhaseCommitProofs`, `CoordinatorProofs` | | the theorems about `Coordinator`: the invariant of the servers with its steps, then the whole system |
| `LinkProofs`, `PoolProofs`, `TransactionIdProofs`, `AtomicCommitProofs` | | the theorems about the module each is named after |
| `MCShard`, `MCCoordinator`, `MCTransactionId`, `MCPool`, `MCLink` | | small instances for TLC |

### State and actions of `Shard`

`objects` says which object, if any, is in the map for an account, and `heap`
holds every object ever allocated, also the ones no longer in the map: a task
that took an `Arc` before the account was reaped goes on using it through `ref`.
`created` counts them. `map_lock` is only ever seen taken by an abort, the one
operation that holds the map across an await; every other critical section of
the map is a single action guarded by `MapUnlocked`. `notifications` counts the
`Notify` handles of a transaction that were removed; a task holds the number of
the handle it was given, and `notify_waiters` wakes the tasks that called
`notified()` on the current one.

A read is `FindObject`, `ReadObject`; a balance change goes on with
`InsertObject`, `WriteObject`; waiting is `GetNotification`, `Notified`, and
the wake-up is part of the action of the task that resolves (`NotifyAndRemove`).
`check_commit` is `Snapshot`, one `CheckObject` per object in any order,
`JoinCheck`; `commit` the same with `CommitObject`, `JoinCommit`; `abort` is
`LockForAbort`, `AbortObject` per object, `Reap`, `NotifyAbort`. The history
variables `seen`, `acked`, `credit`, `versions` and `ops` record what was read,
acknowledged and committed; only properties (and the bound `MaxOps`) look at them.

Left out of `write`: the branches for `WaitFor` and `AbortedNotFound`, which
`TimestampedObject::write` never returns. Left out of `commit`: the list of
balances, which is only printed.

### State and actions of `Coordinator`

`handler` is where `Client::handle` stands for a transaction, `forward_rcv` and
`from_clients` are the two unbounded channels between handlers and loop, `net`
the stream between each pair of servers, `clients` the entry in
`Server::clients` (`open`, `commit_count`, `commit_status`), and `remote` what a
task of a shard was asked by a peer that awaits the answer. `Request`,
`LocalResponse`, `RemoteResponse`, `NoSuchShard` are the balance requests;
`AbortRequest`, `BroadcastAbort`, `CountAck`, `AbortDone` are `do_abort`;
`CommitRequest`, `LocalVote`, `Decision`, `CommitDone` are
`handle_commit_request`; `Accept`, `HandleClientState`, `HandleRemoteRequest`,
`HandleResponse`, `HandleVote`, `HandleDoCommit` are the arms of the loop;
`Answer` is the end of a spawned request task. A handler whose client leaves
simply finishes (`Disconnect`), as the code does. `Decision` has the branch for a response
that is no decision, which passes it on; `NoStrayResponse` shows that it is never taken.

The servers are connected and stay up: how they get there, and that a lost peer
ends the process, is in `Pool`; that the streams are queues is in `Link`.

For `AtomicCommit` the part of a transaction on a shard is `committed` from the
moment `Shard::commit` starts, `aborted` from the moment `Shard::abort` starts,
`prepared` after a vote for and `refused` after a failed call or a vote against
(`Part`); the client is told when the handler sends its final response (`Told`).

### State and actions of `Pool`

A process is a server and the number of its start. `end` has the stage of each
connection at either end; a process that ends closes its ends, and the other side
reads end-of-file. `group` is the `ServerGroup` a process builds, `from_members`
the members whose loop has queued `Disconnected`. `Start` binds the listener;
`Connect` is `connect_to_node`, handshake included; `Accept`, `HandshakeArrives`
and `AdmitDialed` are the two arms of `connect_inner` with `admit_member`, which
replaces an earlier handle of the same member and, when the pool is complete, drops
the streams nobody has admitted yet; `Timeout` is the time limit. `AcceptClient` and
`EndSession` are what `serve` does with a stream, `MemberLoopEnds` and
`HandleDisconnected` the loss of a peer. `Begin`, `Ask`, `Respond`, `ResponseLost`
and `Quit` are the command line client, `NoSuchPeer` the panic of `pass_message` when
the server asked for is not in the group; `Crash` and `Quit` may happen at any time.

A message is not distinguished from its decoding, except where the program does
confuse two types: bincode takes the first byte of a client's request, which gives its
kind, for the character of a `Handshake`, so an early client becomes a member under an
id no server has, while a `Handshake` never decodes as a `ClientRequest`. Two early
clients whose first requests are of one kind (`FirstRequest`) share an id, and the
second replaces the first. What the server then broadcasts to such a client, and what
the client makes of it, is left out. A final response needs an answer of every server,
so a server that counted a client instead of one never gives it (`HasAllPeers`); whether
it gives another depends on the account and is left open.

### State and actions of `Link`

`to_client`, `sending`, `wire` and `from_members` are the places a message passes,
in that order; `wire` holds at most `Cap` messages. `TakeNext`, `SendDone` and `Recv`
are `member_loop`, which chooses between its arms only while it sends nothing.
`Ask`, `Answer` and `HandleServerState` are the traffic of the server loops, with the
contents of the messages left out. `Answer` may never happen: the task may wait in the
shard for ever.

## Runs

`tlc -workers 2 -config <cfg> <module>`

| Run | Instance | Shows |
|---|---|---|
| `ShardFresh` | one shard, one account that does not exist yet, 3 transactions of one read or deposit, up to 3 objects, balances that wrap (a second deposit does not fit), fairness | types; versions move forward (`TentativeAboveCommitted`, `CommittedTimestampsOnlyGrow`); reads of committed versions are never invalidated (`ReadsStayValid`); a resolved transaction leaves nothing in the map; a committed account is never reaped; waits go to older transactions only; only a lost wake-up keeps a transaction from ending, and the oldest always ends |
| `ShardEstablished` | two accounts of one shard, committed by transaction 1; 2 more transactions of 2 operations | serializable, no lost update, every acknowledged write installed, at most one tentative writer, and `commit` always does what `check_commit` promised |
| `TransactionIdCoarse` | 5 clock readings more than 3 apart, up to 3 ids per reading | ids increase strictly, and follow the rule the README of the program gives |
| `CoordinatorVotes` | 3 servers, 2 coordinators, 2 transactions that deposit to or withdraw from an empty account | two-phase commit is atomic; the client is told what happened |
| `CoordinatorTransfers` | 2 servers, 2 accounts, 2 transactions of 2 operations | calls of a transaction never overlap on a shard; no answer is taken for another; serializable across servers |
| `CoordinatorFresh` | 2 servers, accounts that do not exist yet, a client that may leave, balances that wrap, fairness | types; no answer finds its handler gone; the servers implement `AtomicCommit`; every client that stays gets its final response, unless a wake-up was lost or it waits for the writes of the client that left |
| `Pool` | 3 servers, one of which may be started twice, and 2 clients that may connect at any time; any 2 of: a crash, a restart, a client | the dialing order lets the servers find each other; two that serve use the same stream; in the end a server that serves has all others beside it, and every client that asked has a handler or an end-of-file, except on a server that counted a client as a member |
| `Link` | 2 servers, 4 clients, room for 1 message each way, 5 requests | the stream and its loops implement `Channel`; a client has one message between two servers at a time; the loops block each other only when more than `2 * Cap + 1` clients are at work; otherwise every message arrives, so that a handler waits for a task and never for the network |

Four runs show where the code and what is written about it disagree; TLC's
counterexample is the scenario.

| Run | What happens |
|---|---|
| `ShardLostWakeup` | T2 sees T1's tentative write and must wait; before it has subscribed, T1 commits and notifies nobody; T2 waits on a handle that will never be triggered |
| `ShardLostUpdate` | two deposits both find the account missing; neither registers a read; both write and commit, and one amount is lost |
| `ShardReapedWrite` | T1 takes the object from the map, T2's abort reaps it, T1 writes the orphan, is told OK, commits, and nothing is installed |
| `TransactionIdFine` | several ids from one reading, then a clock that advanced by less than their number: an id is repeated |

Three smaller ones need no run. On an account that was never committed an older
transaction may write after a newer one passed `check_commit`, so the newer's
`commit` can reach the branch logged as `SHOULD NOT BE HERE` (`PreparedCommits`
holds on established accounts). And `handle_two_phase_commit` tells the handler
of a refusal only when every vote is in, where the program's README says that one
is enough. The README also says that the nodes join within 60 seconds or the
executable exits; a client that connects before the pool is complete and sends a
request is counted as one of them, and the pool completes without a server
(`TookClient` in `Pool`). The server left out is taken for a client when it dials, and
exits; so do those it had reached. But a server whose group clients have filled, two of
them in a configuration of three servers, serves on alone: what it is asked about the
accounts of the others ends it (`NoSuchPeer`), and a commit or an abort waits for ever.
`NobodyLeftBehind` and `ClientsHearBack` except such a server.

`ShardFresh` keeps to the properties that survive these; `ShardEstablished`
shows that the others hold on an account once it has been committed.

### Bounds

`MaxOps` bounds the reads and changes of a transaction, `MaxIncarnations` the
objects allocated for one account, `MaxBurst` the ids drawn from one clock
reading. In every run with deadlock checking `MaxIncarnations` is large enough never to
block `InsertObject` (a state in which it did would be reported as a deadlock).
Three transactions give a committed version, an older and a newer competitor, and
chains of waits; every ordering rule compares at most those. Three servers
are needed for a refusal to be followed by another vote. `ShardEstablished` has
two accounts on one shard, so that the tasks `check_commit` and `commit` spawn for the
objects end in either order; `CoordinatorTransfers` has two on two servers. The runs
with fresh accounts have one per shard: objects only meet through the transaction's own
outcome, and what is proved holds for any accounts.

`Pool` bounds what disturbs the servers: crashes, restarts and clients together by
`MaxEvents`; timeouts are not bounded. Two events give a crash with a restart, a
restart with an early client, a crash after a client was taken for a member, and two
early clients, whose first requests are of two kinds so that they fill a group. Three
servers are the least with one that only dials, one that only listens and one that does
both, and with a pool that a client completes while a server is missing. The last
server of the list is the one that restarts, since it dials everybody. The clients are
numbered in the order of their BEGINs (`Arrivals`); of the servers a client may choose
(`Choices`, all of them in the code) the instance keeps the one that only listens and the
one that only dials for the first client, and the former for the second. `Link` needs
`2 * (Cap + 1)` clients for the loops to block each other, and one more request than
clients for a client to ask twice.

### Fairness

The tokio runtime polls every task that was woken, no lock is held by a task that
waits, `select!` picks its ready arms at random, TCP delivers while the servers are up,
and a client ends its transaction, since it sends Abort when its input ends. The models
need much less than fairness to each task: in all of them a transaction, a message or a
start of a server takes finitely many steps, so `FairSpec`, `CoordinatorFairSpec` and
the `Spec` of `Link` only assume that some step is taken while one is possible, each a
single weak fairness condition on the system's own steps. Nothing is assumed of a client
that leaves, and in `Link` nothing of when clients ask and of whether tasks answer.

`Pool` has no fairness. Its steps go one way too (`AtRest`), so what must happen in the
end is stated of the states in which the servers have nothing left to do.

## Proofs

`tlapm <module>` for the eight modules named `...Proofs`; `TwoPhaseCommitProofs` takes
about half an hour and is best run on an idle machine, the others take minutes.

The theorems hold for every value of the constants that the named `ASSUME`s allow: any
sets of servers, accounts, transactions and clients, any buffers, any bounds. TLC found
no violation of the inductive invariants on the instances above.

### Shards (`ShardProofs`, `SerialProofs`)

| Theorem | States | Rests on |
|---|---|---|
| `TypeCorrect` | `TypeOK` | `TInv == TypeOK /\ Shape`: the types say nothing of whether a task at `ReadObject` has a reference, `Shape` says what a task holds at each program counter |
| `TentativeStaysAbove`, `CommittedTimestampsGrow` | `TentativeAboveCommitted`, `CommittedTimestampsOnlyGrow` | `Advances(o, p)`: what any method may do to the order of an object's timestamps (`MethodsAdvance`), lifted to every object, reaped ones too (`StepAdvances`) |
| `WaitsAreForOlder` | `WaitsForOlder` | `Base`: what a task knows of what it saw before it waits (`Knows`), and that the map's lock is held by the abort that sweeps |
| `ResolvedIsClean` | `ResolvedLeavesNothing` | `Swept`: a task that resolves has, of every object in the map, either the visit ahead or nothing left on it, although accounts are inserted and reaped during the sweep |
| `ReapSparesCommitted` | `ReapKeepsCommitted` | `Marked`: what `can_reap` said earlier stays true until the map is unlocked, since whoever writes to the object meanwhile cannot commit it |
| `ReadsAreValid` | `ReadsStayValid` | `Valid`: a read of a committed version stays registered on the object in the map until the reader aborts; `Recorded`: the recorded versions are those of the objects |
| `OnlyOneWriter` | `SingleWriter` | `Settled`: on an account that was committed before, who writes has a registered read, so that the write rule admits one tentative write |
| `VotesAreKept` | `PreparedCommits` | `AllVoted`, `AllSound`, `AllStraight`: what a vote has seen does not change before the commit |
| `ChangesAreInstalled` | `CommittedWritesInstalled` | `AllLasting`: a change that was acknowledged is tentative or committed until its transaction aborts |
| `TransactionsSerialize` | `Serializable` | `ReadsVersions` and `ReadsStayValid` |

The last three assume `Established = Accounts`: without it TLC
finds each of them violated on the instance of `ShardFresh`, in scenarios like those of
`ShardLostUpdate` and `ShardReapedWrite`. `OnlyOneWriter` speaks of the established
accounts, others may exist beside them; the theorems above it have no such hypothesis.

### Servers (`TwoPhaseCommitProofs`, `CoordinatorProofs`)

| Theorem | States |
|---|---|
| `ServersCallInOrder` | `CoordinatorSpec => Spec`: the servers call a shard only as `Shard` lets its callers. Every theorem about `Shard` is so one about the whole system |
| `SystemSerializes` | `Serializable` and `CommittedWritesInstalled` in the whole system (with `Established = Accounts`) |
| `CoordinatorTypeCorrect` | `CoordinatorTypeOK` |
| `CommitsAreAtomic`, `RepliesAreOutcomes` | `AllOrNothing`, `ReplyIsOutcome` |
| `ResponsesAreExpected`, `AnswersAreDelivered`, `CallsAreInOrder` | `NoStrayResponse`, `AnswersFindTheirClient`, `CallsDoNotOverlap` |
| `CommitIsAtomicCommit` | `ImplementsAtomicCommit`, with the mapping `Part`, `Told` |

All follow from one invariant, `SystemInv`. For a transaction `Protocol(t)` relates the
handler with everything it has set in motion: `Near` says how far its own shard can be,
`Far` how far each peer can be, `Leg` that the request to a peer is in one place only
(told to the loop, on the way, in a task, on the way back), `Count` that the answers
received, those in the handler's channel and the open legs add up to what it waits for,
`Entered` and `Standing` what its loop knows. `Carriers` says that every channel has at
most one item of a transaction and that messages run between a coordinator and its
peers. A shard is only seen through `Stage`, the call or the outcome of a task; the
proof has one lemma per handler (`AcceptStep`, `HandleVoteStep`, ...), and most reduce
to one transaction (`OneTransaction`) and one leg (`OneLeg`).

Two arguments need each other. That a step inside a shard moves the stage as the
protocol expects needs the invariant of the shards: a commit that was voted for does not
fail its check (`AllSound`, in `ShardInv`). That the shards keep that invariant needs
the servers to call them in order, which follows from `Protocol`. So `SystemInv` has
both and is proved by one induction. `CommitIsAtomicCommit` then shows, stage by stage,
that each step is one of `AtomicCommit` or stutters; `CommitIsConsistent` in
`AtomicCommitProofs` says what that is worth: what one participant commits no other has
refused or aborted, and the client is told the truth.

### Stream, pool, ids (`LinkProofs`, `PoolProofs`, `TransactionIdProofs`)

* `HopsAreChannel`: the member loops implement `Channel`. `InFlight` is the
  concatenation of the four hops; every step of a loop leaves it alone (`HopsTake`,
  `HopsSent`, `HopsReceived`), and only `pass_message` and `handle_server_state` put to
  one end and take from the other. `LinkTypeCorrect` is `TypeOK`.
* `HandlersStopAndWait`, `JamsNeedClients`: `OneInFlight` and `JamNeedsClients`. `LinkInv`
  says that the business of a client is in one place (`Flow`: a message out, a task, a
  message back, or its handler) and that a direction has one message of it. When both
  loops are in `send`, the `2 * (Cap + 1)` messages on the way are of different clients;
  the proof counts them with an injection.
* `PoolTypeCorrect`, `ServersShareStream`: `TypeOK` and `SameStream`. `PoolInv` says that
  every handle in a group is an end of a stream whose loop runs or has said that it
  ended (`Groups`), that a running loop serves the handle the group has (`Member`), that
  a process awaits one handshake at a time (`Awaited`), and that a server runs in one
  process (`Lifetimes`). Two servers can only be connected one way, from the later to
  the earlier in the configuration (`DialsOneWay`).
* `IdTypeCorrect` for any clock; `IdsIncreaseOnCoarseClock` and
  `DocumentedRuleOnCoarseClock` (every call issues what the program's README says, for
  the reading it saw) for any set of readings whose gaps exceed `MaxBurst`.

### Assumptions

The named `ASSUME`s: ids are positive naturals, `Half` is positive, accounts live on one
shard each, deposits and withdrawals are amounts, the set-up transaction of established
accounts is the oldest; there are two servers or more, finitely many, and none is called
`Broadcast` or `Finished` (in the program these are constructors of one type, not
names); in `Link` there are two servers and finitely many clients; in `Pool` the
configuration lists every server once, and no server has an id that the kind of a
request reads as. `IdsAreWellOrdered`
says that a nonempty set of ids has a least one. It is a fact about the naturals, stated
as an assumption since its proof is an induction that the provers cannot instantiate;
TLC evaluates it on the runs of `Shard` and `Coordinator`.

### Only model-checked

* Liveness, which needs fairness: `ResolvesUnlessStranded`, `OldestResolves`,
  `EveryClientAnswered`, `EveryMessageArrives`.
* `StartUpCompletes`, `NobodyLeftBehind`, `ClientsHearBack`: properties of the states in which
  the servers have nothing left to do, which is `ENABLED`.
* `BalancesAddUp`: it sums the changes of all transactions, and what a fold computes
  needs an induction over the set.

## Not modelled

Parsing of command lines, encoding of messages, logging and the printing of balances:
no state the properties tell apart. A malformed configuration or command line ends a
process before it does anything. A configuration with a single server, which never
completes its pool, is excluded by `PoolConstants`. A client whose input ends before
`BEGIN` reads end-of-file forever; that loop talks to nobody. `Pool` and `Coordinator`
are not one model: a server that ends takes its shard and its handlers with it, since
nothing is persistent, and the others follow.
