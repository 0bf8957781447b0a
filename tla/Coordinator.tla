---------------------------- MODULE Coordinator ----------------------------
(***************************************************************************)
(* The servers, coordinator/mod.rs and coordinator/client.rs, on top of    *)
(* the shards.  Each server runs one select loop (Server::serve), one      *)
(* handler task per client (Client::handle), which coordinates that        *)
(* client's transaction, and one spawned task per request of a peer.       *)
(* Handlers talk to their server's loop over unbounded channels, servers   *)
(* to each other over one TCP stream per pair, so every queue is FIFO and  *)
(* nothing is lost while the servers are up.                               *)
(*                                                                         *)
(* The pool is connected and every server stays up: a lost peer ends the   *)
(* process (handle_server_state, Disconnected).                            *)
(***************************************************************************)
EXTENDS Shard, Sequences, FiniteSets

CONSTANTS
    CoordinatorOf,  \* transaction -> the server its client connected to
    Leaving         \* transactions whose client may disconnect early

ASSUME CoordinatorConstants ==
    /\ CoordinatorOf \in [TransactionIds -> Shards]
    /\ Leaving \subseteq TransactionIds
    /\ IsFiniteSet(Shards) /\ Cardinality(Shards) > 1
    /\ Shards \cap {"Broadcast", "Finished"} = {}  \* a node id is no other ClientState

VARIABLES
    handler,       \* transaction -> where its client handler is
    pending,       \* transaction -> the response it will send after the abort
    reply,         \* transaction -> the final response its client was sent
    acks,          \* transaction -> abort_count of do_abort
    forward_rcv,   \* transaction -> responses the loop passed to the handler
    clients,       \* transaction -> its ClientHandle in Server::clients
    from_clients,  \* server -> what its handlers have sent to the loop
    net,           \* server -> server -> messages on their way
    remote         \* task -> what it runs for a peer that expects an answer

coordination == <<handler, pending, reply, acks, forward_rcv, clients,
                  from_clients, net, remote>>
shards == <<objects, created, heap, map_lock, notifications, tasks, history>>
allVars == <<shards, coordination>>

Responses == {"Ok", "CommitOk", "Aborted", "AbortedNotFound", "none"}

\* Forwarded: Request, Response, TwoPhaseCommitStatus and DoCommit
Messages == [kind : {"Request", "Response", "ReadyToCommit", "CannotCommit",
                     "DoCommit"},
             tx : TransactionIds, call : Calls, resp : Responses]

\* ClientState: Forward to one node or to all, and Finished
ClientStates == [to : Shards \cup {"Broadcast", "Finished"},
                 tx : TransactionIds, call : Calls]

CoordinatorTypeOK ==
    /\ TypeOK
    /\ handler \in [TransactionIds ->
                      {"accept", "idle", "local", "remote", "abort", "acks",
                       "check", "votes", "commit", "done"}]
    /\ pending \in [TransactionIds -> Responses]
    /\ reply \in [TransactionIds -> Responses]
    /\ acks \in [TransactionIds -> 0 .. Cardinality(Shards)]
    /\ forward_rcv \in [TransactionIds -> Seq(Responses)]
    /\ clients \in [TransactionIds ->
                      [open : BOOLEAN, commit_count : 0 .. Cardinality(Shards),
                       commit_status : {"ReadyToCommit", "CannotCommit"}]]
    /\ from_clients \in [Shards -> Seq(ClientStates)]
    /\ net \in [Shards -> [Shards -> Seq(Messages)]]
    /\ remote \in [Tasks -> Ops]

\* The setup transaction, if there is one, is long finished.
CoordinatorInit ==
    /\ Init
    /\ handler = [t \in TransactionIds |-> IF IsSetup(t) THEN "done" ELSE "accept"]
    /\ pending = [t \in TransactionIds |-> "none"]
    /\ reply = [t \in TransactionIds |-> IF IsSetup(t) THEN "CommitOk" ELSE "none"]
    /\ acks = [t \in TransactionIds |-> 0]
    /\ forward_rcv = [t \in TransactionIds |-> <<>>]
    /\ clients = [t \in TransactionIds |->
                    [open |-> FALSE, commit_count |-> 0,
                     commit_status |-> "ReadyToCommit"]]
    /\ from_clients = [n \in Shards |-> <<>>]
    /\ net = [n \in Shards |-> [m \in Shards |-> <<>>]]
    /\ remote = [k \in Tasks |-> "none"]

-----------------------------------------------------------------------------
(* Helpers                                                                 *)

Here(t) == <<CoordinatorOf[t], t>>
Peers(n) == Shards \ {n}

Set(f, t, value) == [f EXCEPT ![t] = value]

\* forward_snd.send of a handler
Tell(t, to, c) ==
    from_clients' = [from_clients EXCEPT ![CoordinatorOf[t]] =
                       Append(@, [to |-> to, tx |-> t, call |-> c])]

Message(kind, t, c, r) == [kind |-> kind, tx |-> t, call |-> c, resp |-> r]

\* pass_message and broadcast
Sent(queues, n, targets, msg) ==
    [queues EXCEPT ![n] = [m \in Shards |-> IF m \in targets THEN Append(@[m], msg)
                                                              ELSE @[m]]]

Send(n, targets, msg) == net' = Sent(net, n, targets, msg)

\* The call starts as a task of shard s.
Start(s, t, c) ==
    \/ c.op = "read" /\ BeginRead(s, t, c.acct)
    \/ c.op = "change" /\ BeginChange(s, t, c.acct, c.amount)
    \/ c.op = "check" /\ BeginCheck(s, t)
    \/ c.op = "abort" /\ BeginAbort(s, t)

CallOf(op) == [NoCall EXCEPT !.op = op]

\* What the code makes of the outcome of a read or a balance change.
ResponseTo(outcome) == CASE outcome = "idle" -> "Ok"
                         [] outcome = "not_found" -> "AbortedNotFound"
                         [] outcome = "failed" -> "Aborted"

IsErr(resp) == resp \in {"Aborted", "AbortedNotFound"}

-----------------------------------------------------------------------------
(* The client handler                                                      *)

\* do_abort begins on the local shard; resp is what the client gets at the end.
DoAbort(t, resp) ==
    /\ BeginAbort(CoordinatorOf[t], t)
    /\ handler' = Set(handler, t, "abort")
    /\ pending' = Set(pending, t, resp)
    /\ UNCHANGED <<reply, acks, clients, from_clients, net, remote>>

\* The final response goes to the client and Finished to the loop.
FinishWith(t, resp) ==
    /\ reply' = Set(reply, t, resp)
    /\ handler' = Set(handler, t, "done")
    /\ Tell(t, "Finished", NoCall)

\* A balance request or change: on this shard, or forwarded to its owner.
Request(t, c) ==
    /\ handler[t] = "idle"
    /\ ops[t] < MaxOps
    /\ \/ /\ HomeOf[c.acct] = CoordinatorOf[t]
          /\ Start(CoordinatorOf[t], t, c)
          /\ handler' = Set(handler, t, "local")
          /\ UNCHANGED from_clients
       \/ /\ HomeOf[c.acct] # CoordinatorOf[t]
          /\ Tell(t, HomeOf[c.acct], c)
          /\ handler' = Set(handler, t, "remote")
          /\ UNCHANGED shards
    /\ UNCHANGED <<pending, reply, acks, forward_rcv, clients, net, remote>>

\* The response to it, from the local shard or passed on by the loop.
Respond(t, resp) ==
    \/ IsErr(resp) /\ DoAbort(t, resp)
    \/ /\ ~IsErr(resp)
       /\ handler' = Set(handler, t, "idle")
       /\ UNCHANGED <<shards, pending, reply, acks, clients, from_clients, net,
                      remote>>

LocalResponse(t) ==
    /\ handler[t] = "local"
    /\ pc[Here(t)] \in {"idle", "not_found", "failed"}
    /\ Respond(t, ResponseTo(pc[Here(t)]))
    /\ UNCHANGED forward_rcv

RemoteResponse(t) ==
    /\ handler[t] = "remote"
    /\ forward_rcv[t] # <<>>
    /\ Respond(t, Head(forward_rcv[t]))
    /\ forward_rcv' = Set(forward_rcv, t, Tail(forward_rcv[t]))

\* An account whose first letter names no shard
NoSuchShard(t) ==
    /\ handler[t] = "idle"
    /\ ops[t] < MaxOps
    /\ DoAbort(t, "AbortedNotFound")
    /\ UNCHANGED forward_rcv

AbortRequest(t) ==
    /\ handler[t] = "idle"
    /\ DoAbort(t, "Aborted")
    /\ UNCHANGED forward_rcv

\* do_abort, once the local abort is done: tell the others, await their acks.
BroadcastAbort(t) ==
    /\ handler[t] = "abort"
    /\ pc[Here(t)] = "aborted"
    /\ Tell(t, "Broadcast", CallOf("abort"))
    /\ handler' = Set(handler, t, "acks")
    /\ acks' = Set(acks, t, 1)
    /\ UNCHANGED <<shards, pending, reply, forward_rcv, clients, net, remote>>

\* Mutant: the local abort is counted twice.
AbortsExpectedFewer == Cardinality(Shards) - 1

\* Every shard, this one included
AbortsExpected == Cardinality(Shards)

CountAck(t) ==
    /\ handler[t] = "acks"
    /\ acks[t] < AbortsExpected
    /\ forward_rcv[t] # <<>>
    /\ acks' = Set(acks, t, IF Head(forward_rcv[t]) = "Aborted" THEN acks[t] + 1
                                                                ELSE acks[t])
    /\ forward_rcv' = Set(forward_rcv, t, Tail(forward_rcv[t]))
    /\ UNCHANGED <<shards, handler, pending, reply, clients, from_clients, net,
                   remote>>

AbortDone(t) ==
    /\ handler[t] = "acks"
    /\ acks[t] >= AbortsExpected
    /\ FinishWith(t, pending[t])
    /\ UNCHANGED <<shards, pending, acks, forward_rcv, clients, net, remote>>

\* handle_commit_request: check here first,
CommitRequest(t) ==
    /\ handler[t] = "idle"
    /\ BeginCheck(CoordinatorOf[t], t)
    /\ handler' = Set(handler, t, "check")
    /\ UNCHANGED <<pending, reply, acks, forward_rcv, clients, from_clients, net,
                   remote>>

\* ... then ask everyone else,
LocalVote(t) ==
    /\ handler[t] = "check"
    /\ \/ /\ pc[Here(t)] = "failed"
          /\ DoAbort(t, "Aborted")
       \/ /\ pc[Here(t)] = "ready"
          /\ Tell(t, "Broadcast", CallOf("check"))
          /\ handler' = Set(handler, t, "votes")
          /\ UNCHANGED <<shards, pending, reply, acks, clients, net, remote>>
    /\ UNCHANGED forward_rcv

\* ... and do what the loop has decided.  A response that is no decision would be
\* logged and passed on; NoStrayResponse says that there is none.
Decision(t) == LET resp == Head(forward_rcv[t]) IN
    /\ handler[t] = "votes"
    /\ forward_rcv[t] # <<>>
    /\ forward_rcv' = Set(forward_rcv, t, Tail(forward_rcv[t]))
    /\ \/ /\ resp = "CommitOk"
          /\ BeginCommit(CoordinatorOf[t], t)
          /\ handler' = Set(handler, t, "commit")
          /\ UNCHANGED <<pending, reply, acks, clients, from_clients, net, remote>>
       \/ /\ resp # "CommitOk"
          /\ IF resp = "Aborted" THEN DoAbort(t, "Aborted")
             ELSE /\ FinishWith(t, resp)
                  /\ UNCHANGED <<shards, pending, acks, clients, net, remote>>

CommitDone(t) ==
    /\ handler[t] = "commit"
    /\ pc[Here(t)] \in {"committed", "failed"}
    /\ FinishWith(t, "CommitOk")
    /\ UNCHANGED <<shards, pending, acks, forward_rcv, clients, net, remote>>

\* The client's stream ends between two requests: the handler just stops.
Disconnect(t) ==
    /\ handler[t] = "idle"
    /\ t \in Leaving
    /\ handler' = Set(handler, t, "done")
    /\ Tell(t, "Finished", NoCall)
    /\ UNCHANGED <<shards, pending, reply, acks, forward_rcv, clients, net, remote>>

-----------------------------------------------------------------------------
(* The server loop                                                         *)

\* accept: ids are drawn in the order the clients connect.
Accept(t) ==
    /\ handler[t] = "accept"
    /\ \A u \in TransactionIds :
          (CoordinatorOf[u] = CoordinatorOf[t] /\ u < t) => handler[u] # "accept"
    /\ handler' = Set(handler, t, "idle")
    /\ clients' = [clients EXCEPT ![t].open = TRUE]
    /\ UNCHANGED <<shards, pending, reply, acks, forward_rcv, from_clients, net,
                   remote>>

HandleClientState(n) ==
    LET state == Head(from_clients[n])
        msg == Message("Request", state.tx, state.call, "none")
    IN
    /\ from_clients[n] # <<>>
    /\ from_clients' = [from_clients EXCEPT ![n] = Tail(@)]
    /\ \/ /\ state.to = "Finished"
          /\ clients' = [clients EXCEPT ![state.tx].open = FALSE]
          /\ UNCHANGED net
       \/ /\ state.to = "Broadcast"
          /\ Send(n, Peers(n), msg)
          /\ UNCHANGED clients
       \/ /\ state.to \in Shards
          /\ Send(n, {state.to}, msg)
          /\ UNCHANGED clients
    /\ UNCHANGED <<shards, handler, pending, reply, acks, forward_rcv, remote>>

Receive(m, n, kind) ==
    /\ net[m][n] # <<>>
    /\ Head(net[m][n]).kind = kind

Received(m, n) == [net EXCEPT ![m][n] = Tail(@)]

PassToClient(t, resp) ==
    forward_rcv' = Set(forward_rcv, t, Append(forward_rcv[t], resp))

\* handle_remote_request: a task of this shard will answer.
HandleRemoteRequest(m, n) ==
    LET msg == Head(net[m][n]) IN
    /\ Receive(m, n, "Request")
    /\ Start(n, msg.tx, msg.call)
    /\ remote' = [remote EXCEPT ![<<n, msg.tx>>] = msg.call.op]
    /\ net' = Received(m, n)
    /\ UNCHANGED <<handler, pending, reply, acks, forward_rcv, clients,
                   from_clients>>

\* The end of that task: the answer to what it was asked.
AnswerTo(s, t) ==
    CASE remote[<<s, t>>] = "check" ->
             Message(IF pc[<<s, t>>] = "ready" THEN "ReadyToCommit"
                                           ELSE "CannotCommit", t, NoCall, "none")
      [] remote[<<s, t>>] = "abort" -> Message("Response", t, NoCall, "Aborted")
      [] OTHER -> Message("Response", t, NoCall, ResponseTo(pc[<<s, t>>]))

Answer(s, t) ==
    /\ remote[<<s, t>>] # "none"
    /\ pc[<<s, t>>] \in Outcomes
    /\ Send(s, {CoordinatorOf[t]}, AnswerTo(s, t))
    /\ remote' = [remote EXCEPT ![<<s, t>>] = "none"]
    /\ UNCHANGED <<shards, handler, pending, reply, acks, forward_rcv, clients,
                   from_clients>>

HandleResponse(m, n) ==
    LET msg == Head(net[m][n]) IN
    /\ Receive(m, n, "Response")
    /\ clients[msg.tx].open
    /\ PassToClient(msg.tx, msg.resp)
    /\ net' = Received(m, n)
    /\ UNCHANGED <<shards, handler, pending, reply, acks, clients, from_clients,
                   remote>>

\* Mutant: a refusal is not recorded.
StatusKept(t, vote) == clients[t].commit_status

\* handle_two_phase_commit keeps a refusal and does nothing more until the
\* last vote is in.
StatusAfter(t, vote) ==
    IF vote = "CannotCommit" THEN vote ELSE clients[t].commit_status

\* Mutant: the first vote decides.
FirstVoteIn(n, count) == count >= 1

AllVotesIn(n, count) == count = Cardinality(Peers(n))

DoCommit(n, t, queues) ==
    Sent(queues, n, Peers(n), Message("DoCommit", t, NoCall, "none"))

\* Mutant: DoCommit is broadcast whatever the decision.
AfterAnyDecision(n, t, status, queues) == DoCommit(n, t, queues)

\* The queues after the decision: DoCommit to every peer, or nothing.
AfterDecision(n, t, status, queues) ==
    IF status = "ReadyToCommit" THEN DoCommit(n, t, queues) ELSE queues

HandleVote(m, n, vote) ==
    LET t == Head(net[m][n]).tx
        count == clients[t].commit_count + 1
        status == StatusAfter(t, vote)
    IN
    /\ Receive(m, n, vote)
    /\ clients[t].open
    /\ clients' = [clients EXCEPT ![t].commit_count = count,
                                  ![t].commit_status = status]
    /\ \/ /\ ~AllVotesIn(n, count)
          /\ net' = Received(m, n)
          /\ UNCHANGED forward_rcv
       \/ /\ AllVotesIn(n, count)
          /\ PassToClient(t, IF status = "ReadyToCommit" THEN "CommitOk"
                                                         ELSE "Aborted")
          /\ net' = AfterDecision(n, t, status, Received(m, n))
    /\ UNCHANGED <<shards, handler, pending, reply, acks, from_clients, remote>>

HandleDoCommit(m, n) ==
    LET t == Head(net[m][n]).tx IN
    /\ Receive(m, n, "DoCommit")
    /\ BeginCommit(n, t)
    /\ net' = Received(m, n)
    /\ UNCHANGED <<handler, pending, reply, acks, forward_rcv, clients,
                   from_clients, remote>>

-----------------------------------------------------------------------------
(* The specification                                                       *)

ClientEnds(t) == CommitRequest(t) \/ AbortRequest(t)

ClientStep(t) ==
    \/ \E a \in Accounts : Request(t, [CallOf("read") EXCEPT !.acct = a])
    \/ \E a \in Accounts, d \in Diffs :
          Request(t, [CallOf("change") EXCEPT !.acct = a, !.amount = d])
    \/ NoSuchShard(t) \/ Disconnect(t)

HandlerStep(t) ==
    \/ LocalResponse(t) \/ RemoteResponse(t)
    \/ BroadcastAbort(t) \/ CountAck(t) \/ AbortDone(t)
    \/ LocalVote(t) \/ Decision(t) \/ CommitDone(t)

LoopReceives(m, n) ==
    /\ net[m][n] # <<>>
    /\ \/ HandleRemoteRequest(m, n) \/ HandleResponse(m, n)
       \/ HandleVote(m, n, "ReadyToCommit") \/ HandleVote(m, n, "CannotCommit")
       \/ HandleDoCommit(m, n)

ShardStep(s, t) ==
    \/ pc[<<s, t>>] \in Running /\ TaskStep(s, t) /\ UNCHANGED coordination
    \/ Answer(s, t)

\* Every handler is done, or stuck behind a waiting task.
AllQuiet ==
    /\ \A t \in TransactionIds :
          handler[t] = "done" \/ \E s \in Shards : pc[<<s, t>>] = "waiting"
    /\ UNCHANGED allVars

\* What happens without a client asking for more
SystemStep ==
    \/ \E t \in TransactionIds : Accept(t) \/ ClientEnds(t) \/ HandlerStep(t)
    \/ \E n \in Shards : HandleClientState(n)
    \/ \E m, n \in Shards : LoopReceives(m, n)
    \/ \E s \in Shards, t \in TransactionIds : ShardStep(s, t)

CoordinatorNext ==
    \/ SystemStep
    \/ \E t \in TransactionIds : ClientStep(t)
    \/ AllQuiet

CoordinatorSpec == CoordinatorInit /\ [][CoordinatorNext]_allVars

\* The runtime polls tasks and loops that can go on, streams deliver, and a
\* client that stays ends its transaction.  As in Shard no behaviour is
\* infinite, so it is enough that something happens while something can.
CoordinatorFairSpec == CoordinatorSpec /\ WF_allVars(SystemStep)

-----------------------------------------------------------------------------
(* Properties                                                              *)

\* Shard s has begun to commit t, or will as soon as DoCommit arrives.
Committing(s, t) == pc[<<s, t>>] = "committed" \/ call[<<s, t>>].op = "commit"

\* Two-phase commit is atomic: no shard commits (or starts to) a transaction
\* that another refused or aborts, though each shard acts on messages alone.
AllOrNothing ==
    \A t \in TransactionIds : (\E m \in Shards : Committing(m, t)) =>
        \A n \in Shards :
            ~Aborting(n, t) /\ pc[<<n, t>>] \notin {"failed", "not_found"}

\* What the client is told is what happens: COMMIT OK only when every shard
\* has committed or is bound to (it passed check_commit), ABORTED only when
\* the transaction is undone on every shard.
ReplyIsOutcome ==
    \A t \in TransactionIds :
        /\ reply[t] = "CommitOk" =>
              \A s \in Shards : pc[<<s, t>>] = "ready" \/ Committing(s, t)
        /\ IsErr(reply[t]) => \A s \in Shards : pc[<<s, t>>] = "aborted"

\* How far the part of t on shard s is, as AtomicCommit sees it
Part(s, t) ==
    CASE Committing(s, t) -> "committed"
      [] Aborting(s, t) -> "aborted"
      [] pc[<<s, t>>] = "ready" -> "prepared"
      [] pc[<<s, t>>] \in {"failed", "not_found"} -> "refused"
      [] OTHER -> "working"

Told(t) == CASE reply[t] = "none" -> "nothing"
             [] reply[t] = "CommitOk" -> "committed"
             [] OTHER -> "aborted"

Opened == {t \in TransactionIds : ~IsSetup(t)}

AC == INSTANCE AtomicCommit WITH
        Transactions <- Opened, Participants <- Shards,
        part <- [t \in Opened |-> [s \in Shards |-> Part(s, t)]],
        told <- [t \in Opened |-> Told(t)]

\* Two-phase commit is atomic: what the handlers, the loops and the shards do,
\* each acting on messages alone, is a commit or an abort of the whole
\* transaction, and the client is told which.
ImplementsAtomicCommit == AC!Spec

\* The transactions that messages on their way to server n answer.
Answered(n) ==
    UNION {{net[m][n][i].tx :
              i \in {j \in DOMAIN net[m][n] :
                        net[m][n][j].kind \notin {"Request", "DoCommit"}}} :
              m \in Shards}

\* The loop unwraps self.clients.get of every response and every vote, and
\* exits if the handler has dropped its receiver: the handler is registered
\* and running whenever an answer is on its way to it.
AnswersFindTheirClient ==
    \A n \in Shards : \A t \in Answered(n) : clients[t].open /\ handler[t] # "done"

\* A response is only ever passed to the handler that waits for it: nothing
\* is left in forward_rcv for a later request to mistake for its own answer.
NoStrayResponse ==
    \A t \in TransactionIds :
        /\ handler[t] \in {"idle", "local", "abort", "check", "commit", "done"}
              => forward_rcv[t] = <<>>
        /\ handler[t] = "votes" =>
              \A i \in DOMAIN forward_rcv[t] :
                  forward_rcv[t][i] \in {"CommitOk", "Aborted"}
        /\ handler[t] = "acks" =>
              \A i \in DOMAIN forward_rcv[t] : forward_rcv[t][i] = "Aborted"

\* A peer's request or DoCommit never finds a call of the same transaction
\* still running on the shard: calls of one transaction do not overlap there.
CallsDoNotOverlap ==
    \A m, n \in Shards : net[m][n] # <<>> =>
        LET msg == Head(net[m][n]) IN
        /\ msg.kind = "Request" =>
              /\ pc[<<n, msg.tx>>] \in {"idle", "failed", "not_found", "ready"}
              /\ msg.call.op # "abort" => pc[<<n, msg.tx>>] = "idle"
              /\ remote[<<n, msg.tx>>] = "none"
        /\ msg.kind = "DoCommit" => pc[<<n, msg.tx>>] = "ready"

\* A task that waits for a transaction whose client has left.
Deserted(k) ==
    LET t == wait[k].on IN
    pc[k] = "waiting" /\ handler[t] = "done" /\ reply[t] = "none"

\* Every client that stays gets its final response, unless a wake-up was lost
\* or it waits for the tentative write of a client that has left, which nobody
\* aborts: no handler, loop or shard waits for another in a cycle.
EveryClientAnswered ==
    <>(\/ \A t \in TransactionIds : handler[t] = "done"
       \/ \E k \in Tasks : Stranded(k) \/ Deserted(k))
=============================================================================
