------------------------ MODULE TwoPhaseCommitProofs ------------------------
(***************************************************************************)
(* The inductive invariant of the servers and what follows from it, given  *)
(* how the tasks of a shard move from one outcome to the next; module      *)
(* CoordinatorProofs puts it together with what is proved of the shards.   *)
(***************************************************************************)
EXTENDS Coordinator, TLAPS

\* Zenon first, which is quick on the many steps without arithmetic; the steps on
\* which it is not cite SMTT(30).
USE ZenonT(20), SMTT(30)

-----------------------------------------------------------------------------
(* Queues.  Messages and what a handler tells its loop name a transaction. *)

Contents(q) == {q[i] : i \in DOMAIN q}

\* What a queue holds of transaction t
Of(q, t) == {x \in Contents(q) : x.tx = t}

\* A queue holds at most one item of a transaction.
OneEach(q) == \A i, j \in DOMAIN q : q[i].tx = q[j].tx => i = j

\* Putting an item of a transaction that has none in the queue
LEMMA Appended ==
    ASSUME NEW S, NEW q \in Seq(S), NEW x \in S, NEW t, x.tx = t,
           OneEach(q), Of(q, t) = {}
    PROVE  /\ Append(q, x) \in Seq(S) /\ OneEach(Append(q, x))
           /\ Contents(Append(q, x)) = Contents(q) \cup {x}
  <1> DEFINE r == Append(q, x)
  <1>1. /\ r \in Seq(S) /\ Len(r) = Len(q) + 1 /\ Len(q) \in Nat
        /\ DOMAIN q = 1 .. Len(q) /\ DOMAIN r = 1 .. Len(q) + 1
        /\ r[Len(q) + 1] = x /\ \A i \in 1 .. Len(q) : r[i] = q[i]
    OBVIOUS
  <1> HIDE DEF r
  <1>2. Contents(r) = Contents(q) \cup {x}
    BY SMTT(30), <1>1 DEF Contents
  <1>3. \A i \in DOMAIN q : q[i].tx # t
    BY DEF Of, Contents
  <1>4. OneEach(r)
    BY SMTT(30), <1>1, <1>3 DEF OneEach
  <1> QED
    BY <1>1, <1>2, <1>4 DEF r

\* Taking the first item, the only one of its transaction
LEMMA Taken ==
    ASSUME NEW S, NEW q \in Seq(S), q # <<>>, NEW t, Head(q).tx = t, OneEach(q)
    PROVE  /\ Tail(q) \in Seq(S) /\ OneEach(Tail(q)) /\ Head(q) \in S
           /\ Contents(Tail(q)) \subseteq Contents(q) /\ Head(q) \in Contents(q)
           /\ Of(q, t) = {Head(q)} /\ Of(Tail(q), t) = {}
           /\ \A u : u # t => Of(Tail(q), u) = Of(q, u)
  <1> DEFINE x == Head(q)
             r == Tail(q)
  <1>1. /\ r \in Seq(S) /\ Len(q) \in Nat \ {0} /\ Len(r) = Len(q) - 1
        /\ DOMAIN q = 1 .. Len(q) /\ DOMAIN r = 1 .. Len(q) - 1
        /\ x = q[1] /\ \A i \in 1 .. Len(q) - 1 : r[i] = q[i + 1]
    OBVIOUS
  <1> HIDE DEF x, r
  <1>2. 1 \in DOMAIN q /\ x \in S /\ \A i \in DOMAIN r : i + 1 \in DOMAIN q /\ i + 1 # 1
    BY SMTT(30), <1>1
  <1>3. \A i \in DOMAIN q : i # 1 => i - 1 \in DOMAIN r /\ r[i - 1] = q[i]
    BY <1>1
  <1>4. Contents(q) = Contents(r) \cup {x}
    BY SMTT(30), <1>1, <1>2, <1>3 DEF Contents
  <1>5. x.tx = t /\ \A y \in Contents(r) : y.tx # t
    BY SMTT(30), <1>1, <1>2 DEF Contents, OneEach, x
  <1>6. OneEach(r)
    BY SMTT(30), <1>1, <1>2 DEF OneEach
  <1>7. Of(q, t) = {x} /\ Of(r, t) = {} /\ \A u : u # t => Of(r, u) = Of(q, u)
    BY <1>4, <1>5 DEF Of
  <1> QED
    BY <1>1, <1>2, <1>4, <1>6, <1>7 DEF x, r

-----------------------------------------------------------------------------
(* The invariant.  A request of the handler of t has a leg to each server  *)
(* it is for, and on each leg it is in one place at a time.                *)

\* What the handler has told its loop, and the messages about t from m to n
Entries(t) == Of(from_clients[CoordinatorOf[t]], t)
Mail(m, n, t) == Of(net[m][n], t)

\* How far task k is: the call it runs, or the outcome of the last one
Stage(k) == IF pc[k] \in Running THEN call[k].op ELSE pc[k]

\* The loop has not sent the request to shard s yet.
Asked(t, s) == \E e \in Entries(t) : e.to \in {s, "Broadcast"}

\* It has, and the other server has not received it.
Requested(t, s) == \E x \in Mail(CoordinatorOf[t], s, t) : x.kind = "Request"

Works(t, s) == remote[<<s, t>>] # "none"

\* The answer is on its way back.
Answers(t, s) == Mail(s, CoordinatorOf[t], t) # {}

\* The legs that have not come to their end
Open(t) == {s \in Peers(CoordinatorOf[t]) :
              Asked(t, s) \/ Requested(t, s) \/ Works(t, s) \/ Answers(t, s)}

\* The handler of t waits for the peers to do op.
AsksFor(t, op) ==
    \/ handler[t] = "remote" /\ op \in {"read", "change"}
    \/ handler[t] = "acks" /\ op = "abort"
    \/ handler[t] = "votes" /\ op = "check"

\* A call that a shard can start for the handler of t
RealCall(t, c) ==
    /\ c \in Calls /\ AsksFor(t, c.op)
    /\ c.op \in {"read", "change"} => c.acct \in Accounts
    /\ c.op = "change" => c.amount \in Diffs

\* The request is in one place only, and for what the handler waits for.
Leg(t, s) ==
    LET mail == Mail(CoordinatorOf[t], s, t) IN
    /\ Asked(t, s) => mail = {} /\ ~Works(t, s) /\ ~Answers(t, s)
    /\ mail # {} => ~Works(t, s) /\ ~Answers(t, s)
    /\ Works(t, s) => ~Answers(t, s) /\ AsksFor(t, remote[<<s, t>>])
    /\ \A x \in mail : x.kind = "Request" => RealCall(t, x.call)

\* Shard s is bound to commit: DoCommit is on its way, or has arrived.
Bound(t, s) ==
    LET mail == Mail(CoordinatorOf[t], s, t) IN
    \/ mail # {} /\ Stage(<<s, t>>) = "ready"
    \/ mail = {} /\ Stage(<<s, t>>) \in {"commit", "committed"}

\* Where an abort may begin
Stopped == {"idle", "failed", "not_found", "ready"}

\* How far shard s, a peer of the coordinator, can be
Far(t, s) ==
    LET c == CoordinatorOf[t]
        stage == Stage(<<s, t>>)
        sent == Asked(t, s) \/ Requested(t, s)
        fwd == forward_rcv[t]
    IN
    /\ handler[t] \in {"accept", "idle", "local", "check"} => stage = "idle"
    /\ handler[t] = "remote" =>
         /\ sent => stage = "idle"
         /\ Works(t, s) => stage \in {"read", "change", "idle", "failed", "not_found"}
         /\ \A x \in Mail(s, c, t) :
               /\ x.kind = "Response" /\ x.resp = ResponseTo(stage)
               /\ stage \in {"idle", "failed", "not_found"}
         /\ s \notin Open(t) =>
               \/ stage = "idle"
               \/ stage \in {"failed", "not_found"} /\ fwd # <<>> /\ IsErr(fwd[1])
    /\ handler[t] = "abort" => stage \in Stopped
    /\ handler[t] = "acks" =>
         /\ sent => stage \in Stopped
         /\ Works(t, s) => stage \in {"abort", "aborted"}
         /\ ~sent /\ ~Works(t, s) => stage = "aborted"
         /\ \A x \in Mail(s, c, t) : x.kind = "Response" /\ x.resp = "Aborted"
    /\ handler[t] = "votes" =>
         /\ sent => stage = "idle"
         /\ Works(t, s) => stage \in {"check", "ready", "failed"}
         /\ \A x \in Mail(s, c, t) :
               \/ x.kind = "ReadyToCommit" /\ stage = "ready"
               \/ x.kind = "CannotCommit" /\ stage = "failed"
         /\ s \notin Open(t) =>
               \/ /\ stage \in {"ready", "failed"} /\ Mail(c, s, t) = {}
                  /\ clients[t].commit_status = "ReadyToCommit" => stage = "ready"
                  /\ fwd # <<>> => fwd[1] = "Aborted"
               \/ Bound(t, s) /\ fwd # <<>> /\ fwd[1] = "CommitOk"
    /\ handler[t] = "commit" => Bound(t, s)
    /\ handler[t] = "done" =>
         /\ reply[t] = "CommitOk" => Bound(t, s)
         /\ reply[t] = "none" => stage = "idle"
         /\ IsErr(reply[t]) => stage = "aborted"
    /\ \A x \in Mail(c, s, t) : x.kind = "DoCommit" =>
         Bound(t, s) /\ handler[t] \in {"votes", "commit", "done"}

\* How far the coordinator's own shard is
Near(t) ==
    LET stage == Stage(Here(t)) IN
    /\ handler[t] \in {"accept", "idle", "remote"} => stage = "idle"
    /\ handler[t] = "local" => stage \in {"read", "change", "idle", "failed", "not_found"}
    /\ handler[t] = "abort" => stage \in {"abort", "aborted"}
    /\ handler[t] = "acks" => stage = "aborted"
    /\ handler[t] = "check" => stage \in {"check", "ready", "failed"}
    /\ handler[t] = "votes" => stage = "ready"
    /\ handler[t] = "commit" => stage \in {"commit", "committed"}
    /\ handler[t] = "done" =>
         /\ reply[t] = "CommitOk" => stage = "committed"
         /\ reply[t] = "none" => stage = "idle"
         /\ IsErr(reply[t]) => stage = "aborted"
    /\ ~Works(t, CoordinatorOf[t])

\* How many answers the handler still waits for
Count(t) ==
    LET open == Cardinality(Open(t))
        fwd == forward_rcv[t]
    IN
    /\ handler[t] \notin {"remote", "acks", "votes"} => Open(t) = {} /\ fwd = <<>>
    /\ handler[t] = "remote" =>
         /\ open + Len(fwd) = 1
         /\ \A i \in DOMAIN fwd : fwd[i] \in {"Ok", "Aborted", "AbortedNotFound"}
    /\ handler[t] = "acks" =>
         /\ acks[t] + open + Len(fwd) = Cardinality(Shards)
         /\ \A i \in DOMAIN fwd : fwd[i] = "Aborted"
    /\ handler[t] = "votes" =>
         /\ fwd = <<>> => /\ open > 0
                          /\ clients[t].commit_count + open = Cardinality(Shards) - 1
         /\ fwd # <<>> => /\ open = 0 /\ Len(fwd) = 1
                          /\ fwd[1] \in {"CommitOk", "Aborted"}
    /\ handler[t] \in {"accept", "idle", "local", "remote", "check"} =>
          clients[t].commit_count = 0 /\ clients[t].commit_status = "ReadyToCommit"

\* What the handler has told its loop and the loop has not handled
Entered(t) ==
    \A e \in Entries(t) :
        \/ e.to = "Finished" /\ handler[t] = "done"
        \/ e.to = "Broadcast" /\ handler[t] \in {"acks", "votes"} /\ RealCall(t, e.call)
        \/ /\ e.to \in Peers(CoordinatorOf[t]) /\ handler[t] = "remote"
           /\ RealCall(t, e.call)

\* The loop knows the client, and what the client has been told
Standing(t) ==
    /\ handler[t] \notin {"accept", "done"} => clients[t].open
    /\ handler[t] # "done" => reply[t] = "none"
    /\ handler[t] \in {"abort", "acks"} => IsErr(pending[t])
    /\ reply[t] # "Ok"

Protocol(t) ==
    /\ Entered(t) /\ Standing(t) /\ Near(t) /\ Count(t)
    /\ \A s \in Peers(CoordinatorOf[t]) : Leg(t, s) /\ Far(t, s)

\* A handler tells its own server; messages run between the coordinator of
\* their transaction and its peers.
EntriesRouted(queues) ==
    /\ queues \in [Shards -> Seq(ClientStates)]
    /\ \A n \in Shards : /\ OneEach(queues[n])
                         /\ \A e \in Contents(queues[n]) : CoordinatorOf[e.tx] = n

Route(x, m, n) ==
    /\ m # n
    /\ IF x.kind \in {"Request", "DoCommit"} THEN m = CoordinatorOf[x.tx]
                                         ELSE n = CoordinatorOf[x.tx]

MailRouted(queues) ==
    /\ queues \in [Shards -> [Shards -> Seq(Messages)]]
    /\ \A m, n \in Shards : /\ OneEach(queues[m][n])
                            /\ \A x \in Contents(queues[m][n]) : Route(x, m, n)

\* The types of what the handlers and the loops hold
HandlerTypes ==
    /\ handler \in [TransactionIds ->
                      {"accept", "idle", "local", "remote", "abort", "acks",
                       "check", "votes", "commit", "done"}]
    /\ pending \in [TransactionIds -> Responses]
    /\ reply \in [TransactionIds -> Responses]
    /\ acks \in [TransactionIds -> 0 .. Cardinality(Shards)]
    /\ forward_rcv \in [TransactionIds -> Seq(Responses)]
    /\ clients \in [TransactionIds ->
                      [open : BOOLEAN, commit_count : 0 .. Cardinality(Shards),
                       commit_status : {"ReadyToCommit", "CannotCommit"}]]
    /\ remote \in [Tasks -> Ops]

Carriers == HandlerTypes /\ EntriesRouted(from_clients) /\ MailRouted(net)

Protocols == \A t \in TransactionIds : Protocol(t)

-----------------------------------------------------------------------------
(* What the operations on queues do to the items of each transaction       *)

\* A handler puts an entry in the channel to its process loop.
LEMMA TellEffect ==
    ASSUME EntriesRouted(from_clients), NEW t \in TransactionIds, Entries(t) = {},
           NEW to \in Shards \cup {"Broadcast", "Finished"}, NEW c \in Calls,
           Tell(t, to, c)
    PROVE  /\ EntriesRouted(from_clients)'
           /\ Entries(t)' = {[to |-> to, tx |-> t, call |-> c]}
           /\ \A u \in TransactionIds : u # t => Entries(u)' = Entries(u)
  <1> DEFINE n == CoordinatorOf[t]
             e == [to |-> to, tx |-> t, call |-> c]
             q == from_clients[n]
             r == Append(q, e)
  <1>1. /\ n \in Shards /\ q \in Seq(ClientStates) /\ OneEach(q)
        /\ e \in ClientStates /\ e.tx = t /\ Of(q, t) = {}
    BY CoordinatorConstants DEF EntriesRouted, ClientStates, Entries
  <1>2. from_clients' = [from_clients EXCEPT ![n] = r]
    BY DEF Tell
  <1> HIDE DEF e, q
  <1>3. /\ r \in Seq(ClientStates) /\ OneEach(r) /\ Contents(r) = Contents(q) \cup {e}
        /\ Of(r, t) = {e} /\ \A u : u # t => Of(r, u) = Of(q, u)
    <2>1. r \in Seq(ClientStates) /\ OneEach(r)
      BY <1>1, Appended
    <2>2. Contents(r) = Contents(q) \cup {e}
      BY SMTT(30), <1>1, Appended
    <2> HIDE DEF r
    <2>3. Of(r, t) = {e}
      BY SMTT(30), <1>1, <2>2 DEF Of
    <2>4. \A u : u # t => Of(r, u) = Of(q, u)
      BY <1>1, <2>2 DEF Of
    <2> QED
      BY <2>1, <2>2, <2>3, <2>4
  <1> HIDE DEF r
  <1>4. /\ DOMAIN from_clients = Shards /\ from_clients'[n] = r
        /\ \A m \in Shards : m # n => from_clients'[m] = from_clients[m]
    BY <1>1, <1>2 DEF EntriesRouted
  <1>5. EntriesRouted(from_clients)'
    BY <1>1, <1>2, <1>3, <1>4 DEF EntriesRouted, q
  <1>6. Entries(t)' = {e}
    BY <1>3, <1>4 DEF Entries
  <1>7. ASSUME NEW u \in TransactionIds, u # t PROVE Entries(u)' = Entries(u)
    BY <1>3, <1>4, <1>7, CoordinatorConstants DEF Entries, q
  <1> QED
    BY <1>5, <1>6, <1>7 DEF e

\* The loop has taken e, which the handler of t had told it.
Handles(t, e) ==
    /\ Entries(t) = {e} /\ Entries(t)' = {}
    /\ \A u \in TransactionIds : u # t => Entries(u)' = Entries(u)

\* The loop takes the first entry, the only one of its transaction.
LEMMA HandledEffect ==
    ASSUME EntriesRouted(from_clients), NEW n \in Shards, from_clients[n] # <<>>,
           from_clients' = [from_clients EXCEPT ![n] = Tail(@)],
           NEW e, e = Head(from_clients[n])
    PROVE  /\ e \in ClientStates /\ e.tx \in TransactionIds /\ n = CoordinatorOf[e.tx]
           /\ EntriesRouted(from_clients)' /\ Handles(e.tx, e)
  <1> DEFINE t == e.tx
             q == from_clients[n]
             r == Tail(q)
  <1>1. q \in Seq(ClientStates) /\ OneEach(q) /\ q # <<>> /\ e = Head(q) /\ Head(q).tx = t
    BY DEF EntriesRouted
  <1>2. from_clients' = [from_clients EXCEPT ![n] = r]
    OBVIOUS
  <1> HIDE DEF q
  <1>3. /\ r \in Seq(ClientStates) /\ OneEach(r) /\ Contents(r) \subseteq Contents(q)
        /\ e \in ClientStates /\ e \in Contents(q) /\ Of(q, t) = {e} /\ Of(r, t) = {}
        /\ \A u : u # t => Of(r, u) = Of(q, u)
    <2>1. /\ r \in Seq(ClientStates) /\ OneEach(r) /\ Contents(r) \subseteq Contents(q)
          /\ e \in ClientStates /\ e \in Contents(q)
      BY SMTT(30), <1>1, Taken
    <2>2. Of(q, t) = {Head(q)}
      BY <1>1, Taken
    <2>3. Of(r, t) = {}
      BY <1>1, Taken
    <2>4. \A u : u # t => Of(r, u) = Of(q, u)
      BY SMTT(30), <1>1, Taken
    <2> QED
      BY <1>1, <2>1, <2>2, <2>3, <2>4
  <1> HIDE DEF r
  <1>4. t \in TransactionIds /\ n = CoordinatorOf[t]
    BY <1>3 DEF EntriesRouted, ClientStates, q
  <1>5. /\ DOMAIN from_clients = Shards /\ from_clients'[n] = r
        /\ \A m \in Shards : m # n => from_clients'[m] = from_clients[m]
    BY <1>2 DEF EntriesRouted
  <1>6. EntriesRouted(from_clients)'
    BY <1>2, <1>3, <1>5 DEF EntriesRouted, q
  <1>7. Entries(t) = {e} /\ Entries(t)' = {}
    BY <1>3, <1>4, <1>5 DEF Entries, q
  <1>8. ASSUME NEW u \in TransactionIds, u # t PROVE Entries(u)' = Entries(u)
    BY <1>3, <1>5, <1>8, CoordinatorConstants DEF Entries, q
  <1> QED
    BY <1>3, <1>4, <1>6, <1>7, <1>8 DEF Handles

\* Queues R are queues Q with message x from n to each of the targets, ...
Adds(Q, R, n, targets, x) ==
    /\ \A m \in targets : Of(R[n][m], x.tx) = {x}
    /\ \A m, p \in Shards, u \in TransactionIds :
          u # x.tx \/ m # n \/ p \notin targets => Of(R[m][p], u) = Of(Q[m][p], u)

\* ... or Q without message x from m to n.
Removes(Q, R, m, n, x) ==
    /\ Of(Q[m][n], x.tx) = {x} /\ Of(R[m][n], x.tx) = {}
    /\ \A p, q \in Shards, u \in TransactionIds :
          u # x.tx \/ p # m \/ q # n => Of(R[p][q], u) = Of(Q[p][q], u)

\* Message x may go from n to the targets.
Free(Q, n, targets, x) ==
    \A m \in targets : Route(x, n, m) /\ Of(Q[n][m], x.tx) = {}

\* One message to each target, where the transaction has none on its way
LEMMA SentEffect ==
    ASSUME NEW Q, MailRouted(Q), NEW n \in Shards, NEW targets \in SUBSET Shards,
           NEW x \in Messages, NEW R, R = Sent(Q, n, targets, x),
           Free(Q, n, targets, x)
    PROVE  MailRouted(R) /\ Adds(Q, R, n, targets, x)
  <1> DEFINE t == x.tx
  <1> USE DEF Free
  <1>1. /\ Q \in [Shards -> [Shards -> Seq(Messages)]] /\ DOMAIN R = Shards
        /\ R = [Q EXCEPT ![n] = R[n]]
        /\ R[n] = [m \in Shards |-> IF m \in targets THEN Append(Q[n][m], x) ELSE Q[n][m]]
        /\ \A m \in Shards : m # n => R[m] = Q[m]
    BY DEF MailRouted, Sent
  <1>2. ASSUME NEW m \in targets
        PROVE  /\ R[n][m] \in Seq(Messages) /\ OneEach(R[n][m])
               /\ Contents(R[n][m]) = Contents(Q[n][m]) \cup {x}
               /\ Of(R[n][m], t) = {x}
               /\ \A u : u # t => Of(R[n][m], u) = Of(Q[n][m], u)
    <2> DEFINE q == Q[n][m]
    <2>1. m \in Shards /\ R[n][m] = Append(q, x)
      BY <1>1
    <2>2. q \in Seq(Messages) /\ OneEach(q) /\ Of(q, t) = {}
      BY <2>1 DEF MailRouted
    <2> HIDE DEF q
    <2>3. Append(q, x) \in Seq(Messages) /\ OneEach(Append(q, x))
      BY <2>2, Appended
    <2>4. Contents(Append(q, x)) = Contents(q) \cup {x}
      BY SMTT(30), <2>2, Appended
    <2>5. Of(Append(q, x), t) = {x}
      BY <2>2, <2>4 DEF Of
    <2>6. \A u : u # t => Of(Append(q, x), u) = Of(q, u)
      BY <2>4 DEF Of
    <2> QED
      BY <2>1, <2>3, <2>4, <2>5, <2>6 DEF q
  <1>3. \A m, p \in Shards : m # n \/ p \notin targets => R[m][p] = Q[m][p]
    BY SMTT(30), <1>1
  <1>4. ASSUME NEW m \in Shards, NEW p \in Shards
        PROVE  /\ R[m][p] \in Seq(Messages) /\ OneEach(R[m][p])
               /\ \A y \in Contents(R[m][p]) : Route(y, m, p)
    <2>1. CASE m # n \/ p \notin targets
      BY <1>3, <2>1 DEF MailRouted
    <2>2. CASE m = n /\ p \in targets
      BY <1>2, <2>2 DEF MailRouted
    <2> QED
      BY <2>1, <2>2
  <1>5. R \in [Shards -> [Shards -> Seq(Messages)]]
    <2>1. R[n] \in [Shards -> Seq(Messages)]
      BY <1>1, <1>4
    <2> QED
      BY <1>1, <2>1
  <1>6. MailRouted(R)
    BY <1>4, <1>5 DEF MailRouted
  <1>7. ASSUME NEW m \in Shards, NEW p \in Shards, NEW u \in TransactionIds,
               u # t \/ m # n \/ p \notin targets
        PROVE  Of(R[m][p], u) = Of(Q[m][p], u)
    BY SMTT(30), <1>2, <1>3, <1>7
  <1> QED
    BY <1>2, <1>6, <1>7 DEF Adds

\* The loop takes the first message of a peer, the only one of its transaction.
LEMMA ReceivedEffect ==
    ASSUME MailRouted(net), NEW m \in Shards, NEW n \in Shards, net[m][n] # <<>>,
           NEW x, x = Head(net[m][n]), NEW R, R = Received(m, n)
    PROVE  /\ x \in Messages /\ x.tx \in TransactionIds /\ Route(x, m, n)
           /\ MailRouted(R) /\ Removes(net, R, m, n, x)
  <1> DEFINE t == x.tx
  <1>1. /\ net \in [Shards -> [Shards -> Seq(Messages)]]
        /\ R \in [Shards -> [Shards -> Seq(Messages)]] /\ R[m][n] = Tail(net[m][n])
        /\ \A p, q \in Shards : p # m \/ q # n => R[p][q] = net[p][q]
    BY SMTT(30) DEF MailRouted, Received
  <1>2. net[m][n] \in Seq(Messages) /\ OneEach(net[m][n])
    BY DEF MailRouted
  <1>3. /\ OneEach(R[m][n]) /\ x \in Messages /\ x \in Contents(net[m][n])
        /\ Contents(R[m][n]) \subseteq Contents(net[m][n])
        /\ Of(net[m][n], t) = {x} /\ Of(R[m][n], t) = {}
        /\ \A u : u # t => Of(R[m][n], u) = Of(net[m][n], u)
    <2> DEFINE q == net[m][n]
    <2>1. q \in Seq(Messages) /\ q # <<>> /\ OneEach(q) /\ Head(q).tx = t
      BY <1>2
    <2> HIDE DEF q
    <2>2. /\ OneEach(Tail(q)) /\ Head(q) \in Messages /\ Head(q) \in Contents(q)
          /\ Contents(Tail(q)) \subseteq Contents(q)
      BY <2>1, Taken
    <2>3. Of(q, t) = {Head(q)}
      BY <2>1, Taken
    <2>4. Of(Tail(q), t) = {}
      BY <2>1, Taken
    <2>5. \A u : u # t => Of(Tail(q), u) = Of(q, u)
      BY SMTT(30), <2>1, Taken
    <2> QED
      BY <1>1, <2>2, <2>3, <2>4, <2>5 DEF q
  <1>4. MailRouted(R)
    BY <1>1, <1>3 DEF MailRouted
  <1>5. t \in TransactionIds /\ Route(x, m, n)
    BY <1>3 DEF MailRouted, Messages
  <1> QED
    BY <1>1, <1>3, <1>4, <1>5 DEF Removes

-----------------------------------------------------------------------------
(* Tasks.  A handler or a loop sees no more of a task than its stage.      *)

InShape ==
    /\ pc \in [Tasks -> Running \cup Outcomes]
    /\ call \in [Tasks -> Calls]
    /\ \A k \in Tasks : pc[k] \in Outcomes <=> call[k].op = "none"

\* What is used here about cardinalities; lemma CardinalitiesHold of module
\* CoordinatorProofs has it from the library.
Cardinalities ==
    /\ \A S : IsFiniteSet(S) => /\ Cardinality(S) \in Nat
                                /\ Cardinality(S) = 0 <=> S = {}
    /\ \A S, x : IsFiniteSet(S) =>
          /\ IsFiniteSet(S \ {x})
          /\ Cardinality(S \ {x}) = IF x \in S THEN Cardinality(S) - 1 ELSE Cardinality(S)
    /\ \A S, T : IsFiniteSet(S) /\ T \subseteq S =>
          IsFiniteSet(T) /\ Cardinality(T) <= Cardinality(S)
    /\ Cardinality({}) = 0 /\ \A x : Cardinality({x}) = 1

\* The invariant of the servers
SInv == Cardinalities /\ InShape /\ Carriers /\ Protocols

\* What SInv says of the transaction a step is about
LEMMA SInvFacts ==
    ASSUME SInv, NEW t \in TransactionIds
    PROVE  /\ InShape /\ HandlerTypes /\ EntriesRouted(from_clients) /\ MailRouted(net)
           /\ Carriers /\ Protocols /\ Protocol(t)
           /\ Entered(t) /\ Standing(t) /\ Near(t) /\ Count(t)
           /\ \A s \in Peers(CoordinatorOf[t]) : Leg(t, s) /\ Far(t, s)
           /\ CoordinatorOf[t] \in Shards /\ Here(t) \in Tasks
           /\ \A s \in Shards : <<s, t>> \in Tasks
  BY CoordinatorConstants DEF SInv, Carriers, Protocols, Protocol, Here, Tasks

\* What the proofs use of Cardinality, out of Cardinalities
LEMMA SizeIsNat ==
    ASSUME SInv, NEW S, IsFiniteSet(S)
    PROVE  Cardinality(S) \in Nat
  BY DEF SInv, Cardinalities

LEMMA SizeOfNone ==
    ASSUME SInv
    PROVE  /\ Cardinality({}) = 0
           /\ \A S : IsFiniteSet(S) => (Cardinality(S) = 0 <=> S = {})
  BY DEF SInv, Cardinalities

LEMMA SizeWithout ==
    ASSUME SInv, NEW S, IsFiniteSet(S), NEW x
    PROVE  /\ IsFiniteSet(S \ {x})
           /\ Cardinality(S \ {x}) = IF x \in S THEN Cardinality(S) - 1 ELSE Cardinality(S)
  BY DEF SInv, Cardinalities

LEMMA SizeOfPart ==
    ASSUME SInv, NEW S, IsFiniteSet(S), NEW T, T \subseteq S
    PROVE  IsFiniteSet(T) /\ Cardinality(T) <= Cardinality(S)
  BY DEF SInv, Cardinalities

LEMMA SizeOfOne ==
    ASSUME SInv, NEW x
    PROVE  Cardinality({x}) = 1
  BY DEF SInv, Cardinalities

\* A queue with one item
LEMMA OneItem ==
    ASSUME NEW r
    PROVE  /\ Append(<<>>, r) = <<r>> /\ <<r>> # <<>> /\ Len(<<r>>) = 1 /\ <<r>>[1] = r
           /\ \A i \in DOMAIN <<r>> : <<r>>[i] = r
  OBVIOUS

\* A message without a call
LEMMA MessageFacts ==
    ASSUME NEW kind \in {"Response", "ReadyToCommit", "CannotCommit", "DoCommit"},
           NEW t \in TransactionIds, NEW r \in Responses,
           NEW x, x = Message(kind, t, NoCall, r)
    PROVE  x \in Messages /\ x.kind = kind /\ x.tx = t /\ x.resp = r
  <1>1. NoCall \in Calls
    BY HalfIsPositive DEF NoCall, Calls, Ops, Amounts
  <1> QED
    BY <1>1 DEF Message, Messages

\* What a step of task (s, t) does to the stages: a read or a balance change
\* ends well or not, a check is granted or refused, and a commit and an abort
\* succeed.
StageMoves(s, t) ==
    LET k == <<s, t>> IN
    /\ \A j \in Tasks : j # k => Stage(j)' = Stage(j)
    /\ \/ Stage(k)' = Stage(k)
       \/ Stage(k) \in {"read", "change"} /\ Stage(k)' \in {"idle", "failed", "not_found"}
       \/ Stage(k) = "check" /\ Stage(k)' \in {"ready", "failed"}
       \/ Stage(k) = "commit" /\ Stage(k)' = "committed"
       \/ Stage(k) = "abort" /\ Stage(k)' = "aborted"

\* The stage of a task says what its pc and its call say.
LEMMA StageFacts ==
    ASSUME InShape, NEW k \in Tasks
    PROVE  /\ Stage(k) \in Outcomes \cup (Ops \ {"none"})
           /\ \A o \in Outcomes : pc[k] = o <=> Stage(k) = o
           /\ pc[k] \in Outcomes <=> Stage(k) \in Outcomes
           /\ \A op \in {"abort", "commit"} : call[k].op = op <=> Stage(k) = op
  BY DEF InShape, Stage, Outcomes, Running, Ops, Calls

\* A call that begins is the stage of its task, and of no other;
LEMMA BeginStage ==
    ASSUME InShape, NEW s \in Shards, NEW t \in TransactionIds,
           NEW label \in {"find", "snapshot"}, NEW c, Begin(s, t, label, c)
    PROVE  /\ Stage(<<s, t>>)' = c.op
           /\ \A j \in Tasks : j # <<s, t>> => Stage(j)' = Stage(j)
  <1>1. <<s, t>> \in Tasks
    BY DEF Tasks
  <1> QED
    BY <1>1 DEF InShape, Stage, Begin, Goto, Running

OnlyStage(s, t) == \A j \in Tasks : j # <<s, t>> => Stage(j)' = Stage(j)

\* The stage a call begins from and the one it begins
Starts(s, t, op) ==
    /\ Stage(<<s, t>>)' = op /\ Stage(<<s, t>>) \in Stopped
    /\ op # "abort" => Stage(<<s, t>>) = "idle"
    /\ OnlyStage(s, t)

\* so is a call that a server starts,
LEMMA StartStage ==
    ASSUME InShape, NEW s \in Shards, NEW t \in TransactionIds, NEW c, Start(s, t, c)
    PROVE  Starts(s, t, c.op)
  <1> DEFINE k == <<s, t>>
  <1>1. k \in Tasks
    BY DEF Tasks
  <1>2. pc[k] \in Stopped /\ (c.op # "abort" => pc[k] = "idle")
    BY DEF Start, BeginRead, BeginChange, BeginCheck, BeginAbort, Stopped
  <1>3. \E label \in {"find", "snapshot"} : \E d : d.op = c.op /\ Begin(s, t, label, d)
    <2>1. CASE c.op = "read" /\ BeginRead(s, t, c.acct)
      BY <2>1 DEF BeginRead, NoCall
    <2>2. CASE c.op = "change" /\ BeginChange(s, t, c.acct, c.amount)
      BY <2>2 DEF BeginChange, NoCall
    <2>3. CASE c.op = "check" /\ BeginCheck(s, t)
      BY <2>3 DEF BeginCheck, NoCall
    <2>4. CASE c.op = "abort" /\ BeginAbort(s, t)
      BY <2>4 DEF BeginAbort, NoCall
    <2> QED
      BY <2>1, <2>2, <2>3, <2>4 DEF Start
  <1>4. Stage(k)' = c.op /\ \A j \in Tasks : j # k => Stage(j)' = Stage(j)
    BY <1>3, BeginStage
  <1>5. Stage(k) = pc[k]
    BY <1>2 DEF Stage, Stopped, Running
  <1> QED
    BY <1>2, <1>4, <1>5 DEF Starts, OnlyStage

\* and a commit, which follows a check that went well.
LEMMA BeginCommitStage ==
    ASSUME InShape, NEW s \in Shards, NEW t \in TransactionIds, BeginCommit(s, t)
    PROVE  /\ Stage(<<s, t>>) = "ready" /\ Stage(<<s, t>>)' = "commit"
           /\ \A j \in Tasks : j # <<s, t>> => Stage(j)' = Stage(j)
  <1>1. Begin(s, t, "snapshot", [NoCall EXCEPT !.op = "commit"])
    BY DEF BeginCommit
  <1>2. [NoCall EXCEPT !.op = "commit"].op = "commit"
    BY DEF NoCall
  <1> QED
    BY <1>1, <1>2, BeginStage DEF BeginCommit, Stage, Running

\* A call that a handler or a loop starts is one that module Shard allows.
LEMMA StartIsCall ==
    ASSUME NEW s \in Shards, NEW t \in TransactionIds, NEW c, Start(s, t, c),
           c.op \in {"read", "change"} => c.acct \in Accounts,
           c.op = "change" => c.amount \in Diffs
    PROVE  Call(s, t)
  BY DEF Start, Call, Finish

-----------------------------------------------------------------------------
(* A step leaves the other transactions alone                              *)

SameHandler(u) ==
    /\ handler'[u] = handler[u] /\ pending'[u] = pending[u]
    /\ reply'[u] = reply[u] /\ acks'[u] = acks[u]
    /\ forward_rcv'[u] = forward_rcv[u] /\ clients'[u] = clients[u]

SameTasks(u) == \A s \in Shards : /\ remote'[<<s, u>>] = remote[<<s, u>>]
                                  /\ Stage(<<s, u>>)' = Stage(<<s, u>>)

SameMail(u) == \A m, n \in Shards : Mail(m, n, u)' = Mail(m, n, u)

SameView(u) ==
    SameHandler(u) /\ SameTasks(u) /\ SameMail(u) /\ Entries(u)' = Entries(u)

\* The leg of t to shard s
SameLeg(t, s) ==
    LET c == CoordinatorOf[t] IN
    /\ Stage(<<s, t>>)' = Stage(<<s, t>>) /\ (Asked(t, s)' <=> Asked(t, s))
    /\ remote'[<<s, t>>] = remote[<<s, t>>]
    /\ Mail(c, s, t)' = Mail(c, s, t) /\ Mail(s, c, t)' = Mail(s, c, t)

\* A leg is as good as it was when nothing that it is about has changed,
LEMMA LegKept ==
    ASSUME NEW t, NEW s \in Peers(CoordinatorOf[t]), SameLeg(t, s)
    PROVE  /\ Requested(t, s)' = Requested(t, s) /\ Answers(t, s)' = Answers(t, s)
           /\ Bound(t, s)' = Bound(t, s) /\ Works(t, s)' = Works(t, s)
           /\ (s \in Open(t))' = (s \in Open(t))
           /\ Leg(t, s) /\ handler'[t] = handler[t] => Leg(t, s)'
           /\ Far(t, s) /\ SameHandler(t) => Far(t, s)'
  <1>1. /\ Requested(t, s)' = Requested(t, s) /\ Answers(t, s)' = Answers(t, s)
        /\ Bound(t, s)' = Bound(t, s) /\ Works(t, s)' = Works(t, s)
    BY DEF SameLeg, Requested, Answers, Bound, Works
  <1>2. (s \in Open(t))' = (s \in Open(t))
    BY <1>1 DEF SameLeg, Open
  <1>3. ASSUME Leg(t, s), handler'[t] = handler[t] PROVE Leg(t, s)'
    <2>1. \A op : AsksFor(t, op)' = AsksFor(t, op)
      BY <1>3 DEF AsksFor
    <2>2. \A d : RealCall(t, d)' = RealCall(t, d)
      BY <2>1 DEF RealCall
    <2> QED
      BY <1>1, <1>3, <2>1, <2>2 DEF Leg, SameLeg
  <1>4. ASSUME Far(t, s), SameHandler(t) PROVE Far(t, s)'
    BY <1>1, <1>2, <1>4 DEF Far, SameLeg, SameHandler
  <1> QED
    BY <1>1, <1>2, <1>3, <1>4

\* and so is the whole protocol of a transaction.
LEMMA UnseenStep ==
    ASSUME NEW u \in TransactionIds, Protocol(u), SameView(u)
    PROVE  Protocol(u)'
  <1> DEFINE c == CoordinatorOf[u]
  <1>1. c \in Shards /\ Peers(c) \subseteq Shards
    BY CoordinatorConstants DEF Peers
  <1>2. SameHandler(u) /\ SameTasks(u) /\ SameMail(u) /\ Entries(u)' = Entries(u)
    BY DEF SameView
  <1>3. ASSUME NEW s \in Peers(c)
        PROVE  /\ Asked(u, s)' = Asked(u, s) /\ Requested(u, s)' = Requested(u, s)
               /\ Works(u, s)' = Works(u, s) /\ Answers(u, s)' = Answers(u, s)
    BY <1>1, <1>2 DEF SameTasks, SameMail, Asked, Requested, Works, Answers
  <1>4. Open(u)' = Open(u)
    BY <1>3 DEF Open
  <1>5. \A op : AsksFor(u, op)' = AsksFor(u, op)
    BY <1>2 DEF SameHandler, AsksFor
  <1>6. \A d : RealCall(u, d)' = RealCall(u, d)
    BY <1>5 DEF RealCall
  <1>7. Entered(u)'
    BY <1>2, <1>6 DEF Protocol, Entered, SameHandler
  <1>8. Standing(u)'
    BY <1>2 DEF Protocol, Standing, SameHandler
  <1>9. Near(u)'
    BY <1>1, <1>2 DEF Protocol, Near, Works, Here, SameHandler, SameTasks
  <1>10. Count(u)'
    BY <1>2, <1>4 DEF Protocol, Count, SameHandler
  <1>11. ASSUME NEW s \in Peers(c) PROVE Leg(u, s)' /\ Far(u, s)'
    <2>1. SameLeg(u, s)
      BY <1>1, <1>2, <1>3 DEF SameLeg, SameMail, SameTasks
    <2>2. Leg(u, s) /\ Far(u, s) /\ handler'[u] = handler[u]
      BY <1>2 DEF Protocol, SameHandler
    <2> QED
      BY <1>2, <2>1, <2>2, LegKept
  <1> QED
    BY <1>7, <1>8, <1>9, <1>10, <1>11 DEF Protocol

Elsewhere(t) == \A u \in TransactionIds : u # t => SameView(u)

\* A step of one transaction has to be checked for that one only.
LEMMA OneTransaction ==
    ASSUME Protocols, NEW t \in TransactionIds, Protocol(t)', Elsewhere(t)
    PROVE  Protocols'
  <1> SUFFICES ASSUME NEW u \in TransactionIds PROVE Protocol(u)'
    BY DEF Protocols
  <1>1. CASE u = t
    BY <1>1
  <1>2. CASE u # t
    BY <1>2, UnseenStep DEF Protocols, Elsewhere
  <1> QED
    BY <1>1, <1>2

\* Only the stage of task (s, t) changes.
LEMMA StagesOfOthers ==
    ASSUME NEW t \in TransactionIds, NEW s \in Shards, OnlyStage(s, t)
    PROVE  /\ \A u \in TransactionIds, n \in Shards :
                 u # t => Stage(<<n, u>>)' = Stage(<<n, u>>)
           /\ \A n \in Shards : n # s => Stage(<<n, t>>)' = Stage(<<n, t>>)
           /\ \A u \in TransactionIds, n \in Shards : u # t \/ n # s =>
                 Stage(<<n, u>>)' = Stage(<<n, u>>)
  BY DEF OnlyStage, Tasks

\* Steps that leave the shards alone change no stage.
LEMMA SameStages ==
    ASSUME UNCHANGED shards
    PROVE  \A k \in Tasks : Stage(k)' = Stage(k)
  BY DEF shards, tasks, Stage

\* A step of the handler of t, as the others see it
LEMMA HandlerElsewhere ==
    ASSUME HandlerTypes, NEW t \in TransactionIds,
           OnlyStage(CoordinatorOf[t], t) \/ UNCHANGED shards,
           \E v : handler' = Set(handler, t, v),
           UNCHANGED pending \/ \E v : pending' = Set(pending, t, v),
           UNCHANGED reply \/ \E v : reply' = Set(reply, t, v),
           UNCHANGED acks \/ \E v : acks' = Set(acks, t, v),
           UNCHANGED forward_rcv \/ \E v : forward_rcv' = Set(forward_rcv, t, v),
           UNCHANGED clients \/ \E v : clients' = Set(clients, t, v),
           UNCHANGED <<net, remote>>,
           \A u \in TransactionIds : u # t => Entries(u)' = Entries(u)
    PROVE  Elsewhere(t)
  <1> SUFFICES ASSUME NEW u \in TransactionIds, u # t PROVE SameView(u)
    BY DEF Elsewhere
  <1>1. SameHandler(u)
    BY DEF SameHandler, Set, HandlerTypes
  <1>2. \A n \in Shards : Stage(<<n, u>>)' = Stage(<<n, u>>)
    BY StagesOfOthers, SameStages, CoordinatorConstants DEF Tasks
  <1>3. SameTasks(u)
    BY <1>2 DEF SameTasks
  <1>4. SameMail(u)
    BY DEF SameMail, Mail
  <1> QED
    BY <1>1, <1>3, <1>4 DEF SameView

\* Beginning a check or an abort
LEMMA BeginStages ==
    ASSUME InShape, NEW s \in Shards, NEW t \in TransactionIds,
           NEW k, k = <<s, t>>
    PROVE  /\ BeginCheck(s, t) =>
                 Stage(k) = "idle" /\ Stage(k)' = "check" /\ OnlyStage(s, t)
           /\ BeginAbort(s, t) =>
                 Stage(k) \in Stopped /\ Stage(k)' = "abort" /\ OnlyStage(s, t)
  <1>1. ASSUME BeginCheck(s, t)
        PROVE  Stage(k) = "idle" /\ Stage(k)' = "check" /\ OnlyStage(s, t)
    <2>1. Start(s, t, CallOf("check")) /\ CallOf("check").op = "check"
      BY <1>1 DEF Start, CallOf, NoCall
    <2>2. Starts(s, t, "check")
      BY <2>1, StartStage
    <2> QED
      BY <2>2 DEF Starts
  <1>2. ASSUME BeginAbort(s, t)
        PROVE  Stage(k) \in Stopped /\ Stage(k)' = "abort" /\ OnlyStage(s, t)
    <2>1. Start(s, t, CallOf("abort")) /\ CallOf("abort").op = "abort"
      BY <1>2 DEF Start, CallOf, NoCall
    <2>2. Starts(s, t, "abort")
      BY <2>1, StartStage
    <2> QED
      BY <2>2 DEF Starts
  <1> QED
    BY <1>1, <1>2

-----------------------------------------------------------------------------
(* Handlers that have nothing on its way                                   *)

\* Messages from a coordinator to a peer are requests and DoCommit.
LEMMA MailKinds ==
    ASSUME MailRouted(net), NEW t \in TransactionIds, NEW c, c = CoordinatorOf[t],
           NEW s \in Peers(c)
    PROVE  /\ \A x \in Mail(c, s, t) :
                 x.tx = t /\ x \in Messages /\ x.kind \in {"Request", "DoCommit"}
           /\ \A x \in Mail(s, c, t) :
                 x.tx = t /\ x \in Messages /\ x.kind \notin {"Request", "DoCommit"}
           /\ c \in Shards /\ s \in Shards /\ s # c
  <1>1. c \in Shards /\ s \in Shards /\ s # c
    BY CoordinatorConstants DEF Peers
  <1>2. \A m, n \in Shards : Contents(net[m][n]) \subseteq Messages
    BY SMTT(30) DEF MailRouted, Contents
  <1> QED
    BY SMTT(30), <1>1, <1>2 DEF MailRouted, Mail, Of, Route

\* Nothing about t is on its way, in either direction.
Quiet(t) ==
    /\ Entries(t) = {}
    /\ \A s \in Peers(CoordinatorOf[t]) :
          /\ Mail(CoordinatorOf[t], s, t) = {} /\ Mail(s, CoordinatorOf[t], t) = {}
          /\ ~Works(t, s)

\* A handler that waits for no peer has nothing on its way to or from them.
LEMMA QuietHandlers ==
    ASSUME SInv, NEW t \in TransactionIds, Open(t) = {},
           handler[t] \notin {"commit", "done"},
           handler[t] = "votes" => forward_rcv[t] # <<>> /\ forward_rcv[t][1] = "Aborted"
    PROVE  Quiet(t)
  <1> DEFINE c == CoordinatorOf[t]
  <1>1. PICK p \in Peers(c) : TRUE
    <2>1. Cardinality(Shards) > 1 /\ c \in Shards
      BY CoordinatorConstants
    <2>2. Cardinality({c}) = 1
      BY SizeOfOne
    <2>3. ASSUME Shards = {c} PROVE FALSE
      <3>1. Cardinality(Shards) = 1
        BY <2>2, <2>3
      <3> QED
        BY <2>1, <3>1
    <2> QED
      BY <2>1, <2>3 DEF Peers
  <1>2. ASSUME NEW e \in Entries(t) PROVE FALSE
    <2>1. \/ e.to = "Broadcast"
          \/ e.to \in Peers(c)
      BY SInvFacts DEF Entered
    <2>2. \E s \in Peers(c) : e.to \in {s, "Broadcast"}
      BY <1>1, <2>1
    <2> QED
      BY <2>2 DEF Open, Asked
  <1>3. ASSUME NEW s \in Peers(c)
        PROVE  Mail(c, s, t) = {} /\ Mail(s, c, t) = {} /\ ~Works(t, s)
    <2>1. ~Requested(t, s) /\ ~Works(t, s) /\ ~Answers(t, s) /\ s \notin Open(t)
      BY DEF Open
    <2>2. ASSUME NEW x \in Mail(c, s, t) PROVE FALSE
      <3>1. Far(t, s) /\ MailRouted(net)
        BY SInvFacts
      <3>2. x.kind = "DoCommit"
        BY SMTT(30), <2>1, <3>1, MailKinds DEF Requested
      <3>3. Bound(t, s) /\ handler[t] = "votes" /\ Mail(c, s, t) # {}
        BY <3>1, <3>2 DEF Far
      <3> QED
        BY <2>1, <3>1, <3>3 DEF Far
    <2> QED
      BY <2>1, <2>2 DEF Answers
  <1> QED
    BY <1>2, <1>3 DEF Quiet

\* ... and a step that sends nothing keeps it so.
LEMMA QuietStep ==
    ASSUME NEW t \in TransactionIds, NEW c, c = CoordinatorOf[t], Quiet(t),
           UNCHANGED <<from_clients, net, remote>>, forward_rcv'[t] = <<>>,
           handler'[t] \in {"idle", "local", "check", "abort"},
           \A s \in Peers(c) : /\ Stage(<<s, t>>)' \in Stopped
                               /\ handler'[t] # "abort" => Stage(<<s, t>>)' = "idle",
           handler'[t] # "abort" => clients'[t].commit_count = 0
                                    /\ clients'[t].commit_status = "ReadyToCommit",
           Standing(t)', Near(t)'
    PROVE  Protocol(t)'
  <1>1. Entries(t)' = {}
    BY DEF Quiet, Entries
  <1>2. ASSUME NEW s \in Peers(c)
        PROVE  /\ Mail(c, s, t)' = {} /\ Mail(s, c, t)' = {}
               /\ ~Works(t, s)' /\ ~Asked(t, s)' /\ ~Requested(t, s)' /\ ~Answers(t, s)'
    BY <1>1 DEF Quiet, Mail, Works, Asked, Requested, Answers
  <1>3. Open(t)' = {}
    BY <1>2 DEF Open
  <1>4. Entered(t)'
    BY <1>1 DEF Entered
  <1>5. Count(t)'
    BY <1>3 DEF Count
  <1>6. ASSUME NEW s \in Peers(c) PROVE Leg(t, s)'
    BY <1>2 DEF Leg
  <1>7. ASSUME NEW s \in Peers(c) PROVE Far(t, s)'
    BY <1>2 DEF Far
  <1> QED
    BY <1>4, <1>5, <1>6, <1>7 DEF Protocol

\* Steps that leave the channels alone keep them in order.
LEMMA SameCarriers ==
    ASSUME Carriers, HandlerTypes', UNCHANGED <<from_clients, net>>
    PROVE  Carriers'
  BY DEF Carriers, EntriesRouted, MailRouted

\* The same for the channel to the loop
LEMMA SameEntries ==
    ASSUME UNCHANGED from_clients
    PROVE  \A u \in TransactionIds : Entries(u)' = Entries(u)
  BY DEF Entries

\* A client connects.
LEMMA AcceptStep ==
    ASSUME SInv, NEW t \in TransactionIds, Accept(t)
    PROVE  Carriers' /\ Protocols'
  <1> DEFINE c == CoordinatorOf[t]
  <1>1. /\ handler[t] = "accept" /\ handler' = Set(handler, t, "idle")
        /\ clients' = [clients EXCEPT ![t].open = TRUE]
        /\ UNCHANGED <<shards, pending, reply, acks, forward_rcv, from_clients, net, remote>>
    BY DEF Accept
  <1>2. /\ clients'[t].open /\ clients'[t].commit_count = clients[t].commit_count
        /\ clients'[t].commit_status = clients[t].commit_status
        /\ clients' = Set(clients, t, clients'[t])
        /\ handler'[t] = "idle" /\ HandlerTypes'
    BY <1>1, SInvFacts DEF HandlerTypes, Set
  <1>3. \A k \in Tasks : Stage(k)' = Stage(k)
    BY <1>1, SameStages
  <1>4. Quiet(t) /\ forward_rcv[t] = <<>>
    BY <1>1, SInvFacts, QuietHandlers DEF Count
  <1>5. Standing(t)'
    BY <1>1, <1>2, SInvFacts DEF Standing
  <1>6. Near(t)'
    BY <1>1, <1>2, <1>3, SInvFacts DEF Near, Works, Here
  <1>7. ASSUME NEW s \in Peers(c) PROVE Stage(<<s, t>>)' = "idle"
    BY SMTT(30), <1>1, <1>3, SInvFacts DEF Far, Peers
  <1>8. Protocol(t)'
    <2>1. clients[t].commit_count = 0 /\ clients[t].commit_status = "ReadyToCommit"
      BY <1>1, SInvFacts DEF Count
    <2> QED
      BY <1>1, <1>2, <1>4, <1>5, <1>6, <1>7, <2>1, QuietStep DEF Stopped
  <1>9. Elsewhere(t)
    BY <1>1, <1>2, SInvFacts, SameEntries, HandlerElsewhere
  <1> QED
    BY <1>1, <1>2, <1>8, <1>9, SInvFacts, SameCarriers, OneTransaction

\* do_abort begins: nothing of t is on its way, and no shard has voted for
\* more than its own part.
LEMMA DoAbortStep ==
    ASSUME SInv, NEW t \in TransactionIds, NEW resp \in Responses, IsErr(resp),
           DoAbort(t, resp), Quiet(t),
           handler[t] \notin {"accept", "abort", "acks", "commit", "done"},
           \/ UNCHANGED forward_rcv /\ forward_rcv[t] = <<>>
           \/ forward_rcv' = Set(forward_rcv, t, <<>>),
           \A s \in Peers(CoordinatorOf[t]) : Stage(<<s, t>>) \in Stopped
    PROVE  Carriers' /\ Protocols'
  <1> DEFINE c == CoordinatorOf[t]
  <1>1. /\ BeginAbort(c, t) /\ handler' = Set(handler, t, "abort")
        /\ pending' = Set(pending, t, resp)
        /\ UNCHANGED <<reply, acks, clients, from_clients, net, remote>>
    BY DEF DoAbort
  <1>2. /\ handler'[t] = "abort" /\ pending'[t] = resp /\ forward_rcv'[t] = <<>>
        /\ HandlerTypes'
    <2>1. forward_rcv' \in [TransactionIds -> Seq(Responses)] /\ forward_rcv'[t] = <<>>
      <3>1. forward_rcv \in [TransactionIds -> Seq(Responses)] /\ <<>> \in Seq(Responses)
        BY SMTT(30), SInvFacts DEF HandlerTypes
      <3> QED
        BY <3>1 DEF Set
    <2> QED
      BY <1>1, <2>1, SInvFacts DEF HandlerTypes, Set
  <1>3. Stage(<<c, t>>)' = "abort" /\ OnlyStage(c, t)
    BY <1>1, SInvFacts, BeginStages
  <1>4. Standing(t)'
    BY <1>1, <1>2, SInvFacts DEF Standing
  <1>5. Near(t)'
    BY <1>1, <1>2, <1>3, SInvFacts DEF Near, Works, Here
  <1>6. ASSUME NEW s \in Peers(c) PROVE Stage(<<s, t>>)' \in Stopped
    BY <1>3, SInvFacts, StagesOfOthers DEF Peers
  <1>7. Protocol(t)'
    BY <1>1, <1>2, <1>4, <1>5, <1>6, QuietStep
  <1>8. Elsewhere(t)
    BY <1>1, <1>3, SInvFacts, SameEntries, HandlerElsewhere
  <1> QED
    BY <1>1, <1>2, <1>7, <1>8, SInvFacts, SameCarriers, OneTransaction

\* Aborts on request, of a missing account's transaction, and after a failed
\* call or check on the coordinator's own shard
LEMMA LocalAbortStep ==
    ASSUME SInv, NEW t \in TransactionIds, NEW resp \in Responses, IsErr(resp),
           DoAbort(t, resp), UNCHANGED forward_rcv,
           handler[t] \in {"idle", "local", "check"}
    PROVE  Carriers' /\ Protocols'
  <1>1. Quiet(t) /\ forward_rcv[t] = <<>>
    BY SInvFacts, QuietHandlers DEF Count
  <1>2. \A s \in Peers(CoordinatorOf[t]) : Stage(<<s, t>>) \in Stopped
    BY SInvFacts DEF Far, Stopped
  <1> QED
    BY <1>1, <1>2, DoAbortStep

\* The client asks to abort, or for an account of no shard.
LEMMA AbortRequestStep ==
    ASSUME SInv, NEW t \in TransactionIds, AbortRequest(t) \/ NoSuchShard(t)
    PROVE  Carriers' /\ Protocols'
  BY LocalAbortStep DEF AbortRequest, NoSuchShard, Responses, IsErr

\* The client asks to commit.
LEMMA CommitRequestStep ==
    ASSUME SInv, NEW t \in TransactionIds, CommitRequest(t)
    PROVE  Carriers' /\ Protocols'
  <1> DEFINE c == CoordinatorOf[t]
  <1>1. /\ handler[t] = "idle" /\ BeginCheck(c, t) /\ handler' = Set(handler, t, "check")
        /\ UNCHANGED <<pending, reply, acks, forward_rcv, clients, from_clients, net, remote>>
    BY DEF CommitRequest
  <1>2. handler'[t] = "check" /\ HandlerTypes'
    BY <1>1, SInvFacts DEF HandlerTypes, Set
  <1>3. Stage(<<c, t>>)' = "check" /\ OnlyStage(c, t)
    BY <1>1, SInvFacts, BeginStages
  <1>4. Quiet(t) /\ forward_rcv[t] = <<>>
    BY <1>1, SInvFacts, QuietHandlers DEF Count
  <1>5. Standing(t)'
    BY <1>1, <1>2, SInvFacts DEF Standing
  <1>6. Near(t)'
    BY <1>1, <1>2, <1>3, SInvFacts DEF Near, Works, Here
  <1>7. ASSUME NEW s \in Peers(c) PROVE Stage(<<s, t>>)' = "idle"
    <2>1. Far(t, s) /\ c \in Shards /\ s \in Shards /\ s # c
      BY SInvFacts DEF Peers
    <2>2. Stage(<<s, t>>) = "idle"
      BY <1>1, <2>1 DEF Far
    <2> QED
      BY <1>3, <2>1, <2>2, StagesOfOthers
  <1>8. Protocol(t)'
    <2>1. clients[t].commit_count = 0 /\ clients[t].commit_status = "ReadyToCommit"
      BY <1>1, SInvFacts DEF Count
    <2> QED
      BY <1>1, <1>2, <1>4, <1>5, <1>6, <1>7, <2>1, QuietStep DEF Stopped
  <1>9. Elsewhere(t)
    BY <1>1, <1>3, SInvFacts, SameEntries, HandlerElsewhere
  <1> QED
    BY <1>1, <1>2, <1>8, <1>9, SInvFacts, SameCarriers, OneTransaction

\* The client asks for an account of the server it is connected to.
LEMMA LocalRequestStep ==
    ASSUME SInv, NEW t \in TransactionIds, NEW call_, handler[t] = "idle",
           call_.op \in {"read", "change"}, Start(CoordinatorOf[t], t, call_),
           handler' = Set(handler, t, "local"),
           UNCHANGED <<pending, reply, acks, forward_rcv, clients, from_clients, net,
                       remote>>
    PROVE  Carriers' /\ Protocols'
  <1> DEFINE c == CoordinatorOf[t]
  <1>2. handler'[t] = "local" /\ HandlerTypes'
    BY SInvFacts DEF HandlerTypes, Set
  <1>3. Stage(<<c, t>>)' \in {"read", "change"} /\ OnlyStage(c, t)
    <2>1. InShape /\ c \in Shards
      BY SInvFacts
    <2>2. Starts(c, t, call_.op)
      BY <2>1, StartStage
    <2> QED
      BY <2>2 DEF Starts
  <1>4. Quiet(t) /\ forward_rcv[t] = <<>>
    BY SInvFacts, QuietHandlers DEF Count
  <1>5. Standing(t)'
    BY <1>2, SInvFacts DEF Standing
  <1>6. Near(t)'
    BY <1>2, <1>3, SInvFacts DEF Near, Works, Here
  <1>7. ASSUME NEW s \in Peers(c) PROVE Stage(<<s, t>>)' = "idle"
    <2>1. Far(t, s) /\ c \in Shards /\ s \in Shards /\ s # c
      BY SInvFacts DEF Peers
    <2>2. Stage(<<s, t>>) = "idle"
      BY <2>1 DEF Far
    <2> QED
      BY <1>3, <2>1, <2>2, StagesOfOthers
  <1>8. Protocol(t)'
    <2>1. clients[t].commit_count = 0 /\ clients[t].commit_status = "ReadyToCommit"
      BY SInvFacts DEF Count
    <2> QED
      BY <1>2, <1>4, <1>5, <1>6, <1>7, <2>1, QuietStep DEF Stopped
  <1>9. Elsewhere(t)
    BY <1>3, SInvFacts, SameEntries, HandlerElsewhere
  <1> QED
    BY <1>2, <1>8, <1>9, SInvFacts, SameCarriers, OneTransaction

\* The client gets a response that lets it go on.
LEMMA GoOnStep ==
    ASSUME SInv, NEW t \in TransactionIds, handler[t] \in {"local", "remote"}, Quiet(t),
           handler' = Set(handler, t, "idle"),
           UNCHANGED <<shards, pending, reply, acks, clients, from_clients, net, remote>>,
           \/ UNCHANGED forward_rcv /\ forward_rcv[t] = <<>>
           \/ forward_rcv' = Set(forward_rcv, t, <<>>),
           \A s \in Shards : Stage(<<s, t>>) = "idle"
    PROVE  Carriers' /\ Protocols'
  <1> DEFINE c == CoordinatorOf[t]
  <1>1. forward_rcv' \in [TransactionIds -> Seq(Responses)] /\ forward_rcv'[t] = <<>>
    <2>1. forward_rcv \in [TransactionIds -> Seq(Responses)] /\ <<>> \in Seq(Responses)
      BY SMTT(30), SInvFacts DEF HandlerTypes
    <2> QED
      BY <2>1 DEF Set
  <1>2. handler'[t] = "idle" /\ HandlerTypes'
    BY <1>1, SInvFacts DEF HandlerTypes, Set
  <1>3. \A s \in Shards : Stage(<<s, t>>)' = "idle"
    BY SInvFacts, SameStages
  <1>4. Standing(t)'
    BY <1>2, SInvFacts DEF Standing
  <1>5. Near(t)'
    BY <1>2, <1>3, SInvFacts DEF Near, Works, Here
  <1>6. Protocol(t)'
    <2>1. clients[t].commit_count = 0 /\ clients[t].commit_status = "ReadyToCommit"
      BY SInvFacts DEF Count
    <2>2. \A s \in Peers(c) : Stage(<<s, t>>)' = "idle"
      BY <1>3 DEF Peers
    <2> QED
      BY <1>1, <1>2, <1>4, <1>5, <2>1, <2>2, QuietStep DEF Stopped
  <1>7. Elsewhere(t)
    BY SInvFacts, SameEntries, HandlerElsewhere
  <1> QED
    BY <1>2, <1>6, <1>7, SInvFacts, SameCarriers, OneTransaction

-----------------------------------------------------------------------------
(* Handlers that get the last answer they wait for                         *)

\* The peers that a handler waits for are finitely many, and fewer than all.
LEMMA OpenCount ==
    ASSUME SInv, NEW t \in TransactionIds
    PROVE  /\ Open(t) \subseteq Peers(CoordinatorOf[t])
           /\ IsFiniteSet(Open(t)) /\ Cardinality(Open(t)) \in Nat
           /\ Cardinality(Open(t)) = 0 <=> Open(t) = {}
           /\ Cardinality(Open(t)) <= Cardinality(Shards) - 1
           /\ Cardinality(Peers(CoordinatorOf[t])) = Cardinality(Shards) - 1
           /\ Cardinality(Shards) \in Nat /\ Cardinality(Shards) > 1
  <1> DEFINE P == Peers(CoordinatorOf[t])
  <1>1. /\ IsFiniteSet(Shards) /\ CoordinatorOf[t] \in Shards
        /\ Cardinality(Shards) \in Nat /\ Cardinality(Shards) > 1
    BY CoordinatorConstants, SizeIsNat
  <1>2. IsFiniteSet(P) /\ Cardinality(P) = Cardinality(Shards) - 1
    BY <1>1, SizeWithout DEF Peers
  <1>3. Open(t) \in SUBSET P
    BY DEF Open
  <1> HIDE DEF P
  <1>4. IsFiniteSet(Open(t)) /\ Cardinality(Open(t)) <= Cardinality(P)
    BY <1>2, <1>3, SizeOfPart
  <1>5. Cardinality(Open(t)) \in Nat
    BY <1>4, SizeIsNat
  <1>6. Cardinality(Open(t)) = 0 <=> Open(t) = {}
    BY <1>4, SizeOfNone
  <1> QED
    BY <1>1, <1>2, <1>3, <1>4, <1>5, <1>6 DEF P

\* A queue of one item is empty once it is taken.
LEMMA LastOne ==
    ASSUME NEW S, NEW q \in Seq(S), Len(q) = 1
    PROVE  Tail(q) = <<>> /\ Head(q) = q[1] /\ 1 \in DOMAIN q
  <1>1. \A r \in Seq(S) : Len(r) = 0 => r = <<>>
    OBVIOUS
  <1>2. Tail(q) \in Seq(S) /\ Len(Tail(q)) = 0
    OBVIOUS
  <1>3. Head(q) = q[1] /\ 1 \in DOMAIN q
    OBVIOUS
  <1> QED
    BY <1>1, <1>2, <1>3

\* A response that has come is the only one the handler waits for.
LEMMA LastResponse ==
    ASSUME SInv, NEW t \in TransactionIds, handler[t] \in {"remote", "votes"},
           NEW fwd, fwd = forward_rcv[t], fwd # <<>>
    PROVE  /\ Open(t) = {} /\ Tail(fwd) = <<>> /\ Head(fwd) = fwd[1]
           /\ handler[t] = "remote" => fwd[1] \in {"Ok", "Aborted", "AbortedNotFound"}
           /\ handler[t] = "votes" => fwd[1] \in {"CommitOk", "Aborted"}
  <1>1. fwd \in Seq(Responses) /\ Len(fwd) \in Nat \ {0}
    BY SMTT(30), SInvFacts DEF HandlerTypes
  <1>2. Len(fwd) = 1 /\ Cardinality(Open(t)) = 0
    <2>1. /\ handler[t] = "remote" => Cardinality(Open(t)) + Len(fwd) = 1
          /\ handler[t] = "votes" => Cardinality(Open(t)) = 0 /\ Len(fwd) = 1
      BY SInvFacts DEF Count
    <2>2. Cardinality(Open(t)) \in Nat
      BY OpenCount
    <2>3. \A a \in Nat, b \in Nat \ {0} : a + b = 1 => a = 0 /\ b = 1
      OBVIOUS
    <2> QED
      BY <1>1, <2>1, <2>2, <2>3
  <1>3. Open(t) = {}
    BY <1>2, OpenCount
  <1>4. Tail(fwd) = <<>> /\ Head(fwd) = fwd[1] /\ 1 \in DOMAIN fwd
    BY <1>1, <1>2, LastOne
  <1> QED
    BY <1>3, <1>4, SInvFacts DEF Count

\* The local shard's result is returned to the client.
LEMMA LocalResponseStep ==
    ASSUME SInv, NEW t \in TransactionIds, LocalResponse(t)
    PROVE  Carriers' /\ Protocols'
  <1> DEFINE o == pc[Here(t)]
  <1>1. /\ handler[t] = "local" /\ o \in {"idle", "not_found", "failed"}
        /\ Respond(t, ResponseTo(o)) /\ UNCHANGED forward_rcv
    BY DEF LocalResponse
  <1>2. /\ o = "idle" => ResponseTo(o) = "Ok"
        /\ o = "not_found" => ResponseTo(o) = "AbortedNotFound"
        /\ o = "failed" => ResponseTo(o) = "Aborted"
    BY DEF ResponseTo
  <1>3. CASE o = "idle"
    <2>1. Quiet(t) /\ forward_rcv[t] = <<>>
      BY <1>1, SInvFacts, QuietHandlers DEF Count
    <2>2. /\ handler' = Set(handler, t, "idle")
          /\ UNCHANGED <<shards, pending, reply, acks, clients, from_clients, net, remote>>
      BY <1>1, <1>2, <1>3 DEF Respond, IsErr
    <2>3. Stage(Here(t)) = "idle"
      BY <1>3, SInvFacts, StageFacts DEF Outcomes
    <2>4. \A s \in Shards : Stage(<<s, t>>) = "idle"
      BY <1>1, <2>3, SInvFacts DEF Far, Peers, Here
    <2> QED
      BY <1>1, <2>1, <2>2, <2>4, GoOnStep
  <1>4. CASE o # "idle"
    <2>1. ResponseTo(o) \in Responses /\ IsErr(ResponseTo(o))
      BY <1>1, <1>2, <1>4 DEF Responses, IsErr
    <2> QED
      BY <1>1, <2>1, LocalAbortStep DEF Respond
  <1> QED
    BY <1>3, <1>4

\* A peer's result is returned to the client.
LEMMA RemoteResponseStep ==
    ASSUME SInv, NEW t \in TransactionIds, RemoteResponse(t)
    PROVE  Carriers' /\ Protocols'
  <1> DEFINE fwd == forward_rcv[t]
  <1>1. /\ handler[t] = "remote" /\ fwd # <<>> /\ Respond(t, Head(fwd))
        /\ forward_rcv' = Set(forward_rcv, t, Tail(fwd))
    BY DEF RemoteResponse
  <1>2. /\ Open(t) = {} /\ Tail(fwd) = <<>> /\ Head(fwd) = fwd[1]
        /\ fwd[1] \in {"Ok", "Aborted", "AbortedNotFound"}
    BY <1>1, LastResponse
  <1>3. Quiet(t)
    BY <1>1, <1>2, SInvFacts, QuietHandlers
  <1>4. ASSUME NEW s \in Peers(CoordinatorOf[t])
        PROVE  Stage(<<s, t>>) \in Stopped /\ (~IsErr(fwd[1]) => Stage(<<s, t>>) = "idle")
    BY <1>1, <1>2, SInvFacts DEF Far, Stopped
  <1>5. CASE IsErr(fwd[1])
    BY <1>1, <1>2, <1>3, <1>4, <1>5, DoAbortStep DEF Respond, Responses
  <1>6. CASE ~IsErr(fwd[1])
    <2>1. /\ handler' = Set(handler, t, "idle")
          /\ UNCHANGED <<shards, pending, reply, acks, clients, from_clients, net, remote>>
      BY <1>1, <1>2, <1>6 DEF Respond
    <2>2. \A s \in Shards : Stage(<<s, t>>) = "idle"
      BY <1>1, <1>4, <1>6, SInvFacts DEF Near, Here, Peers
    <2> QED
      BY <1>1, <1>2, <1>3, <2>1, <2>2, GoOnStep
  <1> QED
    BY <1>5, <1>6

\* The outcome of the vote reaches the handler.
LEMMA DecisionStep ==
    ASSUME SInv, NEW t \in TransactionIds, Decision(t)
    PROVE  Carriers' /\ Protocols'
  <1> DEFINE c == CoordinatorOf[t]
             fwd == forward_rcv[t]
  <1>1. /\ handler[t] = "votes" /\ fwd # <<>>
        /\ forward_rcv' = Set(forward_rcv, t, Tail(fwd))
    BY DEF Decision
  <1>2. /\ Open(t) = {} /\ Tail(fwd) = <<>> /\ Head(fwd) = fwd[1]
        /\ fwd[1] \in {"CommitOk", "Aborted"}
    BY <1>1, LastResponse
  <1>3. CASE fwd[1] = "Aborted"
    <2>1. Quiet(t)
      BY <1>1, <1>2, <1>3, SInvFacts, QuietHandlers
    <2>2. \A s \in Peers(c) : Stage(<<s, t>>) \in Stopped
      BY <1>1, <1>2, <1>3, SInvFacts DEF Far, Stopped
    <2>3. DoAbort(t, "Aborted")
      BY <1>2, <1>3 DEF Decision
    <2> QED
      BY <1>1, <1>2, <2>1, <2>2, <2>3, DoAbortStep DEF Responses, IsErr
  <1>4. CASE fwd[1] = "CommitOk"
    <2>1. /\ BeginCommit(c, t) /\ handler' = Set(handler, t, "commit")
          /\ UNCHANGED <<pending, reply, acks, clients, from_clients, net, remote>>
      BY <1>2, <1>4 DEF Decision
    <2>2. forward_rcv' \in [TransactionIds -> Seq(Responses)] /\ forward_rcv'[t] = <<>>
      <3>1. forward_rcv \in [TransactionIds -> Seq(Responses)] /\ <<>> \in Seq(Responses)
        BY SMTT(30), SInvFacts DEF HandlerTypes
      <3> QED
        BY <1>1, <1>2, <3>1 DEF Set
    <2>3. handler'[t] = "commit" /\ HandlerTypes'
      BY <2>1, <2>2, SInvFacts DEF HandlerTypes, Set
    <2>4. Stage(<<c, t>>)' = "commit" /\ OnlyStage(c, t)
      BY <2>1, SInvFacts, BeginCommitStage DEF OnlyStage
    <2>5. \A s \in Peers(c) : Bound(t, s)
      BY <1>1, <1>2, <1>4, SInvFacts DEF Far
    <2>6. Entries(t)' = Entries(t) /\ SameMail(t)
      BY <2>1 DEF SameMail, Mail, Entries
    <2>7. \A s \in Peers(c) : Stage(<<s, t>>)' = Stage(<<s, t>>) /\ s \in Shards
      BY <2>4, SInvFacts, StagesOfOthers DEF Peers
    <2>8. ASSUME NEW s \in Peers(c)
          PROVE  /\ ~Works(t, s)' /\ ~Asked(t, s)' /\ ~Requested(t, s)' /\ ~Answers(t, s)'
                 /\ Bound(t, s)' /\ Mail(c, s, t)' = Mail(c, s, t)
      <3>1. ~Works(t, s) /\ ~Asked(t, s) /\ ~Requested(t, s) /\ ~Answers(t, s)
        BY <1>2 DEF Open
      <3>2. Mail(c, s, t)' = Mail(c, s, t) /\ Mail(s, c, t)' = Mail(s, c, t)
        BY <2>6, <2>7, SInvFacts DEF SameMail
      <3>3. Bound(t, s)'
        BY <2>5, <2>7, <3>2 DEF Bound
      <3> QED
        BY <2>1, <2>6, <3>1, <3>2, <3>3 DEF Works, Asked, Requested, Answers
    <2>9. Entries(t) = {}
      <3> SUFFICES ASSUME NEW e \in Entries(t) PROVE FALSE
        OBVIOUS
      <3>1. e.to = "Broadcast"
        BY <1>1, SInvFacts DEF Entered
      <3>2. Peers(c) = {}
        BY <1>2, <3>1 DEF Open, Asked
      <3>3. Cardinality(Peers(c)) = 0
        BY <3>2, SizeOfNone
      <3>4. Cardinality(Peers(c)) = Cardinality(Shards) - 1 /\ Cardinality(Shards) \in Nat
            /\ Cardinality(Shards) > 1
        BY OpenCount
      <3> QED
        BY <3>3, <3>4
    <2>10. Open(t)' = {} /\ Entered(t)'
      BY <2>6, <2>8, <2>9 DEF Open, Entered
    <2>11. Count(t)'
      BY <2>2, <2>3, <2>10 DEF Count
    <2>12. Standing(t)'
      BY <1>1, <2>1, <2>3, SInvFacts DEF Standing
    <2>13. Near(t)'
      BY <2>1, <2>3, <2>4, SInvFacts DEF Near, Works, Here
    <2>14. ASSUME NEW s \in Peers(c) PROVE Leg(t, s)'
      BY <2>8 DEF Leg, Requested
    <2>15. ASSUME NEW s \in Peers(c) PROVE Far(t, s)'
      BY <2>3, <2>8 DEF Far
    <2>16. Protocol(t)'
      BY <2>10, <2>11, <2>12, <2>13, <2>14, <2>15 DEF Protocol
    <2>17. Elsewhere(t)
      BY <1>1, <2>1, <2>4, SInvFacts, SameEntries, HandlerElsewhere
    <2> QED
      BY <2>1, <2>3, <2>16, <2>17, SInvFacts, SameCarriers, OneTransaction
  <1> QED
    BY <1>2, <1>3, <1>4

-----------------------------------------------------------------------------
(* Handlers that tell their loop something                                 *)

\* A request goes to one peer, or to all of them.
LEMMA AskStep ==
    ASSUME SInv, NEW t \in TransactionIds, Quiet(t), forward_rcv[t] = <<>>,
           handler[t] \notin {"accept", "done"},
           NEW h \in {"remote", "acks", "votes"}, handler' = Set(handler, t, h),
           NEW to, to \in Peers(CoordinatorOf[t]) \cup {"Broadcast"},
           h = "remote" <=> to # "Broadcast",
           NEW d, Tell(t, to, d), RealCall(t, d)',
           UNCHANGED <<shards, pending, reply, forward_rcv, clients, net, remote>>,
           h = "acks" => acks' = Set(acks, t, 1) /\ IsErr(pending[t]),
           h # "acks" => /\ UNCHANGED acks /\ clients[t].commit_count = 0
                         /\ clients[t].commit_status = "ReadyToCommit",
           \A s \in Peers(CoordinatorOf[t]) : /\ Stage(<<s, t>>) \in Stopped
                                              /\ h # "acks" => Stage(<<s, t>>) = "idle",
           Near(t)'
    PROVE  Carriers' /\ Protocols'
  <1> DEFINE c == CoordinatorOf[t]
             e == [to |-> to, tx |-> t, call |-> d]
             asked == {s \in Peers(c) : to \in {s, "Broadcast"}}
  <1>1. c \in Shards /\ Peers(c) \subseteq Shards /\ d \in Calls
    BY SInvFacts DEF Peers, RealCall
  <1>2. /\ EntriesRouted(from_clients)' /\ Entries(t)' = {e}
        /\ \A u \in TransactionIds : u # t => Entries(u)' = Entries(u)
    BY <1>1, SInvFacts, TellEffect DEF Quiet
  <1>3. e.to = to /\ e.call = d
    OBVIOUS
  <1> HIDE DEF e
  <1>4. handler'[t] = h /\ HandlerTypes'
    <2>1. 1 \in 0 .. Cardinality(Shards)
      BY SMTT(30), OpenCount
    <2> QED
      BY <2>1, SInvFacts DEF HandlerTypes, Set
  <1>5. \A k \in Tasks : Stage(k)' = Stage(k)
    BY SameStages
  <1>6. ASSUME NEW s \in Peers(c)
        PROVE  /\ Mail(c, s, t)' = {} /\ Mail(s, c, t)' = {}
               /\ ~Works(t, s)' /\ ~Requested(t, s)' /\ ~Answers(t, s)'
               /\ Asked(t, s)' <=> s \in asked
               /\ Stage(<<s, t>>)' \in Stopped /\ (h # "acks" => Stage(<<s, t>>)' = "idle")
    <2>1. Mail(c, s, t)' = {} /\ Mail(s, c, t)' = {} /\ ~Works(t, s)'
      BY DEF Quiet, Mail, Works
    <2>2. Stage(<<s, t>>)' = Stage(<<s, t>>)
      BY <1>1, <1>5, SInvFacts
    <2> QED
      BY <1>2, <1>3, <2>1, <2>2 DEF Requested, Answers, Asked
  <1>7. Open(t)' = asked
    BY <1>6 DEF Open
  <1>8. Count(t)'
    <2>1. /\ Cardinality(Peers(c)) = Cardinality(Shards) - 1
          /\ Cardinality(Shards) \in Nat /\ Cardinality(Shards) > 1
      BY OpenCount
    <2>2. /\ forward_rcv'[t] = <<>> /\ Len(forward_rcv'[t]) = 0
          /\ \A i \in DOMAIN forward_rcv'[t] : FALSE
      BY <1>4
    <2>3. CASE h = "remote"
      <3>1. asked = {to} /\ Cardinality({to}) = 1
        BY <1>1, <2>3, SizeOfOne
      <3>2. Cardinality(Open(t)') = 1
        BY <1>7, <3>1
      <3>3. Cardinality(Open(t)') + Len(forward_rcv'[t]) = 1
        BY SMTT(30), <2>2, <3>2
      <3> QED
        BY <1>4, <2>2, <2>3, <3>3 DEF Count
    <2>4. CASE h = "acks"
      <3>1. asked = Peers(c) /\ acks'[t] = 1
        BY <2>4, SInvFacts DEF HandlerTypes, Set
      <3>2. Cardinality(Open(t)') = Cardinality(Shards) - 1
        BY <1>7, <2>1, <3>1
      <3>3. acks'[t] + Cardinality(Open(t)') + Len(forward_rcv'[t]) = Cardinality(Shards)
        BY SMTT(30), <2>1, <2>2, <3>1, <3>2
      <3> QED
        BY <1>4, <2>2, <2>4, <3>3 DEF Count
    <2>5. CASE h = "votes"
      <3>1. asked = Peers(c) /\ clients'[t].commit_count = 0
        BY <2>5
      <3>2. Cardinality(Open(t)') = Cardinality(Shards) - 1
        BY <1>7, <2>1, <3>1
      <3>3. /\ Cardinality(Open(t)') > 0
            /\ clients'[t].commit_count + Cardinality(Open(t)') = Cardinality(Shards) - 1
        BY SMTT(30), <2>1, <3>1, <3>2
      <3> QED
        BY <1>4, <2>2, <2>5, <3>3 DEF Count
    <2> QED
      BY <2>3, <2>4, <2>5
  <1>9. Entered(t)'
    BY <1>2, <1>3, <1>4 DEF Entered
  <1>10. Standing(t)'
    BY <1>4, SInvFacts DEF Standing
  <1>11. ASSUME NEW s \in Peers(c) PROVE Leg(t, s)'
    BY <1>6 DEF Leg
  <1>12. ASSUME NEW s \in Peers(c) PROVE Far(t, s)'
    BY <1>4, <1>6, <1>7 DEF Far
  <1>13. Protocol(t)'
    BY <1>8, <1>9, <1>10, <1>11, <1>12 DEF Protocol
  <1>14. Elsewhere(t)
    BY <1>2, SInvFacts, HandlerElsewhere
  <1>15. Carriers'
    BY <1>2, <1>4, SInvFacts DEF Carriers, MailRouted
  <1> QED
    BY <1>13, <1>14, <1>15, SInvFacts, OneTransaction

\* A call without arguments is a call.
LEMMA CallsOf == \A op \in Ops : CallOf(op) \in Calls /\ CallOf(op).op = op
  <1>1. 0 \in Amounts
    BY HalfIsPositive DEF Amounts
  <1> QED
    BY <1>1 DEF CallOf, NoCall, Calls

\* The client asks for an account of another server.
LEMMA RemoteRequestStep ==
    ASSUME SInv, NEW t \in TransactionIds, NEW d \in Calls, d.op \in {"read", "change"},
           d.acct \in Accounts, d.op = "change" => d.amount \in Diffs,
           handler[t] = "idle", HomeOf[d.acct] # CoordinatorOf[t],
           Tell(t, HomeOf[d.acct], d), handler' = Set(handler, t, "remote"),
           UNCHANGED <<shards, pending, reply, acks, forward_rcv, clients, net, remote>>
    PROVE  Carriers' /\ Protocols'
  <1> DEFINE to == HomeOf[d.acct]
  <1>1. Quiet(t) /\ forward_rcv[t] = <<>>
    BY SInvFacts, QuietHandlers DEF Count
  <1>2. to \in Peers(CoordinatorOf[t]) /\ to # "Broadcast"
    BY ShardConstants, CoordinatorConstants DEF Peers
  <1>3. handler'[t] = "remote"
    BY SInvFacts DEF HandlerTypes, Set
  <1>4. RealCall(t, d)'
    BY <1>3 DEF RealCall, AsksFor
  <1>5. Near(t)'
    <2>1. Stage(Here(t))' = Stage(Here(t))
      BY SInvFacts, SameStages
    <2> QED
      BY <1>3, <2>1, SInvFacts DEF Near, Works
  <1>6. clients[t].commit_count = 0 /\ clients[t].commit_status = "ReadyToCommit"
    BY SInvFacts DEF Count
  <1>7. \A s \in Peers(CoordinatorOf[t]) : Stage(<<s, t>>) = "idle"
    BY SInvFacts DEF Far
  <1> HIDE DEF to
  <1>8. Tell(t, to, d)
    BY DEF to
  <1> QED
    BY <1>1, <1>2, <1>3, <1>4, <1>5, <1>6, <1>7, <1>8, AskStep DEF Stopped

\* The two kinds of request together
LEMMA RequestStep ==
    ASSUME SInv, NEW t \in TransactionIds, NEW d \in Calls, d.op \in {"read", "change"},
           d.acct \in Accounts, d.op = "change" => d.amount \in Diffs, Request(t, d)
    PROVE  Carriers' /\ Protocols'
  BY LocalRequestStep, RemoteRequestStep DEF Request

\* The handler has aborted locally and tells the peers.
LEMMA BroadcastAbortStep ==
    ASSUME SInv, NEW t \in TransactionIds, BroadcastAbort(t)
    PROVE  Carriers' /\ Protocols'
  <1>1. /\ handler[t] = "abort" /\ pc[Here(t)] = "aborted"
        /\ Tell(t, "Broadcast", CallOf("abort")) /\ handler' = Set(handler, t, "acks")
        /\ acks' = Set(acks, t, 1)
        /\ UNCHANGED <<shards, pending, reply, forward_rcv, clients, net, remote>>
    BY DEF BroadcastAbort
  <1>2. Quiet(t) /\ forward_rcv[t] = <<>> /\ IsErr(pending[t])
    BY <1>1, SInvFacts, QuietHandlers DEF Count, Standing
  <1>3. handler'[t] = "acks"
    BY <1>1, SInvFacts DEF HandlerTypes, Set
  <1>4. RealCall(t, CallOf("abort"))'
    BY <1>3, CallsOf DEF RealCall, AsksFor, Ops
  <1>5. Near(t)'
    <2>1. Stage(Here(t))' = Stage(Here(t)) /\ Stage(Here(t)) = "aborted"
      BY <1>1, SInvFacts, SameStages, StageFacts DEF Outcomes
    <2> QED
      BY <1>1, <1>3, <2>1, SInvFacts DEF Near, Works
  <1>6. \A s \in Peers(CoordinatorOf[t]) : Stage(<<s, t>>) \in Stopped
    BY <1>1, SInvFacts DEF Far
  <1> QED
    BY <1>1, <1>2, <1>4, <1>5, <1>6, AskStep

\* The local vote is in: the handler asks the peers, or aborts.
LEMMA LocalVoteStep ==
    ASSUME SInv, NEW t \in TransactionIds, LocalVote(t)
    PROVE  Carriers' /\ Protocols'
  <1>1. handler[t] = "check" /\ UNCHANGED forward_rcv
    BY DEF LocalVote
  <1>2. CASE pc[Here(t)] = "failed"
    <2>1. DoAbort(t, "Aborted")
      BY <1>2 DEF LocalVote
    <2> QED
      BY <1>1, <2>1, LocalAbortStep DEF Responses, IsErr
  <1>3. CASE pc[Here(t)] = "ready"
    <2>1. /\ Tell(t, "Broadcast", CallOf("check")) /\ handler' = Set(handler, t, "votes")
          /\ UNCHANGED <<shards, pending, reply, acks, clients, net, remote>>
      BY <1>3 DEF LocalVote
    <2>2. Quiet(t) /\ forward_rcv[t] = <<>>
      BY <1>1, SInvFacts, QuietHandlers DEF Count
    <2>3. handler'[t] = "votes"
      BY <2>1, SInvFacts DEF HandlerTypes, Set
    <2>4. RealCall(t, CallOf("check"))'
      BY <2>3, CallsOf DEF RealCall, AsksFor, Ops
    <2>5. Near(t)'
      <3>1. Stage(Here(t))' = Stage(Here(t)) /\ Stage(Here(t)) = "ready"
        BY <1>3, <2>1, SInvFacts, SameStages, StageFacts DEF Outcomes
      <3> QED
        BY <2>1, <2>3, <3>1, SInvFacts DEF Near, Works
    <2>6. clients[t].commit_count = 0 /\ clients[t].commit_status = "ReadyToCommit"
      BY <1>1, SInvFacts DEF Count
    <2>7. \A s \in Peers(CoordinatorOf[t]) : Stage(<<s, t>>) = "idle"
      BY <1>1, SInvFacts DEF Far
    <2> QED
      BY <1>1, <2>1, <2>2, <2>4, <2>5, <2>6, <2>7, AskStep DEF Stopped
  <1> QED
    BY <1>2, <1>3 DEF LocalVote

\* The handler ends, with or without a last word to its client.
LEMMA FinishStep ==
    ASSUME SInv, NEW t \in TransactionIds, handler[t] \notin {"accept", "done"},
           Open(t) = {}, Entries(t) = {}, forward_rcv[t] = <<>>,
           handler' = Set(handler, t, "done"), Tell(t, "Finished", NoCall),
           UNCHANGED <<shards, pending, acks, forward_rcv, clients, net, remote>>,
           NEW r \in Responses, r # "Ok", reply' = Set(reply, t, r),
           \A s \in Peers(CoordinatorOf[t]) :
               /\ r = "CommitOk" => Bound(t, s)
               /\ r = "none" => Stage(<<s, t>>) = "idle"
               /\ IsErr(r) => Stage(<<s, t>>) = "aborted",
           /\ r = "CommitOk" => Stage(Here(t)) = "committed"
           /\ r = "none" => Stage(Here(t)) = "idle"
           /\ IsErr(r) => Stage(Here(t)) = "aborted"
    PROVE  Carriers' /\ Protocols'
  <1> DEFINE c == CoordinatorOf[t]
             e == [to |-> "Finished", tx |-> t, call |-> NoCall]
  <1>1. NoCall \in Calls
    BY HalfIsPositive DEF NoCall, Calls, Ops, Amounts
  <1>2. /\ EntriesRouted(from_clients)' /\ Entries(t)' = {e}
        /\ \A u \in TransactionIds : u # t => Entries(u)' = Entries(u)
    BY <1>1, SInvFacts, TellEffect
  <1>3. e.to = "Finished"
    OBVIOUS
  <1> HIDE DEF e
  <1>4. handler'[t] = "done" /\ reply'[t] = r /\ HandlerTypes'
    BY SInvFacts DEF HandlerTypes, Set
  <1>5. \A k \in Tasks : Stage(k)' = Stage(k)
    BY SameStages
  <1>6. ASSUME NEW s \in Peers(c)
        PROVE  /\ ~Asked(t, s)' /\ ~Requested(t, s)' /\ ~Works(t, s)' /\ ~Answers(t, s)'
               /\ Mail(c, s, t)' = Mail(c, s, t) /\ Stage(<<s, t>>)' = Stage(<<s, t>>)
               /\ Bound(t, s)' = Bound(t, s)
    <2>1. ~Requested(t, s) /\ ~Works(t, s) /\ ~Answers(t, s)
      BY DEF Open
    <2>2. s \in Shards /\ s # "Finished"
      BY CoordinatorConstants DEF Peers
    <2>3. ~Asked(t, s)'
      BY <1>2, <1>3, <2>2 DEF Asked
    <2>4. Stage(<<s, t>>)' = Stage(<<s, t>>)
      BY <1>5, <2>2, SInvFacts
    <2>5. Mail(c, s, t)' = Mail(c, s, t) /\ Mail(s, c, t)' = Mail(s, c, t)
      BY DEF Mail
    <2> QED
      BY <2>1, <2>3, <2>4, <2>5 DEF Requested, Works, Answers, Bound
  <1>7. Open(t)' = {}
    BY <1>6 DEF Open
  <1>8. Count(t)'
    BY <1>4, <1>7 DEF Count
  <1>9. Entered(t)'
    BY <1>2, <1>3, <1>4 DEF Entered
  <1>10. Standing(t)'
    BY <1>4 DEF Standing
  <1>11. Near(t)'
    <2>1. Stage(Here(t))' = Stage(Here(t))
      BY <1>5, SInvFacts
    <2> QED
      BY <1>4, <2>1, SInvFacts DEF Near, Works
  <1>12. ASSUME NEW s \in Peers(c) PROVE Leg(t, s)'
    BY <1>6 DEF Leg, Requested
  <1>13. ASSUME NEW s \in Peers(c) PROVE Far(t, s)'
    <2>1. Far(t, s)
      BY SInvFacts
    <2> QED
      BY <1>4, <1>6, <2>1 DEF Far
  <1>14. Protocol(t)'
    BY <1>8, <1>9, <1>10, <1>11, <1>12, <1>13 DEF Protocol
  <1>15. Elsewhere(t)
    BY <1>2, SInvFacts, HandlerElsewhere
  <1>16. Carriers'
    BY <1>2, <1>4, SInvFacts DEF Carriers, MailRouted
  <1> QED
    BY <1>14, <1>15, <1>16, SInvFacts, OneTransaction

\* The client leaves.
LEMMA DisconnectStep ==
    ASSUME SInv, NEW t \in TransactionIds, Disconnect(t)
    PROVE  Carriers' /\ Protocols'
  <1>1. /\ handler[t] = "idle" /\ handler' = Set(handler, t, "done")
        /\ Tell(t, "Finished", NoCall)
        /\ UNCHANGED <<shards, pending, reply, acks, forward_rcv, clients, net, remote>>
    BY DEF Disconnect
  <1>2. Open(t) = {} /\ Entries(t) = {} /\ forward_rcv[t] = <<>>
    BY <1>1, SInvFacts DEF Count, Entered
  <1>3. reply[t] = "none" /\ reply' = Set(reply, t, "none")
    BY <1>1, SInvFacts DEF Standing, Set, HandlerTypes
  <1>4. /\ \A s \in Peers(CoordinatorOf[t]) : Stage(<<s, t>>) = "idle"
        /\ Stage(Here(t)) = "idle"
    BY <1>1, SInvFacts DEF Far, Near
  <1> QED
    BY <1>1, <1>2, <1>3, <1>4, FinishStep DEF Responses, IsErr

\* The local commit is done and the client is told.
LEMMA CommitDoneStep ==
    ASSUME SInv, NEW t \in TransactionIds, CommitDone(t)
    PROVE  Carriers' /\ Protocols'
  <1>1. /\ handler[t] = "commit" /\ pc[Here(t)] \in {"committed", "failed"}
        /\ FinishWith(t, "CommitOk")
        /\ UNCHANGED <<shards, pending, acks, forward_rcv, clients, net, remote>>
    BY DEF CommitDone
  <1>2. Open(t) = {} /\ Entries(t) = {} /\ forward_rcv[t] = <<>>
    BY <1>1, SInvFacts DEF Count, Entered
  <1>3. \A s \in Peers(CoordinatorOf[t]) : Bound(t, s)
    BY <1>1, SInvFacts DEF Far
  <1>4. Stage(Here(t)) = "committed"
    <2>1. Stage(Here(t)) \in {"commit", "committed"} /\ Stage(Here(t)) \in Outcomes
      BY <1>1, SInvFacts, StageFacts DEF Near, Outcomes
    <2> QED
      BY <2>1 DEF Outcomes
  <1> QED
    BY <1>1, <1>2, <1>3, <1>4, FinishStep DEF FinishWith, Responses, IsErr

\* The local abort is done.
LEMMA AbortDoneStep ==
    ASSUME SInv, NEW t \in TransactionIds, AbortDone(t)
    PROVE  Carriers' /\ Protocols'
  <1> DEFINE open == Cardinality(Open(t))
             fwd == forward_rcv[t]
  <1>1. /\ handler[t] = "acks" /\ acks[t] >= Cardinality(Shards)
        /\ FinishWith(t, pending[t])
        /\ UNCHANGED <<shards, pending, acks, forward_rcv, clients, net, remote>>
    BY DEF AbortDone, AbortsExpected
  <1>2. /\ acks[t] + open + Len(fwd) = Cardinality(Shards) /\ open \in Nat
        /\ Len(fwd) \in Nat /\ acks[t] \in Nat /\ Cardinality(Shards) \in Nat
        /\ Len(fwd) = 0 => fwd = <<>>
    <2>1. acks[t] + open + Len(fwd) = Cardinality(Shards)
      BY <1>1, SInvFacts DEF Count
    <2>2. fwd \in Seq(Responses) /\ acks[t] \in 0 .. Cardinality(Shards)
      BY SInvFacts DEF HandlerTypes
    <2>3. Len(fwd) \in Nat /\ (Len(fwd) = 0 => fwd = <<>>)
      BY <2>2
    <2>4. Cardinality(Shards) \in Nat /\ open \in Nat
      BY OpenCount
    <2>5. acks[t] \in Nat
      BY <2>2, <2>4
    <2> QED
      BY <2>1, <2>3, <2>4, <2>5
  <1> HIDE DEF open, fwd
  <1>3. \A a, b, d, n \in Nat : a + b + d = n /\ a >= n => b = 0 /\ d = 0
    OBVIOUS
  <1>4. open = 0 /\ fwd = <<>>
    BY <1>1, <1>2, <1>3
  <1>5. Open(t) = {} /\ forward_rcv[t] = <<>>
    BY <1>4, OpenCount DEF open, fwd
  <1>6. Quiet(t)
    BY <1>1, <1>5, SInvFacts, QuietHandlers
  <1>7. /\ \A s \in Peers(CoordinatorOf[t]) : Stage(<<s, t>>) = "aborted"
        /\ Stage(Here(t)) = "aborted" /\ IsErr(pending[t])
    BY <1>1, <1>5, SInvFacts DEF Far, Near, Standing, Open
  <1>8. pending[t] \in Responses /\ pending[t] \notin {"Ok", "CommitOk", "none"}
    BY <1>7 DEF IsErr, Responses
  <1> QED
    BY <1>1, <1>5, <1>6, <1>7, <1>8, FinishStep DEF FinishWith, Quiet

\* A peer has confirmed its abort.
LEMMA CountAckStep ==
    ASSUME SInv, NEW t \in TransactionIds, CountAck(t)
    PROVE  Carriers' /\ Protocols'
  <1> DEFINE c == CoordinatorOf[t]
             fwd == forward_rcv[t]
             N == Cardinality(Shards)
  <1>1. /\ handler[t] = "acks" /\ acks[t] < N /\ fwd # <<>>
        /\ acks' = Set(acks, t, IF Head(fwd) = "Aborted" THEN acks[t] + 1 ELSE acks[t])
        /\ forward_rcv' = Set(forward_rcv, t, Tail(fwd))
        /\ UNCHANGED <<shards, handler, pending, reply, clients, from_clients, net, remote>>
    BY DEF CountAck, AbortsExpected
  <1>2. /\ fwd \in Seq(Responses) /\ acks[t] \in 0 .. N /\ N \in Nat
        /\ \A i \in DOMAIN fwd : fwd[i] = "Aborted"
    BY SMTT(30), <1>1, SInvFacts, OpenCount DEF HandlerTypes, Count
  <1> HIDE DEF fwd, N
  <1>3. /\ Head(fwd) = "Aborted" /\ Tail(fwd) \in Seq(Responses)
        /\ Len(Tail(fwd)) = Len(fwd) - 1 /\ Len(fwd) \in Nat
        /\ \A i \in DOMAIN Tail(fwd) : Tail(fwd)[i] = "Aborted"
    BY <1>1, <1>2
  <1>4. acks[t] + 1 \in 0 .. N /\ acks[t] \in Nat
    BY <1>1, <1>2
  <1>5. /\ acks'[t] = acks[t] + 1 /\ forward_rcv'[t] = Tail(fwd) /\ HandlerTypes'
    BY <1>1, <1>3, <1>4, SInvFacts DEF HandlerTypes, Set, N
  <1>6. \A k \in Tasks : Stage(k)' = Stage(k)
    BY <1>1, SameStages
  <1>7. ASSUME NEW s \in Peers(c)
        PROVE  /\ Stage(<<s, t>>)' = Stage(<<s, t>>)
               /\ Mail(c, s, t)' = Mail(c, s, t) /\ Mail(s, c, t)' = Mail(s, c, t)
               /\ Asked(t, s)' = Asked(t, s) /\ Requested(t, s)' = Requested(t, s)
               /\ Works(t, s)' = Works(t, s) /\ Answers(t, s)' = Answers(t, s)
    BY <1>1, <1>6, SInvFacts DEF Peers, Mail, Asked, Requested, Works, Answers, Entries
  <1>8. Open(t)' = Open(t)
    BY <1>7 DEF Open
  <1>9. Count(t)'
    <2>1. acks[t] + Cardinality(Open(t)) + Len(fwd) = N
      BY <1>1, SInvFacts DEF Count, fwd, N
    <2>2. Cardinality(Open(t)) \in Nat
      BY OpenCount
    <2>3. (acks[t] + 1) + Cardinality(Open(t)) + (Len(fwd) - 1) = N
      BY SMTT(30), <1>2, <1>3, <1>4, <2>1, <2>2
    <2> QED
      BY <1>1, <1>3, <1>5, <1>8, <2>3 DEF Count, N
  <1>10. Entered(t)'
    BY <1>1, SInvFacts DEF Entered, Entries, RealCall, AsksFor
  <1>11. Standing(t)'
    BY <1>1, SInvFacts DEF Standing
  <1>12. Near(t)'
    BY <1>1, <1>6, SInvFacts DEF Near, Works, Here
  <1>13. ASSUME NEW s \in Peers(c) PROVE Leg(t, s)'
    BY <1>1, <1>7, SInvFacts DEF Leg, RealCall, AsksFor
  <1>14. ASSUME NEW s \in Peers(c) PROVE Far(t, s)'
    <2>1. Far(t, s)
      BY SInvFacts
    <2> QED
      BY <1>1, <1>7, <2>1 DEF Far
  <1>15. Protocol(t)'
    BY <1>9, <1>10, <1>11, <1>12, <1>13, <1>14 DEF Protocol
  <1>16. Elsewhere(t)
    <2>1. handler' = Set(handler, t, handler[t])
      BY <1>1, SInvFacts DEF HandlerTypes, Set
    <2> QED
      BY <1>1, <2>1, SInvFacts, SameEntries, HandlerElsewhere
  <1> QED
    BY <1>1, <1>5, <1>15, <1>16, SInvFacts, SameCarriers, OneTransaction

-----------------------------------------------------------------------------
(* The loop handles what a handler has told it                             *)

\* The loop forgets a client whose handler has ended.
LEMMA FinishedStep ==
    ASSUME SInv, NEW t \in TransactionIds, NEW e, Handles(t, e), e.to = "Finished",
           EntriesRouted(from_clients)', clients' = [clients EXCEPT ![t].open = FALSE],
           UNCHANGED <<net, shards, handler, pending, reply, acks, forward_rcv, remote>>
    PROVE  Carriers' /\ Protocols'
  <1> DEFINE c == CoordinatorOf[t]
  <1>2. /\ e \in Entries(t) /\ Entries(t)' = {}
        /\ \A u \in TransactionIds : u # t => Entries(u)' = Entries(u)
    BY DEF Handles
  <1>3. handler[t] = "done"
    <2>1. c \in Shards /\ "Finished" \notin Shards
      BY CoordinatorConstants
    <2> QED
      BY <1>2, <2>1, SInvFacts DEF Entered, Peers
  <1>4. clients' = Set(clients, t, clients'[t]) /\ HandlerTypes'
    BY SInvFacts DEF HandlerTypes, Set
  <1>5. \A k \in Tasks : Stage(k)' = Stage(k)
    BY SameStages
  <1>6. Open(t) = {} /\ forward_rcv[t] = <<>>
    BY <1>3, SInvFacts DEF Count
  <1>7. ASSUME NEW s \in Peers(c)
        PROVE  /\ Stage(<<s, t>>)' = Stage(<<s, t>>)
               /\ Mail(c, s, t)' = Mail(c, s, t) /\ Mail(s, c, t)' = Mail(s, c, t)
               /\ ~Asked(t, s)' /\ ~Requested(t, s)' /\ ~Works(t, s)' /\ ~Answers(t, s)'
               /\ Bound(t, s)' = Bound(t, s)
    <2>1. ~Requested(t, s) /\ ~Works(t, s) /\ ~Answers(t, s)
      BY <1>6 DEF Open
    <2>2. Stage(<<s, t>>)' = Stage(<<s, t>>)
      BY <1>5, SInvFacts DEF Peers
    <2>3. Mail(c, s, t)' = Mail(c, s, t) /\ Mail(s, c, t)' = Mail(s, c, t)
      BY DEF Mail
    <2> QED
      BY <1>2, <2>1, <2>2, <2>3 DEF Asked, Requested, Works, Answers, Bound
  <1>8. Open(t)' = {}
    BY <1>7 DEF Open
  <1>9. Count(t)'
    BY <1>3, <1>6, <1>8 DEF Count
  <1>10. Entered(t)' /\ Standing(t)'
    BY <1>2, <1>3, SInvFacts DEF Entered, Standing
  <1>11. Near(t)'
    BY <1>3, <1>5, SInvFacts DEF Near, Works
  <1>12. ASSUME NEW s \in Peers(c) PROVE Leg(t, s)'
    BY <1>7 DEF Leg, Requested
  <1>13. ASSUME NEW s \in Peers(c) PROVE Far(t, s)'
    BY SMTT(30), <1>3, <1>7, SInvFacts DEF Far
  <1>14. Protocol(t)'
    BY <1>9, <1>10, <1>11, <1>12, <1>13 DEF Protocol
  <1>15. Elsewhere(t)
    <2>1. handler' = Set(handler, t, handler[t])
      BY SInvFacts DEF HandlerTypes, Set
    <2> QED
      BY <1>2, <1>4, <2>1, SInvFacts, HandlerElsewhere
  <1>16. Carriers'
    BY <1>4, SInvFacts DEF Carriers, MailRouted
  <1> QED
    BY <1>14, <1>15, <1>16, SInvFacts, OneTransaction

\* The leg of a request that goes out
LEMMA RequestSent ==
    ASSUME NEW t, NEW s \in Peers(CoordinatorOf[t]), Leg(t, s), Far(t, s), Asked(t, s),
           handler[t] \in {"remote", "acks", "votes"}, SameHandler(t),
           NEW x, x.kind = "Request", RealCall(t, x.call),
           Mail(CoordinatorOf[t], s, t)' = {x}, ~Asked(t, s)',
           Mail(s, CoordinatorOf[t], t)' = Mail(s, CoordinatorOf[t], t),
           remote'[<<s, t>>] = remote[<<s, t>>], Stage(<<s, t>>)' = Stage(<<s, t>>)
    PROVE  Leg(t, s)' /\ Far(t, s)'
  <1>1. /\ Mail(s, CoordinatorOf[t], t)' = {} /\ ~Works(t, s)' /\ ~Answers(t, s)'
        /\ Requested(t, s)'
    BY DEF Leg, Answers, Works, Requested
  <1>2. s \in Open(t)'
    BY <1>1 DEF Open
  <1>3. handler'[t] = handler[t]
    BY DEF SameHandler
  <1>4. RealCall(t, x.call)'
    BY <1>3 DEF RealCall, AsksFor
  <1>5. Leg(t, s)'
    BY <1>1, <1>4 DEF Leg
  <1>6. Far(t, s)'
    <2>1. CASE handler[t] = "remote"
      <3>1. Stage(<<s, t>>)' = "idle"
        BY <2>1 DEF Far
      <3> QED
        BY <1>1, <1>2, <1>3, <2>1, <3>1 DEF Far
    <2>2. CASE handler[t] = "acks"
      <3>1. Stage(<<s, t>>)' \in Stopped
        BY <2>2 DEF Far
      <3> QED
        BY <1>1, <1>3, <2>2, <3>1 DEF Far
    <2>3. CASE handler[t] = "votes"
      <3>1. Stage(<<s, t>>)' = "idle"
        BY <2>3 DEF Far
      <3> QED
        BY <1>1, <1>2, <1>3, <2>3, <3>1 DEF Far
    <2> QED
      BY <2>1, <2>2, <2>3
  <1> QED
    BY <1>5, <1>6

\* A request goes on to the servers it is for.
LEMMA ForwardStep ==
    ASSUME SInv, NEW t \in TransactionIds, NEW e, Handles(t, e), e.to # "Finished",
           NEW x, x.tx = t, x.kind = "Request", x.call = e.call,
           NEW targets \in SUBSET Peers(CoordinatorOf[t]),
           \A s \in Peers(CoordinatorOf[t]) : s \in targets <=> Asked(t, s),
           Adds(net, net', CoordinatorOf[t], targets, x),
           EntriesRouted(from_clients)', MailRouted(net)',
           UNCHANGED <<clients, shards, handler, pending, reply, acks, forward_rcv, remote>>
    PROVE  Carriers' /\ Protocols'
  <1> DEFINE n == CoordinatorOf[t]
  <1>1. /\ e \in Entries(t) /\ Entries(t)' = {}
        /\ \A u \in TransactionIds : u # t => Entries(u)' = Entries(u)
    BY DEF Handles
  <1>2. handler[t] \in {"remote", "acks", "votes"} /\ RealCall(t, e.call)
    BY <1>1, SInvFacts DEF Entered
  <1>3. n \in Shards /\ \A s \in Peers(n) : s \in Shards /\ s # n
    BY SInvFacts DEF Peers
  <1>4. /\ \A s \in targets : Mail(n, s, t)' = {x}
        /\ \A m, p \in Shards : m # n \/ p \notin targets => Mail(m, p, t)' = Mail(m, p, t)
    BY DEF Adds, Mail
  <1>5. ASSUME NEW u \in TransactionIds, u # t PROVE SameMail(u)
    BY <1>5 DEF Adds, Mail, SameMail
  <1>8. \A k \in Tasks : Stage(k)' = Stage(k)
    BY SameStages
  <1>9. ASSUME NEW s \in Peers(n)
        PROVE  /\ Stage(<<s, t>>)' = Stage(<<s, t>>) /\ Mail(s, n, t)' = Mail(s, n, t)
               /\ ~Asked(t, s)' /\ Requested(t, s)' = (Asked(t, s) \/ Requested(t, s))
               /\ Works(t, s)' = Works(t, s) /\ Answers(t, s)' = Answers(t, s)
               /\ Asked(t, s) => Mail(n, s, t)' = {x}
               /\ ~Asked(t, s) => Mail(n, s, t)' = Mail(n, s, t)
    <2>1. Stage(<<s, t>>)' = Stage(<<s, t>>) /\ ~Asked(t, s)'
      BY <1>1, <1>3, <1>8, SInvFacts DEF Asked
    <2>2. Mail(s, n, t)' = Mail(s, n, t)
      BY <1>3, <1>4
    <2>3. Asked(t, s) => Mail(n, s, t)' = {x}
      BY <1>4
    <2>4. ~Asked(t, s) => Mail(n, s, t)' = Mail(n, s, t)
      BY <1>3, <1>4
    <2>5. Requested(t, s)' = (Asked(t, s) \/ Requested(t, s))
      BY <2>3, <2>4 DEF Requested
    <2> QED
      BY <2>1, <2>2, <2>3, <2>4, <2>5 DEF Works, Answers
  <1>10. Open(t)' = Open(t)
    BY <1>9 DEF Open
  <1>11. Count(t)'
    <2>1. Count(t)
      BY SInvFacts
    <2> QED
      BY <1>10, <2>1 DEF Count
  <1>12. Entered(t)' /\ Standing(t)'
    BY <1>1, SInvFacts DEF Entered, Standing
  <1>13. Near(t)'
    <2>1. Near(t)
      BY SInvFacts
    <2> QED
      BY <1>3, <1>8, <2>1 DEF Near, Works, Here, Tasks
  <1>14. ASSUME NEW s \in Peers(n) PROVE Leg(t, s)' /\ Far(t, s)'
    <2>1. Leg(t, s) /\ Far(t, s)
      BY SInvFacts
    <2>2. SameHandler(t) /\ remote'[<<s, t>>] = remote[<<s, t>>]
      BY DEF SameHandler
    <2>3. CASE Asked(t, s)
      BY <1>2, <1>9, <2>1, <2>2, <2>3, RequestSent
    <2>4. CASE ~Asked(t, s)
      <3>1. SameLeg(t, s) /\ handler'[t] = handler[t]
        BY <1>9, <2>2, <2>4 DEF SameLeg, SameHandler
      <3> QED
        BY <2>1, <2>2, <3>1, LegKept
    <2> QED
      BY <2>3, <2>4
  <1>15. Protocol(t)'
    BY <1>11, <1>12, <1>13, <1>14 DEF Protocol
  <1>16. Elsewhere(t)
    <2> SUFFICES ASSUME NEW u \in TransactionIds, u # t PROVE SameView(u)
      BY DEF Elsewhere
    <2>1. SameHandler(u) /\ SameTasks(u)
      BY <1>8, SInvFacts DEF SameHandler, SameTasks
    <2> QED
      BY <1>1, <1>5, <2>1 DEF SameView
  <1>17. Carriers'
    BY SInvFacts DEF Carriers, HandlerTypes
  <1> QED
    BY <1>15, <1>16, <1>17, SInvFacts, OneTransaction

\* The loop takes an entry of a handler, whatever it is.
LEMMA HandleClientStateStep ==
    ASSUME SInv, NEW n \in Shards, HandleClientState(n)
    PROVE  Carriers' /\ Protocols'
  <1> DEFINE e == Head(from_clients[n])
             t == e.tx
             x == Message("Request", t, e.call, "none")
  <1>1. UNCHANGED <<shards, handler, pending, reply, acks, forward_rcv, remote>>
    BY DEF HandleClientState
  <1>2. \/ /\ e.to = "Finished" /\ UNCHANGED net
           /\ clients' = [clients EXCEPT ![t].open = FALSE]
        \/ e.to = "Broadcast" /\ UNCHANGED clients /\ Send(n, Peers(n), x)
        \/ e.to \in Shards /\ UNCHANGED clients /\ Send(n, {e.to}, x)
    BY DEF HandleClientState
  <1>3. EntriesRouted(from_clients) /\ MailRouted(net)
    BY DEF SInv, Carriers
  <1>4. /\ t \in TransactionIds /\ EntriesRouted(from_clients)' /\ e \in ClientStates
        /\ Handles(t, e) /\ n = CoordinatorOf[t]
    <2>1. /\ from_clients[n] # <<>> /\ from_clients' = [from_clients EXCEPT ![n] = Tail(@)]
          /\ e = Head(from_clients[n])
      BY DEF HandleClientState
    <2> HIDE DEF e
    <2> QED
      BY <1>3, <2>1, HandledEffect
  <1> HIDE DEF e, t
  <1>5. Shards \cap {"Broadcast", "Finished"} = {} /\ Entries(t) = {e}
    BY <1>4, CoordinatorConstants DEF Handles
  <1>6. CASE e.to = "Finished"
    <2>1. clients' = [clients EXCEPT ![t].open = FALSE] /\ UNCHANGED net
      BY <1>2, <1>5, <1>6
    <2> QED
      BY <1>1, <1>4, <1>6, <2>1, FinishedStep
  <1>7. CASE e.to # "Finished"
    <2>1. \A s \in Shards : Asked(t, s) <=> e.to \in {s, "Broadcast"}
      BY <1>5 DEF Asked
    <2>2. x \in Messages /\ x.tx = t /\ x.kind = "Request" /\ x.call = e.call
      BY <1>4 DEF x, Message, Messages, ClientStates, Responses
    <2> HIDE DEF x
    <2>3. PICK targets \in SUBSET Peers(n) :
             /\ \A s \in Peers(n) : s \in targets <=> Asked(t, s)
             /\ Send(n, targets, x) /\ UNCHANGED clients
      <3>1. CASE e.to = "Broadcast"
        BY <1>2, <1>5, <2>1, <3>1 DEF Peers
      <3>2. CASE e.to # "Broadcast"
        <4>1. e.to \in Peers(n)
          BY <1>4, <1>5, <1>7, <3>2, SInvFacts DEF Entered
        <4>2. \A s \in Peers(n) : s \in {e.to} <=> Asked(t, s)
          BY <2>1, <3>2 DEF Peers
        <4> QED
          BY <1>2, <1>7, <3>2, <4>1, <4>2
      <3> QED
        BY <3>1, <3>2
    <2>4. \A s \in targets : s \in Peers(n) /\ s \in Shards /\ s # n /\ Asked(t, s)
      BY <2>3 DEF Peers
    <2>5. Free(net, n, targets, x)
      <3>1. \A s \in targets : Route(x, n, s) /\ Of(net[n][s], x.tx) = {}
        BY <1>4, <2>2, <2>4, SInvFacts DEF Leg, Route, Mail
      <3> QED
        BY <3>1 DEF Free
    <2>6. targets \in SUBSET Shards /\ net' = Sent(net, n, targets, x)
      BY <2>3, <2>4 DEF Send
    <2>7. MailRouted(net') /\ Adds(net, net', n, targets, x)
      BY <1>3, <2>2, <2>5, <2>6, SentEffect
    <2>8. UNCHANGED <<clients, shards, handler, pending, reply, acks, forward_rcv, remote>>
      BY <1>1, <2>3
    <2> QED
      BY <1>4, <1>7, <2>2, <2>3, <2>7, <2>8, ForwardStep
  <1> QED
    BY <1>6, <1>7

-----------------------------------------------------------------------------
(* Steps on one leg of a request, away from the handler                    *)

\* What a step on the leg of t to shard s leaves alone
OtherwiseSame(t, s) ==
    /\ UNCHANGED <<handler, pending, reply, acks, from_clients>>
    /\ \A u \in TransactionIds, n \in Shards : (u # t \/ n # s) =>
          /\ remote'[<<n, u>>] = remote[<<n, u>>]
          /\ Stage(<<n, u>>)' = Stage(<<n, u>>)

\* The legs of a transaction to other peers are not disturbed,
LEMMA OtherLegs ==
    ASSUME NEW t \in TransactionIds, NEW s \in Peers(CoordinatorOf[t]), OtherwiseSame(t, s),
           \A p \in Peers(CoordinatorOf[t]) : p # s =>
               /\ Mail(CoordinatorOf[t], p, t)' = Mail(CoordinatorOf[t], p, t)
               /\ Mail(p, CoordinatorOf[t], t)' = Mail(p, CoordinatorOf[t], t)
    PROVE  \A p \in Peers(CoordinatorOf[t]) : p # s => SameLeg(t, p)
  <1> SUFFICES ASSUME NEW p \in Peers(CoordinatorOf[t]), p # s PROVE SameLeg(t, p)
    OBVIOUS
  <1>1. /\ Stage(<<p, t>>)' = Stage(<<p, t>>) /\ remote'[<<p, t>>] = remote[<<p, t>>]
    BY DEF OtherwiseSame, Peers
  <1>2. Asked(t, p)' <=> Asked(t, p)
    BY DEF OtherwiseSame, Asked, Entries
  <1> QED
    BY <1>1, <1>2 DEF SameLeg

\* so one leg is all there is to check,
LEMMA OneLeg ==
    ASSUME NEW t \in TransactionIds, NEW s \in Peers(CoordinatorOf[t]), Protocol(t),
           OtherwiseSame(t, s), UNCHANGED <<forward_rcv, clients>>,
           \A p \in Peers(CoordinatorOf[t]) : p # s =>
               /\ Mail(CoordinatorOf[t], p, t)' = Mail(CoordinatorOf[t], p, t)
               /\ Mail(p, CoordinatorOf[t], t)' = Mail(p, CoordinatorOf[t], t),
           Leg(t, s)', Far(t, s)', s \in Open(t)' <=> s \in Open(t)
    PROVE  Protocol(t)'
  <1> DEFINE c == CoordinatorOf[t]
  <1>1. c \in Shards /\ c # s /\ s \in Shards
    BY CoordinatorConstants DEF Peers
  <1>2. \A p \in Peers(c) : p # s => SameLeg(t, p)
    BY OtherLegs
  <1>3. UNCHANGED <<handler, pending, reply, acks>> /\ Entries(t)' = Entries(t)
    BY DEF OtherwiseSame, Entries
  <1>4. Stage(Here(t))' = Stage(Here(t)) /\ remote'[Here(t)] = remote[Here(t)]
    BY <1>1 DEF OtherwiseSame, Here
  <1>5. Open(t)' = Open(t)
    <2>1. \A p \in Peers(c) : p \in Open(t)' <=> p \in Open(t)
      BY <1>2, LegKept
    <2>2. Open(t) \subseteq Peers(c) /\ Open(t)' \subseteq Peers(c)
      BY DEF Open
    <2> QED
      BY <2>1, <2>2
  <1>6. Entered(t)' /\ Standing(t)'
    <2>1. \A d : RealCall(t, d)' = RealCall(t, d)
      BY <1>3 DEF RealCall, AsksFor
    <2> QED
      BY <1>3, <2>1 DEF Protocol, Entered, Standing
  <1>7. Near(t)'
    BY <1>3, <1>4 DEF Protocol, Near, Works, Here
  <1>8. Count(t)'
    BY <1>3, <1>5 DEF Protocol, Count
  <1>9. SameHandler(t)
    BY <1>3 DEF SameHandler
  <1>10. ASSUME NEW p \in Peers(c) PROVE Leg(t, p)' /\ Far(t, p)'
    BY <1>2, <1>3, <1>9, LegKept DEF Protocol
  <1> QED
    BY <1>6, <1>7, <1>8, <1>10 DEF Protocol

\* for one transaction.
LEMMA LegElsewhere ==
    ASSUME NEW t \in TransactionIds, NEW s, OtherwiseSame(t, s),
           \A u \in TransactionIds : u # t =>
               /\ SameMail(u) /\ forward_rcv'[u] = forward_rcv[u] /\ clients'[u] = clients[u]
    PROVE  Elsewhere(t)
  BY DEF Elsewhere, SameView, SameHandler, SameTasks, OtherwiseSame, Entries

\* A message about t leaves the queue from m to n: what t and the others see
MailLeaves(t, m, n, x) ==
    /\ Mail(m, n, t) = {x} /\ Mail(m, n, t)' = {}
    /\ \A p, q \in Shards : p # m \/ q # n => Mail(p, q, t)' = Mail(p, q, t)
    /\ \A u \in TransactionIds : u # t => SameMail(u)

\* What a message that is taken leaves on its way: nothing of its transaction
LEMMA RemovesMail ==
    ASSUME NEW m \in Shards, NEW n \in Shards, NEW x, Removes(net, net', m, n, x),
           NEW t \in TransactionIds, x.tx = t
    PROVE  MailLeaves(t, m, n, x)
  <1>1. Mail(m, n, t) = {x} /\ Mail(m, n, t)' = {}
    BY DEF Removes, Mail
  <1>2. \A p, q \in Shards : p # m \/ q # n => Mail(p, q, t)' = Mail(p, q, t)
    BY DEF Removes, Mail
  <1>3. \A u \in TransactionIds : u # t => SameMail(u)
    BY DEF Removes, Mail, SameMail
  <1> QED
    BY <1>1, <1>2, <1>3 DEF MailLeaves

\* A peer starts the call that a coordinator asks for.
LEMMA RequestArrives ==
    ASSUME SInv, NEW t \in TransactionIds, NEW s \in Peers(CoordinatorOf[t]),
           NEW x, x.tx = t, x.kind = "Request",
           Removes(net, net', CoordinatorOf[t], s, x), MailRouted(net)',
           Start(s, t, x.call), remote' = Set(remote, <<s, t>>, x.call.op),
           UNCHANGED <<handler, pending, reply, acks, forward_rcv, clients, from_clients>>
    PROVE  Carriers' /\ Protocols'
  <1> DEFINE c == CoordinatorOf[t]
             op == x.call.op
  <1>1. c \in Shards /\ s \in Shards /\ s # c /\ <<s, t>> \in Tasks
    BY SInvFacts DEF Peers
  <1>2. /\ Mail(c, s, t) = {x} /\ Mail(c, s, t)' = {} /\ Mail(s, c, t)' = Mail(s, c, t)
        /\ \A p, q \in Shards : p # c \/ q # s => Mail(p, q, t)' = Mail(p, q, t)
        /\ \A u \in TransactionIds : u # t => SameMail(u)
    <2>1. MailLeaves(t, c, s, x)
      BY <1>1, RemovesMail
    <2> QED
      BY <1>1, <2>1 DEF MailLeaves
  <1>3. Requested(t, s) /\ s \in Open(t)
    BY <1>2 DEF Requested, Open
  <1>4. ~Works(t, s) /\ Mail(s, c, t) = {} /\ ~Asked(t, s) /\ RealCall(t, x.call)
    BY <1>2, SInvFacts DEF Leg, Answers
  <1>5. AsksFor(t, op) /\ op \in Ops /\ op # "none"
    BY <1>4 DEF RealCall, Calls, AsksFor
  <1>6. Stage(<<s, t>>)' = op /\ OnlyStage(s, t)
    <2>1. InShape
      BY DEF SInv
    <2>2. Starts(s, t, op)
      BY <1>1, <2>1, StartStage
    <2> QED
      BY <2>2 DEF Starts
  <1> HIDE DEF op
  <1>7. OtherwiseSame(t, s)
    <2>1. \A u \in TransactionIds, n \in Shards : u # t \/ n # s =>
             Stage(<<n, u>>)' = Stage(<<n, u>>)
      BY <1>1, <1>6, StagesOfOthers
    <2>2. \A u \in TransactionIds, n \in Shards : u # t \/ n # s =>
             remote'[<<n, u>>] = remote[<<n, u>>]
      BY SInvFacts DEF HandlerTypes, Tasks, Set
    <2> QED
      BY <2>1, <2>2 DEF OtherwiseSame
  <1>8. remote'[<<s, t>>] = op /\ HandlerTypes'
    BY <1>1, <1>5, SInvFacts DEF HandlerTypes, Set, op
  <1>9. /\ ~Asked(t, s)' /\ ~Requested(t, s)' /\ Works(t, s)' /\ ~Answers(t, s)'
        /\ Mail(s, c, t)' = {}
    BY <1>2, <1>4, <1>5, <1>8 DEF Asked, Requested, Works, Answers, Entries
  <1>10. s \in Open(t)'
    BY <1>9 DEF Open
  <1>11. Leg(t, s)'
    BY <1>2, <1>5, <1>8, <1>9 DEF Leg, AsksFor
  <1>12. Far(t, s)'
    <2>1. \/ handler'[t] = "remote" /\ op \in {"read", "change"}
          \/ handler'[t] = "acks" /\ op = "abort"
          \/ handler'[t] = "votes" /\ op = "check"
      BY <1>5 DEF AsksFor
    <2> QED
      BY <1>2, <1>6, <1>9, <1>10, <2>1 DEF Far
  <1>13. Protocol(t)'
    <2>1. \A p \in Peers(c) : p # s =>
             Mail(c, p, t)' = Mail(c, p, t) /\ Mail(p, c, t)' = Mail(p, c, t)
      BY <1>1, <1>2 DEF Peers
    <2> QED
      BY <1>3, <1>7, <1>10, <1>11, <1>12, <2>1, SInvFacts, OneLeg
  <1>14. Elsewhere(t)
    BY <1>2, <1>7, LegElsewhere
  <1>15. Carriers'
    BY <1>8, SInvFacts DEF Carriers, EntriesRouted
  <1> QED
    BY <1>13, <1>14, <1>15, SInvFacts, OneTransaction

\* The loop of the peer takes the request.
LEMMA HandleRemoteRequestStep ==
    ASSUME SInv, NEW m \in Shards, NEW n \in Shards, HandleRemoteRequest(m, n)
    PROVE  Carriers' /\ Protocols'
  <1> DEFINE x == Head(net[m][n])
             t == x.tx
  <1>1. /\ net[m][n] # <<>> /\ x.kind = "Request" /\ net' = Received(m, n)
    BY DEF HandleRemoteRequest, Receive
  <1>2. /\ Start(n, t, x.call) /\ remote' = Set(remote, <<n, t>>, x.call.op)
        /\ UNCHANGED <<handler, pending, reply, acks, forward_rcv, clients, from_clients>>
    BY DEF HandleRemoteRequest, Set
  <1>3. MailRouted(net) /\ x = Head(net[m][n])
    BY DEF SInv, Carriers
  <1> HIDE DEF x
  <1>4. /\ t \in TransactionIds /\ Route(x, m, n) /\ MailRouted(net')
        /\ Removes(net, net', m, n, x)
    BY <1>1, <1>3, ReceivedEffect
  <1>5. m = CoordinatorOf[t] /\ n \in Peers(CoordinatorOf[t])
    BY <1>1, <1>4 DEF Route, Peers
  <1> QED
    BY <1>1, <1>2, <1>4, <1>5, RequestArrives

\* A peer starts the commit that the coordinator has decided on.
LEMMA DoCommitArrives ==
    ASSUME SInv, NEW t \in TransactionIds, NEW s \in Peers(CoordinatorOf[t]),
           NEW x, x.tx = t, x.kind = "DoCommit",
           Removes(net, net', CoordinatorOf[t], s, x), MailRouted(net)', BeginCommit(s, t),
           UNCHANGED <<handler, pending, reply, acks, forward_rcv, clients, from_clients,
                       remote>>
    PROVE  Carriers' /\ Protocols'
  <1> DEFINE c == CoordinatorOf[t]
  <1>1. c \in Shards /\ s \in Shards /\ s # c
    BY SInvFacts DEF Peers
  <1>2. /\ Mail(c, s, t) = {x} /\ Mail(c, s, t)' = {} /\ Mail(s, c, t)' = Mail(s, c, t)
        /\ \A p, q \in Shards : p # c \/ q # s => Mail(p, q, t)' = Mail(p, q, t)
        /\ \A u \in TransactionIds : u # t => SameMail(u)
    <2>1. MailLeaves(t, c, s, x)
      BY <1>1, RemovesMail
    <2> QED
      BY <1>1, <2>1 DEF MailLeaves
  <1>3. Far(t, s) /\ handler[t] \in {"votes", "commit", "done"} /\ Bound(t, s)
    <2>1. Far(t, s)
      BY SInvFacts
    <2> QED
      BY <1>2, <2>1 DEF Far
  <1>4. ~Works(t, s) /\ Mail(s, c, t) = {} /\ ~Asked(t, s) /\ ~Requested(t, s)
    BY <1>2, SInvFacts DEF Leg, Answers, Requested
  <1>5. s \notin Open(t)
    BY <1>4 DEF Open, Answers
  <1>6. Stage(<<s, t>>) = "ready" /\ Stage(<<s, t>>)' = "commit" /\ OnlyStage(s, t)
    <2>1. InShape
      BY SInvFacts
    <2> QED
      BY <1>1, <2>1, BeginCommitStage DEF OnlyStage
  <1>7. OtherwiseSame(t, s)
    BY SMTT(30), <1>1, <1>6, StagesOfOthers DEF OtherwiseSame
  <1>8. /\ ~Asked(t, s)' /\ ~Requested(t, s)' /\ ~Works(t, s)' /\ ~Answers(t, s)'
        /\ Mail(s, c, t)' = {}
    BY <1>2, <1>4 DEF Asked, Requested, Works, Answers, Entries
  <1>9. s \notin Open(t)' /\ Bound(t, s)'
    BY <1>2, <1>6, <1>8 DEF Open, Bound
  <1>10. Leg(t, s)'
    BY <1>2, <1>8 DEF Leg
  <1>11. Far(t, s)'
    <2>1. handler[t] = "votes" => forward_rcv[t] # <<>> /\ forward_rcv[t][1] = "CommitOk"
      BY <1>2, <1>3, <1>5 DEF Far
    <2>2. handler[t] = "done" => reply[t] # "none" /\ ~IsErr(reply[t])
      BY <1>3, <1>6 DEF Far
    <2> QED
      BY <1>2, <1>3, <1>8, <1>9, <2>1, <2>2 DEF Far
  <1>12. Protocol(t)'
    <2>1. \A p \in Peers(c) : p # s =>
             Mail(c, p, t)' = Mail(c, p, t) /\ Mail(p, c, t)' = Mail(p, c, t)
      BY <1>1, <1>2 DEF Peers
    <2> QED
      BY <1>5, <1>7, <1>9, <1>10, <1>11, <2>1, SInvFacts, OneLeg
  <1>13. Elsewhere(t)
    BY <1>2, <1>7, LegElsewhere
  <1>14. Carriers'
    BY SInvFacts DEF Carriers, EntriesRouted, HandlerTypes
  <1> QED
    BY <1>12, <1>13, <1>14, SInvFacts, OneTransaction

\* The loop of the peer takes the decision.
LEMMA HandleDoCommitStep ==
    ASSUME SInv, NEW m \in Shards, NEW n \in Shards, HandleDoCommit(m, n)
    PROVE  Carriers' /\ Protocols'
  <1> DEFINE x == Head(net[m][n])
             t == x.tx
  <1>1. /\ net[m][n] # <<>> /\ x.kind = "DoCommit" /\ net' = Received(m, n)
    BY DEF HandleDoCommit, Receive
  <1>2. /\ BeginCommit(n, t)
        /\ UNCHANGED <<handler, pending, reply, acks, forward_rcv, clients, from_clients,
                       remote>>
    BY DEF HandleDoCommit
  <1>3. MailRouted(net) /\ x = Head(net[m][n])
    BY DEF SInv, Carriers
  <1> HIDE DEF x
  <1>4. /\ t \in TransactionIds /\ Route(x, m, n) /\ MailRouted(net')
        /\ Removes(net, net', m, n, x)
    BY <1>1, <1>3, ReceivedEffect
  <1>5. m = CoordinatorOf[t] /\ n \in Peers(CoordinatorOf[t])
    BY <1>1, <1>4 DEF Route, Peers
  <1> QED
    BY <1>1, <1>2, <1>4, <1>5, DoCommitArrives

\* What shard s answers, given what the handler waits for
LEMMA RightAnswer ==
    ASSUME SInv, NEW t \in TransactionIds, NEW s \in Peers(CoordinatorOf[t]), Works(t, s),
           pc[<<s, t>>] \in Outcomes, NEW x, x = AnswerTo(s, t),
           NEW stage, stage = Stage(<<s, t>>)
    PROVE  /\ x \in Messages /\ x.tx = t /\ handler[t] \in {"remote", "acks", "votes"}
           /\ handler[t] = "remote" => /\ x.kind = "Response" /\ x.resp = ResponseTo(stage)
                                       /\ stage \in {"idle", "failed", "not_found"}
           /\ handler[t] = "acks" => /\ x.kind = "Response" /\ x.resp = "Aborted"
                                     /\ stage = "aborted"
           /\ handler[t] = "votes" => \/ x.kind = "ReadyToCommit" /\ stage = "ready"
                                      \/ x.kind = "CannotCommit" /\ stage = "failed"
           /\ x.kind \notin {"Request", "DoCommit"}
  <1>1. <<s, t>> \in Tasks
    BY SInvFacts DEF Peers
  <1>2. stage = pc[<<s, t>>] /\ stage \in Outcomes
    BY <1>1, SInvFacts, StageFacts DEF Stage, Running, Outcomes
  <1>3. AsksFor(t, remote[<<s, t>>])
    BY SInvFacts DEF Leg
  <1>5. Far(t, s)
    BY SInvFacts
  <1>6. CASE handler[t] = "remote"
    <2>1. remote[<<s, t>>] \in {"read", "change"} /\ stage \in {"idle", "failed", "not_found"}
      BY <1>2, <1>3, <1>5, <1>6 DEF AsksFor, Far, Outcomes
    <2>2. x = Message("Response", t, NoCall, ResponseTo(stage))
      BY <1>2, <2>1 DEF AnswerTo
    <2>3. ResponseTo(stage) \in Responses
      BY <2>1 DEF ResponseTo, Responses
    <2> QED
      BY SMTT(30), <1>6, <2>1, <2>2, <2>3, MessageFacts
  <1>7. CASE handler[t] = "acks"
    <2>1. remote[<<s, t>>] = "abort" /\ stage = "aborted"
      BY <1>2, <1>3, <1>5, <1>7 DEF AsksFor, Far, Outcomes
    <2>2. x = Message("Response", t, NoCall, "Aborted")
      BY <2>1 DEF AnswerTo
    <2>3. x \in Messages /\ x.kind = "Response" /\ x.tx = t /\ x.resp = "Aborted"
      BY SMTT(30), <2>2, MessageFacts DEF Responses
    <2> QED
      BY <1>7, <2>1, <2>3
  <1>8. CASE handler[t] = "votes"
    <2>1. remote[<<s, t>>] = "check" /\ stage \in {"ready", "failed"}
      BY <1>2, <1>3, <1>5, <1>8 DEF AsksFor, Far, Outcomes
    <2>2. /\ stage = "ready" => x = Message("ReadyToCommit", t, NoCall, "none")
          /\ stage = "failed" => x = Message("CannotCommit", t, NoCall, "none")
      BY <1>2, <2>1 DEF AnswerTo
    <2>3. \A kind \in {"ReadyToCommit", "CannotCommit"} :
             x = Message(kind, t, NoCall, "none") => x \in Messages /\ x.kind = kind /\ x.tx = t
      BY SMTT(30), MessageFacts DEF Responses
    <2> QED
      BY <1>8, <2>1, <2>2, <2>3
  <1> QED
    BY <1>3, <1>6, <1>7, <1>8 DEF AsksFor

\* A peer sends the result of the call it was asked for.
LEMMA AnswerStep ==
    ASSUME SInv, NEW t \in TransactionIds, NEW s \in Shards, Answer(s, t)
    PROVE  Carriers' /\ Protocols'
  <1> DEFINE c == CoordinatorOf[t]
             x == AnswerTo(s, t)
  <1>1. /\ Works(t, s) /\ pc[<<s, t>>] \in Outcomes /\ net' = Sent(net, s, {c}, x)
        /\ remote' = Set(remote, <<s, t>>, "none")
        /\ UNCHANGED <<shards, handler, pending, reply, acks, forward_rcv, clients,
                       from_clients>>
    BY DEF Answer, Works, Send, Set
  <1>2. s \in Peers(c) /\ s # c /\ c \in Shards /\ <<s, t>> \in Tasks
    BY <1>1, SInvFacts DEF Near, Peers
  <1>3. /\ x \in Messages /\ x.tx = t /\ handler[t] \in {"remote", "acks", "votes"}
        /\ handler[t] = "remote" => /\ x.kind = "Response"
                                    /\ x.resp = ResponseTo(Stage(<<s, t>>))
                                    /\ Stage(<<s, t>>) \in {"idle", "failed", "not_found"}
        /\ handler[t] = "acks" => /\ x.kind = "Response" /\ x.resp = "Aborted"
                                  /\ Stage(<<s, t>>) = "aborted"
        /\ handler[t] = "votes" => \/ x.kind = "ReadyToCommit" /\ Stage(<<s, t>>) = "ready"
                                   \/ x.kind = "CannotCommit" /\ Stage(<<s, t>>) = "failed"
        /\ x.kind \notin {"Request", "DoCommit"}
    BY SMTT(30), <1>1, <1>2, RightAnswer
  <1> HIDE DEF x
  <1>4. Mail(c, s, t) = {} /\ Mail(s, c, t) = {} /\ ~Asked(t, s)
    BY <1>1, <1>2, SInvFacts DEF Leg, Answers
  <1>5. MailRouted(net') /\ Adds(net, net', s, {c}, x)
    <2>1. MailRouted(net) /\ {c} \in SUBSET Shards
      BY <1>2, SInvFacts
    <2>2. Free(net, s, {c}, x)
      BY <1>2, <1>3, <1>4 DEF Free, Route, Mail
    <2>3. net' = Sent(net, s, {c}, x) /\ x \in Messages
      BY <1>1, <1>3 DEF x
    <2> QED
      BY <2>1, <2>2, <2>3, SentEffect
  <1>6. /\ Mail(s, c, t)' = {x} /\ Mail(c, s, t)' = {}
        /\ \A p, q \in Shards : p # s \/ q # c => Mail(p, q, t)' = Mail(p, q, t)
        /\ \A u \in TransactionIds : u # t => SameMail(u)
    <2>1. Mail(s, c, t)' = {x}
      BY <1>3, <1>5 DEF Adds, Mail
    <2>2. \A p, q \in Shards : p # s \/ q # c => Mail(p, q, t)' = Mail(p, q, t)
      BY <1>3, <1>5 DEF Adds, Mail
    <2>3. \A u \in TransactionIds : u # t => SameMail(u)
      BY <1>3, <1>5 DEF Adds, Mail, SameMail
    <2> QED
      BY <1>2, <1>4, <2>1, <2>2, <2>3
  <1>7. Stage(<<s, t>>)' = Stage(<<s, t>>) /\ OtherwiseSame(t, s)
    <2>1. \A k \in Tasks : Stage(k)' = Stage(k)
      BY <1>1, SameStages
    <2>2. \A u \in TransactionIds, n \in Shards : u # t \/ n # s =>
             remote'[<<n, u>>] = remote[<<n, u>>]
      BY <1>1, SInvFacts DEF HandlerTypes, Tasks, Set
    <2> QED
      BY <1>1, <1>2, <2>1, <2>2 DEF OtherwiseSame, Tasks
  <1>8. remote'[<<s, t>>] = "none" /\ HandlerTypes'
    BY <1>1, <1>2, SInvFacts DEF HandlerTypes, Set, Ops
  <1>9. ~Asked(t, s)' /\ ~Requested(t, s)' /\ ~Works(t, s)' /\ Answers(t, s)'
    BY <1>1, <1>4, <1>6, <1>8 DEF Asked, Requested, Works, Answers, Entries
  <1>10. s \in Open(t)' /\ s \in Open(t)
    BY <1>1, <1>2, <1>9 DEF Open
  <1>11. Leg(t, s)'
    BY <1>6, <1>9 DEF Leg
  <1>12. Far(t, s)'
    BY <1>1, <1>3, <1>6, <1>7, <1>9, <1>10 DEF Far
  <1>13. Protocol(t)'
    <2>1. \A p \in Peers(c) : p # s =>
             Mail(c, p, t)' = Mail(c, p, t) /\ Mail(p, c, t)' = Mail(p, c, t)
      BY <1>2, <1>6 DEF Peers
    <2> QED
      BY <1>1, <1>2, <1>7, <1>10, <1>11, <1>12, <2>1, SInvFacts, OneLeg
  <1>14. Elsewhere(t)
    BY <1>1, <1>6, <1>7, LegElsewhere
  <1>15. Carriers'
    BY <1>1, <1>5, <1>8, SInvFacts DEF Carriers, EntriesRouted
  <1> QED
    BY <1>13, <1>14, <1>15, SInvFacts, OneTransaction

-----------------------------------------------------------------------------
(* Answers reach the coordinator                                           *)

\* The leg to s has come to its end; R are the queues without the answer.
LEMMA AnswerTaken ==
    ASSUME SInv, NEW t \in TransactionIds, NEW s \in Peers(CoordinatorOf[t]),
           NEW x, x.tx = t, NEW R, Removes(net, R, s, CoordinatorOf[t], x)
    PROVE  /\ Mail(s, CoordinatorOf[t], t) = {x} /\ s \in Open(t)
           /\ handler[t] \in {"remote", "acks", "votes"}
           /\ Mail(CoordinatorOf[t], s, t) = {} /\ ~Works(t, s) /\ ~Asked(t, s)
           /\ Of(R[s][CoordinatorOf[t]], t) = {}
           /\ Cardinality(Open(t) \ {s}) = Cardinality(Open(t)) - 1
           /\ Cardinality(Open(t)) \in Nat \ {0}
  <1> DEFINE c == CoordinatorOf[t]
  <1>1. Mail(s, c, t) = {x} /\ Of(R[s][c], t) = {}
    BY DEF Removes, Mail
  <1>2. Answers(t, s) /\ s \in Open(t)
    BY <1>1 DEF Answers, Open
  <1>3. Mail(c, s, t) = {} /\ ~Works(t, s) /\ ~Asked(t, s)
    BY <1>2, SInvFacts DEF Leg
  <1>4. handler[t] \in {"remote", "acks", "votes"}
    BY <1>2, SInvFacts DEF Count
  <1>5. IsFiniteSet(Open(t)) /\ Cardinality(Open(t)) \in Nat /\ Cardinality(Open(t)) # 0
    BY <1>2, OpenCount
  <1>6. Cardinality(Open(t) \ {s}) = Cardinality(Open(t)) - 1
    BY <1>2, <1>5, SizeWithout
  <1> QED
    BY <1>1, <1>2, <1>3, <1>4, <1>5, <1>6

\* Answer x of shard s is taken from the queue, which closes the leg to s and
\* leaves the others as they are.
Closes(t, s, x) ==
    LET c == CoordinatorOf[t] IN
    /\ Mail(s, c, t) = {x} /\ s \in Open(t) /\ Open(t)' = Open(t) \ {s}
    /\ Cardinality(Open(t)') = Cardinality(Open(t)) - 1
    /\ Cardinality(Open(t)) \in Nat \ {0}
    /\ Mail(s, c, t)' = {} /\ Mail(c, s, t)' = {} /\ ~Asked(t, s)' /\ ~Works(t, s)'
    /\ \A p \in Peers(c) : Stage(<<p, t>>)' = Stage(<<p, t>>)
    /\ \A p \in Peers(c) : p # s => SameLeg(t, p)

\* A result that arrives leaves the leg closed and the rest as it was.
LEMMA LegCloses ==
    ASSUME SInv, NEW t \in TransactionIds, NEW s \in Peers(CoordinatorOf[t]),
           NEW x, x.tx = t, Removes(net, net', s, CoordinatorOf[t], x),
           UNCHANGED <<shards, handler, pending, reply, acks, from_clients, remote>>
    PROVE  /\ Closes(t, s, x) /\ OtherwiseSame(t, s)
           /\ \A u \in TransactionIds : u # t => SameMail(u)
           /\ Entered(t)' /\ Near(t)' /\ \A p \in Peers(CoordinatorOf[t]) : Leg(t, p)'
  <1> DEFINE c == CoordinatorOf[t]
  <1>1. c \in Shards /\ s \in Shards /\ s # c
    BY SInvFacts DEF Peers
  <1>2. /\ Mail(s, c, t) = {x} /\ s \in Open(t) /\ Mail(c, s, t) = {} /\ ~Works(t, s)
        /\ ~Asked(t, s) /\ Cardinality(Open(t) \ {s}) = Cardinality(Open(t)) - 1
        /\ Cardinality(Open(t)) \in Nat \ {0}
    BY AnswerTaken
  <1>3. /\ Mail(s, c, t)' = {}
        /\ \A p, q \in Shards : p # s \/ q # c => Mail(p, q, t)' = Mail(p, q, t)
        /\ \A u \in TransactionIds : u # t => SameMail(u)
    <2>1. MailLeaves(t, s, c, x)
      BY <1>1, RemovesMail
    <2> QED
      BY <2>1 DEF MailLeaves
  <1>4. Mail(c, s, t)' = {}
    BY <1>1, <1>2, <1>3
  <1>5. \A k \in Tasks : Stage(k)' = Stage(k)
    BY SameStages
  <1>6. /\ OtherwiseSame(t, s)
        /\ \A p \in Peers(c) : Stage(<<p, t>>)' = Stage(<<p, t>>)
    BY <1>1, <1>5 DEF OtherwiseSame, Tasks, Peers
  <1>7. ~Asked(t, s)' /\ ~Requested(t, s)' /\ ~Works(t, s)' /\ ~Answers(t, s)'
    BY <1>2, <1>3, <1>4 DEF Asked, Requested, Works, Answers, Entries
  <1>8. \A p \in Peers(c) : p # s => SameLeg(t, p)
    <2>1. \A p \in Peers(c) : p # s =>
             Mail(c, p, t)' = Mail(c, p, t) /\ Mail(p, c, t)' = Mail(p, c, t)
      BY <1>1, <1>3 DEF Peers
    <2> QED
      BY <1>6, <2>1, OtherLegs
  <1>9. Open(t)' = Open(t) \ {s}
    <2>1. \A p \in Peers(c) : p # s => (p \in Open(t)' <=> p \in Open(t))
      BY <1>8, LegKept
    <2>2. Open(t) \subseteq Peers(c) /\ Open(t)' \subseteq Peers(c) /\ s \notin Open(t)'
      BY <1>7 DEF Open
    <2> QED
      BY <2>1, <2>2
  <1>10. Entered(t)'
    <2>1. \A d : RealCall(t, d)' = RealCall(t, d)
      BY DEF RealCall, AsksFor
    <2> QED
      BY <2>1, SInvFacts DEF Entered, Entries
  <1>11. Near(t)'
    BY <1>5, SInvFacts DEF Near, Works, Here
  <1>12. ASSUME NEW p \in Peers(c) PROVE Leg(t, p)'
    <2>1. CASE p = s
      BY <1>4, <1>7, <2>1 DEF Leg
    <2>2. CASE p # s
      BY <1>8, <2>2, LegKept, SInvFacts
    <2> QED
      BY <2>1, <2>2
  <1>13. Closes(t, s, x)
    BY <1>2, <1>3, <1>4, <1>6, <1>7, <1>8, <1>9 DEF Closes
  <1> QED
    BY <1>3, <1>6, <1>10, <1>11, <1>12, <1>13

\* The response to a balance request or change
LEMMA RemoteAnswered ==
    ASSUME SInv, NEW t \in TransactionIds, NEW s \in Peers(CoordinatorOf[t]),
           handler[t] = "remote", NEW x, Closes(t, s, x),
           handler'[t] = handler[t], clients'[t] = clients[t],
           forward_rcv'[t] = Append(forward_rcv[t], x.resp), x.resp \in Responses
    PROVE  Count(t)' /\ \A p \in Peers(CoordinatorOf[t]) : Far(t, p)'
  <1> DEFINE c == CoordinatorOf[t]
             fwd == forward_rcv[t]
             r == x.resp
             open == Cardinality(Open(t))
  <1>1. /\ Mail(s, c, t) = {x} /\ s \in Open(t) /\ Open(t)' = Open(t) \ {s}
        /\ Cardinality(Open(t)') = open - 1 /\ open \in Nat \ {0}
    BY DEF Closes
  <1>2. r = ResponseTo(Stage(<<s, t>>)) /\ Stage(<<s, t>>) \in {"idle", "failed", "not_found"}
    <2>1. Far(t, s) /\ x \in Mail(s, c, t)
      BY <1>1, SInvFacts
    <2> QED
      BY <2>1 DEF Far
  <1>3. r \in {"Ok", "Aborted", "AbortedNotFound"} /\ (Stage(<<s, t>>) # "idle" => IsErr(r))
    BY <1>2 DEF ResponseTo, IsErr
  <1>4. fwd \in Seq(Responses) /\ open + Len(fwd) = 1
    BY SInvFacts DEF HandlerTypes, Count
  <1> HIDE DEF r, fwd, open
  <1>5. open = 1 /\ Len(fwd) = 0 /\ fwd = <<>>
    <2>1. Len(fwd) \in Nat /\ (Len(fwd) = 0 => fwd = <<>>)
      BY <1>4
    <2>2. \A i \in Nat \ {0}, j \in Nat : i + j = 1 => i = 1 /\ j = 0
      OBVIOUS
    <2> QED
      BY <1>1, <1>4, <2>1, <2>2
  <1>6. forward_rcv'[t] = <<r>>
    BY <1>5, OneItem DEF r, fwd
  <1>7. Cardinality(Open(t)') = 0
    BY SMTT(30), <1>1, <1>5
  <1>8. Open(t)' = {} /\ Open(t) = {s}
    <2>1. IsFiniteSet(Open(t))
      BY OpenCount
    <2>2. IsFiniteSet(Open(t)')
      BY <1>1, <2>1, SizeWithout
    <2>3. Open(t)' = {}
      BY <1>7, <2>2, SizeOfNone
    <2> QED
      BY <1>1, <2>3
  <1>9. clients[t].commit_count = 0 /\ clients[t].commit_status = "ReadyToCommit"
    BY SInvFacts DEF Count
  <1>10. Count(t)'
    <2>1. Len(<<r>>) = 1 /\ (\A i \in DOMAIN <<r>> : <<r>>[i] = r) /\ 0 + 1 = 1
      BY SMTT(30), OneItem
    <2>2. Cardinality(Open(t)') + Len(forward_rcv'[t]) = 1
      BY <1>6, <1>7, <2>1
    <2>3. \A i \in DOMAIN forward_rcv'[t] :
             forward_rcv'[t][i] \in {"Ok", "Aborted", "AbortedNotFound"}
      BY <1>3, <1>6, <2>1
    <2> QED
      BY <1>9, <2>2, <2>3 DEF Count
  <1>11. Far(t, s)'
    <2>1. /\ Mail(s, c, t)' = {} /\ Mail(c, s, t)' = {} /\ ~Asked(t, s)' /\ ~Works(t, s)'
          /\ Stage(<<s, t>>)' = Stage(<<s, t>>)
      BY DEF Closes
    <2>2. ~Requested(t, s)'
      BY <2>1 DEF Requested
    <2>3. forward_rcv'[t] # <<>> /\ forward_rcv'[t][1] = r
      BY <1>6, OneItem
    <2> QED
      BY <1>2, <1>3, <2>1, <2>2, <2>3 DEF Far
  <1>12. ASSUME NEW p \in Peers(c), p # s PROVE Far(t, p)'
    <2>1. Far(t, p) /\ SameLeg(t, p)
      BY <1>12, SInvFacts DEF Closes
    <2>2. p \notin Open(t) /\ fwd = <<>>
      BY <1>5, <1>8, <1>12
    <2>3. Stage(<<p, t>>) = "idle" /\ \A y \in Mail(c, p, t) : y.kind # "DoCommit"
      BY <2>1, <2>2 DEF Far, fwd
    <2>4. ~Works(t, p) /\ Mail(p, c, t) = {}
      BY <2>2 DEF Open, Answers
    <2>5. /\ ~Works(t, p)' /\ Mail(p, c, t)' = {}
          /\ Mail(c, p, t)' = Mail(c, p, t) /\ Stage(<<p, t>>)' = "idle"
      BY <2>1, <2>3, <2>4 DEF SameLeg, Works
    <2> QED
      BY <2>3, <2>5 DEF Far
  <1> QED
    BY <1>10, <1>11, <1>12

\* The acknowledgement of an abort
LEMMA AckArrives ==
    ASSUME SInv, NEW t \in TransactionIds, NEW s \in Peers(CoordinatorOf[t]),
           handler[t] = "acks", NEW x, Closes(t, s, x),
           handler'[t] = handler[t], clients'[t] = clients[t], acks'[t] = acks[t],
           forward_rcv'[t] = Append(forward_rcv[t], x.resp)
    PROVE  Count(t)' /\ \A p \in Peers(CoordinatorOf[t]) : Far(t, p)'
  <1> DEFINE c == CoordinatorOf[t]
             fwd == forward_rcv[t]
             open == Cardinality(Open(t))
             N == Cardinality(Shards)
  <1>1. /\ Mail(s, c, t) = {x} /\ Cardinality(Open(t)') = open - 1 /\ open \in Nat \ {0}
    BY DEF Closes
  <1>2. x.resp = "Aborted"
    <2>1. Far(t, s) /\ x \in Mail(s, c, t)
      BY <1>1, SInvFacts
    <2> QED
      BY <2>1 DEF Far
  <1>3. /\ fwd \in Seq(Responses) /\ acks[t] + open + Len(fwd) = N
        /\ \A i \in DOMAIN fwd : fwd[i] = "Aborted"
    BY SInvFacts DEF HandlerTypes, Count
  <1>4. acks[t] \in Nat /\ N \in Nat
    <2>1. HandlerTypes
      BY SInvFacts
    <2>2. Cardinality(Shards) \in Nat
      BY SizeIsNat, CoordinatorConstants
    <2> QED
      BY SMTT(30), <2>1, <2>2 DEF HandlerTypes
  <1> DEFINE new == Append(fwd, "Aborted")
  <1> HIDE DEF fwd, open, N
  <1>5. /\ Len(fwd) \in Nat /\ Len(new) = Len(fwd) + 1
        /\ \A i \in DOMAIN new : new[i] = "Aborted"
    BY <1>3 DEF Responses
  <1>6. forward_rcv'[t] = new
    BY <1>2 DEF fwd
  <1> HIDE DEF new
  <1>7. acks[t] + Cardinality(Open(t)') + Len(new) = N
    <2>1. \A a, b, d \in Nat : a + b + d = N => a + (b - 1) + (d + 1) = N
      BY <1>4
    <2>2. acks[t] + (open - 1) + (Len(fwd) + 1) = N
      BY <1>1, <1>3, <1>4, <1>5, <2>1
    <2> QED
      BY <1>1, <1>5, <2>2
  <1>8. Count(t)'
    <2>1. acks'[t] + Cardinality(Open(t)') + Len(forward_rcv'[t]) = Cardinality(Shards)
      BY <1>6, <1>7 DEF N
    <2>2. \A i \in DOMAIN forward_rcv'[t] : forward_rcv'[t][i] = "Aborted"
      BY <1>5, <1>6
    <2> QED
      BY <2>1, <2>2 DEF Count
  <1>9. Far(t, s)'
    <2>1. /\ Mail(s, c, t)' = {} /\ Mail(c, s, t)' = {} /\ ~Asked(t, s)' /\ ~Works(t, s)'
          /\ Stage(<<s, t>>)' = Stage(<<s, t>>)
      BY DEF Closes
    <2>2. ~Requested(t, s)'
      BY <2>1 DEF Requested
    <2>3. ~Requested(t, s) /\ ~Asked(t, s) /\ ~Works(t, s)
      <3>1. Answers(t, s)
        BY <1>1 DEF Answers
      <3> QED
        BY <3>1, SInvFacts DEF Leg, Requested
    <2>4. Stage(<<s, t>>) = "aborted"
      BY <2>3, SInvFacts DEF Far
    <2> QED
      BY <2>1, <2>2, <2>4 DEF Far
  <1>10. ASSUME NEW p \in Peers(c), p # s PROVE Far(t, p)'
    <2>1. Far(t, p) /\ SameLeg(t, p)
      BY <1>10, SInvFacts DEF Closes
    <2>2. /\ Requested(t, p)' = Requested(t, p) /\ Works(t, p)' = Works(t, p)
          /\ Bound(t, p)' = Bound(t, p)
      BY <2>1, LegKept
    <2> QED
      BY <2>1, <2>2 DEF Far, SameLeg
  <1> QED
    BY <1>8, <1>9, <1>10

\* The result of a request goes to the handler that waits for it.
LEMMA ResponseArrives ==
    ASSUME SInv, NEW t \in TransactionIds, NEW s \in Peers(CoordinatorOf[t]),
           NEW x, x.tx = t, x.kind = "Response", x.resp \in Responses,
           Removes(net, net', s, CoordinatorOf[t], x), MailRouted(net)',
           forward_rcv' = Set(forward_rcv, t, Append(forward_rcv[t], x.resp)),
           UNCHANGED <<shards, handler, pending, reply, acks, clients, from_clients, remote>>
    PROVE  Carriers' /\ Protocols'
  <1> DEFINE c == CoordinatorOf[t]
  <1>1. /\ Closes(t, s, x) /\ OtherwiseSame(t, s)
        /\ \A u \in TransactionIds : u # t => SameMail(u)
        /\ Entered(t)' /\ Near(t)' /\ \A p \in Peers(c) : Leg(t, p)'
    BY LegCloses
  <1>2. handler[t] \in {"remote", "acks"}
    <2>1. Mail(s, c, t) = {x} /\ s \in Open(t)
      BY <1>1 DEF Closes
    <2>2. handler[t] \in {"remote", "acks", "votes"}
      BY <2>1, SInvFacts DEF Count
    <2>3. Far(t, s) /\ x \in Mail(s, c, t)
      BY <2>1, SInvFacts
    <2>4. handler[t] # "votes"
      BY <2>3 DEF Far
    <2> QED
      BY <2>2, <2>4
  <1>3. /\ forward_rcv'[t] = Append(forward_rcv[t], x.resp) /\ HandlerTypes'
        /\ \A u \in TransactionIds : u # t => forward_rcv'[u] = forward_rcv[u]
    <2>1. HandlerTypes /\ forward_rcv \in [TransactionIds -> Seq(Responses)]
      BY SInvFacts DEF HandlerTypes
    <2>2. Append(forward_rcv[t], x.resp) \in Seq(Responses)
      BY <2>1
    <2>3. forward_rcv' \in [TransactionIds -> Seq(Responses)]
      BY <2>1, <2>2 DEF Set
    <2>4. /\ forward_rcv'[t] = Append(forward_rcv[t], x.resp)
          /\ \A u \in TransactionIds : u # t => forward_rcv'[u] = forward_rcv[u]
      BY <2>1 DEF Set
    <2> QED
      BY <2>1, <2>3, <2>4 DEF HandlerTypes
  <1>4. /\ handler'[t] = handler[t] /\ clients'[t] = clients[t] /\ acks'[t] = acks[t]
        /\ UNCHANGED <<clients, from_clients>>
    OBVIOUS
  <1>5. Count(t)' /\ \A p \in Peers(c) : Far(t, p)'
    BY <1>1, <1>2, <1>3, <1>4, RemoteAnswered, AckArrives
  <1>6. Standing(t)'
    BY SInvFacts DEF Standing
  <1>7. Protocol(t)'
    BY <1>1, <1>5, <1>6 DEF Protocol
  <1>8. Elsewhere(t)
    BY <1>1, <1>3, <1>4, LegElsewhere
  <1>9. Carriers'
    BY <1>3, <1>4, SInvFacts DEF Carriers, EntriesRouted
  <1> QED
    BY <1>7, <1>8, <1>9, SInvFacts, OneTransaction

\* The loop of the coordinator takes the result.
LEMMA HandleResponseStep ==
    ASSUME SInv, NEW m \in Shards, NEW n \in Shards, HandleResponse(m, n)
    PROVE  Carriers' /\ Protocols'
  <1> DEFINE x == Head(net[m][n])
             t == x.tx
  <1>1. /\ net[m][n] # <<>> /\ x.kind = "Response" /\ net' = Received(m, n)
        /\ forward_rcv' = Set(forward_rcv, t, Append(forward_rcv[t], x.resp))
        /\ UNCHANGED <<shards, handler, pending, reply, acks, clients, from_clients, remote>>
    BY DEF HandleResponse, Receive, PassToClient
  <1>2. /\ x \in Messages /\ t \in TransactionIds /\ Route(x, m, n)
        /\ MailRouted(net') /\ Removes(net, net', m, n, x)
    <2>1. MailRouted(net)
      BY DEF SInv, Carriers
    <2> QED
      BY <1>1, <2>1, ReceivedEffect
  <1>3. n = CoordinatorOf[t] /\ m \in Peers(n) /\ x.resp \in Responses
    BY <1>1, <1>2 DEF Route, Peers, Messages
  <1> HIDE DEF x
  <1> QED
    BY <1>1, <1>2, <1>3, ResponseArrives

-----------------------------------------------------------------------------
(* Votes                                                                   *)

\* Vote x of s is on its way while the handler waits for the decision.
VoteDue(t, s, x) ==
    LET open == Cardinality(Open(t))
        count == clients[t].commit_count
        votes == Cardinality(Peers(CoordinatorOf[t]))
    IN
    /\ handler[t] = "votes" /\ forward_rcv[t] = <<>> /\ s \in Open(t)
    /\ \/ x.kind = "ReadyToCommit" /\ Stage(<<s, t>>) = "ready"
       \/ x.kind = "CannotCommit" /\ Stage(<<s, t>>) = "failed"
    /\ open \in Nat /\ open > 0 /\ count \in Nat /\ count + open = votes
    /\ votes = Cardinality(Shards) - 1

IsVote(x) == x.kind \in {"ReadyToCommit", "CannotCommit"}

\* A vote on its way is one that the coordinator still waits for.
LEMMA VoteFacts ==
    ASSUME SInv, NEW t \in TransactionIds, NEW s \in Peers(CoordinatorOf[t]),
           NEW x, IsVote(x), Mail(s, CoordinatorOf[t], t) = {x}
    PROVE  VoteDue(t, s, x)
  <1> DEFINE c == CoordinatorOf[t]
  <1>1. s \in Open(t) /\ x \in Mail(s, c, t)
    BY DEF Open, Answers
  <1>2. handler[t] \in {"remote", "acks", "votes"}
    BY <1>1, SInvFacts DEF Count
  <1>3. Far(t, s)
    BY SInvFacts
  <1>4. /\ handler[t] = "votes"
        /\ \/ x.kind = "ReadyToCommit" /\ Stage(<<s, t>>) = "ready"
           \/ x.kind = "CannotCommit" /\ Stage(<<s, t>>) = "failed"
    BY <1>1, <1>2, <1>3 DEF Far, IsVote
  <1>5. IsFiniteSet(Open(t)) /\ Cardinality(Open(t)) \in Nat /\ Cardinality(Open(t)) # 0
    BY <1>1, OpenCount
  <1>6. Cardinality(Peers(c)) = Cardinality(Shards) - 1
    BY CoordinatorConstants, SInvFacts, SizeWithout DEF Peers
  <1>7. /\ forward_rcv[t] = <<>>
        /\ clients[t].commit_count + Cardinality(Open(t)) = Cardinality(Shards) - 1
    BY <1>4, <1>5, SInvFacts DEF Count
  <1>8. clients[t].commit_count \in Nat
    BY SMTT(30), SInvFacts, SizeIsNat, CoordinatorConstants DEF HandlerTypes
  <1> QED
    BY SMTT(30), <1>1, <1>4, <1>5, <1>6, <1>7, <1>8 DEF VoteDue

\* While no DoCommit is sent, every closed leg is a vote that the status heeds.
LEMMA VoteHeeded ==
    ASSUME SInv, NEW t \in TransactionIds, NEW s \in Peers(CoordinatorOf[t]),
           NEW x, IsVote(x), Closes(t, s, x),
           handler'[t] = handler[t],
           clients'[t].commit_status = StatusAfter(t, x.kind),
           forward_rcv'[t] # <<>> => forward_rcv'[t][1] = "Aborted"
    PROVE  \A p \in Peers(CoordinatorOf[t]) : Far(t, p)'
  <1> DEFINE c == CoordinatorOf[t]
  <1>1. Mail(s, c, t) = {x} /\ Open(t)' = Open(t) \ {s}
    BY DEF Closes
  <1>2. /\ handler[t] = "votes" /\ forward_rcv[t] = <<>>
        /\ \/ x.kind = "ReadyToCommit" /\ Stage(<<s, t>>) = "ready"
           \/ x.kind = "CannotCommit" /\ Stage(<<s, t>>) = "failed"
    <2>1. VoteDue(t, s, x)
      BY <1>1, VoteFacts
    <2> QED
      BY <2>1 DEF VoteDue
  <1>3. clients'[t].commit_status = "ReadyToCommit" =>
           x.kind = "ReadyToCommit" /\ clients[t].commit_status = "ReadyToCommit"
    BY DEF StatusAfter, IsVote
  <1>4. Far(t, s)'
    <2>1. /\ Mail(s, c, t)' = {} /\ Mail(c, s, t)' = {} /\ ~Asked(t, s)' /\ ~Works(t, s)'
          /\ Stage(<<s, t>>)' = Stage(<<s, t>>)
      BY DEF Closes
    <2>2. ~Requested(t, s)'
      BY <2>1 DEF Requested
    <2> QED
      BY <1>2, <1>3, <2>1, <2>2 DEF Far
  <1>5. ASSUME NEW p \in Peers(c), p # s PROVE Far(t, p)'
    <2>1. Far(t, p) /\ SameLeg(t, p)
      BY <1>5, SInvFacts DEF Closes
    <2>2. /\ Requested(t, p)' = Requested(t, p) /\ Works(t, p)' = Works(t, p)
          /\ Bound(t, p)' = Bound(t, p) /\ (p \in Open(t)' <=> p \in Open(t))
      BY <2>1, LegKept
    <2> QED
      BY <1>2, <1>3, <2>1, <2>2 DEF Far, SameLeg
  <1> QED
    BY <1>4, <1>5

\* The loop has counted vote x of t,
VoteCounted(t, x) ==
    /\ clients'[t].commit_count = clients[t].commit_count + 1
    /\ clients'[t].commit_status = StatusAfter(t, x.kind)
    /\ clients'[t].open = clients[t].open /\ HandlerTypes'
    /\ \A u \in TransactionIds : u # t =>
          forward_rcv'[u] = forward_rcv[u] /\ clients'[u] = clients[u]

\* and does not decide to commit.
NoCommit(t) ==
    \/ /\ ~AllVotesIn(CoordinatorOf[t], clients[t].commit_count + 1)
       /\ UNCHANGED forward_rcv
    \/ /\ AllVotesIn(CoordinatorOf[t], clients[t].commit_count + 1)
       /\ forward_rcv'[t] = Append(forward_rcv[t], "Aborted")

\* A vote that decides nothing, or on an abort
LEMMA VoteArrives ==
    ASSUME SInv, NEW t \in TransactionIds, NEW s \in Peers(CoordinatorOf[t]),
           NEW x, x.tx = t, IsVote(x),
           Removes(net, net', s, CoordinatorOf[t], x), MailRouted(net)',
           VoteCounted(t, x), NoCommit(t),
           UNCHANGED <<shards, handler, pending, reply, acks, from_clients, remote>>
    PROVE  Carriers' /\ Protocols'
  <1> DEFINE c == CoordinatorOf[t]
             open == Cardinality(Open(t))
             count == clients[t].commit_count
             P == Cardinality(Peers(c))
  <1>1. /\ Closes(t, s, x) /\ OtherwiseSame(t, s)
        /\ \A u \in TransactionIds : u # t => SameMail(u)
        /\ Entered(t)' /\ Near(t)' /\ \A p \in Peers(c) : Leg(t, p)'
    BY LegCloses
  <1>2. Mail(s, c, t) = {x} /\ Cardinality(Open(t)') = open - 1
    BY <1>1 DEF Closes
  <1>3. VoteDue(t, s, x)
    BY <1>2, VoteFacts
  <1> USE DEF VoteCounted, NoCommit
  <1>4. /\ open \in Nat /\ open > 0 /\ count \in Nat /\ count + open = P
        /\ P = Cardinality(Shards) - 1 /\ handler[t] = "votes" /\ forward_rcv[t] = <<>>
    BY <1>3 DEF VoteDue
  <1>5. handler'[t] = handler[t] /\ reply'[t] = reply[t] /\ UNCHANGED from_clients
    OBVIOUS
  <1>6. \/ count + 1 # P /\ forward_rcv'[t] = <<>>
        \/ count + 1 = P /\ forward_rcv'[t] = <<"Aborted">>
    <2>1. AllVotesIn(c, count + 1) <=> count + 1 = P
      BY DEF AllVotesIn
    <2>2. Append(<<>>, "Aborted") = <<"Aborted">>
      BY OneItem
    <2> QED
      BY <1>4, <2>1, <2>2
  <1>7. Count(t)'
    <2> HIDE DEF open, count, P
    <2>1. CASE count + 1 # P /\ forward_rcv'[t] = <<>>
      <3>1. open - 1 > 0 /\ (count + 1) + (open - 1) = Cardinality(Shards) - 1
        BY SMTT(30), <1>4, <2>1
      <3>2. Cardinality(Open(t)') > 0
        BY <1>2, <3>1
      <3>3. clients'[t].commit_count + Cardinality(Open(t)') = Cardinality(Shards) - 1
        BY <1>2, <3>1 DEF count
      <3> QED
        BY <1>4, <1>5, <2>1, <3>2, <3>3 DEF Count
    <2>2. CASE count + 1 = P /\ forward_rcv'[t] = <<"Aborted">>
      <3>1. open - 1 = 0
        BY SMTT(30), <1>4, <2>2
      <3>2. Cardinality(Open(t)') = 0
        BY <1>2, <3>1
      <3>3. /\ forward_rcv'[t] # <<>> /\ Len(forward_rcv'[t]) = 1
            /\ forward_rcv'[t][1] = "Aborted"
        BY <2>2, OneItem
      <3> QED
        BY <1>4, <1>5, <3>2, <3>3 DEF Count
    <2> QED
      BY <1>6, <2>1, <2>2
  <1>8. \A p \in Peers(c) : Far(t, p)'
    <2>1. forward_rcv'[t] # <<>> => forward_rcv'[t][1] = "Aborted"
      BY <1>6, OneItem
    <2>2. Closes(t, s, x) /\ handler'[t] = handler[t]
      BY <1>1, <1>5
    <2> QED
      BY <2>1, <2>2, VoteHeeded
  <1>9. Standing(t)'
    BY SInvFacts DEF Standing
  <1>10. Protocol(t)'
    BY <1>1, <1>7, <1>8, <1>9 DEF Protocol
  <1>11. Elsewhere(t)
    BY <1>1, LegElsewhere
  <1>12. Carriers'
    BY <1>5, SInvFacts DEF Carriers, EntriesRouted
  <1> QED
    BY <1>10, <1>11, <1>12, SInvFacts, OneTransaction

\* The last vote, and none was a refusal: every peer is ready, and no message
\* of t is on its way.
LEMMA AllReady ==
    ASSUME SInv, NEW t \in TransactionIds, NEW s \in Peers(CoordinatorOf[t]),
           NEW x, x.kind = "ReadyToCommit", VoteDue(t, s, x),
           Mail(s, CoordinatorOf[t], t) = {x},
           clients[t].commit_status = "ReadyToCommit",
           AllVotesIn(CoordinatorOf[t], clients[t].commit_count + 1)
    PROVE  /\ Open(t) = {s}
           /\ \A p \in Peers(CoordinatorOf[t]) :
                 /\ Stage(<<p, t>>) = "ready" /\ ~Asked(t, p) /\ ~Works(t, p)
                 /\ p # s => Mail(CoordinatorOf[t], p, t) = {}
                             /\ Mail(p, CoordinatorOf[t], t) = {}
  <1> DEFINE c == CoordinatorOf[t]
  <1>1. Cardinality(Open(t)) = 1
    BY DEF VoteDue, AllVotesIn
  <1>2. s \in Open(t) /\ handler[t] = "votes" /\ forward_rcv[t] = <<>>
        /\ Stage(<<s, t>>) = "ready"
    BY DEF VoteDue
  <1>3. IsFiniteSet(Open(t))
    BY OpenCount
  <1>4. Open(t) = {s}
    <2>1. IsFiniteSet(Open(t) \ {s}) /\ Cardinality(Open(t) \ {s}) = 0
      BY SMTT(30), <1>1, <1>2, <1>3, SizeWithout
    <2>2. Open(t) \ {s} = {}
      BY <2>1, SizeOfNone
    <2> QED
      BY <1>2, <2>2
  <1>5. ASSUME NEW p \in Peers(c), p # s
        PROVE  /\ Stage(<<p, t>>) = "ready" /\ ~Asked(t, p) /\ ~Works(t, p)
               /\ Mail(c, p, t) = {} /\ Mail(p, c, t) = {}
    <2>1. p \notin Open(t) /\ Far(t, p)
      BY <1>4, <1>5, SInvFacts
    <2>2. ~Asked(t, p) /\ ~Works(t, p) /\ Mail(p, c, t) = {}
      BY <2>1 DEF Open, Answers
    <2>3. Stage(<<p, t>>) = "ready" /\ Mail(c, p, t) = {}
      BY <1>2, <2>1 DEF Far
    <2> QED
      BY <2>2, <2>3
  <1>6. ~Asked(t, s) /\ ~Works(t, s)
    <2>1. Answers(t, s) /\ Leg(t, s)
      BY SInvFacts DEF Answers
    <2> QED
      BY <2>1 DEF Leg
  <1> QED
    BY <1>2, <1>4, <1>5, <1>6

\* Message d of t is on its way to every peer, and none comes back.
SentToPeers(t, d) ==
    LET c == CoordinatorOf[t] IN
    \A p \in Peers(c) : Mail(c, p, t)' = {d} /\ Mail(p, c, t)' = {}

DecisionOut(t, d) ==
    /\ MailRouted(net)' /\ \A u \in TransactionIds : u # t => SameMail(u)
    /\ SentToPeers(t, d)

\* The last vote lets the loop send DoCommit to every peer.
LEMMA DecisionSent ==
    ASSUME SInv, NEW t \in TransactionIds, NEW s \in Peers(CoordinatorOf[t]),
           NEW x, x.tx = t, x.kind = "ReadyToCommit",
           NEW Q, Removes(net, Q, s, CoordinatorOf[t], x), MailRouted(Q),
           VoteDue(t, s, x), clients[t].commit_status = "ReadyToCommit",
           AllVotesIn(CoordinatorOf[t], clients[t].commit_count + 1),
           NEW d, d = Message("DoCommit", t, NoCall, "none"),
           net' = Sent(Q, CoordinatorOf[t], Peers(CoordinatorOf[t]), d)
    PROVE  DecisionOut(t, d)
  <1> DEFINE c == CoordinatorOf[t]
  <1>1. c \in Shards /\ Peers(c) \in SUBSET Shards /\ c \notin Peers(c)
    BY SInvFacts DEF Peers
  <1>2. d \in Messages /\ d.tx = t /\ d.kind = "DoCommit"
    BY SMTT(30), MessageFacts DEF Responses
  <1>3. Mail(c, s, t) = {} /\ Of(Q[s][c], t) = {}
    BY AnswerTaken
  <1>4. \A p \in Peers(c) : p # s => Mail(c, p, t) = {} /\ Mail(p, c, t) = {}
    <2>1. Mail(s, c, t) = {x}
      BY DEF Removes, Mail
    <2> QED
      BY <2>1, AllReady
  <1>5. \A p, q \in Shards, u \in TransactionIds :
           u # t \/ p # s \/ q # c => Of(Q[p][q], u) = Mail(p, q, u)
    BY DEF Removes, Mail
  <1>6. \A p \in Peers(c) : Of(Q[c][p], t) = {} /\ Of(Q[p][c], t) = {}
    <2> SUFFICES ASSUME NEW p \in Peers(c) PROVE Of(Q[c][p], t) = {} /\ Of(Q[p][c], t) = {}
      OBVIOUS
    <2>1. p \in Shards /\ p # c /\ c \in Shards
      BY <1>1
    <2>2. Mail(c, p, t) = {} /\ (p # s => Mail(p, c, t) = {})
      BY <1>3, <1>4
    <2>3. Of(Q[c][p], t) = Mail(c, p, t) /\ (p # s => Of(Q[p][c], t) = Mail(p, c, t))
      BY <1>5, <2>1
    <2> QED
      BY <1>3, <2>2, <2>3
  <1>7. MailRouted(net') /\ Adds(Q, net', c, Peers(c), d)
    <2>1. Free(Q, c, Peers(c), d)
      BY <1>1, <1>2, <1>6 DEF Free, Route
    <2>2. /\ MailRouted(Q) /\ c \in Shards /\ Peers(c) \in SUBSET Shards /\ d \in Messages
          /\ net' = Sent(Q, c, Peers(c), d)
      BY <1>1, <1>2
    <2> QED
      BY <2>1, <2>2, SentEffect
  <1>8. \A p \in Peers(c) : Mail(c, p, t)' = {d}
    BY <1>2, <1>7 DEF Adds, Mail
  <1>9. \A p \in Peers(c) : Mail(p, c, t)' = {}
    <2>1. ASSUME NEW p \in Peers(c) PROVE Of(net'[p][c], t) = Of(Q[p][c], t)
      <3>1. p \in Shards /\ p # c
        BY <1>1
      <3> QED
        BY SMTT(30), <1>1, <1>7, <3>1 DEF Adds
    <2> QED
      BY <1>6, <2>1 DEF Mail
  <1>10. \A u \in TransactionIds : u # t => SameMail(u)
    BY SMTT(30), <1>2, <1>5, <1>7 DEF Adds, Mail, SameMail
  <1>11. SentToPeers(t, d)
    BY <1>8, <1>9 DEF SentToPeers
  <1> QED
    BY <1>7, <1>10, <1>11 DEF DecisionOut

\* The loop decides to commit.
LEMMA CommitDecided ==
    ASSUME SInv, NEW t \in TransactionIds, NEW s \in Peers(CoordinatorOf[t]),
           NEW x, x.tx = t, x.kind = "ReadyToCommit",
           NEW Q, Removes(net, Q, s, CoordinatorOf[t], x), MailRouted(Q),
           clients[t].commit_status = "ReadyToCommit",
           AllVotesIn(CoordinatorOf[t], clients[t].commit_count + 1),
           net' = DoCommit(CoordinatorOf[t], t, Q),
           forward_rcv'[t] = Append(forward_rcv[t], "CommitOk"),
           VoteCounted(t, x),
           UNCHANGED <<shards, handler, pending, reply, acks, from_clients, remote>>
    PROVE  Carriers' /\ Protocols'
  <1> DEFINE c == CoordinatorOf[t]
             d == Message("DoCommit", t, NoCall, "none")
  <1>1. Mail(s, c, t) = {x} /\ c \in Shards /\ s \in Shards /\ s # c
    BY SInvFacts DEF Removes, Mail, Peers
  <1>2. VoteDue(t, s, x)
    <2>1. IsVote(x)
      BY DEF IsVote
    <2> QED
      BY <1>1, <2>1, VoteFacts
  <1>3. d.kind = "DoCommit"
    BY DEF Message
  <1>4. net' = Sent(Q, c, Peers(c), d)
    BY DEF DoCommit
  <1> HIDE DEF d
  <1>5. /\ MailRouted(net)' /\ \A u \in TransactionIds : u # t => SameMail(u)
        /\ SentToPeers(t, d)
    <2>1. d = Message("DoCommit", t, NoCall, "none")
      BY DEF d
    <2>2. DecisionOut(t, d)
      BY <1>2, <1>4, <2>1, DecisionSent
    <2> QED
      BY <2>2 DEF DecisionOut
  <1>6. \A p \in Peers(c) : Stage(<<p, t>>) = "ready" /\ ~Asked(t, p) /\ ~Works(t, p)
    BY <1>1, <1>2, AllReady
  <1> USE DEF VoteCounted
  <1>7. handler[t] = "votes" /\ forward_rcv[t] = <<>>
    BY <1>2 DEF VoteDue
  <1>8. \A k \in Tasks : Stage(k)' = Stage(k)
    BY SameStages
  <1>9. /\ handler'[t] = handler[t] /\ reply'[t] = reply[t] /\ remote' = remote
        /\ Entries(t)' = Entries(t) /\ UNCHANGED from_clients
    BY DEF Entries
  <1>10. OtherwiseSame(t, s)
    BY <1>8 DEF OtherwiseSame, Tasks
  <1>11. ASSUME NEW p \in Peers(c)
         PROVE  /\ ~Asked(t, p)' /\ ~Requested(t, p)' /\ ~Works(t, p)' /\ ~Answers(t, p)'
                /\ Bound(t, p)'
    <2>1. Stage(<<p, t>>)' = "ready"
      BY <1>6, <1>8, SInvFacts DEF Peers
    <2>2. Mail(c, p, t)' = {d} /\ Mail(p, c, t)' = {}
      BY <1>5 DEF SentToPeers
    <2>3. ~Asked(t, p)' /\ ~Works(t, p)'
      <3>1. ~Asked(t, p) /\ ~Works(t, p)
        BY <1>6
      <3> QED
        BY <1>9, <3>1 DEF Asked, Works
    <2>4. ~Requested(t, p)' /\ ~Answers(t, p)' /\ Bound(t, p)'
      BY <1>3, <2>1, <2>2 DEF Requested, Answers, Bound
    <2> QED
      BY <2>3, <2>4
  <1>12. Open(t)' = {}
    BY <1>11 DEF Open
  <1>13. forward_rcv'[t] = <<"CommitOk">>
    <2>1. Append(<<>>, "CommitOk") = <<"CommitOk">>
      BY OneItem
    <2> QED
      BY <1>7, <2>1
  <1>14. Count(t)'
    <2>1. /\ forward_rcv'[t] # <<>> /\ Len(forward_rcv'[t]) = 1
          /\ forward_rcv'[t][1] = "CommitOk"
      BY <1>13, OneItem
    <2>2. Cardinality(Open(t)') = 0
      BY <1>12, SizeOfNone
    <2> QED
      BY <1>7, <1>9, <2>1, <2>2 DEF Count
  <1>15. ASSUME NEW p \in Peers(c) PROVE Leg(t, p)' /\ Far(t, p)'
    <2>1. Mail(c, p, t)' = {d} /\ Mail(p, c, t)' = {}
      BY <1>5 DEF SentToPeers
    <2>2. forward_rcv'[t] # <<>> /\ forward_rcv'[t][1] = "CommitOk"
      BY <1>13, OneItem
    <2>3. Leg(t, p)'
      BY <1>3, <1>11, <2>1 DEF Leg
    <2>4. Far(t, p)'
      BY <1>3, <1>7, <1>9, <1>11, <2>1, <2>2 DEF Far
    <2> QED
      BY <2>3, <2>4
  <1>16. Near(t)'
    <2>1. Near(t) /\ Stage(Here(t))' = Stage(Here(t))
      BY <1>8, SInvFacts
    <2> QED
      BY <1>9, <2>1 DEF Near, Works
  <1>17. Entered(t)' /\ Standing(t)'
    <2>1. \A e : RealCall(t, e)' = RealCall(t, e)
      BY <1>9 DEF RealCall, AsksFor
    <2>2. Entered(t) /\ Standing(t)
      BY SInvFacts
    <2>3. clients'[t].open = clients[t].open /\ pending'[t] = pending[t]
      OBVIOUS
    <2>4. Entered(t)'
      BY <1>9, <2>1, <2>2 DEF Entered
    <2>5. Standing(t)'
      BY <1>9, <2>2, <2>3 DEF Standing
    <2> QED
      BY <2>4, <2>5
  <1>18. Protocol(t)'
    BY <1>14, <1>15, <1>16, <1>17 DEF Protocol
  <1>19. Elsewhere(t)
    BY <1>5, <1>10, LegElsewhere
  <1>20. Carriers'
    BY <1>5, <1>9, SInvFacts DEF Carriers, EntriesRouted
  <1> QED
    BY <1>18, <1>19, <1>20, SInvFacts, OneTransaction

\* The loop of the coordinator takes a vote, the last one or not.
LEMMA HandleVoteStep ==
    ASSUME SInv, NEW m \in Shards, NEW n \in Shards,
           NEW vote \in {"ReadyToCommit", "CannotCommit"}, HandleVote(m, n, vote)
    PROVE  Carriers' /\ Protocols'
  <1> DEFINE x == Head(net[m][n])
             t == x.tx
             Q == Received(m, n)
             count == clients[t].commit_count + 1
             status == StatusAfter(t, vote)
  <1>1. /\ net[m][n] # <<>> /\ x.kind = vote
        /\ clients' = [clients EXCEPT ![t].commit_count = count,
                                      ![t].commit_status = status]
        /\ \/ ~AllVotesIn(n, count) /\ net' = Q /\ UNCHANGED forward_rcv
           \/ /\ AllVotesIn(n, count) /\ net' = AfterDecision(n, t, status, Q)
              /\ forward_rcv' = Set(forward_rcv, t, Append(forward_rcv[t],
                                      IF status = "ReadyToCommit" THEN "CommitOk"
                                                                  ELSE "Aborted"))
    BY DEF HandleVote, Receive, PassToClient
  <1>2. UNCHANGED <<shards, handler, pending, reply, acks, from_clients, remote>>
    BY DEF HandleVote
  <1>3. /\ x \in Messages /\ t \in TransactionIds /\ Route(x, m, n)
        /\ MailRouted(Q) /\ Removes(net, Q, m, n, x)
    <2>1. MailRouted(net)
      BY DEF SInv, Carriers
    <2> QED
      BY <1>1, <2>1, ReceivedEffect
  <1>4. n = CoordinatorOf[t] /\ m \in Peers(n)
    BY <1>1, <1>3 DEF Route, Peers
  <1> HIDE DEF x, Q
  <1>5. /\ HandlerTypes /\ forward_rcv[t] \in Seq(Responses)
        /\ clients[t].commit_count \in Nat
    <2>1. HandlerTypes
      BY <1>3, SInvFacts
    <2>2. Cardinality(Shards) \in Nat
      BY SizeIsNat, CoordinatorConstants
    <2> QED
      BY SMTT(30), <1>3, <2>1, <2>2 DEF HandlerTypes
  <1>6. /\ clients'[t].commit_count = count /\ clients'[t].commit_status = status
        /\ clients'[t].open = clients[t].open
        /\ \A u \in TransactionIds : u # t => clients'[u] = clients[u]
    BY <1>1, <1>3, <1>5 DEF HandlerTypes
  <1>7. status \in {"ReadyToCommit", "CannotCommit"}
    BY <1>3, <1>5 DEF StatusAfter, HandlerTypes
  <1>8. /\ \A u \in TransactionIds : u # t => forward_rcv'[u] = forward_rcv[u]
        /\ forward_rcv' \in [TransactionIds -> Seq(Responses)]
        /\ AllVotesIn(n, count) => forward_rcv'[t] =
             Append(forward_rcv[t], IF status = "ReadyToCommit" THEN "CommitOk" ELSE "Aborted")
    <2> DEFINE r == IF status = "ReadyToCommit" THEN "CommitOk" ELSE "Aborted"
    <2>1. r \in Responses
      BY DEF Responses
    <2>2. forward_rcv' = forward_rcv \/ forward_rcv' = Set(forward_rcv, t, Append(forward_rcv[t], r))
      BY <1>1
    <2>3. AllVotesIn(n, count) => forward_rcv' = Set(forward_rcv, t, Append(forward_rcv[t], r))
      BY <1>1
    <2>4. forward_rcv \in [TransactionIds -> Seq(Responses)]
      BY <1>5 DEF HandlerTypes
    <2> HIDE DEF r
    <2>5. Append(forward_rcv[t], r) \in Seq(Responses)
      BY SMTT(30), <1>5, <2>1
    <2> QED
      BY <1>3, <2>2, <2>3, <2>4, <2>5 DEF Set, r
  <1>9. count \in 0 .. Cardinality(Shards)
    <2>1. VoteDue(t, m, x)
      <3>1. Mail(m, n, t) = {x}
        BY <1>3 DEF Removes, Mail
      <3> QED
        BY SMTT(30), <1>1, <1>3, <1>4, <3>1, VoteFacts DEF IsVote
    <2>2. Cardinality(Shards) \in Nat
      BY SizeIsNat, CoordinatorConstants
    <2>3. \A i, j, k \in Nat : j > 0 /\ i + j = k - 1 => i + 1 \in 0 .. k
      OBVIOUS
    <2> QED
      BY <2>1, <2>2, <2>3 DEF VoteDue
  <1>10. HandlerTypes'
    <2> DEFINE R == [open : BOOLEAN, commit_count : 0 .. Cardinality(Shards),
                     commit_status : {"ReadyToCommit", "CannotCommit"}]
               h == [clients[t] EXCEPT !.commit_count = count, !.commit_status = status]
    <2>1. clients \in [TransactionIds -> R] /\ clients[t] \in R
      BY <1>3, <1>5 DEF HandlerTypes
    <2>2. clients' = [clients EXCEPT ![t] = h]
      BY <1>1, <1>3, <2>1
    <2>3. h \in R
      <3> HIDE DEF count, status
      <3> QED
        BY <1>7, <1>9, <2>1
    <2>4. clients' \in [TransactionIds -> R]
      <3> HIDE DEF h, R
      <3> QED
        BY <2>1, <2>2, <2>3
    <2> QED
      BY <1>2, <1>5, <1>8, <2>4 DEF HandlerTypes
  <1>11. VoteCounted(t, x) /\ IsVote(x) /\ x.tx = t
    BY <1>1, <1>6, <1>8, <1>10 DEF VoteCounted, IsVote
  <1> HIDE DEF t
  <1>12. CASE ~AllVotesIn(n, count)
    <2>1. net' = Q /\ NoCommit(t)
      BY <1>1, <1>4, <1>12 DEF NoCommit
    <2> QED
      BY <1>2, <1>3, <1>4, <1>11, <2>1, VoteArrives
  <1>13. CASE AllVotesIn(n, count) /\ status # "ReadyToCommit"
    <2>1. net' = Q /\ NoCommit(t)
      BY <1>1, <1>4, <1>8, <1>13 DEF AfterDecision, NoCommit
    <2> QED
      BY <1>2, <1>3, <1>4, <1>11, <2>1, VoteArrives
  <1>14. CASE AllVotesIn(n, count) /\ status = "ReadyToCommit"
    <2>1. net' = DoCommit(n, t, Q) /\ forward_rcv'[t] = Append(forward_rcv[t], "CommitOk")
      BY <1>1, <1>8, <1>14 DEF AfterDecision
    <2>2. vote = "ReadyToCommit" /\ clients[t].commit_status = "ReadyToCommit"
      BY <1>14 DEF StatusAfter
    <2>3. x.kind = "ReadyToCommit"
      BY <1>1, <2>2
    <2> QED
      BY <1>2, <1>3, <1>4, <1>11, <1>14, <2>1, <2>2, <2>3, CommitDecided
  <1> QED
    BY <1>12, <1>13, <1>14

-----------------------------------------------------------------------------
(* The shards' own steps, and all steps together                           *)

\* A task on the coordinator's own shard
LEMMA TaskHere ==
    ASSUME SInv, NEW t \in TransactionIds, StageMoves(CoordinatorOf[t], t),
           UNCHANGED coordination
    PROVE  Protocol(t)'
  <1> DEFINE c == CoordinatorOf[t]
  <1>1. /\ handler'[t] = handler[t] /\ reply'[t] = reply[t] /\ pending'[t] = pending[t]
        /\ acks'[t] = acks[t] /\ forward_rcv'[t] = forward_rcv[t]
        /\ clients'[t] = clients[t] /\ remote' = remote
        /\ Entries(t)' = Entries(t) /\ SameMail(t)
    BY DEF coordination, Entries, SameMail, Mail
  <1>2. c \in Shards /\ Here(t) = <<c, t>>
    BY SInvFacts DEF Here
  <1>3. \A p \in Peers(c) : SameLeg(t, p)
    <2>1. \A p \in Peers(c) : Stage(<<p, t>>)' = Stage(<<p, t>>)
      BY <1>2 DEF StageMoves, Tasks, Peers
    <2> QED
      BY <1>1, <1>2, <2>1 DEF SameLeg, SameMail, Peers, Asked
  <1>4. SameHandler(t)
    BY <1>1 DEF SameHandler
  <1>5. \A p \in Peers(c) : Leg(t, p)' /\ Far(t, p)'
    BY <1>1, <1>3, <1>4, LegKept, SInvFacts
  <1>6. Open(t)' = Open(t)
    <2>1. \A p \in Peers(c) : (p \in Open(t))' = (p \in Open(t))
      BY <1>3, LegKept
    <2>2. Open(t) \subseteq Peers(c) /\ Open(t)' \subseteq Peers(c)
      BY DEF Open
    <2> QED
      BY <2>1, <2>2
  <1>7. Count(t)'
    <2>1. Count(t)
      BY SInvFacts
    <2> QED
      BY <1>1, <1>6, <2>1 DEF Count
  <1>8. Entered(t)' /\ Standing(t)'
    <2>1. \A e : RealCall(t, e)' = RealCall(t, e)
      BY <1>1 DEF RealCall, AsksFor
    <2> QED
      BY <1>1, <2>1, SInvFacts DEF Entered, Standing
  <1>9. Near(t)'
    <2> DEFINE stage == Stage(Here(t))
    <2>1. Near(t)
      BY SInvFacts
    <2>2. ~Works(t, c)'
      BY <1>1, <2>1 DEF Near, Works
    <2>3. \/ stage' = stage
          \/ stage \in {"read", "change"} /\ stage' \in {"idle", "failed", "not_found"}
          \/ stage = "check" /\ stage' \in {"ready", "failed"}
          \/ stage = "commit" /\ stage' = "committed"
          \/ stage = "abort" /\ stage' = "aborted"
      BY <1>2 DEF StageMoves
    <2> QED
      BY <1>1, <2>1, <2>2, <2>3 DEF Near
  <1> QED
    BY <1>5, <1>7, <1>8, <1>9 DEF Protocol

\* A task for a peer
LEMMA TaskThere ==
    ASSUME SInv, NEW t \in TransactionIds, NEW s \in Peers(CoordinatorOf[t]),
           StageMoves(s, t), UNCHANGED coordination
    PROVE  Protocol(t)'
  <1> DEFINE c == CoordinatorOf[t]
             stage == Stage(<<s, t>>)
  <1>1. /\ handler'[t] = handler[t] /\ reply'[t] = reply[t]
        /\ forward_rcv'[t] = forward_rcv[t] /\ clients'[t] = clients[t]
        /\ remote' = remote /\ SameMail(t) /\ Entries(t)' = Entries(t)
        /\ UNCHANGED <<handler, pending, reply, acks, from_clients, forward_rcv, clients>>
    BY DEF coordination, SameMail, Mail, Entries
  <1>2. c \in Shards /\ s \in Shards /\ s # c
    BY SInvFacts DEF Peers
  <1>3. OtherwiseSame(t, s)
    BY <1>1 DEF StageMoves, OtherwiseSame, Tasks
  <1>4. Mail(c, s, t)' = Mail(c, s, t) /\ Mail(s, c, t)' = Mail(s, c, t)
    BY <1>1, <1>2 DEF SameMail
  <1>5. /\ (Asked(t, s)' <=> Asked(t, s)) /\ (Requested(t, s)' <=> Requested(t, s))
        /\ (Works(t, s)' <=> Works(t, s)) /\ (Answers(t, s)' <=> Answers(t, s))
        /\ \A e : RealCall(t, e)' <=> RealCall(t, e)
        /\ \A op : AsksFor(t, op)' <=> AsksFor(t, op)
    BY <1>1, <1>4 DEF Asked, Requested, Works, Answers, RealCall, AsksFor
  <1>6. s \in Open(t)' <=> s \in Open(t)
    BY <1>5 DEF Open
  <1>7. Leg(t, s)'
    BY <1>1, <1>4, <1>5, SInvFacts DEF Leg
  <1>8. \/ stage' = stage
        \/ stage \in {"read", "change"} /\ stage' \in {"idle", "failed", "not_found"}
        \/ stage = "check" /\ stage' \in {"ready", "failed"}
        \/ stage = "commit" /\ stage' = "committed"
        \/ stage = "abort" /\ stage' = "aborted"
    BY DEF StageMoves
  <1>9. Bound(t, s) => Bound(t, s)'
    BY <1>4, <1>8 DEF Bound
  <1>10. Far(t, s)'
    <2>1. Far(t, s)
      BY SInvFacts
    <2>2. CASE stage' = stage
      <3>1. Bound(t, s)' <=> Bound(t, s)
        BY <1>4, <2>2 DEF Bound
      <3> QED
        BY <1>1, <1>4, <1>5, <1>6, <2>1, <2>2, <3>1 DEF Far
    <2>3. CASE stage # stage'
      BY <1>1, <1>4, <1>5, <1>6, <1>8, <1>9, <2>1, <2>3 DEF Far, Stopped
    <2> QED
      BY <2>2, <2>3
  <1>11. \A p \in Peers(c) : p # s =>
            Mail(c, p, t)' = Mail(c, p, t) /\ Mail(p, c, t)' = Mail(p, c, t)
    BY <1>1, <1>2 DEF SameMail, Peers
  <1> QED
    BY <1>1, <1>3, <1>6, <1>7, <1>10, <1>11, SInvFacts, OneLeg

\* A step inside a shard moves the stage of one task as the protocol expects.
LEMMA TaskMoves ==
    ASSUME SInv, NEW s \in Shards, NEW t \in TransactionIds, StageMoves(s, t),
           UNCHANGED coordination
    PROVE  Carriers' /\ Protocols'
  <1>1. Protocol(t)'
    <2>1. CASE s = CoordinatorOf[t]
      BY <2>1, TaskHere
    <2>2. CASE s # CoordinatorOf[t]
      BY <2>2, TaskThere DEF Peers
    <2> QED
      BY <2>1, <2>2
  <1>2. Elsewhere(t)
    <2>1. OtherwiseSame(t, s) /\ UNCHANGED <<forward_rcv, clients, net>>
      BY DEF coordination, StageMoves, OtherwiseSame, Tasks
    <2>2. \A u \in TransactionIds : SameMail(u)
      BY <2>1 DEF SameMail, Mail
    <2> QED
      BY <2>1, <2>2, LegElsewhere
  <1>3. Carriers'
    BY SInvFacts DEF coordination, Carriers, HandlerTypes, EntriesRouted, MailRouted
  <1> QED
    BY <1>1, <1>2, <1>3, SInvFacts, OneTransaction

LEMMA ProtocolInit ==
    ASSUME CoordinatorInit, Cardinalities
    PROVE  Carriers /\ Protocols
  <1>1. Contents(<<>>) = {} /\ OneEach(<<>>) /\ \A t : Of(<<>>, t) = {}
    BY DEF Contents, OneEach, Of
  <1>2. EntriesRouted(from_clients) /\ \A t \in TransactionIds : Entries(t) = {}
    BY SMTT(30), <1>1, CoordinatorConstants DEF CoordinatorInit, EntriesRouted, Entries
  <1>3. MailRouted(net) /\ \A m, n \in Shards : \A t : Mail(m, n, t) = {}
    BY <1>1 DEF CoordinatorInit, MailRouted, Mail
  <1>4. HandlerTypes
    <2>1. 0 \in 0 .. Cardinality(Shards)
      BY SMTT(30), CoordinatorConstants DEF Cardinalities
    <2> QED
      BY <2>1 DEF CoordinatorInit, HandlerTypes, Responses, Ops
  <1>5. ASSUME NEW t \in TransactionIds PROVE Protocol(t)
    <2> DEFINE c == CoordinatorOf[t]
    <2>1. c \in Shards /\ Peers(c) \subseteq Shards
      BY CoordinatorConstants DEF Peers
    <2>2. \A s \in Shards :
             /\ <<s, t>> \in Tasks /\ remote[<<s, t>>] = "none"
             /\ Stage(<<s, t>>) = IF IsSetup(t) THEN "committed" ELSE "idle"
      BY DEF CoordinatorInit, Init, Tasks, Stage, Running
    <2>3. /\ handler[t] = (IF IsSetup(t) THEN "done" ELSE "accept")
          /\ reply[t] = (IF IsSetup(t) THEN "CommitOk" ELSE "none")
          /\ forward_rcv[t] = <<>> /\ clients[t].commit_count = 0
          /\ clients[t].commit_status = "ReadyToCommit"
      BY DEF CoordinatorInit
    <2>4. \A s \in Peers(c) :
             /\ ~Asked(t, s) /\ ~Requested(t, s) /\ ~Works(t, s) /\ ~Answers(t, s)
             /\ Mail(c, s, t) = {} /\ Mail(s, c, t) = {}
      BY <1>2, <1>3, <2>1, <2>2 DEF Asked, Requested, Works, Answers
    <2>5. Open(t) = {}
      BY <2>4 DEF Open
    <2>6. Entered(t) /\ Standing(t) /\ Count(t)
      BY <1>2, <2>3, <2>5 DEF Entered, Standing, Count
    <2>7. Near(t)
      BY <2>1, <2>2, <2>3 DEF Near, Works, Here, IsErr
    <2>8. ASSUME NEW s \in Peers(c) PROVE Leg(t, s) /\ Far(t, s)
      <3>1. Leg(t, s)
        BY <2>4 DEF Leg
      <3>2. Stage(<<s, t>>) = IF IsSetup(t) THEN "committed" ELSE "idle"
        BY <2>1, <2>2
      <3>3. IsSetup(t) => Bound(t, s)
        BY <2>4, <3>2 DEF Bound
      <3> QED
        BY <2>3, <2>4, <3>1, <3>2, <3>3 DEF Far, IsErr
    <2> QED
      BY <2>6, <2>7, <2>8 DEF Protocol
  <1> QED
    BY <1>2, <1>3, <1>4, <1>5 DEF Carriers, Protocols

\* Stuttering
LEMMA UnchangedProtocol ==
    ASSUME SInv, UNCHANGED allVars
    PROVE  Carriers' /\ Protocols'
  <1>1. UNCHANGED coordination /\ UNCHANGED shards
    BY DEF allVars
  <1>2. \A k \in Tasks : Stage(k)' = Stage(k)
    BY <1>1, SameStages
  <1>3. ASSUME NEW u \in TransactionIds PROVE Protocol(u)'
    <2>1. SameView(u)
      BY <1>1, <1>2 DEF coordination, SameView, SameHandler, SameTasks, SameMail, Mail,
         Entries, Tasks
    <2> QED
      BY <2>1, UnseenStep, SInvFacts
  <1>4. Carriers'
    BY <1>1 DEF SInv, coordination, Carriers, HandlerTypes, EntriesRouted, MailRouted
  <1> QED
    BY <1>3, <1>4 DEF Protocols

\* Every step of the servers keeps the protocol, if the shards' tasks move as
\* they should.
LEMMA ProtocolNext ==
    ASSUME SInv, [CoordinatorNext]_allVars,
           \A s \in Shards, t \in TransactionIds : TaskStep(s, t) => StageMoves(s, t)
    PROVE  Carriers' /\ Protocols'
  <1>1. ASSUME NEW t \in TransactionIds, Accept(t) \/ ClientEnds(t)
        PROVE  Carriers' /\ Protocols'
    BY <1>1, AcceptStep, CommitRequestStep, AbortRequestStep DEF ClientEnds
  <1>2. ASSUME NEW t \in TransactionIds, HandlerStep(t)
        PROVE  Carriers' /\ Protocols'
    BY <1>2, LocalResponseStep, RemoteResponseStep, BroadcastAbortStep, CountAckStep,
       AbortDoneStep, LocalVoteStep, DecisionStep, CommitDoneStep DEF HandlerStep
  <1>3. ASSUME NEW n \in Shards, HandleClientState(n)
        PROVE  Carriers' /\ Protocols'
    BY <1>3, HandleClientStateStep
  <1>4. ASSUME NEW m \in Shards, NEW n \in Shards, LoopReceives(m, n)
        PROVE  Carriers' /\ Protocols'
    BY <1>4, HandleRemoteRequestStep, HandleResponseStep, HandleVoteStep,
       HandleDoCommitStep DEF LoopReceives
  <1>5. ASSUME NEW s \in Shards, NEW t \in TransactionIds, ShardStep(s, t)
        PROVE  Carriers' /\ Protocols'
    BY <1>5, TaskMoves, AnswerStep DEF ShardStep
  <1>6. ASSUME NEW t \in TransactionIds, ClientStep(t)
        PROVE  Carriers' /\ Protocols'
    <2>1. CASE NoSuchShard(t) \/ Disconnect(t)
      BY <2>1, AbortRequestStep, DisconnectStep
    <2>2. ASSUME NEW a \in Accounts, Request(t, [CallOf("read") EXCEPT !.acct = a])
          PROVE  Carriers' /\ Protocols'
      <3> DEFINE d == [CallOf("read") EXCEPT !.acct = a]
      <3>1. d \in Calls /\ d.op = "read" /\ d.acct = a
        <4>1. CallOf("read") \in Calls /\ CallOf("read").op = "read"
          BY CallsOf DEF Ops
        <4> QED
          BY <4>1 DEF Calls
      <3> HIDE DEF d
      <3> QED
        BY <2>2, <3>1, RequestStep DEF d
    <2>3. ASSUME NEW a \in Accounts, NEW d \in Diffs,
                 Request(t, [CallOf("change") EXCEPT !.acct = a, !.amount = d])
          PROVE  Carriers' /\ Protocols'
      <3> DEFINE e == [CallOf("change") EXCEPT !.acct = a, !.amount = d]
      <3>1. e \in Calls /\ e.op = "change" /\ e.acct = a /\ e.amount = d
        <4>1. CallOf("change") \in Calls /\ CallOf("change").op = "change"
          BY CallsOf DEF Ops
        <4> QED
          BY <4>1, ShardConstants DEF Calls
      <3> HIDE DEF e
      <3> QED
        BY <2>3, <3>1, RequestStep DEF e
    <2> QED
      BY <1>6, <2>1, <2>2, <2>3 DEF ClientStep
  <1>7. CASE UNCHANGED allVars
    BY <1>7, UnchangedProtocol
  <1> QED
    BY <1>1, <1>2, <1>3, <1>4, <1>5, <1>6, <1>7 DEF CoordinatorNext, SystemStep, AllQuiet

-----------------------------------------------------------------------------
(* What a step of the servers is to the shards and to the client           *)

\* The client gets its final response.
Replies ==
    \E t \in TransactionIds, r \in Responses :
        /\ handler[t] # "done" /\ handler' = Set(handler, t, "done")
        /\ reply' = Set(reply, t, r)

ShardActs(s, t) == TaskStep(s, t) \/ Call(s, t)

\* What a handler or a client does to the shards, or to what a client is told,
LEMMA HandlerActs ==
    ASSUME SInv, NEW t \in TransactionIds,
           \/ Accept(t) \/ ClientEnds(t) \/ HandlerStep(t) \/ ClientStep(t)
    PROVE  \/ UNCHANGED <<shards, reply>>
           \/ ShardActs(CoordinatorOf[t], t) /\ UNCHANGED reply
           \/ Replies /\ UNCHANGED shards
  <1> DEFINE c == CoordinatorOf[t]
  <1>1. CASE Accept(t) \/ BroadcastAbort(t) \/ CountAck(t) \/ Disconnect(t)
    BY <1>1 DEF Accept, BroadcastAbort, CountAck, Disconnect
  <1>2. ASSUME NEW r, DoAbort(t, r) PROVE ShardActs(c, t) /\ UNCHANGED reply
    BY <1>2 DEF DoAbort, ShardActs, Call, Finish
  <1>3. CASE ClientEnds(t) \/ NoSuchShard(t)
    BY <1>2, <1>3 DEF ClientEnds, CommitRequest, AbortRequest, NoSuchShard, ShardActs, Call,
       Finish
  <1>4. CASE LocalResponse(t) \/ RemoteResponse(t)
    BY <1>2, <1>4 DEF LocalResponse, RemoteResponse, Respond
  <1>5. CASE LocalVote(t)
    BY <1>2, <1>5 DEF LocalVote, ShardActs, Call, Finish
  <1>6. CASE AbortDone(t) \/ CommitDone(t)
    <2>1. pending[t] \in Responses /\ "CommitOk" \in Responses
      BY SInvFacts DEF HandlerTypes, Responses
    <2> QED
      BY <1>6, <2>1 DEF AbortDone, CommitDone, FinishWith, Replies
  <1>7. ASSUME NEW d, d.op \in {"read", "change"}, d.acct \in Accounts,
               d.op = "change" => d.amount \in Diffs, Request(t, d)
        PROVE  \/ UNCHANGED <<shards, reply>>
               \/ ShardActs(c, t) /\ UNCHANGED reply
    <2>1. c \in Shards /\ UNCHANGED reply
      BY <1>7, SInvFacts DEF Request
    <2>2. UNCHANGED shards \/ Start(c, t, d)
      BY <1>7 DEF Request
    <2> QED
      BY <1>7, <2>1, <2>2, StartIsCall DEF ShardActs
  <1>8. CASE \E a \in Accounts : Request(t, [CallOf("read") EXCEPT !.acct = a])
    <2> PICK a \in Accounts : Request(t, [CallOf("read") EXCEPT !.acct = a])
      BY <1>8
    <2> DEFINE e == [CallOf("read") EXCEPT !.acct = a]
    <2>1. e.op = "read" /\ e.acct = a
      BY DEF CallOf, NoCall
    <2>2. Request(t, e)
      OBVIOUS
    <2> HIDE DEF e
    <2> QED
      BY SMTT(30), <1>7, <2>1, <2>2
  <1>9. CASE \E a \in Accounts, d \in Diffs :
                Request(t, [CallOf("change") EXCEPT !.acct = a, !.amount = d])
    <2> PICK a \in Accounts, d \in Diffs :
                Request(t, [CallOf("change") EXCEPT !.acct = a, !.amount = d])
      BY <1>9
    <2> DEFINE e == [CallOf("change") EXCEPT !.acct = a, !.amount = d]
    <2>1. e.op = "change" /\ e.acct = a /\ e.amount = d
      BY DEF CallOf, NoCall
    <2>2. Request(t, e)
      OBVIOUS
    <2> HIDE DEF e
    <2> QED
      BY SMTT(30), <1>7, <2>1, <2>2
  <1>10. CASE Decision(t)
    <2>1. handler[t] = "votes" /\ forward_rcv[t] # <<>>
      BY <1>10 DEF Decision
    <2>2. Head(forward_rcv[t]) \in {"CommitOk", "Aborted"}
      BY <2>1, LastResponse
    <2> QED
      BY <1>2, <1>10, <2>2 DEF Decision, ShardActs, Call, Finish
  <1> QED
    BY <1>1, <1>3, <1>4, <1>5, <1>6, <1>8, <1>9, <1>10 DEF HandlerStep, ClientStep

\* what the loop does,
LEMMA LoopActs ==
    ASSUME SInv, NEW m \in Shards, NEW n \in Shards, LoopReceives(m, n)
    PROVE  /\ UNCHANGED reply
           /\ UNCHANGED shards \/ \E t \in TransactionIds : ShardActs(n, t)
  <1> DEFINE x == Head(net[m][n])
             t == x.tx
  <1>1. net[m][n] # <<>> /\ UNCHANGED reply
    BY DEF LoopReceives, HandleRemoteRequest, HandleResponse, HandleVote, HandleDoCommit
  <1>2. /\ x \in Messages /\ t \in TransactionIds /\ Route(x, m, n)
        /\ Removes(net, Received(m, n), m, n, x)
    BY <1>1, ReceivedEffect DEF SInv, Carriers
  <1>3. CASE HandleResponse(m, n) \/ \E vote : HandleVote(m, n, vote)
    BY <1>1, <1>3 DEF HandleResponse, HandleVote
  <1>4. CASE HandleDoCommit(m, n)
    BY <1>1, <1>2, <1>4 DEF HandleDoCommit, ShardActs, Call, Finish
  <1>5. CASE HandleRemoteRequest(m, n)
    <2>1. x.kind = "Request" /\ Start(n, t, x.call)
      BY <1>5 DEF HandleRemoteRequest, Receive
    <2>2. m = CoordinatorOf[t] /\ n \in Peers(m)
      BY <1>2, <2>1 DEF Route, Peers
    <2>3. x \in Mail(m, n, t)
      BY <1>2 DEF Removes, Mail
    <2>4. RealCall(t, x.call)
      BY <1>2, <2>1, <2>2, <2>3, SInvFacts DEF Leg
    <2>5. Call(n, t)
      BY <1>2, <2>1, <2>4, StartIsCall DEF RealCall
    <2> QED
      BY <1>1, <1>2, <2>5 DEF ShardActs
  <1> QED
    BY <1>3, <1>4, <1>5 DEF LoopReceives

\* and what any step does
LEMMA ServerStep ==
    ASSUME SInv, [CoordinatorNext]_allVars
    PROVE  \/ UNCHANGED <<shards, reply>>
           \/ UNCHANGED reply /\ \E s \in Shards, t \in TransactionIds : ShardActs(s, t)
           \/ UNCHANGED shards /\ Replies
  <1>1. ASSUME NEW t \in TransactionIds,
               \/ Accept(t) \/ ClientEnds(t) \/ HandlerStep(t) \/ ClientStep(t)
        PROVE  \/ UNCHANGED <<shards, reply>>
               \/ UNCHANGED reply /\ \E s \in Shards : ShardActs(s, t)
               \/ UNCHANGED shards /\ Replies
    BY <1>1, HandlerActs, SInvFacts
  <1>2. ASSUME NEW n \in Shards, HandleClientState(n) PROVE UNCHANGED <<shards, reply>>
    BY <1>2 DEF HandleClientState
  <1>3. ASSUME NEW s \in Shards, NEW t \in TransactionIds, ShardStep(s, t)
        PROVE  /\ UNCHANGED reply
               /\ UNCHANGED shards \/ ShardActs(s, t)
    BY <1>3 DEF ShardStep, Answer, coordination, ShardActs
  <1>4. UNCHANGED allVars => UNCHANGED <<shards, reply>>
    BY DEF allVars, coordination
  <1> QED
    BY <1>1, <1>2, <1>3, <1>4, LoopActs DEF CoordinatorNext, SystemStep, AllQuiet

\* The servers take no step on a shard that module Shard does not allow.
LEMMA ShardsStep ==
    ASSUME SInv, [CoordinatorNext]_allVars
    PROVE  [Next]_vars
  <1>1. UNCHANGED shards => UNCHANGED vars
    BY DEF shards, vars
  <1> QED
    BY <1>1, ServerStep DEF Next, ShardActs

-----------------------------------------------------------------------------
(* What the invariant says of the outcome                                  *)

\* A reply is none, a commit or an error.
LEMMA RepliesAre ==
    ASSUME SInv, NEW t \in TransactionIds
    PROVE  \/ reply[t] = "none" \/ reply[t] = "CommitOk" \/ IsErr(reply[t])
  BY SInvFacts DEF HandlerTypes, Responses, Standing, IsErr

\* If one shard commits, every shard is bound to.
LEMMA CommitsTogether ==
    ASSUME SInv, NEW t \in TransactionIds, NEW m \in Shards,
           Stage(<<m, t>>) \in {"commit", "committed"}
    PROVE  \A n \in Shards : Stage(<<n, t>>) \in {"ready", "commit", "committed"}
  <1> DEFINE c == CoordinatorOf[t]
             fwd == forward_rcv[t]
  <1>1. /\ c \in Shards /\ Here(t) = <<c, t>>
        /\ handler[t] \in {"accept", "idle", "local", "remote", "abort", "acks",
                           "check", "votes", "commit", "done"}
    BY SInvFacts DEF Here, HandlerTypes
  <1>2. \/ handler[t] = "commit"
        \/ handler[t] = "done" /\ reply[t] = "CommitOk"
        \/ handler[t] = "votes" /\ fwd # <<>> /\ fwd[1] = "CommitOk"
    <2> reply[t] = "none" \/ reply[t] = "CommitOk" \/ IsErr(reply[t])
      BY RepliesAre
    <2>1. CASE m = c
      <3>1. Near(t) /\ Stage(Here(t)) \in {"commit", "committed"}
        BY <1>1, <2>1, SInvFacts
      <3> QED
        BY <1>1, <3>1 DEF Near
    <2>2. CASE m # c
      <3>1. m \in Peers(c) /\ Far(t, m)
        BY <2>2, SInvFacts DEF Peers
      <3>2. CASE handler[t] = "votes"
        <4>1. m \notin Open(t)
          <5>1. ~Asked(t, m) /\ ~Requested(t, m) /\ ~Works(t, m)
            BY <3>1, <3>2 DEF Far
          <5>2. Mail(m, c, t) = {}
            BY <3>1, <3>2 DEF Far
          <5> QED
            BY <5>1, <5>2 DEF Open, Answers
        <4> QED
          BY <3>1, <3>2, <4>1 DEF Far
      <3>3. CASE handler[t] = "remote"
        <4>1. ~Asked(t, m) /\ ~Requested(t, m) /\ ~Works(t, m)
          BY <3>1, <3>3 DEF Far
        <4>2. Mail(m, c, t) = {}
          BY <3>1, <3>3 DEF Far
        <4>3. m \notin Open(t)
          BY <4>1, <4>2 DEF Open, Answers
        <4> QED
          BY <3>1, <3>3, <4>3 DEF Far
      <3>4. CASE handler[t] = "acks"
        BY <3>1, <3>4 DEF Far, Stopped
      <3>5. CASE handler[t] \notin {"votes", "remote", "acks"}
        BY <1>1, <3>1, <3>5 DEF Far, Stopped
      <3> QED
        BY <3>2, <3>3, <3>4, <3>5
    <2> QED
      BY <2>1, <2>2
  <1>3. Stage(Here(t)) \in {"ready", "commit", "committed"}
    BY <1>2, SInvFacts DEF Near
  <1>4. ASSUME NEW n \in Peers(c) PROVE Stage(<<n, t>>) \in {"ready", "commit", "committed"}
    <2>1. Far(t, n)
      BY SInvFacts
    <2>2. Bound(t, n)
      <3>1. CASE handler[t] # "votes"
        BY <1>2, <2>1, <3>1 DEF Far
      <3>2. CASE handler[t] = "votes" /\ fwd # <<>> /\ fwd[1] = "CommitOk"
        <4>1. Cardinality(Open(t)) = 0
          BY <3>2, SInvFacts DEF Count
        <4>2. Open(t) = {}
          BY <4>1, OpenCount
        <4> QED
          BY <2>1, <3>2, <4>2 DEF Far
      <3> QED
        BY <1>2, <3>1, <3>2
    <2> QED
      BY <2>2 DEF Bound
  <1> QED
    BY <1>1, <1>3, <1>4 DEF Peers

\* A client that has been told COMMIT OK or ABORTED was told the truth.
LEMMA RepliesAreTrue ==
    ASSUME SInv, NEW t \in TransactionIds
    PROVE  /\ reply[t] = "CommitOk" =>
                 /\ Stage(Here(t)) = "committed"
                 /\ \A n \in Shards : Stage(<<n, t>>) \in {"ready", "commit", "committed"}
           /\ IsErr(reply[t]) => \A n \in Shards : Stage(<<n, t>>) = "aborted"
  <1>1. reply[t] # "none" => handler[t] = "done"
    BY SInvFacts DEF Standing
  <1>2. CoordinatorOf[t] \in Shards /\ Here(t) = <<CoordinatorOf[t], t>>
    BY SInvFacts DEF Here
  <1>3. ASSUME reply[t] = "CommitOk"
        PROVE  /\ Stage(Here(t)) = "committed"
               /\ \A n \in Shards : Stage(<<n, t>>) \in {"ready", "commit", "committed"}
    <2>1. Stage(Here(t)) = "committed"
      BY <1>1, <1>3, SInvFacts DEF Near
    <2> QED
      BY <1>2, <2>1, CommitsTogether
  <1>4. ASSUME IsErr(reply[t]), NEW n \in Shards PROVE Stage(<<n, t>>) = "aborted"
    <2>1. handler[t] = "done"
      BY <1>1, <1>4 DEF IsErr
    <2>2. CASE n = CoordinatorOf[t]
      BY <1>2, <1>4, <2>1, <2>2, SInvFacts DEF Near
    <2>3. CASE n \in Peers(CoordinatorOf[t])
      BY <1>4, <2>1, <2>3, SInvFacts DEF Far
    <2> QED
      BY <2>2, <2>3 DEF Peers
  <1> QED
    BY <1>3, <1>4

\* The properties that follow from the invariant, one by one
LEMMA TypesFollow == SInv /\ TypeOK => CoordinatorTypeOK
  BY DEF SInv, Carriers, HandlerTypes, EntriesRouted, MailRouted, CoordinatorTypeOK

LEMMA AllOrNothingFollows == SInv => AllOrNothing
  <1> SUFFICES ASSUME SInv, NEW t \in TransactionIds, NEW m \in Shards, Committing(m, t),
                      NEW n \in Shards
               PROVE  ~Aborting(n, t) /\ pc[<<n, t>>] \notin {"failed", "not_found"}
    BY DEF AllOrNothing
  <1>1. InShape /\ <<m, t>> \in Tasks /\ <<n, t>> \in Tasks
    BY SInvFacts
  <1>2. Stage(<<m, t>>) \in {"commit", "committed"}
    BY <1>1, StageFacts DEF Committing, Outcomes
  <1>3. Stage(<<n, t>>) \in {"ready", "commit", "committed"}
    BY <1>2, CommitsTogether
  <1> QED
    BY <1>1, <1>3, StageFacts DEF Aborting, Outcomes

LEMMA ReplyIsOutcomeFollows == SInv => ReplyIsOutcome
  <1> SUFFICES ASSUME SInv, NEW t \in TransactionIds, NEW s \in Shards
               PROVE  /\ reply[t] = "CommitOk" => pc[<<s, t>>] = "ready" \/ Committing(s, t)
                      /\ IsErr(reply[t]) => pc[<<s, t>>] = "aborted"
    BY DEF ReplyIsOutcome
  <1>1. InShape /\ <<s, t>> \in Tasks
    BY SInvFacts
  <1>2. /\ reply[t] = "CommitOk" => Stage(<<s, t>>) \in {"ready", "commit", "committed"}
        /\ IsErr(reply[t]) => Stage(<<s, t>>) = "aborted"
    BY RepliesAreTrue
  <1> QED
    BY <1>1, <1>2, StageFacts DEF Committing, Outcomes

LEMMA NoStrayResponseFollows == SInv => NoStrayResponse
  <1> SUFFICES ASSUME SInv, NEW t \in TransactionIds
               PROVE  /\ handler[t] \in {"idle", "local", "abort", "check", "commit", "done"}
                            => forward_rcv[t] = <<>>
                      /\ handler[t] = "votes" =>
                            \A i \in DOMAIN forward_rcv[t] :
                                forward_rcv[t][i] \in {"CommitOk", "Aborted"}
                      /\ handler[t] = "acks" =>
                            \A i \in DOMAIN forward_rcv[t] : forward_rcv[t][i] = "Aborted"
    BY DEF NoStrayResponse
  <1>1. Count(t) /\ forward_rcv[t] \in Seq(Responses)
    BY SInvFacts DEF HandlerTypes
  <1>2. ASSUME handler[t] = "votes", NEW i \in DOMAIN forward_rcv[t]
        PROVE  forward_rcv[t][i] \in {"CommitOk", "Aborted"}
    <2>1. forward_rcv[t] # <<>>
      BY <1>1, <1>2
    <2>2. Len(forward_rcv[t]) = 1 /\ forward_rcv[t][1] \in {"CommitOk", "Aborted"}
      BY <1>1, <1>2, <2>1 DEF Count
    <2> QED
      BY SMTT(30), <1>1, <1>2, <2>2
  <1> QED
    BY <1>1, <1>2 DEF Count

\* A message in a queue
LEMMA InQueue ==
    ASSUME SInv, NEW m \in Shards, NEW n \in Shards, NEW i \in DOMAIN net[m][n],
           NEW x, x = net[m][n][i]
    PROVE  x.tx \in TransactionIds /\ Route(x, m, n) /\ x \in Mail(m, n, x.tx)
  <1>1. MailRouted(net) /\ x \in Contents(net[m][n]) /\ x \in Messages
    BY SMTT(30) DEF SInv, Carriers, MailRouted, Contents
  <1> QED
    BY <1>1 DEF MailRouted, Messages, Mail, Of

LEMMA CallsDoNotOverlapFollows == SInv => CallsDoNotOverlap
  <1> SUFFICES ASSUME SInv, NEW m \in Shards, NEW n \in Shards, net[m][n] # <<>>,
                      NEW x, x = Head(net[m][n])
               PROVE  /\ x.kind = "Request" =>
                           /\ pc[<<n, x.tx>>] \in {"idle", "failed", "not_found", "ready"}
                           /\ x.call.op # "abort" => pc[<<n, x.tx>>] = "idle"
                           /\ remote[<<n, x.tx>>] = "none"
                      /\ x.kind = "DoCommit" => pc[<<n, x.tx>>] = "ready"
    BY SMTT(30) DEF CallsDoNotOverlap
  <1> DEFINE t == x.tx
             c == CoordinatorOf[t]
  <1>1. 1 \in DOMAIN net[m][n] /\ x = net[m][n][1]
    BY DEF SInv, Carriers, MailRouted
  <1>2. t \in TransactionIds /\ Route(x, m, n) /\ x \in Mail(m, n, t)
    BY <1>1, InQueue
  <1>3. InShape /\ <<n, t>> \in Tasks
    BY <1>2, SInvFacts
  <1>4. CASE x.kind \in {"Request", "DoCommit"}
    <2>1. m = c /\ n \in Peers(c)
      BY <1>2, <1>4 DEF Route, Peers
    <2>2. Leg(t, n) /\ Far(t, n)
      BY <1>2, <2>1, SInvFacts
    <2>3. CASE x.kind = "Request"
      <3>1. Requested(t, n) /\ ~Works(t, n) /\ RealCall(t, x.call)
        BY <1>2, <2>1, <2>2, <2>3 DEF Requested, Leg
      <3>2. Stage(<<n, t>>) \in Stopped /\ (x.call.op # "abort" => Stage(<<n, t>>) = "idle")
        BY <2>2, <3>1 DEF RealCall, AsksFor, Far, Stopped
      <3> QED
        BY <1>3, <2>3, <3>1, <3>2, StageFacts DEF Works, Stopped, Outcomes
    <2>4. CASE x.kind = "DoCommit"
      <3>1. Bound(t, n) /\ Mail(c, n, t) # {}
        BY <1>2, <2>1, <2>2, <2>4 DEF Far
      <3>2. Stage(<<n, t>>) = "ready"
        BY <3>1 DEF Bound
      <3> QED
        BY <1>3, <2>4, <3>2, StageFacts DEF Outcomes
    <2> QED
      BY <1>4, <2>3, <2>4
  <1> QED
    BY <1>4

LEMMA AnswersFindTheirClientFollows == SInv => AnswersFindTheirClient
  <1> SUFFICES ASSUME SInv, NEW n \in Shards, NEW t \in Answered(n)
               PROVE  clients[t].open /\ handler[t] # "done"
    BY DEF AnswersFindTheirClient
  <1>1. PICK m \in Shards : \E i \in DOMAIN net[m][n] :
           net[m][n][i].kind \notin {"Request", "DoCommit"} /\ t = net[m][n][i].tx
    BY DEF Answered
  <1>2. PICK x : /\ x.kind \notin {"Request", "DoCommit"} /\ t = x.tx
                 /\ t \in TransactionIds /\ Route(x, m, n) /\ x \in Mail(m, n, t)
    BY <1>1, InQueue
  <1>3. n = CoordinatorOf[t] /\ m \in Peers(n)
    BY <1>2 DEF Route, Peers
  <1>4. m \in Open(t)
    BY <1>2, <1>3 DEF Open, Answers
  <1>5. handler[t] \in {"remote", "acks", "votes"}
    BY <1>2, <1>4, SInvFacts DEF Count
  <1> QED
    BY <1>2, <1>5, SInvFacts DEF Standing

-----------------------------------------------------------------------------
(* The servers implement AtomicCommit                                      *)

PartOf(stage) ==
    CASE stage \in {"commit", "committed"} -> "committed"
      [] stage \in {"abort", "aborted"} -> "aborted"
      [] stage = "ready" -> "prepared"
      [] stage \in {"failed", "not_found"} -> "refused"
      [] OTHER -> "working"

\* The parts follow the stages, and the outcome is agreed.
Agreed ==
    \A t \in TransactionIds :
        /\ \A s \in Shards : Part(s, t) = PartOf(Stage(<<s, t>>))
        /\ \A m \in Shards : Stage(<<m, t>>) \in {"commit", "committed"} =>
              \A n \in Shards : Stage(<<n, t>>) \in {"ready", "commit", "committed"}
        /\ reply[t] = "CommitOk" =>
              /\ Stage(Here(t)) = "committed"
              /\ \A n \in Shards : Stage(<<n, t>>) \in {"ready", "commit", "committed"}
        /\ IsErr(reply[t]) => \A n \in Shards : Stage(<<n, t>>) = "aborted"
        /\ reply[t] = "none" \/ reply[t] = "CommitOk" \/ IsErr(reply[t])

LEMMA AgreedFollows == SInv => Agreed
  <1> SUFFICES ASSUME SInv, NEW t \in TransactionIds, NEW s \in Shards
               PROVE  Part(s, t) = PartOf(Stage(<<s, t>>))
    BY CommitsTogether, RepliesAreTrue, RepliesAre DEF Agreed
  <1>1. InShape /\ <<s, t>> \in Tasks
    BY SInvFacts
  <1>2. /\ Committing(s, t) <=> Stage(<<s, t>>) \in {"commit", "committed"}
        /\ Aborting(s, t) <=> Stage(<<s, t>>) \in {"abort", "aborted"}
        /\ \A o \in {"ready", "failed", "not_found"} : pc[<<s, t>>] = o <=> Stage(<<s, t>>) = o
    BY <1>1, StageFacts DEF Committing, Aborting, Outcomes
  <1> QED
    BY <1>2 DEF Part, PartOf

LEMMA AgreedNext == SInv' => Agreed'
  BY AgreedFollows, PTL

\* How a call begins and a task moves, as stages
StageSteps(s, t) ==
    LET k == <<s, t>> IN
    /\ OnlyStage(s, t)
    /\ \/ PartOf(Stage(k)') = PartOf(Stage(k))
       \/ /\ PartOf(Stage(k)) = "working"
          /\ PartOf(Stage(k)') \in {"prepared", "refused"}
       \/ Stage(k) \in Stopped /\ Stage(k)' = "abort"
       \/ Stage(k) = "ready" /\ Stage(k)' = "commit"

\* Steps inside a shard, seen as stages
LEMMA TaskStages ==
    ASSUME NEW s, NEW t, StageMoves(s, t)
    PROVE  StageSteps(s, t)
  BY DEF StageMoves, StageSteps, OnlyStage, PartOf

\* Calls of a server, seen as stages
LEMMA CallStages ==
    ASSUME InShape, NEW s \in Shards, NEW t \in TransactionIds, Call(s, t)
    PROVE  StageSteps(s, t)
  <1> DEFINE k == <<s, t>>
  <1>1. CASE BeginCommit(s, t)
    BY <1>1, BeginCommitStage DEF StageSteps, OnlyStage
  <1>2. ASSUME NEW c, Start(s, t, c), c.op \in {"read", "change", "check", "abort"}
        PROVE  StageSteps(s, t)
    <2>1. /\ Stage(k)' = c.op /\ Stage(k) \in Stopped
          /\ c.op # "abort" => Stage(k) = "idle"
          /\ OnlyStage(s, t)
      BY <1>2, StartStage DEF Starts
    <2> QED
      BY <1>2, <2>1 DEF StageSteps, PartOf
  <1>3. CASE \E a \in Accounts : BeginRead(s, t, a)
    <2> PICK a \in Accounts : BeginRead(s, t, a)
      BY <1>3
    <2> DEFINE c == [op |-> "read", acct |-> a]
    <2>1. Start(s, t, c) /\ c.op = "read"
      BY DEF Start
    <2> QED
      BY <1>2, <2>1
  <1>4. CASE \E a \in Accounts, d \in Diffs : BeginChange(s, t, a, d)
    <2> PICK a \in Accounts, d \in Diffs : BeginChange(s, t, a, d)
      BY <1>4
    <2> DEFINE c == [op |-> "change", acct |-> a, amount |-> d]
    <2>1. Start(s, t, c) /\ c.op = "change"
      BY DEF Start
    <2> QED
      BY <1>2, <2>1
  <1>5. CASE BeginCheck(s, t) \/ BeginAbort(s, t)
    <2> DEFINE c == [op |-> "check"]
               d == [op |-> "abort"]
    <2>1. (Start(s, t, c) \/ Start(s, t, d)) /\ c.op = "check" /\ d.op = "abort"
      BY <1>5 DEF Start
    <2> QED
      BY <1>2, <2>1
  <1> QED
    BY <1>1, <1>3, <1>4, <1>5 DEF Call, Finish

\* The parts and the replies of the transactions that clients open
LEMMA SamePartsStutter ==
    ASSUME \A t \in Opened, s \in Shards : Part(s, t)' = Part(s, t),
           \A t \in Opened : reply'[t] = reply[t]
    PROVE  UNCHANGED AC!vars
  BY DEF AC!vars, Told

\* One participant of one transaction changes: a step of the abstract protocol
LEMMA OnePartBecomes ==
    ASSUME NEW t \in Opened, NEW s \in Shards, NEW v, Part(s, t)' = v,
           \A u \in Opened, n \in Shards : u # t \/ n # s => Part(n, u)' = Part(n, u),
           \A u \in Opened : reply'[u] = reply[u]
    PROVE  AC!Becomes(t, s, v)
  <1>1. [u \in Opened |-> [n \in Shards |-> Part(n, u)']]
          = [[u \in Opened |-> [n \in Shards |-> Part(n, u)]] EXCEPT ![t][s] = v]
    OBVIOUS
  <1>2. \A u \in Opened : Told(u)' = Told(u)
    BY DEF Told
  <1> QED
    BY <1>1, <1>2 DEF AC!Becomes

\* A step of the task of t on s is a vote, a commit or an abort of the part
\* of s, or none of them.
LEMMA PartStep ==
    ASSUME Agreed, Agreed', NEW t \in TransactionIds, NEW s \in Shards, StageSteps(s, t),
           UNCHANGED reply
    PROVE  AC!Next \/ UNCHANGED AC!vars
  <1> DEFINE k == <<s, t>>
             part == [u \in Opened |-> [n \in Shards |-> Part(n, u)]]
  <1>1. /\ \A u \in TransactionIds, n \in Shards : Part(n, u) = PartOf(Stage(<<n, u>>))
        /\ \A u \in TransactionIds, n \in Shards : Part(n, u)' = PartOf(Stage(<<n, u>>)')
    BY DEF Agreed
  <1>2. \A u \in TransactionIds, n \in Shards :
           u # t \/ n # s => Stage(<<n, u>>)' = Stage(<<n, u>>)
    BY StagesOfOthers DEF StageSteps
  <1>3. \A u \in Opened, n \in Shards : u # t \/ n # s => Part(n, u)' = Part(n, u)
    BY <1>1, <1>2 DEF Opened
  <1>4. \A u \in Opened : reply'[u] = reply[u]
    OBVIOUS
  <1>5. CASE t \notin Opened \/ Part(s, t)' = Part(s, t)
    BY <1>3, <1>4, <1>5, SamePartsStutter
  <1>6. CASE t \in Opened /\ Part(s, t)' # Part(s, t)
    <2>1. AC!Becomes(t, s, Part(s, t)')
      BY <1>3, <1>4, <1>6, OnePartBecomes
    <2>2. \A n \in Shards : part[t][n] = Part(n, t)
      BY <1>6
    <2>3. CASE /\ PartOf(Stage(k)) = "working"
               /\ PartOf(Stage(k)') \in {"prepared", "refused"}
      <3>1. Part(s, t) = "working" /\ Part(s, t)' \in {"prepared", "refused"}
        BY <1>1, <2>3
      <3>2. AC!Vote(t, s)
        BY <2>1, <2>2, <3>1 DEF AC!Vote
      <3> QED
        BY <1>6, <3>2 DEF AC!Next
    <2>4. CASE Stage(k) \in Stopped /\ Stage(k)' = "abort"
      <3>1. Part(s, t) \in {"working", "prepared", "refused"} /\ Part(s, t)' = "aborted"
        BY <1>1, <2>4 DEF PartOf, Stopped
      <3>2. \A n \in Shards : Stage(<<n, t>>) \notin {"commit", "committed"}
        <4>1. \A n \in Shards : Stage(<<n, t>>)' \notin {"commit", "committed"}
          BY <2>4 DEF Agreed
        <4> QED
          BY <1>2, <2>4, <4>1 DEF Stopped
      <3>3. \A n \in Shards : Part(n, t) # "committed"
        BY <1>1, <3>2 DEF PartOf
      <3>4. AC!Abort(t, s)
        BY <2>1, <2>2, <3>1, <3>3 DEF AC!Abort, AC!NoneCommitted
      <3> QED
        BY <1>6, <3>4 DEF AC!Next
    <2>5. CASE Stage(k) = "ready" /\ Stage(k)' = "commit"
      <3>1. Part(s, t) = "prepared" /\ Part(s, t)' = "committed"
        BY <1>1, <2>5 DEF PartOf
      <3>2. \A n \in Shards : Stage(<<n, t>>) \in {"ready", "commit", "committed"}
        <4>1. \A n \in Shards : Stage(<<n, t>>)' \in {"ready", "commit", "committed"}
          BY <2>5 DEF Agreed
        <4> QED
          BY <1>2, <2>5, <4>1
      <3>3. \A n \in Shards : Part(n, t) \in {"prepared", "committed"}
        BY <1>1, <3>2 DEF PartOf
      <3>4. AC!Commit(t, s)
        BY <2>1, <2>2, <3>1, <3>3 DEF AC!Commit, AC!AllBound
      <3> QED
        BY <1>6, <3>4 DEF AC!Next
    <2> QED
      BY <1>1, <1>6, <2>3, <2>4, <2>5 DEF StageSteps
  <1> QED
    BY <1>5, <1>6

\* The final response is what AtomicCommit lets the client be told.
LEMMA ReplyStep ==
    ASSUME SInv, Agreed, Agreed', UNCHANGED shards, Replies
    PROVE  AC!Next \/ UNCHANGED AC!vars
  <1>1. PICK t \in TransactionIds, r \in Responses :
           handler[t] # "done" /\ handler' = Set(handler, t, "done")
           /\ reply' = Set(reply, t, r)
    BY DEF Replies
  <1> DEFINE part == [u \in Opened |-> [n \in Shards |-> Part(n, u)]]
             told == [u \in Opened |-> Told(u)]
  <1>2. /\ reply[t] = "none" /\ reply'[t] = r
        /\ \A u \in TransactionIds : u # t => reply'[u] = reply[u]
    BY <1>1, SInvFacts DEF Standing, HandlerTypes, Set
  <1>3. \A u \in Opened, n \in Shards : Part(n, u)' = Part(n, u)
    BY DEF shards, tasks, Part, Committing, Aborting
  <1>4. CASE t \notin Opened \/ r = "none"
    BY <1>2, <1>3, <1>4, SamePartsStutter DEF Opened
  <1>5. CASE t \in Opened /\ r # "none"
    <2>1. Told(t) = "nothing" /\ Told(t)' = IF r = "CommitOk" THEN "committed" ELSE "aborted"
      BY <1>2, <1>5 DEF Told
    <2>2. \A u \in Opened : u # t => Told(u)' = Told(u)
      BY <1>2 DEF Told, Opened
    <2>3. [u \in Opened |-> Told(u)'] = [told EXCEPT ![t] = Told(t)']
      BY <1>5, <2>2
    <2>4. [u \in Opened |-> [n \in Shards |-> Part(n, u)']] = part
      BY <1>3
    <2>5. told[t] = "nothing" /\ \A n \in Shards : part[t][n] = Part(n, t)
      BY <1>5, <2>1
    <2>6. /\ CoordinatorOf[t] \in Shards /\ Here(t) = <<CoordinatorOf[t], t>>
          /\ r = "CommitOk" \/ IsErr(r)
      BY <1>2, <1>5, CoordinatorConstants DEF Agreed, Here
    <2>7. CASE r = "CommitOk"
      <3>1. /\ Stage(Here(t))' = "committed"
            /\ \A n \in Shards : Stage(<<n, t>>)' \in {"ready", "commit", "committed"}
        BY <1>2, <2>7 DEF Agreed
      <3>2. /\ Part(CoordinatorOf[t], t)' = "committed"
            /\ \A n \in Shards : Part(n, t)' \in {"prepared", "committed"}
        <4>1. \A n \in Shards : Part(n, t)' = PartOf(Stage(<<n, t>>)')
          BY DEF Agreed
        <4> QED
          BY <2>6, <3>1, <4>1 DEF PartOf, Here
      <3>3. AC!AllBound(t) /\ ~AC!NoneCommitted(t)
        BY <1>3, <1>5, <2>5, <2>6, <3>2 DEF AC!AllBound, AC!NoneCommitted
      <3>4. AC!Tell(t)
        BY <2>1, <2>3, <2>4, <2>5, <2>7, <3>3 DEF AC!Tell
      <3> QED
        BY <1>5, <3>4 DEF AC!Next
    <2>8. CASE r # "CommitOk"
      <3>1. \A n \in Shards : Stage(<<n, t>>)' = "aborted"
        BY <1>2, <2>6, <2>8 DEF Agreed
      <3>2. \A n \in Shards : Part(n, t)' = "aborted"
        BY <3>1 DEF Agreed, PartOf
      <3>3. AC!AllAborted(t)
        BY <1>3, <1>5, <2>5, <3>2 DEF AC!AllAborted
      <3>4. AC!Tell(t)
        BY <2>1, <2>3, <2>4, <2>5, <2>8, <3>3 DEF AC!Tell
      <3> QED
        BY <1>5, <3>4 DEF AC!Next
    <2> QED
      BY <2>7, <2>8
  <1> QED
    BY <1>4, <1>5

LEMMA AtomicInit == CoordinatorInit => AC!Init
  BY SMTT(30) DEF CoordinatorInit, Init, AC!Init, Part, Told, Committing, Aborting, Opened, Tasks,
     NoCall

LEMMA AtomicNext ==
    ASSUME SInv, SInv', [CoordinatorNext]_allVars,
           \A s \in Shards, t \in TransactionIds : TaskStep(s, t) => StageMoves(s, t)
    PROVE  [AC!Next]_(AC!vars)
  <1>1. Agreed /\ Agreed'
    BY AgreedFollows, AgreedNext
  <1>2. CASE UNCHANGED <<shards, reply>>
    <2>1. \A u \in Opened, n \in Shards : Part(n, u)' = Part(n, u)
      BY <1>2 DEF shards, tasks, Part, Committing, Aborting
    <2> QED
      BY <1>2, <2>1, SamePartsStutter
  <1>3. CASE UNCHANGED reply /\ \E s \in Shards, t \in TransactionIds : ShardActs(s, t)
    <2> PICK s \in Shards, t \in TransactionIds : ShardActs(s, t)
      BY <1>3
    <2>1. StageSteps(s, t)
      BY TaskStages, CallStages DEF ShardActs, SInv
    <2> QED
      BY <1>1, <1>3, <2>1, PartStep
  <1>4. CASE UNCHANGED shards /\ Replies
    BY <1>1, <1>4, ReplyStep
  <1> QED
    BY <1>2, <1>3, <1>4, ServerStep
=============================================================================
