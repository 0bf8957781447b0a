-------------------------------- MODULE Link --------------------------------
(***************************************************************************)
(* The way of a message from one server's loop to another's: the unbounded *)
(* channel to the member loop (pool/server.rs), the send that the member   *)
(* loop awaits, the bounded buffers of the TCP stream, the member loop of  *)
(* the receiver, the unbounded channel to its server.  A member loop that  *)
(* awaits a send does not receive.  The module is about one stream, so     *)
(* there are two servers; others have streams of their own.                *)
(*                                                                         *)
(* The traffic is that of coordinator/mod.rs and coordinator/client.rs: a  *)
(* handler sends a request to the other server, awaits the answer and goes *)
(* on; after the votes DoCommit is sent, which nobody answers.  What the   *)
(* messages are about is left out.                                         *)
(***************************************************************************)
EXTENDS Naturals, Sequences, FiniteSets

CONSTANTS
    Nodes, Clients,
    Home,       \* client -> the server it connected to
    Cap,        \* messages that fit into the buffers of the stream, one way
    MaxRequests \* bound on the requests of all clients

ASSUME LinkConstants ==
    /\ IsFiniteSet(Nodes) /\ Cardinality(Nodes) = 2
    /\ IsFiniteSet(Clients)
    /\ Home \in [Clients -> Nodes]
    /\ Cap \in Nat \ {0}
    /\ MaxRequests \in Nat

VARIABLES
    to_client,     \* server -> what its loop has passed to the member loop
    sending,       \* server -> what its member loop is sending, if anything
    wire,          \* server -> what it has sent and the other not received
    from_members,  \* server -> what its member loop has passed to its loop
    tasks,         \* clients for which the other server runs a task
    client,        \* client -> what its handler does
    requests       \* how many requests there were

vars == <<to_client, sending, wire, from_members, tasks, client, requests>>

Messages == [kind : {"Request", "Response", "DoCommit"}, tx : Clients]

Peer(n) == CHOOSE m \in Nodes : m # n

TypeOK ==
    /\ to_client \in [Nodes -> Seq(Messages)]
    /\ sending \in [Nodes -> Seq(Messages)]
    /\ wire \in [Nodes -> Seq(Messages)]
    /\ \A n \in Nodes : Len(sending[n]) <= 1 /\ Len(wire[n]) <= Cap
    /\ from_members \in [Nodes -> Seq(Messages)]
    /\ tasks \subseteq Clients
    /\ client \in [Clients -> {"idle", "awaiting", "done"}]
    /\ requests \in 0 .. MaxRequests

Init ==
    /\ to_client = [n \in Nodes |-> <<>>]
    /\ sending = [n \in Nodes |-> <<>>]
    /\ wire = [n \in Nodes |-> <<>>]
    /\ from_members = [n \in Nodes |-> <<>>]
    /\ tasks = {}
    /\ client = [c \in Clients |-> "idle"]
    /\ requests = 0

-----------------------------------------------------------------------------
(* The server loops, their handlers and tasks                              *)

\* RemoteServerHandle::pass_message
PassMessage(n, kind, c) ==
    to_client' = [to_client EXCEPT ![n] = Append(@, [kind |-> kind, tx |-> c])]

\* Mutant: the next request does not wait for the answer to the last.
GoesOn(c) == client[c] # "done"

MayAsk(c) == client[c] = "idle"

\* handle_client_state, Forward: an operation, a vote or an abort is asked for.
Ask(c) ==
    /\ MayAsk(c)
    /\ requests < MaxRequests
    /\ PassMessage(Home[c], "Request", c)
    /\ client' = [client EXCEPT ![c] = "awaiting"]
    /\ requests' = requests + 1
    /\ UNCHANGED <<sending, wire, from_members, tasks>>

\* The end of the task of handle_remote_request, resp_handle.send, if the task
\* ends: in the shard it may wait for an older transaction, also for ever.
Answer(c) ==
    /\ c \in tasks
    /\ tasks' = tasks \ {c}
    /\ PassMessage(Peer(Home[c]), "Response", c)
    /\ UNCHANGED <<sending, wire, from_members, client, requests>>

\* A response, or a vote: the handler goes on or is done, and if this was the
\* last vote DoCommit is sent in the same step.
HandleResponse(c) ==
    \/ /\ client' = [client EXCEPT ![c] = "idle"]
       /\ UNCHANGED to_client
    \/ /\ client' = [client EXCEPT ![c] = "done"]
       /\ UNCHANGED to_client \/ PassMessage(Home[c], "DoCommit", c)

\* handle_server_state
HandleServerState(n) ==
    /\ from_members[n] # <<>>
    /\ LET msg == Head(from_members[n]) IN
       \/ /\ msg.kind = "Request"
          /\ tasks' = tasks \cup {msg.tx}
          /\ UNCHANGED <<to_client, client>>
       \/ /\ msg.kind = "Response"
          /\ HandleResponse(msg.tx)
          /\ UNCHANGED tasks
       \/ /\ msg.kind = "DoCommit"
          /\ UNCHANGED <<to_client, tasks, client>>
    /\ from_members' = [from_members EXCEPT ![n] = Tail(@)]
    /\ UNCHANGED <<sending, wire, requests>>

-----------------------------------------------------------------------------
(* The member loop of server n                                             *)

Selecting(n) == sending[n] = <<>>

\* from_engine.recv: a send begins,
TakeNext(n) ==
    /\ Selecting(n)
    /\ to_client[n] # <<>>
    /\ sending' = [sending EXCEPT ![n] = <<Head(to_client[n])>>]
    /\ to_client' = [to_client EXCEPT ![n] = Tail(@)]
    /\ UNCHANGED <<wire, from_members, tasks, client, requests>>

\* Mutant: the send ends although the buffers are full.
SendUnbounded(n) ==
    /\ ~Selecting(n)
    /\ wire' = [wire EXCEPT ![n] = @ \o sending[n]]
    /\ sending' = [sending EXCEPT ![n] = <<>>]
    /\ UNCHANGED <<to_client, from_members, tasks, client, requests>>

\* ... and ends when the message is in the buffers.
SendDone(n) ==
    /\ ~Selecting(n)
    /\ Len(wire[n]) < Cap
    /\ wire' = [wire EXCEPT ![n] = @ \o sending[n]]
    /\ sending' = [sending EXCEPT ![n] = <<>>]
    /\ UNCHANGED <<to_client, from_members, tasks, client, requests>>

\* stream.recv has a message of the peer, which goes to the server loop.
Received(n) ==
    /\ wire[Peer(n)] # <<>>
    /\ wire' = [wire EXCEPT ![Peer(n)] = Tail(@)]
    /\ from_members' = [from_members EXCEPT ![n] = Append(@, Head(wire[Peer(n)]))]
    /\ UNCHANGED <<to_client, tasks, client, requests>>

\* Mutant: a message that arrives cancels the send.
RecvCancelsSend(n) == Received(n) /\ sending' = [sending EXCEPT ![n] = <<>>]

Recv(n) == Selecting(n) /\ Received(n) /\ UNCHANGED sending

-----------------------------------------------------------------------------
(* The specification                                                       *)

MemberLoop(n) == TakeNext(n) \/ SendDone(n) \/ Recv(n)

ServerStep == \E n \in Nodes : HandleServerState(n) \/ MemberLoop(n)

Next == ServerStep \/ \E c \in Clients : Ask(c) \/ Answer(c)

\* While a loop can go on, one of them does.  Each of their steps takes a message
\* one hop further, so this is enough to get all messages through.  Clients may
\* be idle for ever, and tasks may never answer.
Spec == Init /\ [][Next]_vars /\ WF_vars(ServerStep)

-----------------------------------------------------------------------------
(* Properties                                                              *)

\* Everything that is on its way from n to the other server's loop, oldest first
InFlight(n) == from_members[Peer(n)] \o wire[n] \o sending[n] \o to_client[n]

C == INSTANCE Channel WITH
        queue <- [n \in Nodes |-> [m \in Nodes |->
                    IF m = n THEN <<>> ELSE InFlight(n)]]

\* The hops together are the queue that Coordinator assumes: no message is
\* lost, repeated or overtaken on its way through the two member loops, though
\* they choose at will between sending and receiving.
ImplementsChannel == C!Spec

\* How many messages of client c are between the two servers
Outstanding(c) ==
    Cardinality({p \in Nodes \X (1 .. 2 * Cardinality(Clients)) :
                    /\ p[2] \in DOMAIN InFlight(p[1])
                    /\ InFlight(p[1])[p[2]].tx = c})

\* The handlers stop and wait: a client never has two messages between the
\* same two servers, so that the channels, which the code leaves unbounded,
\* hold no more messages than there are clients.
OneInFlight == \A c \in Clients : Outstanding(c) <= 1

\* Both member loops are in send and nobody empties the buffers.
Jammed == \A n \in Nodes : sending[n] # <<>> /\ Len(wire[n]) = Cap

\* Two servers can block each other for ever, since a member loop in send does
\* not receive, but only when more clients are at work than fit in the buffers.
JamNeedsClients ==
    Jammed => Cardinality({c \in Clients : Outstanding(c) > 0}) >= 2 * (Cap + 1)

\* Apart from that a handler never waits for the network: while it awaits an
\* answer, a task of the other server is at work on its request, or that task is
\* going to start, or the handler is going to have the answer.
EveryMessageArrives ==
    \A c \in Clients :
        (client[c] = "awaiting" /\ c \notin tasks)
            ~> (client[c] # "awaiting" \/ c \in tasks \/ Jammed)
=============================================================================
