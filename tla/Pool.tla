-------------------------------- MODULE Pool --------------------------------
(***************************************************************************)
(* How the servers come up and go down: the configuration (config.rs), the *)
(* connection pool (pool/builder.rs, pool/server.rs), what the server loop *)
(* does with a lost peer, and the command line clients (tx-client) that    *)
(* connect to the same listeners.                                          *)
(*                                                                         *)
(* A process is a start of a server.  A connection is a pair of whoever    *)
(* dialed and the process that listened; each of its two ends has a stage. *)
(* An end whose owner has gone, or has dropped the stream, is "closed",    *)
(* and the other end reads end-of-file.                                    *)
(***************************************************************************)
EXTENDS Naturals, Sequences, FiniteSets

CONSTANTS
    Lines,         \* the lines of the configuration file: names of servers
    Lives,         \* server -> how often it is started
    Arrivals,      \* the command line clients, in the order of their BEGINs
    Choices,       \* client -> servers it may choose (all in the code)
    FirstRequest,  \* client -> the kind of the first request it sends
    MaxEvents      \* bound on crashes, restarts and clients that connect

Nodes == {Lines[i] : i \in DOMAIN Lines}
Clients == {Arrivals[i] : i \in DOMAIN Arrivals}

\* parse_config of the server: only those that are listed start.
Processes == UNION {{n} \X (1 .. Lives[n]) : n \in Nodes}

Kinds == {FirstRequest[v] : v \in Clients}

ASSUME PoolConstants ==
    /\ Lines \in Seq(Nodes)
    /\ \A i, j \in DOMAIN Lines : Lines[i] = Lines[j] => i = j
    /\ Cardinality(Nodes) > 1
    /\ Lives \in [Nodes -> Nat]
    /\ Arrivals \in Seq(Clients)
    /\ Choices \in [Clients -> SUBSET Nodes]
    /\ Clients \cap Processes = {}
    /\ Kinds \cap Nodes = {}
    /\ MaxEvents \in Nat

\* Mutant: a server dials only the one listed before it.
DialsPrevious(n) == {Lines[i] : i \in {j \in DOMAIN Lines :
                       j + 1 \in DOMAIN Lines /\ Lines[j + 1] = n}}

\* parse_config: a server dials those listed before it.
ConnectionList(n) ==
    {Lines[i] : i \in {j \in DOMAIN Lines :
                         \E k \in DOMAIN Lines : Lines[k] = n /\ j < k}}

ClientConnections == Clients \X Processes
Dials == {c \in Processes \X Processes : c[2][1] \in ConnectionList(c[1][1])}
Connections == ClientConnections \cup Dials

VARIABLES
    state,         \* process -> new, connecting, serving or gone
    end,           \* connection -> <<stage of the dialer's end, of the listener's>>
    asked,         \* connections whose client's first request is still unread
    group,         \* process -> member id -> its connection (ServerGroup)
    from_members,  \* process -> members whose loop has sent Disconnected
    client,        \* client -> where its main function is
    events         \* how many crashes, restarts and clients there were

vars == <<state, end, asked, group, from_members, client, events>>

\* Dialer: the stream is in stream_rcv, or a member_loop has it; or a client has
\* it.  Listener: not accepted yet, its handshake is
\* awaited, a member_loop has it, a client handler has it.
Stages == {"none", "dialed", "member", "client",
           "backlog", "handshake", "session", "closed"}

TypeOK ==
    /\ state \in [Processes -> {"new", "connecting", "serving", "gone"}]
    /\ end \in [Connections -> Stages \X Stages]
    /\ asked \subseteq ClientConnections
    /\ \A p \in Processes :
          /\ DOMAIN group[p] \subseteq (Nodes \ {p[1]}) \cup Kinds
          /\ \A m \in DOMAIN group[p] : p \in {group[p][m][1], group[p][m][2]}
          /\ from_members[p] \subseteq DOMAIN group[p]
    /\ client \in [Clients -> {"lines", "open", "awaiting", "over"}]
    /\ events \in 0 .. MaxEvents

Init ==
    /\ state = [p \in Processes |-> "new"]
    /\ end = [c \in Connections |-> <<"none", "none">>]
    /\ asked = {}
    /\ group = [p \in Processes |-> <<>>]
    /\ from_members = [p \in Processes |-> {}]
    /\ client = [v \in Clients |-> "lines"]
    /\ events = 0

-----------------------------------------------------------------------------
(* Processes and streams                                                   *)

Listening(p) == state[p] \in {"connecting", "serving"}

\* The process ends, and the kernel closes its ends and its listener.
Closed(p, ends) ==
    [c \in Connections |->
        [i \in 1 .. 2 |-> IF c[i] = p /\ ends[c][i] # "none" THEN "closed"
                                                            ELSE ends[c][i]]]

Exit(p) ==
    /\ state' = [state EXCEPT ![p] = "gone"]
    /\ end' = Closed(p, end)
    /\ group' = [group EXCEPT ![p] = <<>>]
    /\ from_members' = [from_members EXCEPT ![p] = {}]
    /\ asked' = {c \in asked : c[2] # p}
    /\ UNCHANGED client

Disturb == events < MaxEvents /\ events' = events + 1

\* main and ConnectionPoolBuilder::new: the listener is bound.
Start(p) ==
    /\ state[p] = "new"
    /\ \A q \in Processes : (q[1] = p[1] /\ q[2] < p[2]) => state[q] = "gone"
    /\ IF p[2] = 1 THEN UNCHANGED events ELSE Disturb
    /\ state' = [state EXCEPT ![p] = "connecting"]
    /\ UNCHANGED <<end, asked, group, from_members, client>>

Crash(p) ==
    /\ Listening(p)
    /\ Disturb
    /\ Exit(p)

-----------------------------------------------------------------------------
(* Connecting                                                              *)

\* connect_to_node: retried until the target listens.  The handshake is sent at
\* once and the stream goes to stream_snd, whose receiver is gone when the pool
\* is complete.
Connect(c) == LET p == c[1]  q == c[2] IN
    /\ Listening(p) /\ Listening(q)
    /\ \A d \in Connections : (d[1] = p /\ d[2][1] = q[1]) => end[d][1] = "none"
    /\ end' = [end EXCEPT ![c] =
                 <<IF state[p] = "connecting" THEN "dialed" ELSE "closed", "backlog">>]
    /\ UNCHANGED <<state, asked, group, from_members, client, events>>

\* Mutant: a member is entered under this server's own id.
OwnId(c, i) == c[i][1]

\* What the other side of c calls itself.  A client's first request decodes as a
\* handshake: its kind is read as an id, which no server has.
MemberId(c, i) == LET other == c[3 - i] IN
                  IF other \in Clients THEN FirstRequest[other] ELSE other[1]

Complete(members) == Cardinality(DOMAIN members) = Cardinality(Nodes) - 1

\* Mutant: a member that comes again keeps its first handle.
KeepsFirst(p, m, c) ==
    [k \in {m} \cup DOMAIN group[p] |-> IF k \in DOMAIN group[p] THEN group[p][k] ELSE c]

Inserted(p, m, c) ==
    [k \in {m} \cup DOMAIN group[p] |-> IF k = m THEN c ELSE group[p][k]]

\* Drop for RemoteServerHandle: the loop of a member's earlier handle is aborted
\* and its stream d closed.
Replaced(p, m, d) == m \in DOMAIN group[p] /\ d = group[p][m]

\* admit_member for end i of c.  If this completes the pool, connect_inner
\* returns and drops the streams that wait in stream_rcv.
AdmitMember(c, i) ==
    LET p == c[i]
        m == MemberId(c, i)
        members == Inserted(p, m, c)
        Dropped(d, j) ==
            \/ Replaced(p, m, d)
            \/ Complete(members) /\ end[d][j] = "dialed"
    IN
    /\ group' = [group EXCEPT ![p] = members]
    /\ state' = [state EXCEPT ![p] = IF Complete(members) THEN "serving" ELSE @]
    /\ end' = [d \in Connections |-> [j \in 1 .. 2 |->
                 IF d = c /\ j = i THEN "member"
                 ELSE IF d[j] = p /\ Dropped(d, j) THEN "closed"
                 ELSE end[d][j]]]
    /\ asked' = asked \ {c}
    /\ UNCHANGED <<from_members, client, events>>

\* A first message was sent: servers send a handshake, clients may wait.
Greeted(c) == c[1] \in Processes \/ c \in asked

\* recv of the handshake on an accepted stream: it is there, the stream has
\* ended without one, or the await blocks the loop.
RecvHandshake(c) ==
    IF Greeted(c) THEN AdmitMember(c, 2)
    ELSE /\ end' = [end EXCEPT ![c][2] =
                      IF end[c][1] = "closed" THEN "closed" ELSE "handshake"]
         /\ UNCHANGED <<state, asked, group, from_members, client, events>>

\* While a handshake is awaited no other arm of the select runs.
Selecting(p) ==
    state[p] = "connecting" /\ \A c \in Connections : c[2] = p => end[c][2] # "handshake"

Accept(c) ==
    /\ end[c][2] = "backlog"
    /\ Selecting(c[2])
    /\ RecvHandshake(c)

HandshakeArrives(c) ==
    /\ end[c][2] = "handshake"
    /\ Greeted(c) \/ end[c][1] = "closed"
    /\ RecvHandshake(c)

AdmitDialed(c) ==
    /\ end[c][1] = "dialed"
    /\ Selecting(c[1])
    /\ AdmitMember(c, 1)

\* Mutant: connect_inner is awaited without a limit.
NoTimeLimit(p) == FALSE

\* connect: the time limit of 60 s
Timeout(p) ==
    /\ state[p] = "connecting"
    /\ Exit(p)
    /\ UNCHANGED events

-----------------------------------------------------------------------------
(* Serving                                                                 *)

\* Mutant: a member loop that ends tells nobody.
EndsSilently(p, m) == from_members[p]

Notified(p, m) == from_members[p] \cup {m}

\* member_loop reads end-of-file: notify_network_error, and the loop is over.
MemberLoopEnds(c, i) ==
    /\ end[c][i] = "member" /\ end[c][3 - i] = "closed"
    /\ end' = [end EXCEPT ![c][i] = "closed"]
    /\ from_members' = [from_members EXCEPT ![c[i]] = Notified(c[i], MemberId(c, i))]
    /\ UNCHANGED <<state, asked, group, client, events>>

\* handle_server_state, Disconnected
HandleDisconnected(p) ==
    /\ state[p] = "serving"
    /\ from_members[p] # {}
    /\ Exit(p)
    /\ UNCHANGED events

\* serve: whoever connects now is taken for a client.
AcceptClient(c) ==
    /\ end[c][2] = "backlog"
    /\ state[c[2]] = "serving"
    /\ end' = [end EXCEPT ![c][2] = "session"]
    /\ asked' = asked \ {c}
    /\ UNCHANGED <<state, group, from_members, client, events>>

\* The handler of a client that is gone, or of a server, whose handshake is no
\* ClientRequest: Client::handle ends.
EndSession(c) ==
    /\ end[c][2] = "session"
    /\ c[1] \in Processes \/ end[c][1] = "closed"
    /\ end' = [end EXCEPT ![c][2] = "closed"]
    /\ UNCHANGED <<state, asked, group, from_members, client, events>>

-----------------------------------------------------------------------------
(* The command line client                                                 *)

\* BEGIN: connect to the server chosen at the start, without retries.
Begin(v, n) ==
    /\ client[v] = "lines"
    /\ \A i, j \in DOMAIN Arrivals :
          (Arrivals[i] = v /\ j < i) => client[Arrivals[j]] # "lines"
    /\ Disturb
    /\ \/ \E q \in Processes :
             /\ q[1] = n /\ Listening(q)
             /\ end' = [end EXCEPT ![<<v, q>>] = <<"client", "backlog">>]
             /\ client' = [client EXCEPT ![v] = "open"]
       \/ /\ \A q \in Processes : q[1] = n => ~Listening(q)
          /\ client' = [client EXCEPT ![v] = "over"]
          /\ UNCHANGED end
    /\ UNCHANGED <<state, asked, group, from_members>>

\* A line is read and sent as a request.
Ask(c) ==
    /\ end[c][1] = "client"
    /\ client[c[1]] = "open"
    /\ client' = [client EXCEPT ![c[1]] = "awaiting"]
    /\ asked' = IF end[c][2] \in {"backlog", "handshake"}
                THEN asked \cup {c} ELSE asked
    /\ UNCHANGED <<state, end, group, from_members, events>>

\* Every server but p is in the group: no client was counted in its place.
HasAllPeers(p) == Nodes \ {p[1]} \subseteq DOMAIN group[p]

\* The handler responds.  A final response, after which both sides are done, takes
\* the answers of all peers (do_abort, handle_two_phase_commit).
Respond(c, final) ==
    /\ end[c] = <<"client", "session">>
    /\ client[c[1]] = "awaiting"
    /\ final => HasAllPeers(c[2])
    /\ client' = [client EXCEPT ![c[1]] = IF final THEN "over" ELSE "open"]
    /\ end' = IF final THEN [end EXCEPT ![c] = <<"closed", "closed">>] ELSE end
    /\ UNCHANGED <<state, asked, group, from_members, events>>

\* The request is for a server that is not in the group since a client was counted
\* in its place: pass_message panics in the server loop, and the process ends.
NoSuchPeer(c) == LET p == c[2] IN
    /\ end[c] = <<"client", "session">>
    /\ client[c[1]] = "awaiting"
    /\ ~HasAllPeers(p)
    /\ Exit(p)
    /\ UNCHANGED events

\* The response never comes: the other half is closed.
ResponseLost(c) ==
    /\ end[c] = <<"client", "closed">>
    /\ client[c[1]] = "awaiting"
    /\ client' = [client EXCEPT ![c[1]] = "over"]
    /\ end' = [end EXCEPT ![c][1] = "closed"]
    /\ UNCHANGED <<state, asked, group, from_members, events>>

\* The user stops the client.
Quit(c) ==
    /\ end[c][1] = "client"
    /\ client' = [client EXCEPT ![c[1]] = "over"]
    /\ end' = [end EXCEPT ![c][1] = "closed"]
    /\ UNCHANGED <<state, asked, group, from_members, events>>

-----------------------------------------------------------------------------
(* The specification                                                       *)

\* What the streams of a connection make its two processes do.
StreamStep(c) ==
    \/ Accept(c) \/ HandshakeArrives(c) \/ AdmitDialed(c)
    \/ MemberLoopEnds(c, 1) \/ MemberLoopEnds(c, 2)
    \/ AcceptClient(c) \/ EndSession(c)

Progress ==
    \/ \E c \in Dials : Connect(c)
    \/ \E c \in Connections : StreamStep(c)

Answered(c) == (\E final \in BOOLEAN : Respond(c, final)) \/ ResponseLost(c)

ClientStep ==
    \/ \E v \in Clients : \E n \in Choices[v] : Begin(v, n)
    \/ \E c \in ClientConnections : Ask(c) \/ Answered(c) \/ NoSuchPeer(c) \/ Quit(c)

ServerStep ==
    Progress \/ \E p \in Processes : Timeout(p) \/ HandleDisconnected(p)

Next ==
    \/ ServerStep
    \/ ClientStep
    \/ \E p \in Processes : Start(p) \/ Crash(p)

Spec == Init /\ [][Next]_vars

-----------------------------------------------------------------------------
(* Properties                                                              *)

TookClient(p) == DOMAIN group[p] \cap Kinds # {}

\* End-of-file is waiting for a loop of p, or Disconnected for p itself.
Doomed(p) ==
    \/ from_members[p] # {}
    \/ \E c \in Connections, i \in 1 .. 2 :
          c[i] = p /\ end[c][i] = "member" /\ end[c][3 - i] = "closed"

\* Two servers that serve use the two ends of one stream for each other,
\* whatever restarts the pool has seen (group.insert replaces the handle of a
\* member that comes again), unless one is about to exit or a client was
\* counted as a member.
SameStream ==
    \A p, q \in Processes :
        (/\ p[1] # q[1] /\ state[p] = "serving" /\ state[q] = "serving"
         /\ ~(Doomed(p) \/ Doomed(q) \/ TookClient(p) \/ TookClient(q))) =>
            /\ q[1] \in DOMAIN group[p] /\ p[1] \in DOMAIN group[q]
            /\ group[p][q[1]] = group[q][p[1]]

\* The dialing order of the configuration cannot leave the servers waiting for
\* each other: when all run and no client interferes, the pool of each gets
\* complete without the help of the time limit.
StartUpCompletes ==
    (/\ \A n \in Nodes : Listening(<<n, 1>>)
     /\ \A v \in Clients : client[v] = "lines")
    => \/ \A n \in Nodes : state[<<n, 1>>] = "serving" /\ ~TookClient(<<n, 1>>)
       \/ ENABLED Progress

\* Nothing is left for a server to do, not even to time out.  Every step of a
\* server moves one of its streams or the server itself forward, so whatever
\* crashes, restarts and clients do, the servers come to rest once they stop
\* doing it.
AtRest == ~ENABLED ServerStep

Serves(n) == \E p \in Processes : p[1] = n /\ state[p] = "serving"

\* The servers live and die together, whoever crashed, was restarted or timed out
\* on the way (Disconnected ends the process): at rest, a server that serves has
\* a serving process of every server beside it.  One that counted a client as a
\* member has not: it serves without those it did not wait for.
NobodyLeftBehind ==
    \A p \in Processes : (state[p] = "serving" /\ ~TookClient(p)) =>
        (\A n \in Nodes : Serves(n)) \/ ~AtRest

\* No client waits for ever on a server that is stuck: when the servers are at
\* rest, a client that has asked has a handler that can answer, or learns that
\* the server is gone, thanks to the time limit of connect also if that server
\* never came to serve.  A server that counted a client as a member is excepted:
\* it lacks a peer whose answer it may need.
ClientsHearBack ==
    \A c \in ClientConnections :
        (/\ end[c][1] = "client" /\ client[c[1]] = "awaiting"
         /\ ~TookClient(c[2])) => ENABLED Answered(c) \/ ~AtRest
=============================================================================
