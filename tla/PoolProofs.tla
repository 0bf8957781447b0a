----------------------------- MODULE PoolProofs -----------------------------
(***************************************************************************)
(* The pool, for any number of servers, restarts and clients: its state is *)
(* well-typed, and two servers that serve use one stream for each other.   *)
(***************************************************************************)
EXTENDS Pool, FiniteSetTheorems, TLAPS

\* Zenon first, which is quick on the many steps without arithmetic; the steps on
\* which it is not cite SMTT(30).
USE ZenonT(20), SMTT(30)

-----------------------------------------------------------------------------
(* Processes and connections                                               *)

\* A process is a node and the number of its start.
LEMMA ProcessFacts ==
    ASSUME NEW p \in Processes
    PROVE  p[1] \in Nodes /\ p[2] \in Nat /\ p = <<p[1], p[2]>> /\ p \notin Clients
  BY SMTT(30), PoolConstants DEF Processes

\* A server dials those listed before it, which do not dial it.
LEMMA DialsOneWay ==
    ASSUME NEW m, NEW n, m \in ConnectionList(n)
    PROVE  m # n /\ n \notin ConnectionList(m)
  <1>1. PICK i, j \in DOMAIN Lines : Lines[i] = m /\ Lines[j] = n /\ i < j
    BY DEF ConnectionList
  <1>2. DOMAIN Lines \subseteq Nat
    BY SMTT(30), PoolConstants
  <1>3. m # n
    BY SMTT(30), <1>1, <1>2, PoolConstants
  <1>4. ASSUME n \in ConnectionList(m) PROVE FALSE
    <2>1. PICK k, l \in DOMAIN Lines : Lines[k] = n /\ Lines[l] = m /\ k < l
      BY <1>4 DEF ConnectionList
    <2>2. k = j /\ l = i
      BY <1>1, <2>1, PoolConstants
    <2> QED
      BY <1>1, <1>2, <2>1, <2>2
  <1> QED
    BY <1>3, <1>4

\* Of two servers one dials the other.
LEMMA SomeoneDials ==
    ASSUME NEW m \in Nodes, NEW n \in Nodes, m # n
    PROVE  m \in ConnectionList(n) \/ n \in ConnectionList(m)
  <1>1. PICK i, j \in DOMAIN Lines : Lines[i] = m /\ Lines[j] = n
    BY DEF Nodes
  <1>2. i \in Nat /\ j \in Nat /\ i # j
    BY SMTT(30), <1>1, PoolConstants
  <1>3. i < j \/ j < i
    BY <1>2
  <1> QED
    BY <1>1, <1>3 DEF ConnectionList

\* A connection goes from a client or a process to a process.
LEMMA ConnectionFacts ==
    ASSUME NEW c \in Connections
    PROVE  /\ c = <<c[1], c[2]>> /\ c[2] \in Processes /\ c[1] # c[2]
           /\ c \in ClientConnections <=> c[1] \in Clients
           /\ c \notin ClientConnections => /\ c[1] \in Processes
                                            /\ c[2][1] \in ConnectionList(c[1][1])
  <1>1. c \in Clients \X Processes \/ c \in Processes \X Processes
    BY DEF Connections, ClientConnections, Dials
  <1>2. c = <<c[1], c[2]>> /\ c[2] \in Processes
    BY <1>1
  <1>3. c \in ClientConnections <=> c[1] \in Clients
    BY <1>1, ProcessFacts DEF ClientConnections
  <1>4. c \notin ClientConnections => /\ c[1] \in Processes
                                      /\ c[2][1] \in ConnectionList(c[1][1])
    BY DEF Connections, Dials
  <1>5. c[1] # c[2]
    BY <1>2, <1>3, <1>4, ProcessFacts, DialsOneWay
  <1> QED
    BY <1>2, <1>3, <1>4, <1>5

Ends == {1, 2}

\* Whom a process has at the other end
LEMMA MemberFacts ==
    ASSUME NEW c \in Connections, NEW i \in Ends, c[i] \in Processes
    PROVE  /\ MemberId(c, i) \in (Nodes \ {c[i][1]}) \cup Kinds
           /\ MemberId(c, i) \notin Kinds =>
                 /\ c[3 - i] \in Processes /\ c[3 - i][1] = MemberId(c, i)
  <1>1. /\ c[2] \in Processes /\ c[1] # c[2]
        /\ c \in ClientConnections <=> c[1] \in Clients
        /\ c \notin ClientConnections => /\ c[1] \in Processes
                                         /\ c[2][1] \in ConnectionList(c[1][1])
    BY ConnectionFacts
  <1>2. CASE i = 1
    <2>1. c[3 - i] = c[2] /\ c[1] \notin Clients
      BY SMTT(30), <1>2, ProcessFacts
    <2>2. MemberId(c, i) = c[2][1] /\ c[2][1] \in Nodes /\ c[2][1] # c[1][1]
      BY <1>1, <2>1, ProcessFacts, DialsOneWay DEF MemberId
    <2> QED
      BY <1>1, <1>2, <2>1, <2>2
  <1>3. CASE i = 2
    <2>1. c[3 - i] = c[1]
      BY <1>3
    <2>2. CASE c[1] \in Clients
      BY <2>1, <2>2 DEF MemberId, Kinds
    <2>3. CASE c[1] \notin Clients
      <3>1. MemberId(c, i) = c[1][1] /\ c[1][1] \in Nodes /\ c[2][1] # c[1][1]
        BY <1>1, <2>1, <2>3, ProcessFacts, DialsOneWay DEF MemberId
      <3> QED
        BY <1>1, <1>3, <2>1, <2>3, <3>1
    <2> QED
      BY <2>2, <2>3
  <1> QED
    BY <1>2, <1>3 DEF Ends

\* What insert does to the map of the group
LEMMA InsertedFacts ==
    ASSUME NEW p, NEW m, NEW c
    PROVE  /\ DOMAIN Inserted(p, m, c) = {m} \cup DOMAIN group[p]
           /\ Inserted(p, m, c)[m] = c
           /\ \A k \in DOMAIN group[p] : k # m => Inserted(p, m, c)[k] = group[p][k]
  BY DEF Inserted

-----------------------------------------------------------------------------
(* The inductive invariant                                                 *)

Shape ==
    /\ state \in [Processes -> {"new", "connecting", "serving", "gone"}]
    /\ end \in [Connections -> Stages \X Stages]
    /\ asked \subseteq ClientConnections
    /\ DOMAIN group = Processes /\ DOMAIN from_members = Processes
    /\ client \in [Clients -> {"lines", "open", "awaiting", "over"}]
    /\ events \in 0 .. MaxEvents

\* End i of c is what p has for member m; its loop runs or has said that it ended.
Handle(p, m, c, i) ==
    /\ c[i] = p /\ MemberId(c, i) = m
    /\ \/ end[c][i] = "member"
       \/ end[c][i] = "closed" /\ m \in from_members[p]

Holds(p, m) == \E c \in Connections, i \in Ends : group[p][m] = c /\ Handle(p, m, c, i)

Groups ==
    \A p \in Processes :
        /\ \A m \in DOMAIN group[p] : Holds(p, m)
        /\ from_members[p] \subseteq DOMAIN group[p]

\* The loop of a member serves the handle that the group has.
Member(c, i) ==
    end[c][i] = "member" =>
        /\ c[i] \in Processes /\ MemberId(c, i) \in DOMAIN group[c[i]]
        /\ group[c[i]][MemberId(c, i)] = c

\* Only a process that runs has streams.
Owned(c, i) ==
    (end[c][i] \notin {"none", "closed"} /\ c[i] \in Processes) => Listening(c[i])

\* The two ends come into being together, and clients have no member loops.
Stream(c) ==
    /\ end[c][1] = "none" <=> end[c][2] = "none"
    /\ c[1] \in Clients => /\ end[c][1] \in {"none", "client", "closed"}
                           /\ client[c[1]] = "lines" => end[c][1] = "none"

\* The builder awaits one handshake at a time.
Awaited(c) ==
    end[c][2] = "handshake" =>
        /\ state[c[2]] = "connecting"
        /\ \A d \in Connections : (d[2] = c[2] /\ end[d][2] = "handshake") => d = c

Streams == \A c \in Connections : Stream(c) /\ Awaited(c)
                                  /\ \A i \in Ends : Member(c, i) /\ Owned(c, i)

\* A server runs in one process, and has all its members when it serves.
Lifetimes ==
    \A p \in Processes :
        /\ Listening(p) => \A q \in Processes : (q[1] = p[1] /\ q[2] < p[2]) => state[q] = "gone"
        /\ state[p] = "serving" => Complete(group[p])

PoolInv == Shape /\ Groups /\ Streams /\ Lifetimes

\* An end of a stream is in one of the stages.
LEMMA EndFacts ==
    ASSUME Shape, NEW c \in Connections, NEW i \in Ends
    PROVE  end[c] \in Stages \X Stages /\ end[c][i] \in Stages
  <1>1. end[c] \in Stages \X Stages
    BY DEF Shape
  <1> QED
    BY <1>1 DEF Ends

\* What the invariant says of end i of c
LEMMA StreamFacts ==
    ASSUME PoolInv, NEW c \in Connections, NEW i \in Ends
    PROVE  /\ Stream(c) /\ Awaited(c) /\ Member(c, i) /\ Owned(c, i)
           /\ end[c][i] \in Stages
  BY EndFacts DEF PoolInv, Streams

\* What a process has in its group is an end of a stream it shares.
LEMMA GroupFacts ==
    ASSUME PoolInv, NEW p \in Processes, NEW m \in DOMAIN group[p]
    PROVE  /\ group[p][m] \in Connections
           /\ \E i \in Ends : Handle(p, m, group[p][m], i)
  BY DEF PoolInv, Groups, Holds

\* A process is at one end of a stream at most.
LEMMA OneEnd ==
    ASSUME NEW c \in Connections, NEW i \in Ends, NEW j \in Ends, c[i] = c[j]
    PROVE  i = j
  BY SMTT(30), ConnectionFacts DEF Ends

\* The invariant implies what the runs check of the types.
LEMMA PoolInvTypes == PoolInv => TypeOK
  <1> SUFFICES ASSUME PoolInv PROVE TypeOK
    OBVIOUS
  <1>1. ASSUME NEW p \in Processes, NEW m \in DOMAIN group[p]
        PROVE  /\ m \in (Nodes \ {p[1]}) \cup Kinds
               /\ p \in {group[p][m][1], group[p][m][2]}
    <2>1. PICK c \in Connections, i \in Ends : group[p][m] = c /\ Handle(p, m, c, i)
      BY DEF PoolInv, Groups, Holds
    <2>2. c[i] = p /\ MemberId(c, i) = m
      BY <2>1 DEF Handle
    <2>3. m \in (Nodes \ {p[1]}) \cup Kinds
      BY <2>2, MemberFacts
    <2> QED
      BY <2>1, <2>2, <2>3 DEF Ends
  <1> QED
    BY <1>1 DEF PoolInv, Shape, Groups, TypeOK

LEMMA PoolInit == Init => PoolInv
  <1> SUFFICES ASSUME Init PROVE PoolInv
    OBVIOUS
  <1>1. Shape
    BY SMTT(30), PoolConstants DEF Init, Shape, Stages
  <1>2. Groups
    BY DEF Init, Groups
  <1>3. ASSUME NEW c \in Connections, NEW i \in Ends
        PROVE  end[c][i] = "none"
    BY DEF Init, Ends
  <1>4. Streams
    BY <1>3 DEF Streams, Stream, Awaited, Member, Owned, Ends
  <1>5. Lifetimes
    BY DEF Init, Lifetimes, Listening
  <1> QED
    BY <1>1, <1>2, <1>4, <1>5 DEF PoolInv

-----------------------------------------------------------------------------
(* Steps that concern one stream                                           *)

\* No member loop begins or ends at end j of d.
Moves(d, j) ==
    \/ end'[d][j] = end[d][j]
    \/ /\ end[d][j] \notin {"member", "closed"} /\ end'[d][j] \notin {"none", "member"}
       /\ end'[d][j] = "closed" \/ d[j] \notin Processes \/ Listening(d[j])

\* A step on one stream that leaves states and groups alone
LEMMA OneStream ==
    ASSUME PoolInv, NEW c \in Connections,
           \A d \in Connections \ {c} : end'[d] = end[d],
           \A j \in Ends : Moves(c, j), Stream(c)', Awaited(c)',
           \A v \in Clients : client'[v] = "lines" => client[v] = "lines",
           UNCHANGED <<state, group, from_members>>
    PROVE  Groups' /\ Streams' /\ Lifetimes'
  <1>1. \A d \in Connections, j \in Ends : Moves(d, j)
    BY DEF Moves
  <1>2. ASSUME NEW p \in Processes, NEW m \in DOMAIN group[p] PROVE Holds(p, m)'
    <2>1. PICK d \in Connections, j \in Ends : group[p][m] = d /\ Handle(p, m, d, j)
      BY DEF PoolInv, Groups, Holds
    <2>2. end'[d][j] = end[d][j]
      BY <1>1, <2>1 DEF Handle, Moves
    <2>3. Handle(p, m, d, j)'
      BY <2>1, <2>2 DEF Handle, MemberId
    <2> QED
      BY <2>1, <2>3 DEF Holds
  <1>3. Groups'
    BY <1>2 DEF PoolInv, Groups
  <1>4. Lifetimes'
    BY DEF PoolInv, Lifetimes, Listening, Complete
  <1>5. ASSUME NEW d \in Connections, NEW j \in Ends PROVE Member(d, j)'
    <2>1. Member(d, j) /\ Moves(d, j)
      BY <1>1, StreamFacts
    <2> QED
      BY <2>1 DEF Member, Moves, MemberId
  <1>6. ASSUME NEW d \in Connections, NEW j \in Ends PROVE Owned(d, j)'
    <2>1. Owned(d, j) /\ Moves(d, j)
      BY <1>1, StreamFacts
    <2> QED
      BY <2>1 DEF Owned, Moves, Listening
  <1>7. ASSUME NEW d \in Connections PROVE Stream(d)'
    <2>1. Stream(d)
      BY DEF PoolInv, Streams
    <2> QED
      BY <2>1 DEF Stream
  <1>8. ASSUME NEW d \in Connections PROVE Awaited(d)'
    <2>1. Awaited(d)
      BY DEF PoolInv, Streams
    <2> QED
      BY <2>1 DEF Awaited
  <1> QED
    BY <1>3, <1>4, <1>5, <1>6, <1>7, <1>8 DEF Streams

\* end[c] becomes e, in steps that leave the servers and their groups alone.
SetEnd(c, e) ==
    /\ e \in Stages \X Stages /\ end' = [end EXCEPT ![c] = e]
    /\ UNCHANGED <<state, group, from_members>>

\* The same, for the steps that set both its ends
LEMMA SetEndStep ==
    ASSUME PoolInv, NEW c \in Connections, NEW e, SetEnd(c, e),
           \A j \in Ends : Moves(c, j),
           e[1] = "none" <=> e[2] = "none", e[2] # "handshake",
           c[1] \in Clients => e[1] \in {"none", "client", "closed"},
           (c[1] \in Clients /\ client'[c[1]] = "lines") => e[1] = "none",
           \A v \in Clients : client'[v] = "lines" => client[v] = "lines",
           asked' \subseteq ClientConnections,
           client' \in [Clients -> {"lines", "open", "awaiting", "over"}],
           events' \in 0 .. MaxEvents
    PROVE  PoolInv'
  <1>1. end'[c] = e /\ (\A d \in Connections \ {c} : end'[d] = end[d]) /\ Shape'
    BY DEF PoolInv, Shape, SetEnd
  <1>2. Stream(c)' /\ Awaited(c)'
    BY <1>1 DEF Stream, Awaited
  <1>3. Groups' /\ Streams' /\ Lifetimes'
    BY <1>1, <1>2, OneStream DEF SetEnd
  <1> QED
    BY <1>1, <1>3 DEF PoolInv

\* A process connects to one that listens.
LEMMA ConnectStep ==
    ASSUME PoolInv, NEW c \in Dials, Connect(c)
    PROVE  PoolInv'
  <1>0. c \in Connections /\ c[1] \in Processes
    BY DEF Connections, Dials
  <1>1. end[c][1] = "none" /\ Listening(c[1]) /\ Listening(c[2])
    BY <1>0 DEF Connect
  <1>2. end[c][2] = "none"
    BY <1>0, <1>1, StreamFacts DEF Stream, Ends
  <1>3. PICK x \in {"dialed", "closed"} : end' = [end EXCEPT ![c] = <<x, "backlog">>]
    BY DEF Connect
  <1>4. SetEnd(c, <<x, "backlog">>)
    BY <1>0, <1>3 DEF Connect, SetEnd, Stages
  <1>5. end'[c] = <<x, "backlog">>
    BY <1>0, <1>3 DEF PoolInv, Shape
  <1>6. \A j \in Ends : Moves(c, j)
    BY SMTT(30), <1>0, <1>1, <1>2, <1>5 DEF Moves, Ends
  <1>7. c[1] \notin Clients
    BY <1>0, ProcessFacts
  <1>8. /\ asked' \subseteq ClientConnections /\ client' = client /\ events' \in 0 .. MaxEvents
        /\ client' \in [Clients -> {"lines", "open", "awaiting", "over"}]
    BY DEF Connect, PoolInv, Shape
  <1> QED
    BY <1>0, <1>3, <1>4, <1>6, <1>7, <1>8, SetEndStep

\* The builder has accepted c and there is nothing to read yet.
LEMMA HandshakeStep ==
    ASSUME PoolInv, NEW c \in Connections, Accept(c) \/ HandshakeArrives(c), ~Greeted(c)
    PROVE  PoolInv'
  <1>1. /\ end[c][2] \in {"backlog", "handshake"}
        /\ end[c][2] = "backlog" => Selecting(c[2])
        /\ end[c][2] = "handshake" => end[c][1] = "closed"
        /\ end' = [end EXCEPT ![c][2] = IF end[c][1] = "closed" THEN "closed" ELSE "handshake"]
        /\ UNCHANGED <<state, asked, group, from_members, client, events>>
    BY DEF Accept, HandshakeArrives, RecvHandshake
  <1>2. PICK x \in {"closed", "handshake"} :
           /\ end' = [end EXCEPT ![c][2] = x]
           /\ x = "handshake" => Selecting(c[2])
    BY <1>1
  <1>3. /\ end'[c] \in Stages \X Stages /\ end'[c][1] = end[c][1] /\ end'[c][2] = x
        /\ \A d \in Connections \ {c} : end'[d] = end[d]
        /\ Shape'
    BY SMTT(30), <1>1, <1>2, EndFacts DEF PoolInv, Shape, Stages, Ends
  <1>4. c[2] \in Processes /\ Listening(c[2])
    BY <1>1, ConnectionFacts, StreamFacts DEF Owned, Ends
  <1>5. \A j \in Ends : Moves(c, j)
    BY <1>1, <1>3, <1>4 DEF Moves, Ends
  <1>6. Stream(c)'
    BY <1>1, <1>3, StreamFacts DEF Stream, Ends
  <1>7. Awaited(c)'
    BY <1>1, <1>2, <1>3 DEF Awaited, Selecting
  <1> QED
    BY <1>1, <1>3, <1>5, <1>6, <1>7, OneStream DEF PoolInv

\* The session of a stream begins, or the streams of its two ends are closed.
LEMMA SessionStep ==
    ASSUME PoolInv, NEW c \in Connections, AcceptClient(c) \/ EndSession(c)
    PROVE  PoolInv'
  <1>1. PICK x \in {"session", "closed"} :
           /\ end' = [end EXCEPT ![c][2] = x] /\ end[c][2] \in {"backlog", "session"}
           /\ asked' \subseteq asked
           /\ UNCHANGED <<state, group, from_members, client, events>>
    BY DEF AcceptClient, EndSession
  <1>2. /\ end'[c] \in Stages \X Stages /\ end'[c][1] = end[c][1] /\ end'[c][2] = x
        /\ \A d \in Connections \ {c} : end'[d] = end[d]
        /\ Shape'
    BY SMTT(30), <1>1, EndFacts DEF PoolInv, Shape, Stages, Ends
  <1>3. c[2] \in Processes /\ Listening(c[2])
    BY <1>1, ConnectionFacts, StreamFacts DEF Owned, Ends
  <1>4. \A j \in Ends : Moves(c, j)
    BY <1>1, <1>2, <1>3 DEF Moves, Ends
  <1>5. Stream(c)' /\ Awaited(c)'
    BY <1>1, <1>2, StreamFacts DEF Stream, Awaited, Ends
  <1> QED
    BY <1>1, <1>2, <1>4, <1>5, OneStream DEF PoolInv

\* The steps of a client
LEMMA BeginStep ==
    ASSUME PoolInv, NEW v \in Clients, NEW n, Begin(v, n)
    PROVE  PoolInv'
  <1>1. /\ client[v] = "lines" /\ events' \in 0 .. MaxEvents
        /\ UNCHANGED <<state, asked, group, from_members>>
    BY SMTT(30), PoolConstants DEF Begin, Disturb, PoolInv, Shape
  <1>2. CASE \E q \in Processes :
               /\ q[1] = n /\ Listening(q)
               /\ end' = [end EXCEPT ![<<v, q>>] = <<"client", "backlog">>]
               /\ client' = [client EXCEPT ![v] = "open"]
    <2>1. PICK q \in Processes :
               /\ Listening(q)
               /\ end' = [end EXCEPT ![<<v, q>>] = <<"client", "backlog">>]
               /\ client' = [client EXCEPT ![v] = "open"]
      BY <1>2
    <2>2. PICK c \in Connections : c = <<v, q>>
      BY DEF Connections, ClientConnections
    <2>3. c[1] = v /\ c[2] = q /\ v \notin Processes
      BY <2>2, ProcessFacts
    <2>4. end[c][1] = "none" /\ end[c][2] = "none"
      BY <1>1, <2>3, StreamFacts DEF Stream, Ends
    <2>5. SetEnd(c, <<"client", "backlog">>)
      BY <1>1, <2>1, <2>2 DEF SetEnd, Stages
    <2>6. end'[c] = <<"client", "backlog">>
      BY <2>1, <2>2 DEF PoolInv, Shape
    <2>7. \A j \in Ends : Moves(c, j)
      BY SMTT(30), <2>1, <2>3, <2>4, <2>6 DEF Moves, Ends
    <2>8. /\ client' \in [Clients -> {"lines", "open", "awaiting", "over"}]
          /\ client'[v] = "open"
          /\ \A u \in Clients : client'[u] = "lines" => client[u] = "lines"
      BY <2>1 DEF PoolInv, Shape
    <2>9. asked' \subseteq ClientConnections
      BY <1>1 DEF PoolInv, Shape
    <2> QED
      BY <1>1, <2>3, <2>5, <2>7, <2>8, <2>9, SetEndStep
  <1>3. CASE client' = [client EXCEPT ![v] = "over"] /\ UNCHANGED end
    <2>1. /\ Shape'
          /\ \A u \in Clients : client'[u] = "lines" => client[u] = "lines"
      BY <1>1, <1>3 DEF PoolInv, Shape
    <2>2. Groups' /\ Lifetimes'
      BY SMTT(30), <1>1, <1>3 DEF PoolInv, Groups, Holds, Handle, MemberId, Lifetimes, Listening, Complete
    <2>3. Streams'
      BY SMTT(30), <1>1, <1>3, <2>1 DEF PoolInv, Streams, Stream, Awaited, Member, Owned,
         Listening, MemberId
    <2> QED
      BY <2>1, <2>2, <2>3 DEF PoolInv
  <1> QED
    BY <1>2, <1>3 DEF Begin

\* What a step of the client of c does to the two ends of c
ClientMoves(c) ==
    /\ end[c][1] = "client" /\ end'[c][1] \in {"client", "closed"}
    /\ \/ end'[c][2] = end[c][2]
       \/ end[c][2] = "session" /\ end'[c][2] = "closed"
    /\ \A d \in Connections \ {c} : end'[d] = end[d]
    /\ end' \in [Connections -> Stages \X Stages]

\* A client asks, is answered or quits.
LEMMA ClientSteps ==
    ASSUME PoolInv, NEW c \in ClientConnections, Ask(c) \/ Answered(c) \/ Quit(c)
    PROVE  PoolInv'
  <1>1. /\ c \in Connections /\ c[1] \in Clients /\ c[2] \in Processes
        /\ c[1] \notin Processes
    BY ConnectionFacts, ProcessFacts DEF Connections
  <1>2. /\ end[c] \in Stages \X Stages /\ end \in [Connections -> Stages \X Stages]
        /\ asked \subseteq ClientConnections
    BY <1>1 DEF PoolInv, Shape
  <1>3. PICK w \in {"open", "awaiting", "over"} : client' = [client EXCEPT ![c[1]] = w]
    BY DEF Ask, Answered, Respond, ResponseLost, Quit
  <1>4. /\ asked' \subseteq ClientConnections
        /\ UNCHANGED <<state, group, from_members, events>>
    BY <1>2 DEF Ask, Answered, Respond, ResponseLost, Quit
  <1>5. ClientMoves(c)
    <2>1. CASE Ask(c)
      BY <1>1, <1>2, <2>1 DEF Ask, ClientMoves
    <2>2. ASSUME NEW final \in BOOLEAN, Respond(c, final) PROVE ClientMoves(c)
      <3>1. end[c][1] = "client" /\ end[c][2] = "session"
        BY <2>2 DEF Respond
      <3>2. CASE final
        BY <1>1, <1>2, <2>2, <3>1, <3>2 DEF Respond, ClientMoves, Stages
      <3>3. CASE ~final
        BY <1>1, <1>2, <2>2, <3>1, <3>3 DEF Respond, ClientMoves
      <3> QED
        BY <3>2, <3>3
    <2>3. CASE ResponseLost(c) \/ Quit(c)
      <3>1. end[c][1] = "client" /\ end' = [end EXCEPT ![c][1] = "closed"]
        BY SMTT(30), <2>3 DEF ResponseLost, Quit
      <3> QED
        BY SMTT(30), <1>1, <1>2, <3>1 DEF ClientMoves, Stages
    <2> QED
      BY <2>1, <2>2, <2>3 DEF Answered
  <1>6. /\ Stream(c) /\ Awaited(c) /\ end[c][2] # "none"
    BY <1>1, <1>5, StreamFacts DEF Stream, Ends, ClientMoves
  <1>7. Shape'
    BY <1>1, <1>3, <1>4, <1>5 DEF PoolInv, Shape, ClientMoves
  <1>8. \A j \in Ends : Moves(c, j)
    BY <1>1, <1>5 DEF Moves, Ends, ClientMoves
  <1>9. /\ client'[c[1]] # "lines"
        /\ \A u \in Clients : client'[u] = "lines" => client[u] = "lines"
    BY <1>1, <1>3 DEF PoolInv, Shape
  <1>10. Stream(c)'
    BY <1>5, <1>6, <1>9 DEF Stream, ClientMoves
  <1>11. Awaited(c)'
    BY <1>4, <1>5, <1>6 DEF Awaited, ClientMoves
  <1>12. \A d \in Connections \ {c} : end'[d] = end[d]
    BY <1>5 DEF ClientMoves
  <1> QED
    BY <1>1, <1>4, <1>7, <1>8, <1>9, <1>10, <1>11, <1>12, OneStream DEF PoolInv

-----------------------------------------------------------------------------
(* Steps of a process                                                      *)

\* A process starts.
LEMMA StartStep ==
    ASSUME PoolInv, NEW p \in Processes, Start(p)
    PROVE  PoolInv'
  <1>1. /\ state[p] = "new" /\ state' = [state EXCEPT ![p] = "connecting"]
        /\ \A q \in Processes : (q[1] = p[1] /\ q[2] < p[2]) => state[q] = "gone"
        /\ UNCHANGED <<end, asked, group, from_members, client>>
    BY DEF Start
  <1>2. events' \in 0 .. MaxEvents
    BY SMTT(30), PoolConstants DEF Start, Disturb, PoolInv, Shape
  <1>3. Shape'
    BY <1>1, <1>2 DEF PoolInv, Shape
  <1>4. /\ state'[p] = "connecting"
        /\ \A q \in Processes : q # p => state'[q] = state[q]
    BY <1>1 DEF PoolInv, Shape
  <1>5. Groups'
    BY SMTT(30), <1>1 DEF PoolInv, Groups, Holds, Handle, MemberId
  <1>6. ASSUME NEW c \in Connections PROVE Stream(c)' /\ Awaited(c)'
    BY <1>1, <1>4, <1>6, ConnectionFacts DEF PoolInv, Streams, Stream, Awaited
  <1>7. ASSUME NEW c \in Connections, NEW i \in Ends PROVE Member(c, i)' /\ Owned(c, i)'
    <2>1. Member(c, i) /\ Owned(c, i)
      BY <1>7 DEF PoolInv, Streams
    <2>2. Member(c, i)'
      BY <1>1, <2>1 DEF Member, MemberId
    <2>3. Owned(c, i)'
      BY <1>1, <1>4, <2>1 DEF Owned, Listening
    <2> QED
      BY <2>2, <2>3
  <1>8. Lifetimes'
    BY <1>1, <1>4 DEF PoolInv, Lifetimes, Listening, Complete
  <1> QED
    BY <1>3, <1>5, <1>6, <1>7, <1>8 DEF PoolInv, Streams

\* The process p ends.
LEMMA ExitStep ==
    ASSUME PoolInv, NEW p \in Processes, Exit(p), events' \in 0 .. MaxEvents
    PROVE  PoolInv'
  <1>1. ASSUME NEW c \in Connections, NEW i \in Ends
        PROVE  /\ end'[c][i] = IF c[i] = p /\ end[c][i] # "none" THEN "closed" ELSE end[c][i]
               /\ end'[c] \in Stages \X Stages
    <2>1. end'[c] = [j \in 1 .. 2 |-> IF c[j] = p /\ end[c][j] # "none" THEN "closed"
                                                                     ELSE end[c][j]]
      BY DEF Exit, Closed
    <2>2. \A j \in Ends : end[c][j] \in Stages
      BY EndFacts DEF PoolInv
    <2> QED
      BY SMTT(30), <2>1, <2>2 DEF Ends, Stages
  <1>2. end' \in [Connections -> Stages \X Stages]
    <2>1. end' = [c \in Connections |-> end'[c]]
      BY DEF Exit, Closed
    <2> QED
      BY <1>1, <2>1 DEF Ends
  <1>3. /\ state'[p] = "gone" /\ group'[p] = <<>> /\ from_members'[p] = {}
        /\ \A q \in Processes : q # p => /\ state'[q] = state[q] /\ group'[q] = group[q]
                                         /\ from_members'[q] = from_members[q]
        /\ asked' \subseteq asked /\ UNCHANGED client
    BY DEF Exit, PoolInv, Shape
  <1>4. Shape'
    BY <1>2, <1>3 DEF Exit, PoolInv, Shape
  <1>5. ASSUME NEW q \in Processes, NEW m \in DOMAIN group'[q] PROVE Holds(q, m)'
    <2>1. q # p /\ m \in DOMAIN group[q] /\ group'[q] = group[q]
      BY SMTT(30), <1>3
    <2>2. PICK d \in Connections, j \in Ends : group[q][m] = d /\ Handle(q, m, d, j)
      BY <2>1 DEF PoolInv, Groups, Holds
    <2>3. Handle(q, m, d, j)'
      BY <1>1, <1>3, <2>1, <2>2 DEF Handle, MemberId
    <2> QED
      BY <2>1, <2>2, <2>3 DEF Holds
  <1>6. Groups'
    BY <1>3, <1>5 DEF PoolInv, Groups
  <1>7. ASSUME NEW c \in Connections, NEW i \in Ends PROVE Member(c, i)' /\ Owned(c, i)'
    <2>1. Member(c, i) /\ Owned(c, i)
      BY <1>7 DEF PoolInv, Streams
    <2>2. Member(c, i)'
      BY <1>1, <1>3, <2>1 DEF Member, MemberId
    <2>3. Owned(c, i)'
      BY SMTT(30), <1>1, <1>3, <2>1 DEF Owned, Listening
    <2> QED
      BY <2>2, <2>3
  <1>8. ASSUME NEW c \in Connections PROVE Stream(c)' /\ Awaited(c)'
    <2>1. Stream(c) /\ Awaited(c) /\ c[2] \in Processes
      BY ConnectionFacts DEF PoolInv, Streams
    <2>2. c[1] \in Clients => c[1] # p
      BY ProcessFacts
    <2>3. Stream(c)'
      BY <1>1, <1>3, <2>1, <2>2 DEF Stream, Ends
    <2>4. Awaited(c)'
      BY <1>1, <1>3, <2>1 DEF Awaited, Ends
    <2> QED
      BY <2>3, <2>4
  <1>9. Lifetimes'
    BY <1>3 DEF PoolInv, Lifetimes, Listening, Complete
  <1> QED
    BY <1>4, <1>6, <1>7, <1>8, <1>9 DEF PoolInv, Streams

-----------------------------------------------------------------------------
(* Member loops                                                            *)

\* The loop at end i of c reads end-of-file.
LEMMA LoopEndsStep ==
    ASSUME PoolInv, NEW c \in Connections, NEW i \in Ends, MemberLoopEnds(c, i)
    PROVE  PoolInv'
  <1> DEFINE p == c[i]
             m == MemberId(c, i)
  <1>1. /\ end[c][i] = "member" /\ end' = [end EXCEPT ![c][i] = "closed"]
        /\ from_members' = [from_members EXCEPT ![p] = from_members[p] \cup {m}]
        /\ UNCHANGED <<state, asked, group, client, events>>
    BY DEF MemberLoopEnds, Notified
  <1>2. p \in Processes /\ m \in DOMAIN group[p] /\ group[p][m] = c
    BY <1>1, StreamFacts DEF Member
  <1>3. /\ end' \in [Connections -> Stages \X Stages] /\ end'[c][i] = "closed"
        /\ \A d \in Connections, j \in Ends : d # c \/ j # i => end'[d][j] = end[d][j]
    BY SMTT(30), <1>1 DEF PoolInv, Shape, Ends, Stages
  <1>4. /\ Shape' /\ from_members'[p] = from_members[p] \cup {m}
        /\ \A q \in Processes : q # p => from_members'[q] = from_members[q]
    BY <1>1, <1>2, <1>3 DEF PoolInv, Shape
  <1>5. ASSUME NEW q \in Processes, NEW k \in DOMAIN group[q] PROVE Holds(q, k)'
    <2>1. PICK d \in Connections, j \in Ends : group[q][k] = d /\ Handle(q, k, d, j)
      BY DEF PoolInv, Groups, Holds
    <2>2. CASE d = c /\ j = i
      <3>1. q = p /\ k = m
        BY <2>1, <2>2 DEF Handle
      <3>2. Handle(q, k, d, j)'
        BY <1>3, <1>4, <2>1, <2>2, <3>1 DEF Handle, MemberId
      <3> QED
        BY <1>1, <2>1, <3>2 DEF Holds
    <2>3. CASE d # c \/ j # i
      <3>1. end'[d][j] = end[d][j] /\ from_members[q] \subseteq from_members'[q]
        BY <1>3, <1>4, <2>3
      <3>2. Handle(q, k, d, j)'
        BY <2>1, <3>1 DEF Handle, MemberId
      <3> QED
        BY <1>1, <2>1, <3>2 DEF Holds
    <2> QED
      BY <2>2, <2>3
  <1>6. Groups'
    BY <1>1, <1>2, <1>4, <1>5 DEF PoolInv, Groups
  <1>7. ASSUME NEW d \in Connections, NEW j \in Ends PROVE Member(d, j)' /\ Owned(d, j)'
    <2>1. Member(d, j) /\ Owned(d, j)
      BY <1>7 DEF PoolInv, Streams
    <2> QED
      BY <1>1, <1>3, <2>1 DEF Member, Owned, Listening, MemberId
  <1>8. ASSUME NEW d \in Connections PROVE Stream(d)' /\ Awaited(d)'
    <2>1. Stream(d) /\ Awaited(d) /\ \A j \in Ends : Owned(d, j)
      BY DEF PoolInv, Streams
    <2>2. \A j \in Ends : end'[d][j] = "none" <=> end[d][j] = "none"
      BY <1>1, <1>3
    <2>3. d[1] \in Clients => end'[d][1] = end[d][1]
      BY <1>2, <1>3, ProcessFacts DEF Ends
    <2>4. Stream(d)'
      BY <1>1, <2>1, <2>2, <2>3 DEF Stream, Ends
    <2>5. \A e \in Connections : end'[e][2] = "handshake" => end[e][2] = "handshake"
      BY <1>3 DEF Ends
    <2> QED
      BY <1>1, <2>1, <2>4, <2>5 DEF Awaited
  <1>9. Lifetimes'
    BY <1>1 DEF PoolInv, Lifetimes, Listening, Complete
  <1> QED
    BY <1>4, <1>6, <1>7, <1>8, <1>9 DEF PoolInv, Streams

\* A member is admitted, and its earlier handle dropped.
LEMMA AdmitStep ==
    ASSUME PoolInv, NEW c \in Connections, NEW i \in Ends, AdmitMember(c, i),
           c[i] \in Processes, state[c[i]] = "connecting",
           end[c][i] \in {"backlog", "handshake", "dialed"},
           \A d \in Connections :
              (d[2] = c[i] /\ end[d][2] = "handshake") => d = c /\ i = 2
    PROVE  PoolInv'
  <1> DEFINE p == c[i]
             m == MemberId(c, i)
             members == Inserted(p, m, c)
  <1>1. /\ group' = [group EXCEPT ![p] = members]
        /\ state' = [state EXCEPT ![p] = IF Complete(members) THEN "serving" ELSE @]
        /\ asked' \subseteq asked /\ UNCHANGED <<from_members, client, events>>
    BY DEF AdmitMember
  <1>2. ASSUME NEW d \in Connections, NEW j \in Ends
        PROVE  /\ end'[d][j] = IF d = c /\ j = i THEN "member"
                               ELSE IF /\ d[j] = p
                                       /\ \/ Replaced(p, m, d)
                                          \/ Complete(members) /\ end[d][j] = "dialed"
                                    THEN "closed" ELSE end[d][j]
               /\ end'[d] \in Stages \X Stages
    <2>1. end'[d] = [l \in 1 .. 2 |->
                        IF d = c /\ l = i THEN "member"
                        ELSE IF /\ d[l] = p
                                /\ \/ Replaced(p, m, d)
                                   \/ Complete(members) /\ end[d][l] = "dialed"
                             THEN "closed" ELSE end[d][l]]
      BY DEF AdmitMember
    <2>2. \A l \in Ends : end[d][l] \in Stages
      BY EndFacts DEF PoolInv
    <2> HIDE DEF p, m, members
    <2> QED
      BY SMTT(30), <2>1, <2>2 DEF Ends, Stages
  <1>3. end' \in [Connections -> Stages \X Stages]
    <2>1. end' = [d \in Connections |-> end'[d]]
      BY DEF AdmitMember
    <2> QED
      BY <1>2, <2>1 DEF Ends
  <1>4. /\ DOMAIN members = {m} \cup DOMAIN group[p] /\ members[m] = c
        /\ \A k \in DOMAIN group[p] : k # m => members[k] = group[p][k]
    BY DEF Inserted
  <1> HIDE DEF members
  <1>5. /\ Shape' /\ group'[p] = members
        /\ state'[p] \in {"connecting", "serving"}
        /\ state'[p] = "serving" => Complete(members)
        /\ \A q \in Processes : q # p => state'[q] = state[q] /\ group'[q] = group[q]
    <2>1. PICK x \in {"connecting", "serving"} :
             state' = [state EXCEPT ![p] = x] /\ (x = "serving" => Complete(members))
      BY <1>1
    <2> HIDE DEF p, m
    <2>2. p \in Processes
      BY DEF p
    <2> QED
      BY SMTT(30), <1>1, <1>3, <2>1, <2>2 DEF PoolInv, Shape
  <1>6. /\ end'[c][i] = "member"
        /\ \A d \in Connections, j \in Ends :
              /\ d # c \/ j # i => end'[d][j] \in {end[d][j], "closed"}
              /\ d[j] # p => end'[d][j] = end[d][j]
    BY <1>2
  <1>7. ASSUME NEW d \in Connections, NEW j \in Ends, d[j] = p, Replaced(p, m, d)
        PROVE  Handle(p, m, d, j)
    <2>1. PICK l \in Ends : Handle(p, m, d, l)
      BY <1>7, GroupFacts DEF Replaced
    <2>2. l = j
      BY <1>7, <2>1, OneEnd DEF Handle
    <2> QED
      BY <2>1, <2>2
  <1>8. ASSUME NEW d \in Connections, NEW j \in Ends
        PROVE  end'[d][j] = "none" <=> end[d][j] = "none"
    <2>1. (d[j] = p /\ Replaced(p, m, d)) => end[d][j] # "none"
      BY <1>7 DEF Handle
    <2> QED
      BY <1>2, <2>1
  <1>9. ASSUME NEW d \in Connections, NEW j \in Ends, d[j] = p, MemberId(d, j) # m,
               end[d][j] # "dialed"
        PROVE  end'[d][j] = end[d][j]
    <2>1. d # c \/ j # i
      BY <1>9
    <2>2. ~Replaced(p, m, d)
      BY <1>7, <1>9 DEF Handle
    <2> QED
      BY <1>2, <1>9, <2>1, <2>2
  <1>10. ASSUME NEW d \in Connections, NEW j \in Ends, d # c \/ j # i, d[j] = p,
                MemberId(d, j) = m
         PROVE  end'[d][j] # "member"
    <2>1. end[d][j] = "member" => Replaced(p, m, d)
      BY <1>10, StreamFacts DEF Member, Replaced
    <2> QED
      BY <1>2, <1>10, <2>1
  <1>11. Groups'
    <2>1. ASSUME NEW q \in Processes, NEW k \in DOMAIN group'[q] PROVE Holds(q, k)'
      <3>1. CASE q = p /\ k = m
        <4>1. Handle(q, k, c, i)'
          BY <1>6, <3>1 DEF Handle, MemberId
        <4> QED
          BY <1>4, <1>5, <3>1, <4>1 DEF Holds
      <3>2. CASE q # p \/ k # m
        <4>1. k \in DOMAIN group[q] /\ group'[q][k] = group[q][k]
          BY <1>4, <1>5, <2>1, <3>2
        <4>2. PICK d \in Connections, j \in Ends : group[q][k] = d /\ Handle(q, k, d, j)
          BY <4>1 DEF PoolInv, Groups, Holds
        <4>3. end'[d][j] = end[d][j]
          BY <1>6, <1>9, <3>2, <4>2 DEF Handle
        <4>4. Handle(q, k, d, j)'
          BY <1>1, <4>2, <4>3 DEF Handle, MemberId
        <4> QED
          BY <4>1, <4>2, <4>4 DEF Holds
      <3> QED
        BY <3>1, <3>2
    <2>2. \A q \in Processes : from_members'[q] \subseteq DOMAIN group'[q]
      BY <1>1, <1>4, <1>5 DEF PoolInv, Groups
    <2> QED
      BY <2>1, <2>2 DEF Groups
  <1>12. ASSUME NEW d \in Connections, NEW j \in Ends PROVE Member(d, j)'
    <2>1. CASE d = c /\ j = i
      BY <1>4, <1>5, <2>1 DEF Member, MemberId
    <2>2. CASE d # c \/ j # i
      <3>1. ASSUME end'[d][j] = "member"
            PROVE  /\ d[j] \in Processes /\ MemberId(d, j) \in DOMAIN group'[d[j]]
                   /\ group'[d[j]][MemberId(d, j)] = d
        <4>1. end[d][j] = "member" /\ Member(d, j) /\ (d[j] = p => MemberId(d, j) # m)
          BY <1>6, <1>10, <2>2, <3>1, StreamFacts
        <4> QED
          BY <1>4, <1>5, <4>1 DEF Member
      <3> QED
        BY <3>1 DEF Member, MemberId
    <2> QED
      BY <2>1, <2>2
  <1>13. ASSUME NEW d \in Connections, NEW j \in Ends PROVE Owned(d, j)'
    <2>1. Owned(d, j)
      BY StreamFacts
    <2> QED
      BY <1>5, <1>6, <2>1 DEF Owned, Listening
  <1>14. ASSUME NEW d \in Connections PROVE Stream(d)'
    <2>1. Stream(d) /\ (d[1] \in Clients => end'[d][1] = end[d][1])
      BY <1>6, ProcessFacts DEF PoolInv, Streams, Ends
    <2> QED
      BY <1>1, <1>8, <2>1 DEF Stream, Ends
  <1>15. ASSUME NEW d \in Connections PROVE Awaited(d)'
    <2>1. ASSUME NEW e \in Connections, end'[e][2] = "handshake"
          PROVE  end[e][2] = "handshake" /\ e[2] # p
      BY <1>6, <2>1 DEF Ends
    <2>2. Awaited(d) /\ d[2] \in Processes
      BY ConnectionFacts DEF PoolInv, Streams
    <2> QED
      BY <1>5, <2>1, <2>2 DEF Awaited
  <1>16. Lifetimes'
    <2>1. \A q \in Processes : Listening(q)' = Listening(q)
      BY SMTT(30), <1>5 DEF Listening
    <2>2. \A q \in Processes : state[q] = "gone" => state'[q] = "gone"
      BY <1>5
    <2>3. \A q \in Processes : state'[q] = "serving" => Complete(group'[q])
      BY <1>5 DEF PoolInv, Lifetimes
    <2> QED
      BY <2>1, <2>2, <2>3 DEF PoolInv, Lifetimes, Complete
  <1> QED
    BY <1>5, <1>11, <1>12, <1>13, <1>14, <1>15, <1>16 DEF PoolInv, Streams

-----------------------------------------------------------------------------
(* The theorems                                                            *)

\* Every step on a stream keeps the invariant,
LEMMA StreamStepKeeps ==
    ASSUME PoolInv, NEW c \in Connections, StreamStep(c)
    PROVE  PoolInv'
  <1>1. c[2] \in Processes /\ Owned(c, 1) /\ Owned(c, 2) /\ Awaited(c) /\ Stream(c)
    BY ConnectionFacts, StreamFacts DEF Ends
  <1>2. CASE (Accept(c) \/ HandshakeArrives(c)) /\ ~Greeted(c)
    BY <1>2, HandshakeStep
  <1>3. CASE Accept(c) /\ Greeted(c)
    <2>1. end[c][2] = "backlog" /\ Selecting(c[2]) /\ AdmitMember(c, 2)
      BY <1>3 DEF Accept, RecvHandshake
    <2> QED
      BY <1>1, <2>1, AdmitStep DEF Selecting, Ends
  <1>4. CASE HandshakeArrives(c) /\ Greeted(c)
    <2>1. end[c][2] = "handshake" /\ AdmitMember(c, 2)
      BY <1>4 DEF HandshakeArrives, RecvHandshake
    <2> QED
      BY <1>1, <2>1, AdmitStep DEF Awaited, Ends
  <1>5. CASE AdmitDialed(c)
    <2>1. end[c][1] = "dialed" /\ Selecting(c[1]) /\ AdmitMember(c, 1)
      BY <1>5 DEF AdmitDialed
    <2>2. c[1] \in Processes
      BY <1>1, <2>1, ConnectionFacts DEF Stream
    <2> QED
      BY <2>1, <2>2, AdmitStep DEF Selecting, Ends
  <1>6. CASE MemberLoopEnds(c, 1) \/ MemberLoopEnds(c, 2)
    BY <1>6, LoopEndsStep DEF Ends
  <1>7. CASE AcceptClient(c) \/ EndSession(c)
    BY <1>7, SessionStep
  <1> QED
    BY <1>2, <1>3, <1>4, <1>5, <1>6, <1>7 DEF StreamStep

\* and so does every step of a process,
LEMMA ProcessSteps ==
    ASSUME PoolInv, NEW p \in Processes,
           Start(p) \/ Crash(p) \/ Timeout(p) \/ HandleDisconnected(p)
    PROVE  PoolInv'
  <1>1. CASE Start(p)
    BY <1>1, StartStep
  <1>2. CASE Crash(p) \/ Timeout(p) \/ HandleDisconnected(p)
    <2>1. Exit(p)
      BY <1>2 DEF Crash, Timeout, HandleDisconnected
    <2>2. events' = events \/ Disturb
      BY <1>2 DEF Crash, Timeout, HandleDisconnected
    <2>3. events' \in 0 .. MaxEvents
      BY SMTT(30), <2>2, PoolConstants DEF Disturb, PoolInv, Shape
    <2> QED
      BY <2>1, <2>3, ExitStep
  <1> QED
    BY <1>1, <1>2

\* and every step of the system.
LEMMA PoolNext == PoolInv /\ [Next]_vars => PoolInv'
  <1> SUFFICES ASSUME PoolInv, [Next]_vars PROVE PoolInv'
    OBVIOUS
  <1>1. CASE UNCHANGED vars
    <2>1. Shape' /\ Lifetimes'
      BY <1>1 DEF vars, PoolInv, Shape, Lifetimes, Listening, Complete
    <2>2. Groups'
      BY SMTT(30), <1>1 DEF vars, PoolInv, Groups, Holds, Handle, MemberId
    <2>3. Streams'
      BY SMTT(30), <1>1 DEF vars, PoolInv, Streams, Stream, Awaited, Member, Owned, Listening, MemberId
    <2> QED
      BY <2>1, <2>2, <2>3 DEF PoolInv
  <1>2. CASE ServerStep
    BY <1>2, ConnectStep, StreamStepKeeps, ProcessSteps DEF ServerStep, Progress
  <1>3. CASE ClientStep
    <2>1. ASSUME NEW c \in ClientConnections, NoSuchPeer(c) PROVE PoolInv'
      <3>1. c[2] \in Processes /\ Exit(c[2]) /\ events' = events
        BY <2>1 DEF NoSuchPeer, ClientConnections
      <3> QED
        BY <3>1, ExitStep DEF PoolInv, Shape
    <2> QED
      BY <1>3, <2>1, BeginStep, ClientSteps DEF ClientStep
  <1>4. CASE \E p \in Processes : Start(p) \/ Crash(p)
    BY <1>4, ProcessSteps
  <1> QED
    BY <1>1, <1>2, <1>3, <1>4 DEF Next

LEMMA PoolInductive == Spec => []PoolInv
  BY PoolInit, PoolNext, PTL DEF Spec

\* The group of a process has no member but other servers and clients, each with a
\* stream of which the process is an end (admit_member), and Disconnected comes
\* from members only, for any configuration, crashes, restarts and clients.
THEOREM PoolTypeCorrect == Spec => []TypeOK
  BY PoolInductive, PoolInvTypes, PTL

\* The only process of a server that runs
LEMMA OneProcess ==
    ASSUME PoolInv, NEW p \in Processes, NEW q \in Processes, Listening(p), Listening(q),
           p[1] = q[1]
    PROVE  p = q
  <1>1. p[2] \in Nat /\ q[2] \in Nat /\ p = <<p[1], p[2]>> /\ q = <<q[1], q[2]>>
    BY ProcessFacts
  <1>2. ~(p[2] < q[2]) /\ ~(q[2] < p[2])
    BY DEF PoolInv, Lifetimes, Listening
  <1>3. p[2] = q[2]
    BY <1>1, <1>2
  <1> QED
    BY <1>1, <1>3

\* The count that ends connect_inner means all servers if no client was counted.
LEMMA CompleteMeansAll ==
    ASSUME PoolInv, NEW p \in Processes, state[p] = "serving", ~TookClient(p)
    PROVE  DOMAIN group[p] = Nodes \ {p[1]}
  <1>1. IsFiniteSet(Nodes)
    <2>1. Lines \in Seq(Nodes)
      BY PoolConstants
    <2>2. \A n \in Nodes : \E i \in 1 .. Len(Lines) : Lines[i] = n
      <3>1. DOMAIN Lines = 1 .. Len(Lines)
        BY <2>1
      <3> QED
        BY <3>1 DEF Nodes
    <2> QED
      BY <2>1, <2>2 DEF IsFiniteSet
  <1>2. p[1] \in Nodes
    BY ProcessFacts
  <1>3. /\ IsFiniteSet(Nodes \ {p[1]})
        /\ Cardinality(Nodes \ {p[1]}) = Cardinality(Nodes) - 1
    BY <1>1, <1>2, FS_RemoveElement
  <1>4. DOMAIN group[p] \in SUBSET (Nodes \ {p[1]})
    BY PoolInvTypes DEF TypeOK, TookClient
  <1>5. Cardinality(DOMAIN group[p]) = Cardinality(Nodes) - 1
    BY DEF PoolInv, Lifetimes, Complete
  <1> QED
    BY <1>3, <1>4, <1>5, FS_Subset

\* A server that serves, and is not about to exit, has a stream to the process of
\* every other server that serves.
LEMMA HoldsStream ==
    ASSUME PoolInv, NEW p \in Processes, NEW q \in Processes, p[1] # q[1],
           state[p] = "serving", state[q] = "serving", ~Doomed(p), ~TookClient(p)
    PROVE  q[1] \in DOMAIN group[p] /\ group[p][q[1]] \in Connections \cap {<<p, q>>, <<q, p>>}
  <1>1. q[1] \in DOMAIN group[p]
    BY CompleteMeansAll, ProcessFacts
  <1>2. PICK c \in Connections, i \in Ends :
           group[p][q[1]] = c /\ Handle(p, q[1], c, i)
    BY <1>1 DEF PoolInv, Groups, Holds
  <1>3. c[i] = p /\ MemberId(c, i) = q[1] /\ end[c][i] = "member"
    BY <1>2 DEF Handle, Doomed
  <1>4. q[1] \in Nodes /\ q[1] \notin Kinds
    BY ProcessFacts, PoolConstants
  <1>5. c[3 - i] \in Processes /\ c[3 - i][1] = q[1]
    BY <1>3, <1>4, MemberFacts
  <1>6. 3 - i \in Ends /\ i \in 1 .. 2
    BY DEF Ends
  <1>7. end[c][3 - i] # "closed"
    BY <1>3, <1>6 DEF Doomed
  <1>8. end[c][3 - i] # "none"
    BY SMTT(30), <1>3, StreamFacts DEF Stream, Ends
  <1>9. Listening(c[3 - i]) /\ Listening(q)
    BY <1>5, <1>6, <1>7, <1>8, StreamFacts DEF Owned, Listening
  <1>10. c[3 - i] = q
    BY <1>5, <1>9, OneProcess
  <1>11. c = <<c[1], c[2]>>
    BY ConnectionFacts
  <1>12. c \in {<<p, q>>, <<q, p>>}
    BY <1>3, <1>10, <1>11 DEF Ends
  <1> QED
    BY <1>1, <1>2, <1>12

\* Only one of two servers dials the other (parse_config).
LEMMA OneDirection ==
    ASSUME NEW p \in Processes, NEW q \in Processes, <<p, q>> \in Connections
    PROVE  <<q, p>> \notin Connections
  <1>1. ASSUME NEW r \in Processes, NEW s \in Processes, <<r, s>> \in Connections
        PROVE  s[1] \in ConnectionList(r[1])
    <2>1. r \notin Clients
      BY ProcessFacts
    <2> QED
      BY <1>1, <2>1 DEF Connections, ClientConnections, Dials
  <1> QED
    BY <1>1, DialsOneWay

\* Two servers that serve use the two ends of one stream for each other, for any
\* configuration and whatever crashes, restarts and clients came before, unless
\* one is about to exit or has counted a client as a member (admit_member).
THEOREM ServersShareStream == Spec => []SameStream
  <1>1. PoolInv => SameStream
    <2> SUFFICES ASSUME PoolInv, NEW p \in Processes, NEW q \in Processes, p[1] # q[1],
                        state[p] = "serving", state[q] = "serving",
                        ~Doomed(p), ~Doomed(q), ~TookClient(p), ~TookClient(q)
                 PROVE  /\ q[1] \in DOMAIN group[p] /\ p[1] \in DOMAIN group[q]
                        /\ group[p][q[1]] = group[q][p[1]]
      BY DEF SameStream
    <2>1. /\ q[1] \in DOMAIN group[p]
          /\ group[p][q[1]] \in Connections \cap {<<p, q>>, <<q, p>>}
      BY HoldsStream
    <2>2. /\ p[1] \in DOMAIN group[q]
          /\ group[q][p[1]] \in Connections \cap {<<q, p>>, <<p, q>>}
      BY HoldsStream
    <2> QED
      BY <2>1, <2>2, OneDirection
  <1> QED
    BY <1>1, PoolInductive, PTL
=============================================================================
