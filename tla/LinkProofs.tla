----------------------------- MODULE LinkProofs -----------------------------
(***************************************************************************)
(* The streams between two servers, for any number of clients and any size *)
(* of the buffers: the hops are the queue that module Coordinator assumes, *)
(* a client has one message in them at most, and the two member loops can  *)
(* block each other only when there are more clients at work than fit.     *)
(***************************************************************************)
EXTENDS Link, TLAPS, SequenceTheorems, FiniteSetTheorems, FunctionTheorems

\* Zenon first, which is quick on the many steps without arithmetic; the steps on
\* which it is not cite SMTT(30).
USE ZenonT(20), SMTT(30)

-----------------------------------------------------------------------------
(* Sequences                                                               *)

\* Appending to the last of two queues in a row appends to the two.
LEMMA PutLast ==
    ASSUME NEW S, NEW a \in Seq(S), NEW b \in Seq(S), NEW x \in S
    PROVE  a \o Append(b, x) = Append(a \o b, x)
  <1>1. Append(b, x) = b \o <<x>> /\ <<x>> \in Seq(S)
    BY AppendIsConcat
  <1>2. a \o b \in Seq(S) /\ Append(a \o b, x) = (a \o b) \o <<x>>
    BY ConcatProperties, AppendIsConcat
  <1> QED
    BY SMTT(30), <1>1, <1>2, ConcatAssociative

\* Taking from the first of two queues in a row takes from the two.
LEMMA TakeFirst ==
    ASSUME NEW S, NEW a \in Seq(S), NEW b \in Seq(S), a # <<>>
    PROVE  a \o b # <<>> /\ Head(a \o b) = Head(a) /\ Tail(a \o b) = Tail(a) \o b
  <1>1. Len(a) \in Nat \ {0} /\ Len(b) \in Nat
    BY EmptySeq, LenProperties
  <1>2. /\ a \o b \in Seq(S) /\ Len(a \o b) = Len(a) + Len(b)
        /\ \A i \in 1 .. Len(a) + Len(b) :
              (a \o b)[i] = IF i <= Len(a) THEN a[i] ELSE b[i - Len(a)]
    BY ConcatProperties
  <1>3. a \o b # <<>>
    BY <1>1, <1>2, EmptySeq
  <1>4. Head(a \o b) = Head(a)
    BY <1>1, <1>2
  <1>5. /\ Tail(a) \in Seq(S) /\ Len(Tail(a)) = Len(a) - 1
        /\ \A i \in 1 .. Len(a) - 1 : Tail(a)[i] = a[i + 1]
    BY HeadTailProperties
  <1>6. /\ Tail(a \o b) \in Seq(S) /\ Len(Tail(a \o b)) = Len(a) + Len(b) - 1
        /\ \A i \in 1 .. Len(a) + Len(b) - 1 : Tail(a \o b)[i] = (a \o b)[i + 1]
    BY SMTT(30), <1>2, <1>3, HeadTailProperties
  <1>7. /\ Tail(a) \o b \in Seq(S) /\ Len(Tail(a) \o b) = Len(Tail(a)) + Len(b)
        /\ \A i \in 1 .. Len(Tail(a)) + Len(b) : (Tail(a) \o b)[i] =
              IF i <= Len(Tail(a)) THEN Tail(a)[i] ELSE b[i - Len(Tail(a))]
    BY <1>5, ConcatProperties
  <1>8. Len(Tail(a \o b)) = Len(Tail(a) \o b)
    BY <1>1, <1>5, <1>6, <1>7
  <1>9. ASSUME NEW i \in 1 .. Len(a) + Len(b) - 1
        PROVE  Tail(a \o b)[i] = (Tail(a) \o b)[i]
    <2>1. /\ i \in Nat /\ i >= 1 /\ i + 1 \in 1 .. Len(a) + Len(b)
          /\ i \in 1 .. Len(Tail(a)) + Len(b)
      BY <1>1, <1>5, <1>9
    <2>2. CASE i <= Len(a) - 1
      <3>1. i \in 1 .. Len(a) - 1 /\ i + 1 <= Len(a) /\ i <= Len(Tail(a))
        BY <1>1, <1>5, <2>1, <2>2
      <3> QED
        BY <1>2, <1>5, <1>6, <1>7, <2>1, <3>1
    <2>3. CASE ~(i <= Len(a) - 1)
      <3>1. ~(i + 1 <= Len(a)) /\ ~(i <= Len(Tail(a))) /\ i + 1 - Len(a) = i - Len(Tail(a))
        BY <1>1, <1>5, <2>1, <2>3
      <3> QED
        BY SMTT(30), <1>2, <1>6, <1>7, <2>1, <3>1
    <2> QED
      BY <2>2, <2>3
  <1>10. Tail(a \o b) = Tail(a) \o b
    BY <1>6, <1>7, <1>8, <1>9, SeqEqual
  <1> QED
    BY <1>3, <1>4, <1>10

\* A queue is its first item, followed by the others.
LEMMA HeadAndTail ==
    ASSUME NEW S, NEW a \in Seq(S), a # <<>>
    PROVE  <<Head(a)>> \in Seq(S) /\ Tail(a) \in Seq(S) /\ <<Head(a)>> \o Tail(a) = a
  <1>1. Head(a) \in S /\ Tail(a) \in Seq(S) /\ Len(Tail(a)) = Len(a) - 1
        /\ \A i \in 1 .. Len(Tail(a)) : Tail(a)[i] = a[i + 1]
    BY HeadTailProperties
  <1>2. Len(a) \in Nat \ {0} /\ Head(a) = a[1]
    BY EmptySeq
  <1> DEFINE h == <<Head(a)>>
  <1>3. h \in Seq(S) /\ Len(h) = 1 /\ h[1] = a[1]
    BY <1>1, <1>2
  <1> HIDE DEF h
  <1> DEFINE r == Tail(a)
  <1>4. r \in Seq(S) /\ Len(r) = Len(a) - 1 /\ \A i \in 1 .. Len(r) : r[i] = a[i + 1]
    BY <1>1
  <1> HIDE DEF r
  <1>5. /\ h \o r \in Seq(S) /\ Len(h \o r) = Len(h) + Len(r)
        /\ \A i \in 1 .. Len(h) + Len(r) :
              (h \o r)[i] = IF i <= Len(h) THEN h[i] ELSE r[i - Len(h)]
    <2>1. h \in Seq(S) /\ r \in Seq(S)
      BY <1>3, <1>4
    <2> QED
      BY <2>1, ConcatProperties
  <1>6. Len(h \o r) = Len(a)
    <2>1. Len(h) + Len(r) = Len(a)
      BY SMTT(30), <1>2, <1>3, <1>4
    <2> QED
      BY <1>5, <2>1
  <1>7. ASSUME NEW i \in 1 .. Len(a) PROVE (h \o r)[i] = a[i]
    <2>1. CASE i = 1
      BY SMTT(30), <1>4, <1>2, <1>3, <1>5, <2>1
    <2>2. CASE i # 1
      <3>1. /\ i - Len(h) \in 1 .. Len(r) /\ (i - Len(h)) + 1 = i
            /\ ~(i <= Len(h)) /\ i \in 1 .. Len(h) + Len(r)
        BY SMTT(30), <1>3, <1>4, <1>2, <1>7, <2>2
      <3> QED
        BY <1>4, <1>5, <3>1
    <2> QED
      BY <2>1, <2>2
  <1>8. h \o r = a
    BY <1>5, <1>6, <1>7, SeqEqual
  <1> QED
    BY <1>1, <1>3, <1>8 DEF h, r

-----------------------------------------------------------------------------
(* The hops                                                                *)

\* There are two servers, each the peer of the other.
LEMMA Peers ==
    ASSUME NEW n \in Nodes
    PROVE  /\ Peer(n) \in Nodes /\ Peer(n) # n /\ Peer(Peer(n)) = n
           /\ \A m \in Nodes : m = n \/ m = Peer(n)
  <1>1. IsFiniteSet(Nodes) /\ Cardinality(Nodes) = 2
    BY LinkConstants
  <1>2. IsFiniteSet(Nodes \ {n}) /\ Cardinality(Nodes \ {n}) = 1
    BY SMTT(30), <1>1, FS_RemoveElement
  <1>3. PICK m : Nodes \ {n} = {m}
    BY <1>2, FS_Singleton
  <1>4. \A k \in Nodes : k # n <=> k = m
    BY <1>3
  <1>5. Peer(n) \in Nodes /\ Peer(n) # n
    BY <1>3 DEF Peer
  <1>6. Peer(Peer(n)) \in Nodes /\ Peer(Peer(n)) # Peer(n)
    BY <1>5 DEF Peer
  <1> QED
    BY <1>4, <1>5, <1>6

\* The messages in a queue, and those of client c among them
Contents(q) == {q[i] : i \in 1 .. Len(q)}
Of(q, c) == {x \in Contents(q) : x.tx = c}

\* No two messages of a client are in the queue.
OneEach(q) == \A i, j \in 1 .. Len(q) : q[i].tx = q[j].tx => i = j

\* Putting a message of a transaction that has none in the queue
LEMMA Appended ==
    ASSUME NEW q \in Seq(Messages), NEW x \in Messages, OneEach(q), Of(q, x.tx) = {}
    PROVE  /\ OneEach(Append(q, x)) /\ Of(Append(q, x), x.tx) = {x}
           /\ \A c : c # x.tx => Of(Append(q, x), c) = Of(q, c)
  <1> DEFINE r == Append(q, x)
  <1>1. /\ Len(q) \in Nat /\ Len(r) = Len(q) + 1 /\ r[Len(q) + 1] = x
        /\ \A i \in 1 .. Len(q) : r[i] = q[i]
    BY SMTT(30), AppendProperties, LenProperties
  <1> HIDE DEF r
  <1>2. \A i \in 1 .. Len(r) : i \in 1 .. Len(q) \/ i = Len(q) + 1
    BY <1>1
  <1>3. \A i \in 1 .. Len(q) : i \in 1 .. Len(r) /\ i # Len(q) + 1
    BY <1>1
  <1>4. Len(q) + 1 \in 1 .. Len(r)
    BY <1>1
  <1>5. \A y : y \in Contents(r) <=> y \in Contents(q) \/ y = x
    BY <1>1, <1>2, <1>3, <1>4 DEF Contents
  <1>6. \A i \in 1 .. Len(q) : q[i].tx # x.tx
    BY DEF Of, Contents
  <1>7. OneEach(r)
    <2> SUFFICES ASSUME NEW i \in 1 .. Len(r), NEW j \in 1 .. Len(r), r[i].tx = r[j].tx
                 PROVE  i = j
      BY DEF OneEach
    <2> QED
      BY <1>1, <1>2, <1>6 DEF OneEach
  <1>8. Of(r, x.tx) = {x}
    BY SMTT(30), <1>5 DEF Of
  <1>9. \A c : c # x.tx => Of(r, c) = Of(q, c)
    BY <1>5 DEF Of
  <1> QED
    BY <1>7, <1>8, <1>9 DEF r

\* Taking the first message, the only one of its transaction
LEMMA Taken ==
    ASSUME NEW q \in Seq(Messages), q # <<>>, OneEach(q)
    PROVE  /\ Head(q) \in Messages /\ Tail(q) \in Seq(Messages) /\ OneEach(Tail(q))
           /\ Of(q, Head(q).tx) = {Head(q)} /\ Of(Tail(q), Head(q).tx) = {}
           /\ \A c : c # Head(q).tx => Of(Tail(q), c) = Of(q, c)
  <1> DEFINE r == Tail(q)
             x == Head(q)
  <1>1. /\ Len(q) \in Nat \ {0} /\ x \in Messages /\ x = q[1]
        /\ r \in Seq(Messages) /\ Len(r) = Len(q) - 1
        /\ \A i \in 1 .. Len(r) : r[i] = q[i + 1]
    BY SMTT(30), HeadTailProperties, EmptySeq, LenProperties
  <1> HIDE DEF r, x
  <1>2. \A i \in 1 .. Len(q) : i = 1 \/ (i - 1 \in 1 .. Len(r) /\ (i - 1) + 1 = i)
    BY <1>1
  <1>3. \A i \in 1 .. Len(r) : i + 1 \in 1 .. Len(q) /\ i + 1 # 1
    BY SMTT(30), <1>1
  <1>4. 1 \in 1 .. Len(q)
    BY <1>1
  <1>5. \A i \in 1 .. Len(r) : r[i] \in Contents(q) /\ r[i].tx # x.tx
    BY SMTT(30), <1>1, <1>3, <1>4 DEF OneEach, Contents
  <1>6. \A i \in 1 .. Len(q) : q[i] = x \/ q[i] \in Contents(r)
    <2> SUFFICES ASSUME NEW i \in 1 .. Len(q), i # 1 PROVE q[i] \in Contents(r)
      BY <1>1
    <2>1. i - 1 \in 1 .. Len(r) /\ q[i] = r[i - 1]
      BY <1>1, <1>2
    <2> QED
      BY <2>1 DEF Contents
  <1>7. x \in Contents(q)
    BY <1>1, <1>4 DEF Contents
  <1>8. OneEach(r)
    <2> SUFFICES ASSUME NEW i \in 1 .. Len(r), NEW j \in 1 .. Len(r), r[i].tx = r[j].tx
                 PROVE  i = j
      BY DEF OneEach
    <2>1. i + 1 = j + 1
      BY <1>1, <1>3 DEF OneEach
    <2> QED
      BY <2>1
  <1>9. \A y \in Contents(r) : y \in Contents(q) /\ y.tx # x.tx
    BY <1>5 DEF Contents
  <1>10. \A y \in Contents(q) : y = x \/ y \in Contents(r)
    BY <1>6 DEF Contents
  <1>11. Of(q, x.tx) = {x}
    BY <1>7, <1>9, <1>10 DEF Of
  <1>12. Of(r, x.tx) = {}
    BY <1>9 DEF Of
  <1>13. \A c : c # x.tx => Of(r, c) = Of(q, c)
    BY <1>9, <1>10 DEF Of
  <1> QED
    BY <1>1, <1>8, <1>11, <1>12, <1>13 DEF r, x

\* The four hops from one server's loop to the other's, as one queue; what a
\* step does to it is to put, to get, or nothing.
Hops(a, b, c, d) == a \o b \o c \o d
PutAtEnd(a, b, c, d, x) == Hops(a, b, c, Append(d, x)) = Append(Hops(a, b, c, d), x)
GetsFirst(a, b, c, d) ==
    /\ Hops(a, b, c, d) # <<>> /\ Head(Hops(a, b, c, d)) = Head(a)
    /\ Hops(Tail(a), b, c, d) = Tail(Hops(a, b, c, d))

\* The last hop takes a message in,
LEMMA HopsPut ==
    ASSUME NEW a \in Seq(Messages), NEW b \in Seq(Messages), NEW c \in Seq(Messages),
           NEW d \in Seq(Messages), NEW x \in Messages
    PROVE  PutAtEnd(a, b, c, d, x)
  <1>1. a \o b \o c \in Seq(Messages)
    BY ConcatProperties
  <1> QED
    BY SMTT(30), <1>1, PutLast DEF Hops, PutAtEnd

\* the first one gives it out,
LEMMA HopsGet ==
    ASSUME NEW a \in Seq(Messages), NEW b \in Seq(Messages), NEW c \in Seq(Messages),
           NEW d \in Seq(Messages), a # <<>>
    PROVE  GetsFirst(a, b, c, d)
  <1>1. a \o b \in Seq(Messages) /\ a \o b \o c \in Seq(Messages)
    BY ConcatProperties
  <1>2. a \o b # <<>> /\ Head(a \o b) = Head(a) /\ Tail(a \o b) = Tail(a) \o b
    BY TakeFirst
  <1>3. /\ a \o b \o c # <<>> /\ Head(a \o b \o c) = Head(a \o b)
        /\ Tail(a \o b \o c) = Tail(a \o b) \o c
    BY <1>1, <1>2, TakeFirst
  <1>4. /\ a \o b \o c \o d # <<>> /\ Head(a \o b \o c \o d) = Head(a \o b \o c)
        /\ Tail(a \o b \o c \o d) = Tail(a \o b \o c) \o d
    BY <1>1, <1>3, TakeFirst
  <1> QED
    BY <1>2, <1>3, <1>4 DEF Hops, GetsFirst

\* and the steps in between move a message and leave the order alone:
LEMMA HopsTake ==
    ASSUME NEW a \in Seq(Messages), NEW b \in Seq(Messages), NEW d \in Seq(Messages),
           d # <<>>
    PROVE  Hops(a, b, <<Head(d)>>, Tail(d)) = Hops(a, b, <<>>, d)
  <1>1. a \o b \in Seq(Messages)
    BY ConcatProperties
  <1>2. /\ <<Head(d)>> \in Seq(Messages) /\ Tail(d) \in Seq(Messages)
        /\ <<Head(d)>> \o Tail(d) = d
    BY HeadAndTail
  <1>3. (a \o b) \o <<>> = a \o b
    BY <1>1, ConcatEmptySeq
  <1>4. ((a \o b) \o <<Head(d)>>) \o Tail(d) = (a \o b) \o (<<Head(d)>> \o Tail(d))
    BY SMTT(30), <1>1, <1>2, ConcatAssociative
  <1> QED
    BY <1>2, <1>3, <1>4 DEF Hops

\* written to the socket,
LEMMA HopsSent ==
    ASSUME NEW a \in Seq(Messages), NEW b \in Seq(Messages), NEW c \in Seq(Messages),
           NEW d \in Seq(Messages)
    PROVE  Hops(a, b \o c, <<>>, d) = Hops(a, b, c, d)
  <1>1. b \o c \in Seq(Messages) /\ a \o (b \o c) \in Seq(Messages)
    BY ConcatProperties
  <1>2. (a \o (b \o c)) \o <<>> = a \o (b \o c)
    BY <1>1, ConcatEmptySeq
  <1>3. (a \o b) \o c = a \o (b \o c)
    BY SMTT(30), ConcatAssociative
  <1> QED
    BY <1>2, <1>3 DEF Hops

\* and read from it.
LEMMA HopsReceived ==
    ASSUME NEW a \in Seq(Messages), NEW b \in Seq(Messages), NEW c, NEW d, b # <<>>
    PROVE  Hops(Append(a, Head(b)), Tail(b), c, d) = Hops(a, b, c, d)
  <1>1. /\ <<Head(b)>> \in Seq(Messages) /\ Tail(b) \in Seq(Messages)
        /\ <<Head(b)>> \o Tail(b) = b
    BY HeadAndTail
  <1>2. Head(b) \in Messages
    BY HeadTailProperties
  <1>3. Append(a, Head(b)) = a \o <<Head(b)>>
    BY <1>2, AppendIsConcat
  <1>4. (a \o <<Head(b)>>) \o Tail(b) = a \o (<<Head(b)>> \o Tail(b))
    BY SMTT(30), <1>1, ConcatAssociative
  <1> QED
    BY <1>1, <1>3, <1>4 DEF Hops

\* What is in flight is what the four hops hold, before and after a step.
LEMMA InFlightIsHops ==
    ASSUME NEW n
    PROVE  InFlight(n) = Hops(from_members[Peer(n)], wire[n], sending[n], to_client[n])
  BY DEF InFlight, Hops

LEMMA InFlightIsHopsNext ==
    ASSUME NEW n
    PROVE  InFlight(n)' = Hops(from_members'[Peer(n)], wire'[n], sending'[n], to_client'[n])
  BY DEF InFlight, Hops

\* All four hold messages.
LEMMA HopsAreMessages ==
    ASSUME TypeOK, NEW n \in Nodes
    PROVE  /\ to_client[n] \in Seq(Messages) /\ sending[n] \in Seq(Messages)
           /\ wire[n] \in Seq(Messages) /\ from_members[n] \in Seq(Messages)
           /\ from_members[Peer(n)] \in Seq(Messages)
           /\ InFlight(n) \in Seq(Messages)
  <1>1. /\ to_client[n] \in Seq(Messages) /\ sending[n] \in Seq(Messages)
        /\ wire[n] \in Seq(Messages) /\ from_members[n] \in Seq(Messages)
        /\ from_members[Peer(n)] \in Seq(Messages)
    BY Peers DEF TypeOK
  <1>2. from_members[Peer(n)] \o wire[n] \in Seq(Messages)
    BY <1>1, ConcatProperties
  <1>3. from_members[Peer(n)] \o wire[n] \o sending[n] \in Seq(Messages)
    BY <1>1, <1>2, ConcatProperties
  <1> QED
    BY <1>1, <1>3, ConcatProperties DEF InFlight

-----------------------------------------------------------------------------
(* Types                                                                   *)

LEMMA TypesInit == Init => TypeOK
  BY SMTT(30), EmptySeq, LinkConstants DEF Init, TypeOK

\* The types, step by step
LEMMA TypesPut ==
    ASSUME TypeOK, NEW n \in Nodes, NEW c \in Clients,
           NEW kind \in {"Request", "Response", "DoCommit"}, PassMessage(n, kind, c)
    PROVE  to_client' \in [Nodes -> Seq(Messages)]
  <1>1. [kind |-> kind, tx |-> c] \in Messages
    BY DEF Messages
  <1>2. Append(to_client[n], [kind |-> kind, tx |-> c]) \in Seq(Messages)
    BY <1>1, HopsAreMessages, AppendProperties
  <1> QED
    BY <1>2 DEF TypeOK, PassMessage

LEMMA TypesServerState ==
    ASSUME TypeOK, NEW n \in Nodes, HandleServerState(n)
    PROVE  TypeOK'
  <1> DEFINE msg == Head(from_members[n])
  <1>1. msg \in Messages /\ Tail(from_members[n]) \in Seq(Messages)
    BY HopsAreMessages, HeadTailProperties DEF HandleServerState
  <1>2. msg.tx \in Clients
    BY <1>1 DEF Messages
  <1> HIDE DEF msg
  <1>3. from_members' \in [Nodes -> Seq(Messages)]
    BY <1>1 DEF TypeOK, HandleServerState
  <1>4. sending' = sending /\ wire' = wire /\ requests' = requests
    BY DEF HandleServerState
  <1>5. \/ tasks' = tasks \cup {msg.tx} /\ UNCHANGED <<to_client, client>>
        \/ HandleResponse(msg.tx) /\ UNCHANGED tasks
        \/ UNCHANGED <<to_client, tasks, client>>
    BY DEF HandleServerState, msg
  <1>6. ASSUME HandleResponse(msg.tx)
        PROVE  /\ to_client' \in [Nodes -> Seq(Messages)]
               /\ client' \in [Clients -> {"idle", "awaiting", "done"}]
    <2>1. client' \in [Clients -> {"idle", "awaiting", "done"}]
      BY <1>2, <1>6 DEF TypeOK, HandleResponse
    <2>2. UNCHANGED to_client \/ PassMessage(Home[msg.tx], "DoCommit", msg.tx)
      BY <1>6 DEF HandleResponse
    <2>3. Home[msg.tx] \in Nodes
      BY <1>2, LinkConstants
    <2>4. to_client' \in [Nodes -> Seq(Messages)]
      BY <1>2, <2>2, <2>3, TypesPut DEF TypeOK
    <2> QED
      BY <2>1, <2>4
  <1>7. /\ to_client' \in [Nodes -> Seq(Messages)] /\ tasks' \subseteq Clients
        /\ client' \in [Clients -> {"idle", "awaiting", "done"}]
    BY <1>2, <1>5, <1>6 DEF TypeOK
  <1> QED
    BY <1>3, <1>4, <1>7 DEF TypeOK

LEMMA TypesMemberLoop ==
    ASSUME TypeOK, NEW n \in Nodes, MemberLoop(n)
    PROVE  TypeOK'
  <1>1. CASE TakeNext(n)
    <2>1. Head(to_client[n]) \in Messages /\ Tail(to_client[n]) \in Seq(Messages)
      BY <1>1, HopsAreMessages, HeadTailProperties DEF TakeNext
    <2>2. <<Head(to_client[n])>> \in Seq(Messages) /\ Len(<<Head(to_client[n])>>) = 1
      BY <2>1
    <2> QED
      BY SMTT(30), <1>1, <2>1, <2>2 DEF TypeOK, TakeNext
  <1>2. CASE SendDone(n)
    <2>1. wire[n] \o sending[n] \in Seq(Messages)
          /\ Len(wire[n] \o sending[n]) = Len(wire[n]) + Len(sending[n])
      BY HopsAreMessages, ConcatProperties
    <2>2. Len(wire[n]) \in Nat /\ Len(sending[n]) \in Nat /\ Cap \in Nat
          /\ Len(wire[n]) < Cap /\ Len(sending[n]) <= 1
      BY <1>2, HopsAreMessages, LenProperties, LinkConstants DEF SendDone, TypeOK
    <2>3. Len(wire[n] \o sending[n]) <= Cap
      <3>1. \A i, j, k \in Nat : i < k /\ j <= 1 => i + j <= k
        OBVIOUS
      <3>2. Len(wire[n]) + Len(sending[n]) <= Cap
        BY <2>2, <3>1
      <3> QED
        BY <2>1, <3>2
    <2>4. <<>> \in Seq(Messages) /\ Len(<<>>) <= 1
      BY EmptySeq
    <2>5. /\ wire' = [wire EXCEPT ![n] = wire[n] \o sending[n]]
          /\ sending' = [sending EXCEPT ![n] = <<>>]
          /\ UNCHANGED <<to_client, from_members, tasks, client, requests>>
      BY <1>2 DEF SendDone
    <2>6. sending' \in [Nodes -> Seq(Messages)] /\ wire' \in [Nodes -> Seq(Messages)]
      BY <2>1, <2>4, <2>5 DEF TypeOK
    <2>7. \A m \in Nodes : Len(sending'[m]) <= 1 /\ Len(wire'[m]) <= Cap
      <3> SUFFICES ASSUME NEW m \in Nodes PROVE Len(sending'[m]) <= 1 /\ Len(wire'[m]) <= Cap
        OBVIOUS
      <3>1. CASE m = n
        BY <2>3, <2>4, <2>5, <3>1 DEF TypeOK
      <3>2. CASE m # n
        BY <2>5, <3>2 DEF TypeOK
      <3> QED
        BY <3>1, <3>2
    <2> QED
      BY <2>5, <2>6, <2>7 DEF TypeOK
  <1>3. CASE Recv(n)
    <2> DEFINE m == Peer(n)
    <2>1. m \in Nodes
      BY Peers
    <2> HIDE DEF m
    <2>2. /\ wire[m] # <<>> /\ wire' = [wire EXCEPT ![m] = Tail(@)]
          /\ from_members' = [from_members EXCEPT ![n] = Append(@, Head(wire[m]))]
          /\ UNCHANGED <<to_client, sending, tasks, client, requests>>
      BY <1>3 DEF Recv, Received, m
    <2>3. /\ Head(wire[m]) \in Messages /\ Tail(wire[m]) \in Seq(Messages)
          /\ Len(Tail(wire[m])) = Len(wire[m]) - 1
      BY <2>1, <2>2, HopsAreMessages, HeadTailProperties
    <2>4. Len(wire[m]) \in Nat /\ Len(wire[m]) <= Cap /\ Cap \in Nat
      BY <2>1, HopsAreMessages, LenProperties, LinkConstants DEF TypeOK
    <2>5. Len(Tail(wire[m])) <= Cap
      BY <2>3, <2>4
    <2>6. Append(from_members[n], Head(wire[m])) \in Seq(Messages)
      BY <2>3, HopsAreMessages, AppendProperties
    <2> QED
      BY <2>1, <2>2, <2>3, <2>5, <2>6 DEF TypeOK
  <1> QED
    BY <1>1, <1>2, <1>3 DEF MemberLoop

LEMMA TypesNext ==
    ASSUME TypeOK, [Next]_vars
    PROVE  TypeOK'
  <1>1. ASSUME NEW c \in Clients, Ask(c) PROVE TypeOK'
    <2>1. to_client' \in [Nodes -> Seq(Messages)]
      BY <1>1, TypesPut, LinkConstants DEF Ask
    <2>2. requests' \in 0 .. MaxRequests
      BY SMTT(30), <1>1, LinkConstants DEF Ask, TypeOK
    <2> QED
      BY <1>1, <2>1, <2>2 DEF Ask, TypeOK
  <1>2. ASSUME NEW c \in Clients, Answer(c) PROVE TypeOK'
    <2>1. to_client' \in [Nodes -> Seq(Messages)]
      BY <1>2, TypesPut, LinkConstants, Peers DEF Answer
    <2> QED
      BY <1>2, <2>1 DEF Answer, TypeOK
  <1>3. CASE UNCHANGED vars
    BY <1>3 DEF vars, TypeOK
  <1> QED
    BY <1>1, <1>2, <1>3, TypesServerState, TypesMemberLoop DEF Next, ServerStep

\* The buffers never hold more than fits, and a member loop sends one message
\* at a time.
THEOREM LinkTypeCorrect == Spec => []TypeOK
  BY TypesInit, TypesNext, PTL DEF Spec

-----------------------------------------------------------------------------
(* What a step does to the messages on their way                           *)

Kept(n) == InFlight(n)' = InFlight(n)
Puts(n, x) == InFlight(n)' = Append(InFlight(n), x)
Gets(n) == InFlight(n) # <<>> /\ InFlight(n)' = Tail(InFlight(n))

\* pass_message puts a message at the end of what is in flight.
LEMMA PassPuts ==
    ASSUME TypeOK, NEW n \in Nodes, NEW c \in Clients,
           NEW kind \in {"Request", "Response", "DoCommit"}, PassMessage(n, kind, c),
           UNCHANGED <<sending, wire>>, from_members'[Peer(n)] = from_members[Peer(n)]
    PROVE  Puts(n, [kind |-> kind, tx |-> c])
  <1> DEFINE x == [kind |-> kind, tx |-> c]
  <1>1. x \in Messages
    BY DEF Messages
  <1>2. to_client'[n] = Append(to_client[n], x)
    BY DEF PassMessage, TypeOK
  <1> HIDE DEF x
  <1>3. InFlight(n)' = Hops(from_members[Peer(n)], wire[n], sending[n], Append(to_client[n], x))
    BY <1>2, InFlightIsHopsNext
  <1>4. Puts(n, x)
    <2>1. /\ from_members[Peer(n)] \in Seq(Messages) /\ wire[n] \in Seq(Messages)
          /\ sending[n] \in Seq(Messages) /\ to_client[n] \in Seq(Messages)
      BY HopsAreMessages
    <2>2. PutAtEnd(from_members[Peer(n)], wire[n], sending[n], to_client[n], x)
      BY <1>1, <2>1, HopsPut
    <2> QED
      BY <1>3, <2>2, InFlightIsHops DEF Puts, PutAtEnd
  <1> QED
    BY <1>4 DEF x

\* The peer's loop takes the first of it.
LEMMA HandleGets ==
    ASSUME TypeOK, NEW n \in Nodes, HandleServerState(n), to_client'[Peer(n)] = to_client[Peer(n)]
    PROVE  Gets(Peer(n))
  <1> DEFINE m == Peer(n)
  <1>1. m \in Nodes /\ Peer(m) = n
    BY Peers
  <1> HIDE DEF m
  <1>2. /\ from_members[n] # <<>> /\ from_members'[n] = Tail(from_members[n])
        /\ sending' = sending /\ wire' = wire /\ to_client'[m] = to_client[m]
    BY DEF HandleServerState, TypeOK, m
  <1>3. InFlight(m)' = Hops(Tail(from_members[n]), wire[m], sending[m], to_client[m])
    BY <1>1, <1>2, InFlightIsHopsNext
  <1>4. InFlight(m) = Hops(from_members[n], wire[m], sending[m], to_client[m])
    BY <1>1, InFlightIsHops
  <1>5. Gets(m)
    <2>1. /\ from_members[n] \in Seq(Messages) /\ wire[m] \in Seq(Messages)
          /\ sending[m] \in Seq(Messages) /\ to_client[m] \in Seq(Messages)
      BY <1>1, HopsAreMessages
    <2>2. GetsFirst(from_members[n], wire[m], sending[m], to_client[m])
      BY <1>2, <2>1, HopsGet
    <2> QED
      BY <1>3, <1>4, <2>2 DEF Gets, GetsFirst
  <1> QED
    BY <1>5 DEF m

\* The first message on its way to n is the one its loop handles.
LEMMA HandlesFirst ==
    ASSUME TypeOK, NEW n \in Nodes, from_members[n] # <<>>
    PROVE  InFlight(Peer(n)) # <<>> /\ Head(InFlight(Peer(n))) = Head(from_members[n])
  <1> DEFINE m == Peer(n)
  <1>1. m \in Nodes /\ Peer(m) = n
    BY Peers
  <1> HIDE DEF m
  <1>2. InFlight(m) = Hops(from_members[n], wire[m], sending[m], to_client[m])
    BY <1>1, InFlightIsHops
  <1>3. InFlight(m) # <<>> /\ Head(InFlight(m)) = Head(from_members[n])
    <2>1. /\ from_members[n] \in Seq(Messages) /\ wire[m] \in Seq(Messages)
          /\ sending[m] \in Seq(Messages) /\ to_client[m] \in Seq(Messages)
      BY <1>1, HopsAreMessages
    <2>2. GetsFirst(from_members[n], wire[m], sending[m], to_client[m])
      BY <2>1, HopsGet
    <2> QED
      BY <1>2, <2>2 DEF GetsFirst
  <1> QED
    BY <1>3 DEF m

\* The member loops neither lose, nor repeat, nor overtake anything.
LEMMA LoopKeeps ==
    ASSUME TypeOK, NEW n \in Nodes, MemberLoop(n), NEW k \in Nodes
    PROVE  Kept(k)
  <1> DEFINE m == Peer(n)
  <1>1. m \in Nodes /\ Peer(m) = n /\ m # n /\ (k = n \/ k = m)
    BY Peers
  <1>2. Peer(n) = m
    OBVIOUS
  <1> HIDE DEF m
  <1>3. CASE TakeNext(n)
    <2>1. /\ sending[n] = <<>> /\ sending'[n] = <<Head(to_client[n])>>
          /\ to_client[n] # <<>> /\ to_client'[n] = Tail(to_client[n])
          /\ sending'[m] = sending[m] /\ to_client'[m] = to_client[m]
          /\ wire' = wire /\ from_members' = from_members
      BY <1>1, <1>3 DEF TakeNext, Selecting, TypeOK
    <2>2. InFlight(n)' = Hops(from_members[m], wire[n], <<Head(to_client[n])>>, Tail(to_client[n]))
      BY <1>2, <2>1, InFlightIsHopsNext
    <2>3. InFlight(n) = Hops(from_members[m], wire[n], <<>>, to_client[n])
      BY <1>2, <2>1, InFlightIsHops
    <2>4. /\ from_members[m] \in Seq(Messages) /\ wire[n] \in Seq(Messages)
          /\ sending[n] \in Seq(Messages) /\ to_client[n] \in Seq(Messages)
      BY <1>1, HopsAreMessages
    <2>5. Hops(from_members[m], wire[n], <<Head(to_client[n])>>, Tail(to_client[n]))
          = Hops(from_members[m], wire[n], <<>>, to_client[n])
      BY <2>1, <2>4, HopsTake
    <2>6. Kept(m)
      BY <2>1 DEF InFlight, Kept
    <2> QED
      BY <1>1, <2>2, <2>3, <2>5, <2>6 DEF Kept
  <1>4. CASE SendDone(n)
    <2>1. /\ wire'[n] = wire[n] \o sending[n] /\ sending'[n] = <<>>
          /\ wire'[m] = wire[m] /\ sending'[m] = sending[m]
          /\ to_client' = to_client /\ from_members' = from_members
      BY <1>1, <1>4 DEF SendDone, TypeOK
    <2>2. InFlight(n)' = Hops(from_members[m], wire[n] \o sending[n], <<>>, to_client[n])
      BY <1>2, <2>1, InFlightIsHopsNext
    <2>3. InFlight(n) = Hops(from_members[m], wire[n], sending[n], to_client[n])
      BY <1>2, InFlightIsHops
    <2>4. /\ from_members[m] \in Seq(Messages) /\ wire[n] \in Seq(Messages)
          /\ sending[n] \in Seq(Messages) /\ to_client[n] \in Seq(Messages)
      BY <1>1, HopsAreMessages
    <2>5. Hops(from_members[m], wire[n] \o sending[n], <<>>, to_client[n])
          = Hops(from_members[m], wire[n], sending[n], to_client[n])
      BY SMTT(30), <2>4, HopsSent
    <2>6. Kept(m)
      BY <2>1 DEF InFlight, Kept
    <2> QED
      BY <1>1, <2>2, <2>3, <2>5, <2>6 DEF Kept
  <1>5. CASE Recv(n)
    <2>1. /\ wire[m] # <<>> /\ wire'[m] = Tail(wire[m])
          /\ from_members'[n] = Append(from_members[n], Head(wire[m]))
          /\ wire'[n] = wire[n] /\ from_members'[m] = from_members[m]
          /\ to_client' = to_client /\ sending' = sending
      BY <1>1, <1>2, <1>5 DEF Recv, Received, TypeOK
    <2>2. Hops(Append(from_members[n], Head(wire[m])), Tail(wire[m]), sending[m], to_client[m])
          = Hops(from_members[n], wire[m], sending[m], to_client[m])
      <3>1. from_members[n] \in Seq(Messages) /\ wire[m] \in Seq(Messages)
        BY <1>1, HopsAreMessages
      <3> QED
        BY SMTT(30), <2>1, <3>1, HopsReceived
    <2>3. Kept(m)
      BY <1>1, <2>1, <2>2, InFlightIsHops, InFlightIsHopsNext DEF Kept
    <2>4. Kept(n)
      BY <1>2, <2>1 DEF InFlight, Kept
    <2> QED
      BY <1>1, <2>3, <2>4
  <1> QED
    BY <1>3, <1>4, <1>5 DEF MemberLoop

-----------------------------------------------------------------------------
(* The handlers stop and wait                                              *)

Msg(kind, c) == [kind |-> kind, tx |-> c]

\* The messages of client c on their way to the other server, and back
Out(c) == Of(InFlight(Home[c]), c)
Back(c) == Of(InFlight(Peer(Home[c])), c)

\* Where the business of client c is: in a message out, in a task of the other
\* server, in a message back, or with its handler.
Flow(c) ==
    /\ Out(c) \subseteq {Msg("Request", c), Msg("DoCommit", c)}
    /\ Back(c) \subseteq {Msg("Response", c)}
    /\ Out(c) # {} => Back(c) = {} /\ c \notin tasks
    /\ Back(c) # {} => c \notin tasks
    /\ Msg("Request", c) \in Out(c) \/ Back(c) # {} \/ c \in tasks => client[c] = "awaiting"
    /\ Msg("DoCommit", c) \in Out(c) => client[c] = "done"

LinkInv ==
    /\ TypeOK
    /\ \A n \in Nodes : OneEach(InFlight(n))
    /\ \A c \in Clients : Flow(c)

\* A message and its fields
LEMMA MsgFacts ==
    ASSUME NEW c \in Clients, NEW kind \in {"Request", "Response", "DoCommit"}
    PROVE  Msg(kind, c) \in Messages /\ Msg(kind, c).tx = c /\ Msg(kind, c).kind = kind
  BY DEF Msg, Messages

\* are the same thing.
LEMMA MessageIsMsg ==
    ASSUME NEW x \in Messages
    PROVE  /\ x.tx \in Clients /\ x.kind \in {"Request", "Response", "DoCommit"}
           /\ x = Msg(x.kind, x.tx)
  BY DEF Msg, Messages

\* A client has a server, and that server has one peer.
LEMMA Homes ==
    ASSUME NEW c \in Clients
    PROVE  /\ Home[c] \in Nodes /\ Peer(Home[c]) \in Nodes /\ Peer(Home[c]) # Home[c]
           /\ Peer(Peer(Home[c])) = Home[c]
           /\ \A n \in Nodes : n = Home[c] \/ n = Peer(Home[c])
  <1>1. Home[c] \in Nodes
    BY LinkConstants
  <1> QED
    BY <1>1, Peers

\* A message put into, or taken from, one of the two directions
OnlyPut(n, x) ==
    /\ OneEach(InFlight(n)')
    /\ Of(InFlight(n)', x.tx) = {x}
    /\ \A c : c # x.tx => Of(InFlight(n)', c) = Of(InFlight(n), c)

OnlyTaken(n, x) ==
    /\ OneEach(InFlight(n)')
    /\ Of(InFlight(n), x.tx) = {x} /\ Of(InFlight(n)', x.tx) = {}
    /\ \A c : c # x.tx => Of(InFlight(n)', c) = Of(InFlight(n), c)

\* A message put disturbs one transaction in one direction,
LEMMA PutOne ==
    ASSUME LinkInv, NEW n \in Nodes, NEW x \in Messages, Of(InFlight(n), x.tx) = {}, Puts(n, x)
    PROVE  OnlyPut(n, x)
  <1>1. InFlight(n) \in Seq(Messages) /\ OneEach(InFlight(n))
    BY HopsAreMessages DEF LinkInv
  <1>2. InFlight(n)' = Append(InFlight(n), x)
    BY DEF Puts
  <1> DEFINE q == InFlight(n)
  <1>3. q \in Seq(Messages) /\ OneEach(q) /\ Of(q, x.tx) = {} /\ InFlight(n)' = Append(q, x)
    BY <1>1, <1>2
  <1>4. OnlyPut(n, x) <=>
           /\ OneEach(InFlight(n)') /\ Of(InFlight(n)', x.tx) = {x}
           /\ \A c : c # x.tx => Of(InFlight(n)', c) = Of(q, c)
    BY DEF OnlyPut
  <1> HIDE DEF q
  <1>5. /\ OneEach(Append(q, x)) /\ Of(Append(q, x), x.tx) = {x}
        /\ \A c : c # x.tx => Of(Append(q, x), c) = Of(q, c)
    BY <1>3, Appended
  <1> QED
    BY <1>3, <1>4, <1>5

\* and so does a message taken.
LEMMA TakeOne ==
    ASSUME LinkInv, NEW n \in Nodes, Gets(n)
    PROVE  Head(InFlight(n)) \in Messages /\ OnlyTaken(n, Head(InFlight(n)))
  <1> DEFINE q == InFlight(n)
  <1>1. q \in Seq(Messages) /\ OneEach(q) /\ q # <<>> /\ InFlight(n)' = Tail(q)
    BY HopsAreMessages DEF LinkInv, Gets
  <1>2. OnlyTaken(n, Head(q)) <=>
           /\ OneEach(InFlight(n)')
           /\ Of(q, Head(q).tx) = {Head(q)} /\ Of(InFlight(n)', Head(q).tx) = {}
           /\ \A c : c # Head(q).tx => Of(InFlight(n)', c) = Of(q, c)
    BY DEF OnlyTaken
  <1> HIDE DEF q
  <1>3. Head(q) \in Messages /\ OnlyTaken(n, Head(q))
    BY <1>1, <1>2, Taken
  <1> QED
    BY <1>3 DEF q

\* Client c is left alone.
Same(c) == Out(c)' = Out(c) /\ Back(c)' = Back(c) /\ client'[c] = client[c]
           /\ (c \in tasks' <=> c \in tasks)

\* The others stay as they were.
LEMMA SameFlow ==
    ASSUME NEW c, Flow(c), Same(c)
    PROVE  Flow(c)'
  BY DEF Flow, Same

LEMMA LinkInit == Init => LinkInv
  <1> SUFFICES ASSUME Init PROVE LinkInv
    OBVIOUS
  <1>1. TypeOK
    BY TypesInit
  <1>2. ASSUME NEW n \in Nodes PROVE InFlight(n) = <<>>
    <2>1. InFlight(n) = <<>> \o <<>> \o <<>> \o <<>>
      BY Peers DEF Init, InFlight
    <2> QED
      BY <2>1, ConcatEmptySeq, EmptySeq
  <1>3. \A n \in Nodes : OneEach(InFlight(n)) /\ \A c : Of(InFlight(n), c) = {}
    <2>1. 1 .. Len(<<>>) = {}
      OBVIOUS
    <2>2. OneEach(<<>>) /\ \A c : Of(<<>>, c) = {}
      BY <2>1 DEF OneEach, Of, Contents
    <2> QED
      BY <1>2, <2>2
  <1>4. ASSUME NEW c \in Clients PROVE Flow(c)
    <2>1. Out(c) = {} /\ Back(c) = {} /\ tasks = {}
      BY <1>3, Homes DEF Out, Back, Init
    <2> QED
      BY <2>1 DEF Flow
  <1> QED
    BY <1>1, <1>3, <1>4 DEF LinkInv

\* Nothing happens to client d when one message of another is put, or taken.
LEMMA OthersSame ==
    ASSUME NEW d \in Clients, client'[d] = client[d], d \in tasks' <=> d \in tasks,
           \A k \in Nodes : Of(InFlight(k)', d) = Of(InFlight(k), d)
    PROVE  Same(d)
  BY Homes DEF Same, Out, Back

\* What a request puts in flight
LEMMA AskMoves ==
    ASSUME LinkInv, NEW c \in Clients, Ask(c)
    PROVE  Puts(Home[c], Msg("Request", c)) /\ Kept(Peer(Home[c]))
  <1>1. Puts(Home[c], Msg("Request", c))
    BY Homes, PassPuts DEF Ask, LinkInv, Msg
  <1>2. to_client'[Peer(Home[c])] = to_client[Peer(Home[c])]
    BY Homes DEF Ask, PassMessage, LinkInv, TypeOK
  <1>3. Kept(Peer(Home[c]))
    BY <1>2 DEF Ask, Kept, InFlight
  <1> QED
    BY <1>1, <1>3

\* What an answer puts in flight
LEMMA AnswerMoves ==
    ASSUME LinkInv, NEW c \in Clients, Answer(c)
    PROVE  Puts(Peer(Home[c]), Msg("Response", c)) /\ Kept(Home[c])
  <1>1. Puts(Peer(Home[c]), Msg("Response", c))
    BY Homes, PassPuts DEF Answer, LinkInv, Msg
  <1>2. to_client'[Home[c]] = to_client[Home[c]]
    BY Homes DEF Answer, PassMessage, LinkInv, TypeOK
  <1>3. Kept(Home[c])
    BY <1>2 DEF Answer, Kept, InFlight
  <1> QED
    BY <1>1, <1>3

\* A handler asks.
LEMMA AskStep ==
    ASSUME LinkInv, NEW c \in Clients, Ask(c)
    PROVE  LinkInv'
  <1> DEFINE h == Home[c]
             x == Msg("Request", c)
  <1>1. h \in Nodes /\ Peer(h) \in Nodes /\ Peer(h) # h /\ \A n \in Nodes : n = h \/ n = Peer(h)
    BY Homes
  <1>2. x \in Messages /\ x.tx = c
    BY MsgFacts
  <1>3. Out(c) = {} /\ Back(c) = {} /\ c \notin tasks
    BY DEF Ask, MayAsk, LinkInv, Flow
  <1>4. Of(InFlight(h), x.tx) = {}
    BY <1>2, <1>3 DEF Out
  <1> HIDE DEF h, x
  <1>5. /\ tasks' = tasks /\ client'[c] = "awaiting"
        /\ \A d \in Clients : d # c => client'[d] = client[d]
    BY DEF Ask, LinkInv, TypeOK
  <1>6. Puts(h, x)
    BY AskMoves DEF h, x
  <1>7. Kept(Peer(h))
    BY AskMoves DEF h
  <1>8. OnlyPut(h, x)
    BY <1>1, <1>2, <1>4, <1>6, PutOne
  <1>9. TypeOK'
    BY TypesNext DEF LinkInv, Next
  <1>10. \A n \in Nodes : OneEach(InFlight(n))'
    BY <1>1, <1>7, <1>8 DEF LinkInv, Kept, OnlyPut
  <1>11. Flow(c)'
    <2>1. Out(c)' = {x} /\ Back(c)' = {}
      BY <1>2, <1>3, <1>7, <1>8 DEF Out, Back, h, Kept, OnlyPut
    <2>2. x # Msg("DoCommit", c)
      BY MsgFacts DEF x
    <2> QED
      BY <1>3, <1>5, <2>1, <2>2 DEF Flow, x
  <1>12. ASSUME NEW d \in Clients, d # c PROVE Flow(d)'
    <2>1. \A k \in Nodes : Of(InFlight(k)', d) = Of(InFlight(k), d)
      BY <1>1, <1>2, <1>7, <1>8, <1>12 DEF Kept, OnlyPut
    <2> QED
      BY <1>5, <1>12, <2>1, OthersSame, SameFlow DEF LinkInv
  <1> QED
    BY <1>9, <1>10, <1>11, <1>12 DEF LinkInv

\* A task of the peer answers.
LEMMA AnswerStep ==
    ASSUME LinkInv, NEW c \in Clients, Answer(c)
    PROVE  LinkInv'
  <1> DEFINE h == Home[c]
             p == Peer(h)
             x == Msg("Response", c)
  <1>1. h \in Nodes /\ p \in Nodes /\ p # h /\ Peer(p) = h /\ \A n \in Nodes : n = h \/ n = p
    BY Homes
  <1>2. x \in Messages /\ x.tx = c
    BY MsgFacts
  <1>3. Out(c) = {} /\ Back(c) = {} /\ client[c] = "awaiting"
    BY DEF Answer, LinkInv, Flow
  <1>4. Of(InFlight(p), x.tx) = {}
    BY <1>2, <1>3 DEF Back
  <1> HIDE DEF h, p, x
  <1>5. client' = client /\ tasks' = tasks \ {c}
    BY DEF Answer
  <1>6. Puts(p, x)
    BY AnswerMoves DEF h, p, x
  <1>7. Kept(h)
    BY AnswerMoves DEF h
  <1>8. OnlyPut(p, x)
    BY <1>1, <1>2, <1>4, <1>6, PutOne
  <1>9. TypeOK'
    BY TypesNext DEF LinkInv, Next, ServerStep
  <1>10. \A n \in Nodes : OneEach(InFlight(n))'
    BY <1>1, <1>7, <1>8 DEF LinkInv, Kept, OnlyPut
  <1>11. Flow(c)'
    <2>1. Out(c)' = {} /\ Back(c)' = {x}
      BY <1>2, <1>3, <1>7, <1>8 DEF Out, Back, h, p, Kept, OnlyPut
    <2> QED
      BY <1>3, <1>5, <2>1 DEF Flow, x
  <1>12. ASSUME NEW d \in Clients, d # c PROVE Flow(d)'
    <2>1. \A k \in Nodes : Of(InFlight(k)', d) = Of(InFlight(k), d)
      BY <1>1, <1>2, <1>7, <1>8, <1>12 DEF Kept, OnlyPut
    <2>2. d \in tasks' <=> d \in tasks
      BY <1>5, <1>12
    <2> QED
      BY <1>5, <1>12, <2>1, <2>2, OthersSame, SameFlow DEF LinkInv
  <1> QED
    BY <1>9, <1>10, <1>11, <1>12 DEF LinkInv

\* The message that server n handles is the only one of its client, and its
\* kind says on which of the two ways it came.
LEMMA HandledMessage ==
    ASSUME LinkInv, NEW n \in Nodes, from_members[n] # <<>>, NEW x, x = Head(from_members[n])
    PROVE  /\ x \in Messages /\ x.tx \in Clients
           /\ Of(InFlight(Peer(n)), x.tx) = {x}
           /\ x.kind = "Response" => n = Home[x.tx] /\ Back(x.tx) = {x} /\ Out(x.tx) = {}
           /\ x.kind # "Response" => Peer(n) = Home[x.tx] /\ Out(x.tx) = {x} /\ Back(x.tx) = {}
  <1> DEFINE q == InFlight(Peer(n))
  <1>1. q # <<>> /\ Head(q) = x
    BY HandlesFirst DEF LinkInv
  <1>2. q \in Seq(Messages) /\ OneEach(q)
    BY Peers, HopsAreMessages DEF LinkInv
  <1> HIDE DEF q
  <1>3. x \in Messages /\ Of(q, x.tx) = {x}
    BY <1>1, <1>2, Taken
  <1>4. x.tx \in Clients /\ x.kind \in {"Request", "Response", "DoCommit"}
    BY <1>3, MessageIsMsg
  <1> DEFINE c == x.tx
  <1>5. c \in Clients /\ Flow(c)
    BY <1>4 DEF LinkInv
  <1>6. Peer(n) \in Nodes /\ Peer(Peer(n)) = n
    BY Peers
  <1>7. Peer(n) = Home[c] \/ Peer(n) = Peer(Home[c])
    BY <1>5, <1>6, Homes
  <1>8. CASE Peer(n) = Home[c]
    <2>1. Out(c) = {x}
      BY <1>3, <1>8 DEF Out, q
    <2>2. x = Msg("Request", c) \/ x = Msg("DoCommit", c)
      BY <1>5, <2>1 DEF Flow
    <2>3. x.kind # "Response"
      BY <1>5, <2>2, MsgFacts
    <2>4. Back(c) = {}
      BY <1>5, <2>1 DEF Flow
    <2> QED
      BY <1>3, <1>4, <1>8, <2>1, <2>3, <2>4 DEF q
  <1>9. CASE Peer(n) = Peer(Home[c])
    <2>1. Back(c) = {x}
      BY <1>3, <1>9 DEF Back, q
    <2>2. x = Msg("Response", c)
      BY <1>5, <2>1 DEF Flow
    <2>3. x.kind = "Response"
      BY SMTT(30), <1>5, <2>2, MsgFacts
    <2>4. Out(c) = {}
      BY <1>5, <2>1 DEF Flow
    <2>5. n = Home[c]
      BY <1>5, <1>6, <1>9, Homes
    <2> QED
      BY <1>3, <1>4, <2>1, <2>3, <2>4, <2>5 DEF q
  <1> QED
    BY <1>7, <1>8, <1>9

\* What the handling of a message leaves in the two directions
LEMMA HandleMoves ==
    ASSUME LinkInv, NEW n \in Nodes, HandleServerState(n), NEW x, x = Head(from_members[n])
    PROVE  /\ Gets(Peer(n)) /\ OnlyTaken(Peer(n), x)
           /\ \/ Kept(n)
              \/ /\ x.kind = "Response" /\ client'[x.tx] = "done"
                 /\ Puts(n, Msg("DoCommit", x.tx))
  <1> DEFINE m == Peer(n)
  <1>1. m \in Nodes /\ m # n /\ Peer(m) = n
    BY Peers
  <1>2. Peer(n) = m
    OBVIOUS
  <1>3. from_members[n] # <<>> /\ sending' = sending /\ wire' = wire
    BY DEF HandleServerState
  <1>4. x \in Messages /\ x.tx \in Clients /\ (x.kind = "Response" => n = Home[x.tx])
    BY <1>3, HandledMessage
  <1> HIDE DEF m
  <1>5. from_members'[m] = from_members[m]
    BY <1>1 DEF HandleServerState, LinkInv, TypeOK
  <1>6. \/ to_client' = to_client
        \/ /\ x.kind = "Response" /\ client' = [client EXCEPT ![x.tx] = "done"]
           /\ PassMessage(Home[x.tx], "DoCommit", x.tx)
    BY DEF HandleServerState, HandleResponse
  <1>7. to_client'[m] = to_client[m]
    BY <1>1, <1>4, <1>6 DEF PassMessage, LinkInv, TypeOK
  <1>8. Gets(m)
    BY <1>2, <1>7, HandleGets DEF LinkInv
  <1>9. OnlyTaken(m, x)
    BY <1>1, <1>2, <1>3, <1>8, TakeOne, HandlesFirst DEF LinkInv
  <1>10. CASE to_client' = to_client
    <2>1. Kept(n)
      BY <1>2, <1>3, <1>5, <1>10 DEF Kept, InFlight
    <2> QED
      BY <1>2, <1>8, <1>9, <2>1
  <1>11. CASE /\ x.kind = "Response" /\ client' = [client EXCEPT ![x.tx] = "done"]
              /\ PassMessage(Home[x.tx], "DoCommit", x.tx)
    <2>1. PassMessage(n, "DoCommit", x.tx)
      BY <1>4, <1>11
    <2>2. Puts(n, [kind |-> "DoCommit", tx |-> x.tx])
      BY <1>2, <1>3, <1>4, <1>5, <2>1, PassPuts DEF LinkInv
    <2>3. client'[x.tx] = "done"
      BY <1>4, <1>11 DEF LinkInv, TypeOK
    <2> QED
      BY <1>2, <1>8, <1>9, <1>11, <2>2, <2>3 DEF Msg
  <1> QED
    BY <1>6, <1>10, <1>11

\* The loop takes a message.
LEMMA HandleStep ==
    ASSUME LinkInv, NEW n \in Nodes, HandleServerState(n)
    PROVE  LinkInv'
  <1>0. PICK x : x = Head(from_members[n])
    OBVIOUS
  <1> DEFINE m == Peer(n)
             c == x.tx
             y == Msg("DoCommit", c)
  <1>1. m \in Nodes /\ m # n /\ Peer(m) = n /\ \A k \in Nodes : k = n \/ k = m
    BY Peers
  <1>2. from_members[n] # <<>>
    BY DEF HandleServerState
  <1>3. /\ x \in Messages /\ c \in Clients
        /\ x.kind = "Response" => n = Home[c] /\ Back(c) = {x} /\ Out(c) = {}
        /\ x.kind # "Response" => m = Home[c] /\ Out(c) = {x} /\ Back(c) = {}
    BY <1>0, <1>2, HandledMessage
  <1>4. /\ OnlyTaken(m, x)
        /\ \/ Kept(n)
           \/ x.kind = "Response" /\ client'[c] = "done" /\ Puts(n, y)
    BY <1>0, HandleMoves
  <1>5. \/ /\ x.kind = "Request" /\ tasks' = tasks \cup {c} /\ client' = client
        \/ /\ x.kind = "Response" /\ tasks' = tasks
           /\ \/ client' = [client EXCEPT ![c] = "idle"]
              \/ client' = [client EXCEPT ![c] = "done"]
        \/ x.kind = "DoCommit" /\ tasks' = tasks /\ client' = client
    BY <1>0 DEF HandleServerState, HandleResponse
  <1>6. y \in Messages /\ y.tx = c /\ Home[c] \in Nodes /\ x = Msg(x.kind, c)
    BY <1>3, MsgFacts, Homes, MessageIsMsg
  <1>7. Flow(c)
    BY <1>3 DEF LinkInv
  <1> HIDE DEF m, c, y
  <1>8. Kept(n) \/ (x.kind = "Response" /\ client'[c] = "done" /\ OnlyPut(n, y))
    <2>1. ASSUME x.kind = "Response", Puts(n, y) PROVE OnlyPut(n, y)
      <3>1. Of(InFlight(n), y.tx) = {}
        BY <1>3, <1>6, <2>1 DEF Out
      <3> QED
        BY <1>6, <2>1, <3>1, PutOne
    <2> QED
      BY <1>4, <2>1
  <1>9. TypeOK'
    BY TypesNext DEF LinkInv, Next, ServerStep
  <1>10. \A k \in Nodes : OneEach(InFlight(k))'
    BY <1>1, <1>4, <1>8 DEF LinkInv, Kept, OnlyPut, OnlyTaken
  <1>11. ASSUME NEW d \in Clients, d # c PROVE Flow(d)'
    <2>1. \A k \in Nodes : Of(InFlight(k)', d) = Of(InFlight(k), d)
      BY <1>1, <1>4, <1>6, <1>8, <1>11 DEF Kept, OnlyPut, OnlyTaken, c
    <2>2. client'[d] = client[d]
      BY <1>3, <1>5, <1>11 DEF LinkInv, TypeOK
    <2>3. d \in tasks' <=> d \in tasks
      BY <1>5, <1>11
    <2> QED
      BY <1>11, <2>1, <2>2, <2>3, OthersSame, SameFlow DEF LinkInv
  <1>12. Flow(c)'
    <2>1. CASE x.kind # "Response"
      <3>1. Kept(n) /\ m = Home[c] /\ Peer(m) = n /\ Out(c) = {x} /\ Back(c) = {}
        BY <1>1, <1>3, <1>8, <2>1
      <3>2. Out(c)' = {} /\ Back(c)' = {}
        BY <1>4, <3>1 DEF Out, Back, OnlyTaken, Kept, c
      <3>3. c \in tasks' => client'[c] = "awaiting"
        <4>1. c \notin tasks
          BY <1>7, <3>1 DEF Flow
        <4>2. CASE x.kind = "Request"
          BY <1>5, <1>6, <1>7, <3>1, <4>2 DEF Flow
        <4>3. CASE x.kind # "Request"
          BY <1>5, <2>1, <4>1, <4>3
        <4> QED
          BY <4>2, <4>3
      <3> QED
        BY <3>2, <3>3 DEF Flow
    <2>2. CASE x.kind = "Response"
      <3>1. n = Home[c] /\ Peer(Home[c]) = m /\ Back(c) = {x} /\ Out(c) = {} /\ tasks' = tasks
        BY <1>3, <1>5, <2>2 DEF m
      <3>2. Back(c)' = {} /\ c \notin tasks'
        BY <1>4, <1>7, <3>1 DEF Back, OnlyTaken, Flow, c
      <3>3. Out(c)' = {} \/ (Out(c)' = {y} /\ client'[c] = "done")
        BY <1>6, <1>8, <3>1 DEF Out, Kept, OnlyPut
      <3>4. y # Msg("Request", c)
        BY <1>3, MsgFacts DEF y
      <3> QED
        BY <3>2, <3>3, <3>4 DEF Flow, y
    <2> QED
      BY <2>1, <2>2
  <1> QED
    BY <1>9, <1>10, <1>11, <1>12 DEF LinkInv

\* A member loop moves one on.
LEMMA LoopStep ==
    ASSUME LinkInv, NEW n \in Nodes, MemberLoop(n)
    PROVE  LinkInv'
  <1>1. TypeOK'
    BY TypesMemberLoop DEF LinkInv
  <1>2. \A k \in Nodes : Kept(k)
    BY LoopKeeps DEF LinkInv
  <1>3. \A k \in Nodes : OneEach(InFlight(k))'
    BY <1>2 DEF LinkInv, Kept
  <1>4. tasks' = tasks /\ client' = client
    BY DEF MemberLoop, TakeNext, SendDone, Recv, Received
  <1>5. \A c \in Clients : Flow(c)'
    BY <1>2, <1>4, OthersSame, SameFlow DEF LinkInv, Kept
  <1> QED
    BY <1>1, <1>3, <1>5 DEF LinkInv

\* Every step keeps the invariant.
LEMMA LinkNext == LinkInv /\ [Next]_vars => LinkInv'
  <1> SUFFICES ASSUME LinkInv, [Next]_vars PROVE LinkInv'
    OBVIOUS
  <1>1. CASE UNCHANGED vars
    <2>1. \A n \in Nodes : InFlight(n)' = InFlight(n)
      BY <1>1 DEF vars, InFlight
    <2>2. tasks' = tasks /\ client' = client
      BY <1>1 DEF vars
    <2>3. \A c \in Clients : Flow(c)'
      BY <2>1, <2>2, OthersSame, SameFlow DEF LinkInv
    <2> QED
      BY <2>1, <2>3, TypesNext DEF LinkInv
  <1> QED
    BY <1>1, AskStep, AnswerStep, HandleStep, LoopStep DEF Next, ServerStep

LEMMA LinkHolds == Spec => []LinkInv
  BY LinkInit, LinkNext, PTL DEF Spec

-----------------------------------------------------------------------------
(* One message per client                                                  *)

\* The places of the messages of client c, and how many places there are
Spots(c) ==
    {p \in Nodes \X (1 .. 2 * Cardinality(Clients)) :
        p[2] \in DOMAIN InFlight(p[1]) /\ InFlight(p[1])[p[2]].tx = c}

\* What a place in a queue holds
LEMMA PlaceFacts ==
    ASSUME LinkInv, NEW n \in Nodes, NEW i \in DOMAIN InFlight(n)
    PROVE  /\ DOMAIN InFlight(n) = 1 .. Len(InFlight(n)) /\ Len(InFlight(n)) \in Nat
           /\ InFlight(n)[i] \in Messages /\ InFlight(n)[i].tx \in Clients
           /\ InFlight(n)[i] \in Of(InFlight(n), InFlight(n)[i].tx)
  <1>1. InFlight(n) \in Seq(Messages)
    BY HopsAreMessages DEF LinkInv
  <1>2. /\ DOMAIN InFlight(n) = 1 .. Len(InFlight(n)) /\ Len(InFlight(n)) \in Nat
        /\ InFlight(n) \in [1 .. Len(InFlight(n)) -> Messages]
    BY <1>1, LenProperties
  <1>3. InFlight(n)[i] \in Messages
    BY <1>2
  <1> QED
    BY <1>2, <1>3, MessageIsMsg DEF Of, Contents

\* A client has one message at most between the two servers.
LEMMA OnePlace ==
    ASSUME LinkInv, NEW n \in Nodes, NEW m \in Nodes,
           NEW i \in DOMAIN InFlight(n), NEW j \in DOMAIN InFlight(m),
           InFlight(n)[i].tx = InFlight(m)[j].tx
    PROVE  n = m /\ i = j
  <1> DEFINE x == InFlight(n)[i]
             y == InFlight(m)[j]
             c == x.tx
  <1>1. c \in Clients /\ x \in Of(InFlight(n), c) /\ y \in Of(InFlight(m), c)
    BY PlaceFacts
  <1>2. n = m
    <2> SUFFICES ASSUME n # m PROVE FALSE
      OBVIOUS
    <2> HIDE DEF x, y, c
    <2>1. \/ n = Home[c] /\ m = Peer(Home[c])
          \/ m = Home[c] /\ n = Peer(Home[c])
      BY <1>1, Homes
    <2>2. Out(c) # {} /\ Back(c) # {}
      BY <1>1, <2>1 DEF Out, Back
    <2> QED
      BY <1>1, <2>2 DEF LinkInv, Flow
  <1>3. i \in 1 .. Len(InFlight(n)) /\ j \in 1 .. Len(InFlight(n))
    BY <1>2, PlaceFacts
  <1>4. OneEach(InFlight(n))
    BY DEF LinkInv
  <1> QED
    BY <1>2, <1>3, <1>4 DEF OneEach

\* The places of a client are finitely many,
LEMMA SpotsAreFinite ==
    ASSUME NEW c
    PROVE  IsFiniteSet(Spots(c))
  <1>1. Cardinality(Clients) \in Nat
    BY LinkConstants, FS_CardinalityType
  <1>2. 2 * Cardinality(Clients) \in Int
    BY <1>1
  <1>3. IsFiniteSet(1 .. 2 * Cardinality(Clients))
    BY <1>2, FS_Interval
  <1>4. IsFiniteSet(Nodes \X (1 .. 2 * Cardinality(Clients)))
    BY <1>3, LinkConstants, FS_Product
  <1> QED
    BY <1>4, FS_Subset DEF Spots

\* and two of one client are the same place.
LEMMA AtMostOne ==
    ASSUME LinkInv, NEW c, NEW p \in Spots(c), NEW q \in Spots(c)
    PROVE  p = q
  <1>1. /\ p[1] \in Nodes /\ p[2] \in DOMAIN InFlight(p[1]) /\ p = <<p[1], p[2]>>
        /\ InFlight(p[1])[p[2]].tx = c
    BY DEF Spots
  <1>2. /\ q[1] \in Nodes /\ q[2] \in DOMAIN InFlight(q[1]) /\ q = <<q[1], q[2]>>
        /\ InFlight(q[1])[q[2]].tx = c
    BY DEF Spots
  <1>3. p[1] = q[1] /\ p[2] = q[2]
    BY SMTT(30), <1>1, <1>2, OnePlace
  <1> QED
    BY <1>1, <1>2, <1>3

\* A client never has two messages between the same two servers, since its
\* handler in coordinator/client.rs awaits the answer before it goes on.
THEOREM HandlersStopAndWait == Spec => []OneInFlight
  <1>1. ASSUME LinkInv, NEW c \in Clients PROVE Outstanding(c) <= 1
    <2>1. Outstanding(c) = Cardinality(Spots(c))
      BY DEF Outstanding, Spots
    <2>2. CASE Spots(c) = {}
      <3>1. Cardinality(Spots(c)) = 0
        BY <2>2, FS_EmptySet
      <3> QED
        BY <2>1, <3>1
    <2>3. CASE Spots(c) # {}
      <3>1. PICK p : p \in Spots(c)
        BY <2>3
      <3>2. Spots(c) = {p}
        BY SMTT(30), <1>1, <3>1, AtMostOne
      <3>3. Cardinality(Spots(c)) = 1
        BY <3>2, FS_Singleton
      <3> QED
        BY SMTT(30), <2>1, <3>3
    <2> QED
      BY <2>2, <2>3
  <1>2. LinkInv => OneInFlight
    BY <1>1 DEF OneInFlight
  <1> QED
    BY <1>2, LinkHolds, PTL

\* No direction holds more messages than there are clients.
LEMMA NoMoreThanClients ==
    ASSUME LinkInv, NEW n \in Nodes
    PROVE  Len(InFlight(n)) <= Cardinality(Clients)
  <1> DEFINE l == Len(InFlight(n))
             f == [i \in 1 .. l |-> InFlight(n)[i].tx]
  <1>1. DOMAIN InFlight(n) = 1 .. l /\ l \in Nat
    BY HopsAreMessages, LenProperties DEF LinkInv
  <1>2. \A i \in 1 .. l : InFlight(n)[i].tx \in Clients
    BY <1>1, PlaceFacts
  <1>3. \A i, j \in 1 .. l : InFlight(n)[i].tx = InFlight(n)[j].tx => i = j
    BY SMTT(30), <1>1, OnePlace
  <1> HIDE DEF l
  <1>4. f \in [1 .. l -> Clients] /\ \A i, j \in 1 .. l : f[i] = f[j] => i = j
    BY <1>2, <1>3
  <1> HIDE DEF f
  <1>5. f \in Injection(1 .. l, Clients)
    BY <1>4, Fun_IsInj
  <1>6. Cardinality(1 .. l) <= Cardinality(Clients)
    BY <1>5, FS_Injection, LinkConstants
  <1>7. Cardinality(1 .. l) = l
    BY SMTT(30), <1>1, FS_Interval
  <1> QED
    BY <1>6, <1>7 DEF l

\* What is in the buffers and in send is on its way.
LEMMA JamFills ==
    ASSUME LinkInv, Jammed, NEW n \in Nodes
    PROVE  1 .. (Cap + 1) \subseteq DOMAIN InFlight(n)
  <1> DEFINE a == from_members[Peer(n)]
             b == wire[n]
             c == sending[n]
             d == to_client[n]
  <1>1. a \in Seq(Messages) /\ b \in Seq(Messages) /\ c \in Seq(Messages) /\ d \in Seq(Messages)
    BY HopsAreMessages DEF LinkInv
  <1>2. Len(b) = Cap /\ c # <<>> /\ Cap \in Nat
    BY LinkConstants DEF Jammed
  <1>3. InFlight(n) = a \o b \o c \o d
    BY DEF InFlight
  <1> HIDE DEF a, b, c, d
  <1>4. a \o b \in Seq(Messages) /\ Len(a \o b) = Len(a) + Len(b)
    BY <1>1, ConcatProperties
  <1>5. a \o b \o c \in Seq(Messages) /\ Len(a \o b \o c) = Len(a \o b) + Len(c)
    BY <1>1, <1>4, ConcatProperties
  <1>6. InFlight(n) \in Seq(Messages) /\ Len(InFlight(n)) = Len(a \o b \o c) + Len(d)
    BY <1>1, <1>3, <1>5, ConcatProperties
  <1>7. Len(a) \in Nat /\ Len(c) \in Nat \ {0} /\ Len(d) \in Nat
    BY <1>1, <1>2, LenProperties, EmptySeq
  <1>8. Len(InFlight(n)) \in Nat /\ Cap + 1 <= Len(InFlight(n))
    BY SMTT(30), <1>2, <1>4, <1>5, <1>6, <1>7
  <1>9. DOMAIN InFlight(n) = 1 .. Len(InFlight(n))
    BY <1>6, LenProperties
  <1> QED
    BY <1>2, <1>8, <1>9

\* Two member loops of pool/server.rs that both await a send block each other
\* only when more clients are at work than the buffers have room for.
THEOREM JamsNeedClients == Spec => []JamNeedsClients
  <1>1. ASSUME LinkInv, Jammed
        PROVE  Cardinality({c \in Clients : Outstanding(c) > 0}) >= 2 * (Cap + 1)
    <2> DEFINE Busy == {c \in Clients : Outstanding(c) > 0}
               Places == Nodes \X (1 .. (Cap + 1))
               f == [p \in Places |-> InFlight(p[1])[p[2]].tx]
    <2>1. ASSUME NEW p \in Places
          PROVE  p[1] \in Nodes /\ p[2] \in DOMAIN InFlight(p[1]) /\ p = <<p[1], p[2]>>
      BY SMTT(30), <1>1, JamFills
    <2>2. ASSUME NEW p \in Places PROVE InFlight(p[1])[p[2]].tx \in Busy
      <3> DEFINE c == InFlight(p[1])[p[2]].tx
                 n == p[1]
                 i == p[2]
      <3>1. n \in Nodes /\ i \in DOMAIN InFlight(n) /\ p = <<n, i>>
        BY <2>1
      <3>2. c \in Clients /\ DOMAIN InFlight(n) = 1 .. Len(InFlight(n))
            /\ Len(InFlight(n)) \in Nat
        BY <1>1, <3>1, PlaceFacts
      <3>3. Len(InFlight(n)) <= Cardinality(Clients) /\ Cardinality(Clients) \in Nat
        BY <1>1, <3>1, NoMoreThanClients, LinkConstants, FS_CardinalityType
      <3>4. i \in 1 .. 2 * Cardinality(Clients)
        BY SMTT(30), <3>1, <3>2, <3>3
      <3>5. p \in Spots(c)
        BY <3>1, <3>4 DEF Spots
      <3> HIDE DEF c
      <3>6. IsFiniteSet(Spots(c)) /\ Cardinality(Spots(c)) \in Nat
        BY SpotsAreFinite, FS_CardinalityType
      <3>7. Cardinality(Spots(c)) # 0
        BY <3>5, <3>6, FS_EmptySet
      <3>8. Outstanding(c) = Cardinality(Spots(c))
        BY DEF Outstanding, Spots
      <3>9. Outstanding(c) > 0
        BY SMTT(30), <3>6, <3>7, <3>8
      <3> QED
        BY <3>2, <3>9 DEF c
    <2>3. ASSUME NEW p \in Places, NEW q \in Places,
                 InFlight(p[1])[p[2]].tx = InFlight(q[1])[q[2]].tx
          PROVE  p = q
      <3>1. p[1] = q[1] /\ p[2] = q[2]
        BY SMTT(30), <1>1, <2>1, <2>3, OnePlace
      <3> QED
        BY <2>1, <3>1
    <2> HIDE DEF Busy, Places
    <2>4. f \in [Places -> Busy] /\ \A p, q \in Places : f[p] = f[q] => p = q
      BY <2>2, <2>3
    <2> HIDE DEF f
    <2>5. IsFiniteSet(Busy)
      BY LinkConstants, FS_Subset DEF Busy
    <2>6. Cardinality(Places) <= Cardinality(Busy)
      BY <2>4, <2>5, Fun_IsInj, FS_Injection
    <2>7. Cardinality(Places) = 2 * (Cap + 1)
      <3>1. IsFiniteSet(1 .. (Cap + 1)) /\ Cardinality(1 .. (Cap + 1)) = Cap + 1
        BY LinkConstants, FS_Interval
      <3>2. IsFiniteSet(Nodes) /\ Cardinality(Nodes) = 2
        BY LinkConstants
      <3>3. Cardinality(Places) = Cardinality(Nodes) * Cardinality(1 .. (Cap + 1))
        BY <3>1, <3>2, FS_Product DEF Places
      <3> QED
        BY <3>1, <3>2, <3>3
    <2>8. Cardinality(Busy) \in Nat /\ Cap \in Nat
      BY <2>5, FS_CardinalityType, LinkConstants
    <2>9. Cardinality(Busy) >= 2 * (Cap + 1)
      BY <2>6, <2>7, <2>8
    <2> QED
      BY <2>9 DEF Busy
  <1>2. LinkInv => JamNeedsClients
    BY <1>1 DEF JamNeedsClients
  <1> QED
    BY <1>2, LinkHolds, PTL

-----------------------------------------------------------------------------
(* The hops are a queue                                                    *)

Queues == [n \in Nodes |-> [m \in Nodes |-> IF m = n THEN <<>> ELSE InFlight(n)]]

\* Appending is the channel's put.
LEMMA PutIsPut ==
    ASSUME NEW q \in Seq(Messages), NEW x \in Messages
    PROVE  C!IsPut(q, Append(q, x))
  <1>1. /\ Len(q) \in Nat /\ Len(Append(q, x)) = Len(q) + 1
        /\ Append(q, x)[Len(q) + 1] = x
    BY AppendProperties, LenProperties
  <1>2. SubSeq(Append(q, x), 1, Len(q)) = q
    OBVIOUS
  <1> QED
    BY <1>1, <1>2 DEF C!IsPut

\* A message put is the channel's send.
LEMMA ChannelSend ==
    ASSUME LinkInv, NEW n \in Nodes, NEW x \in Messages, Puts(n, x), Kept(Peer(n))
    PROVE  C!Next
  <1> SUFFICES C!Send(n, Queues)
    BY DEF C!Next, Queues
  <1> SUFFICES ASSUME NEW k \in Nodes, NEW m \in Nodes
               PROVE  \/ Queues'[k][m] = Queues[k][m]
                      \/ k = n /\ C!IsPut(Queues[k][m], Queues'[k][m])
    BY DEF C!Send, Queues
  <1>1. CASE k = m
    BY <1>1 DEF Queues
  <1>2. CASE k # m /\ k = n
    <2>1. Queues[k][m] = InFlight(n) /\ Queues'[k][m] = InFlight(n)'
      BY <1>2 DEF Queues
    <2>2. C!IsPut(InFlight(n), InFlight(n)')
      BY HopsAreMessages, PutIsPut DEF Puts, LinkInv
    <2> QED
      BY <1>2, <2>1, <2>2
  <1>3. CASE k # m /\ k # n
    <2>1. k = Peer(n)
      BY <1>3, Peers
    <2> QED
      BY <1>3, <2>1 DEF Queues, Kept
  <1> QED
    BY <1>1, <1>2, <1>3

\* A message taken, with what the loop sends then, is a step of the channel.
LEMMA ChannelHandle ==
    ASSUME LinkInv, NEW n \in Nodes, HandleServerState(n)
    PROVE  C!Next
  <1> DEFINE m == Peer(n)
             x == Head(from_members[n])
             R == [Queues EXCEPT ![m][n] = Tail(@)]
  <1>1. m \in Nodes /\ m # n
    BY Peers
  <1>2. Gets(m) /\ (Kept(n) \/ Puts(n, Msg("DoCommit", x.tx)))
    BY HandleMoves
  <1>3. x.tx \in Clients
    BY HandledMessage DEF HandleServerState
  <1> HIDE DEF m, x
  <1>4. Queues[m][n] = InFlight(m) /\ InFlight(m) # <<>>
    BY <1>1, <1>2 DEF Queues, Gets
  <1>5. /\ R[m][n] = Tail(InFlight(m))
        /\ \A k, l \in Nodes : ~(k = m /\ l = n) => R[k][l] = Queues[k][l]
    BY <1>1 DEF Queues
  <1> HIDE DEF R
  <1>6. C!Send(n, R)
    <2> SUFFICES ASSUME NEW k \in Nodes, NEW l \in Nodes
                 PROVE  \/ Queues'[k][l] = R[k][l]
                        \/ k = n /\ C!IsPut(R[k][l], Queues'[k][l])
      BY DEF C!Send, Queues
    <2>1. CASE k = l
      BY <1>1, <1>5, <2>1 DEF Queues
    <2>2. CASE k # l /\ k = n
      <3>1. R[k][l] = InFlight(n) /\ Queues'[k][l] = InFlight(n)'
        BY <1>1, <1>5, <2>2 DEF Queues
      <3>2. ASSUME Puts(n, Msg("DoCommit", x.tx)) PROVE C!IsPut(InFlight(n), InFlight(n)')
        BY SMTT(30), <1>3, <3>2, MsgFacts, HopsAreMessages, PutIsPut DEF Puts, LinkInv
      <3> QED
        BY <1>2, <2>2, <3>1, <3>2 DEF Kept
    <2>3. CASE k # l /\ k # n
      <3>1. k = m /\ l = n
        BY <1>1, <2>3, Peers DEF m
      <3> QED
        BY <1>1, <1>2, <1>5, <2>3, <3>1 DEF Queues, Gets
    <2> QED
      BY <2>1, <2>2, <2>3
  <1>7. C!Handle(m, n)
    BY <1>4, <1>6 DEF C!Handle, Queues, R
  <1> QED
    BY <1>1, <1>7 DEF C!Next

\* The hops of a message between two servers are the queue that Coordinator
\* assumes: nothing is lost, repeated or overtaken by the two member loops of
\* pool/server.rs.
THEOREM HopsAreChannel == Spec => ImplementsChannel
  <1>1. Init => C!Init
    <2> SUFFICES ASSUME Init PROVE Queues = [n \in Nodes |-> [m \in Nodes |-> <<>>]]
      BY DEF C!Init, Queues
    <2>1. ASSUME NEW n \in Nodes PROVE InFlight(n) = <<>>
      <3>1. InFlight(n) = <<>> \o <<>> \o <<>> \o <<>>
        BY Peers DEF Init, InFlight
      <3> QED
        BY <3>1, ConcatEmptySeq, EmptySeq
    <2> QED
      BY <2>1 DEF Queues
  <1>2. LinkInv /\ [Next]_vars => [C!Next]_Queues
    <2> SUFFICES ASSUME LinkInv, [Next]_vars PROVE C!Next \/ UNCHANGED Queues
      OBVIOUS
    <2>1. ASSUME NEW c \in Clients, Ask(c) PROVE C!Next
      BY <2>1, AskMoves, Homes, MsgFacts, ChannelSend
    <2>2. ASSUME NEW c \in Clients, Answer(c) PROVE C!Next
      BY <2>2, AnswerMoves, Homes, MsgFacts, ChannelSend
    <2>3. ASSUME NEW n \in Nodes, MemberLoop(n) PROVE UNCHANGED Queues
      BY <2>3, LoopKeeps DEF LinkInv, Kept, Queues
    <2>4. CASE UNCHANGED vars
      BY <2>4 DEF vars, Queues, InFlight
    <2> QED
      BY <2>1, <2>2, <2>3, <2>4, ChannelHandle DEF Next, ServerStep
  <1> QED
    BY <1>1, <1>2, LinkHolds, PTL DEF Spec, ImplementsChannel, C!Spec, Queues
=============================================================================
