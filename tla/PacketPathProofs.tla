--------------------------- MODULE PacketPathProofs ---------------------------
(***************************************************************************)
(* Proofs about PacketPath, for any number of connections, network threads *)
(* and handle threads: the types, the threads and the queues, then that a  *)
(* packet has one owner until it is released, and none after.              *)
(***************************************************************************)
EXTENDS PacketPath, SequenceTheorems, FiniteSetTheorems, TLAPS

-----------------------------------------------------------------------------
(* Types.                                                                  *)

\* The types hold initially.
LEMMA TypeInit == Init => TypeOK
<1>1. SUFFICES ASSUME Init PROVE TypeOK
  OBVIOUS
<1>2. 0 \in Handles
  BY PathAssumption DEF PathAssumption, Handles
<1>3. /\ handled \in [Conn -> Seq(1..MaxPackets)]
      /\ recvlist \in Seq(Packet)
      /\ handlelist \in [Handles -> Seq(Packet)]
  BY <1>1 DEF Init
<1>4. /\ hpc \in [Handles -> {"top", "pop", "handle", "exited"}]
      /\ \A h \in Handles : hpc[h] = "handle" => hand[h] \in Packet
  BY <1>1 DEF Init
<1>5. turn \in (IF main = "nets" THEN Nets ELSE Handles)
  BY <1>1, <1>2 DEF Init
<1>6. /\ parsed \in [Conn -> 0..MaxPackets]
      /\ released \in [Packet -> Nat]
  BY <1>1, PathAssumption DEF Init, PathAssumption
<1>. QED BY <1>1, <1>3, <1>4, <1>5, <1>6 DEF Init, TypeOK

\* What Pop and Drain take from the front of a queue.
LEMMA FrontType ==
  ASSUME NEW q \in Seq(Packet), q # <<>>
  PROVE  Head(q) \in Packet /\ Tail(q) \in Seq(Packet)
OBVIOUS

\* Releasing a packet, and appending to or assigning in the queues and the
\* history of a connection.
LEMMA ReleaseType ==
  ASSUME released \in [Packet -> Nat], NEW p \in Packet, NEW n \in Nat,
         Release(p, n)
  PROVE  released' \in [Packet -> Nat]
BY DEF Release

LEMMA ListType ==
  ASSUME handlelist \in [Handles -> Seq(Packet)], NEW h \in Handles,
         NEW q \in Seq(Packet), handlelist' = [handlelist EXCEPT ![h] = q]
  PROVE  handlelist' \in [Handles -> Seq(Packet)]
OBVIOUS

LEMMA HandledType ==
  ASSUME MaxPackets \in Nat, handled \in [Conn -> Seq(1..MaxPackets)],
         NEW c \in Conn, NEW k \in 1..MaxPackets,
         handled' = [handled EXCEPT ![c] = Append(@, k)]
  PROVE  handled' \in [Conn -> Seq(1..MaxPackets)]
OBVIOUS

\* Every action keeps the types.
LEMMA TypeNext == TypeOK /\ [Next]_vars => TypeOK'
<1>1. SUFFICES ASSUME TypeOK, [Next]_vars PROVE TypeOK'
  OBVIOUS
<1>. USE PathAssumption DEF PathAssumption
<1>2. ASSUME NEW c \in Conn, Parse(c) PROVE TypeOK'
  <2>1. parsed[c] + 1 \in 1..MaxPackets
    BY <1>1, <1>2 DEF TypeOK, Parse
  <2>2. <<c, parsed[c] + 1>> \in Packet
    BY <2>1 DEF Packet
  <2>3. parsed' \in [Conn -> 0..MaxPackets] /\ net' \in [Nets -> Packet \cup {None}]
    BY <1>1, <1>2, <2>1, <2>2 DEF TypeOK, Parse
  <2>. QED BY <1>1, <1>2, <2>3 DEF TypeOK, Parse, qvars, hvars, mvars
<1>3. ASSUME NEW n \in Nets, Insert(n) PROVE TypeOK'
  <2>1. CASE InsertShared(n)
    <3>1. net[n] \in Packet
      BY <1>1, <2>1 DEF TypeOK, InsertShared
    <3>2. recvlist' \in Seq(Packet) /\ released' \in [Packet -> Nat]
      <4>1. CASE recvlist' = Append(recvlist, net[n]) /\ UNCHANGED released
        BY <1>1, <3>1, <4>1 DEF TypeOK
      <4>2. CASE Release(net[n], 1) /\ UNCHANGED recvlist
        BY <1>1, <3>1, <4>2, ReleaseType DEF TypeOK
      <4>. QED BY <2>1, <4>1, <4>2 DEF InsertShared
    <3>. QED BY <1>1, <2>1, <3>2 DEF TypeOK, InsertShared, hvars, mvars
  <2>2. CASE InsertOwn(n)
    <3>1. net[n] \in Packet
      BY <1>1, <2>2 DEF TypeOK, InsertOwn
    <3>. DEFINE h == HandleOf(net[n])
    <3>2. /\ handlelist' \in [Handles -> Seq(Packet)]
          /\ released' \in [Packet -> Nat]
      <4>1. CASE /\ handlelist' = [handlelist EXCEPT
                                    ![h] = Append(@, net[n])]
                 /\ UNCHANGED released
        <5>1. h \in Handles /\ Append(handlelist[h], net[n]) \in Seq(Packet)
          BY <1>1, <2>2, <3>1 DEF TypeOK, InsertOwn
        <5>. QED BY <1>1, <4>1, <5>1, ListType DEF TypeOK
      <4>2. CASE Release(net[n], 2) /\ UNCHANGED handlelist
        BY <1>1, <3>1, <4>2, ReleaseType DEF TypeOK
      <4>. QED BY <2>2, <4>1, <4>2 DEF InsertOwn
    <3>. QED BY <1>1, <2>2, <3>2 DEF TypeOK, InsertOwn, hvars, mvars
  <2>3. CASE InsertDead(n)
    BY <1>1, <2>3 DEF TypeOK, InsertDead, nvars, qvars, hvars, mvars
  <2>. QED BY <1>3, <2>1, <2>2, <2>3 DEF Insert
<1>4. ASSUME NEW h \in Handles, Handle(h) PROVE TypeOK'
  <2>1. CASE Top(h)
    BY <1>1, <2>1 DEF TypeOK, Top, nvars, qvars, mvars
  <2>2. CASE Pop(h)
    <3>. DEFINE q == IF runMode = 1 THEN recvlist ELSE handlelist[h]
    <3>1. q \in Seq(Packet)
      BY <1>1 DEF TypeOK
    <3>2. CASE q # <<>>
      <4>1. Head(q) \in Packet /\ Tail(q) \in Seq(Packet)
        BY <3>1, <3>2, FrontType
      <4>2. Head(q)[1] \in Conn /\ Head(q)[2] \in 1..MaxPackets
        BY <4>1 DEF Packet
      <4>3. handled' \in [Conn -> Seq(1..MaxPackets)]
        <5>1. handled' = [handled EXCEPT ![Head(q)[1]] = Append(@, Head(q)[2])]
          BY <2>2, <3>2 DEF Pop
        <5>. QED BY <1>1, <4>2, <5>1, HandledType DEF TypeOK
      <4>4. recvlist' \in Seq(Packet) /\ handlelist' \in [Handles -> Seq(Packet)]
        <5>1. CASE runMode = 1
          BY <1>1, <2>2, <3>2, <4>1, <5>1 DEF TypeOK, Pop
        <5>2. CASE runMode # 1
          <6>1. handlelist' = [handlelist EXCEPT ![h] = Tail(q)]
            BY <2>2, <3>2, <5>2 DEF Pop
          <6>. QED BY <1>1, <2>2, <3>2, <4>1, <5>2, <6>1, ListType DEF TypeOK, Pop
        <5>. QED BY <5>1, <5>2
      <4>5. /\ hand' = [hand EXCEPT ![h] = Head(q)]
            /\ hpc' = [hpc EXCEPT ![h] = "handle"]
        BY <2>2, <3>2 DEF Pop
      <4>6. UNCHANGED <<runMode, nvars, goOn, alive, mvars, released, crashed>>
        BY <2>2 DEF Pop
      <4>. QED BY <1>1, <4>1, <4>3, <4>4, <4>5, <4>6 DEF TypeOK, nvars, mvars
    <3>3. CASE q = <<>>
      BY <1>1, <2>2, <3>3 DEF TypeOK, Pop, nvars, qvars, mvars
    <3>. QED BY <3>2, <3>3
  <2>3. CASE Finish(h)
    <3>1. released' \in [Packet -> Nat]
      BY <1>1, <2>3, ReleaseType DEF TypeOK, Finish
    <3>. QED BY <1>1, <2>3, <3>1 DEF TypeOK, Finish, nvars, qvars, mvars
  <2>. QED BY <1>4, <2>1, <2>2, <2>3 DEF Handle
<1>5. ASSUME StopBegin PROVE TypeOK'
  <2>1. 0 \in Handles /\ main' = "terminate" /\ turn' = 0
    BY <1>5 DEF StopBegin, Handles
  <2>2. UNCHANGED <<runMode, nvars, qvars, hvars, handled, released, crashed>>
    BY <1>5 DEF StopBegin
  <2>. QED BY <1>1, <2>1, <2>2 DEF TypeOK, nvars, qvars, hvars
<1>6. ASSUME StopStep PROVE TypeOK'
  <2>1. CASE Terminate
    BY <1>1, <2>1 DEF TypeOK, Terminate, nvars, qvars
  <2>2. CASE Join
    BY <1>1, <2>2 DEF TypeOK, Join, nvars, qvars, hvars
  <2>3. CASE Drain
    <3>1. turn \in Handles
      BY <1>1, <2>3 DEF TypeOK, Drain
    <3>2. /\ Head(handlelist[turn]) \in Packet
          /\ Tail(handlelist[turn]) \in Seq(Packet)
      BY <1>1, <2>3, <3>1, FrontType DEF TypeOK, Drain
    <3>. QED BY <1>1, <2>3, <3>1, <3>2 DEF TypeOK, Drain, Release, nvars, hvars, mvars
  <2>4. CASE Drained
    BY <1>1, <2>4 DEF TypeOK, Drained, nvars, qvars, hvars
  <2>5. CASE Deleted
    BY <1>1, <2>5 DEF TypeOK, Deleted, nvars, qvars, Nets, Handles
  <2>6. CASE StopNet
    BY <1>1, <2>6 DEF TypeOK, StopNet, qvars, hvars, Nets, Handles
  <2>. QED BY <1>6, <2>1, <2>2, <2>3, <2>4, <2>5, <2>6 DEF StopStep
<1>7. CASE UNCHANGED vars
  BY <1>1, <1>7 DEF TypeOK, vars, nvars, qvars, hvars, mvars
<1>. QED BY <1>1, <1>2, <1>3, <1>4, <1>5, <1>6, <1>7 DEF Next

\* Every variable keeps its type.
THEOREM TypeCorrect == Spec => []TypeOK
<1>1. Init => TypeOK
  BY TypeInit
<1>2. TypeOK /\ [Next]_vars => TypeOK'
  BY TypeNext
<1>. QED BY <1>1, <1>2, PTL DEF Spec

-----------------------------------------------------------------------------
(* Order.                                                                  *)

\* The packets of c that ParseImp is done with.
Inserted(c) == IF net[NetOf(c)] # None /\ net[NetOf(c)][1] = c
               THEN parsed[c] - 1 ELSE parsed[c]

\* A network thread holds the packet it parsed last, of one of its own
\* connections.
AtNet == \A n \in Nets : net[n] # None => /\ NetOf(net[n][1]) = n
                                         /\ net[n][2] = parsed[net[n][1]]

\* What was handled was inserted, in order.
Past == \A c \in Conn : \A i \in 1..Len(handled[c]) :
          /\ handled[c][i] <= Inserted(c)
          /\ \A j \in 1..Len(handled[c]) : i < j => handled[c][i] < handled[c][j]

\* What waits in a handlelist belongs there and is to be handled later than
\* what was handled already.
Listed == \A h \in Handles : \A i \in 1..Len(handlelist[h]) :
            LET p == handlelist[h][i]
            IN /\ HandleOf(p) = h
               /\ p[2] <= Inserted(p[1])
               /\ \A j \in 1..Len(handled[p[1]]) : handled[p[1]][j] < p[2]

\* Two packets of a connection wait in order.
Sorted == \A h \in Handles : \A i, j \in 1..Len(handlelist[h]) :
            i < j /\ handlelist[h][i][1] = handlelist[h][j][1]
              => handlelist[h][i][2] < handlelist[h][j][2]

\* A handle thread has packets of its own connections only.
InHand == \A h \in Handles : hand[h] # None => HandleOf(hand[h]) = h

OrderInv == /\ TypeOK
            /\ AtNet
            /\ runMode = 2 => Past /\ Listed /\ Sorted /\ InHand

\* The network thread of a connection exists.
LEMMA NetExists == \A c \in Conn : NetOf(c) \in Nets
BY PathAssumption DEF PathAssumption, NetOf, Nets

\* Nothing was handled or inserted yet.
LEMMA OrderInit == Init => OrderInv
<1>1. SUFFICES ASSUME Init PROVE OrderInv
  OBVIOUS
<1>2. TypeOK
  BY <1>1, TypeInit
<1>3. AtNet
  BY <1>1 DEF Init, AtNet
<1>4. Past
  BY <1>1 DEF Init, Past
<1>5. Listed /\ Sorted
  BY <1>1 DEF Init, Listed, Sorted
<1>6. InHand
  BY <1>1 DEF Init, InHand
<1>. QED BY <1>2, <1>3, <1>4, <1>5, <1>6 DEF OrderInv

\* Steps that move no packet into or out of a queue.
LEMMA OrderQuiet ==
  ASSUME OrderInv, TypeOK',
         UNCHANGED <<runMode, parsed, net, handlelist, handled>>,
         \A h \in Handles : hand'[h] = hand[h] \/ hand'[h] = None
  PROVE  OrderInv'
<1>1. AtNet'
  BY DEF OrderInv, AtNet
<1>2. \A c : Inserted(c)' = Inserted(c)
  BY DEF Inserted
<1>3. ASSUME runMode = 2 PROVE Past' /\ Listed' /\ Sorted' /\ InHand'
  <2>1. Past'
    BY <1>2, <1>3 DEF OrderInv, Past
  <2>2. Listed'
    BY <1>2, <1>3 DEF OrderInv, Listed
  <2>3. Sorted'
    BY <1>3 DEF OrderInv, Sorted
  <2>4. InHand'
    BY <1>3 DEF OrderInv, InHand
  <2>. QED BY <2>1, <2>2, <2>3, <2>4
<1>. QED BY <1>1, <1>3 DEF OrderInv

\* A packet is parsed: it is not inserted yet.
LEMMA OrderParse ==
  ASSUME OrderInv, TypeOK', NEW c \in Conn, Parse(c)
  PROVE  OrderInv'
<1>. DEFINE n == NetOf(c)
<1>1. /\ n \in Nets /\ net[n] = None
      /\ parsed' = [parsed EXCEPT ![c] = @ + 1]
      /\ net' = [net EXCEPT ![n] = <<c, parsed[c] + 1>>]
      /\ UNCHANGED <<runMode, handlelist, hand, handled>>
  BY NetExists DEF Parse, qvars, hvars
<1>2. /\ parsed \in [Conn -> 0..MaxPackets] /\ MaxPackets \in Nat
      /\ net \in [Nets -> Packet \cup {None}]
  BY PathAssumption DEF OrderInv, TypeOK, PathAssumption
<1>3. AtNet'
  <2>1. SUFFICES ASSUME NEW m \in Nets, net'[m] # None
                 PROVE  NetOf(net'[m][1]) = m /\ net'[m][2] = parsed'[net'[m][1]]
    BY DEF AtNet
  <2>2. CASE m = n
    BY <1>1, <1>2, <2>2
  <2>3. CASE m # n
    <3>1. net'[m] = net[m]
      BY <1>1, <1>2, <2>3
    <3>2. NetOf(net[m][1]) = m /\ net[m][2] = parsed[net[m][1]]
      BY <2>1, <3>1 DEF OrderInv, AtNet
    <3>3. net[m][1] # c
      BY <2>3, <3>2
    <3>. QED BY <1>1, <1>2, <3>1, <3>2, <3>3
  <2>. QED BY <2>2, <2>3
<1>4. ASSUME NEW d \in Conn PROVE Inserted(d)' = Inserted(d)
  <2>1. CASE d = c
    <3>1. net'[n][1] = c /\ net'[n] = <<c, parsed[c] + 1>> /\ parsed'[c] = parsed[c] + 1
      BY <1>1, <1>2
    <3>2. net'[n] # None
      BY <3>1 DEF None
    <3>. QED BY <1>1, <1>2, <2>1, <3>1, <3>2 DEF Inserted
  <2>2. CASE d # c
    <3>1. parsed'[d] = parsed[d]
      BY <1>1, <1>2, <2>2
    <3>2. CASE NetOf(d) = n
      BY <1>1, <1>2, <2>2, <3>1, <3>2 DEF Inserted
    <3>3. CASE NetOf(d) # n
      <4>1. net'[NetOf(d)] = net[NetOf(d)]
        BY <1>1, <1>2, <3>3, NetExists
      <4>. QED BY <3>1, <4>1 DEF Inserted
    <3>. QED BY <3>2, <3>3
  <2>. QED BY <2>1, <2>2
<1>5. ASSUME runMode = 2 PROVE Past' /\ Listed' /\ Sorted' /\ InHand'
  <2>1. Past'
    BY <1>1, <1>4, <1>5 DEF OrderInv, Past
  <2>2. Listed'
    <3>1. \A h \in Handles : \A i \in 1..Len(handlelist[h]) : handlelist[h][i][1] \in Conn
      BY DEF OrderInv, TypeOK, Packet
    <3>. QED BY <1>1, <1>4, <1>5, <3>1 DEF OrderInv, Listed
  <2>3. Sorted'
    BY <1>1, <1>5 DEF OrderInv, Sorted
  <2>4. InHand'
    BY <1>1, <1>5 DEF OrderInv, InHand
  <2>. QED BY <2>1, <2>2, <2>3, <2>4
<1>. QED BY <1>1, <1>3, <1>5 DEF OrderInv

\* A network thread is done with its packet.
LEMMA NetEmptied ==
  ASSUME OrderInv, NEW n \in Nets, net' = [net EXCEPT ![n] = None],
         UNCHANGED parsed
  PROVE  AtNet'
BY DEF OrderInv, TypeOK, AtNet

\* A packet is put into a handlelist or released at once.
LEMMA OrderInsert ==
  ASSUME OrderInv, TypeOK', NEW n \in Nets, Insert(n)
  PROVE  OrderInv'
<1>1. CASE InsertDead(n)
  BY <1>1, OrderQuiet DEF InsertDead, nvars, qvars, hvars
<1>2. CASE InsertShared(n)
  <2>1. AtNet'
    BY <1>2, NetEmptied DEF InsertShared
  <2>. QED BY <1>2, <2>1 DEF InsertShared, OrderInv
<1>3. CASE InsertOwn(n)
  <2>0. PICK p : p = net[n]
    OBVIOUS
  <2>. DEFINE c == p[1]
              h == HandleOf(p)
  <2>1. /\ runMode = 2 /\ p # None
        /\ h \in Handles
        /\ net' = [net EXCEPT ![n] = None]
        /\ UNCHANGED <<runMode, parsed, hand, handled>>
    BY <1>3, <2>0 DEF InsertOwn, hvars, OrderInv, TypeOK
  <2>2. /\ p \in Packet /\ c \in Conn
        /\ p[2] \in Nat /\ p[2] = parsed[c]
        /\ NetOf(c) = n
        /\ parsed \in [Conn -> Nat]
        /\ net \in [Nets -> Packet \cup {None}]
    <3>1. p \in Packet /\ parsed \in [Conn -> Nat]
      BY <2>0, <2>1, PathAssumption DEF OrderInv, TypeOK, PathAssumption
    <3>2. c \in Conn /\ p[2] \in Nat
      BY <3>1, PathAssumption DEF Packet, PathAssumption
    <3>. QED BY <2>0, <2>1, <3>1, <3>2 DEF OrderInv, AtNet, TypeOK
  <2>3. /\ Inserted(c)' = p[2] /\ Inserted(c) = p[2] - 1
        /\ \A d \in Conn : d # c => Inserted(d)' = Inserted(d)
    <3>1. Inserted(c)' = p[2] /\ Inserted(c) = p[2] - 1
      BY <2>0, <2>1, <2>2 DEF Inserted
    <3>2. ASSUME NEW d \in Conn, d # c PROVE Inserted(d)' = Inserted(d)
      <4>1. CASE NetOf(d) = n
        BY <2>0, <2>1, <2>2, <3>2, <4>1 DEF Inserted
      <4>2. CASE NetOf(d) # n
        BY <2>1, <2>2, <4>2, NetExists DEF Inserted
      <4>. QED BY <4>1, <4>2
    <3>. QED BY <3>1, <3>2
  <2>4. ASSUME NEW d \in Conn
        PROVE  /\ Inserted(d) \in Int /\ Inserted(d)' \in Int
               /\ Inserted(d) <= Inserted(d)'
    <3>1. Inserted(d) \in Int
      BY <2>2 DEF Inserted
    <3>. QED BY <2>2, <2>3, <3>1
  <2>5. /\ handled \in [Conn -> Seq(1..MaxPackets)]
        /\ handlelist \in [Handles -> Seq(Packet)]
        /\ Packet = Conn \X (1..MaxPackets) /\ MaxPackets \in Nat
    BY PathAssumption DEF OrderInv, TypeOK, Packet, PathAssumption
  <2>6. Past'
    <3>1. \A d \in Conn : \A i \in 1..Len(handled[d]) : handled[d][i] \in Int
      BY <2>5
    <3>. QED BY <2>1, <2>4, <3>1 DEF OrderInv, Past
  <2>7. Listed' /\ Sorted'
    <3>1. ASSUME NEW g \in Handles, NEW i \in 1..Len(handlelist[g]),
                 NEW q, q = handlelist[g][i]
          PROVE  /\ HandleOf(q) = g
                 /\ q \in Packet /\ q[1] \in Conn /\ q[2] \in Int
                 /\ q[2] <= Inserted(q[1])'
                 /\ q[1] = c => q[2] < p[2]
                 /\ \A j \in 1..Len(handled[q[1]]) : handled[q[1]][j] < q[2]
      <4>1. q \in Packet /\ q[1] \in Conn /\ q[2] \in Int
        BY <2>5, <3>1
      <4>2. /\ HandleOf(q) = g /\ q[2] <= Inserted(q[1])
            /\ \A j \in 1..Len(handled[q[1]]) : handled[q[1]][j] < q[2]
        BY <2>1, <3>1 DEF OrderInv, Listed
      <4>3. q[2] <= Inserted(q[1])'
        BY <2>2, <2>3, <2>4, <4>1, <4>2
      <4>4. q[1] = c => q[2] < p[2]
        BY <2>2, <2>3, <4>1, <4>2
      <4>. QED BY <4>1, <4>2, <4>3, <4>4
    <3>2. CASE UNCHANGED handlelist
      <4>1. Listed'
        BY <2>1, <3>1, <3>2 DEF Listed, Inserted
      <4>2. Sorted'
        BY <2>1, <3>2 DEF OrderInv, Sorted
      <4>. QED BY <4>1, <4>2
    <3>3. CASE handlelist' = [handlelist EXCEPT ![h] = Append(@, p)]
      <4>1. \A g \in Handles : g # h => handlelist'[g] = handlelist[g]
        BY <2>5, <3>3
      <4>2. /\ Len(handlelist'[h]) = Len(handlelist[h]) + 1
            /\ Len(handlelist[h]) \in Nat
            /\ \A i \in 1..Len(handlelist[h]) : handlelist'[h][i] = handlelist[h][i]
            /\ handlelist'[h][Len(handlelist[h]) + 1] = p
        BY <2>1, <2>2, <2>5, <3>3
      <4>3. \A j \in 1..Len(handled[c]) : handled[c][j] < p[2]
        <5>1. \A j \in 1..Len(handled[c]) : handled[c][j] \in Int /\ handled[c][j] <= p[2] - 1
          BY <2>1, <2>2, <2>3, <2>5 DEF OrderInv, Past
        <5>. QED BY <2>2, <5>1
      <4>4. ASSUME NEW g \in Handles, NEW i \in 1..Len(handlelist'[g]),
                   NEW q, q = handlelist'[g][i]
            PROVE  /\ HandleOf(q) = g
                   /\ q[2] <= Inserted(q[1])'
                   /\ \A j \in 1..Len(handled'[q[1]]) : handled'[q[1]][j] < q[2]
        <5>1. CASE g # h
          BY <2>1, <3>1, <4>1, <4>4, <5>1
        <5>2. CASE g = h /\ i \in 1..Len(handlelist[h])
          BY <2>1, <3>1, <4>2, <4>4, <5>2
        <5>3. CASE g = h /\ i = Len(handlelist[h]) + 1
          <6>1. q = p
            BY <4>2, <4>4, <5>3
          <6>2. q[2] <= Inserted(q[1])'
            BY <2>2, <2>3, <6>1 DEF Inserted
          <6>. QED BY <2>1, <4>3, <5>3, <6>1, <6>2
        <5>. QED BY <4>2, <5>1, <5>2, <5>3
      <4>5. Listed'
        BY <4>4 DEF Listed, Inserted
      <4>6. ASSUME NEW g \in Handles, NEW i \in 1..Len(handlelist'[g]),
                   NEW j \in 1..Len(handlelist'[g]),
                   i < j, handlelist'[g][i][1] = handlelist'[g][j][1]
            PROVE  handlelist'[g][i][2] < handlelist'[g][j][2]
        <5>1. CASE g # h
          BY <2>1, <4>1, <4>6, <5>1 DEF OrderInv, Sorted
        <5>2. CASE g = h /\ j \in 1..Len(handlelist[h])
          <6>1. i \in 1..Len(handlelist[h])
            BY <4>2, <4>6, <5>2
          <6>. QED BY <2>1, <4>2, <4>6, <5>2, <6>1 DEF OrderInv, Sorted
        <5>3. CASE g = h /\ j = Len(handlelist[h]) + 1
          <6>1. i \in 1..Len(handlelist[h])
            BY <4>2, <4>6, <5>3
          <6>. QED BY <2>1, <3>1, <4>2, <4>6, <5>3, <6>1
        <5>. QED BY <4>2, <5>1, <5>2, <5>3
      <4>7. Sorted'
        BY <4>6 DEF Sorted
      <4>. QED BY <4>5, <4>7
    <3>. QED BY <1>3, <2>0, <3>2, <3>3 DEF InsertOwn
  <2>8. InHand'
    BY <2>1 DEF OrderInv, InHand
  <2>9. AtNet'
    BY <2>1, NetEmptied
  <2>. QED BY <2>6, <2>7, <2>8, <2>9 DEF OrderInv
<1>. QED BY <1>1, <1>2, <1>3 DEF Insert

\* The first packet leaves a handlelist.
LEMMA ListFront ==
  ASSUME OrderInv, NEW h \in Handles, handlelist[h] # <<>>,
         handlelist' = [handlelist EXCEPT ![h] = Tail(@)]
  PROVE  /\ Head(handlelist[h]) = handlelist[h][1]
         /\ 1 \in 1..Len(handlelist[h])
         /\ \A g \in Handles : \A i \in 1..Len(handlelist'[g]) :
              \E k \in 1..Len(handlelist[g]) :
                /\ handlelist'[g][i] = handlelist[g][k]
                /\ k = IF g = h THEN i + 1 ELSE i
<1>1. handlelist \in [Handles -> Seq(Packet)]
  BY DEF OrderInv, TypeOK
<1>2. /\ Len(handlelist[h]) \in Nat \ {0}
      /\ Head(handlelist[h]) = handlelist[h][1]
      /\ Len(handlelist'[h]) = Len(handlelist[h]) - 1
      /\ \A i \in 1..Len(handlelist'[h]) : handlelist'[h][i] = handlelist[h][i + 1]
  BY <1>1
<1>3. \A g \in Handles : g # h => handlelist'[g] = handlelist[g]
  BY <1>1
<1>4. ASSUME NEW g \in Handles, NEW i \in 1..Len(handlelist'[g])
      PROVE  \E k \in 1..Len(handlelist[g]) :
               /\ handlelist'[g][i] = handlelist[g][k]
               /\ k = IF g = h THEN i + 1 ELSE i
  <2>1. CASE g = h
    <3>1. i \in 1..Len(handlelist'[h])
      BY <1>4, <2>1
    <3>2. i + 1 \in 1..Len(handlelist[h])
      BY <1>2, <3>1
    <3>3. handlelist'[h][i] = handlelist[h][i + 1]
      BY <1>2, <3>1
    <3>. QED BY <2>1, <3>2, <3>3
  <2>2. CASE g # h
    <3>1. i \in 1..Len(handlelist[g])
      BY <1>3, <1>4, <2>2
    <3>. QED BY <1>3, <2>2, <3>1
  <2>. QED BY <2>1, <2>2
<1>5. 1 \in 1..Len(handlelist[h])
  BY <1>2
<1>. QED BY <1>2, <1>4, <1>5

LEMMA SortedFront ==
  ASSUME OrderInv, runMode = 2, NEW h \in Handles, handlelist[h] # <<>>,
         handlelist' = [handlelist EXCEPT ![h] = Tail(@)]
  PROVE  Sorted'
<1>1. SUFFICES ASSUME NEW g \in Handles, NEW i \in 1..Len(handlelist'[g]),
                      NEW j \in 1..Len(handlelist'[g]), i < j,
                      handlelist'[g][i][1] = handlelist'[g][j][1]
               PROVE  handlelist'[g][i][2] < handlelist'[g][j][2]
  BY DEF Sorted
<1>0. \A m \in 1..Len(handlelist'[g]) : \E k \in 1..Len(handlelist[g]) :
        handlelist'[g][m] = handlelist[g][k] /\ k = IF g = h THEN m + 1 ELSE m
  BY ListFront
<1>2. PICK k \in 1..Len(handlelist[g]) :
        handlelist'[g][i] = handlelist[g][k] /\ k = IF g = h THEN i + 1 ELSE i
  BY <1>0
<1>3. PICK l \in 1..Len(handlelist[g]) :
        handlelist'[g][j] = handlelist[g][l] /\ l = IF g = h THEN j + 1 ELSE j
  BY <1>0
<1>4. i \in Int /\ j \in Int
  OBVIOUS
<1>5. k < l
  BY <1>1, <1>2, <1>3, <1>4
<1>. QED BY <1>1, <1>2, <1>3, <1>5 DEF OrderInv, Sorted

\* The destructor of a handle thread releases a packet.
LEMMA OrderDrain ==
  ASSUME OrderInv, TypeOK', Drain
  PROVE  OrderInv'
<1>1. /\ turn \in Handles /\ handlelist[turn] # <<>>
      /\ handlelist' = [handlelist EXCEPT ![turn] = Tail(@)]
      /\ UNCHANGED <<runMode, parsed, net, hand, handled>>
  BY DEF Drain, OrderInv, TypeOK, nvars, hvars
<1>2. AtNet' /\ \A c : Inserted(c)' = Inserted(c)
  BY <1>1 DEF OrderInv, AtNet, Inserted
<1>3. ASSUME runMode = 2 PROVE Past' /\ Listed' /\ Sorted' /\ InHand'
  <2>1. Past'
    BY <1>1, <1>2, <1>3 DEF OrderInv, Past
  <2>2. Listed'
    <3>1. ASSUME NEW g \in Handles, NEW i \in 1..Len(handlelist'[g]),
                 NEW q, q = handlelist'[g][i]
          PROVE  /\ HandleOf(q) = g
                 /\ q[2] <= Inserted(q[1])
                 /\ \A j \in 1..Len(handled[q[1]]) : handled[q[1]][j] < q[2]
      <4>1. PICK k \in 1..Len(handlelist[g]) : q = handlelist[g][k]
        <5>1. \A m \in 1..Len(handlelist'[g]) : \E k \in 1..Len(handlelist[g]) :
                handlelist'[g][m] = handlelist[g][k]
          BY <1>1, ListFront
        <5>. QED BY <3>1, <5>1
      <4>. QED BY <1>3, <4>1 DEF OrderInv, Listed
    <3>2. handled' = handled /\ parsed' = parsed /\ net' = net
      BY <1>1
    <3>. QED BY <3>1, <3>2 DEF Listed, Inserted
  <2>3. Sorted'
    BY <1>1, <1>3, SortedFront
  <2>4. InHand'
    BY <1>1, <1>3 DEF OrderInv, InHand
  <2>. QED BY <2>1, <2>2, <2>3, <2>4
<1>. QED BY <1>1, <1>2, <1>3 DEF OrderInv

\* A handle thread takes the first packet of its list: later than all that
\* was handled, earlier than all that waits.
LEMMA OrderPop ==
  ASSUME OrderInv, TypeOK', NEW h \in Handles, Pop(h)
  PROVE  OrderInv'
<1>1. UNCHANGED <<runMode, parsed, net>>
  BY DEF Pop, nvars
<1>2. AtNet'
  BY <1>1 DEF OrderInv, AtNet
<1>3. CASE runMode # 2
  BY <1>1, <1>2, <1>3 DEF OrderInv
<1>4. CASE runMode = 2 /\ handlelist[h] = <<>>
  BY <1>1, <1>4, OrderQuiet DEF Pop, qvars
<1>5. CASE runMode = 2 /\ handlelist[h] # <<>>
  <2>0. PICK p : p = Head(handlelist[h])
    OBVIOUS
  <2>. DEFINE c == p[1]
  <2>1. /\ handlelist' = [handlelist EXCEPT ![h] = Tail(@)]
        /\ hand' = [hand EXCEPT ![h] = p]
        /\ handled' = [handled EXCEPT ![c] = Append(@, p[2])]
    <3>1. handlelist' = [handlelist EXCEPT ![h] = Tail(@)]
      BY <1>5 DEF Pop
    <3>2. hand' = [hand EXCEPT ![h] = Head(handlelist[h])]
      BY <1>5 DEF Pop
    <3>3. handled' = [handled EXCEPT ![Head(handlelist[h])[1]] =
                        Append(@, Head(handlelist[h])[2])]
      BY <1>5 DEF Pop
    <3>. QED BY <2>0, <3>1, <3>2, <3>3
  <2>2. /\ p \in Packet /\ c \in Conn /\ p[2] \in 1..MaxPackets
        /\ MaxPackets \in Nat
        /\ p = handlelist[h][1] /\ 1 \in 1..Len(handlelist[h])
        /\ handlelist \in [Handles -> Seq(Packet)]
        /\ handled \in [Conn -> Seq(1..MaxPackets)]
        /\ hand \in [Handles -> Packet \cup {None}]
    <3>1. /\ handlelist \in [Handles -> Seq(Packet)]
          /\ handled \in [Conn -> Seq(1..MaxPackets)]
          /\ hand \in [Handles -> Packet \cup {None}]
          /\ MaxPackets \in Nat
      BY PathAssumption DEF OrderInv, TypeOK, PathAssumption
    <3>2. handlelist[h] \in Seq(Packet) /\ handlelist[h] # <<>>
      BY <1>5, <3>1
    <3>3. /\ p \in Packet /\ p = handlelist[h][1]
          /\ 1 \in 1..Len(handlelist[h])
      BY <2>0, <3>2
    <3>. QED BY <3>1, <3>3 DEF Packet
  <2>3. /\ HandleOf(p) = h
        /\ p[2] <= Inserted(c)
        /\ \A j \in 1..Len(handled[c]) : handled[c][j] < p[2]
    BY <1>5, <2>2 DEF OrderInv, Listed
  <2>4. /\ Len(handled'[c]) = Len(handled[c]) + 1
        /\ Len(handled[c]) \in Nat
        /\ \A i \in 1..Len(handled[c]) : /\ handled'[c][i] = handled[c][i]
                                         /\ handled[c][i] \in Int
        /\ handled'[c][Len(handled[c]) + 1] = p[2]
        /\ \A d \in Conn : d # c => handled'[d] = handled[d]
    <3>1. handled[c] \in Seq(1..MaxPackets) /\ handled'[c] = Append(handled[c], p[2])
      BY <2>1, <2>2
    <3>2. \A d \in Conn : d # c => handled'[d] = handled[d]
      BY <2>1, <2>2
    <3>3. /\ Len(handled[c]) \in Nat
          /\ \A i \in 1..Len(handled[c]) : handled[c][i] \in Int
      BY <2>2, <3>1
    <3>4. p[2] \in 1..MaxPackets
      BY <2>2
    <3>5. /\ Len(handled'[c]) = Len(handled[c]) + 1
          /\ \A i \in 1..Len(handled[c]) : handled'[c][i] = handled[c][i]
          /\ handled'[c][Len(handled[c]) + 1] = p[2]
      BY <3>1, <3>4
    <3>. QED BY <3>2, <3>3, <3>5
  <2>5. Past'
    <3>1. ASSUME NEW d \in Conn, NEW i \in 1..Len(handled'[d])
          PROVE  /\ handled'[d][i] <= Inserted(d)
                 /\ \A j \in 1..Len(handled'[d]) :
                      i < j => handled'[d][i] < handled'[d][j]
      <4>1. CASE d # c
        BY <1>5, <2>4, <4>1 DEF OrderInv, Past
      <4>2. CASE d = c /\ i \in 1..Len(handled[c])
        <5>1. handled[c][i] <= Inserted(c)
          BY <1>5, <2>2, <4>2 DEF OrderInv, Past
        <5>2. ASSUME NEW j \in 1..Len(handled'[c]), i < j
              PROVE  handled'[c][i] < handled'[c][j]
          <6>1. CASE j \in 1..Len(handled[c])
            BY <1>5, <2>2, <2>4, <4>2, <5>2, <6>1 DEF OrderInv, Past
          <6>2. CASE j = Len(handled[c]) + 1
            BY <2>3, <2>4, <4>2, <6>2
          <6>. QED BY <2>4, <6>1, <6>2
        <5>. QED BY <2>4, <4>2, <5>1, <5>2
      <4>3. CASE d = c /\ i = Len(handled[c]) + 1
        BY <2>3, <2>4, <4>3
      <4>. QED BY <2>4, <4>1, <4>2, <4>3
    <3>. QED BY <1>1, <3>1 DEF Past, Inserted
  <2>6. Listed'
    <3>1. ASSUME NEW g \in Handles, NEW i \in 1..Len(handlelist'[g]),
                 NEW q, q = handlelist'[g][i]
          PROVE  /\ HandleOf(q) = g
                 /\ q[2] <= Inserted(q[1])
                 /\ \A j \in 1..Len(handled'[q[1]]) : handled'[q[1]][j] < q[2]
      <4>1. PICK k \in 1..Len(handlelist[g]) :
              /\ q = handlelist[g][k]
              /\ k = IF g = h THEN i + 1 ELSE i
        <5>1. \A m \in 1..Len(handlelist'[g]) : \E k \in 1..Len(handlelist[g]) :
                /\ handlelist'[g][m] = handlelist[g][k]
                /\ k = IF g = h THEN m + 1 ELSE m
          BY <1>5, <2>1, ListFront
        <5>. QED BY <3>1, <5>1
      <4>2. /\ HandleOf(q) = g
            /\ q[2] <= Inserted(q[1])
            /\ \A j \in 1..Len(handled[q[1]]) : handled[q[1]][j] < q[2]
        BY <1>5, <4>1 DEF OrderInv, Listed
      <4>3. q[1] \in Conn
        BY <2>2, <4>1 DEF Packet
      <4>4. CASE q[1] # c
        BY <2>4, <4>2, <4>3, <4>4
      <4>5. CASE q[1] = c
        <5>1. g = h
          BY <2>3, <4>2, <4>5 DEF HandleOf
        <5>2. 1 < k
          BY <4>1, <5>1
        <5>3. p[2] < q[2]
          BY <1>5, <2>2, <4>1, <4>5, <5>1, <5>2 DEF OrderInv, Sorted
        <5>4. ASSUME NEW j \in 1..Len(handled'[c]) PROVE handled'[c][j] < q[2]
          <6>1. CASE j \in 1..Len(handled[c])
            BY <2>4, <4>2, <4>5, <6>1
          <6>2. CASE j = Len(handled[c]) + 1
            BY <2>4, <5>3, <6>2
          <6>. QED BY <2>4, <5>4, <6>1, <6>2
        <5>. QED BY <4>2, <4>5, <5>4
      <4>. QED BY <4>4, <4>5
    <3>. QED BY <1>1, <3>1 DEF Listed, Inserted
  <2>7. Sorted'
    BY <1>5, <2>1, SortedFront
  <2>8. InHand'
    BY <1>5, <2>1, <2>2, <2>3 DEF OrderInv, InHand
  <2>. QED BY <1>2, <2>5, <2>6, <2>7, <2>8 DEF OrderInv
<1>. QED BY <1>3, <1>4, <1>5

\* Every step keeps the order.
LEMMA OrderNext == OrderInv /\ [Next]_vars => OrderInv'
<1>1. SUFFICES ASSUME OrderInv, [Next]_vars PROVE OrderInv'
  OBVIOUS
<1>2. TypeOK'
  BY <1>1, TypeNext DEF OrderInv
<1>3. ASSUME NEW c \in Conn, Parse(c) PROVE OrderInv'
  BY <1>1, <1>2, <1>3, OrderParse
<1>4. ASSUME NEW n \in Nets, Insert(n) PROVE OrderInv'
  BY <1>1, <1>2, <1>4, OrderInsert
<1>5. ASSUME NEW h \in Handles, Handle(h) PROVE OrderInv'
  <2>1. CASE Top(h)
    BY <1>1, <1>2, <2>1, OrderQuiet DEF Top, nvars, qvars
  <2>2. CASE Pop(h)
    BY <1>1, <1>2, <2>2, OrderPop
  <2>3. CASE Finish(h)
    <3>1. \A g \in Handles : hand'[g] = hand[g] \/ hand'[g] = None
      BY <1>1, <2>3 DEF Finish, OrderInv, TypeOK
    <3>. QED BY <1>1, <1>2, <2>3, <3>1, OrderQuiet DEF Finish, nvars, qvars
  <2>. QED BY <1>5, <2>1, <2>2, <2>3 DEF Handle
<1>6. CASE StopBegin
  BY <1>1, <1>2, <1>6, OrderQuiet DEF StopBegin, nvars, qvars, hvars
<1>7. CASE StopStep
  <2>1. CASE Drain
    BY <1>1, <1>2, <2>1, OrderDrain
  <2>2. CASE Terminate \/ Join \/ Drained \/ Deleted \/ StopNet
    <3>1. UNCHANGED <<runMode, parsed, net, handlelist, handled, hand>>
      BY <2>2 DEF Terminate, Join, Drained, Deleted, StopNet, nvars, qvars, hvars
    <3>. QED BY <1>1, <1>2, <3>1, OrderQuiet
  <2>. QED BY <1>7, <2>1, <2>2 DEF StopStep
<1>8. CASE UNCHANGED vars
  BY <1>1, <1>2, <1>8, OrderQuiet DEF vars, nvars, qvars, hvars
<1>. QED BY <1>1, <1>3, <1>4, <1>5, <1>6, <1>7, <1>8 DEF Next

\* In the second mode the packets of a connection are handled in order and
\* one at a time.
THEOREM OrderKept == Spec => []InOrder
<1>1. OrderInv => InOrder
  <2>1. SUFFICES ASSUME OrderInv, runMode = 2, NEW c \in Conn
                 PROVE  /\ \A i, j \in 1..Len(handled[c]) :
                             i < j => handled[c][i] < handled[c][j]
                        /\ Cardinality({h \in Handles : hand[h] # None /\ hand[h][1] = c}) <= 1
    BY DEF InOrder
  <2>2. \A i, j \in 1..Len(handled[c]) : i < j => handled[c][i] < handled[c][j]
    BY <2>1 DEF OrderInv, Past
  <2>. DEFINE H == {h \in Handles : hand[h] # None /\ hand[h][1] = c}
              g == FdOf[c] % HandleNum
  <2>3. H \subseteq {g}
    BY <2>1 DEF OrderInv, InHand, HandleOf
  <2>4. Cardinality({g}) = 1 /\ IsFiniteSet({g})
    BY FS_Singleton
  <2>5. Cardinality(H) <= 1
    BY <2>3, <2>4, FS_Subset
  <2>. QED BY <2>2, <2>5
<1>. QED BY <1>1, OrderInit, OrderNext, PTL DEF Spec

-----------------------------------------------------------------------------
(* Queues as sets.                                                         *)

In(q, p)  == \E i \in 1..Len(q) : q[i] = p
NoTwice(q) == \A i, j \in 1..Len(q) : q[i] = q[j] => i = j

\* A packet is put at the end of a queue.
LEMMA PutLast ==
  ASSUME NEW q \in Seq(Packet), NEW p \in Packet, NoTwice(q), ~In(q, p),
         NEW r, r = Append(q, p)
  PROVE  /\ NoTwice(r)
         /\ \A x : In(r, x) <=> In(q, x) \/ x = p
<1>1. /\ Len(r) = Len(q) + 1 /\ Len(q) \in Nat /\ r[Len(q) + 1] = p
      /\ \A i \in 1..Len(q) : r[i] = q[i]
  BY AppendProperties, LenProperties
<1>2. ASSUME NEW i \in 1..Len(r), NEW j \in 1..Len(r), r[i] = r[j] PROVE i = j
  <2>1. i \in 1..Len(q) \/ i = Len(q) + 1
    BY <1>1
  <2>2. j \in 1..Len(q) \/ j = Len(q) + 1
    BY <1>1
  <2>. QED BY <1>1, <1>2, <2>1, <2>2 DEF NoTwice, In
<1>3. ASSUME NEW x PROVE In(r, x) <=> In(q, x) \/ x = p
  <2>1. ASSUME NEW i \in 1..Len(r), r[i] = x PROVE In(q, x) \/ x = p
    <3>1. i \in 1..Len(q) \/ i = Len(q) + 1
      BY <1>1
    <3>. QED BY <1>1, <2>1, <3>1 DEF In
  <2>2. ASSUME NEW i \in 1..Len(q), q[i] = x PROVE In(r, x)
    <3>1. i \in 1..Len(r)
      BY <1>1
    <3>. QED BY <1>1, <2>2, <3>1 DEF In
  <2>3. In(r, p)
    <3>1. Len(q) + 1 \in 1..Len(r)
      BY <1>1
    <3>. QED BY <1>1, <3>1 DEF In
  <2>. QED BY <2>1, <2>2, <2>3 DEF In
<1>. QED BY <1>2, <1>3 DEF NoTwice

\* The first packet is taken from a queue.
LEMMA TakeFirst ==
  ASSUME NEW q \in Seq(Packet), q # <<>>, NoTwice(q), NEW r, r = Tail(q)
  PROVE  /\ NoTwice(r) /\ In(q, Head(q)) /\ Head(q) \in Packet
         /\ \A x : In(r, x) <=> In(q, x) /\ x # Head(q)
<1>1. /\ Head(q) \in Packet /\ Head(q) = q[1] /\ Len(q) \in Nat \ {0}
      /\ Len(r) = Len(q) - 1 /\ \A i \in 1..Len(r) : r[i] = q[i + 1]
  BY HeadTailProperties, EmptySeq
<1>2. ASSUME NEW i \in 1..Len(r) PROVE i + 1 \in 1..Len(q) /\ i + 1 # 1
  BY <1>1, <1>2
<1>3. 1 \in 1..Len(q)
  BY <1>1
<1>4. ASSUME NEW i \in 1..Len(r), NEW j \in 1..Len(r), r[i] = r[j] PROVE i = j
  <2>1. q[i + 1] = q[j + 1] /\ i + 1 \in 1..Len(q) /\ j + 1 \in 1..Len(q)
    BY <1>1, <1>2, <1>4
  <2>2. i + 1 = j + 1
    BY <2>1 DEF NoTwice
  <2>. QED BY <2>2
<1>5. ASSUME NEW x PROVE In(r, x) <=> In(q, x) /\ x # Head(q)
  <2>1. ASSUME NEW i \in 1..Len(r), r[i] = x PROVE In(q, x) /\ x # Head(q)
    BY <1>1, <1>2, <1>3, <2>1 DEF In, NoTwice
  <2>2. ASSUME NEW i \in 1..Len(q), q[i] = x, x # Head(q) PROVE In(r, x)
    <3>1. i - 1 \in 1..Len(r) /\ (i - 1) + 1 = i
      BY <1>1, <2>2
    <3>2. r[i - 1] = q[(i - 1) + 1]
      BY <1>1, <3>1
    <3>. QED BY <2>2, <3>1, <3>2 DEF In
  <2>. QED BY <2>1, <2>2 DEF In
<1>. QED BY <1>1, <1>3, <1>4, <1>5 DEF In, NoTwice

-----------------------------------------------------------------------------
(* The invariant.                                                          *)

\* A packet that was parsed and not yet given back.
Live(p) == p[2] <= parsed[p[1]] /\ released[p] = 0
\* The places it may be at.
AtSome(p) == \/ \E n \in Nets : net[n] = p
             \/ \E h \in Handles : hand[h] = p
             \/ In(recvlist, p)
             \/ \E h \in Handles : In(handlelist[h], p)
\* It is at one place at most.
AtMostOne(p) ==
  /\ \A n, m \in Nets : net[n] = p /\ net[m] = p => n = m
  /\ \A h, g \in Handles : hand[h] = p /\ hand[g] = p => h = g
  /\ \A h, g \in Handles : In(handlelist[h], p) /\ In(handlelist[g], p) => h = g
  /\ \A n \in Nets : net[n] = p =>
       /\ ~In(recvlist, p)
       /\ \A h \in Handles : hand[h] # p /\ ~In(handlelist[h], p)
  /\ \A h \in Handles : hand[h] = p =>
       /\ ~In(recvlist, p)
       /\ \A g \in Handles : ~In(handlelist[g], p)
  /\ In(recvlist, p) => \A h \in Handles : ~In(handlelist[h], p)
One(p) == /\ Live(p) <=> AtSome(p)
          /\ AtMostOne(p)
          /\ p[2] > parsed[p[1]] => released[p] = 0

Queues == NoTwice(recvlist) /\ \A h \in Handles : NoTwice(handlelist[h])
Empty  == \A h \in Handles : hpc[h] # "handle" => hand[h] = None

OwnInv == TypeOK /\ Queues /\ Empty /\ \A p \in Packet : One(p)

\* No packet is the mark of an empty hand.
LEMMA NotNone == None \notin Packet
BY DEF None, Packet

\* What a set with at most one member counts to.
LEMMA CountOne ==
  ASSUME NEW T, \A a, b \in T : a = b
  PROVE  Cardinality(T) = IF T = {} THEN 0 ELSE 1
<1>1. CASE T # {}
  <2>1. PICK a \in T : TRUE
    BY <1>1
  <2>2. T = {a}
    BY <2>1
  <2>. QED BY <1>1, <2>2, FS_Singleton
<1>. QED BY <1>1, FS_EmptySet

\* A packet is in a queue as often as its members say.
LEMMA TimesIn ==
  ASSUME NEW q, NEW p, NoTwice(q)
  PROVE  Times(q, p) = IF In(q, p) THEN 1 ELSE 0
<1>. DEFINE T == {i \in 1..Len(q) : q[i] = p}
<1>1. \A i, j \in T : i = j
  BY DEF NoTwice
<1>2. In(q, p) <=> T # {}
  BY DEF In
<1>3. Cardinality(T) = IF T = {} THEN 0 ELSE 1
  BY <1>1, CountOne
<1>. QED BY <1>2, <1>3 DEF Times

\* The invariant implies the property.
LEMMA OwnImplies == OwnInv => OneOwner
<1>1. SUFFICES ASSUME OwnInv, NEW p \in Packet
               PROVE  Cardinality({n \in Nets : net[n] = p})
                      + Cardinality({h \in Handles : hand[h] = p})
                      + Times(recvlist, p)
                      + Cardinality({h \in Handles : Times(handlelist[h], p) > 0})
                      = IF p[2] <= parsed[p[1]] /\ released[p] = 0 THEN 1 ELSE 0
  BY DEF OneOwner
<1>. DEFINE N == {n \in Nets : net[n] = p}
            H == {h \in Handles : hand[h] = p}
            L == {h \in Handles : In(handlelist[h], p)}
<1>2. One(p)
  BY <1>1 DEF OwnInv
<1>3. Cardinality(N) = IF N = {} THEN 0 ELSE 1
  <2>1. \A a, b \in N : a = b
    BY <1>2 DEF One, AtMostOne
  <2>. HIDE DEF N
  <2>. QED BY <2>1, CountOne
<1>4. Cardinality(H) = IF H = {} THEN 0 ELSE 1
  <2>1. \A a, b \in H : a = b
    BY <1>2 DEF One, AtMostOne
  <2>. HIDE DEF H
  <2>. QED BY <2>1, CountOne
<1>5. Cardinality(L) = IF L = {} THEN 0 ELSE 1
  <2>1. \A a, b \in L : a = b
    BY <1>2 DEF One, AtMostOne
  <2>. HIDE DEF L
  <2>. QED BY <2>1, CountOne
<1>6. L = {h \in Handles : Times(handlelist[h], p) > 0}
  <2>1. \A h \in Handles : Times(handlelist[h], p) = IF In(handlelist[h], p) THEN 1 ELSE 0
    BY <1>1, TimesIn DEF OwnInv, Queues
  <2>. QED BY <2>1
<1>7. Times(recvlist, p) = IF In(recvlist, p) THEN 1 ELSE 0
  BY <1>1, TimesIn DEF OwnInv, Queues
<1>8. /\ N # {} => H = {} /\ L = {} /\ ~In(recvlist, p)
      /\ H # {} => L = {} /\ ~In(recvlist, p)
      /\ In(recvlist, p) => L = {}
  BY <1>2 DEF One, AtMostOne
<1>9. p[2] <= parsed[p[1]] /\ released[p] = 0
        <=> N # {} \/ H # {} \/ In(recvlist, p) \/ L # {}
  BY <1>2 DEF One, Live, AtSome
<1>. HIDE DEF N, H, L
<1>10. Cardinality(N) + Cardinality(H) + Times(recvlist, p) + Cardinality(L)
         = IF p[2] <= parsed[p[1]] /\ released[p] = 0 THEN 1 ELSE 0
  BY <1>3, <1>4, <1>5, <1>7, <1>8, <1>9
<1>. QED BY <1>6, <1>10 DEF N, H

\* No packet was parsed yet.
LEMMA OwnInit == Init => OwnInv
<1>1. SUFFICES ASSUME Init PROVE OwnInv
  OBVIOUS
<1>2. TypeOK
  BY <1>1, TypeInit
<1>3. /\ \A n \in Nets : net[n] = None
      /\ \A h \in Handles : hand[h] = None /\ handlelist[h] = <<>>
      /\ recvlist = <<>> /\ \A c \in Conn : parsed[c] = 0
      /\ \A p \in Packet : released[p] = 0
  BY <1>1 DEF Init
<1>4. \A p : ~In(<<>>, p)
  BY DEF In
<1>5. Queues /\ Empty
  BY <1>3 DEF Queues, NoTwice, Empty
<1>6. ASSUME NEW p \in Packet PROVE One(p)
  <2>1. p # None /\ p[1] \in Conn /\ p[2] \in 1..MaxPackets
    BY NotNone DEF Packet
  <2>2. ~Live(p) /\ ~AtSome(p)
    BY <1>3, <1>4, <2>1 DEF Live, AtSome
  <2>3. AtMostOne(p)
    BY <1>3, <1>4, <2>1 DEF AtMostOne
  <2>. QED BY <1>3, <2>2, <2>3 DEF One
<1>. QED BY <1>2, <1>5, <1>6 DEF OwnInv

-----------------------------------------------------------------------------
(* The steps.                                                              *)

\* A packet that a step does not move.
LEMMA SameOne ==
  ASSUME NEW p \in Packet, One(p),
         \A n \in Nets : net'[n] = p <=> net[n] = p,
         \A h \in Handles : hand'[h] = p <=> hand[h] = p,
         \A h \in Handles : In(handlelist'[h], p) <=> In(handlelist[h], p),
         In(recvlist', p) <=> In(recvlist, p),
         released'[p] = released[p],
         p[2] <= parsed'[p[1]] <=> p[2] <= parsed[p[1]],
         p[2] > parsed'[p[1]] => p[2] > parsed[p[1]]
  PROVE  One(p)'
<1>1. Live(p)' <=> Live(p)
  BY DEF Live
<1>2. AtSome(p)' <=> AtSome(p)
  BY DEF AtSome
<1>3. AtMostOne(p)'
  BY DEF One, AtMostOne
<1>. QED BY <1>1, <1>2, <1>3 DEF One

\* A step that moves no packet.
LEMMA OwnQuiet ==
  ASSUME OwnInv, TypeOK', UNCHANGED <<parsed, net, recvlist, handlelist, hand, released>>,
         \A h \in Handles : hpc'[h] # "handle" => hpc[h] # "handle"
  PROVE  OwnInv'
<1>1. Queues' /\ Empty'
  BY DEF OwnInv, Queues, Empty
<1>2. \A p \in Packet : One(p)'
  BY SameOne DEF OwnInv
<1>. QED BY <1>1, <1>2 DEF OwnInv

\* A packet is parsed: the network thread holds it.
LEMMA OwnParse ==
  ASSUME OwnInv, TypeOK', NEW c \in Conn, Parse(c)
  PROVE  OwnInv'
<1>. DEFINE m == NetOf(c)
<1>0. PICK k, p : k = parsed[c] + 1 /\ p = <<c, k>>
  OBVIOUS
<1>1. /\ m \in Nets /\ net[m] = None /\ k \in 1..MaxPackets /\ p \in Packet
      /\ p # None /\ parsed \in [Conn -> 0..MaxPackets]
      /\ net \in [Nets -> Packet \cup {None}] /\ MaxPackets \in Nat
  <2>1. /\ parsed \in [Conn -> 0..MaxPackets] /\ net \in [Nets -> Packet \cup {None}]
        /\ MaxPackets \in Nat
    BY PathAssumption DEF OwnInv, TypeOK, PathAssumption
  <2>2. m \in Nets /\ net[m] = None /\ parsed[c] < MaxPackets
    BY NetExists DEF Parse
  <2>3. k \in 1..MaxPackets
    BY <1>0, <2>1, <2>2
  <2>. QED BY <1>0, <2>1, <2>2, <2>3, NotNone DEF Packet
<1>2. /\ parsed' = [parsed EXCEPT ![c] = k] /\ net' = [net EXCEPT ![m] = p]
      /\ UNCHANGED <<recvlist, handlelist, hand, hpc, released>>
  BY <1>0 DEF Parse, qvars, hvars
<1>3. Queues' /\ Empty'
  BY <1>2 DEF OwnInv, Queues, Empty
<1>4. One(p) /\ p[1] = c /\ p[2] = k
  BY <1>0, <1>1 DEF OwnInv
<1>5. ~AtSome(p) /\ released[p] = 0
  <2>1. k > parsed[c] /\ ~(k <= parsed[c])
    BY <1>0, <1>1
  <2>. QED BY <1>4, <2>1 DEF One, Live
<1>. HIDE DEF m
<1>6. One(p)'
  <2>1. /\ net'[m] = p /\ \A n \in Nets : net'[n] = p => n = m
        /\ parsed'[p[1]] = p[2]
    BY <1>1, <1>2, <1>4, <1>5 DEF AtSome
  <2>2. p[2] <= parsed'[p[1]] /\ ~(p[2] > parsed'[p[1]])
    BY <1>1, <1>4, <2>1
  <2>3. Live(p)' /\ AtSome(p)'
    BY <1>1, <1>2, <1>5, <2>1, <2>2 DEF Live, AtSome
  <2>4. AtMostOne(p)'
    BY <1>2, <1>5, <2>1 DEF AtMostOne, AtSome
  <2>. QED BY <2>2, <2>3, <2>4 DEF One
<1>7. ASSUME NEW q \in Packet, q # p PROVE One(q)'
  <2>1. \A n \in Nets : net'[n] = q <=> net[n] = q
    BY <1>1, <1>2, <1>7, NotNone
  <2>2. /\ q[2] <= parsed'[q[1]] <=> q[2] <= parsed[q[1]]
        /\ q[2] > parsed'[q[1]] => q[2] > parsed[q[1]]
    <3>1. q[1] \in Conn /\ q[2] \in 1..MaxPackets /\ q = <<q[1], q[2]>>
      BY DEF Packet
    <3>2. CASE q[1] # c
      BY <1>1, <1>2, <3>1, <3>2
    <3>3. CASE q[1] = c
      <4>1. q[2] # k
        BY <1>0, <1>7, <3>1, <3>3
      <4>2. parsed'[c] = k /\ k = parsed[c] + 1 /\ parsed[c] \in Nat
        BY <1>0, <1>1, <1>2
      <4>3. q[2] \in Nat
        BY <1>1, <3>1
      <4>. QED BY <3>3, <4>1, <4>2, <4>3
    <3>. QED BY <3>2, <3>3
  <2>. QED BY <1>2, <2>1, <2>2, SameOne DEF OwnInv
<1>. QED BY <1>3, <1>6, <1>7 DEF OwnInv

\* What a network thread holds is put into a queue or released.
LEMMA OwnInsert ==
  ASSUME OwnInv, TypeOK', NEW n \in Nets, InsertShared(n) \/ InsertOwn(n)
  PROVE  OwnInv'
<1>0. PICK p : p = net[n]
  OBVIOUS
<1>1. /\ net \in [Nets -> Packet \cup {None}] /\ recvlist \in Seq(Packet)
      /\ handlelist \in [Handles -> Seq(Packet)] /\ released \in [Packet -> Nat]
      /\ p \in Packet
  BY <1>0 DEF OwnInv, TypeOK, InsertShared, InsertOwn
<1>2. /\ net' = [net EXCEPT ![n] = None] /\ UNCHANGED <<parsed, hand, hpc>>
  BY DEF InsertShared, InsertOwn, hvars
<1>3. One(p)
  BY <1>1 DEF OwnInv
<1>4. Live(p) /\ ~In(recvlist, p) /\ \A h \in Handles : hand[h] # p /\ ~In(handlelist[h], p)
  BY <1>0, <1>3 DEF One, AtSome, AtMostOne
<1>5. /\ \A l \in Nets : net'[l] # p
      /\ \A q \in Packet : q # p => \A l \in Nets : net'[l] = q <=> net[l] = q
  BY <1>0, <1>1, <1>2, <1>3, NotNone DEF One, AtMostOne
<1>6. Empty'
  BY <1>2 DEF OwnInv, Empty
<1>7. HandleOf(p) \in Handles
  BY <1>1, PathAssumption DEF PathAssumption, HandleOf, Handles, Packet
<1>8. CASE recvlist' = Append(recvlist, p) /\ UNCHANGED <<handlelist, released>>
  <2>1. /\ NoTwice(recvlist') /\ \A q : In(recvlist', q) <=> In(recvlist, q) \/ q = p
    BY <1>1, <1>4, <1>8, PutLast DEF OwnInv, Queues
  <2>2. Queues'
    BY <1>8, <2>1 DEF OwnInv, Queues
  <2>3. One(p)'
    <3>1. Live(p)' /\ AtSome(p)'
      BY <1>2, <1>4, <1>8, <2>1 DEF Live, AtSome
    <3>2. AtMostOne(p)'
      BY <1>2, <1>4, <1>5, <1>8 DEF AtMostOne
    <3>3. ~(p[2] > parsed'[p[1]]) \/ released'[p] = 0
      BY <3>1 DEF Live
    <3>. QED BY <3>1, <3>2, <3>3 DEF One
  <2>4. ASSUME NEW q \in Packet, q # p PROVE One(q)'
    BY <1>2, <1>5, <1>8, <2>1, <2>4, SameOne DEF OwnInv
  <2>. QED BY <1>6, <2>2, <2>3, <2>4 DEF OwnInv
<1>9. CASE /\ handlelist' = [handlelist EXCEPT ![HandleOf(p)] = Append(@, p)]
           /\ UNCHANGED <<recvlist, released>>
  <2>0. PICK h : h = HandleOf(p)
    OBVIOUS
  <2>1. /\ h \in Handles /\ handlelist'[h] = Append(handlelist[h], p)
        /\ \A g \in Handles : g # h => handlelist'[g] = handlelist[g]
    BY <1>1, <1>7, <1>9, <2>0
  <2>2. /\ NoTwice(handlelist'[h])
        /\ \A q : In(handlelist'[h], q) <=> In(handlelist[h], q) \/ q = p
    <3>1. handlelist[h] \in Seq(Packet) /\ NoTwice(handlelist[h]) /\ ~In(handlelist[h], p)
      BY <1>1, <1>4, <2>1 DEF OwnInv, Queues
    <3>. QED BY <1>1, <2>1, <3>1, PutLast
  <2>3. Queues'
    BY <1>9, <2>1, <2>2 DEF OwnInv, Queues
  <2>4. One(p)'
    <3>1. Live(p)' /\ AtSome(p)'
      BY <1>2, <1>4, <1>9, <2>1, <2>2 DEF Live, AtSome
    <3>2. \A g \in Handles : In(handlelist'[g], p) => g = h
      BY <1>4, <2>1
    <3>3. AtMostOne(p)'
      BY <1>2, <1>4, <1>5, <1>9, <3>2 DEF AtMostOne
    <3>4. ~(p[2] > parsed'[p[1]]) \/ released'[p] = 0
      BY <3>1 DEF Live
    <3>. QED BY <3>1, <3>3, <3>4 DEF One
  <2>5. ASSUME NEW q \in Packet, q # p PROVE One(q)'
    <3>1. \A g \in Handles : In(handlelist'[g], q) <=> In(handlelist[g], q)
      BY <2>1, <2>2, <2>5
    <3>. QED BY <1>2, <1>5, <1>9, <2>5, <3>1, SameOne DEF OwnInv
  <2>. QED BY <1>6, <2>3, <2>4, <2>5 DEF OwnInv
<1>10. CASE /\ UNCHANGED <<recvlist, handlelist>>
            /\ \E k \in {1, 2} : Release(p, k)
  <2>1. /\ released'[p] # 0 /\ \A q \in Packet : q # p => released'[q] = released[q]
    BY <1>1, <1>10 DEF Release
  <2>2. Queues'
    BY <1>10 DEF OwnInv, Queues
  <2>3. One(p)'
    <3>1. ~Live(p)' /\ ~AtSome(p)'
      BY <1>2, <1>4, <1>5, <1>10, <2>1 DEF Live, AtSome
    <3>2. AtMostOne(p)'
      BY <3>1 DEF AtMostOne, AtSome
    <3>3. ~(p[2] > parsed'[p[1]])
      <4>1. p[2] <= parsed[p[1]] /\ p[2] \in Int /\ parsed[p[1]] \in Int
        BY <1>1, <1>4, PathAssumption DEF Live, OwnInv, TypeOK, Packet, PathAssumption
      <4>. QED BY <1>2, <4>1
    <3>. QED BY <3>1, <3>2, <3>3 DEF One
  <2>4. ASSUME NEW q \in Packet, q # p PROVE One(q)'
    BY <1>2, <1>5, <1>10, <2>1, <2>4, SameOne DEF OwnInv
  <2>. QED BY <1>6, <2>2, <2>3, <2>4 DEF OwnInv
<1>. QED BY <1>0, <1>8, <1>9, <1>10 DEF InsertShared, InsertOwn

\* A packet passes from the front of a queue to a handle thread.
LEMMA OwnPop ==
  ASSUME OwnInv, TypeOK', NEW h \in Handles, Pop(h)
  PROVE  OwnInv'
<1>. DEFINE q == IF runMode = 1 THEN recvlist ELSE handlelist[h]
<1>1. /\ recvlist \in Seq(Packet) /\ handlelist \in [Handles -> Seq(Packet)]
      /\ hand \in [Handles -> Packet \cup {None}] /\ hand[h] = None
      /\ hpc[h] = "pop" /\ hpc \in [Handles -> {"top", "pop", "handle", "exited"}]
      /\ UNCHANGED <<parsed, net, released>>
  BY DEF OwnInv, TypeOK, Empty, Pop, nvars
<1>2. CASE q = <<>>
  <2>1. UNCHANGED <<recvlist, handlelist, hand>> /\ hpc' = [hpc EXCEPT ![h] = "top"]
    BY <1>2 DEF Pop, qvars
  <2>2. \A g \in Handles : hpc'[g] # "handle" => hpc[g] # "handle"
    BY <1>1, <2>1
  <2>. QED BY <1>1, <2>1, <2>2, OwnQuiet
<1>3. CASE q # <<>>
  <2>0. PICK p : p = Head(q)
    OBVIOUS
  <2>1. q \in Seq(Packet) /\ NoTwice(q)
    BY <1>1 DEF OwnInv, Queues
  <2>2. /\ hand' = [hand EXCEPT ![h] = p] /\ hpc' = [hpc EXCEPT ![h] = "handle"]
        /\ IF runMode = 1
           THEN recvlist' = Tail(q) /\ UNCHANGED handlelist
           ELSE handlelist' = [handlelist EXCEPT ![h] = Tail(q)] /\ UNCHANGED recvlist
    BY <1>3, <2>0 DEF Pop
  <2>3. PICK r : r = Tail(q)
    OBVIOUS
  <2>4. /\ NoTwice(r) /\ In(q, p) /\ p \in Packet
        /\ \A x : In(r, x) <=> In(q, x) /\ x # p
    <3>. HIDE DEF q
    <3>. QED BY <1>3, <2>0, <2>1, <2>3, TakeFirst
  <2>5. One(p)
    BY <2>4 DEF OwnInv
  <2>6. /\ \A n \in Nets : net[n] # p
        /\ \A g \in Handles : hand[g] # p
    BY <2>4, <2>5 DEF One, AtMostOne
  <2>7. /\ hand'[h] = p /\ \A g \in Handles : g # h => hand'[g] = hand[g]
        /\ \A x \in Packet : x # p => \A g \in Handles : hand'[g] = x <=> hand[g] = x
    BY <1>1, <2>2, <2>4, NotNone
  <2>8. Empty'
    BY <1>1, <2>2, <2>7 DEF OwnInv, Empty
  <2>9. Queues'
    BY <1>1, <2>2, <2>3, <2>4 DEF OwnInv, Queues
  <2>10. /\ ~In(recvlist', p) /\ \A g \in Handles : ~In(handlelist'[g], p)
         /\ \A x : x # p => /\ In(recvlist', x) <=> In(recvlist, x)
                            /\ \A g \in Handles : In(handlelist'[g], x) <=> In(handlelist[g], x)
    <3>1. CASE runMode = 1
      <4>1. recvlist' = r /\ UNCHANGED handlelist /\ q = recvlist
        BY <2>2, <2>3, <3>1
      <4>. QED BY <2>4, <2>5, <4>1 DEF One, AtMostOne
    <3>2. CASE runMode # 1
      <4>1. /\ UNCHANGED recvlist /\ q = handlelist[h] /\ handlelist'[h] = r
            /\ \A g \in Handles : g # h => handlelist'[g] = handlelist[g]
        BY <1>1, <2>2, <2>3, <3>2
      <4>. QED BY <2>4, <2>5, <4>1 DEF One, AtMostOne
    <3>. QED BY <3>1, <3>2
  <2>11. One(p)'
    <3>1. Live(p)
      BY <2>4, <2>5 DEF One, AtSome
    <3>2. Live(p)' /\ AtSome(p)'
      BY <1>1, <2>7, <3>1 DEF Live, AtSome
    <3>3. \A g \in Handles : hand'[g] = p => g = h
      BY <2>6, <2>7
    <3>4. AtMostOne(p)'
      BY <1>1, <2>6, <2>10, <3>3 DEF AtMostOne
    <3>. QED BY <3>2, <3>4 DEF One, Live
  <2>12. ASSUME NEW x \in Packet, x # p PROVE One(x)'
    BY <1>1, <2>7, <2>10, <2>12, SameOne DEF OwnInv
  <2>. QED BY <2>8, <2>9, <2>11, <2>12 DEF OwnInv
<1>. QED BY <1>2, <1>3

\* What is at no place any more and was released once.
LEMMA Gone ==
  ASSUME OwnInv, NEW p \in Packet, Live(p), ~AtSome(p)', UNCHANGED parsed,
         released' = [released EXCEPT ![p] = @ + 1]
  PROVE  One(p)' /\ \A x \in Packet : x # p => released'[x] = released[x]
<1>1. released \in [Packet -> Nat]
  BY DEF OwnInv, TypeOK
<1>2. released'[p] # 0 /\ \A x \in Packet : x # p => released'[x] = released[x]
  BY <1>1
<1>3. ~Live(p)' /\ AtMostOne(p)'
  BY <1>2 DEF Live, AtMostOne, AtSome
<1>4. ~(p[2] > parsed'[p[1]])
  <2>1. p[2] <= parsed[p[1]] /\ p[2] \in Int /\ parsed[p[1]] \in Int
    BY PathAssumption DEF Live, OwnInv, TypeOK, Packet, PathAssumption
  <2>. QED BY <2>1
<1>. QED BY <1>2, <1>3, <1>4 DEF One

\* The handle thread gives its packet back.
LEMMA OwnFinish ==
  ASSUME OwnInv, TypeOK', NEW h \in Handles, Finish(h)
  PROVE  OwnInv'
<1>0. PICK p : p = hand[h]
  OBVIOUS
<1>1. /\ hand \in [Handles -> Packet \cup {None}] /\ p \in Packet
      /\ hpc \in [Handles -> {"top", "pop", "handle", "exited"}]
      /\ hand' = [hand EXCEPT ![h] = None] /\ hpc' = [hpc EXCEPT ![h] = "top"]
      /\ released' = [released EXCEPT ![p] = @ + 1]
      /\ UNCHANGED <<parsed, net, recvlist, handlelist>>
  BY <1>0 DEF OwnInv, TypeOK, Finish, Release, nvars, qvars
<1>2. One(p)
  BY <1>1 DEF OwnInv
<1>3. /\ \A g \in Handles : hand'[g] # p
      /\ \A x \in Packet : x # p => \A g \in Handles : hand'[g] = x <=> hand[g] = x
  BY <1>0, <1>1, <1>2, NotNone DEF One, AtMostOne
<1>4. Live(p) /\ ~AtSome(p)'
  BY <1>0, <1>1, <1>2, <1>3 DEF One, AtMostOne, AtSome
<1>5. One(p)' /\ \A x \in Packet : x # p => released'[x] = released[x]
  BY <1>1, <1>4, Gone
<1>6. ASSUME NEW x \in Packet, x # p PROVE One(x)'
  BY <1>1, <1>3, <1>5, <1>6, SameOne DEF OwnInv
<1>7. Queues' /\ Empty'
  BY <1>1 DEF OwnInv, Queues, Empty
<1>. QED BY <1>5, <1>6, <1>7 DEF OwnInv

\* The destructor releases the first packet of its queue.
LEMMA OwnDrain ==
  ASSUME OwnInv, TypeOK', Drain
  PROVE  OwnInv'
<1>0. PICK h, p, r : h = turn /\ p = Head(handlelist[h]) /\ r = Tail(handlelist[h])
  OBVIOUS
<1>1. /\ handlelist \in [Handles -> Seq(Packet)] /\ h \in Handles
      /\ handlelist[h] # <<>>
      /\ handlelist' = [handlelist EXCEPT ![h] = r]
      /\ released' = [released EXCEPT ![p] = @ + 1]
      /\ UNCHANGED <<parsed, net, recvlist, hand, hpc>>
  BY <1>0 DEF OwnInv, TypeOK, Drain, Release, nvars, hvars
<1>2. /\ NoTwice(r) /\ In(handlelist[h], p) /\ p \in Packet
      /\ \A x : In(r, x) <=> In(handlelist[h], x) /\ x # p
  <2>1. handlelist[h] \in Seq(Packet) /\ NoTwice(handlelist[h])
    BY <1>1 DEF OwnInv, Queues
  <2>. QED BY <1>0, <1>1, <2>1, TakeFirst
<1>3. One(p)
  BY <1>2 DEF OwnInv
<1>4. handlelist'[h] = r /\ \A g \in Handles : g # h => handlelist'[g] = handlelist[g]
  BY <1>1
<1>5. /\ \A g \in Handles : ~In(handlelist'[g], p)
      /\ \A x : x # p => \A g \in Handles : In(handlelist'[g], x) <=> In(handlelist[g], x)
  BY <1>1, <1>2, <1>3, <1>4 DEF One, AtMostOne
<1>6. Live(p) /\ ~AtSome(p)'
  BY <1>1, <1>2, <1>3, <1>5 DEF One, AtMostOne, AtSome
<1>7. One(p)' /\ \A x \in Packet : x # p => released'[x] = released[x]
  BY <1>1, <1>2, <1>6, Gone
<1>8. ASSUME NEW x \in Packet, x # p PROVE One(x)'
  BY <1>1, <1>5, <1>7, <1>8, SameOne DEF OwnInv
<1>9. Queues' /\ Empty'
  BY <1>1, <1>2, <1>4 DEF OwnInv, Queues, Empty
<1>. QED BY <1>7, <1>8, <1>9 DEF OwnInv

-----------------------------------------------------------------------------
(* The theorem.                                                            *)

\* Every step keeps the invariant.
LEMMA OwnNext == OwnInv /\ [Next]_vars => OwnInv'
<1>1. SUFFICES ASSUME OwnInv, [Next]_vars PROVE OwnInv'
  OBVIOUS
<1>2. TypeOK'
  BY <1>1, TypeNext DEF OwnInv
<1>3. CASE \E c \in Conn : Parse(c)
  BY <1>1, <1>2, <1>3, OwnParse
<1>4. CASE \E n \in Nets : InsertShared(n) \/ InsertOwn(n)
  BY <1>1, <1>2, <1>4, OwnInsert
<1>5. CASE \E n \in Nets : InsertDead(n)
  BY <1>1, <1>2, <1>5, OwnQuiet DEF InsertDead, nvars, qvars, hvars
<1>6. CASE \E h \in Handles : Top(h)
  <2>1. PICK h \in Handles : Top(h)
    BY <1>6
  <2>2. \A g \in Handles : hpc'[g] # "handle" => hpc[g] # "handle"
    BY <1>1, <2>1 DEF OwnInv, TypeOK, Top
  <2>. QED BY <1>1, <1>2, <2>1, <2>2, OwnQuiet DEF Top, nvars, qvars
<1>7. CASE \E h \in Handles : Pop(h)
  BY <1>1, <1>2, <1>7, OwnPop
<1>8. CASE \E h \in Handles : Finish(h)
  BY <1>1, <1>2, <1>8, OwnFinish
<1>9. CASE Drain
  BY <1>1, <1>2, <1>9, OwnDrain
<1>10. CASE StopBegin \/ Terminate \/ Join \/ Drained \/ Deleted \/ StopNet
  <2>1. UNCHANGED <<parsed, net, recvlist, handlelist, hand, hpc, released>>
    BY <1>10 DEF StopBegin, Terminate, Join, Drained, Deleted, StopNet,
                 nvars, qvars, hvars
  <2>. QED BY <1>1, <1>2, <2>1, OwnQuiet
<1>11. CASE UNCHANGED vars
  BY <1>1, <1>2, <1>11, OwnQuiet DEF vars, nvars, qvars, hvars
<1>. QED BY <1>1, <1>3, <1>4, <1>5, <1>6, <1>7, <1>8, <1>9, <1>10, <1>11
         DEF Next, Insert, Handle, StopStep

\* epoll_server.h:401-435 and handle_thread.h hand a packet on by pointer,
\* from ParseImp to a queue, to handleImp or the destructor, to delete: at
\* any time exactly one of them has it, and nobody once it was released,
\* whatever the queues refuse and whenever Stop is called.
THEOREM OwnerKept == Spec => []OneOwner
<1>1. OwnInv => OneOwner
  BY OwnImplies
<1>. QED BY <1>1, OwnInit, OwnNext, PTL DEF Spec
===============================================================================
