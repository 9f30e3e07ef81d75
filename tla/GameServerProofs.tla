--------------------------- MODULE GameServerProofs ---------------------------
(***************************************************************************)
(* Proofs about GameServer for any number of clients, ids, products and    *)
(* packets.                                                                *)
(***************************************************************************)
EXTENDS GameServer, SequenceTheorems, WellFoundedInduction, TLAPS

-----------------------------------------------------------------------------
(* Sequences.                                                              *)

LEMMA InAppend ==
  ASSUME NEW S, NEW s \in Seq(S), NEW x \in S
  PROVE  /\ Append(s, x) \in Seq(S)
         /\ \A i \in 1..Len(Append(s, x)) : \/ Append(s, x)[i] = x /\ i = Len(s) + 1
                                            \/ i \in 1..Len(s) /\ Append(s, x)[i] = s[i]
<1>1. Len(Append(s, x)) = Len(s) + 1 /\ Len(s) \in Nat /\ Append(s, x) \in Seq(S)
  BY AppendProperties, LenProperties
<1>2. Append(s, x)[Len(s) + 1] = x /\ \A i \in 1..Len(s) : Append(s, x)[i] = s[i]
  BY AppendProperties
<1>. QED BY <1>1, <1>2

LEMMA InTail ==
  ASSUME NEW S, NEW s \in Seq(S), s # <<>>
  PROVE  /\ Len(s) \in Nat \ {0} /\ Len(Tail(s)) = Len(s) - 1
         /\ Head(s) = s[1] /\ 1 \in 1..Len(s) /\ Head(s) \in S /\ Tail(s) \in Seq(S)
         /\ \A i \in 1..Len(Tail(s)) : i + 1 \in 1..Len(s) /\ Tail(s)[i] = s[i + 1]
<1>1. Len(s) \in Nat \ {0} /\ Len(Tail(s)) = Len(s) - 1 /\ Head(s) \in S /\ Tail(s) \in Seq(S)
  BY HeadTailProperties, LenProperties, EmptySeq
<1>. QED BY <1>1, HeadTailProperties

\* The end of a sequence.
LEMMA InSuffix ==
  ASSUME NEW S, NEW s \in Seq(S), NEW n \in 1..Len(s)
  PROVE  /\ SubSeq(s, n + 1, Len(s)) \in Seq(S)
         /\ \A i \in 1..Len(SubSeq(s, n + 1, Len(s))) :
              i + n \in 1..Len(s) /\ SubSeq(s, n + 1, Len(s))[i] = s[i + n]
<1>1. Len(s) \in Nat /\ n + 1 \in 1..(Len(s) + 1)
  BY LenProperties
<1>2. \A i \in (n + 1)..Len(s) : s[i] \in S
  BY <1>1, LenProperties
<1>3. /\ SubSeq(s, n + 1, Len(s)) \in Seq(S)
      /\ Len(SubSeq(s, n + 1, Len(s))) = IF n + 1 <= Len(s) THEN Len(s) - (n + 1) + 1 ELSE 0
      /\ \A i \in 1..(Len(s) - (n + 1) + 1) : SubSeq(s, n + 1, Len(s))[i] = s[n + 1 + i - 1]
  BY <1>1, <1>2, SubSeqProperties
<1>. QED BY <1>1, <1>3

\* The free list without its first element, and with one more at its end.
LEMMA FreeTail ==
  ASSUME NEW S, NEW s \in Seq(S), s # <<>>, IsInjective(s)
  PROVE  IsInjective(Tail(s)) /\ Range(Tail(s)) = Range(s) \ {Head(s)} /\ Head(s) \in Range(s)
<1>1. /\ Len(s) \in Nat \ {0} /\ Len(Tail(s)) = Len(s) - 1 /\ Head(s) = s[1]
      /\ DOMAIN s = 1..Len(s) /\ DOMAIN Tail(s) = 1..Len(Tail(s))
      /\ \A i \in 1..Len(Tail(s)) : i + 1 \in 1..Len(s) /\ Tail(s)[i] = s[i + 1]
  BY InTail, LenProperties
<1>2. \A i, j \in 1..Len(s) : s[i] = s[j] => i = j
  BY <1>1 DEF IsInjective
<1>3. IsInjective(Tail(s))
  BY <1>1, <1>2 DEF IsInjective
<1>4. Range(Tail(s)) \subseteq Range(s) \ {Head(s)}
  BY <1>1, <1>2 DEF Range
<1>5. ASSUME NEW i \in 1..Len(s), s[i] # s[1] PROVE s[i] \in Range(Tail(s))
  <2>1. i - 1 \in 1..Len(Tail(s)) /\ Tail(s)[i - 1] = s[i]
    BY <1>1, <1>5
  <2>. QED BY <1>1, <2>1 DEF Range
<1>. QED BY <1>1, <1>3, <1>4, <1>5 DEF Range

LEMMA FreeAppend ==
  ASSUME NEW S, NEW s \in Seq(S), NEW x \in S, x \notin Range(s), IsInjective(s)
  PROVE  IsInjective(Append(s, x)) /\ Range(Append(s, x)) = Range(s) \cup {x}
<1>1. /\ Len(Append(s, x)) = Len(s) + 1 /\ Len(s) \in Nat
      /\ DOMAIN s = 1..Len(s) /\ DOMAIN Append(s, x) = 1..(Len(s) + 1)
      /\ Append(s, x)[Len(s) + 1] = x /\ \A i \in 1..Len(s) : Append(s, x)[i] = s[i]
  BY AppendProperties, LenProperties
<1>2. \A i \in 1..Len(s) : s[i] # x
  BY <1>1 DEF Range
<1>. QED BY <1>1, <1>2 DEF Range, IsInjective

-----------------------------------------------------------------------------
(* Ids, players and packets.                                               *)

Message == [pkt : Packet \cup [op : {"LOGOUT"}], uid : Ids, from : Clients]

LEMMA MessageFacts ==
  ASSUME NEW m \in Message PROVE m.uid \in Ids /\ m.from \in Clients
BY DEF Message

\* A client that was not accepted has no player, and one that is connected has its own.
HoldInv ==
  \A c \in Clients : /\ link[c] = "none" => c \notin alive
                     /\ link[c] = "open" => pid[c] \in Ids /\ playerList[pid[c]] = c

\* A packet is from a client that was accepted, under the id of its player, and the LOGOUT
\* of a client is the last of its packets.
QueueInv ==
  \A i \in 1..Len(queue) :
     /\ link[queue[i].from] # "none"
     /\ playerList[queue[i].uid] = queue[i].from
     /\ queue[i].pkt.op = "LOGOUT" =>
          /\ link[queue[i].from] = "closed"
          /\ \A j \in 1..Len(queue) : j > i => queue[j].from # queue[i].from

IdInv == /\ TypeOK /\ stream \in [Clients -> Seq(Packet)] /\ free \in Seq(Ids)
         /\ queue \in Seq(Message)
         /\ IdsRecycled /\ HoldInv /\ QueueInv

\* The players and the ids, without the operators of the community modules.
LEMMA IdFacts ==
  ASSUME IdInv
  PROVE  /\ playerList \in [Ids -> Clients \cup {NoOne}] /\ NoOne \notin Clients
         /\ \A c : c \in alive <=> c \in Clients /\ \E i \in Ids : playerList[i] = c
         /\ \A i, j \in Ids : playerList[i] = playerList[j] /\ playerList[i] # NoOne => i = j
         /\ \A i \in Ids : GetPlayer(i) = playerList[i]
         /\ \A i : GetPlayer(i) \in Clients \cup {NoOne}
<1>1. playerList \in [Ids -> Clients \cup {NoOne}] /\ NoOne \notin Clients
  BY GameAssumption DEF IdInv, TypeOK, GameAssumption
<1>2. /\ alive = Range(playerList) \ {NoOne}
      /\ \A i, j \in Ids : playerList[i] = playerList[j] /\ i # j => playerList[i] = NoOne
  BY DEF IdInv, IdsRecycled
<1>3. Range(playerList) = {playerList[i] : i \in Ids}
  BY <1>1 DEF Range
<1>. QED BY <1>1, <1>2, <1>3 DEF GetPlayer

\* The packet that is handled meets the player of the client that sent it.
LEMMA HandlingFacts ==
  ASSUME IdInv, NEW op, Handling(op)
  PROVE  /\ Msg \in Message /\ Msg.pkt.op = op /\ Msg.uid \in Ids /\ Msg.from \in Clients
         /\ Me = Msg.from /\ playerList[Msg.uid] = Me /\ Me # NoOne /\ Me \in alive
         /\ GetPlayerState(Msg.uid) = player[Me].state /\ link[Me] # "none"
         /\ queue # <<>> /\ queue' = Tail(queue) /\ UNCHANGED net
<1>1. queue # <<>> /\ Msg.pkt.op = op /\ queue' = Tail(queue) /\ UNCHANGED net
  BY DEF Handling
<1>2. queue \in Seq(Message)
  BY DEF IdInv
<1>3. Msg \in Message /\ Msg = queue[1] /\ 1 \in 1..Len(queue)
  BY <1>1, <1>2, InTail DEF Msg
<1>4. Msg.uid \in Ids /\ Msg.from \in Clients
  BY <1>3 DEF Message
<1>5. playerList[Msg.uid] = Msg.from /\ link[Msg.from] # "none"
  BY <1>3 DEF IdInv, QueueInv
<1>. QED BY <1>1, <1>3, <1>4, <1>5, IdFacts DEF Me, GetPlayerState

\* The threads of the session checks and main change neither clients nor players nor rooms.
Aside == \/ \E k \in checks : SessionCheck(k)
         \/ \E x \in kills : SessionKill(x)
         \/ WalkBegin \/ WalkEnd \/ \E r \in DOMAIN roomMap : PlayerSession(r)

LEMMA AsideSteps ==
  ASSUME Aside
  PROVE  UNCHANGED <<stream, link, pid, lost, queue, free, playerList, alive, player, gameWorldMap,
                     roomMap, view, heard>>
<1>1. ASSUME NEW k, SessionCheck(k) \/ SessionKill(k)
      PROVE  UNCHANGED <<stream, link, pid, lost, queue, free, playerList, alive, player,
                         gameWorldMap, roomMap, view, heard>>
  BY <1>1 DEF SessionCheck, SessionKill, net, ids, known
<1>2. ASSUME UNCHANGED still
      PROVE  UNCHANGED <<stream, link, pid, lost, queue, free, playerList, alive, player,
                         gameWorldMap, roomMap, view, heard>>
  BY <1>2 DEF still, net, ids, known
<1>. QED BY <1>1, <1>2 DEF Aside, WalkBegin, WalkEnd, PlayerSession

\* What Parse takes from the stream of a client.
LEMMA ParseFacts ==
  ASSUME IdInv, NEW c \in Clients, Parse(c)
  PROVE  /\ link[c] = "open" /\ stream[c] \in Seq(Packet) /\ stream[c] # <<>>
         /\ Head(stream[c]) \in Packet
         /\ \/ /\ queue' = queue \/ queue' = Append(queue, Queued(c, Head(stream[c])))
               /\ stream' = [stream EXCEPT ![c] = Tail(stream[c])]
               /\ closing' = closing
               /\ Head(stream[c]).op = "LOGIN" => GetPlayerState(pid[c]) = WAITING
            \/ /\ queue' = queue /\ closing' \in {closing, KillOff(pid[c])}
               /\ \E n \in 1..Len(stream[c]) :
                    stream' = [stream EXCEPT ![c] = SubSeq(stream[c], n + 1, Len(stream[c]))]
         /\ UNCHANGED <<link, pid, lost, ids, player, gameWorldMap, roomMap, checks, kills, walk, known>>
<1>1. link[c] = "open" /\ stream[c] \in Seq(Packet) /\ stream[c] # <<>>
  BY DEF Parse, IdInv
<1>2. Head(stream[c]) \in Packet
  BY <1>1, InTail
<1>3. UNCHANGED <<link, pid, lost, ids, player, gameWorldMap, roomMap, checks, kills, walk, known>>
  BY DEF Parse
<1>4. "LOGIN" \notin Plain
  BY DEF Plain
<1>. QED BY <1>1, <1>2, <1>3, <1>4 DEF Parse, Insert, Refused

\* The steps, by what they do to ids, connections and the queue.
LEMMA IdSteps ==
  ASSUME IdInv, [Next]_vars
  PROVE  \/ /\ UNCHANGED <<free, playerList, alive, link, pid>>
            /\ \/ queue' = queue
               \/ queue # <<>> /\ queue' = Tail(queue)
               \/ \E c \in Clients, p \in Packet :
                    link[c] = "open" /\ queue' = Append(queue, Queued(c, p))
         \/ \E c \in Clients : CreateConnectorCB(c) \/ Close(c)
         \/ HandleLogout
<1>1. ASSUME NEW c \in Clients, Parse(c)
      PROVE  /\ UNCHANGED <<free, playerList, alive, link, pid>>
             /\ \/ queue' = queue
                \/ \E p \in Packet : link[c] = "open" /\ queue' = Append(queue, Queued(c, p))
  BY <1>1, ParseFacts DEF ids
<1>2. CASE Aside
  BY <1>2, AsideSteps
<1>3. ASSUME NEW op, Handling(op), UNCHANGED ids
      PROVE  /\ UNCHANGED <<free, playerList, alive, link, pid>>
             /\ queue # <<>> /\ queue' = Tail(queue)
  BY <1>3 DEF Handling, net, ids
<1>4. CASE HandleLogin \/ HandleConnect \/ HandleDisconnect \/ HandleChat \/ HandleGameData
           \/ HandleOther
  BY <1>3, <1>4
  DEF HandleLogin, HandleConnect, HandleDisconnect, HandleChat, HandleGameData, HandleOther
<1>5. CASE UNCHANGED vars
  BY <1>5 DEF vars, net, ids
<1>. QED BY <1>1, <1>2, <1>4, <1>5 DEF Next, Handle, Aside

\* A packet is queued.
LEMMA QueueMore ==
  ASSUME IdInv, NEW c \in Clients, NEW p, Queued(c, p) \in Message, link[c] = "open",
         queue' = Append(queue, Queued(c, p)), UNCHANGED <<playerList, pid>>,
         \/ link' = link /\ p.op # "LOGOUT"
         \/ link' = [link EXCEPT ![c] = "closed"]
  PROVE  queue' \in Seq(Message) /\ QueueInv'
<1>1. queue \in Seq(Message) /\ queue' \in Seq(Message) /\ Len(queue) \in Nat
  BY InAppend, LenProperties DEF IdInv
<1>2. \A i \in 1..Len(queue') : \/ queue'[i] = Queued(c, p) /\ i = Len(queue) + 1
                                \/ i \in 1..Len(queue) /\ queue'[i] = queue[i]
  BY <1>1, InAppend
<1>3. /\ Queued(c, p).from = c /\ Queued(c, p).uid = pid[c] /\ Queued(c, p).pkt = p
      /\ playerList[pid[c]] = c
  BY DEF Queued, IdInv, HoldInv
<1>4. link \in [Clients -> {"none", "open", "closed"}]
  BY DEF IdInv, TypeOK
<1>5. \A i \in 1..Len(queue) : queue[i] \in Message /\ queue[i].from \in Clients
  BY <1>1, ElementOfSeq, MessageFacts
<1>6. ASSUME NEW i \in 1..Len(queue')
      PROVE  link'[queue'[i].from] # "none" /\ playerList'[queue'[i].uid] = queue'[i].from
  BY <1>2, <1>3, <1>4, <1>5, <1>6 DEF IdInv, QueueInv
<1>7. ASSUME NEW i \in 1..Len(queue'), queue'[i].pkt.op = "LOGOUT"
      PROVE  link'[queue'[i].from] = "closed"
  BY <1>2, <1>3, <1>4, <1>5, <1>7 DEF IdInv, QueueInv
<1>8. ASSUME NEW i \in 1..Len(queue'), queue'[i].pkt.op = "LOGOUT",
             NEW j \in 1..Len(queue'), j > i
      PROVE  queue'[j].from # queue'[i].from
  <2>1. i \in 1..Len(queue) /\ queue'[i] = queue[i]
    BY <1>1, <1>2, <1>8
  <2>2. CASE j \in 1..Len(queue) /\ queue'[j] = queue[j]
    BY <1>8, <2>1, <2>2 DEF IdInv, QueueInv
  <2>3. CASE queue'[j] = Queued(c, p)
    BY <1>3, <1>8, <2>1, <2>3 DEF IdInv, QueueInv
  <2>. QED BY <1>2, <2>2, <2>3
<1>. QED BY <1>1, <1>6, <1>7, <1>8 DEF QueueInv

LEMMA QueueNext ==
  ASSUME IdInv, [Next]_vars PROVE queue' \in Seq(Message) /\ QueueInv'
<1>1. queue \in Seq(Message)
  BY DEF IdInv
<1>2. \A i \in 1..Len(queue) : queue[i] \in Message /\ queue[i].from \in Clients
  BY <1>1, ElementOfSeq, MessageFacts
<1>3. CASE queue' = queue /\ UNCHANGED <<playerList, link>>
  BY <1>1, <1>3 DEF QueueInv, IdInv
<1>4. CASE queue # <<>> /\ queue' = Tail(queue) /\ UNCHANGED <<playerList, link>>
  <2>1. queue' \in Seq(Message)
    BY <1>1, <1>4, InTail
  <2>2. \A i \in 1..Len(queue') : i + 1 \in 1..Len(queue) /\ queue'[i] = queue[i + 1]
    BY <1>1, <1>4, InTail
  <2>. QED BY <1>4, <2>1, <2>2 DEF QueueInv, IdInv
<1>5. ASSUME NEW c \in Clients, NEW p \in Packet, link[c] = "open",
             queue' = Append(queue, Queued(c, p)), UNCHANGED <<playerList, pid, link>>
      PROVE  queue' \in Seq(Message) /\ QueueInv'
  <2>1. p.op # "LOGOUT"
    BY DEF Packet
  <2>2. Queued(c, p) \in Message
    BY <1>5 DEF Queued, Message, IdInv, HoldInv
  <2>. QED BY <1>5, <2>1, <2>2, QueueMore
<1>6. ASSUME NEW c \in Clients, Close(c) PROVE queue' \in Seq(Message) /\ QueueInv'
  <2>1. PICK p : p = [op |-> "LOGOUT"]
    OBVIOUS
  <2>2. /\ link[c] = "open" /\ link' = [link EXCEPT ![c] = "closed"]
        /\ queue' = queue \/ queue' = Append(queue, Queued(c, p))
        /\ UNCHANGED <<playerList, pid>>
    BY <1>6, <2>1 DEF Close, Insert, Refused, ids
  <2>3. Queued(c, p) \in Message
    BY <2>1, <2>2 DEF Queued, Message, IdInv, HoldInv
  <2>4. CASE queue' = queue
    <3>1. \A d \in Clients : /\ link[d] # "none" => link'[d] # "none"
                             /\ link[d] = "closed" => link'[d] = "closed"
      BY <2>2 DEF IdInv, TypeOK
    <3>. QED BY <1>1, <1>2, <2>2, <2>4, <3>1 DEF QueueInv, IdInv
  <2>. QED BY <2>2, <2>3, <2>4, QueueMore
<1>7. ASSUME NEW c \in Clients, CreateConnectorCB(c) PROVE queue' \in Seq(Message) /\ QueueInv'
  <2>1. /\ queue' = queue /\ link[c] = "none" /\ link' = [link EXCEPT ![c] = "open"]
        /\ free # <<>> /\ playerList' = [playerList EXCEPT ![Head(free)] = c]
    BY <1>7 DEF CreateConnectorCB
  <2>2. Head(free) \in Ids /\ playerList[Head(free)] = NoOne
    <3>1. Head(free) \in Range(free) /\ Head(free) \in Ids
      BY <2>1, FreeTail, InTail DEF IdInv, IdsRecycled
    <3>. QED BY <3>1 DEF IdInv, IdsRecycled
  <2>3. \A i \in 1..Len(queue) : queue[i].uid \in Ids /\ queue[i].uid # Head(free) /\ queue[i].from # c
    BY <1>2, <2>1, <2>2, IdFacts DEF IdInv, QueueInv, Message
  <2>4. link \in [Clients -> {"none", "open", "closed"}] /\ playerList \in [Ids -> Clients \cup {NoOne}]
    BY IdFacts DEF IdInv, TypeOK
  <2>5. \A i \in 1..Len(queue) : /\ link'[queue[i].from] = link[queue[i].from]
                                 /\ playerList'[queue[i].uid] = playerList[queue[i].uid]
    BY <1>2, <2>1, <2>3, <2>4
  <2>. QED BY <1>1, <2>1, <2>5 DEF IdInv, QueueInv
<1>8. CASE HandleLogout
  <2>0. PICK m : m = Msg
    OBVIOUS
  <2>1. /\ Handling("LOGOUT") /\ m.pkt.op = "LOGOUT" /\ queue # <<>> /\ queue' = Tail(queue)
        /\ m.uid \in Ids /\ m.from \in Clients /\ playerList[m.uid] = m.from /\ link' = link
        /\ playerList' = [playerList EXCEPT ![m.uid] = NoOne]
    BY <1>8, <2>0, HandlingFacts DEF HandleLogout, net
  <2>2. queue' \in Seq(Message) /\ m = queue[1] /\ 1 \in 1..Len(queue)
    BY <1>1, <2>0, <2>1, InTail DEF Msg
  <2>3. \A i \in 1..Len(queue') : i + 1 \in 1..Len(queue) /\ queue'[i] = queue[i + 1]
    BY <1>1, <2>1, InTail
  <2>4. \A i \in 1..Len(queue') : queue'[i].from # m.from
    BY <2>1, <2>2, <2>3 DEF IdInv, QueueInv
  <2>5. \A i \in 1..Len(queue') : queue'[i].uid \in Ids /\ queue'[i].uid # m.uid
    BY <2>1, <2>3, <2>4, <1>2 DEF IdInv, QueueInv, Message
  <2>6. \A i \in 1..Len(queue') : playerList'[queue'[i].uid] = playerList[queue'[i].uid]
    BY <2>1, <2>5, IdFacts
  <2>. QED BY <2>1, <2>2, <2>3, <2>6 DEF IdInv, QueueInv
<1>. QED BY <1>3, <1>4, <1>5, <1>6, <1>7, <1>8, IdSteps

LEMMA StreamNext ==
  ASSUME IdInv, [Next]_vars PROVE stream' \in [Clients -> Seq(Packet)]
<1>1. stream \in [Clients -> Seq(Packet)]
  BY DEF IdInv
<1>2. ASSUME NEW c \in Clients, Parse(c) PROVE stream' \in [Clients -> Seq(Packet)]
  <2>1. stream[c] \in Seq(Packet) /\ stream[c] # <<>>
    BY <1>2, ParseFacts
  <2>2. CASE stream' = [stream EXCEPT ![c] = Tail(stream[c])]
    <3>1. Tail(stream[c]) \in Seq(Packet)
      BY <2>1, InTail
    <3>. QED BY <1>1, <2>2, <3>1
  <2>3. ASSUME NEW n \in 1..Len(stream[c]),
               stream' = [stream EXCEPT ![c] = SubSeq(stream[c], n + 1, Len(stream[c]))]
        PROVE  stream' \in [Clients -> Seq(Packet)]
    <3>1. SubSeq(stream[c], n + 1, Len(stream[c])) \in Seq(Packet)
      BY <2>1, InSuffix
    <3>. QED BY <1>1, <2>3, <3>1
  <2>. QED BY <1>2, <2>2, <2>3, ParseFacts
<1>3. ASSUME NEW c \in Clients, CreateConnectorCB(c) \/ Close(c) PROVE stream' = stream
  BY <1>3 DEF CreateConnectorCB, Close
<1>4. ASSUME Aside PROVE stream' = stream
  BY <1>4, AsideSteps
<1>5. CASE Handle
  BY <1>1, <1>5 DEF Handle, HandleLogin, HandleConnect, HandleDisconnect, HandleLogout, HandleChat,
     HandleGameData, HandleOther, Handling, net
<1>6. CASE UNCHANGED vars
  BY <1>1, <1>6 DEF vars, net
<1>. QED BY <1>1, <1>2, <1>3, <1>4, <1>5, <1>6 DEF Next, Aside

\* Ids and connections after a step.
LEMMA IdNext ==
  ASSUME IdInv, [Next]_vars
  PROVE  /\ link' \in [Clients -> {"none", "open", "closed"}] /\ pid' \in [Clients -> 0..Total]
         /\ playerList' \in [Ids -> Clients \cup {NoOne}] /\ free' \in Seq(Ids)
         /\ alive' \subseteq Clients /\ IdsRecycled' /\ HoldInv'
<1>. DEFINE Goal == /\ link' \in [Clients -> {"none", "open", "closed"}]
                    /\ pid' \in [Clients -> 0..Total]
                    /\ playerList' \in [Ids -> Clients \cup {NoOne}] /\ free' \in Seq(Ids)
                    /\ alive' \subseteq Clients /\ IdsRecycled' /\ HoldInv'
<1>1. /\ link \in [Clients -> {"none", "open", "closed"}] /\ pid \in [Clients -> 0..Total]
      /\ playerList \in [Ids -> Clients \cup {NoOne}] /\ free \in Seq(Ids) /\ alive \subseteq Clients
      /\ NoOne \notin Clients /\ Ids \subseteq 0..Total
  BY IdFacts, GameAssumption DEF IdInv, TypeOK, GameAssumption, Ids
<1>2. IsInjective(free) /\ Range(free) = {i \in Ids : playerList[i] = NoOne}
  BY DEF IdInv, IdsRecycled
<1>3. CASE UNCHANGED <<free, playerList, alive, link, pid>>
  BY <1>1, <1>3 DEF IdInv, IdsRecycled, HoldInv
<1>4. ASSUME NEW c \in Clients, CreateConnectorCB(c) PROVE Goal
  <2>1. PICK h : h = Head(free)
    OBVIOUS
  <2>2. /\ link[c] = "none" /\ free # <<>> /\ free' = Tail(free) /\ alive' = alive \cup {c}
        /\ link' = [link EXCEPT ![c] = "open"] /\ pid' = [pid EXCEPT ![c] = h]
        /\ playerList' = [playerList EXCEPT ![h] = c]
    BY <1>4, <2>1 DEF CreateConnectorCB
  <2>3. /\ IsInjective(free') /\ Range(free') = Range(free) \ {h} /\ h \in Range(free)
        /\ free' \in Seq(Ids)
    BY <1>1, <1>2, <2>1, <2>2, FreeTail, InTail
  <2>4. h \in Ids /\ playerList[h] = NoOne /\ c \notin alive
    BY <1>2, <2>2, <2>3 DEF IdInv, HoldInv
  <2>5. /\ playerList' \in [Ids -> Clients \cup {NoOne}] /\ playerList'[h] = c
        /\ \A i \in Ids : i # h => playerList'[i] = playerList[i] /\ playerList[i] # c
    BY <1>1, <2>2, <2>4, IdFacts
  <2>6. Range(free') = {i \in Ids : playerList'[i] = NoOne}
    BY <1>1, <1>2, <2>3, <2>5
  <2>7. alive' = Range(playerList') \ {NoOne}
    BY <1>1, <2>2, <2>4, <2>5, IdFacts DEF Range
  <2>8. \A i, j \in Ids : playerList'[i] = playerList'[j] /\ i # j => playerList'[i] = NoOne
    BY <2>5, IdFacts
  <2>9. HoldInv'
    <3>1. ASSUME NEW d \in Clients, link'[d] = "none" PROVE d \notin alive'
      BY <1>1, <2>2, <3>1 DEF IdInv, HoldInv
    <3>2. ASSUME NEW d \in Clients, link'[d] = "open"
          PROVE  pid'[d] \in Ids /\ playerList'[pid'[d]] = d
      BY <1>1, <2>2, <2>4, <2>5, <3>2 DEF IdInv, HoldInv
    <3>. QED BY <3>1, <3>2 DEF HoldInv
  <2>10. link' \in [Clients -> {"none", "open", "closed"}] /\ pid' \in [Clients -> 0..Total]
         /\ alive' \subseteq Clients
    BY <1>1, <2>2, <2>4
  <2>. QED BY <2>3, <2>5, <2>6, <2>7, <2>8, <2>9, <2>10 DEF IdsRecycled
<1>5. ASSUME NEW c \in Clients, Close(c) PROVE Goal
  <2>1. /\ link[c] = "open" /\ link' = [link EXCEPT ![c] = "closed"]
        /\ UNCHANGED <<free, playerList, alive, pid>>
    BY <1>5 DEF Close, ids
  <2>. QED BY <1>1, <2>1 DEF IdInv, IdsRecycled, HoldInv
<1>6. ASSUME HandleLogout PROVE Goal
  <2>1. PICK u : u = Msg.uid
    OBVIOUS
  <2>2. /\ u \in Ids /\ playerList[u] # NoOne /\ playerList[u] \in Clients
        /\ free' = Append(free, u) /\ alive' = alive \ {playerList[u]}
        /\ playerList' = [playerList EXCEPT ![u] = NoOne] /\ link' = link /\ pid' = pid
    BY <1>6, <2>1, HandlingFacts DEF HandleLogout, net
  <2>3. link[playerList[u]] = "closed"
    <3>1. queue # <<>> /\ Msg.pkt.op = "LOGOUT" /\ playerList[u] = Msg.from
      BY <1>6, <2>1, HandlingFacts DEF HandleLogout
    <3>2. Msg = queue[1] /\ 1 \in 1..Len(queue)
      BY <3>1, InTail DEF Msg, IdInv
    <3>. QED BY <3>1, <3>2 DEF IdInv, QueueInv
  <2>4. IsInjective(free') /\ Range(free') = Range(free) \cup {u} /\ free' \in Seq(Ids)
    BY <1>1, <1>2, <2>2, FreeAppend, InAppend
  <2>5. /\ playerList' \in [Ids -> Clients \cup {NoOne}] /\ playerList'[u] = NoOne
        /\ \A i \in Ids : i # u => playerList'[i] = playerList[i] /\ playerList[i] # playerList[u]
    BY <1>1, <2>2, IdFacts
  <2>6. Range(free') = {i \in Ids : playerList'[i] = NoOne}
    BY <1>2, <2>2, <2>4, <2>5
  <2>7. alive' = Range(playerList') \ {NoOne}
    BY <1>1, <2>2, <2>5, IdFacts DEF Range
  <2>8. \A i, j \in Ids : playerList'[i] = playerList'[j] /\ i # j => playerList'[i] = NoOne
    BY <2>5, IdFacts
  <2>9. HoldInv'
    BY <1>1, <2>2, <2>3, <2>5 DEF IdInv, HoldInv
  <2>. QED BY <1>1, <2>2, <2>4, <2>5, <2>6, <2>7, <2>8, <2>9 DEF IdsRecycled
<1>. QED BY <1>3, <1>4, <1>5, <1>6, IdSteps

-----------------------------------------------------------------------------
(* What the handlers do to players and rooms.                              *)

PlayerType == [state : {WAITING, LOGGED_IN, CONNECTED_ROOM}, game : Games \cup {NoOne},
               room : STRING \cup {NoOne}, mac : Clients \cup {NoOne}, age : Nat]

\* Who sits in which place of which room.
At(r, i, c) == r \in DOMAIN roomMap /\ i \in DOMAIN roomMap[r] /\ roomMap[r][i] = c

LEMMA MembersAt ==
  ASSUME NEW r \in DOMAIN roomMap PROVE \A c : c \in Members(r) <=> \E i : At(r, i, c)
BY DEF Members, At

LEMMA LoginEffect ==
  ASSUME IdInv, HandleLogin, Msg.pkt.valid, NEW p, p = Me
  PROVE  /\ player' \in [Clients -> PlayerType]
         /\ \A c \in Clients : c # p => player'[c] = player[c]
         /\ player'[p].state = LOGGED_IN /\ player'[p].mac = p /\ player'[p].game \in Games
         /\ player'[p].game \in gameWorldMap' /\ gameWorldMap \subseteq gameWorldMap'
         /\ player'[p].room = player[p].room /\ player'[p].age = player[p].age
         /\ gameWorldMap' \subseteq Games
         /\ closing' = closing /\ checks' \subseteq Ids \X Clients
<1>1. PICK g : g = Crosslink[Msg.pkt.product]
  OBVIOUS
<1>2. /\ gameWorldMap' = gameWorldMap \cup {g} /\ closing' = closing
      /\ checks' = checks \cup {<<Msg.uid, Msg.from>>}
      /\ player' = [player EXCEPT ![p].state = LOGGED_IN, ![p].game = g, ![p].mac = p]
  BY <1>1 DEF HandleLogin
<1>3. Msg \in Message /\ Msg.pkt.op = "LOGIN" /\ Msg.uid \in Ids /\ Msg.from \in Clients /\ p \in Clients
  BY HandlingFacts DEF HandleLogin
<1>4. g \in Games
  <2>1. Msg.pkt.product \in Products
    BY <1>3 DEF Message, Packet
  <2>. QED BY <1>1, <2>1 DEF Games
<1>5. player \in [Clients -> PlayerType] /\ gameWorldMap \subseteq Games /\ checks \subseteq Ids \X Clients
  BY DEF IdInv, TypeOK, PlayerType
<1>6. player' = [c \in Clients |-> IF c # p THEN player[c]
                                   ELSE [player[c] EXCEPT !.state = LOGGED_IN, !.game = g, !.mac = p]]
  BY <1>2, <1>5, Zenon
<1>7. player[p] \in PlayerType
  BY <1>3, <1>5
<1>8. player'[p] = [player[p] EXCEPT !.state = LOGGED_IN, !.game = g, !.mac = p]
  BY <1>3, <1>6
<1>9. /\ player'[p] \in PlayerType /\ player'[p].state = LOGGED_IN /\ player'[p].mac = p
      /\ player'[p].game = g /\ player'[p].room = player[p].room /\ player'[p].age = player[p].age
  BY <1>3, <1>4, <1>7, <1>8 DEF PlayerType
<1>10. \A c \in Clients : c # p => player'[c] = player[c]
  BY <1>6
<1>11. player' \in [Clients -> PlayerType]
  BY <1>5, <1>6, <1>8, <1>9, <1>10
<1>. QED BY <1>2, <1>3, <1>4, <1>5, <1>9, <1>10, <1>11

\* A player enters a room at the place of its id.
Entered(r, u, p) ==
  /\ DOMAIN roomMap' = DOMAIN roomMap \cup {r}
  /\ \A q \in DOMAIN roomMap' : DOMAIN roomMap'[q] \subseteq Ids
  /\ (\A c : ~At(r, u, c)) =>
       /\ \A q, i, c : At(q, i, c)' <=> At(q, i, c) \/ (q = r /\ i = u /\ c = p)
       /\ player'[p].age > 0
  /\ player' \in [Clients -> PlayerType]
  /\ \A c \in Clients : /\ player'[c].game = player[c].game /\ player'[c].mac = player[c].mac
                        /\ player'[c].age >= player[c].age
                        /\ player'[c].state = IF c = p THEN CONNECTED_ROOM ELSE player[c].state
                        /\ player'[c].room = IF c = p THEN r[2] ELSE player[c].room
  /\ \A d : \A c \in Clients : d \in view'[c] <=> \/ d \in view[c]
                                                  \/ c = p /\ \E i : At(r, i, d)
                                                  \/ c # p /\ d = p /\ \E i : At(r, i, c)

LEMMA EnterEffect ==
  ASSUME IdInv, NEW r, NEW u \in Ids, NEW p \in Clients, r[2] \in STRING, Enter(r, u, p)
  PROVE  Entered(r, u, p)
<1>1. PICK there : there = IF r \in DOMAIN roomMap THEN roomMap[r] ELSE <<>>
  OBVIOUS
<1>2. PICK now : now = [j \in {u} \cup DOMAIN there |-> IF j \in DOMAIN there THEN there[j] ELSE p]
  OBVIOUS
<1>3. /\ roomMap' = [q \in {r} \cup DOMAIN roomMap |-> IF q = r THEN now ELSE roomMap[q]]
      /\ player' = [c \in Clients |->
                     [player[c] EXCEPT !.age = IF c \in Range(now) THEN @ + 1 ELSE @,
                                       !.room = IF c = p THEN r[2] ELSE @,
                                       !.state = IF c = p THEN CONNECTED_ROOM ELSE @]]
      /\ view' = [c \in Clients |-> view[c] \cup (IF c = p THEN Range(there)
                                                  ELSE IF c \in Range(there) THEN {p} ELSE {})]
  BY <1>1, <1>2 DEF Enter
<1>4. \A i, c : At(r, i, c) <=> i \in DOMAIN there /\ there[i] = c
  BY <1>1 DEF At
<1>5. /\ DOMAIN now = {u} \cup DOMAIN there /\ \A i \in DOMAIN there : now[i] = there[i]
      /\ (\A c : ~At(r, u, c)) => u \notin DOMAIN there /\ now[u] = p
  BY <1>2, <1>4
<1>6. /\ \A c : c \in Range(there) <=> \E i : At(r, i, c)
      /\ (\A c : ~At(r, u, c)) => p \in Range(now)
  BY <1>4, <1>5 DEF Range
<1>7. /\ DOMAIN roomMap' = DOMAIN roomMap \cup {r} /\ roomMap'[r] = now
      /\ \A q \in DOMAIN roomMap : q # r => roomMap'[q] = roomMap[q]
  BY <1>3
<1>8. \A q \in DOMAIN roomMap' : DOMAIN roomMap'[q] \subseteq Ids
  BY <1>1, <1>5, <1>7 DEF IdInv, TypeOK
<1>9. ASSUME \A c : ~At(r, u, c), NEW q, NEW i, NEW c
      PROVE  At(q, i, c)' <=> At(q, i, c) \/ (q = r /\ i = u /\ c = p)
  BY <1>4, <1>5, <1>7, <1>9 DEF At
<1>10. \A c \in Clients : player[c] \in PlayerType
  BY DEF IdInv, TypeOK, PlayerType
<1>11. ASSUME NEW c \in Clients
       PROVE  /\ player'[c] \in PlayerType
              /\ player'[c].game = player[c].game /\ player'[c].mac = player[c].mac
              /\ player'[c].age = IF c \in Range(now) THEN player[c].age + 1 ELSE player[c].age
              /\ player'[c].room = IF c = p THEN r[2] ELSE player[c].room
              /\ player'[c].state = IF c = p THEN CONNECTED_ROOM ELSE player[c].state
  <2>1. PICK a, b, s : /\ a = IF c \in Range(now) THEN player[c].age + 1 ELSE player[c].age
                       /\ b = IF c = p THEN r[2] ELSE player[c].room
                       /\ s = IF c = p THEN CONNECTED_ROOM ELSE player[c].state
    OBVIOUS
  <2>2. player[c] \in PlayerType
    BY <1>10
  <2>3. player'[c] = [player[c] EXCEPT !.age = a, !.room = b, !.state = s]
    BY <1>3, <2>1, <2>2 DEF PlayerType
  <2>4. a \in Nat /\ b \in STRING \cup {NoOne} /\ s \in {WAITING, LOGGED_IN, CONNECTED_ROOM}
    BY <2>1, <2>2 DEF PlayerType
  <2>. QED BY <2>1, <2>2, <2>3, <2>4 DEF PlayerType
<1>12. player' \in [Clients -> PlayerType]
  BY <1>3, <1>11
<1>13. \A c \in Clients : player[c].age \in Nat
  BY <1>10 DEF PlayerType
<1>14. ASSUME NEW c \in Clients, NEW d
       PROVE  d \in view'[c] <=> \/ d \in view[c]
                                 \/ c = p /\ \E i : At(r, i, d)
                                 \/ c # p /\ d = p /\ \E i : At(r, i, c)
  <2>1. view'[c] = view[c] \cup (IF c = p THEN Range(there) ELSE IF c \in Range(there) THEN {p} ELSE {})
    BY <1>3
  <2>. QED BY <1>6, <2>1
<1>15. \A c \in Clients : player'[c].age >= player[c].age
  BY <1>11, <1>13
<1>16. (\A c : ~At(r, u, c)) => player'[p].age > 0
  BY <1>6, <1>11, <1>13
<1>. QED BY <1>7, <1>8, <1>9, <1>11, <1>12, <1>14, <1>15, <1>16 DEF Entered

\* A player leaves the place of its id.
Left(r, u, p) ==
  /\ DOMAIN roomMap' = DOMAIN roomMap
  /\ \A q \in DOMAIN roomMap' : DOMAIN roomMap'[q] \subseteq Ids
  /\ \A q, i, c : At(q, i, c)' <=> At(q, i, c) /\ ~(q = r /\ i = u)
  /\ player' \in [Clients -> PlayerType]
  /\ \A c \in Clients : /\ player'[c].game = player[c].game /\ player'[c].mac = player[c].mac
                        /\ player'[c].age = player[c].age
                        /\ c # p => player'[c] = player[c]
  /\ player'[p].state = LOGGED_IN
  /\ view'[p] = {}
  /\ \A d : \A c \in Clients : c # p => (d \in view'[c] <=> /\ d \in view[c]
                                                            /\ d = p => ~\E i : At(r, i, c)')

LEMMA LeaveEffect ==
  ASSUME IdInv, NEW u \in Ids, NEW p \in Clients, NEW r, r = <<player[p].game, player[p].room>>,
         Leave(u, p), r \in DOMAIN roomMap
  PROVE  Left(r, u, p)
<1>1. PICK rest : rest = Restrict(roomMap[r], DOMAIN roomMap[r] \ {u})
  OBVIOUS
<1>2. /\ roomMap' = [roomMap EXCEPT ![r] = rest]
      /\ player' = [player EXCEPT ![p].room = NoOne, ![p].state = LOGGED_IN]
      /\ view' = [c \in Clients |-> IF c = p THEN {} ELSE IF c \in Range(rest) THEN view[c] \ {p}
                                    ELSE view[c]]
  BY <1>1 DEF Leave
<1>3. DOMAIN rest = DOMAIN roomMap[r] \ {u} /\ \A i \in DOMAIN rest : rest[i] = roomMap[r][i]
  BY <1>1 DEF Restrict
<1>4. /\ DOMAIN roomMap' = DOMAIN roomMap /\ roomMap'[r] = rest
      /\ \A q \in DOMAIN roomMap : q # r => roomMap'[q] = roomMap[q]
  BY <1>2
<1>5. \A q \in DOMAIN roomMap' : DOMAIN roomMap'[q] \subseteq Ids
  BY <1>3, <1>4 DEF IdInv, TypeOK
<1>6. ASSUME NEW q, NEW i, NEW c PROVE At(q, i, c)' <=> At(q, i, c) /\ ~(q = r /\ i = u)
  BY <1>3, <1>4 DEF At
<1>7. player \in [Clients -> PlayerType] /\ player[p] \in PlayerType
  BY DEF IdInv, TypeOK, PlayerType
<1>8. player' = [c \in Clients |-> IF c # p THEN player[c]
                                   ELSE [player[c] EXCEPT !.room = NoOne, !.state = LOGGED_IN]]
  BY <1>2, <1>7, Zenon
<1>9. player'[p] = [player[p] EXCEPT !.room = NoOne, !.state = LOGGED_IN]
  BY <1>8
<1>10. /\ player'[p] \in PlayerType /\ player'[p].state = LOGGED_IN
       /\ player'[p].game = player[p].game /\ player'[p].mac = player[p].mac
       /\ player'[p].age = player[p].age
  BY <1>7, <1>9 DEF PlayerType
<1>11. \A c \in Clients : c # p => player'[c] = player[c]
  BY <1>8
<1>12. player' \in [Clients -> PlayerType]
  BY <1>7, <1>8, <1>10, <1>11
<1>13. \A c : c \in Range(rest) <=> \E i : At(r, i, c)'
  BY <1>3, <1>4 DEF Range, At
<1>14. view'[p] = {}
  BY <1>2
<1>15. ASSUME NEW c \in Clients, NEW d, c # p
       PROVE  d \in view'[c] <=> d \in view[c] /\ (d = p => ~\E i : At(r, i, c)')
  <2>1. view'[c] = IF c \in Range(rest) THEN view[c] \ {p} ELSE view[c]
    BY <1>2, <1>15
  <2>. QED BY <1>13, <2>1
<1>. QED BY <1>4, <1>5, <1>6, <1>10, <1>11, <1>12, <1>14, <1>15 DEF Left

LEMMA ConnectFacts ==
  ASSUME IdInv, HandleConnect, NEW u, u = Msg.uid, NEW p, p = Me
  PROVE  /\ u \in Ids /\ p \in Clients
         /\ \/ /\ closing' = closing /\ player[p].state = LOGGED_IN /\ player[p].game \in gameWorldMap
               /\ \E room \in STRING : \E r : r = <<player[p].game, room>> /\ Entered(r, u, p)
            \/ closing' \in {closing, KillOff(u)} /\ UNCHANGED <<roomMap, player, view>>
         /\ UNCHANGED <<free, playerList, alive, link, pid, stream, gameWorldMap, checks, heard>>
<1>1. /\ Msg \in Message /\ Msg.pkt.op = "CONNECT" /\ u \in Ids /\ p \in Clients
      /\ GetPlayerState(Msg.uid) = player[p].state /\ UNCHANGED net
  BY HandlingFacts DEF HandleConnect
<1>2. Msg.pkt.room \in STRING
  BY <1>1 DEF Message, Packet
<1>3. UNCHANGED <<free, playerList, alive, link, pid, stream, gameWorldMap, checks, heard>>
  BY <1>1 DEF HandleConnect, ids, net
<1>4. \/ /\ closing' = closing /\ player[p].state = LOGGED_IN /\ player[p].game \in gameWorldMap
         /\ Enter(<<player[p].game, Msg.pkt.room>>, u, p)
      \/ closing' \in {closing, KillOff(u)} /\ UNCHANGED <<roomMap, player, view>>
  BY <1>1 DEF HandleConnect
<1>5. ASSUME Enter(<<player[p].game, Msg.pkt.room>>, u, p)
      PROVE  \E room \in STRING : \E r : r = <<player[p].game, room>> /\ Entered(r, u, p)
  <2>1. PICK room, r : room = Msg.pkt.room /\ r = <<player[p].game, room>>
    OBVIOUS
  <2>2. room \in STRING /\ r[2] \in STRING /\ Enter(r, u, p)
    BY <1>2, <1>5, <2>1
  <2>3. Entered(r, u, p)
    BY <1>1, <2>2, EnterEffect
  <2>. QED BY <2>1, <2>2, <2>3
<1>. QED BY <1>1, <1>3, <1>4, <1>5

LEMMA LeaveFacts ==
  ASSUME IdInv, HandleDisconnect \/ HandleLogout, NEW u, u = Msg.uid, NEW p, p = Me
  PROVE  /\ u \in Ids /\ p \in Clients /\ playerList[u] = p
         /\ \/ /\ player[p].state = CONNECTED_ROOM
               /\ \E r \in DOMAIN roomMap : r = <<player[p].game, player[p].room>> /\ Left(r, u, p)
            \/ /\ ~CanLeave(u, p) /\ UNCHANGED <<roomMap, player, view>>
         /\ UNCHANGED <<link, pid, stream, gameWorldMap, checks, closing, heard>>
<1>1. /\ u \in Ids /\ p \in Clients /\ playerList[u] = p /\ Msg.from = p
      /\ GetPlayerState(u) = player[p].state /\ GetPlayer(u) = p /\ UNCHANGED net
  BY HandlingFacts, IdFacts DEF HandleDisconnect, HandleLogout
<1>2. IF CanLeave(u, p) THEN Leave(u, p) ELSE UNCHANGED <<roomMap, player, view>>
  BY <1>1 DEF HandleDisconnect, HandleLogout
<1>3. UNCHANGED <<link, pid, stream, gameWorldMap, checks, closing, heard>>
  BY <1>1 DEF HandleDisconnect, HandleLogout, net
<1>4. ASSUME CanLeave(u, p)
      PROVE  /\ player[p].state = CONNECTED_ROOM
             /\ \E r \in DOMAIN roomMap : r = <<player[p].game, player[p].room>> /\ Left(r, u, p)
  <2>1. PICK r : r = <<player[p].game, player[p].room>>
    OBVIOUS
  <2>2. player[p].state = CONNECTED_ROOM /\ r \in DOMAIN roomMap
    BY <1>1, <1>4, <2>1 DEF CanLeave
  <2>3. Left(r, u, p)
    BY <1>1, <1>2, <1>4, <2>1, <2>2, LeaveEffect
  <2>. QED BY <2>1, <2>2, <2>3
<1>. QED BY <1>1, <1>2, <1>3, <1>4

LEMMA KillOffClients ==
  ASSUME IdInv, NEW i PROVE KillOff(i) \subseteq Clients
BY IdFacts DEF KillOff, IdInv, TypeOK

\* A client whose LOGOUT was refused is gone.
LEMMA LostNext ==
  ASSUME IdInv, [Next]_vars PROVE lost' \subseteq {c \in Clients : link'[c] = "closed"}
<1>1. /\ lost \subseteq {c \in Clients : link[c] = "closed"}
      /\ link \in [Clients -> {"none", "open", "closed"}]
  BY DEF IdInv, TypeOK
<1>2. ASSUME UNCHANGED <<link, lost>> PROVE lost' \subseteq {c \in Clients : link'[c] = "closed"}
  BY <1>1, <1>2
<1>3. ASSUME NEW c \in Clients, Close(c) PROVE lost' \subseteq {d \in Clients : link'[d] = "closed"}
  BY <1>1, <1>3 DEF Close
<1>4. ASSUME NEW c \in Clients, CreateConnectorCB(c)
      PROVE  lost' \subseteq {d \in Clients : link'[d] = "closed"}
  BY <1>1, <1>4 DEF CreateConnectorCB
<1>5. ASSUME NEW c \in Clients, Parse(c) PROVE UNCHANGED <<link, lost>>
  BY <1>5 DEF Parse
<1>6. CASE Handle
  BY <1>2, <1>6 DEF Handle, HandleLogin, HandleConnect, HandleDisconnect, HandleLogout, HandleChat,
     HandleGameData, HandleOther, Handling, net
<1>7. ASSUME Aside PROVE UNCHANGED <<link, lost>>
  BY <1>7, AsideSteps
<1>8. CASE UNCHANGED vars
  BY <1>2, <1>8 DEF vars, net
<1>. QED BY <1>2, <1>3, <1>4, <1>5, <1>6, <1>7, <1>8 DEF Next, Aside

LEMMA KillsNext ==
  ASSUME IdInv, [Next]_vars PROVE kills' \subseteq Ids \X Clients \X Clients
<1>1. checks \subseteq Ids \X Clients /\ kills \subseteq Ids \X Clients \X Clients
  BY DEF IdInv, TypeOK
<1>2. ASSUME NEW k \in checks, SessionCheck(k) PROVE kills' \subseteq Ids \X Clients \X Clients
  <2>1. k[1] \in Ids /\ k[2] \in Clients
    BY <1>1
  <2>2. GetPlayer(k[1]) \in Clients \cup {NoOne}
    BY IdFacts
  <2>3. \/ kills' = kills
        \/ GetPlayer(k[1]) \in Clients /\ kills' = kills \cup {<<k[1], k[2], GetPlayer(k[1])>>}
    BY <1>2, <2>2 DEF SessionCheck
  <2>. QED BY <1>1, <2>1, <2>3
<1>3. ASSUME NEW x \in kills, SessionKill(x) PROVE kills' \subseteq kills
  BY <1>3 DEF SessionKill
<1>4. ASSUME UNCHANGED still PROVE kills' = kills
  BY <1>4 DEF still
<1>5. ASSUME NEW c \in Clients, CreateConnectorCB(c) \/ Parse(c) \/ Close(c) PROVE kills' = kills
  BY <1>5 DEF CreateConnectorCB, Parse, Close
<1>6. ASSUME Handle PROVE kills' = kills
  BY <1>6 DEF Handle, HandleLogin, HandleConnect, HandleDisconnect, HandleLogout, HandleChat,
     HandleGameData, HandleOther, Handling
<1>7. ASSUME UNCHANGED vars PROVE kills' = kills
  BY <1>7 DEF vars
<1>. QED BY <1>1, <1>2, <1>3, <1>4, <1>5, <1>6, <1>7 DEF Next, WalkBegin, WalkEnd, PlayerSession

LEMMA TypeNext ==
  ASSUME IdInv, [Next]_vars PROVE TypeOK'
<1>. DEFINE Rooms == \A r \in DOMAIN roomMap : r[1] \in gameWorldMap /\ DOMAIN roomMap[r] \subseteq Ids
            Goal == /\ player' \in [Clients -> PlayerType]
                    /\ closing' \subseteq Clients /\ gameWorldMap' \subseteq Games
                    /\ checks' \subseteq Ids \X Clients /\ Rooms'
<1>1. /\ player \in [Clients -> PlayerType] /\ closing \subseteq Clients /\ gameWorldMap \subseteq Games
      /\ checks \subseteq Ids \X Clients /\ Rooms
  BY DEF IdInv, TypeOK, PlayerType
<1>2. ASSUME UNCHANGED <<player, gameWorldMap, roomMap>>, closing' \subseteq Clients, checks' \subseteq checks
      PROVE  Goal
  BY <1>1, <1>2
<1>3. ASSUME NEW c \in Clients, CreateConnectorCB(c) \/ Parse(c) \/ Close(c) PROVE Goal
  BY <1>1, <1>2, <1>3, KillOffClients DEF CreateConnectorCB, Parse, Close
<1>4. ASSUME Aside PROVE Goal
  <2>1. UNCHANGED <<player, gameWorldMap, roomMap>>
    BY <1>4, AsideSteps
  <2>2. ASSUME NEW k \in checks, SessionCheck(k) PROVE Goal
    BY <1>1, <1>2, <2>1, <2>2 DEF SessionCheck
  <2>3. ASSUME NEW x \in kills, SessionKill(x) PROVE Goal
    <3>1. x[3] \in Clients
      BY DEF IdInv, TypeOK
    <3>2. (\E who : who \subseteq Clients /\ closing' = closing \cup who) /\ checks' = checks
      BY <2>3, <3>1 DEF SessionKill
    <3>. QED BY <1>1, <1>2, <2>1, <3>2
  <2>4. ASSUME UNCHANGED still PROVE Goal
    BY <1>1, <1>2, <2>1, <2>4 DEF still
  <2>. QED BY <1>4, <2>2, <2>3, <2>4 DEF Aside, WalkBegin, WalkEnd, PlayerSession
<1>5. ASSUME HandleLogin PROVE Goal
  <2>1. PICK p : p = Me
    OBVIOUS
  <2>2. roomMap' = roomMap
    BY <1>5 DEF HandleLogin
  <2>3. CASE Msg.pkt.valid
    BY <1>1, <1>5, <2>1, <2>2, <2>3, LoginEffect
  <2>4. CASE ~Msg.pkt.valid
    BY <1>1, <1>5, <2>2, <2>4, KillOffClients DEF HandleLogin
  <2>. QED BY <2>3, <2>4
<1>6. ASSUME HandleConnect PROVE Goal
  <2>1. PICK u, p : u = Msg.uid /\ p = Me
    OBVIOUS
  <2>2. gameWorldMap' = gameWorldMap /\ checks' = checks /\ u \in Ids /\ p \in Clients
    BY <1>6, <2>1, ConnectFacts
  <2>3. ASSUME NEW r, r[1] \in gameWorldMap, Entered(r, u, p), closing' = closing PROVE Goal
    BY <1>1, <2>2, <2>3 DEF Entered
  <2>4. ASSUME closing' \in {closing, KillOff(u)}, UNCHANGED <<roomMap, player, view>> PROVE Goal
    BY <1>1, <1>2, <2>2, <2>4, KillOffClients
  <2>. QED BY <1>6, <2>1, <2>3, <2>4, ConnectFacts
<1>7. ASSUME HandleDisconnect \/ HandleLogout PROVE Goal
  <2>1. PICK u, p : u = Msg.uid /\ p = Me
    OBVIOUS
  <2>2. gameWorldMap' = gameWorldMap /\ checks' = checks /\ closing' = closing
    BY <1>7, <2>1, LeaveFacts
  <2>3. ASSUME NEW r, Left(r, u, p) PROVE Goal
    BY <1>1, <2>2, <2>3 DEF Left
  <2>4. ASSUME UNCHANGED <<roomMap, player, view>> PROVE Goal
    BY <1>1, <1>2, <2>2, <2>4
  <2>. QED BY <1>7, <2>1, <2>3, <2>4, LeaveFacts
<1>8. ASSUME HandleChat \/ HandleGameData \/ HandleOther PROVE Goal
  BY <1>1, <1>2, <1>8 DEF HandleChat, HandleGameData, HandleOther
<1>9. ASSUME UNCHANGED vars PROVE Goal
  BY <1>1, <1>2, <1>9 DEF vars
<1>10. Goal
  BY <1>3, <1>4, <1>5, <1>6, <1>7, <1>8, <1>9 DEF Next, Handle, Aside
<1>11. /\ link' \in [Clients -> {"none", "open", "closed"}] /\ pid' \in [Clients -> 0..Total]
       /\ playerList' \in [Ids -> Clients \cup {NoOne}] /\ alive' \subseteq Clients
       /\ free' \in Seq(Ids)
  BY IdNext
<1>12. \A i \in 1..Len(free') : free'[i] \in Ids
  BY <1>11, ElementOfSeq
<1>13. lost' \subseteq {c \in Clients : link'[c] = "closed"}
  BY LostNext
<1>14. kills' \subseteq Ids \X Clients \X Clients
  BY KillsNext
<1>. QED BY <1>10, <1>11, <1>12, <1>13, <1>14 DEF TypeOK, PlayerType

LEMMA IdStep ==
  ASSUME IdInv, [Next]_vars PROVE IdInv'
BY TypeNext, StreamNext, IdNext, QueueNext DEF IdInv

LEMMA IdInit ==
  ASSUME Init PROVE IdInv
<1>1. stream \in [Clients -> Seq(Packet)]
  BY GameAssumption DEF Init, GameAssumption
<1>2. /\ link = [c \in Clients |-> "none"] /\ pid = [c \in Clients |-> 0] /\ queue = <<>>
      /\ free = [i \in Ids |-> i] /\ playerList = [i \in Ids |-> NoOne]
      /\ player = [c \in Clients |-> NewPlayer]
      /\ alive = {} /\ gameWorldMap = {} /\ roomMap = <<>> /\ checks = {} /\ closing = {}
      /\ kills = {} /\ lost = {}
  BY DEF Init
<1>3. Total \in Nat /\ NoOne \notin Clients
  BY GameAssumption DEF GameAssumption
<1>4. free \in Seq(Ids) /\ Len(free) = Total /\ queue \in Seq(Message) /\ Len(queue) = 0
  BY <1>2, <1>3 DEF Ids
<1>5. NewPlayer \in PlayerType
  BY DEF NewPlayer, PlayerType
<1>6. DOMAIN roomMap = {}
  BY <1>2
<1>7. TypeOK
  BY <1>2, <1>3, <1>4, <1>5, <1>6, ElementOfSeq DEF TypeOK, PlayerType
<1>8. IdsRecycled
  BY <1>2, <1>3 DEF IdsRecycled, IsInjective, Range
<1>9. HoldInv /\ QueueInv
  BY <1>2, <1>4 DEF HoldInv, QueueInv
<1>. QED BY <1>1, <1>4, <1>7, <1>8, <1>9 DEF IdInv

\* Every field, table and list of the server keeps its type, whatever the clients send and
\* however their packets, the closes and the session checks interleave (server.cc, player.h,
\* constant_ptr_list.h).
THEOREM GameTypes == Spec => []TypeOK
<1>1. Init => IdInv
  BY IdInit
<1>2. IdInv /\ [Next]_vars => IdInv'
  BY IdStep
<1>3. IdInv => TypeOK
  BY DEF IdInv
<1>. QED BY <1>1, <1>2, <1>3, PTL DEF Spec

LEMMA PacketsMeet ==
  ASSUME IdInv PROVE PacketMeetsItsPlayer
<1>1. queue \in Seq(Message) /\ DOMAIN queue = 1..Len(queue)
  BY LenProperties DEF IdInv
<1>2. \A i \in 1..Len(queue) : queue[i].uid \in Ids /\ playerList[queue[i].uid] = queue[i].from
  BY <1>1, ElementOfSeq, MessageFacts DEF IdInv, QueueInv
<1>. QED BY <1>1, <1>2, IdFacts DEF PacketMeetsItsPlayer, Range

\* An id is free once or belongs to one live player, and a packet meets the player of the
\* client that sent it however long it waits (constant_ptr_list.h:154-187, server.cc:69-87).
THEOREM IdsAndPackets == Spec => [](IdsRecycled /\ PacketMeetsItsPlayer)
<1>1. Init => IdInv
  BY IdInit
<1>2. IdInv /\ [Next]_vars => IdInv'
  BY IdStep
<1>3. IdInv => IdsRecycled /\ PacketMeetsItsPlayer
  BY PacketsMeet DEF IdInv
<1>. QED BY <1>1, <1>2, <1>3, PTL DEF Spec

-----------------------------------------------------------------------------
(* Players, rooms and what the clients know, of clients that log in once.  *)

\* A client that sends a second LOGIN before its first was handled is logged in again, out
\* of a room that still lists it: what follows is about clients that send one.
OneLogin == \A s \in Scenarios : \A c \in Clients : \A i, j \in 1..Len(s[c]) :
               s[c][i].op = "LOGIN" /\ s[c][j].op = "LOGIN" => i = j

RoomOf(c)   == <<player[c].game, player[c].room>>
Sits(r, c)  == c \in alive /\ player[c].state = CONNECTED_ROOM /\ r = RoomOf(c)
Place(r, i, c) == i \in Ids /\ playerList[i] = c /\ Sits(r, c)
Peer(c, d)  == d # c /\ Sits(RoomOf(c), c) /\ Sits(RoomOf(c), d)

\* The LOGIN of a client is in one place, and the player waits for it.
LoginInv ==
  /\ \A c \in Clients : \A i, j \in 1..Len(stream[c]) :
        stream[c][i].op = "LOGIN" /\ stream[c][j].op = "LOGIN" => i = j
  /\ \A i \in 1..Len(queue) : queue[i].pkt.op = "LOGIN" =>
        /\ player[queue[i].from].state = WAITING
        /\ \A k \in 1..Len(stream[queue[i].from]) : stream[queue[i].from][k].op # "LOGIN"
        /\ \A j \in 1..Len(queue) :
              queue[j].pkt.op = "LOGIN" /\ queue[j].from = queue[i].from => j = i

\* What the fields of a player say of it.
FieldInv ==
  \A c \in Clients : /\ link[c] = "none" => player[c].state = WAITING
                     /\ player[c].state # WAITING => player[c].mac = c
                     /\ player[c].state = CONNECTED_ROOM => player[c].room \in STRING /\ player[c].age > 0

\* The live players in a room, and nobody else, sit there at the places of their ids.
SeatInv ==
  /\ \A r \in DOMAIN roomMap : \A i \in DOMAIN roomMap[r] : Place(r, i, roomMap[r][i])
  /\ \A c \in Clients, i \in Ids : Place(RoomOf(c), i, c) => At(RoomOf(c), i, c)

ViewInv == /\ \A c \in Clients : link[c] = "none" => view[c] = {}
           /\ \A c \in alive : view[c] = {d \in alive : Peer(c, d)}

\* Who is heard, and who hears, logged in and stays in its game.
HeardInv ==
  \A c \in Clients : \A m \in heard[c] :
     /\ m[2] \in Clients /\ player[m[2]].game = player[c].game
     /\ player[c].state # WAITING /\ player[m[2]].state # WAITING

\* Who stays in its room is in a room the walk has yet to visit, or its session is known.
WalkInv ==
  /\ walk = [on |-> walk.on, left |-> walk.left, seen |-> walk.seen, got |-> walk.got,
             stayed |-> walk.stayed, been |-> walk.been]
  /\ ~walk.on => walk = NoWalk
  /\ walk.got \subseteq walk.been
  /\ \A c \in walk.stayed : c \in walk.got \/ \E r \in walk.left : Sits(r, c)
  /\ walk.on => \A r, c : Sits(r, c) => c \in walk.been

GameInv == IdInv /\ LoginInv /\ FieldInv /\ SeatInv /\ ViewInv /\ HeardInv /\ WalkInv

LEMMA QueuedClients ==
  ASSUME IdInv, NEW i \in 1..Len(queue)
  PROVE  queue[i] \in Message /\ queue[i].from \in Clients /\ link[queue[i].from] # "none"
<1>1. queue \in Seq(Message)
  BY DEF IdInv
<1>. QED BY <1>1, ElementOfSeq, MessageFacts DEF IdInv, QueueInv

\* Only a LOGIN ends the wait of a player and sets its game.
LEMMA WaitingSteps ==
  ASSUME IdInv, [Next]_vars, ~(HandleLogin /\ Msg.pkt.valid)
  PROVE  \A c \in Clients : /\ player'[c].game = player[c].game /\ player'[c].mac = player[c].mac
                            /\ player'[c].state = WAITING <=> player[c].state = WAITING
<1>. DEFINE Goal == \A c \in Clients : /\ player'[c].game = player[c].game
                                       /\ player'[c].mac = player[c].mac
                                       /\ player'[c].state = WAITING <=> player[c].state = WAITING
<1>1. LOGGED_IN # WAITING /\ CONNECTED_ROOM # WAITING
  BY DEF LOGGED_IN, WAITING, CONNECTED_ROOM
<1>2. ASSUME player' = player PROVE Goal
  BY <1>2
<1>3. ASSUME NEW c \in Clients, CreateConnectorCB(c) \/ Parse(c) \/ Close(c) PROVE Goal
  BY <1>2, <1>3 DEF CreateConnectorCB, Parse, Close
<1>4. ASSUME Aside PROVE Goal
  BY <1>2, <1>4, AsideSteps
<1>5. ASSUME HandleLogin PROVE Goal
  BY <1>2, <1>5 DEF HandleLogin
<1>6. ASSUME HandleConnect PROVE Goal
  <2>1. PICK u, p : u = Msg.uid /\ p = Me
    OBVIOUS
  <2>2. u \in Ids /\ p \in Clients
    BY <1>6, <2>1, ConnectFacts
  <2>3. ASSUME NEW r, Entered(r, u, p), player[p].state = LOGGED_IN PROVE Goal
    BY <1>1, <2>2, <2>3 DEF Entered
  <2>. QED BY <1>2, <1>6, <2>1, <2>3, ConnectFacts
<1>7. ASSUME HandleDisconnect \/ HandleLogout PROVE Goal
  <2>1. PICK u, p : u = Msg.uid /\ p = Me
    OBVIOUS
  <2>2. u \in Ids /\ p \in Clients
    BY <1>7, <2>1, LeaveFacts
  <2>3. ASSUME NEW r, Left(r, u, p), player[p].state = CONNECTED_ROOM PROVE Goal
    BY <1>1, <2>2, <2>3 DEF Left
  <2>. QED BY <1>2, <1>7, <2>1, <2>3, LeaveFacts
<1>8. ASSUME HandleChat \/ HandleGameData \/ HandleOther PROVE Goal
  BY <1>2, <1>8 DEF HandleChat, HandleGameData, HandleOther
<1>9. ASSUME UNCHANGED vars PROVE Goal
  BY <1>2, <1>9 DEF vars
<1>. QED BY <1>3, <1>4, <1>5, <1>6, <1>7, <1>8, <1>9 DEF Next, Handle, Aside

\* LOGINs are handled or dropped, and none is queued.
LEMMA LoginKept ==
  ASSUME IdInv, LoginInv, NEW n \in 0..1,
         \A i \in 1..Len(queue') : i + n \in 1..Len(queue) /\ queue'[i] = queue[i + n],
         \A c \in Clients : \E m \in Nat : \A k \in 1..Len(stream'[c]) :
            k + m \in 1..Len(stream[c]) /\ stream'[c][k] = stream[c][k + m],
         \A i \in 1..Len(queue) : i > n /\ queue[i].pkt.op = "LOGIN" => player'[queue[i].from].state = WAITING
  PROVE  LoginInv'
<1>1. ASSUME NEW c \in Clients, NEW i \in 1..Len(stream'[c]), NEW j \in 1..Len(stream'[c]),
             stream'[c][i].op = "LOGIN", stream'[c][j].op = "LOGIN"
      PROVE  i = j
  <2>1. PICK m \in Nat : \A k \in 1..Len(stream'[c]) :
                            k + m \in 1..Len(stream[c]) /\ stream'[c][k] = stream[c][k + m]
    OBVIOUS
  <2>2. /\ i + m \in 1..Len(stream[c]) /\ stream[c][i + m].op = "LOGIN"
        /\ j + m \in 1..Len(stream[c]) /\ stream[c][j + m].op = "LOGIN"
    BY <1>1, <2>1
  <2>3. i + m = j + m
    BY <2>2 DEF LoginInv
  <2>. QED BY <2>3
<1>2. ASSUME NEW i \in 1..Len(queue'), queue'[i].pkt.op = "LOGIN"
      PROVE  /\ player'[queue'[i].from].state = WAITING
             /\ \A k \in 1..Len(stream'[queue'[i].from]) : stream'[queue'[i].from][k].op # "LOGIN"
             /\ \A j \in 1..Len(queue') :
                   queue'[j].pkt.op = "LOGIN" /\ queue'[j].from = queue'[i].from => j = i
  <2>1. PICK c \in Clients : c = queue'[i].from
    BY QueuedClients
  <2>2. i + n \in 1..Len(queue) /\ i + n > n /\ queue[i + n].pkt.op = "LOGIN" /\ queue[i + n].from = c
    BY <1>2, <2>1
  <2>3. /\ \A k \in 1..Len(stream[c]) : stream[c][k].op # "LOGIN"
        /\ \A j \in 1..Len(queue) : queue[j].pkt.op = "LOGIN" /\ queue[j].from = c => j = i + n
    BY <2>2 DEF LoginInv
  <2>4. \A k \in 1..Len(stream'[c]) : stream'[c][k].op # "LOGIN"
    BY <2>3
  <2>5. \A j \in 1..Len(queue') : queue'[j].pkt.op = "LOGIN" /\ queue'[j].from = c => j + n = i + n
    BY <2>3
  <2>. QED BY <2>1, <2>2, <2>4, <2>5
<1>. QED BY <1>1, <1>2 DEF LoginInv

\* A packet that is not a LOGIN, or the only LOGIN of a client, is queued.
LEMMA LoginQueued ==
  ASSUME IdInv, LoginInv, NEW c \in Clients, NEW p, queue' = Append(queue, Queued(c, p)),
         Queued(c, p) \in Message, player' = player,
         \A d \in Clients : \E m \in Nat : \A k \in 1..Len(stream'[d]) :
            k + m \in 1..Len(stream[d]) /\ stream'[d][k] = stream[d][k + m],
         p.op = "LOGIN" => /\ player[c].state = WAITING
                           /\ \A k \in 1..Len(stream'[c]) : stream'[c][k].op # "LOGIN"
                           /\ \E k \in 1..Len(stream[c]) : stream[c][k].op = "LOGIN"
  PROVE  LoginInv'
<1>1. ASSUME NEW d \in Clients, NEW i \in 1..Len(stream'[d]), NEW j \in 1..Len(stream'[d]),
             stream'[d][i].op = "LOGIN", stream'[d][j].op = "LOGIN"
      PROVE  i = j
  <2>1. PICK m \in Nat : \A k \in 1..Len(stream'[d]) :
                            k + m \in 1..Len(stream[d]) /\ stream'[d][k] = stream[d][k + m]
    OBVIOUS
  <2>2. /\ i + m \in 1..Len(stream[d]) /\ stream[d][i + m].op = "LOGIN"
        /\ j + m \in 1..Len(stream[d]) /\ stream[d][j + m].op = "LOGIN"
    BY <1>1, <2>1
  <2>3. i + m = j + m
    BY <2>2 DEF LoginInv
  <2>. QED BY <2>3
<1>2. /\ queue \in Seq(Message) /\ Len(queue) \in Nat
      /\ \A i \in 1..Len(queue') : \/ queue'[i] = Queued(c, p) /\ i = Len(queue) + 1
                                   \/ i \in 1..Len(queue) /\ queue'[i] = queue[i]
  BY InAppend, LenProperties DEF IdInv
<1>3. Queued(c, p).from = c /\ Queued(c, p).pkt = p
  BY DEF Queued
<1>4. ASSUME NEW i \in 1..Len(queue), queue[i].pkt.op = "LOGIN"
      PROVE  /\ player[queue[i].from].state = WAITING
             /\ \A k \in 1..Len(stream'[queue[i].from]) : stream'[queue[i].from][k].op # "LOGIN"
             /\ \A j \in 1..Len(queue) : queue[j].pkt.op = "LOGIN" /\ queue[j].from = queue[i].from => j = i
             /\ p.op = "LOGIN" => queue[i].from # c
  <2>1. PICK d \in Clients : d = queue[i].from
    BY QueuedClients
  <2>2. /\ \A k \in 1..Len(stream[d]) : stream[d][k].op # "LOGIN"
        /\ player[d].state = WAITING
        /\ \A j \in 1..Len(queue) : queue[j].pkt.op = "LOGIN" /\ queue[j].from = d => j = i
    BY <1>4, <2>1 DEF LoginInv
  <2>3. \A k \in 1..Len(stream'[d]) : stream'[d][k].op # "LOGIN"
    BY <2>2
  <2>4. p.op = "LOGIN" => d # c
    BY <2>2
  <2>. QED BY <2>1, <2>2, <2>3, <2>4
<1>5. ASSUME NEW i \in 1..Len(queue'), queue'[i].pkt.op = "LOGIN"
      PROVE  /\ player'[queue'[i].from].state = WAITING
             /\ \A k \in 1..Len(stream'[queue'[i].from]) : stream'[queue'[i].from][k].op # "LOGIN"
  BY <1>2, <1>3, <1>4, <1>5
<1>6. ASSUME NEW i \in 1..Len(queue'), queue'[i].pkt.op = "LOGIN",
             NEW j \in 1..Len(queue'), queue'[j].pkt.op = "LOGIN", queue'[j].from = queue'[i].from
      PROVE  j = i
  <2>1. CASE i \in 1..Len(queue) /\ queue'[i] = queue[i] /\ j \in 1..Len(queue) /\ queue'[j] = queue[j]
    BY <1>4, <1>6, <2>1
  <2>2. CASE queue'[i] = Queued(c, p) \/ queue'[j] = Queued(c, p)
    BY <1>2, <1>3, <1>4, <1>6, <2>2
  <2>. QED BY <1>2, <2>1, <2>2
<1>. QED BY <1>1, <1>5, <1>6 DEF LoginInv

LEMMA StreamSteps ==
  ASSUME IdInv, [Next]_vars
  PROVE  /\ \A c \in Clients : \E m \in Nat : \A k \in 1..Len(stream'[c]) :
               k + m \in 1..Len(stream[c]) /\ stream'[c][k] = stream[c][k + m]
         /\ stream' # stream => \E c \in Clients : Parse(c)
<1>. DEFINE Goal == \A c \in Clients : \E m \in Nat : \A k \in 1..Len(stream'[c]) :
                       k + m \in 1..Len(stream[c]) /\ stream'[c][k] = stream[c][k + m]
<1>1. ASSUME stream' = stream PROVE Goal
  <2>1. \A c \in Clients : \A k \in 1..Len(stream'[c]) :
           k + 0 \in 1..Len(stream[c]) /\ stream'[c][k] = stream[c][k + 0]
    BY <1>1
  <2>. QED BY <2>1
<1>2. ASSUME NEW c \in Clients, Parse(c) PROVE Goal
  <2>1. stream[c] \in Seq(Packet) /\ stream[c] # <<>> /\ stream \in [Clients -> Seq(Packet)]
    BY <1>2, ParseFacts DEF IdInv
  <2>2. ASSUME NEW d \in Clients, d # c, stream'[d] = stream[d]
        PROVE  \E m \in Nat : \A k \in 1..Len(stream'[d]) :
                  k + m \in 1..Len(stream[d]) /\ stream'[d][k] = stream[d][k + m]
    <3>1. \A k \in 1..Len(stream'[d]) : k + 0 \in 1..Len(stream[d]) /\ stream'[d][k] = stream[d][k + 0]
      BY <2>2
    <3>. QED BY <3>1
  <2>3. CASE stream' = [stream EXCEPT ![c] = Tail(stream[c])]
    <3>1. stream'[c] = Tail(stream[c]) /\ \A d \in Clients : d # c => stream'[d] = stream[d]
      BY <2>1, <2>3
    <3>2. \A k \in 1..Len(stream'[c]) : k + 1 \in 1..Len(stream[c]) /\ stream'[c][k] = stream[c][k + 1]
      BY <2>1, <3>1, InTail
    <3>. QED BY <2>2, <3>1, <3>2
  <2>4. ASSUME NEW n \in 1..Len(stream[c]),
               stream' = [stream EXCEPT ![c] = SubSeq(stream[c], n + 1, Len(stream[c]))]
        PROVE  Goal
    <3>1. /\ stream'[c] = SubSeq(stream[c], n + 1, Len(stream[c]))
          /\ \A d \in Clients : d # c => stream'[d] = stream[d]
      BY <2>1, <2>4
    <3>2. \A k \in 1..Len(stream'[c]) : k + n \in 1..Len(stream[c]) /\ stream'[c][k] = stream[c][k + n]
      BY <2>1, <3>1, InSuffix
    <3>3. n \in Nat
      OBVIOUS
    <3>. QED BY <2>2, <3>1, <3>2, <3>3
  <2>. QED BY <1>2, <2>3, <2>4, ParseFacts
<1>3. ASSUME NEW c \in Clients, CreateConnectorCB(c) \/ Close(c) PROVE stream' = stream
  BY <1>3 DEF CreateConnectorCB, Close
<1>4. ASSUME Aside PROVE stream' = stream
  BY <1>4, AsideSteps
<1>5. ASSUME Handle PROVE stream' = stream
  BY <1>5 DEF Handle, HandleLogin, HandleConnect, HandleDisconnect, HandleLogout, HandleChat,
     HandleGameData, HandleOther, Handling, net
<1>6. ASSUME UNCHANGED vars PROVE stream' = stream
  BY <1>6 DEF vars, net
<1>. QED BY <1>1, <1>2, <1>3, <1>4, <1>5, <1>6 DEF Next, Aside

LEMMA LoginNext ==
  ASSUME IdInv, LoginInv, [Next]_vars PROVE LoginInv'
<1>1. \A c \in Clients : \E m \in Nat : \A k \in 1..Len(stream'[c]) :
         k + m \in 1..Len(stream[c]) /\ stream'[c][k] = stream[c][k + m]
  BY StreamSteps
<1>2. queue \in Seq(Message)
  BY DEF IdInv
<1>3. \A i \in 1..Len(queue) : queue[i].from \in Clients
  BY QueuedClients
<1>4. ASSUME queue' = queue PROVE LoginInv'
  <2>1. ~HandleLogin
    <3>1. ASSUME HandleLogin PROVE FALSE
      <4>1. queue # <<>> /\ queue' = Tail(queue)
        BY <3>1 DEF HandleLogin, Handling
      <4>2. Len(queue) \in Nat \ {0} /\ Len(queue') = Len(queue) - 1
        BY <1>2, <4>1, InTail
      <4>. QED BY <1>4, <4>2
    <3>. QED BY <3>1
  <2>2. \A i \in 1..Len(queue) : queue[i].pkt.op = "LOGIN" => player'[queue[i].from].state = WAITING
    BY <1>3, <2>1, WaitingSteps DEF LoginInv
  <2>3. /\ \A i \in 1..Len(queue') : i + 0 \in 1..Len(queue) /\ queue'[i] = queue[i + 0]
        /\ \A i \in 1..Len(queue) :
              i > 0 /\ queue[i].pkt.op = "LOGIN" => player'[queue[i].from].state = WAITING
    BY <1>4, <2>2
  <2>. QED BY <1>1, <2>3, LoginKept
<1>5. ASSUME queue # <<>>, queue' = Tail(queue) PROVE LoginInv'
  <2>1. \A i \in 1..Len(queue') : i + 1 \in 1..Len(queue) /\ queue'[i] = queue[i + 1]
    BY <1>2, <1>5, InTail
  <2>2. ASSUME NEW i \in 1..Len(queue), i > 1, queue[i].pkt.op = "LOGIN"
        PROVE  player'[queue[i].from].state = WAITING
    <3>1. player[queue[i].from].state = WAITING
      BY <2>2 DEF LoginInv
    <3>2. CASE HandleLogin /\ Msg.pkt.valid
      <4>1. PICK p : p = Me
        OBVIOUS
      <4>2. Msg.pkt.op = "LOGIN" /\ Msg.from = p
        BY <3>2, <4>1, HandlingFacts DEF HandleLogin
      <4>3. Msg = queue[1] /\ 1 \in 1..Len(queue)
        BY <1>2, <1>5, InTail DEF Msg
      <4>4. queue[i].from # p
        BY <2>2, <4>2, <4>3 DEF LoginInv
      <4>5. \A c \in Clients : c # p => player'[c] = player[c]
        BY <3>2, <4>1, LoginEffect
      <4>. QED BY <1>3, <3>1, <4>4, <4>5
    <3>. QED BY <1>3, <3>1, <3>2, WaitingSteps
  <2>. QED BY <1>1, <2>1, <2>2, LoginKept
<1>6. ASSUME NEW c \in Clients, Parse(c), queue' # queue PROVE LoginInv'
  <2>1. PICK p : p = Head(stream[c])
    OBVIOUS
  <2>2. /\ p \in Packet /\ queue' = Append(queue, Queued(c, p)) /\ player' = player
        /\ link[c] = "open" /\ stream[c] \in Seq(Packet) /\ stream[c] # <<>>
        /\ stream' = [stream EXCEPT ![c] = Tail(stream[c])]
        /\ p.op = "LOGIN" => GetPlayerState(pid[c]) = WAITING
    BY <1>6, <2>1, ParseFacts
  <2>3. pid[c] \in Ids /\ playerList[pid[c]] = c
    BY <2>2 DEF IdInv, HoldInv
  <2>4. GetPlayerState(pid[c]) = player[c].state
    BY <2>3, IdFacts DEF GetPlayerState
  <2>5. Queued(c, p) \in Message
    BY <2>2, <2>3 DEF Queued, Message
  <2>6. stream'[c] = Tail(stream[c])
    BY <2>2 DEF IdInv
  <2>7. /\ stream[c][1] = p /\ 1 \in 1..Len(stream[c])
        /\ \A k \in 1..Len(stream'[c]) : k + 1 \in 1..Len(stream[c]) /\ stream'[c][k] = stream[c][k + 1]
    BY <2>1, <2>2, <2>6, InTail
  <2>8. p.op = "LOGIN" => \A k \in 1..Len(stream'[c]) : stream'[c][k].op # "LOGIN"
    BY <2>7 DEF LoginInv
  <2>. QED BY <1>1, <2>2, <2>4, <2>5, <2>7, <2>8, LoginQueued
<1>7. ASSUME NEW c \in Clients, Close(c) PROVE LoginInv'
  <2>1. PICK p : p = [op |-> "LOGOUT"]
    OBVIOUS
  <2>2. /\ queue' = queue \/ queue' = Append(queue, Queued(c, p))
        /\ player' = player /\ link[c] = "open" /\ p.op # "LOGIN"
    BY <1>7, <2>1 DEF Close, Insert, Refused
  <2>3. Queued(c, p) \in Message
    BY <2>1, <2>2 DEF Queued, Message, IdInv, HoldInv
  <2>4. CASE queue' = queue
    BY <1>4, <2>4
  <2>. QED BY <1>1, <2>2, <2>3, <2>4, LoginQueued
<1>8. ASSUME NEW c \in Clients, CreateConnectorCB(c) PROVE queue' = queue
  BY <1>8 DEF CreateConnectorCB
<1>9. ASSUME Aside PROVE queue' = queue
  BY <1>9, AsideSteps
<1>10. ASSUME Handle PROVE queue # <<>> /\ queue' = Tail(queue)
  BY <1>10 DEF Handle, HandleLogin, HandleConnect, HandleDisconnect, HandleLogout, HandleChat,
     HandleGameData, HandleOther, Handling
<1>11. ASSUME UNCHANGED vars PROVE queue' = queue
  BY <1>11 DEF vars
<1>. QED BY <1>4, <1>5, <1>6, <1>7, <1>8, <1>9, <1>10, <1>11 DEF Next, Aside

LEMMA SeatFacts ==
  ASSUME IdInv, SeatInv
  PROVE  /\ \A r, i, c : At(r, i, c) <=> Place(r, i, c)
         /\ \A r, c : Sits(r, c) <=> \E i : At(r, i, c)
         /\ \A r, c : Sits(r, c) => c \in Clients /\ c \in alive
<1>1. alive \subseteq Clients
  BY DEF IdInv, TypeOK
<1>2. ASSUME NEW r, NEW i, NEW c, At(r, i, c) PROVE Place(r, i, c)
  BY <1>2 DEF At, SeatInv
<1>3. ASSUME NEW r, NEW i, NEW c, Place(r, i, c) PROVE At(r, i, c)
  <2>1. i \in Ids /\ c \in Clients /\ r = RoomOf(c)
    BY <1>1, <1>3 DEF Place, Sits
  <2>. QED BY <1>3, <2>1 DEF SeatInv
<1>4. ASSUME NEW r, NEW c, Sits(r, c) PROVE \E i : Place(r, i, c)
  <2>1. PICK i \in Ids : playerList[i] = c
    BY <1>4, IdFacts DEF Sits
  <2>. QED BY <1>4, <2>1 DEF Place
<1>5. \A r, c : Sits(r, c) => c \in Clients /\ c \in alive
  BY <1>1 DEF Sits
<1>. QED BY <1>2, <1>3, <1>4, <1>5 DEF Place

LEMMA ViewFacts ==
  ASSUME IdInv, SeatInv, ViewInv, NEW c \in alive, NEW d
  PROVE  d \in view[c] <=> d # c /\ \E r : Sits(r, c) /\ Sits(r, d)
<1>1. d \in view[c] <=> d \in alive /\ Peer(c, d)
  BY DEF ViewInv
<1>2. Peer(c, d) <=> d # c /\ \E r : Sits(r, c) /\ Sits(r, d)
  BY DEF Peer, Sits
<1>. QED BY <1>1, <1>2, SeatFacts

LEMMA SeatsFrom ==
  ASSUME \A r, i, c : At(r, i, c)' <=> Place(r, i, c)' PROVE SeatInv'
<1>1. ASSUME NEW r \in DOMAIN roomMap', NEW i \in DOMAIN roomMap'[r]
      PROVE  Place(r, i, roomMap[r][i])'
  <2>1. PICK c : c = roomMap'[r][i]
    OBVIOUS
  <2>2. At(r, i, c)'
    BY <2>1 DEF At
  <2>3. Place(r, i, c)'
    BY <2>2
  <2>. QED BY <2>1, <2>3 DEF Place, Sits, RoomOf
<1>2. ASSUME NEW c \in Clients, NEW i \in Ids, Place(RoomOf(c), i, c)' PROVE At(RoomOf(c), i, c)'
  <2>1. PICK r : r = RoomOf(c)'
    OBVIOUS
  <2>2. Place(r, i, c)'
    BY <1>2, <2>1 DEF Place, Sits
  <2>3. At(r, i, c)'
    BY <2>2
  <2>. QED BY <2>1, <2>3 DEF At
<1>. QED BY <1>1, <1>2 DEF SeatInv

LEMMA ViewsFrom ==
  ASSUME \A c \in Clients : link'[c] = "none" => view'[c] = {},
         \A c \in alive' : \A d : d \in view'[c] <=> d # c /\ \E r : Sits(r, c)' /\ Sits(r, d)'
  PROVE  ViewInv'
<1>1. ASSUME NEW c \in alive' PROVE view'[c] = {d \in alive : Peer(c, d)}'
  <2>1. \A d : Peer(c, d)' <=> d # c /\ \E r : Sits(r, c)' /\ Sits(r, d)'
    BY DEF Peer, Sits
  <2>2. \A d, r : Sits(r, d)' => d \in alive'
    BY DEF Sits
  <2>. QED BY <2>1, <2>2
<1>. QED BY <1>1 DEF ViewInv

RoomsInv == FieldInv /\ SeatInv /\ ViewInv

\* Nobody sits down or gets up.
LEMMA SeatsStay ==
  ASSUME IdInv, RoomsInv, roomMap' = roomMap, view' = view,
         \A r, c : Sits(r, c)' <=> Sits(r, c),
         \A r, i, c : Place(r, i, c)' <=> Place(r, i, c),
         \A c \in Clients : link'[c] = "none" => link[c] = "none",
         \A c \in alive' : c \in alive \/ (view[c] = {} /\ \A r : ~Sits(r, c))
  PROVE  SeatInv' /\ ViewInv'
<1>1. \A r, i, c : At(r, i, c)' <=> Place(r, i, c)'
  BY SeatFacts DEF At, RoomsInv
<1>2. \A c \in Clients : link'[c] = "none" => view'[c] = {}
  BY DEF RoomsInv, ViewInv
<1>3. ASSUME NEW c \in alive', NEW d
      PROVE  d \in view'[c] <=> d # c /\ \E r : Sits(r, c)' /\ Sits(r, d)'
  BY ViewFacts DEF RoomsInv
<1>. QED BY <1>1, <1>2, <1>3, SeatsFrom, ViewsFrom

LEMMA PlayersStay ==
  ASSUME IdInv, RoomsInv, UNCHANGED <<roomMap, view, player, playerList, alive>>,
         \A c \in Clients : link'[c] = "none" => link[c] = "none"
  PROVE  RoomsInv'
<1>1. /\ \A r, c : Sits(r, c)' <=> Sits(r, c)
      /\ \A r, i, c : Place(r, i, c)' <=> Place(r, i, c)
  BY DEF Sits, Place, RoomOf
<1>2. roomMap' = roomMap /\ view' = view /\ \A c \in alive' : c \in alive
  OBVIOUS
<1>3. SeatInv' /\ ViewInv'
  BY <1>1, <1>2, SeatsStay
<1>4. FieldInv'
  BY DEF RoomsInv, FieldInv
<1>. QED BY <1>4, <1>3 DEF RoomsInv

LEMMA CreateRooms ==
  ASSUME IdInv, RoomsInv, NEW c \in Clients, CreateConnectorCB(c) PROVE RoomsInv'
<1>1. PICK h : h = Head(free)
  OBVIOUS
<1>2. /\ link[c] = "none" /\ link' = [link EXCEPT ![c] = "open"] /\ free # <<>>
      /\ playerList' = [playerList EXCEPT ![h] = c] /\ alive' = alive \cup {c}
      /\ UNCHANGED <<player, roomMap, view>>
  BY <1>1 DEF CreateConnectorCB, known
<1>3. h \in Ids /\ playerList[h] = NoOne
  <2>1. h \in Range(free) /\ h \in Ids
    BY <1>1, <1>2, FreeTail, InTail DEF IdInv, IdsRecycled
  <2>. QED BY <2>1 DEF IdInv, IdsRecycled
<1>4. player[c].state = WAITING /\ view[c] = {}
  BY <1>2 DEF RoomsInv, FieldInv, ViewInv
<1>5. WAITING # CONNECTED_ROOM
  BY DEF WAITING, CONNECTED_ROOM
<1>6. \A r, d : Sits(r, d)' <=> Sits(r, d)
  BY <1>2, <1>4, <1>5 DEF Sits, RoomOf
<1>7. \A i \in Ids : i # h => playerList'[i] = playerList[i]
  BY <1>2, IdFacts
<1>8. playerList'[h] = c
  BY <1>2, <1>3, IdFacts
<1>9. \A r : ~Sits(r, c) /\ ~Sits(r, NoOne)
  BY <1>4, <1>5, IdFacts DEF Sits
<1>10. \A r, i, d : Place(r, i, d)' <=> Place(r, i, d)
  BY <1>3, <1>6, <1>7, <1>8, <1>9 DEF Place
<1>11. \A d \in Clients : link'[d] = "none" => link[d] = "none"
  BY <1>2 DEF IdInv, TypeOK
<1>12. roomMap' = roomMap /\ view' = view
       /\ \A d \in alive' : d \in alive \/ (view[d] = {} /\ \A r : ~Sits(r, d))
  BY <1>2, <1>4, <1>9
<1>13. SeatInv' /\ ViewInv'
  BY <1>6, <1>10, <1>11, <1>12, SeatsStay
<1>14. FieldInv'
  BY <1>2, <1>11 DEF RoomsInv, FieldInv
<1>. QED BY <1>13, <1>14 DEF RoomsInv

LEMMA LoginRooms ==
  ASSUME IdInv, RoomsInv, LoginInv, HandleLogin PROVE RoomsInv'
<1>1. UNCHANGED <<roomMap, view, playerList, alive, link>>
  BY HandlingFacts DEF HandleLogin, net, ids, known
<1>2. PICK p : p = Me
  OBVIOUS
<1>3. CASE ~Msg.pkt.valid
  <2>1. player' = player
    BY <1>3 DEF HandleLogin
  <2>. QED BY <1>1, <2>1, PlayersStay
<1>4. CASE Msg.pkt.valid
  <2>1. Msg.pkt.op = "LOGIN" /\ Msg.from = p /\ p \in Clients /\ queue # <<>> /\ link[p] # "none"
    BY <1>2, HandlingFacts DEF HandleLogin
  <2>2. Msg = queue[1] /\ 1 \in 1..Len(queue)
    BY <2>1, InTail DEF Msg, IdInv
  <2>3. player[p].state = WAITING
    BY <2>1, <2>2 DEF LoginInv
  <2>4. /\ \A c \in Clients : c # p => player'[c] = player[c]
        /\ player'[p].state = LOGGED_IN /\ player'[p].mac = p
    BY <1>2, <1>4, LoginEffect
  <2>5. WAITING # CONNECTED_ROOM /\ LOGGED_IN # CONNECTED_ROOM
    BY DEF WAITING, LOGGED_IN, CONNECTED_ROOM
  <2>6. alive \subseteq Clients
    BY DEF IdInv, TypeOK
  <2>7. \A r, c : Sits(r, c)' <=> Sits(r, c)
    BY <1>1, <2>3, <2>4, <2>5, <2>6 DEF Sits, RoomOf
  <2>8. \A r, i, c : Place(r, i, c)' <=> Place(r, i, c)
    BY <1>1, <2>7 DEF Place
  <2>9. /\ roomMap' = roomMap /\ view' = view /\ \A c \in alive' : c \in alive
        /\ \A c \in Clients : link'[c] = "none" => link[c] = "none"
    BY <1>1
  <2>10. SeatInv' /\ ViewInv'
    BY <2>7, <2>8, <2>9, SeatsStay
  <2>11. FieldInv'
    BY <1>1, <2>1, <2>4, <2>5 DEF RoomsInv, FieldInv
  <2>. QED BY <2>10, <2>11 DEF RoomsInv
<1>. QED BY <1>3, <1>4

LEMMA ConnectRooms ==
  ASSUME IdInv, RoomsInv, HandleConnect PROVE RoomsInv'
<1>1. PICK u, p : u = Msg.uid /\ p = Me
  OBVIOUS
<1>2. /\ u \in Ids /\ p \in Clients /\ playerList[u] = p /\ p \in alive /\ link[p] # "none"
      /\ UNCHANGED <<playerList, alive, link>>
  BY <1>1, HandlingFacts, ConnectFacts DEF HandleConnect
<1>3. CASE UNCHANGED <<roomMap, player, view>>
  BY <1>2, <1>3, PlayersStay
<1>4. ASSUME NEW room \in STRING, NEW r, r = <<player[p].game, room>>, Entered(r, u, p),
             player[p].state = LOGGED_IN
      PROVE  RoomsInv'
  <2>1. r[2] = room
    BY <1>4
  <2>2. LOGGED_IN # CONNECTED_ROOM /\ WAITING # LOGGED_IN /\ WAITING # CONNECTED_ROOM
    BY DEF LOGGED_IN, WAITING, CONNECTED_ROOM
  <2>3. \A q : ~Sits(q, p)
    BY <1>4, <2>2 DEF Sits
  <2>4. \A c : ~At(r, u, c)
    BY <1>2, <2>3, SeatFacts DEF Place, RoomsInv
  <2>5. /\ \A q, i, c : At(q, i, c)' <=> At(q, i, c) \/ (q = r /\ i = u /\ c = p)
        /\ player'[p].age > 0
    BY <1>4, <2>4 DEF Entered
  <2>6. player' \in [Clients -> PlayerType]
    BY <1>4, <2>4 DEF Entered
  <2>7. \A c \in Clients : /\ player'[c].game = player[c].game /\ player'[c].mac = player[c].mac
                           /\ player'[c].age >= player[c].age
                           /\ player'[c].state = IF c = p THEN CONNECTED_ROOM ELSE player[c].state
                           /\ player'[c].room = IF c = p THEN r[2] ELSE player[c].room
    BY <1>4, <2>4 DEF Entered
  <2>8. \A d : \A c \in Clients : d \in view'[c] <=> \/ d \in view[c]
                                                     \/ c = p /\ \E i : At(r, i, d)
                                                     \/ c # p /\ d = p /\ \E i : At(r, i, c)
    BY <1>4, <2>4 DEF Entered
  <2>9. \A q, c : Sits(q, c)' <=> Sits(q, c) \/ (q = r /\ c = p)
    <3>1. ASSUME NEW q, NEW c \in Clients, c # p PROVE Sits(q, c)' <=> Sits(q, c)
      BY <1>2, <2>7, <3>1 DEF Sits, RoomOf
    <3>2. ASSUME NEW q PROVE Sits(q, p)' <=> q = r
      BY <1>2, <1>4, <2>1, <2>7, <3>2 DEF Sits, RoomOf
    <3>3. alive' \subseteq Clients
      BY <1>2 DEF IdInv, TypeOK
    <3>4. \A q, c : Sits(q, c) \/ Sits(q, c)' => c \in Clients
      BY <1>2, <3>3 DEF Sits
    <3>. QED BY <1>2, <2>3, <3>1, <3>2, <3>4
  <2>10. \A q, i, c : At(q, i, c)' <=> Place(q, i, c)'
    <3>1. ASSUME NEW q, NEW i, NEW c PROVE Place(q, i, c)' <=> i \in Ids /\ playerList[i] = c /\ Sits(q, c)'
      BY <1>2 DEF Place
    <3>2. \A i \in Ids : playerList[i] = p <=> i = u
      BY <1>2, IdFacts
    <3>3. \A q, i, c : At(q, i, c) <=> i \in Ids /\ playerList[i] = c /\ Sits(q, c)
      BY SeatFacts DEF Place, RoomsInv
    <3>. QED BY <1>2, <2>9, <2>5, <3>1, <3>2, <3>3
  <2>11. SeatInv'
    BY <2>10, SeatsFrom
  <2>12. \A c \in Clients : link'[c] = "none" => view'[c] = {}
    <3>1. ASSUME NEW c \in Clients, link'[c] = "none", NEW d PROVE d \notin view'[c]
      <4>1. c # p /\ view[c] = {} /\ player[c].state = WAITING
        BY <1>2, <3>1 DEF RoomsInv, ViewInv, FieldInv
      <4>2. ~\E i : At(r, i, c)
        BY <2>2, <4>1, SeatFacts DEF RoomsInv, Sits
      <4>. QED BY <2>8, <4>1, <4>2
    <3>. QED BY <3>1
  <2>13. ASSUME NEW c \in alive', NEW d
         PROVE  d \in view'[c] <=> d # c /\ \E q : Sits(q, c)' /\ Sits(q, d)'
    <3>1. c \in alive /\ c \in Clients
      BY <1>2 DEF IdInv, TypeOK
    <3>2. d \in view[c] <=> d # c /\ \E q : Sits(q, c) /\ Sits(q, d)
      BY <3>1, ViewFacts DEF RoomsInv
    <3>3. \A x : (\E i : At(r, i, x)) <=> Sits(r, x)
      BY SeatFacts DEF RoomsInv
    <3>4. d \in view'[c] <=> \/ d \in view[c]
                             \/ c = p /\ Sits(r, d)
                             \/ c # p /\ d = p /\ Sits(r, c)
      BY <2>8, <3>1, <3>3
    <3>. QED BY <2>3, <2>9, <3>2, <3>4
  <2>14. ViewInv'
    BY <2>12, <2>13, ViewsFrom
  <2>15. FieldInv'
    <3>1. ASSUME NEW c \in Clients, c # p
          PROVE  /\ link'[c] = "none" => player'[c].state = WAITING
                 /\ player'[c].state # WAITING => player'[c].mac = c
                 /\ player'[c].state = CONNECTED_ROOM => player'[c].room \in STRING
      BY <1>2, <2>7, <3>1 DEF RoomsInv, FieldInv
    <3>2. ASSUME NEW c \in Clients, c # p, player'[c].state = CONNECTED_ROOM PROVE player'[c].age > 0
      <4>1. player[c].age > 0 /\ player'[c].age >= player[c].age
        BY <2>7, <3>2 DEF RoomsInv, FieldInv
      <4>2. player[c].age \in Nat /\ player'[c].age \in Nat
        BY <2>6 DEF IdInv, TypeOK, PlayerType
      <4>. QED BY <4>1, <4>2
    <3>3. player'[p].mac = p
      BY <1>2, <1>4, <2>2, <2>7 DEF RoomsInv, FieldInv
    <3>. QED BY <1>2, <2>1, <2>7, <2>5, <3>1, <3>2, <3>3 DEF FieldInv
  <2>. QED BY <2>11, <2>14, <2>15 DEF RoomsInv
<1>. QED BY <1>1, <1>3, <1>4, ConnectFacts

\* A player that is in a room can leave it.
LEMMA SeatedCanLeave ==
  ASSUME IdInv, RoomsInv, NEW u \in Ids, NEW p \in alive, playerList[u] = p, Msg.from = p,
         player[p].state = CONNECTED_ROOM
  PROVE  CanLeave(u, p)
<1>1. PICK r : r = RoomOf(p)
  OBVIOUS
<1>2. GetPlayer(u) = p /\ p # NoOne /\ p \in Clients
  BY IdFacts DEF IdInv, TypeOK
<1>3. At(r, u, p)
  BY <1>1, SeatFacts DEF Place, Sits, RoomsInv
<1>4. r \in DOMAIN roomMap /\ u \in DOMAIN roomMap[r] /\ r[1] \in gameWorldMap
  BY <1>3 DEF At, IdInv, TypeOK
<1>5. player[p].room # NoOne
  BY <1>2, GameAssumption DEF RoomsInv, FieldInv, GameAssumption
<1>6. GetPlayerState(u) = CONNECTED_ROOM
  BY <1>2 DEF GetPlayerState
<1>. QED BY <1>1, <1>2, <1>4, <1>5, <1>6 DEF CanLeave, RoomOf

LEMMA LeaveRooms ==
  ASSUME IdInv, RoomsInv, HandleDisconnect \/ HandleLogout PROVE RoomsInv'
<1>1. PICK u, p : u = Msg.uid /\ p = Me
  OBVIOUS
<1>2. /\ u \in Ids /\ p \in Clients /\ playerList[u] = p /\ p \in alive /\ link[p] # "none"
      /\ link' = link /\ Msg.from = p /\ p # NoOne
  BY <1>1, HandlingFacts, LeaveFacts DEF HandleDisconnect, HandleLogout
<1>3. \/ UNCHANGED <<playerList, alive>>
      \/ playerList' = [playerList EXCEPT ![u] = NoOne] /\ alive' = alive \ {p}
  BY <1>1, <1>2 DEF HandleDisconnect, HandleLogout, ids
<1>4. /\ \A i \in Ids : playerList[i] = p <=> i = u
      /\ \A i \in Ids : i # u => playerList'[i] = playerList[i]
      /\ playerList'[u] \in {p, NoOne}
  BY <1>2, <1>3, IdFacts
<1>5. \A c : c # p => (c \in alive' <=> c \in alive)
  BY <1>3
<1>6. LOGGED_IN # CONNECTED_ROOM /\ WAITING # LOGGED_IN /\ WAITING # CONNECTED_ROOM
  BY DEF LOGGED_IN, WAITING, CONNECTED_ROOM
<1>7. alive \subseteq Clients /\ alive' \subseteq Clients
  BY <1>3 DEF IdInv, TypeOK
<1>. DEFINE Out == /\ player'[p].state # CONNECTED_ROOM /\ view'[p] = {}
                   /\ player'[p].mac = player[p].mac
                   /\ player'[p].state = WAITING <=> player[p].state = WAITING
                   /\ \A c \in Clients : c # p => player'[c] = player[c] /\ view'[c] \subseteq view[c]
                   /\ \A q, i, c : At(q, i, c)' <=> At(q, i, c) /\ c # p
                   /\ \A d : \A c \in alive : c # p => (d \in view'[c] <=> d \in view[c] /\ d # p)
<1>8. ASSUME UNCHANGED <<roomMap, player, view>>, ~CanLeave(u, p) PROVE Out
  <2>1. player[p].state # CONNECTED_ROOM
    BY <1>2, <1>8, SeatedCanLeave
  <2>2. \A q : ~Sits(q, p)
    BY <2>1 DEF Sits
  <2>3. \A q, i, c : At(q, i, c)' <=> At(q, i, c) /\ c # p
    <3>1. \A q, i : ~At(q, i, p)
      BY <2>2, SeatFacts DEF RoomsInv
    <3>2. \A q, i, c : At(q, i, c)' <=> At(q, i, c)
      BY <1>8 DEF At
    <3>. QED BY <3>1, <3>2
  <2>4. \A c \in alive : p \notin view[c]
    BY <2>2, ViewFacts DEF RoomsInv
  <2>5. view[p] = {}
    <3>1. \A d : d \notin view[p]
      BY <1>2, <2>2, ViewFacts DEF RoomsInv
    <3>. QED BY <3>1
  <2>. QED BY <1>8, <2>1, <2>3, <2>4, <2>5
<1>9. ASSUME NEW r, r = <<player[p].game, player[p].room>>, Left(r, u, p),
             player[p].state = CONNECTED_ROOM
      PROVE  Out
  <2>1. /\ player'[p].state = LOGGED_IN /\ view'[p] = {} /\ player'[p].mac = player[p].mac
        /\ \A c \in Clients : c # p => player'[c] = player[c]
        /\ \A q, i, c : At(q, i, c)' <=> At(q, i, c) /\ ~(q = r /\ i = u)
        /\ \A d : \A c \in Clients : c # p => (d \in view'[c] <=> /\ d \in view[c]
                                                                  /\ d = p => ~\E i : At(r, i, c)')
    BY <1>2, <1>9 DEF Left
  <2>2. LOGGED_IN # CONNECTED_ROOM /\ player[p].state # WAITING /\ player'[p].state # WAITING
    BY <1>6, <1>9, <2>1
  <2>3. ASSUME NEW q, NEW i, At(q, i, p) PROVE q = r /\ i = u
    <3>1. Place(q, i, p)
      BY <2>3, SeatFacts DEF RoomsInv
    <3>. QED BY <1>4, <1>9, <3>1 DEF Place, Sits, RoomOf
  <2>4. \A c : At(r, u, c) => c = p
    BY <1>2, SeatFacts DEF Place, RoomsInv
  <2>5. \A q, i, c : At(q, i, c)' <=> At(q, i, c) /\ c # p
    BY <2>1, <2>3, <2>4
  <2>6. ASSUME NEW c \in alive, c # p, p \in view[c] PROVE \E i : At(r, i, c)'
    <3>1. PICK q : Sits(q, c) /\ Sits(q, p)
      BY <2>6, ViewFacts DEF RoomsInv
    <3>2. q = r
      BY <1>9, <3>1 DEF Sits, RoomOf
    <3>3. \E i : At(r, i, c)
      BY <3>1, <3>2, SeatFacts DEF RoomsInv
    <3>. QED BY <2>5, <2>6, <3>3
  <2>7. ASSUME NEW c \in alive, c # p, NEW d PROVE d \in view'[c] <=> d \in view[c] /\ d # p
    BY <1>7, <2>1, <2>6, <2>7
  <2>8. \A c \in Clients : c # p => view'[c] \subseteq view[c]
    BY <2>1
  <2>. QED BY <2>1, <2>2, <2>5, <2>7, <2>8
<1>10. Out
  BY <1>1, <1>8, <1>9, LeaveFacts
<1>11. \A q, c : Sits(q, c)' <=> Sits(q, c) /\ c # p
  <2>1. \A q : ~Sits(q, p)'
    BY <1>10 DEF Sits
  <2>2. ASSUME NEW q, NEW c \in Clients, c # p PROVE Sits(q, c)' <=> Sits(q, c)
    BY <1>5, <1>10, <2>2 DEF Sits, RoomOf
  <2>3. \A q, c : Sits(q, c) \/ Sits(q, c)' => c \in Clients
    BY <1>7 DEF Sits
  <2>. QED BY <2>1, <2>2, <2>3
<1>12. \A q, i, c : At(q, i, c)' <=> Place(q, i, c)'
  <2>1. \A q, i, c : Place(q, i, c)' <=> i \in Ids /\ playerList'[i] = c /\ Sits(q, c)'
    BY DEF Place
  <2>2. \A q, i, c : At(q, i, c) <=> i \in Ids /\ playerList[i] = c /\ Sits(q, c)
    BY SeatFacts DEF Place, RoomsInv
  <2>3. \A q : ~Sits(q, NoOne)
    BY <1>7, IdFacts DEF Sits
  <2>. QED BY <1>4, <1>10, <1>11, <2>1, <2>2, <2>3
<1>13. SeatInv'
  BY <1>12, SeatsFrom
<1>14. \A c \in Clients : link'[c] = "none" => view'[c] = {}
  <2>1. ASSUME NEW c \in Clients, link[c] = "none" PROVE view'[c] = {}
    <3>1. c # p /\ view[c] = {}
      BY <1>2, <2>1 DEF RoomsInv, ViewInv
    <3>. QED BY <1>10, <2>1, <3>1
  <2>. QED BY <1>2, <2>1
<1>15. ASSUME NEW c \in alive', NEW d
       PROVE  d \in view'[c] <=> d # c /\ \E q : Sits(q, c)' /\ Sits(q, d)'
  <2>1. CASE c = p
    BY <1>10, <1>11, <2>1
  <2>2. CASE c # p
    <3>1. c \in alive
      BY <1>5, <2>2
    <3>2. d \in view[c] <=> d # c /\ \E q : Sits(q, c) /\ Sits(q, d)
      BY <3>1, ViewFacts DEF RoomsInv
    <3>3. d \in view'[c] <=> d \in view[c] /\ d # p
      BY <1>10, <2>2, <3>1
    <3>. QED BY <1>11, <2>2, <3>2, <3>3
  <2>. QED BY <2>1, <2>2
<1>16. ViewInv'
  BY <1>14, <1>15, ViewsFrom
<1>17. FieldInv'
  BY <1>2, <1>10 DEF RoomsInv, FieldInv
<1>. QED BY <1>13, <1>16, <1>17 DEF RoomsInv

LEMMA RoomsNext ==
  ASSUME IdInv, LoginInv, RoomsInv, [Next]_vars PROVE RoomsInv'
<1>1. ASSUME NEW c \in Clients, Parse(c) PROVE RoomsInv'
  BY <1>1, PlayersStay DEF Parse, ids, known
<1>2. ASSUME NEW c \in Clients, Close(c) PROVE RoomsInv'
  <2>1. \A d \in Clients : link'[d] = "none" => link[d] = "none"
    BY <1>2 DEF Close, IdInv, TypeOK
  <2>. QED BY <1>2, <2>1, PlayersStay DEF Close, ids, known
<1>3. ASSUME Aside PROVE RoomsInv'
  BY <1>3, AsideSteps, PlayersStay
<1>4. ASSUME HandleChat \/ HandleGameData \/ HandleOther PROVE RoomsInv'
  BY <1>4, PlayersStay DEF HandleChat, HandleGameData, HandleOther, Handling, net, ids, known
<1>5. ASSUME UNCHANGED vars PROVE RoomsInv'
  BY <1>5, PlayersStay DEF vars, net, ids, known
<1>. QED BY <1>1, <1>2, <1>3, <1>4, <1>5, CreateRooms, LoginRooms, ConnectRooms, LeaveRooms
         DEF Next, Handle, Aside

LEMMA HeardNext ==
  ASSUME IdInv, LoginInv, RoomsInv, HeardInv, [Next]_vars PROVE HeardInv'
<1>1. LOGGED_IN # WAITING /\ CONNECTED_ROOM # WAITING
  BY DEF LOGGED_IN, WAITING, CONNECTED_ROOM
<1>2. ASSUME heard' = heard PROVE HeardInv'
  <2>1. CASE HandleLogin /\ Msg.pkt.valid
    <3>1. PICK p : p = Me
      OBVIOUS
    <3>2. Msg.pkt.op = "LOGIN" /\ Msg.from = p /\ p \in Clients /\ queue # <<>>
      BY <2>1, <3>1, HandlingFacts DEF HandleLogin
    <3>3. Msg = queue[1] /\ 1 \in 1..Len(queue)
      BY <3>2, InTail DEF Msg, IdInv
    <3>4. player[p].state = WAITING
      BY <3>2, <3>3 DEF LoginInv
    <3>5. \A c \in Clients : c # p => player'[c] = player[c]
      BY <2>1, <3>1, LoginEffect
    <3>. QED BY <1>2, <3>4, <3>5 DEF HeardInv
  <2>2. CASE ~(HandleLogin /\ Msg.pkt.valid)
    <3>1. \A c \in Clients : /\ player'[c].game = player[c].game
                             /\ player'[c].state = WAITING <=> player[c].state = WAITING
      BY <2>2, WaitingSteps
    <3>. QED BY <1>2, <3>1 DEF HeardInv
  <2>. QED BY <2>1, <2>2
<1>3. ASSUME NEW p \in Clients, NEW who, NEW what, Hear(who, what), what[2] = p, player' = player,
             player[p].state # WAITING,
             \A c \in who : player[c].state # WAITING /\ player[c].game = player[p].game
      PROVE  HeardInv'
  <2>1. \A c \in Clients : heard'[c] = heard[c] \cup (IF c \in who THEN {what} ELSE {})
    BY <1>3 DEF Hear
  <2>. QED BY <1>3, <2>1 DEF HeardInv
<1>4. \A r, i, c : At(r, i, c) => c \in Clients /\ player[c].state = CONNECTED_ROOM /\ r[1] = player[c].game
  BY SeatFacts DEF Place, Sits, RoomOf, RoomsInv
<1>5. ASSUME HandleChat PROVE HeardInv'
  <2>1. PICK p : p = Me
    OBVIOUS
  <2>2. p \in Clients /\ GetPlayerState(Msg.uid) = player[p].state /\ player' = player
    BY <1>5, <2>1, HandlingFacts DEF HandleChat
  <2>3. CASE player[p].state = LOGGED_IN
    <3>1. PICK who, what : who = SpreadTo(p) /\ what = <<"chat", p>>
      OBVIOUS
    <3>2. Hear(who, what) /\ what[2] = p
      BY <1>5, <2>1, <2>2, <2>3, <3>1 DEF HandleChat
    <3>3. ASSUME NEW c \in who PROVE player[c].state # WAITING /\ player[c].game = player[p].game
      <4>1. PICK r \in DOMAIN roomMap : r[1] = player[p].game /\ c \in Members(r)
        BY <3>1 DEF SpreadTo
      <4>2. \E i : At(r, i, c)
        BY <4>1, MembersAt
      <4>. QED BY <1>1, <1>4, <4>1, <4>2
    <3>. QED BY <1>1, <1>3, <2>2, <2>3, <3>2, <3>3
  <2>4. CASE player[p].state # LOGGED_IN
    BY <1>2, <1>5, <2>2, <2>4 DEF HandleChat
  <2>. QED BY <2>3, <2>4
<1>6. ASSUME HandleGameData PROVE HeardInv'
  <2>1. PICK p : p = Me
    OBVIOUS
  <2>2. /\ p \in Clients /\ GetPlayerState(Msg.uid) = player[p].state /\ player' = player /\ p \in alive
    BY <1>6, <2>1, HandlingFacts DEF HandleGameData
  <2>3. CASE player[p].state = CONNECTED_ROOM
    <3>1. PICK who, what : who = TransferTo(p, Msg.pkt.to) /\ what = <<"data", p>>
      OBVIOUS
    <3>2. Hear(who, what) /\ what[2] = p
      BY <1>6, <2>1, <2>2, <2>3, <3>1 DEF HandleGameData
    <3>3. PICK r : r = RoomOf(p)
      OBVIOUS
    <3>4. r \in DOMAIN roomMap
      <4>1. Sits(r, p)
        BY <2>2, <2>3, <3>3 DEF Sits
      <4>. QED BY <4>1, SeatFacts DEF At, RoomsInv
    <3>5. ASSUME NEW c \in who PROVE player[c].state # WAITING /\ player[c].game = player[p].game
      <4>1. c \in Members(r)
        BY <3>1, <3>3 DEF TransferTo, RoomOf
      <4>2. \E i : At(r, i, c)
        BY <3>4, <4>1, MembersAt
      <4>3. r[1] = player[p].game
        BY <3>3 DEF RoomOf
      <4>. QED BY <1>1, <1>4, <4>2, <4>3
    <3>. QED BY <1>1, <1>3, <2>2, <2>3, <3>2, <3>5
  <2>4. CASE player[p].state # CONNECTED_ROOM
    BY <1>2, <1>6, <2>2, <2>4 DEF HandleGameData
  <2>. QED BY <2>3, <2>4
<1>7. ASSUME NEW c \in Clients, CreateConnectorCB(c) \/ Parse(c) \/ Close(c) PROVE heard' = heard
  BY <1>7 DEF CreateConnectorCB, Parse, Close, known
<1>8. ASSUME Aside PROVE heard' = heard
  BY <1>8, AsideSteps
<1>9. ASSUME \/ HandleLogin \/ HandleConnect \/ HandleDisconnect \/ HandleLogout \/ HandleOther
             \/ UNCHANGED vars
      PROVE  heard' = heard
  BY <1>9 DEF HandleLogin, HandleConnect, HandleDisconnect, HandleLogout, HandleOther, vars, known
<1>. QED BY <1>2, <1>5, <1>6, <1>7, <1>8, <1>9 DEF Next, Handle, Aside

LEMMA InSeated ==
  IdInv /\ SeatInv => \A c : c \in Seated <=> \E r : Sits(r, c)
<1>. SUFFICES ASSUME IdInv, SeatInv PROVE \A c : c \in Seated <=> \E r : Sits(r, c)
  OBVIOUS
<1>1. \A r, c : Sits(r, c) <=> r \in DOMAIN roomMap /\ c \in Members(r)
  BY SeatFacts, MembersAt DEF At
<1>. QED BY <1>1 DEF Seated

\* Who sits in a room before and after a step of the handle thread did not move.
LEMMA Unmoved ==
  ASSUME IdInv, HandleConnect \/ HandleDisconnect \/ HandleLogout,
         NEW q, NEW r, NEW c, Sits(q, c), Sits(r, c)'
  PROVE  r = q
<1>1. PICK u, p : u = Msg.uid /\ p = Me
  OBVIOUS
<1>2. c \in Clients /\ player[c].state = CONNECTED_ROOM /\ q = RoomOf(c)
  BY DEF Sits, IdInv, TypeOK
<1>3. player'[c].state = CONNECTED_ROOM /\ r = <<player'[c].game, player'[c].room>>
  BY DEF Sits, RoomOf
<1>4. LOGGED_IN # CONNECTED_ROOM
  BY DEF LOGGED_IN, CONNECTED_ROOM
<1>5. CASE HandleConnect
  <2>1. ASSUME NEW s, player[p].state = LOGGED_IN, Entered(s, u, p) PROVE r = q
    <3>1. c # p
      BY <1>2, <1>4, <2>1
    <3>. QED BY <1>2, <1>3, <2>1, <3>1 DEF Entered, RoomOf
  <2>. QED BY <1>1, <1>2, <1>3, <1>5, <2>1, ConnectFacts DEF RoomOf
<1>6. CASE HandleDisconnect \/ HandleLogout
  <2>1. ASSUME NEW s, Left(s, u, p) PROVE r = q
    <3>1. c # p
      BY <1>3, <1>4, <2>1 DEF Left
    <3>. QED BY <1>2, <1>3, <2>1, <3>1 DEF Left, RoomOf
  <2>. QED BY <1>1, <1>2, <1>3, <1>6, <2>1, LeaveFacts DEF RoomOf
<1>. QED BY <1>5, <1>6

\* Nobody but the handle thread's CONNECT, DISCONNECT and LOGOUT moves a player.
LEMMA NobodyMoves ==
  ASSUME IdInv, LoginInv, RoomsInv, [Next]_vars,
         ~(HandleConnect \/ HandleDisconnect \/ HandleLogout)
  PROVE  \A r, c : Sits(r, c)' <=> Sits(r, c)
<1>1. ASSUME UNCHANGED <<player, alive>> PROVE \A r, c : Sits(r, c)' <=> Sits(r, c)
  BY <1>1 DEF Sits, RoomOf
<1>2. WAITING # CONNECTED_ROOM /\ LOGGED_IN # CONNECTED_ROOM
  BY DEF WAITING, LOGGED_IN, CONNECTED_ROOM
<1>3. ASSUME NEW c \in Clients, CreateConnectorCB(c) PROVE \A r, d : Sits(r, d)' <=> Sits(r, d)
  <2>1. player' = player /\ alive' = alive \cup {c} /\ link[c] = "none"
    BY <1>3 DEF CreateConnectorCB
  <2>2. player[c].state = WAITING
    BY <2>1 DEF RoomsInv, FieldInv
  <2>. QED BY <1>2, <2>1, <2>2 DEF Sits, RoomOf
<1>4. ASSUME HandleLogin PROVE \A r, c : Sits(r, c)' <=> Sits(r, c)
  <2>1. PICK p : p = Me
    OBVIOUS
  <2>2. /\ Msg.pkt.op = "LOGIN" /\ Msg.from = p /\ p \in Clients /\ queue # <<>>
        /\ alive' = alive
    BY <1>4, <2>1, HandlingFacts DEF HandleLogin, ids
  <2>3. Msg = queue[1] /\ 1 \in 1..Len(queue)
    BY <2>2, InTail DEF Msg, IdInv
  <2>4. player[p].state = WAITING
    BY <2>2, <2>3 DEF LoginInv
  <2>5. CASE Msg.pkt.valid
    <3>1. player'[p].state = LOGGED_IN /\ \A c \in Clients : c # p => player'[c] = player[c]
      BY <1>4, <2>1, <2>5, LoginEffect
    <3>2. alive \subseteq Clients
      BY DEF IdInv, TypeOK
    <3>. QED BY <1>2, <2>2, <2>4, <3>1, <3>2 DEF Sits, RoomOf
  <2>6. CASE ~Msg.pkt.valid
    BY <1>1, <1>4, <2>2, <2>6 DEF HandleLogin
  <2>. QED BY <2>5, <2>6
<1>5. ASSUME NEW c \in Clients, Parse(c) \/ Close(c) PROVE UNCHANGED <<player, alive>>
  BY <1>5 DEF Parse, Close, ids
<1>6. ASSUME Aside PROVE UNCHANGED <<player, alive>>
  BY <1>6, AsideSteps
<1>7. ASSUME HandleChat \/ HandleGameData \/ HandleOther PROVE UNCHANGED <<player, alive>>
  BY <1>7 DEF HandleChat, HandleGameData, HandleOther, ids
<1>8. ASSUME UNCHANGED vars PROVE UNCHANGED <<player, alive>>
  BY <1>8 DEF vars, ids
<1>. QED BY <1>1, <1>3, <1>4, <1>5, <1>6, <1>7, <1>8 DEF Next, Handle, Aside

\* The walk through the rooms and what moves meanwhile.
LEMMA WalkNext ==
  ASSUME IdInv, LoginInv, RoomsInv, WalkInv, IdInv', RoomsInv', [Next]_vars PROVE WalkInv'
<1>1. \A c : c \in Seated' <=> \E r : Sits(r, c)'
  <2>1. IdInv' /\ SeatInv' => (\A c : c \in Seated <=> \E r : Sits(r, c))'
    BY InSeated, PTL
  <2>. QED BY <2>1 DEF RoomsInv
<1>2. CASE HandleConnect \/ HandleDisconnect \/ HandleLogout
  <2>1. walk' = IF walk.on THEN [walk EXCEPT !.stayed = @ \cap Seated', !.been = @ \cup Seated'] ELSE walk
    BY <1>2 DEF HandleConnect, HandleDisconnect, HandleLogout, Track
  <2>2. CASE ~walk.on
    BY <2>1, <2>2 DEF WalkInv, NoWalk
  <2>3. CASE walk.on
    <3>1. /\ walk'.on = walk.on /\ walk'.left = walk.left /\ walk'.seen = walk.seen
          /\ walk'.got = walk.got /\ walk'.stayed = walk.stayed \cap Seated'
          /\ walk'.been = walk.been \cup Seated'
          /\ walk' = [on |-> walk'.on, left |-> walk'.left, seen |-> walk'.seen, got |-> walk'.got,
                      stayed |-> walk'.stayed, been |-> walk'.been]
      BY <2>1, <2>3 DEF WalkInv
    <3>2. ASSUME NEW c \in walk'.stayed, c \notin walk'.got PROVE \E r \in walk'.left : Sits(r, c)'
      <4>1. PICK q \in walk.left : Sits(q, c)
        BY <3>1, <3>2 DEF WalkInv
      <4>2. PICK r : Sits(r, c)'
        BY <1>1, <3>1, <3>2
      <4>3. r = q
        BY <1>2, <4>1, <4>2, Unmoved
      <4>. QED BY <3>1, <4>1, <4>2, <4>3
    <3>3. walk'.got \subseteq walk'.been
      BY <3>1 DEF WalkInv
    <3>4. \A r, c : Sits(r, c)' => c \in walk'.been
      BY <1>1, <3>1
    <3>. QED BY <2>3, <3>1, <3>2, <3>3, <3>4 DEF WalkInv
  <2>. QED BY <2>2, <2>3
<1>3. CASE ~(HandleConnect \/ HandleDisconnect \/ HandleLogout)
  <2>1. \A r, c : Sits(r, c)' <=> Sits(r, c)
    BY <1>3, NobodyMoves
  <2>2. ASSUME walk' = walk PROVE WalkInv'
    BY <2>1, <2>2 DEF WalkInv
  <2>3. ASSUME WalkBegin PROVE WalkInv'
    <3>1. /\ walk' = [NoWalk EXCEPT !.on = TRUE, !.left = DOMAIN roomMap, !.stayed = Seated,
                                    !.been = Seated]
      BY <2>3 DEF WalkBegin
    <3>2. /\ walk'.on = TRUE /\ walk'.left = DOMAIN roomMap /\ walk'.got = {}
          /\ walk'.stayed = Seated /\ walk'.been = Seated
          /\ walk' = [on |-> walk'.on, left |-> walk'.left, seen |-> walk'.seen, got |-> walk'.got,
                      stayed |-> walk'.stayed, been |-> walk'.been]
      BY <3>1 DEF NoWalk
    <3>3. \A r, c : Sits(r, c) <=> r \in DOMAIN roomMap /\ c \in Members(r)
      BY SeatFacts, MembersAt DEF At, RoomsInv
    <3>4. \A c : c \in Seated <=> \E r : Sits(r, c)
      BY InSeated DEF RoomsInv
    <3>. QED BY <2>1, <3>2, <3>3, <3>4 DEF WalkInv
  <2>4. ASSUME WalkEnd PROVE WalkInv'
    <3>1. walk' = NoWalk
      BY <2>4 DEF WalkEnd
    <3>. QED BY <3>1 DEF WalkInv, NoWalk
  <2>5. ASSUME NEW r \in DOMAIN roomMap, PlayerSession(r) PROVE WalkInv'
    <3>1. PICK new : new = {player[c].mac : c \in Members(r)}
      OBVIOUS
    <3>2. /\ walk.on
          /\ walk' = [walk EXCEPT !.left = @ \ {r}, !.seen = @ \cup {r}, !.got = @ \cup new]
      BY <2>5, <3>1 DEF PlayerSession
    <3>3. /\ walk'.on = walk.on /\ walk'.left = walk.left \ {r} /\ walk'.got = walk.got \cup new
          /\ walk'.stayed = walk.stayed /\ walk'.been = walk.been
          /\ walk' = [on |-> walk'.on, left |-> walk'.left, seen |-> walk'.seen, got |-> walk'.got,
                      stayed |-> walk'.stayed, been |-> walk'.been]
      BY <3>2 DEF WalkInv
    <3>4. \A c : c \in Members(r) <=> Sits(r, c)
      BY SeatFacts, MembersAt DEF RoomsInv
    <3>5. \A c : Sits(r, c) => player[c].mac = c
      <4>1. WAITING # CONNECTED_ROOM
        BY DEF WAITING, CONNECTED_ROOM
      <4>. QED BY <4>1 DEF Sits, RoomsInv, FieldInv, IdInv, TypeOK
    <3>6. \A c : c \in new <=> Sits(r, c)
      BY <3>1, <3>4, <3>5
    <3>7. walk'.got \subseteq walk'.been
      BY <3>2, <3>3, <3>6 DEF WalkInv
    <3>8. ASSUME NEW c \in walk'.stayed, c \notin walk'.got PROVE \E q \in walk'.left : Sits(q, c)'
      <4>1. PICK q \in walk.left : Sits(q, c)
        BY <3>3, <3>8 DEF WalkInv
      <4>2. q # r
        BY <3>3, <3>6, <3>8, <4>1
      <4>. QED BY <2>1, <3>3, <4>1, <4>2
    <3>. QED BY <2>1, <3>2, <3>3, <3>7, <3>8 DEF WalkInv
  <2>6. ASSUME NEW k, SessionCheck(k) \/ SessionKill(k) PROVE walk' = walk
    BY <2>6 DEF SessionCheck, SessionKill
  <2>7. ASSUME NEW c \in Clients, CreateConnectorCB(c) \/ Parse(c) \/ Close(c) PROVE walk' = walk
    BY <2>7 DEF CreateConnectorCB, Parse, Close
  <2>8. ASSUME HandleLogin \/ HandleChat \/ HandleGameData \/ HandleOther \/ UNCHANGED vars
        PROVE  walk' = walk
    BY <2>8 DEF HandleLogin, HandleChat, HandleGameData, HandleOther, vars
  <2>. QED BY <1>3, <2>2, <2>3, <2>4, <2>5, <2>6, <2>7, <2>8 DEF Next, Handle
<1>. QED BY <1>2, <1>3

LEMMA GameStep ==
  ASSUME GameInv, [Next]_vars PROVE GameInv'
<1>1. IdInv' /\ RoomsInv' /\ LoginInv' /\ HeardInv'
  BY IdStep, LoginNext, RoomsNext, HeardNext DEF GameInv, RoomsInv
<1>2. WalkInv'
  BY <1>1, WalkNext DEF GameInv, RoomsInv
<1>. QED BY <1>1, <1>2 DEF GameInv, RoomsInv

LEMMA GameInit ==
  ASSUME OneLogin, Init PROVE GameInv
<1>1. IdInv
  BY IdInit
<1>2. /\ link = [c \in Clients |-> "none"] /\ queue = <<>> /\ roomMap = <<>> /\ alive = {}
      /\ player = [c \in Clients |-> NewPlayer] /\ stream \in Scenarios
      /\ view = [c \in Clients |-> {}] /\ heard = [c \in Clients |-> {}]
  BY DEF Init
<1>3. Len(queue) = 0 /\ DOMAIN roomMap = {}
  BY <1>2
<1>4. LoginInv
  BY <1>2, <1>3 DEF OneLogin, LoginInv
<1>5. FieldInv
  BY <1>2 DEF FieldInv, NewPlayer, WAITING, CONNECTED_ROOM
<1>6. SeatInv
  BY <1>2, <1>3 DEF SeatInv, Place, Sits
<1>7. ViewInv /\ HeardInv
  BY <1>2 DEF ViewInv, HeardInv
<1>8. WalkInv
  <2>1. walk = NoWalk
    BY DEF Init
  <2>. QED BY <2>1 DEF WalkInv, NoWalk
<1>. QED BY <1>1, <1>4, <1>5, <1>6, <1>7, <1>8 DEF GameInv

\* A set of ids that is not empty has a maximum.
LEMMA MaxId ==
  ASSUME NEW S \in SUBSET Ids, S # {} PROVE Max(S) \in S
<1>1. Total \in Nat
  BY GameAssumption DEF GameAssumption
<1>2. PICK T : T = {n \in Nat : \E i \in S : n = Total - i}
  OBVIOUS
<1>3. T \subseteq Nat /\ T # {}
  <2>1. PICK i \in S : i \in 1..Total
    BY DEF Ids
  <2>2. Total - i \in Nat
    BY <1>1, <2>1
  <2>. QED BY <1>2, <2>2
<1>4. PICK n \in T : \A m \in T : ~(<<m, n>> \in OpToRel(<, Nat))
  BY <1>3, WFMin, NatLessThanWellFounded, Zenon
<1>5. \A m \in T : ~(m < n)
  BY <1>3, <1>4, Zenon DEF OpToRel
<1>6. PICK i \in S : n = Total - i
  BY <1>2
<1>7. ASSUME NEW j \in S PROVE i >= j
  <2>1. i \in 1..Total /\ j \in 1..Total
    BY DEF Ids
  <2>2. Total - j \in T
    BY <1>1, <1>2, <2>1
  <2>. QED BY <1>1, <1>5, <1>6, <2>1, <2>2
<1>. QED BY <1>7 DEF Max

LEMMA RoomProperties ==
  ASSUME GameInv PROVE StateMatchesRoom /\ ViewsAgree /\ ScanShowsMember
<1>1. \A r, c : Sits(r, c) <=> r \in DOMAIN roomMap /\ c \in Members(r)
  BY SeatFacts, MembersAt DEF GameInv, At
<1>2. \A r, c : Sits(r, c) <=> c \in alive /\ player[c].state = CONNECTED_ROOM /\ r = RoomOf(c)
  BY DEF Sits
<1>3. StateMatchesRoom
  BY <1>1, <1>2 DEF StateMatchesRoom, InRoom, RoomOf
<1>4. ASSUME NEW c \in alive PROVE view[c] = UNION {Members(r) \ {c} : r \in InRoom(c)}
  <2>1. \A d : d \in view[c] <=> d # c /\ \E r : Sits(r, c) /\ Sits(r, d)
    BY ViewFacts DEF GameInv
  <2>2. \A d : d \in UNION {Members(r) \ {c} : r \in InRoom(c)}
               <=> d # c /\ \E r \in DOMAIN roomMap : c \in Members(r) /\ d \in Members(r)
    BY DEF InRoom
  <2>3. \A d : d \in view[c] <=> d \in UNION {Members(r) \ {c} : r \in InRoom(c)}
    BY <1>1, <2>1, <2>2
  <2>. QED BY <2>3
<1>5. ASSUME NEW r \in DOMAIN roomMap, Members(r) # {} PROVE RoomHostMac(roomMap[r]) \in Members(r)
  <2>1. \A i \in DOMAIN roomMap[r] : i \in Ids /\ Place(r, i, roomMap[r][i]) /\ roomMap[r][i] \in Clients
    BY SeatFacts DEF GameInv, At, Place
  <2>2. WAITING # CONNECTED_ROOM
    BY DEF WAITING, CONNECTED_ROOM
  <2>3. \A i \in DOMAIN roomMap[r] : /\ player[roomMap[r][i]].age > 0
                                     /\ player[roomMap[r][i]].mac = roomMap[r][i]
    BY <2>1, <2>2 DEF GameInv, FieldInv, Place, Sits
  <2>4. PICK old : old = {i \in DOMAIN roomMap[r] : player[roomMap[r][i]].age > 0}
    OBVIOUS
  <2>5. old = DOMAIN roomMap[r]
    BY <2>3, <2>4
  <2>6. old # {} /\ old \in SUBSET Ids
    BY <1>5, <2>1, <2>5 DEF Members
  <2>7. Max(old) \in DOMAIN roomMap[r]
    BY <2>5, <2>6, MaxId
  <2>8. RoomHostMac(roomMap[r]) = player[roomMap[r][Max(old)]].mac
    BY <2>4, <2>6 DEF RoomHostMac
  <2>. QED BY <2>3, <2>7, <2>8 DEF Members
<1>. QED BY <1>3, <1>4, <1>5 DEF ViewsAgree, ScanShowsMember

LEMMA PlayerProperties ==
  ASSUME GameInv PROVE SessionsOfPlayers /\ RoomPlayersAlive /\ HeardWithinGame
<1>1. SessionsOfPlayers
  BY DEF GameInv, WalkInv, SessionsOfPlayers
<1>2. RoomPlayersAlive
  BY DEF GameInv, SeatInv, Place, Sits, RoomPlayersAlive
<1>3. HeardWithinGame
  BY DEF GameInv, HeardInv, HeardWithinGame
<1>. QED BY <1>1, <1>2, <1>3

-----------------------------------------------------------------------------
\* The players' table and the free list agree, and a walk through the rooms gathers the sessions
\* of those who stay and of nobody who was in no room, while others come, go and move
\* (constant_ptr_list.h:154-187, server.cc:346-366 and 257-270, game_world.cc:143-156).
THEOREM PlayersStaySound == ASSUME OneLogin PROVE Spec => []PlayersSound
<1>1. Init => GameInv
  BY GameInit
<1>2. GameInv /\ [Next]_vars => GameInv'
  BY GameStep
<1>3. GameInv => PlayersSound
  BY PlayerProperties DEF PlayersSound, GameInv, IdInv
<1>. QED BY <1>1, <1>2, <1>3, PTL DEF Spec

\* No packet and no room meets the player of another client or a deleted one
\* (server.cc:69-87 and 310-315, game_room.h:32-33).
THEOREM NobodyMeetsTheDead == ASSUME OneLogin PROVE Spec => []NoDeletedPlayer
<1>1. Init => GameInv
  BY GameInit
<1>2. GameInv /\ [Next]_vars => GameInv'
  BY GameStep
<1>3. GameInv => NoDeletedPlayer
  BY PlayerProperties, PacketsMeet DEF NoDeletedPlayer, GameInv
<1>. QED BY <1>1, <1>2, <1>3, PTL DEF Spec

\* Players, rooms, what the members were told and who is shown as a host agree after every
\* packet, join, leave and lost connection (game_room.cc:29-172, server.cc:465-545).
THEOREM RoomsStayInAgreement == ASSUME OneLogin PROVE Spec => []RoomsAgree
<1>1. Init => GameInv
  BY GameInit
<1>2. GameInv /\ [Next]_vars => GameInv'
  BY GameStep
<1>3. GameInv => RoomsAgree
  BY RoomProperties DEF RoomsAgree
<1>. QED BY <1>1, <1>2, <1>3, PTL DEF Spec

\* Chats and game data reach clients of the sender's game only, also after the sender or the
\* hearer left (server.cc:607-655, game_room.cc:195-222).
THEOREM GamesStayApart == ASSUME OneLogin PROVE Spec => []HeardWithinGame
<1>1. Init => GameInv
  BY GameInit
<1>2. GameInv /\ [Next]_vars => GameInv'
  BY GameStep
<1>3. GameInv => HeardWithinGame
  BY PlayerProperties
<1>. QED BY <1>1, <1>2, <1>3, PTL DEF Spec
==============================================================================
